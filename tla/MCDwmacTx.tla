----------------------------- MODULE MCDwmacTx -----------------------------
(* Seven descriptors: the smallest ring in which xmit's cap of Ntd - 2     *)
(* queued descriptors exceeds the 4 cleanup keeps, so cleanup frees.       *)
EXTENDS DwmacTx

MCNtd == 7
\* Enough Blocks to wrap the ring and reuse five of its descriptors.
MCMaxSendWrap == 12
\* Enough Blocks to fill the ring to its cap with one more waiting.
MCMaxSendFull == 6
\* As many Blocks as the ring takes at its cap, so it cannot stay full.
MCMaxSendCap == 5
\* eswin's restart threshold, Ntd - 8 of 1024: one below xmit's cap of
\* Ntd - 2, so a ring filled to the cap restarts.
MCNearFull == 4
=============================================================================
