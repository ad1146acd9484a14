----------------------------- MODULE MCDwmacRx -----------------------------
(* A four-descriptor ring with the pool of the code, Nrb = 2*Nrd, enough   *)
(* packets to wrap the ring twice, and one fatal error.                    *)
EXTENDS DwmacRx

MCNrd == 4
MCNrb == 8
MCMaxPkts == 9
MCMaxFatal == 1
=============================================================================
