----------------------------- MODULE MCXhciEvent ----------------------------
(***************************************************************************)
(* Model-checking instance of XhciEvent.  A 4-slot event ring fills after *)
(* three events; a 1-bit MFINDEX wraps every second microframe and a      *)
(* 3-bit cache every eighth, so nine microframes cross four MFINDEX wraps *)
(* and one wrap of the cache, as 2^14 and 2^32 are crossed in the code.   *)
(***************************************************************************)
EXTENDS XhciEvent

MCShift == 2
MCLowBits == 1
MCWidth == 3
MCMaxT == 9
=============================================================================
