----------------------------- MODULE MCXhciRing -----------------------------
(***************************************************************************)
(* Model-checking instance of XhciRing.  A 4-slot ring (slot 3 holds the  *)
(* link TRB) and a write cursor bounded at 10 (24 for iso) let every run  *)
(* wrap the ring at least twice, so TRBs of three laps with alternating   *)
(* cycle bits meet in the same slots.                                     *)
(***************************************************************************)
EXTENDS XhciRing

MCShift == 2
\* isowrite queues without waiting, so its runs need more laps to branch.
MCMaxWp == [t \in {"bulk", "ctl", "iso"} |-> IF t = "iso" THEN 24 ELSE 10]
=============================================================================
