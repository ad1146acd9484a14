---------------------------- MODULE MCXhciMframe ----------------------------
(***************************************************************************)
(* Model-checking instance of XhciMframe: the bounds of MCXhciEvent.      *)
(***************************************************************************)
EXTENDS XhciMframe

MCShift == 2
MCLowBits == 1
MCWidth == 3
MCMaxT == 9
=============================================================================
