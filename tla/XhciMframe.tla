----------------------------- MODULE XhciMframe -----------------------------
(***************************************************************************)
(* A caller of µframe() (usbxhci.c), as isowrite calls it, running beside *)
(* the event ring of XhciEvent: the interrupt handler updates the cached  *)
(* ctlr->µframe on each MFINDEX wrap event while the caller combines the  *)
(* 14-bit MFINDEX register with the high bits of that cache.  The two     *)
(* loads of the expression are separate steps, and C leaves their order   *)
(* to the compiler: the build fixes one, so the model chooses it once.    *)
(***************************************************************************)
EXTENDS XhciEvent

VARIABLES
  upc,     \* "idle", "load1", "load2" or "cmp"
  uOrder,  \* "mf": MFINDEX is loaded first; "cache": ctlr->µframe first
  uA, uB,  \* the loaded MFINDEX low bits and cache
  uT0,     \* ghost: mf when the call began
  uSpan,   \* ghost: init ran during the call
  uRet     \* the value µframe() returned last

uVars == <<upc, uOrder, uA, uB, uT0, uSpan, uRet>>
allVars == <<vars, uVars>>

UCall ==
  /\ upc = "idle"
  /\ upc' = "load1" /\ uT0' = mf /\ uSpan' = FALSE
  /\ UNCHANGED <<uOrder, uA, uB, uRet>>

ULoad1 ==
  /\ upc = "load1"
  /\ IF uOrder = "mf" THEN uA' = mf % Low /\ uB' = uB
                      ELSE uB' = cached /\ uA' = uA
  /\ upc' = "load2"
  /\ UNCHANGED <<uOrder, uT0, uSpan, uRet>>

ULoad2 ==
  /\ upc = "load2"
  /\ IF uOrder = "mf" THEN uB' = cached /\ uA' = uA
                      ELSE uA' = mf % Low /\ uB' = uB
  /\ upc' = "cmp"
  /\ UNCHANGED <<uOrder, uT0, uSpan, uRet>>

\* while ((int)(µ - ctlr->µframe) < 0), the cache read again.
UCmp ==
  /\ upc = "cmp"
  /\ LET mu == uA + (uB - (uB % Low)) IN
       IF Negative(mu - cached)
         THEN upc' = "load1" /\ uRet' = uRet
         ELSE upc' = "idle" /\ uRet' = mu
  /\ UNCHANGED <<uOrder, uA, uB, uT0, uSpan>>

\* Every step of the event ring, the controller and recovery; a call
\* that init overtakes is marked, its result belongs to the old run.
EnvStep ==
  /\ Next
  /\ uSpan' = (uSpan \/ (resets' > resets /\ upc # "idle"))
  /\ UNCHANGED <<upc, uOrder, uA, uB, uT0, uRet>>

UStep == (UCall \/ ULoad1 \/ ULoad2 \/ UCmp) /\ UNCHANGED vars

MInit ==
  /\ Init
  /\ upc = "idle" /\ uOrder \in {"mf", "cache"}
  /\ uA = 0 /\ uB = 0 /\ uT0 = 0 /\ uSpan = FALSE /\ uRet = 0

MNext == EnvStep \/ UStep

MSpec == MInit /\ [][MNext]_allVars /\ Fairness

-----------------------------------------------------------------------------
\* µframe() returns the microframe count the controller had at some
\* instant of the call, extended to 32 bits: what isowrite relies on to
\* place isochronous TDs and to sleep until they are due.
MicroframeExact ==
  [][upc = "cmp" /\ upc' = "idle" /\ ~uSpan =>
       \E t \in uT0..mf : t % Wrap = uRet']_allVars
=============================================================================
