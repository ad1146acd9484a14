------------------------------ MODULE DwmacTx ------------------------------
(***************************************************************************)
(* The transmit side of the DWMAC4 ethernet driver (etherdwmac4.c), the    *)
(* generic and the eswin (EIC7700) variants: transmit() waking the kernel *)
(* process tproc, xmit moving Blocks from the output queue into the ring   *)
(* of Ntd descriptors, kick, restart and cleanup, the transmit parts of    *)
(* interrupt() with resumetx, and the transmit half of rproc's resetrxtx   *)
(* (txinit under tlock).  The variant is fixed when the controller is      *)
(* found, so it is chosen in Init and never changes.                       *)
(*                                                                         *)
(* cleanup is run both by tproc (from kick) and by the interrupt handler   *)
(* (from resumetx, on Txse) with nothing in common held, so its loop is    *)
(* split into the steps the C performs: the test of the descriptor, the    *)
(* read of tb[tdh], and the clearing and freeb of it.                      *)
(*                                                                         *)
(* A Block is a number 1..MaxSend, in the order the stack sends them.      *)
(***************************************************************************)
EXTENDS Integers, FiniteSets, SequencesExt

CONSTANTS
  Ntd,       \* descriptors in the transmit ring
  MaxSend,   \* bound on Blocks the stack sends
  MaxStops,  \* bound on stops of the transmit DMA (each raises Txse)
  MaxFatal,  \* bound on fatal DMA errors (Cdee|Fbee)
  Variants,  \* ctlr->variant values: subset of {"generic", "eswin"}
  NearFull   \* eswin's xmit calls restart when qlen exceeds it (Ntd - 8)

ASSUME /\ Ntd >= 4 /\ MaxSend \in Nat /\ MaxStops \in Nat /\ MaxFatal \in Nat
       /\ Variants \subseteq {"generic", "eswin"} /\ NearFull \in 0 .. Ntd - 2

Slots == 0 .. Ntd - 1
Blocks == 1 .. MaxSend
NoBlock == 0

\* NEXT(x, Ntd) of the ether drivers.
NEXT(x) == (x + 1) % Ntd

\* Queue length from head h to tail t, as xmit and cleanup compute it.
QLen(t, h) == (t + Ntd - h) % Ntd

VARIABLES
  oq,         \* edev->oq: Blocks waiting for xmit
  nsent,      \* Blocks the stack has sent so far
  wire,       \* Blocks the DMA engine has transmitted, in order
  dropped,    \* Blocks txinit freed before they were transmitted
  freed,      \* freed[b]: times freeb(b) ran
  tb,         \* ctlr->tb[i], NoBlock for nil
  tsts,       \* tdba[i].status: "zero", "own" or "done"
  tdh, tdt,   \* ctlr->tdh, ctlr->tdt
  hwh,        \* the DMA engine's current descriptor
  xtail,      \* the Xmittail register, as a descriptor index
  txrun,      \* Ctlrstart in Dmatxctl: the transmit DMA is running
  tim, trreq, \* ctlr->tim, ctlr->trreq
  needreset,  \* ctlr->needreset
  tie, txse,  \* Tie and Txse pending in Dma0sts
  lock,       \* holder of ctlr->tlock: "none", "tproc" or "rproc"
  tpc,        \* tproc's place
  tq,         \* xmit's local tdt
  nqd,        \* xmit's nqd > 0
  ql,         \* xmit's qlen, computed against ctlr->tdh when last assigned
  inloop,     \* the running kick was called inside xmit's loop (eswin)
  tc, tbp,    \* tproc's cleanup: local tdh and the Block it read
  ipc,        \* the interrupt handler's place
  idm,        \* the Dma0sts bits the handler read: [tie, txse]
  ic, ibp,    \* the handler's cleanup: local tdh and the Block it read
  stops,      \* transmit DMA stops so far
  fatals,     \* fatal errors so far
  variant     \* ctlr->variant

stack == <<oq, nsent>>
ring == <<wire, dropped, freed, tb, tsts, tdh, tdt, hwh, xtail, txrun>>
flags == <<tim, trreq, needreset, tie, txse, lock>>
tproc == <<tpc, tq, nqd, ql, inloop, tc, tbp>>
intr == <<ipc, idm, ic, ibp>>
bounds == <<stops, fatals>>
vars == <<stack, ring, flags, tproc, intr, bounds, variant>>

\* The Blocks the engine has put on the wire.
Sent == ToSet(wire)

\* freeb(b): nothing for nil, otherwise the Block goes back to the heap.
Free(f, b) == IF b = NoBlock THEN f ELSE [f EXCEPT ![b] = @ + 1]

Init ==
  /\ oq = <<>> /\ nsent = 0 /\ wire = <<>> /\ dropped = {}
  /\ freed = [b \in Blocks |-> 0]
  /\ tb = [i \in Slots |-> NoBlock] /\ tsts = [i \in Slots |-> "zero"]
  /\ tdh = 0 /\ tdt = 0 /\ hwh = 0 /\ xtail = 0 /\ txrun = TRUE
  /\ tim = FALSE /\ trreq = FALSE /\ needreset = FALSE
  /\ tie = FALSE /\ txse = FALSE /\ lock = "none"
  /\ tpc = "sleep" /\ tq = 0 /\ nqd = FALSE /\ ql = 0 /\ inloop = FALSE
  /\ tc = 0 /\ tbp = NoBlock
  /\ ipc = "idle" /\ idm = <<FALSE, FALSE>> /\ ic = 0 /\ ibp = NoBlock
  /\ stops = 0 /\ fatals = 0
  /\ variant \in Variants

-----------------------------------------------------------------------------
(* The protocol stack and the DMA engine.                                  *)

\* etheroq puts a Block on oq and calls transmit(): tim = trreq = 1, wakeup.
Transmit ==
  /\ nsent < MaxSend
  /\ oq' = Append(oq, nsent + 1)
  /\ nsent' = nsent + 1
  /\ tim' = TRUE /\ trreq' = TRUE
  /\ UNCHANGED <<ring, needreset, tie, txse, lock, tproc, intr, bounds>>

\* The engine sends the descriptor at its head while it is running, the
\* head is short of Xmittail and the descriptor is Own; Txioc raises Tie.
HwSend ==
  /\ txrun /\ hwh # xtail /\ tsts[hwh] = "own"
  /\ tsts' = [tsts EXCEPT ![hwh] = "done"]
  /\ wire' = Append(wire, tb[hwh])
  /\ hwh' = NEXT(hwh)
  /\ tie' = TRUE
  /\ UNCHANGED <<stack, dropped, freed, tb, tdh, tdt, xtail, txrun, tim,
                 trreq, needreset, txse, lock, tproc, intr, bounds>>

\* The transmit DMA stops (Ctlrstart cleared by the eswin kick(stop) or a
\* bus fault); the engine reports Txse.
HwStop ==
  /\ stops < MaxStops /\ txrun
  /\ txrun' = FALSE /\ txse' = TRUE
  /\ stops' = stops + 1
  /\ UNCHANGED <<stack, wire, dropped, freed, tb, tsts, tdh, tdt, hwh,
                 xtail, tim, trreq, needreset, tie, lock, tproc, intr,
                 fatals>>

\* A fatal DMA error: interrupt() sets needreset and wakes rproc.
Fatal ==
  /\ fatals < MaxFatal
  /\ needreset' = TRUE
  /\ fatals' = fatals + 1
  /\ UNCHANGED <<stack, ring, tim, trreq, tie, txse, lock, tproc, intr,
                 stops>>

-----------------------------------------------------------------------------
(* tproc and xmit.                                                         *)

\* sleep(tim | trreq) returns; tim = 0.
\* tim(): the condition tproc sleeps on.
Tim == tim \/ trreq

TWake ==
  /\ tpc = "sleep" /\ Tim
  /\ tim' = FALSE
  /\ tpc' = "xmit"
  /\ UNCHANGED <<stack, ring, trreq, needreset, tie, txse, lock, tq, nqd, ql,
                 inloop, tc, tbp, intr, bounds>>

\* xmit returns at once when needreset is set or canqlock(tlock) fails
\* (after ienable(Tie), which the model leaves implicit).
XmitBusy ==
  /\ tpc = "xmit" /\ (needreset \/ lock # "none")
  /\ tpc' = "post"
  /\ UNCHANGED <<stack, ring, flags, tq, nqd, ql, inloop, tc, tbp, intr,
                 bounds>>

\* canqlock succeeds; tdt = ctlr->tdt; qlen = (tdt + Ntd - ctlr->tdh) % Ntd.
XmitLock ==
  /\ tpc = "xmit" /\ ~needreset /\ lock = "none"
  /\ lock' = "tproc"
  /\ tq' = tdt /\ nqd' = FALSE /\ ql' = QLen(tdt, tdh)
  /\ tpc' = "fill"
  /\ UNCHANGED <<stack, ring, tim, trreq, needreset, tie, txse, inloop, tc,
                 tbp, intr, bounds>>

\* The loop test of xmit: the ring is not full (against the live tdh),
\* qlen < Ntd - 2, the descriptor is not Own, and qget(oq) gives a Block.
CanFill ==
  /\ NEXT(tq) # tdh /\ ql < Ntd - 2
  /\ tsts[tq] # "own" /\ oq # <<>>

\* setupxmitdesc: address and length first, then the status word with
\* Txls|Txfs|Own, which hands the descriptor to the engine.
SetupXmitDesc(st, x) == [st EXCEPT ![x] = "own"]

\* Mutant: ctlr->tb[] written after tdt has advanced (off by one slot).
XmitFillNextSlot ==
  /\ tpc = "fill" /\ CanFill /\ tb[tq] = NoBlock
  /\ tsts' = SetupXmitDesc(tsts, tq)
  /\ tb' = [tb EXCEPT ![NEXT(tq)] = Head(oq)]
  /\ oq' = Tail(oq)
  /\ tq' = NEXT(tq) /\ nqd' = TRUE /\ ql' = QLen(NEXT(tq), tdh)
  /\ tpc' = IF variant = "eswin" THEN "kick" ELSE "fill"
  /\ UNCHANGED <<nsent, wire, dropped, freed, tdh, tdt, hwh, xtail, txrun,
                 flags, inloop, tc, tbp, intr, bounds>>

\* setupxmitdesc sets Own; tb[tdt] = bp; tdt = NEXT(tdt); qlen against the
\* live tdh.  The check before it, panic("xmit ring full, tb[%d] not nil"),
\* is the guard on tb; NoTxPanic states that it never fails.  The eswin
\* variant then kicks inside the loop.
XmitFill ==
  /\ tpc = "fill" /\ CanFill /\ tb[tq] = NoBlock
  /\ tsts' = SetupXmitDesc(tsts, tq)
  /\ tb' = [tb EXCEPT ![tq] = Head(oq)]
  /\ oq' = Tail(oq)
  /\ tq' = NEXT(tq) /\ nqd' = TRUE /\ ql' = QLen(NEXT(tq), tdh)
  /\ tpc' = IF variant = "eswin" THEN "kick" ELSE "fill"
  /\ UNCHANGED <<nsent, wire, dropped, freed, tdh, tdt, hwh, xtail, txrun,
                 flags, inloop, tc, tbp, intr, bounds>>

\* eswin: after the loop, qlen > Ntd - 8 calls restart, which sets
\* needreset, wakes rproc and sleeps (tlock held: rproc's resetrxtx waits
\* for the qunlock that follows).
NearlyFull == variant = "eswin" /\ ql > NearFull

\* The loop ends with nothing queued (generic): qunlock and return.
XmitNone ==
  /\ tpc = "fill" /\ ~CanFill /\ ~nqd /\ variant = "generic"
  /\ lock' = "none"
  /\ tpc' = "post"
  /\ UNCHANGED <<stack, ring, tim, trreq, needreset, tie, txse, tq, nqd, ql,
                 inloop, tc, tbp, intr, bounds>>

\* restart(ctlr, tdt), then qunlock and return.
Restart ==
  /\ tpc = "fill" /\ ~CanFill /\ NearlyFull
  /\ needreset' = TRUE
  /\ lock' = "none"
  /\ tpc' = "post"
  /\ UNCHANGED <<stack, ring, tim, trreq, tie, txse, tq, nqd, ql, inloop, tc,
                 tbp, intr, bounds>>

\* kick(ctlr, tdt, stop): ctlr->tdt = tdt; under reglock (which the
\* interrupt handler holds while it runs) start the DMA and write
\* Xmittail; then cleanup begins with tdh = ctlr->tdh.  It is called in
\* eswin's loop after each descriptor, and after the loop when something
\* was queued or, on eswin, always unless restart was called.  kick(stop)
\* clears and sets Ctlrstart within one reglock section, so the engine
\* sees a running DMA either way.
Kick ==
  /\ ipc = "idle"
  /\ \/ tpc = "kick"
     \/ tpc = "fill" /\ ~CanFill /\ (nqd \/ variant = "eswin") /\ ~NearlyFull
  /\ tdt' = tq /\ xtail' = tq /\ txrun' = TRUE
  /\ tc' = tdh
  /\ inloop' = (tpc = "kick")
  /\ tpc' = "clean"
  /\ UNCHANGED <<stack, wire, dropped, freed, tb, tsts, tdh, hwh, flags,
                 tq, nqd, ql, tbp, intr, bounds>>

\* Mutant: the Own test dropped from cleanup's loop.
CleanMoreNoOwn(h) == QLen(tdt, h) > 4

\* cleanup's loop test: the queue from the local tdh to ctlr->tdt is longer
\* than 4 and the descriptor at tdh is not Own.
CleanMore(h) == QLen(tdt, h) > 4 /\ tsts[h] # "own"

\* bp = ctlr->tb[tdh].
TCleanRead ==
  /\ tpc = "clean" /\ CleanMore(tc)
  /\ tbp' = tb[tc]
  /\ tpc' = "free"
  /\ UNCHANGED <<stack, ring, flags, tq, nqd, ql, inloop, tc, intr, bounds>>

\* Mutant: ctlr->tb[tdh] = nil left out.
TCleanFreeKeepsTb ==
  /\ tpc = "free"
  /\ freed' = Free(freed, tbp)
  /\ tc' = NEXT(tc)
  /\ tpc' = "clean"
  /\ UNCHANGED <<stack, wire, dropped, tb, tsts, tdh, tdt, hwh, xtail, txrun,
                 flags, tq, nqd, ql, inloop, tbp, intr, bounds>>

\* ctlr->tb[tdh] = nil; freeb(bp); tdh = NEXT(tdh).
TCleanFree ==
  /\ tpc = "free"
  /\ tb' = [tb EXCEPT ![tc] = NoBlock]
  /\ freed' = Free(freed, tbp)
  /\ tc' = NEXT(tc)
  /\ tpc' = "clean"
  /\ UNCHANGED <<stack, wire, dropped, tsts, tdh, tdt, hwh, xtail, txrun,
                 flags, tq, nqd, ql, inloop, tbp, intr, bounds>>

\* The loop ends: ctlr->tdh = tdh.  Back in xmit: to its loop test after
\* an eswin kick from inside it, else qunlock and return.
TCleanEnd ==
  /\ tpc = "clean" /\ ~CleanMore(tc)
  /\ tdh' = tc
  /\ \/ inloop /\ tpc' = "fill" /\ UNCHANGED lock
     \/ ~inloop /\ tpc' = "post" /\ lock' = "none"
  /\ inloop' = FALSE
  /\ UNCHANGED <<stack, wire, dropped, freed, tb, tsts, tdt, hwh, xtail,
                 txrun, tim, trreq, needreset, tie, txse, tq, nqd, ql, tc, tbp,
                 intr, bounds>>

\* After xmit: trreq = 0, and around the loop to sleep.
TPost ==
  /\ tpc = "post"
  /\ trreq' = FALSE
  /\ tpc' = "sleep"
  /\ UNCHANGED <<stack, ring, tim, needreset, tie, txse, lock, tq, nqd, ql,
                 inloop, tc, tbp, intr, bounds>>

-----------------------------------------------------------------------------
(* interrupt(): ilock(reglock), read Dma0sts; on Txse resumetx, whose      *)
(* cleanup runs the same loop as tproc's; then tim |= Tie, acknowledge     *)
(* what was read, iunlock, wakeup.                                         *)

IntrEnter ==
  /\ ipc = "idle" /\ (tie \/ txse)
  /\ idm' = <<tie, txse>>
  /\ IF txse THEN ic' = tdh /\ ipc' = "clean"
             ELSE ipc' = "exit" /\ UNCHANGED ic
  /\ UNCHANGED <<stack, ring, flags, tproc, ibp, bounds>>

ICleanRead ==
  /\ ipc = "clean" /\ CleanMore(ic)
  /\ ibp' = tb[ic]
  /\ ipc' = "free"
  /\ UNCHANGED <<stack, ring, flags, tproc, idm, ic, bounds>>

ICleanFree ==
  /\ ipc = "free"
  /\ tb' = [tb EXCEPT ![ic] = NoBlock]
  /\ freed' = Free(freed, ibp)
  /\ ic' = NEXT(ic)
  /\ ipc' = "clean"
  /\ UNCHANGED <<stack, wire, dropped, tsts, tdh, tdt, hwh, xtail, txrun,
                 flags, tproc, idm, ibp, bounds>>

\* Mutant: resumetx does not set Ctlrstart again.
ICleanEndNoStart ==
  /\ ipc = "clean" /\ ~CleanMore(ic)
  /\ tdh' = ic
  /\ xtail' = tdt
  /\ ipc' = "exit"
  /\ UNCHANGED <<stack, wire, dropped, freed, tb, tsts, tdt, hwh, txrun,
                 flags, tproc, idm, ic, ibp, bounds>>

\* cleanup ends with ctlr->tdh = tdh; resumetx then sets Ctlrstart and
\* writes Xmittail from ctlr->tdt.
ICleanEnd ==
  /\ ipc = "clean" /\ ~CleanMore(ic)
  /\ tdh' = ic
  /\ txrun' = TRUE /\ xtail' = tdt
  /\ ipc' = "exit"
  /\ UNCHANGED <<stack, wire, dropped, freed, tb, tsts, tdt, hwh, flags,
                 tproc, idm, ic, ibp, bounds>>

IntrExit ==
  /\ ipc = "exit"
  /\ tim' = (tim \/ idm[1])
  /\ tie' = (tie /\ ~idm[1])
  /\ txse' = (txse /\ ~idm[2])
  /\ ipc' = "idle"
  /\ UNCHANGED <<stack, ring, trreq, needreset, lock, tproc, idm, ic, ibp,
                 bounds>>

-----------------------------------------------------------------------------
(* rproc, woken by needreset: resetrxtx takes tlock; rxinit's swreset      *)
(* stops the DMA and clears its status; txinit frees every Block in tb,    *)
(* zeroes the ring, sets tdh = tdt = 0, points base and tail at slot 0     *)
(* and restarts the DMA; needreset = 0; qunlock.                           *)
(* One atomic step that does not take reglock: the code's swreset and     *)
(* txinit wait for reglock, which the handler holds through resumetx's     *)
(* cleanup, so this allows more overlap with the handler than the code.    *)

RingBlocks == {tb[i] : i \in Slots} \ {NoBlock}

ResetRxTx ==
  /\ needreset /\ lock = "none"
  /\ freed' = [b \in Blocks |-> IF b \in RingBlocks THEN freed[b] + 1
                                                    ELSE freed[b]]
  /\ dropped' = dropped \cup (RingBlocks \ Sent)
  /\ tb' = [i \in Slots |-> NoBlock] /\ tsts' = [i \in Slots |-> "zero"]
  /\ tdh' = 0 /\ tdt' = 0 /\ hwh' = 0 /\ xtail' = 0 /\ txrun' = TRUE
  /\ tie' = FALSE /\ txse' = FALSE
  /\ needreset' = FALSE
  /\ UNCHANGED <<stack, wire, tim, trreq, lock, tproc, intr, bounds>>

-----------------------------------------------------------------------------

Next ==
  /\ \/ Transmit \/ HwSend \/ HwStop \/ Fatal
     \/ TWake \/ XmitBusy \/ XmitLock \/ XmitFill \/ XmitNone \/ Restart
     \/ Kick \/ TCleanRead \/ TCleanFree \/ TCleanEnd \/ TPost
     \/ IntrEnter \/ ICleanRead \/ ICleanFree \/ ICleanEnd \/ IntrExit
     \/ ResetRxTx
  /\ UNCHANGED variant

\* A step of A that leaves the variant alone.
Step(A) == A /\ UNCHANGED variant

\* tproc, rproc, the interrupt handler and a running DMA engine make
\* progress; the stack, DMA stops and fatal errors need not happen.
Fairness ==
  /\ WF_vars(Step(HwSend))
  /\ WF_vars(Step(TWake)) /\ WF_vars(Step(XmitBusy)) /\ WF_vars(Step(XmitLock))
  /\ WF_vars(Step(XmitFill)) /\ WF_vars(Step(XmitNone))
  /\ WF_vars(Step(Restart)) /\ WF_vars(Step(Kick))
  /\ WF_vars(Step(TCleanRead)) /\ WF_vars(Step(TCleanFree))
  /\ WF_vars(Step(TCleanEnd)) /\ WF_vars(Step(TPost))
  /\ WF_vars(Step(IntrEnter)) /\ WF_vars(Step(ICleanRead))
  /\ WF_vars(Step(ICleanFree)) /\ WF_vars(Step(ICleanEnd))
  /\ WF_vars(Step(IntrExit))
  /\ WF_vars(Step(ResetRxTx))

Spec == Init /\ [][Next]_vars /\ Fairness

-----------------------------------------------------------------------------
(* Properties.                                                             *)

TypeOK ==
  /\ Len(oq) <= MaxSend /\ Len(wire) <= MaxSend /\ Sent \subseteq Blocks
  /\ dropped \subseteq Blocks
  /\ freed \in [Blocks -> Nat]
  /\ tb \in [Slots -> Blocks \cup {NoBlock}]
  /\ tsts \in [Slots -> {"zero", "own", "done"}]
  /\ {tdh, tdt, hwh, xtail, tq, tc, ic} \subseteq Slots
  /\ lock \in {"none", "tproc", "rproc"}
  /\ tpc \in {"sleep", "xmit", "fill", "kick", "clean", "free", "post"}
  /\ ql \in 0 .. Ntd - 1 /\ inloop \in BOOLEAN /\ variant \in Variants
  /\ ipc \in {"idle", "clean", "free", "exit"}

\* No Block is given to freeb twice, by the two cleanups or by a cleanup
\* and txinit.
NoDoubleFree == \A b \in Blocks : freed[b] <= 1

\* A Block is freed only once the engine has sent it or txinit has torn
\* the ring down under a stopped DMA: the engine never reads a buffer that
\* was handed back to the heap.
FreedOnlyWhenDone == \A b \in Blocks : freed[b] > 0 => b \in Sent \cup dropped

\* The engine puts Blocks on the wire in the order the stack sent them,
\* each once, and a Block is overtaken only if txinit dropped it.  xmit
\* arms descriptors in ring order with the Blocks of oq, and the engine
\* sends them in the same order; this fails if tb[] and the armed
\* descriptor disagree, or if cleanup frees a descriptor the engine has
\* not yet sent, so that it sends whatever that slot holds next.
TxInOrder ==
  /\ \A i, j \in DOMAIN wire : i < j => wire[i] < wire[j]
  /\ wire # <<>> => \A b \in 1 .. Last(wire) : b \in Sent \cup dropped

\* xmit never reaches panic("xmit ring full, tb[%d] not nil"): whenever
\* its loop may fill descriptor tdt, cleanup has already freed tb[tdt].
NoTxPanic == tpc = "fill" /\ CanFill => tb[tq] = NoBlock

\* Every Block the stack sends is eventually transmitted or dropped by a
\* reset.
Queued(b) == \E k \in 1 .. Len(oq) : oq[k] = b
TxDrained == \A b \in Blocks : Queued(b) ~> (b \in Sent \cup dropped)

\* Every Block xmit put on the ring (Own set) is eventually transmitted
\* or dropped by a reset: kick and resumetx keep the DMA running and
\* Xmittail past it, even after the DMA stops.
OnRing(b) == \E i \in Slots : tb[i] = b /\ tsts[i] = "own"
RingSent == \A b \in Blocks : OnRing(b) ~> (b \in Sent \cup dropped)

=============================================================================
