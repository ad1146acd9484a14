------------------------------ MODULE XhciEvent -----------------------------
(***************************************************************************)
(* The event ring of the xHCI driver (usbxhci.c) and the microframe       *)
(* counter it feeds.                                                      *)
(*                                                                         *)
(* Driver side: interrupt() walks the event ring from er->rp while the    *)
(* cycle bit of the cell differs from (rp >> shift) & 1, handles each     *)
(* event, and writes ERDP (with EHB) once the walk stops; on a Host       *)
(* Controller Event it marks the ring stopped and returns at once,        *)
(* leaving rp and ERDP where they are.  On an MFINDEX wrap event it       *)
(* extends the cached ctlr->µframe by 2^14.  µframe() combines the 14-bit *)
(* MFINDEX register with the high bits of the cache and retries while the *)
(* result is below the cache.  recover() shuts the controller down and    *)
(* init() rebuilds the ring and clears the cache.                         *)
(*                                                                         *)
(* Controller side (xHCI hardware, modelled from the spec): MFINDEX       *)
(* counts microframes while running and queues a wrap event when its low  *)
(* LowBits bits roll over; events are written at the enqueue cursor with  *)
(* the producer cycle state; when one free slot is left the controller    *)
(* writes a Host Controller Event (Event Ring Full) there and posts       *)
(* nothing more until ERDP moves; the interrupter raises IP when EHB is   *)
(* clear and ERDP differs from the enqueue cursor.  Events other than     *)
(* wraps and HCEs (command and transfer completions) are "other": the     *)
(* handler passes them to completering, which XhciRing and XhciCmd model. *)
(***************************************************************************)
EXTENDS Integers, Sequences, SequencesExt

CONSTANTS
  Shift,     \* initring(&ctlr->er[0], shift): 2^Shift event slots
  LowBits,   \* bits of MFINDEX (14 in the hardware)
  Width,     \* bits of ulong ctlr->µframe (32 in the code)
  MaxT,      \* bound on microframes counted per controller run
  MaxOther,  \* bound on other events per controller run
  MaxFaults, \* bound on host controller errors (USBSTS.HCE)
  MaxResets  \* bound on recoveries (shutdown, release, init)

ASSUME /\ Shift \in 1..4 /\ LowBits \in 1..14 /\ Width > LowBits
       /\ {MaxT, MaxOther, MaxFaults, MaxResets} \subseteq Nat

Size == 2^Shift
Low == 2^LowBits                 \* 1 << 14
Wrap == 2^Width                  \* ulong arithmetic wraps here

\* (int)(a - b) < 0 for ulong a, b: the difference read as signed.
Negative(d) == (d % Wrap) >= Wrap \div 2

Kinds == {"wrap", "hce", "other"}

VARIABLES
  mf,        \* microframes the controller has counted: MFINDEX = mf % Low
  hcRun,     \* USBCMD.RUNSTOP and not halted (MFINDEX counts)
  hcErr,     \* USBSTS.HCE
  hcPend,    \* events generated by the controller, not yet written
  nOther,    \* other events generated in this run
  faults, resets,
  trb,       \* event ring memory: slot -> cycle bit, kind and name
  enq,       \* controller enqueue cursor
  hcFull,    \* Event Ring Full written, posting suspended
  ip, ehb,   \* IMAN.IP, ERDP.EHB
  intrOn,    \* the interrupt is enabled (pciintrenable / pciintrdisable)
  rp,        \* ctlr->er->rp
  erdp,      \* the cursor last written to ERDP
  erStopped, \* ctlr->er->stopped
  ipc,       \* interrupt handler: "idle" or "walk"
  cached,    \* ctlr->µframe
  rpc,       \* recover(): "watch", "down" (after shutdown) or "gone"
             \* (after release)
  base       \* event names of earlier runs are below base

vars == <<mf, hcRun, hcErr, hcPend, nOther, faults, resets, trb, enq,
          hcFull, ip, ehb, intrOn, rp, erdp, erStopped, ipc, cached, rpc,
          base>>

\* The cycle bit and name of the zeroed memory initring allocates.
Blank == [cycle |-> 0, kind |-> "other", name |-> 0]

\* ((x >> ring->shift) ^ td[3]) & 1: the cell at cursor x holds an event
\* of the current pass.
Valid(x) == trb[x % Size].cycle # (x \div Size) % 2

\* The events the handler will see from cursor x: valid cells in order.
RECURSIVE Ahead(_, _)
Ahead(x, fuel) ==
  IF fuel = 0 \/ ~Valid(x) THEN <<>>
  ELSE <<trb[x % Size].name>> \o Ahead(x + 1, fuel - 1)

EvView == Ahead(rp, Size)

\* needrecover(): er->stopped or USBSTS & (Hch|Hce|HSE).
NeedRecover == erStopped \/ ~hcRun \/ hcErr

-----------------------------------------------------------------------------
(* Controller (xHCI specification).                                        *)

Tick ==
  /\ hcRun /\ mf < MaxT
  /\ mf' = mf + 1
  /\ hcPend' = IF mf' % Low = 0 THEN Append(hcPend, "wrap") ELSE hcPend
  /\ UNCHANGED <<hcRun, hcErr, nOther, faults, resets, trb, enq, hcFull, ip,
                 ehb, intrOn, rp, erdp, erStopped, ipc, cached, rpc, base>>

Other ==
  /\ hcRun /\ nOther < MaxOther
  /\ hcPend' = Append(hcPend, "other")
  /\ nOther' = nOther + 1
  /\ UNCHANGED <<mf, hcRun, hcErr, faults, resets, trb, enq, hcFull, ip, ehb,
                 intrOn, rp, erdp, erStopped, ipc, cached, rpc, base>>

Write(kind) ==
  trb' = [trb EXCEPT ![enq % Size] =
            [cycle |-> 1 - ((enq \div Size) % 2), kind |-> kind,
             name |-> base + enq]]

\* Write the oldest generated event, or Event Ring Full in the last slot.
Post ==
  /\ hcRun /\ ~hcFull /\ hcPend # <<>>
  /\ IF Size - (enq - erdp) > 1
       THEN Write(Head(hcPend)) /\ hcPend' = Tail(hcPend) /\ hcFull' = FALSE
       ELSE Write("hce") /\ hcFull' = TRUE /\ hcPend' = hcPend
  /\ enq' = enq + 1
  /\ UNCHANGED <<mf, hcRun, hcErr, nOther, faults, resets, ip, ehb, intrOn,
                 rp, erdp, erStopped, ipc, cached, rpc, base>>

RaiseIp ==
  /\ ~ehb /\ enq # erdp
  /\ ip' = TRUE /\ ehb' = TRUE
  /\ UNCHANGED <<mf, hcRun, hcErr, hcPend, nOther, faults, resets, trb, enq,
                 hcFull, intrOn, rp, erdp, erStopped, ipc, cached, rpc, base>>

Fault ==
  /\ hcRun /\ faults < MaxFaults
  /\ hcErr' = TRUE /\ hcRun' = FALSE
  /\ faults' = faults + 1
  /\ UNCHANGED <<mf, hcPend, nOther, resets, trb, enq, hcFull, ip, ehb, intrOn,
                 rp, erdp, erStopped, ipc, cached, rpc, base>>

-----------------------------------------------------------------------------
(* Interrupt handler.                                                      *)

\* IMAN is read and IP cleared; the line may be shared, so the handler
\* also runs with IP clear.
Enter ==
  /\ ipc = "idle" /\ intrOn
  /\ ip' = FALSE /\ ipc' = "walk"
  /\ UNCHANGED <<mf, hcRun, hcErr, hcPend, nOther, faults, resets, trb, enq,
                 hcFull, ehb, intrOn, rp, erdp, erStopped, cached, rpc, base>>

\* Fault-injection variant of the MFINDEX wrap update: no carry.
MfWrapNoCarry(c) == (mf % Low) + (c - (c % Low))

\* ctlr->µframe = MFINDEX & (1<<14)-1 | ctlr->µframe + (1<<14) & ~((1<<14)-1)
MfWrap(c) == (mf % Low) + (((c + Low) % Wrap) - (((c + Low) % Wrap) % Low))

\* Fault-injection variant of the end of the walk: ERDP is not written.
WalkEndNoErdp ==
  /\ ipc' = "idle"
  /\ UNCHANGED <<erdp, ehb, hcFull>>

\* Fault-injection variant: ERDP is written one cell past td.
WalkEndPastTd ==
  /\ erdp' = rp + 1 /\ ehb' = FALSE /\ hcFull' = FALSE
  /\ ipc' = "idle"

\* setrptr(&irs[ERDP], PCIWADDR(td) | 1<<3): the dequeue pointer moves to
\* the cell that stopped the walk and EHB is cleared; the controller
\* resumes posting once ERDP has moved.
WalkEnd ==
  /\ erdp' = rp /\ ehb' = FALSE /\ hcFull' = FALSE
  /\ ipc' = "idle"

\* One turn of the loop of interrupt(): the break, or one event.
Walk ==
  /\ ipc = "walk"
  /\ IF ~Valid(rp)
       THEN WalkEnd /\ UNCHANGED <<rp, erStopped, cached>>
     ELSE LET kind == trb[rp % Size].kind IN
       IF kind = "hce"
         THEN erStopped' = TRUE /\ ipc' = "idle"
              /\ UNCHANGED <<rp, erdp, ehb, hcFull, cached>>
         ELSE /\ rp' = rp + 1
              /\ cached' = IF kind = "wrap" THEN MfWrap(cached) ELSE cached
              /\ UNCHANGED <<erdp, ehb, hcFull, erStopped, ipc>>
  /\ UNCHANGED <<mf, hcRun, hcErr, hcPend, nOther, faults, resets, trb, enq,
                 ip, intrOn, rpc, base>>

-----------------------------------------------------------------------------
(* Recovery: recover() and the parts of init() that touch this state.      *)

RecShutdown ==
  /\ rpc = "watch" /\ NeedRecover
  /\ hcRun' = FALSE /\ intrOn' = FALSE /\ rpc' = "down"
  /\ UNCHANGED <<mf, hcErr, hcPend, nOther, faults, resets, trb, enq, hcFull,
                 ip, ehb, rp, erdp, erStopped, ipc, cached, base>>

\* Fault-injection variant of init: ctlr->µframe keeps its old value.
InitMicroframeKept == cached

\* ctlr->µframe = 0 before RUNSTOP is set.
InitMicroframe == 0

\* release(): freering on the command ring and the event ring, and
\* ctlr->slot = nil.  interrupt() takes no lock and tests er->base only on
\* entry, so release is safe only if no handler is inside its walk.  The
\* code does not ensure that: pciintrdisable does not wait for a running
\* handler, and recover runs shutdown on a controller that has already
\* halted, so the Hch wait ends at once.  The model assumes it (ipc =
\* "idle"); without that guard the walk reaches a released ring.
RecRelease ==
  /\ rpc = "down" /\ ipc = "idle"
  /\ rpc' = "gone"
  /\ UNCHANGED <<mf, hcRun, hcErr, hcPend, nOther, faults, resets, trb, enq,
                 hcFull, ip, ehb, intrOn, rp, erdp, erStopped, ipc, cached,
                 base>>

\* init() after release: a reset controller, a zeroed event ring with ERDP
\* at its base, ctlr->µframe = 0, interrupts on, RUNSTOP.
RecReinit ==
  /\ rpc = "gone" /\ resets < MaxResets
  /\ resets' = resets + 1
  /\ base' = base + enq + 1
  /\ trb' = [i \in 0..(Size - 1) |-> Blank]
  /\ enq' = 0 /\ rp' = 0 /\ erdp' = 0
  /\ mf' = 0 /\ cached' = InitMicroframe
  /\ hcPend' = <<>> /\ nOther' = 0
  /\ hcRun' = TRUE /\ hcErr' = FALSE /\ hcFull' = FALSE
  /\ ip' = FALSE /\ ehb' = FALSE /\ intrOn' = TRUE /\ erStopped' = FALSE
  /\ rpc' = "watch"
  /\ UNCHANGED <<faults, ipc>>

-----------------------------------------------------------------------------

Init ==
  /\ mf = 0 /\ hcRun = TRUE /\ hcErr = FALSE
  /\ hcPend = <<>> /\ nOther = 0 /\ faults = 0 /\ resets = 0
  /\ trb = [i \in 0..(Size - 1) |-> Blank]
  /\ enq = 0 /\ hcFull = FALSE /\ ip = FALSE /\ ehb = FALSE /\ intrOn = TRUE
  /\ rp = 0 /\ erdp = 0 /\ erStopped = FALSE /\ ipc = "idle"
  /\ cached = 0 /\ rpc = "watch" /\ base = 0

Next ==
  \/ Tick \/ Other \/ Post \/ RaiseIp \/ Fault
  \/ Enter \/ Walk
  \/ RecShutdown \/ RecRelease \/ RecReinit

\* The interrupter and the handler are fair: IMOD is 0, so an asserted IP
\* is delivered, and the handler runs to the end of its walk.  recover()
\* polls needrecover every 10 ms.  MFINDEX, new events and faults are not.
Fairness ==
  /\ WF_vars(RaiseIp) /\ WF_vars(ip /\ Enter) /\ WF_vars(Walk)
  /\ WF_vars(RecShutdown) /\ WF_vars(RecRelease) /\ WF_vars(RecReinit)

Spec == Init /\ [][Next]_vars /\ Fairness

-----------------------------------------------------------------------------
(* Properties.                                                             *)

TypeOK ==
  /\ mf \in 0..MaxT /\ cached \in 0..(Wrap - 1)
  /\ \A i \in DOMAIN hcPend : hcPend[i] \in Kinds
  /\ trb \in [0..(Size - 1) -> [cycle : {0, 1}, kind : Kinds, name : Nat]]
  /\ rp <= enq /\ erdp <= rp
  /\ ipc \in {"idle", "walk"} /\ rpc \in {"watch", "down", "gone"}

\* The interrupt handler takes the events the controller wrote in the
\* order they were written, each once, and the controller, bounded by the
\* ERDP the handler writes after its walk, never overwrites an event the
\* handler has not taken; a Host Controller Event stays at er->rp, seen
\* again by every later walk, until init rebuilds the ring.
EventsFifo == INSTANCE RingFifo
                WITH queue <- EvView, top <- base + enq, halted <- rpc # "watch"
EventRefinesFifo == EventsFifo!ASpec

\* Once every MFINDEX wrap the controller generated has been handled by
\* interrupt(), the high bits of ctlr->µframe are those of the true
\* microframe count and its low bits are not ahead of MFINDEX: the cache
\* update of the Ermfindexwrap case and the reset in init keep the cache in
\* step with the controller across wraps of MFINDEX and of the ulong.
NoWrapOutstanding ==
  /\ \A i \in DOMAIN hcPend : hcPend[i] # "wrap"
  /\ \A x \in rp..(enq - 1) : trb[x % Size].kind # "wrap"

CachedFrameTracks ==
  NoWrapOutstanding =>
    /\ cached \div Low = (mf % Wrap) \div Low
    /\ cached % Low <= mf % Low

\* An event written to the ring is eventually taken by interrupt(): the
\* ERDP write at the end of a walk clears EHB, so the controller raises
\* the interrupt again for what arrived during the walk.  Only a Host
\* Controller Event (after which the walk stops) or a shutdown ends this.
EventsConsumed == (enq > rp) ~> (enq = rp \/ erStopped \/ rpc # "watch")
=============================================================================
