------------------------------ MODULE XhciRing ------------------------------
(***************************************************************************)
(* One endpoint transfer ring of the xHCI driver (usbxhci.c) and the      *)
(* controller's consumer of it.                                           *)
(*                                                                         *)
(* Driver side: queuetd (with the link TRB written at the last slot and   *)
(* the cycle bit (~x >> shift) & 1), completering (rp catch-up and Wait   *)
(* matching by TRB address), resetring (flush, rp = wp, new dequeue       *)
(* pointer), unstall, and the caller of epread/epwrite (bulk), the        *)
(* control transfer of epwrite (two or three chained TRBs) or isowrite    *)
(* (no Wait, throttled by wp - rp < mask).                                *)
(*                                                                         *)
(* Controller side (xHCI hardware, modelled from the spec): the consumer  *)
(* keeps a dequeue slot and a consumer cycle state, executes a TRB whose  *)
(* cycle bit equals its cycle state, follows a link TRB toggling its      *)
(* cycle state, posts one transfer event per executed TRB (every TRB the  *)
(* driver queues carries Trioc), halts the endpoint on a stall, and on a  *)
(* Stop Endpoint command posts a Stopped event for the TD in progress.    *)
(*                                                                         *)
(* A TRB is named by the value x of r->wp it was queued at; the name is   *)
(* kept in the cell and in the event only to state properties: the driver *)
(* and the controller match by slot address, as the code does.           *)
(***************************************************************************)
EXTENDS Integers, Sequences, SequencesExt

CONSTANTS
  Shift,   \* initring(r, shift): the ring has 2^Shift TRB slots
  MaxWp,   \* endpoint type -> bound on the write cursor r->wp
  EpTypes  \* endpoint operations ("bulk", "ctl", "iso") a ring may be fed by

ASSUME /\ Shift \in 1..4
       /\ EpTypes \subseteq {"bulk", "ctl", "iso"}
       /\ MaxWp \in [EpTypes -> Nat]

\* The largest write cursor of any run: bounds the names of TRBs.
TopWp == CHOOSE m \in Range(MaxWp) : \A k \in Range(MaxWp) : k <= m

Size == 2^Shift
Mask == Size - 1                  \* r->mask, also the slot of the link TRB

\* (~x >> r->shift) & 1: the cycle bit of a TRB queued at cursor x.
CycleFor(x) == 1 - ((x \div Size) % 2)

\* Completion codes the model tells apart (ccerrstr: 1 is success).
CC == {"Success", "Stall", "Stopped"}
\* The copy of the event in a Wait that nothing has completed: queuetd
\* zeroes w->er, so ccerrstr sees code 0 ("???").
Zero == [slot |-> 0, lx |-> 0, cc |-> "None"]

Cell == [cycle : {0, 1}, type : {"none", "link", "trb"}, lx : 0..TopWp]
Event == [slot : 0..Mask, lx : 0..TopWp, cc : CC]

VARIABLES
  trb,      \* ring memory: slot -> the cycle bit, type and name of its TRB
  wp, rp,   \* r->wp, r->rp
  stopped,  \* r->stopped
  pending,  \* r->pending: Wait names, list head first
  deq, ccs, \* controller: dequeue slot and consumer cycle state
  hc,       \* controller endpoint state: "Running", "Stopped" or "Halted"
  events,   \* transfer events posted by the controller, not yet handled
  caller,   \* the Waits (w[0..2]) of the blocked caller, <<>> when none
  wres,     \* Wait name -> w->er, the event copied into it
  EpType    \* the type of the endpoint owning the ring: chosen by Init from
            \* EpTypes and never changed, so one run covers several types

vars == <<trb, wp, rp, stopped, pending, deq, ccs, hc, events, caller, wres,
          EpType>>

Done(w) == w \notin Range(pending)        \* waitdone: w->z == nil
Err(w) == wres[w].cc # "Success"           \* ccerrstr(w->er[2] >> 24) # nil

\* The TRBs the controller will execute from its dequeue slot and cycle
\* state: valid cells in ring order, following link TRBs.  The walk is cut
\* after two laps so that a ring whose cells all look valid still ends.
RECURSIVE Walk(_, _, _)
Walk(i, c, fuel) ==
  IF fuel = 0 \/ i > Mask THEN <<>>
  ELSE IF trb[i].cycle # c THEN <<>>
  ELSE IF trb[i].type = "link" THEN Walk(0, 1 - c, fuel - 1)
  ELSE <<trb[i].lx>> \o Walk(i + 1, c, fuel - 1)

HcView == Walk(deq, ccs, 2 * Size)

-----------------------------------------------------------------------------
(* Driver operations.                                                      *)

\* Fault-injection variants of queuetd: no link TRB at the last slot, and
\* a link TRB whose cycle bit is computed from the cursor after it.
QueueTdNoLink(s, withWait) ==
  [trb |-> [s.trb EXCEPT ![s.wp % Size] =
              [cycle |-> CycleFor(s.wp), type |-> "trb", lx |-> s.wp]],
   wp |-> s.wp + 1,
   pending |-> IF withWait THEN Cons(s.wp, s.pending) ELSE s.pending,
   ws |-> IF withWait THEN Append(s.ws, s.wp) ELSE s.ws]

QueueTdLinkNextCycle(s, withWait) ==
  LET x0 == s.wp
      lnk == x0 % Size = Mask
      x == IF lnk THEN x0 + 1 ELSE x0
      t1 == IF lnk
              THEN [s.trb EXCEPT ![Mask] =
                      [cycle |-> CycleFor(x0 + 1), type |-> "link", lx |-> x0]]
              ELSE s.trb
  IN [trb |-> [t1 EXCEPT ![x % Size] =
                 [cycle |-> CycleFor(x), type |-> "trb", lx |-> x]],
      wp |-> x + 1,
      pending |-> IF withWait THEN Cons(x, s.pending) ELSE s.pending,
      ws |-> IF withWait THEN Append(s.ws, x) ELSE s.ws]

\* queuetd(r, c, s, p, w) applied to s = [trb, wp, pending, ws]: a link TRB
\* first when x lands on the last slot, then the TRB at x with its cycle
\* bit; a Wait is linked at the head of r->pending before the control word.
QueueTd(s, withWait) ==
  LET x0 == s.wp
      lnk == x0 % Size = Mask
      x == IF lnk THEN x0 + 1 ELSE x0
      t1 == IF lnk
              THEN [s.trb EXCEPT ![Mask] =
                      [cycle |-> CycleFor(x0), type |-> "link", lx |-> x0]]
              ELSE s.trb
  IN [trb |-> [t1 EXCEPT ![x % Size] =
                 [cycle |-> CycleFor(x), type |-> "trb", lx |-> x]],
      wp |-> x + 1,
      pending |-> IF withWait THEN Cons(x, s.pending) ELSE s.pending,
      ws |-> IF withWait THEN Append(s.ws, x) ELSE s.ws]

RECURSIVE QueueTds(_, _)
QueueTds(s, n) == IF n = 0 THEN s ELSE QueueTds(QueueTd(s, TRUE), n - 1)

\* Fault-injection variant: (r->wp >> r->shift) & 1, the complement lost.
ResetDeqBadCycle(x) == [slot |-> x % Size, cycle |-> 1 - CycleFor(x)]

\* The dequeue slot and cycle state resetring(r) hands to the controller:
\* PCIWADDR(&r->base[4*(r->wp & r->mask)]) | (~r->wp >> r->shift) & 1.
ResetDeq(x) == [slot |-> x % Size, cycle |-> CycleFor(x)]

\* Fault-injection variant: resetring computes the dequeue pointer from
\* r->rp before setting r->rp = r->wp.
SubmitResetAtRp(n) ==
  /\ caller = <<>>
  /\ LET rst == hc = "Halted" \/ stopped
         rp1 == IF rst THEN wp ELSE rp
         s == QueueTds([trb |-> trb, wp |-> wp, ws |-> <<>>,
                        pending |-> IF rst THEN <<>> ELSE pending], n)
     IN /\ wp - rp1 < Mask
        /\ s.wp <= MaxWp[EpType]
        /\ trb' = s.trb
        /\ wp' = s.wp
        /\ pending' = s.pending
        /\ caller' = s.ws
        /\ wres' = [w \in DOMAIN wres |-> IF w \in Range(s.ws) THEN Zero
                                          ELSE wres[w]]
        /\ rp' = rp1
        /\ deq' = IF rst THEN ResetDeq(rp).slot ELSE deq
        /\ ccs' = IF rst THEN ResetDeq(rp).cycle ELSE ccs
  /\ stopped' = FALSE
  /\ hc' = "Running"
  /\ UNCHANGED events

\* epread/epwrite up to the wait: unstall(ep, r) (reset endpoint when the
\* context is halted, then for a stopped ring resetring and Set TR Dequeue
\* Pointer), the "Ring Full" check, queuetd of n TRBs with their Waits,
\* and the doorbell write at the top of waittd.  The commands are taken to
\* succeed here; their failures belong to the command ring.
Submit(n) ==
  /\ caller = <<>>
  /\ LET rst == hc = "Halted" \/ stopped
         rp1 == IF rst THEN wp ELSE rp
         s == QueueTds([trb |-> trb, wp |-> wp, ws |-> <<>>,
                        pending |-> IF rst THEN <<>> ELSE pending], n)
     IN /\ wp - rp1 < Mask
        /\ s.wp <= MaxWp[EpType]
        /\ trb' = s.trb
        /\ wp' = s.wp
        /\ pending' = s.pending
        /\ caller' = s.ws
        /\ wres' = [w \in DOMAIN wres |-> IF w \in Range(s.ws) THEN Zero
                                          ELSE wres[w]]
        /\ rp' = rp1
        /\ deq' = IF rst THEN ResetDeq(wp).slot ELSE deq
        /\ ccs' = IF rst THEN ResetDeq(wp).cycle ELSE ccs
  /\ stopped' = FALSE
  /\ hc' = "Running"
  /\ UNCHANGED events

\* epread, or epwrite of a bulk/interrupt endpoint: one TRB.
SubmitBulk == EpType = "bulk" /\ Submit(1)

\* epwrite on the control endpoint: setup, data when wLength > 0, status.
SubmitCtl == EpType = "ctl" /\ \E n \in {2, 3} : Submit(n)

\* Fault-injection variant: the isowrite throttle lets the ring fill up to
\* wp - rp = mask + 1.
IsoQueueFullOffByOne ==
  /\ EpType = "iso"
  /\ wp - rp <= Mask
  /\ LET s == QueueTd([trb |-> trb, wp |-> wp, pending |-> pending,
                       ws |-> <<>>], FALSE)
     IN /\ s.wp <= MaxWp[EpType]
        /\ trb' = s.trb
        /\ wp' = s.wp
  /\ UNCHANGED <<rp, stopped, pending, deq, ccs, hc, events, caller, wres>>

\* One pass of the isowrite loop: queuetd without a Wait once
\* wp - rp < mask; no unstall and no doorbell on this path.
IsoQueue ==
  /\ EpType = "iso"
  /\ wp - rp < Mask
  /\ LET s == QueueTd([trb |-> trb, wp |-> wp, pending |-> pending,
                       ws |-> <<>>], FALSE)
     IN /\ s.wp <= MaxWp[EpType]
        /\ trb' = s.trb
        /\ wp' = s.wp
  /\ UNCHANGED <<rp, stopped, pending, deq, ccs, hc, events, caller, wres>>

\* The first wait the caller is blocked in.
Blocked == SelectInSeq(caller, LAMBDA w : ~Done(w))

\* waittd times out (first time, ring not stopped): ctlrcmd(Crstopep) on
\* the endpoint, then r->stopped = 1.  A running endpoint stops and posts a
\* Stopped event for the TD in progress; a halted one refuses the command
\* (Context State Error) and stays halted.
Timeout ==
  /\ caller # <<>>
  /\ Blocked # 0
  /\ ~stopped
  /\ stopped' = TRUE
  /\ LET v == HcView IN
     IF hc = "Running"
       THEN /\ hc' = "Stopped"
            /\ events' = IF v = <<>> THEN events
                         ELSE Append(events, [slot |-> Head(v) % Size,
                                              lx |-> Head(v),
                                              cc |-> "Stopped"])
       ELSE UNCHANGED <<hc, events>>
  /\ UNCHANGED <<trb, wp, rp, pending, deq, ccs, caller, wres>>

\* Fault-injection variant: completering wakes the head of r->pending
\* without comparing its td with the event's TRB address.
CompleteAnyWait ==
  /\ events # <<>>
  /\ LET ev == Head(events)
         xs == {x \in rp..(wp - 1) : x % Size = ev.slot}
     IN /\ rp' = IF xs = {} THEN rp ELSE Min(xs) + 1
        /\ pending' = IF pending = <<>> THEN pending ELSE Tail(pending)
        /\ wres' = IF pending = <<>> THEN wres
                   ELSE [wres EXCEPT ![Head(pending)] = ev]
  /\ events' = Tail(events)
  /\ UNCHANGED <<trb, wp, stopped, deq, ccs, hc, caller>>

\* completering(r, er) for the oldest unhandled event (interrupt, case
\* Ertransfer): advance rp past the first TRB in [rp, wp) at the event's
\* slot, then unlink the first pending Wait whose td is that slot, copy the
\* event into it and wake it.  An unmatched event is dropped.
Complete ==
  /\ events # <<>>
  /\ LET ev == Head(events)
         xs == {x \in rp..(wp - 1) : x % Size = ev.slot}
         i == SelectInSeq(pending, LAMBDA w : w % Size = ev.slot)
     IN /\ rp' = IF xs = {} THEN rp ELSE Min(xs) + 1
        /\ pending' = IF i = 0 THEN pending ELSE RemoveAt(pending, i)
        /\ wres' = IF i = 0 THEN wres ELSE [wres EXCEPT ![pending[i]] = ev]
  /\ events' = Tail(events)
  /\ UNCHANGED <<trb, wp, stopped, deq, ccs, hc, caller>>

\* The caller's waittd calls return in order; it leaves at the first Wait
\* that reports an error, or after the last one.  On an error the control
\* path of epwrite drops every Wait still linked (ring->pending = nil).
CallerReturn ==
  /\ caller # <<>>
  /\ LET j == SelectInSeq(caller, LAMBDA w : Err(w) \/ w = Last(caller))
     IN /\ \A k \in 1..j : Done(caller[k])
        /\ pending' = IF EpType = "ctl" /\ Err(caller[j]) THEN <<>>
                      ELSE pending
  /\ caller' = <<>>
  /\ UNCHANGED <<trb, wp, rp, stopped, deq, ccs, hc, events, wres>>

-----------------------------------------------------------------------------
(* Controller (xHCI hardware) steps, modelled from the spec.               *)

\* Outcomes of executing a TRB: isochronous endpoints do not halt.
Outcomes == IF EpType = "iso" THEN {"Success"} ELSE {"Success", "Stall"}

\* The consumer fetches the TRB at its dequeue slot when the cycle bit
\* matches: a link TRB moves it to slot 0 and toggles its cycle state; any
\* other TRB is executed and reported by a transfer event.
HcFetch ==
  /\ hc = "Running"
  /\ trb[deq].cycle = ccs
  /\ IF trb[deq].type = "link"
       THEN /\ deq' = 0
            /\ ccs' = 1 - ccs
            /\ UNCHANGED <<hc, events>>
       ELSE \E cc \in Outcomes :
              /\ deq' = deq + 1
              /\ events' = Append(events,
                             [slot |-> deq, lx |-> trb[deq].lx, cc |-> cc])
              /\ hc' = IF cc = "Success" THEN "Running" ELSE "Halted"
              /\ UNCHANGED ccs
  /\ UNCHANGED <<trb, wp, rp, stopped, pending, caller, wres>>

-----------------------------------------------------------------------------
\* initring zeroes the memory and sets rp = wp = 0; Configure Endpoint
\* (initepctx) gives the controller dequeue slot 0 with cycle state 1.
Init ==
  /\ trb = [i \in 0..Mask |-> [cycle |-> 0, type |-> "none", lx |-> 0]]
  /\ wp = 0 /\ rp = 0
  /\ stopped = FALSE
  /\ pending = <<>>
  /\ deq = 0 /\ ccs = 1
  /\ hc = "Running"
  /\ events = <<>>
  /\ caller = <<>>
  /\ wres = [w \in 0..TopWp |-> Zero]
  /\ EpType \in EpTypes

Next ==
  /\ \/ SubmitBulk
     \/ SubmitCtl
     \/ IsoQueue
     \/ Timeout
     \/ Complete
     \/ CallerReturn
     \/ HcFetch
  /\ UNCHANGED EpType

\* The controller and the interrupt handler are not starved, and a woken
\* caller runs; callers, timeouts and the producer of isowrite are not
\* obliged to act.  (Each step keeps the frozen EpType.)
Fairness ==
  /\ WF_vars(HcFetch /\ UNCHANGED EpType)
  /\ WF_vars(Complete /\ UNCHANGED EpType)
  /\ WF_vars(CallerReturn /\ UNCHANGED EpType)

Spec == Init /\ [][Next]_vars /\ Fairness

-----------------------------------------------------------------------------
(* Properties.                                                             *)

TypeOK ==
  /\ trb \in [0..Mask -> Cell]
  /\ wp \in 0..TopWp /\ rp \in 0..TopWp
  /\ stopped \in BOOLEAN
  /\ pending \in Seq(0..TopWp)
  /\ deq \in 0..Mask /\ ccs \in {0, 1}
  /\ hc \in {"Running", "Stopped", "Halted"}
  /\ events \in Seq(Event)
  /\ caller \in Seq(0..TopWp)
  /\ wres \in [0..TopWp -> Event \cup {Zero}]

\* The ring keeps its promise (RingFifo): the controller executes exactly
\* the TRBs queuetd published, in order, none twice, none stale from an
\* earlier lap, and a resetring/Set TR Dequeue Pointer drops the rest.
\* This is what the cycle bits, the link TRB and the wp - rp < mask checks
\* of unstall and isowrite have to get right together.
Fifo == INSTANCE RingFifo WITH queue <- HcView, top <- wp,
                             halted <- stopped \/ hc = "Halted"
RingRefinesFifo == Fifo!ASpec

\* completering routes each event to the Wait of the TRB it reports: a
\* Wait woken with an event got the event of its own TRB, never a late
\* one for the TRB that used the same slot on an earlier lap.
CompletionRouted ==
  \A w \in 0..TopWp : wres[w].cc # "None" => wres[w].lx = w

\* A caller blocked in waittd on this ring eventually returns.
CallerReturns == caller # <<>> ~> caller = <<>>
=============================================================================
