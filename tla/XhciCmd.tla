------------------------------ MODULE XhciCmd -------------------------------
(***************************************************************************)
(* The command protocol of the xHCI driver (usbxhci.c) and its recovery:  *)
(* ctlrcmd and waittd on the command ring under cmdlock, the interrupt    *)
(* handler's command-completion and host-controller-error cases,          *)
(* needrecover, the recover task (shutdown, flush, wait for usbd to free  *)
(* every slot, release and init under slotlock and cmdlock), and the two  *)
(* callers that issue a command while holding slotlock: allocslot (Enable *)
(* Slot) and freeslot (Disable Slot).  Other commands (Address Device,    *)
(* Configure Endpoint, Reset Endpoint, ...) are issued by the owner of an *)
(* active slot without slotlock ("plain").                                 *)
(*                                                                         *)
(* The controller is modelled from the xHCI behaviour the driver relies   *)
(* on: it executes queued commands in order and posts a completion event  *)
(* for each; on Command Abort (CRCR.CA) it aborts the command in progress *)
(* and posts Command Aborted for it, then stops the ring and posts        *)
(* Command Ring Stopped naming the dequeue pointer, i.e. the slot the     *)
(* next command will occupy; it may fail (USBSTS.HCE, an Erhce event) and *)
(* it may never answer, which is what the driver's timeouts are for.      *)
(*                                                                         *)
(* The ring memory itself (cycle bits, link TRB) is XhciRing's subject;   *)
(* here a command TRB is its address on the current command ring (crWp)  *)
(* and a name (id) kept only to state properties.                        *)
(***************************************************************************)
EXTENDS Integers, FiniteSets, Sequences

CONSTANTS
  Callers,    \* processes issuing commands (model values)
  NSlots,     \* ctlr->nslots: slot ids 1..NSlots
  MaxCmds,    \* bound on the number of commands queued
  MaxFaults,  \* bound on controller failures
  NONE,       \* no lock holder / no slot owner (model value)
  Recover     \* the recover task as a lock holder (model value)

ASSUME NSlots \in 1..3 /\ MaxCmds \in Nat /\ MaxFaults \in Nat
ASSUME NONE \notin Callers /\ Recover \notin Callers

Ids == 1..NSlots

\* Completion codes the model tells apart.  "None" is the zeroed w->er of
\* a Wait that was flushed rather than completed (ccerrstr gives "???").
CCs == {"Success", "NoSlots", "SlotNotEnabled", "Aborted", "RingStopped",
        "Erecover", "None"}

Event == [kind : {"cmd"}, pos : Nat, id : Int, cc : CCs, slotid : 0..NSlots]
         \cup [kind : {"hce"}]

VARIABLES
  pc,         \* caller -> where it is in allocslot/freeslot/ctlrcmd/waittd
  op,         \* caller -> [kind: "plain"|"alloc"|"free", slot, id]
  wait,       \* caller -> [pos, id] of its Wait's TRB (w->td)
  wres,       \* caller -> w->er, the completion copied into its Wait
  cmdlock,    \* ctlr->cmdlock holder
  slotlock,   \* ctlr->slotlock holder
  crPending,  \* callers whose Wait is on ctlr->cr->pending
  crWp,       \* ctlr->cr->wp: address of the next command TRB
  nCmds,      \* operations started so far (names their commands)
  crStopped,  \* ctlr->cr->stopped
  erStopped,  \* ctlr->er->stopped
  table,      \* ctlr->slot[]: slot id -> owning caller, NONE if free
  tableOn,    \* ctlr->slot != nil (FALSE after release without init)
  intrOn,     \* interrupt line enabled (pciintrenable / pciintrdisable)
  rpc,        \* recover task: "sleep", "flush", "scan", "lock1", "lock2",
              \* "reinit" or "failed"
  hcRun,      \* controller running: USBCMD.RUNSTOP set and USBSTS.HCH clear
  hcFatal,    \* USBSTS.HCE or HSE set
  crRun,      \* command ring running (CRCR.CRR)
  abortReq,   \* CRCR.CA written and not yet acted on
  hcq,        \* command TRBs the controller has fetched and not completed
  hcSlots,    \* slot ids the controller has enabled
  events,     \* event ring entries not yet handled by interrupt
  faults      \* controller failures so far

vars == <<pc, op, wait, wres, cmdlock, slotlock, crPending, crWp, nCmds,
          crStopped, erStopped, table, tableOn, intrOn, rpc, hcRun, hcFatal,
          crRun, abortReq, hcq, hcSlots, events, faults>>

WaitPCs == {"wait1", "wait2", "waitinf"}

\* needrecover(ctlr): er->stopped, or USBSTS shows Hch, Hce or HSE.
NeedRecover == erStopped \/ ~hcRun \/ hcFatal

Mine(p) == {s \in Ids : table[s] = p}

ZeroEr == [kind |-> "cmd", pos |-> 0, id |-> -1, cc |-> "None", slotid |-> 0]
ErecoverEr == [ZeroEr EXCEPT !.cc = "Erecover"]

\* Command TRB type a caller issues.
CmdType(p) == CASE op[p].kind = "alloc" -> "enable"
               [] op[p].kind = "free"  -> "disable"
               [] OTHER                -> "other"

-----------------------------------------------------------------------------
(* Callers: allocslot, freeslot and the slot owner's other commands.       *)

\* Starting an operation; id names the one command it will issue.
Start(p, kind, s) ==
  /\ pc[p] = "idle"
  /\ nCmds < MaxCmds
  /\ op' = [op EXCEPT ![p] = [kind |-> kind, slot |-> s, id |-> nCmds]]
  /\ nCmds' = nCmds + 1
  /\ pc' = [pc EXCEPT ![p] = IF kind = "plain" THEN "cmdlock" ELSE "slotlock"]
  /\ UNCHANGED <<wait, wres, cmdlock, slotlock, crPending, crWp, crStopped,
                 erStopped, table, tableOn, intrOn, rpc, hcRun, hcFatal,
                 crRun, abortReq, hcq, hcSlots, events, faults>>

\* epopen and friends: a command on a slot the caller owns.
StartPlain(p) == \E s \in Mine(p) : Start(p, "plain", s)
\* allocslot for a new device.
StartAlloc(p) == Start(p, "alloc", 0)
\* freeslot when usbd detaches the caller's device.
StartFree(p) == \E s \in Mine(p) : Start(p, "free", s)

\* qlock(&ctlr->slotlock) in allocslot/freeslot, then their checks on
\* ctlr->slot: allocslot fails with Erecover when the table is released;
\* freeslot skips the command when the slot is no longer in the table.
LockSlots(p) ==
  /\ pc[p] = "slotlock"
  /\ slotlock = NONE
  /\ IF \/ op[p].kind = "alloc" /\ ~tableOn
        \/ op[p].kind = "free" /\ ~(tableOn /\ table[op[p].slot] = p)
       THEN /\ pc' = [pc EXCEPT ![p] = "idle"]
            /\ UNCHANGED slotlock
       ELSE /\ pc' = [pc EXCEPT ![p] = "cmdlock"]
            /\ slotlock' = p
  /\ UNCHANGED <<op, wait, wres, cmdlock, crPending, crWp, nCmds, crStopped,
                 erStopped, table, tableOn, intrOn, rpc, hcRun, hcFatal,
                 crRun, abortReq, hcq, hcSlots, events, faults>>

\* allocslot after Enable Slot returned res: publish the slot id of a
\* successful command unless it is out of range or taken ("bad slot id
\* from controller").
AllocDone(p, res) ==
  IF res.cc = "Success" /\ res.slotid \in Ids /\ table[res.slotid] = NONE
    THEN [table EXCEPT ![res.slotid] = p]
    ELSE table

\* Fault-injection variant: freeslot forgets ctlr->slot[id] = nil.
FreeDoneKeepsSlot(p) == table

\* freeslot after Disable Slot: ctlr->dcba[id] = 0 and ctlr->slot[id] = nil,
\* whatever the command returned.
FreeDone(p) == [table EXCEPT ![op[p].slot] = NONE]

\* What the caller does with ctlrcmd's result res once it has returned and
\* released cmdlock; allocslot and freeslot then drop slotlock.
Finish(p, res) ==
  /\ pc' = [pc EXCEPT ![p] = "idle"]
  /\ table' = CASE op[p].kind = "alloc" -> AllocDone(p, res)
                [] op[p].kind = "free"  -> FreeDone(p)
                [] OTHER -> table
  /\ slotlock' = IF op[p].kind = "plain" THEN slotlock ELSE NONE
  /\ wres' = [wres EXCEPT ![p] = res]

\* Fault-injection variant: ctlrcmd without qlock(&ctlr->cmdlock).
LockCmdNoLock(p) ==
  /\ pc[p] = "cmdlock"
  /\ IF NeedRecover
       THEN /\ Finish(p, ErecoverEr)
            /\ UNCHANGED cmdlock
       ELSE /\ pc' = [pc EXCEPT ![p] = "queue"]
            /\ cmdlock' = p
            /\ UNCHANGED <<table, slotlock, wres>>
  /\ UNCHANGED <<op, wait, crPending, crWp, nCmds, crStopped, erStopped,
                 tableOn, intrOn, rpc, hcRun, hcFatal, crRun, abortReq, hcq,
                 hcSlots, events, faults>>

\* ctlrcmd: qlock(&ctlr->cmdlock), then needrecover; when it holds, the
\* call returns Erecover without touching the ring.
LockCmd(p) ==
  /\ pc[p] = "cmdlock"
  /\ cmdlock = NONE
  /\ IF NeedRecover
       THEN /\ Finish(p, ErecoverEr)
            /\ UNCHANGED cmdlock
       ELSE /\ pc' = [pc EXCEPT ![p] = "queue"]
            /\ cmdlock' = p
            /\ UNCHANGED <<table, slotlock, wres>>
  /\ UNCHANGED <<op, wait, crPending, crWp, nCmds, crStopped, erStopped,
                 tableOn, intrOn, rpc, hcRun, hcFatal, crRun, abortReq, hcq,
                 hcSlots, events, faults>>

\* ctlrcmd after its check: cr->stopped = 0, queuetd links the Wait on
\* cr->pending and writes the TRB, waittd rings doorbell 0 (which restarts
\* a stopped command ring) and sleeps with the 5000 ms timeout.
Queue(p) ==
  /\ pc[p] = "queue"
  /\ crStopped' = FALSE
  /\ wait' = [wait EXCEPT ![p] = [pos |-> crWp, id |-> op[p].id]]
  /\ wres' = [wres EXCEPT ![p] = ZeroEr]
  /\ crPending' = crPending \cup {p}
  /\ crWp' = crWp + 1
  /\ hcq' = Append(hcq, [pos |-> crWp, id |-> op[p].id, type |-> CmdType(p),
                         slot |-> op[p].slot])
  /\ crRun' = TRUE
  /\ pc' = [pc EXCEPT ![p] = "wait1"]
  /\ UNCHANGED <<op, cmdlock, slotlock, nCmds, erStopped, table, tableOn,
                 intrOn, rpc, hcRun, hcFatal, abortReq, hcSlots, events,
                 faults>>

\* waittd's error handler after a timeout.  The first time on the command
\* ring it writes CRCR.CA, marks the ring stopped and waits 5000 ms more;
\* when the ring is already stopped it marks the event ring stopped, wakes
\* recover and waits with no timeout for the recovery flush.
Timeout(p) ==
  /\ pc[p] \in {"wait1", "wait2"}
  /\ p \in crPending
  /\ IF crStopped
       THEN /\ erStopped' = TRUE
            /\ pc' = [pc EXCEPT ![p] = "waitinf"]
            /\ UNCHANGED <<abortReq, crStopped>>
       ELSE /\ abortReq' = TRUE
            /\ crStopped' = TRUE
            /\ pc' = [pc EXCEPT ![p] = "wait2"]
            /\ UNCHANGED erStopped
  /\ UNCHANGED <<op, wait, wres, cmdlock, slotlock, crPending, crWp, nCmds,
                 table, tableOn, intrOn, rpc, hcRun, hcFatal, crRun, hcq,
                 hcSlots, events, faults>>

\* waittd returns once the Wait is off the pending list (completed or
\* flushed); ctlrcmd releases cmdlock and its caller goes on.
Return(p) ==
  /\ pc[p] \in WaitPCs
  /\ p \notin crPending
  /\ cmdlock' = NONE
  /\ Finish(p, wres[p])
  /\ UNCHANGED <<op, wait, crPending, crWp, nCmds, crStopped, erStopped,
                 tableOn, intrOn, rpc, hcRun, hcFatal, crRun, abortReq, hcq,
                 hcSlots, events, faults>>

-----------------------------------------------------------------------------
(* The interrupt handler, for the events this module produces.             *)

\* completering(ctlr->cr, td): the Wait whose TRB address matches the
\* event's gets the event and leaves the pending list; none matching, the
\* event is dropped.
CompleteCmd(ev) ==
  LET match == {p \in crPending : wait[p].pos = ev.pos}
  IN  IF match = {} THEN UNCHANGED <<crPending, wres>>
      ELSE \E p \in match :
             /\ crPending' = crPending \ {p}
             /\ wres' = [wres EXCEPT ![p] = ev]

\* One pass of the event loop.  Erhce marks the event ring stopped, wakes
\* recover and returns without consuming the event.
Interrupt ==
  /\ intrOn
  /\ events # <<>>
  /\ LET ev == Head(events) IN
       IF ev.kind = "cmd"
         THEN /\ CompleteCmd(ev)
              /\ events' = Tail(events)
              /\ UNCHANGED erStopped
         ELSE /\ erStopped' = TRUE
              /\ UNCHANGED <<crPending, wres, events>>
  /\ UNCHANGED <<pc, op, wait, cmdlock, slotlock, crWp, nCmds, crStopped,
                 table, tableOn, intrOn, rpc, hcRun, hcFatal, crRun, abortReq,
                 hcq, hcSlots, faults>>

-----------------------------------------------------------------------------
(* The recover task.                                                       *)

\* Woken when needrecover holds: shutdown clears USBCMD (the controller
\* halts) and disables the interrupt line.
RecDetect ==
  /\ rpc = "sleep"
  /\ NeedRecover
  /\ rpc' = "flush"
  /\ hcRun' = FALSE
  /\ intrOn' = FALSE
  /\ UNCHANGED <<pc, op, wait, wres, cmdlock, slotlock, crPending, crWp,
                 nCmds, crStopped, erStopped, table, tableOn, hcFatal, crRun,
                 abortReq, hcq, hcSlots, events, faults>>

\* Under ilock(cr), not cmdlock: cr->stopped = 1 and flushring(cr) wakes
\* every pending Wait with its zeroed result.
RecFlush ==
  /\ rpc = "flush"
  /\ crStopped' = TRUE
  /\ crPending' = {}
  /\ rpc' = "scan"
  /\ UNCHANGED <<pc, op, wait, wres, cmdlock, slotlock, crWp, nCmds,
                 erStopped, table, tableOn, intrOn, hcRun, hcFatal, crRun,
                 abortReq, hcq, hcSlots, events, faults>>

\* Fault-injection variant: recover goes on after one flush without
\* waiting for usbd to free the slots.
RecScanOnce ==
  /\ rpc = "scan"
  /\ slotlock = NONE
  /\ rpc' = "lock1"
  /\ UNCHANGED <<pc, op, wait, wres, cmdlock, slotlock, crPending, crWp,
                 nCmds, crStopped, erStopped, table, tableOn, intrOn, hcRun,
                 hcFatal, crRun, abortReq, hcq, hcSlots, events, faults>>

\* qlock(slotlock), count (and flush the rings of) the active slots,
\* qunlock; another round after 100 ms while any slot is active.
RecScan ==
  /\ rpc = "scan"
  /\ slotlock = NONE
  /\ rpc' = IF \E s \in Ids : table[s] # NONE THEN "flush" ELSE "lock1"
  /\ UNCHANGED <<pc, op, wait, wres, cmdlock, slotlock, crPending, crWp,
                 nCmds, crStopped, erStopped, table, tableOn, intrOn, hcRun,
                 hcFatal, crRun, abortReq, hcq, hcSlots, events, faults>>

RecLockSlots ==
  /\ rpc = "lock1"
  /\ slotlock = NONE
  /\ slotlock' = Recover
  /\ rpc' = "lock2"
  /\ UNCHANGED <<pc, op, wait, wres, cmdlock, crPending, crWp, nCmds,
                 crStopped, erStopped, table, tableOn, intrOn, hcRun, hcFatal,
                 crRun, abortReq, hcq, hcSlots, events, faults>>

RecLockCmd ==
  /\ rpc = "lock2"
  /\ cmdlock = NONE
  /\ cmdlock' = Recover
  /\ rpc' = "reinit"
  /\ UNCHANGED <<pc, op, wait, wres, slotlock, crPending, crWp, nCmds,
                 crStopped, erStopped, table, tableOn, intrOn, hcRun, hcFatal,
                 crRun, abortReq, hcq, hcSlots, events, faults>>

\* release(ctlr) then init(hp), both locks dropped after.  A successful
\* init resets the controller and starts it, gives new command and event
\* rings and an empty slot table, enables the interrupt and spawns a new
\* recover task; a failed one leaves the controller halted and released
\* and the task exits.
RecReinit ==
  /\ rpc = "reinit"
  /\ cmdlock' = NONE
  /\ slotlock' = NONE
  /\ events' = <<>>
  /\ erStopped' = FALSE
  /\ crStopped' = FALSE
  /\ crWp' = 0
  /\ hcq' = <<>>
  /\ hcSlots' = {}
  /\ abortReq' = FALSE
  /\ table' = [s \in Ids |-> NONE]
  /\ \/ /\ rpc' = "sleep"
        /\ hcRun' = TRUE
        /\ hcFatal' = FALSE
        /\ crRun' = FALSE
        /\ intrOn' = TRUE
        /\ tableOn' = TRUE
     \/ /\ rpc' = "failed"
        /\ hcRun' = FALSE
        /\ intrOn' = FALSE
        /\ tableOn' = FALSE
        /\ UNCHANGED <<hcFatal, crRun>>
  /\ UNCHANGED <<pc, op, wait, wres, crPending, nCmds, faults>>

-----------------------------------------------------------------------------
(* The controller (xHCI behaviour, not driver code).                       *)

\* Result of executing command c.
Exec(c) ==
  CASE c.type = "enable" ->
         IF Ids \ hcSlots = {}
           THEN {[cc |-> "NoSlots", slotid |-> 0, slots |-> hcSlots]}
           ELSE {[cc |-> "Success", slotid |-> i, slots |-> hcSlots \cup {i}]
                   : i \in Ids \ hcSlots}
    [] c.type = "disable" ->
         IF c.slot \in hcSlots
           THEN {[cc |-> "Success", slotid |-> 0, slots |-> hcSlots \ {c.slot}]}
           ELSE {[cc |-> "SlotNotEnabled", slotid |-> 0, slots |-> hcSlots]}
    [] OTHER -> {[cc |-> "Success", slotid |-> 0, slots |-> hcSlots]}

CmdEvent(c, cc, slotid) ==
  [kind |-> "cmd", pos |-> c.pos, id |-> c.id, cc |-> cc, slotid |-> slotid]

Alive == hcRun /\ ~hcFatal

\* The controller runs the command at the dequeue pointer and posts its
\* completion event.
HcExec ==
  /\ Alive /\ crRun /\ hcq # <<>>
  /\ \E r \in Exec(Head(hcq)) :
       /\ events' = Append(events, CmdEvent(Head(hcq), r.cc, r.slotid))
       /\ hcSlots' = r.slots
  /\ hcq' = Tail(hcq)
  /\ UNCHANGED <<pc, op, wait, wres, cmdlock, slotlock, crPending, crWp,
                 nCmds, crStopped, erStopped, table, tableOn, intrOn, rpc,
                 hcRun, hcFatal, crRun, abortReq, faults>>

\* Command Abort: the command in progress, if any, completes as Command
\* Aborted; the ring stops and Command Ring Stopped is posted naming the
\* dequeue pointer, the slot after the last command consumed.
HcAbort ==
  /\ Alive /\ abortReq
  /\ events' = events \o
       (IF hcq # <<>>
          THEN << CmdEvent(Head(hcq), "Aborted", 0),
                  [kind |-> "cmd", pos |-> Head(hcq).pos + 1, id |-> -1,
                   cc |-> "RingStopped", slotid |-> 0] >>
          ELSE << [kind |-> "cmd", pos |-> crWp, id |-> -1,
                   cc |-> "RingStopped", slotid |-> 0] >>)
  /\ hcq' = IF hcq # <<>> THEN Tail(hcq) ELSE hcq
  /\ crRun' = FALSE
  /\ abortReq' = FALSE
  /\ UNCHANGED <<pc, op, wait, wres, cmdlock, slotlock, crPending, crWp,
                 nCmds, crStopped, erStopped, table, tableOn, intrOn, rpc,
                 hcRun, hcFatal, hcSlots, faults>>

\* The controller fails: USBSTS.HCE, with or without an Erhce event.
HcFail ==
  /\ Alive /\ faults < MaxFaults
  /\ hcFatal' = TRUE
  /\ faults' = faults + 1
  /\ events' \in {events, Append(events, [kind |-> "hce"])}
  /\ UNCHANGED <<pc, op, wait, wres, cmdlock, slotlock, crPending, crWp,
                 nCmds, crStopped, erStopped, table, tableOn, intrOn, rpc,
                 hcRun, crRun, abortReq, hcq, hcSlots>>

-----------------------------------------------------------------------------

\* After init: controller running, empty rings, no slot enabled.
Init ==
  /\ pc = [p \in Callers |-> "idle"]
  /\ op = [p \in Callers |-> [kind |-> "plain", slot |-> 0, id |-> -1]]
  /\ wait = [p \in Callers |-> [pos |-> 0, id |-> -1]]
  /\ wres = [p \in Callers |-> ZeroEr]
  /\ cmdlock = NONE /\ slotlock = NONE
  /\ crPending = {} /\ crWp = 0 /\ nCmds = 0
  /\ crStopped = FALSE /\ erStopped = FALSE
  /\ table = [s \in Ids |-> NONE] /\ tableOn = TRUE
  /\ intrOn = TRUE /\ rpc = "sleep"
  /\ hcRun = TRUE /\ hcFatal = FALSE /\ crRun = FALSE /\ abortReq = FALSE
  /\ hcq = <<>> /\ hcSlots = {} /\ events = <<>> /\ faults = 0

CallerStep(p) ==
  \/ StartPlain(p) \/ StartAlloc(p) \/ StartFree(p)
  \/ LockSlots(p) \/ LockCmd(p) \/ Queue(p) \/ Timeout(p) \/ Return(p)

Next ==
  \/ \E p \in Callers : CallerStep(p)
  \/ Interrupt
  \/ RecDetect \/ RecFlush \/ RecScan \/ RecLockSlots \/ RecLockCmd
  \/ RecReinit
  \/ HcExec \/ HcAbort \/ HcFail

\* The interrupt handler and the recover task run whenever they can (the
\* task polls needrecover every 10 ms); a qlock is FIFO, so a task that
\* keeps waiting on it gets it; a tsleep with a timeout returns; usbd
\* detaches the devices of a controller that needs recovery.  The
\* controller is given no fairness: it may never answer a command.
Fairness ==
  /\ WF_vars(Interrupt)
  /\ WF_vars(RecDetect) /\ WF_vars(RecFlush) /\ WF_vars(RecReinit)
  /\ SF_vars(RecScan) /\ SF_vars(RecLockSlots) /\ SF_vars(RecLockCmd)
  /\ \A p \in Callers :
       /\ SF_vars(LockSlots(p)) /\ SF_vars(LockCmd(p))
       /\ WF_vars(Queue(p)) /\ WF_vars(Timeout(p)) /\ WF_vars(Return(p))
       /\ SF_vars(NeedRecover /\ StartFree(p))

Spec == Init /\ [][Next]_vars /\ Fairness

-----------------------------------------------------------------------------
(* Properties.                                                             *)

\* cmdlock serialises ctlrcmd and waittd does not return while its Wait is
\* linked, so the command ring never has more than one Wait pending.
AtMostOneCommand == Cardinality(crPending) <= 1

\* Every slot id ctlr->slot[] gives to a device is one the controller has
\* enabled, except while its owner's freeslot is between the Disable Slot
\* and clearing the entry.  allocslot publishes an id only from a Success
\* completion, routed to its Wait by address across aborts and timeouts,
\* and freeslot and recovery clear the entries of slots they disable.
Freeing(p, s) == op[p].kind = "free" /\ op[p].slot = s /\ pc[p] # "idle"
SlotTableEnabled ==
  \A s \in Ids : table[s] # NONE /\ ~Freeing(table[s], s) => s \in hcSlots

\* Once recover has seen no active slot and goes on to take the locks for
\* release and init, no Wait is left on the command ring (release frees
\* the ring the Waits point into).
RecoveryDrains == rpc \in {"lock1", "lock2", "reinit"} => crPending = {}

\* Every allocslot, freeslot or command a caller starts returns to it:
\* waittd's timeouts hand a stuck command to recover, whose flush wakes it.
CommandsReturn == \A p \in Callers : pc[p] # "idle" ~> pc[p] = "idle"

\* completering wakes a Wait only with the completion of the command that
\* Wait's TRB holds.
CmdResultOwn ==
  \A p \in Callers :
    (pc[p] \in WaitPCs /\ p \notin crPending /\ wres[p].cc \notin {"None"})
      => wres[p].id = wait[p].id
=============================================================================
