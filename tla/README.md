# TLA+ models of the xHCI USB driver and the DWMAC4 ethernet driver

This directory holds TLA+ models of two drivers, together with the TLC
configurations that check them:

- the xHCI USB host controller driver, `src/sys/src/9/quarantine/usbxhci.c`;
- the receive and transmit rings of the DWMAC4 ethernet driver of the RISC-V
  kernel, `src/sys/src/9k/rv/etherdwmac4.c` (with `freeb` from `allocb.c`).

`PROJECT.json` lists:

- the components;
- the runs;
- the mutants that show each checked property can fail;
- the map from every model definition to the source lines it translates;
- the hazards of the code.

## The system

### xHCI

The driver talks to the controller through rings of 16-byte TRBs in shared
memory.

- **TRB rings** (`Ring`: `base`, `wp`, `rp`, `mask`, `pending`, `stopped`).
  - `queuetd` writes a TRB at `wp` with the cycle bit `(~x >> shift) & 1`.
  - At the last slot it first writes a link TRB with Toggle Cycle.
  - A caller that wants the result links a stack-allocated `Wait` at the head
    of `pending`.
  - `completering` handles a completion event. It moves `rp` past the TRB the
    event names, then unlinks the Wait whose TRB address matches and wakes its
    owner.
  - `resetring` flushes the Waits, sets `rp = wp`, and gives a new dequeue
    pointer for Set TR Dequeue Pointer.
- **Command protocol.**
  - `ctlrcmd` takes `cmdlock` and fails with `Erecover` when `needrecover`
    holds.
  - It queues one command TRB, and `waittd` rings doorbell 0.
  - `waittd` sleeps 5 s. On the first timeout it writes CRCR.CA (Command
    Abort), marks the ring stopped and waits 5 s more. On the second it marks
    the event ring stopped, wakes `recover`, and waits with no timeout for the
    recovery flush.
- **Transfer paths.**
  - `epread`/`epwrite` of bulk and interrupt endpoints call `unstall`, then
    queue one TRB and wait.
    - `unstall` issues Reset Endpoint for a halted endpoint.
    - For a stopped ring it issues Set TR Dequeue Pointer from `resetring`.
    - It then checks for Ring Full.
  - A control transfer in `epwrite` queues setup, optional data and status
    TRBs, each with a Wait. It waits on them in order, and on error drops the
    pending list.
  - `isowrite` queues isochronous TRBs without Waits while
    `wp - rp < mask`.
  - A transfer timeout in `waittd` issues Stop Endpoint through `ctlrcmd`.
- **Interrupt handler.**
  - It walks the event ring by cycle bit.
  - Command completions go to the command ring.
  - Transfer events go to the endpoint ring named by slot and endpoint id.
  - Erhce marks the event ring stopped, wakes `recover`, and returns without
    advancing ERDP.
- **Recovery.**
  - `recover` sleeps until `needrecover`, which is true when the event ring is
    stopped or USBSTS shows HCH, HCE or HSE.
  - It calls `shutdown`, then loops:
    - flush the command ring (under `ilock`, not `cmdlock`);
    - under `slotlock`, flush every active slot's endpoint rings;
    - stop when no slot is active, otherwise sleep 100 ms and repeat.
  - It then takes `slotlock` and `cmdlock`, and calls `release` and `init`.
    A successful `init` spawns a new `recover`; a failed one ends recovery
    for good.
- **Slot table.**
  - `allocslot` takes `slotlock` and issues Enable Slot, then publishes the
    slot in `ctlr->slot`.
  - `freeslot` takes `slotlock`, issues Disable Slot and clears the entry.
  - `epopen` issues Address Device; `initep` and `epclose` issue Configure
    Endpoint.

How they interact:

- Many processes issue commands and transfers at once.
- The interrupt handler completes their Waits.
- The `recover` task can flush Waits at any point.
- The controller runs concurrently with all of them.

### DWMAC4 ethernet

- **Receive.** A ring of `Nrd` descriptors and a buffer pool
  (`rballoc`/`rbfree`) shared by every controller, seeded once with
  `Nrb = 2*Nrd` buffers by the first `attach` (`allocall`).
  - `replenish` arms descriptors from `rdt` up to just before `rdh`: it sets
    Own and gives each a pool buffer. It stops when the pool is empty, and it
    always leaves slot `rdt` unarmed.
  - The DMA engine fills armed descriptors in order and clears Own.
  - The interrupt handler sets `rim` and wakes the `rproc` kernel process.
  - `rproc` sleeps until `rim` or `needreset`. It clears `rim`, runs
    `resetrxtx` if a reset is needed, then takes packets with `qinpkt` until it
    finds Own. It replenishes if it passed anything up.
  - A fatal DMA error (`Cdee|Fbee`) sets `needreset`.
- **Transmit.**
  - `transmit` wakes the `tproc` kernel process.
  - `tproc` calls `xmit`, which moves Blocks from `edev->oq` into the
    descriptors at `tdt`. It keeps `Ntd-2` at most outstanding.
  - When it queued something, `xmit` calls `kick`, which writes the tail
    register and runs `cleanup`. `cleanup` frees the Blocks of the
    descriptors the engine has finished, and keeps the last 4.
  - On `Txse` (transmit DMA stopped) the interrupt handler runs `resumetx`,
    which also runs `cleanup` and restarts the DMA.
  - `resetrxtx` (in `rproc`, under `tlock`) runs `txinit`, which frees every
    Block on the ring and restarts it.
  - The eswin (EIC7700) variant differs in `xmit`. It calls `kick` (and so
    `cleanup`) after every descriptor, at half-full with `stop`. After the
    loop it always kicks, unless `qlen > Ntd-8`: then it calls `restart`,
    which sets `needreset` and wakes `rproc` to reset the ring.

## Modules

| Module | Models | State | Actions |
|---|---|---|---|
| `RingFifo` | what a TRB ring promises | `queue` of TRBs not yet taken, producer cursor `top`, `halted` | `Produce` (may drop untaken TRBs only while halted), `Take`, `Stop` |
| `XhciRing` | one endpoint ring, its caller and the controller's consumer | `trb` cells (cycle, type, name), `wp`, `rp`, `stopped`, `pending`; controller `deq`, `ccs`, `hc`, `events`; the caller's Waits and results | `SubmitBulk` (epread/epwrite bulk: unstall + queuetd + doorbell), `SubmitCtl` (epwrite control, 2 or 3 TRBs), `IsoQueue` (one isowrite TRB), `Timeout` (waittd: Stop Endpoint, `r->stopped = 1`), `Complete` (completering), `CallerReturn` (waittd calls in order, `pending = nil` on a control error), `HcFetch` (controller) |
| `XhciCmd` | the command ring, its callers, the interrupt's command and Erhce cases, recovery | caller `pc`, `op`, `wait`, `wres`; `cmdlock`, `slotlock`; `crPending`, `crWp`, `crStopped`, `erStopped`; slot `table`; `rpc` of `recover`; controller `hcRun`, `hcFatal`, `crRun`, `abortReq`, `hcq`, `hcSlots`, `events` | `StartAlloc`, `StartFree`, `StartPlain`, `LockSlots`, `LockCmd`, `Queue`, `Timeout`, `Return`; `Interrupt`; `RecDetect`, `RecFlush`, `RecScan`, `RecLockSlots`, `RecLockCmd`, `RecReinit`; `HcExec`, `HcAbort`, `HcFail` |
| `XhciEvent` | the event ring walk of `interrupt()` and the cached microframe counter | controller `mf` (MFINDEX), `hcRun`, `hcErr`, pending wrap/HCE events, event `trb` cells and enqueue cursor `enq`; interrupter IP/EHB; driver `rp`, ERDP, `erStopped`, cached `ctlr->µframe`; `recover`'s `rpc` | `Tick` (MFINDEX counts, queues a wrap event), `Other` (a completion event), `Post` (write an event, or Event Ring Full), `RaiseIp`, `Fault` (HCE); `Enter`, `Walk` (one event: wrap carries the cache, HCE returns at once), `WalkEnd` (ERDP write with EHB); `RecShutdown`, `RecRelease` (`release`, guarded by the assumption below), `RecReinit` (`init`) |
| `XhciMframe` | a caller of `µframe()` beside `XhciEvent` | the caller's two loads, their order (chosen once, as the compiler fixes it), and its return value | `UCall`, `ULoad1`, `ULoad2`, `UCmp` (the retry test); every `XhciEvent` step |
| `DwmacRx` | the receive ring, the shared buffer pool and `rproc` | descriptor status and `rb[]`, `rdh`, `rdt`, the engine's head, the pool count, `rim`, `rie`, `needreset`, `rproc`'s pc | `Receive` (engine fills an armed descriptor), `Fatal`, `RxIntr`, `RbFree` (the stack frees a buffer it was passed); `Wake` (incl. `resetrxtx`), `QinpktTake`, `QinpktPanic`, `QinpktEnd` (incl. `replenish`) |
| `DwmacTx` | the transmit ring of both variants, `tproc`, the interrupt's `resumetx`, and `txinit` | `oq`, `tb[]`, descriptor status, `tdh`, `tdt`, the engine's head and tail register, `txrun`; `tlock`; `tim`, `trreq`, `needreset`, `Tie`/`Txse`; the program counters and locals of `tproc` and the interrupt handler; `freed[b]`, `wire` (the sequence the engine sent), `dropped` | `Transmit`, `HwSend`, `HwStop`, `Fatal`; `TWake`, `XmitBusy`, `XmitLock`, `XmitFill`, `XmitNone`, `Restart`, `Kick`, `TCleanRead`, `TCleanFree`, `TCleanEnd`, `TPost`; `IntrEnter`, `ICleanRead`, `ICleanFree`, `ICleanEnd`, `IntrExit`; `ResetRxTx` |
| `MCXhciRing`, `MCXhciCmd`, `MCXhciEvent`, `MCXhciMframe`, `MCDwmacRx`, `MCDwmacTx` | instances for TLC | | |

### Correspondence with the code

- **One action per atomic region.**
  - A caller holding `qlock(io)` runs unstall, queuetd and the doorbell with
    no other producer on the ring, so `Submit` is one step.
  - queuetd's link TRB and data TRB become visible to the controller only when
    the cycle bit is written, so they form one step. The Wait is linked before
    that write.
  - The interrupt handler handles one event per step. Timeouts, lock
    acquisitions and the `needrecover` check are steps of their own.
- **Where the code can be preempted.** `LockCmd` (qlock and the
  `needrecover` check) and `Queue` (`cr->stopped = 0`, queuetd, doorbell) are
  separate steps, because the code can be preempted between line 829 and
  line 834.
- **Addresses and names.** A TRB is its slot address, and the driver matches
  events by address, as the code does. Each TRB also carries a name (the `wp`
  it was queued at, or the command's number), used only to state properties.
- **The controller** is not code of this repository. It is modelled from the
  xHCI behaviour the driver relies on (these definitions are marked
  `spec_modelled` in the map):
  - the consumer cycle state and link TRBs;
  - one event per executed TRB (the driver sets IOC on every TRB);
  - halting on a stall;
  - a Stopped event for the TD in progress on Stop Endpoint;
  - on Command Abort, Command Aborted for the command in progress, then
    Command Ring Stopped naming the dequeue pointer;
  - HCE, with or without an Erhce event;
  - never answering at all.
- **Endpoint type.** `XhciRing` takes the set `EpTypes` of endpoint types.
  `Init` picks the type of the ring's endpoint (`EpType`), and no step changes
  it, so one run covers the bulk, ctl and iso paths. The write-cursor bound
  `MaxWp` is a function of the type.
- **cleanup split into steps.** In `DwmacTx`, `cleanup` runs in two
  processes that hold different locks. Its loop is therefore split into the
  steps the C performs: test the descriptor (`CleanMore`), read `tb[tdh]`,
  then clear it and call `freeb`. The final `ctlr->tdh = tdh` is a step of
  its own. Everything else in `xmit`, `kick`, `resumetx` and `txinit` is one
  step per region with no preemption point that matters.
- **The transmit variant.** `DwmacTx` takes the set `Variants`, and `Init`
  picks `ctlr->variant`, which no step changes.
  - `ql` is `xmit`'s local `qlen`, stale in the way the C's is.
  - `inloop` records whether the running `kick` was called from inside the
    loop, so that `TCleanEnd` returns to the loop test.
  - `kick(stop)` is modelled as `kick`. It stops and starts the DMA within
    one `reglock` section, where the interrupt handler cannot see it.
  - `restart`'s 250 ms `tsleep` with `tlock` held is folded into its step.
    `rproc`'s `resetrxtx` waits for that `tlock` anyway.
- **The DMA engines** are not code of this repository. They are modelled
  from the ring comments in `etherdwmac4.c` (`spec_modelled`):
  - the receive engine fills armed descriptors in order;
  - the transmit engine sends owned descriptors up to the tail register, and
    may stop (raising `Txse`).
- **The `xmit` ring-full panic** at line 651 is not an action.
  `XmitFill` carries the `tb[tdt]` test as its guard, and `NoTxPanic` states
  that the test never fails.
- **Abstractions.**
  - In `XhciRing`, the commands issued by `unstall` and by a transfer timeout
    always succeed; their failures belong to `XhciCmd`.
  - In `XhciCmd`, `init` is reduced to its effect: a reset, running controller
    with new rings, an empty slot table and the interrupt enabled.
  - Failed `init` is modelled too: the controller stays halted, `ctlr->slot`
    is nil and the task exits.

## Runs

| Run | Config | Expect | What it shows |
|---|---|---|---|
| `ring` | `MCXhciRing_ring.cfg` | pass | Bulk transfers of 1 TRB, control transfers of 2 and 3 TRBs, and the isowrite producer, over more than two laps of a 4-slot ring, with stalls and Stop Endpoint timeouts. Each Wait gets the event of its own TRB (`CompletionRouted`). The controller executes exactly the TRBs queued, in order; a reset drops only the untaken ones; isowrite never overwrites an unexecuted TRB (`RingRefinesFifo`). Every blocked caller returns (`CallerReturns`). |
| `cmd_safety` | `MCXhciCmd_safety.cfg` | pass | With two callers, one slot, four operations and one controller failure: at most one command is pending (`AtMostOneCommand`); every slot id `ctlr->slot[]` gives a device is enabled in the controller, except while its own `freeslot` is between Disable Slot and clearing the entry (`SlotTableEnabled`); recovery reaches release with no Wait on the command ring (`RecoveryDrains`). |
| `cmd_deadlock` | `MCXhciCmd_deadlock.cfg` | violation | `CommandsReturn` fails: allocslot deadlocks with recover (finding 1). |
| `cmd_routing` | `MCXhciCmd_routing.cfg` | violation | `CmdResultOwn` fails: the next command receives Command Ring Stopped (finding 2). |
| `event_ring` | `MCXhciEvent_ring.cfg` | pass | Under HCE faults, Event Ring Full and one recovery: the handler takes every event once and in order, and the controller never overwrites an untaken one (`EventRefinesFifo`). The cache keeps up with MFINDEX across its wraps and the wrap of the ulong (`CachedFrameTracks`). Events written during a walk are still taken (`EventsConsumed`). |
| `mframe_exact` | `MCXhciMframe_exact.cfg` | violation | `MicroframeExact` fails: `µframe()` returns a count one MFINDEX period behind (finding 3). |
| `rx_ring` | `MCDwmacRx_ring.cfg` | pass | Through pool exhaustion and a fatal-error reset: no buffer is lost or duplicated (`BuffersConserved`); the ring keeps its shape, with armed descriptors from the engine's head to `rdt`, filled ones from `rdh` to the engine's head, and nothing else holding a buffer (`DescriptorOwnership`); every filled descriptor is eventually taken by `rproc`, unless the kernel panicked (`RxDelivered`). |
| `rx_panic` | `MCDwmacRx_panic.cfg` | violation | `NoRxPanic` fails: `qinpkt` reads the unarmed slot `rdt` and panics (finding 4). |
| `tx_ring` | `MCDwmacTx_ring.cfg` | pass | For both variants (eswin with its per-descriptor kicks and `restart`), without DMA stops, across a wrap of the ring and a fatal-error reset: no Block is freed twice (`NoDoubleFree`) or before the engine sent it (`FreedOnlyWhenDone`), `xmit` never finds a descriptor still holding a Block (`NoTxPanic`); and the engine sends Blocks in the order the stack sent them, each once, skipping only those a reset dropped (`TxInOrder`). |
| `tx_drain` | `MCDwmacTx_drain.cfg` | pass | Generic variant: with a DMA stop, every Block put on the ring is eventually sent, because `resumetx` restarts the engine (`RingSent`). |
| `tx_race` | `MCDwmacTx_race.cfg` | violation | `NoDoubleFree` fails: `cleanup` in `tproc` and in `resumetx` free one Block twice (finding 5). |
| `tx_full` | `MCDwmacTx_full.cfg` | violation | `TxDrained` fails: once the ring holds `Ntd-2` descriptors, the generic variant never cleans it again (finding 6). |

### Findings

1. **Deadlock between `ctlrcmd`'s `needrecover` check and `recover`.**
   - The setup: allocslot or freeslot holds `slotlock` and has passed the
     check at line 829. The controller then fails, and `recover` shuts it
     down and flushes the command ring.
   - The caller now queues its command (line 834). Nothing will execute it:
     the caller times out, aborts, times out again, and sleeps with no
     timeout.
   - `recover` waits in `qlock(&ctlr->slotlock)` (line 646) before its next
     flush, so neither ever proceeds.
   - Once this happens, every later `slotlock` or `cmdlock` user blocks too.
   - The window is short (between two statements of `ctlrcmd`), but nothing
     in the code closes it. TLC finds it in 11 steps.
2. **Command Ring Stopped taken as the next command's completion.**
   - The xHCI specification (4.6.1.2) says that after a Command Abort the
     controller posts Command Ring Stopped with the dequeue pointer. That is
     the slot the next command will occupy.
   - `completering` matches by address (line 863). If the next command is
     queued before the interrupt handles that event, the next caller gets
     "Command Ring Stopped", and its real completion is dropped as unmatched.
   - For Enable Slot, the controller then has an enabled slot the driver never
     records.
3. **`µframe()` runs 2^14 microframes behind after an MFINDEX wrap.**
   - Only the interrupt handler advances `ctlr->µframe`, on the wrap event.
   - Between the wrap and the handling of its event, `µframe()` combines the
     new small MFINDEX with the old high bits. The retry test at line 310
     passes, because the cached low bits are usually 0.
   - isowrite then computes its frame and its sleep from a value 2.048 s old.
4. **`qinpkt` panics on "nil Block*" (etherdwmac4.c:1008-1009).**
   - `replenish` always leaves slot `rdt` unarmed. `qinpkt` tells a filled
     descriptor from an armed one only by Own, and has no `rdh == rdt` test.
   - When the engine fills every armed descriptor before `rproc` drains them,
     `rproc` takes them all, then reads slot `rdt` and panics. Few
     descriptors are armed when the shared pool is low. TLC needs 8 steps.
5. **Double free in `cleanup` (etherdwmac4.c:523).**
   - `cleanup` runs from `kick` in `tproc`, holding `tlock`, and from
     `resumetx` in the interrupt handler, holding `reglock`. Both copy
     `ctlr->tdh`, read `tb[tdh]` and `freeb` it.
   - On another hart they free the same Block twice. The later one also
     writes back an older `tdh`.
6. **The generic variant's ring stops for good when full
   (etherdwmac4.c:634).**
   - `cleanup` runs only from `kick`. `xmit` kicks only if it queued
     something (line 677).
   - Once `Ntd-2` descriptors are outstanding, every `xmit` breaks at the
     cap with nothing queued. So nothing cleans the ring again, although the
     engine has sent everything, and `oq` never drains.
   - The eswin variant's `restart()` hides this with a reset.

**Also met, not given a run of its own.** `xmit` returns at once while
`needreset` is set (line 617), and `tproc` then sleeps. `resetrxtx` does not
wake `tproc`, so Blocks already on `oq` wait for the next packet.
`TxDrained` catches this as well: with `MaxSend <- MCMaxSendCap` (a ring that
cannot stay full) and `MaxFatal = 1`, `MCDwmacTx_full.cfg` fails by this
stall. The trace is Fatal, Transmit, TWake, XmitBusy, TPost, ResetRxTx, then
nothing. It is listed as a hazard.

**xHCI slots leaked by `freeslot` (usbxhci.c:957).** This was checked
without a run of its own:
- `freeslot` clears `ctlr->slot[id]` whatever its Disable Slot returned.
- If that command is aborted, the controller keeps the slot enabled, and
  only a later recovery resets it.
- The check was an invariant: in a quiet state (every caller idle, nothing
  queued, pending or unhandled, no recovery needed), the controller's
  enabled slots equal the table's. It used the `cmd_safety` constants, in a
  copy of `XhciCmd` whose `completering` ignores Ring Stopped events, which
  rules out finding 2's path.
- TLC violates it in 17 steps. A Command Abort requested after an Enable
  Slot timed out is still pending when the controller completes that
  command. The abort then hits the following Disable Slot.
- It is recorded under the hazard at usbxhci.c:1005.

**xHCI `release` under a running interrupt handler (usbxhci.c:435).**
This was checked without a run of its own:
- `interrupt()` takes no lock. It tests `er->base` once on entry, then
  walks the event ring and indexes `ctlr->slot[x]` for transfer events.
- `recover` runs `shutdown` and then `release`. `shutdown` calls
  `pciintrdisable`, which does not wait for a handler already running on
  another CPU. Its wait for Hch ends at once, because `recover` runs only
  on a controller that has already halted or failed.
- `XhciEvent` therefore guards `RecRelease` with `ipc = "idle"`. That
  guard is an assumption the code does not ensure, and it is the only one
  of its kind in the project.
- With the guard removed, TLC finds a handler in its walk at `release` in
  4 steps: `Fault`, `Enter`, `RecShutdown`, `RecRelease`. The invariant
  checked was `ipc = "walk" => rpc # "gone"`.
- It is recorded under the hazard at usbxhci.c:435.

**K1 ethernet receive wedged on its first lap (etherk1x.c:866).** This was
checked without a run of its own, because all twelve run slots back a
finding or a pass run that is the only one firing some actions:
- The model is a `K1xRx` module written from `replenish` (767-803),
  `qinpkt` (818-885), `rproc` (893-922), `rballoc`/`rbfree` (437-473) and the
  receive part of `interrupt` (1337-1345). It has a ring of 5 descriptors
  and 3 pool buffers, and the engine raises `Rxdescunavailirq` when a poll
  demand finds a descriptor without Own.
- `allocall` seeds the pool with `Nrb` buffers "for one controller", but
  both K1 controllers draw on it, and `initrxring` leaves every status word
  zero.
- When the pool is dry on the ring's first lap, `replenish` leaves the
  never-written descriptor `rdt` unarmed. `qinpkt` takes it anyway (no
  Rdfirst|Rdlast, so `freeb(nil)`), walks on and wraps to a descriptor it
  consumed earlier. There the status still has Rdfirst|Rdlast and `rb` is
  nil, so it returns -1 on every later call ("nil Block*").
- `replenish` stops at `NEXT(rdt) == rdh`, so it never arms the descriptor
  before `rdh`. The engine fills what was armed and stops, and no packet is
  taken again.
- TLC violates "every written-back descriptor is eventually taken" (a
  liveness property under weak fairness of rproc, the interrupt, the engine
  and the stack's `rbfree`) in 22 steps. With 12 buffers, so that the pool
  cannot run dry, the property holds (38,352 states).
- It is recorded under the hazard at etherk1x.c:866.

**On eswin, met with the variant set to `{"eswin"}`.** Two traces:
- **`restart` as a reset trigger: a model artifact.** With a DMA stop,
  the `tx_drain` cfg fails `RingSent`. In the trace, the handler's `cleanup`
  reads `tb[0]`, then the reset frees the ring. `xmit` puts a new Block in
  slot 0, and the handler frees the old Block again and clears the new
  one's slot. The code does not allow this. `ResetRxTx` is one atomic step
  that ignores `reglock`. In the code, `rxinit`'s `swreset` (819) and
  `txinit` (1377, 1397) take `reglock`, and the handler holds it through
  `resumetx`'s `cleanup` (1565-1602). So a reset cannot overlap the
  handler's `cleanup`. No kept pass result depends on this
  over-approximation: `tx_ring` has no DMA stops, so the handler never
  cleans, and `tx_drain` and `tx_race` have no reset.
- **`restart` and the stall.** Without faults, the `tx_full` cfg fails
  `TxDrained` by `restart` and the stall above.
  - At `Ntd = 7`, `restart` fires as soon as five descriptors are queued,
    because `cleanup` keeps 4. With `Ntd = 1024` the code needs about 1012
    unsent descriptors.
  - So this shows that `restart` strands `oq`, not how often it happens.

The second is a hazard in `PROJECT.json`. The runs keep the generic
variant so that each trace stays the finding it names.

### Mutants

Every property of a passing run is broken by a plausible bug in a mapped
definition (see `mutants` in `PROJECT.json`):

- a queuetd with no link TRB, or with the link's cycle taken from the next
  cursor;
- a resetring cycle without the complement, or a dequeue pointer computed
  from `rp`;
- an isowrite throttle that is off by one;
- a completering that wakes the head of the pending list;
- a ctlrcmd without `cmdlock`;
- a freeslot that leaves its entry in `ctlr->slot[]`;
- a recover that does not wait for the slots to be freed;
- an interrupt walk that writes ERDP past the last event or not at all, and
  a wrap that does not carry into the cache;
- a replenish that ignores an empty pool, a qinpkt that leaves the buffer on
  the descriptor, a toss that leaks a buffer, an interrupt that does not set
  `rim`;
- a cleanup without the Own test or that keeps `tb[tdh]`, an xmit that
  records the Block one slot past the descriptor it armed, and a resumetx
  that does not restart the DMA.

## Bounds and why they are enough

- **`XhciRing`** uses `Shift = 2`, a 4-slot ring whose link TRB sits at slot 3.
  - `MaxWp` is 10 for bulk and ctl. That is more than two laps, so the link
    TRB is written and followed in both cycle states, and a reset happens on
    either lap.
  - `MaxWp` is 24 for iso, six laps, because no caller waits and the
    producer runs ahead. (Running bulk and ctl to 24 as well takes more than
    15 minutes and adds no case.)
  - The ring's behaviour depends on the cursor modulo the size and on the lap
    parity, so a 4-slot ring covers every case the 256-slot ring has except
    the 32-bit cursor wrap.
- **`XhciCmd`** uses two callers, one slot id, four operations (three in the
  violation runs) and one controller failure.
  - Two callers are enough for one to hold a lock while the other and
    `recover` wait on it.
  - One slot id already exercises both Enable Slot outcomes: success, and No
    Slots Available.
  - The caller symmetry is sound for the safety runs and is not used for the
    liveness run.
- **`XhciEvent`** uses a 4-slot event ring, which is full after three
  events. It uses a 1-bit MFINDEX and a 3-bit cache. Nine microframes then
  cross four MFINDEX wraps and one wrap of the cache, as 2^14 and 2^32 are
  crossed in the code. It allows two other events, one HCE and one recovery.
- **`DwmacRx`** uses `Nrd = 4` and `Nrb = 8`, the code's ratio
  `Nrb = 2*Nrd` for one controller.
  - The stack may hold buffers it was passed, so the pool still runs dry
    while the ring is short of armed descriptors. Both "pool empty" and
    "ring full" are reached.
  - Nine packets wrap the ring twice, and one fatal error resets it.
  - `rx_ring` takes 45 s (150,134 states). Two fatal errors take 3 min 40 s
    and add no new kind of state: a reset from any ring shape is already
    reached with one.
- **`DwmacTx`** uses `Ntd = 7`, the smallest ring in which the cap of
  `Ntd-2` exceeds the 4 descriptors `cleanup` keeps, so `cleanup` frees.
  - `MaxSend` is 12 in `tx_ring`, to wrap the ring and reuse five of its
    descriptors (33 s, 2,627,835 states). With 14 Blocks and two fatal
    errors the run takes 9 minutes. `tx_race` shares this bound.
  - It is 6 to fill the ring to its cap with one Block left waiting.
  - It is 5 for a load the ring takes at its cap.
  - `NearFull`, eswin's `Ntd-8`, is 4. That is one below the cap, so
    `restart` is reached.
  - `tx_ring` has no DMA stops: a stop reaches the double free of finding 5,
    which `tx_race` shows on its own.
- **Idle states.** All models stop once the operation budget is spent. The
  driver is reactive and idles when nobody calls it, so deadlock checking is
  off.

## Fairness

- **Fair:**
  - the interrupt handler;
  - the `recover` task, which polls `needrecover` every 10 ms;
  - a woken caller, and `tsleep` with a timeout, which always returns;
  - a waiter on a qlock (strong fairness: qlocks are FIFO);
  - `usbd` detaching a device while the controller needs recovery (strong
    fairness on `StartFree`). The spec states this as recovery's assumption.
- **Not fair:**
  - starting an operation;
  - in `XhciCmd`, the controller, which may never answer.
- In `XhciRing` the controller's consumer is weakly fair, so `CallerReturns`
  is about the driver's side of the protocol.
- In `XhciEvent` the interrupt handler and `recover` are weakly fair. The
  controller's counting and event posting are not.
- In `DwmacRx` and `DwmacTx`, these are weakly fair:
  - the kernel processes `rproc` and `tproc` (kprocs the scheduler runs);
  - the interrupt handler;
  - a running transmit DMA engine.

  The stack, the wire, DMA stops and fatal errors need not happen.

## Not modelled

- **What limits the rest.** Every one of the twelve runs either backs a
  finding or is the only pass run that fires some actions. Merging the two
  transmit pass runs was tried: `tx_drain` needs a DMA stop, and with a stop
  the `tx_ring` configuration reaches the double free of `tx_race`, so the
  two cannot share a configuration. A new component therefore has no run to
  be checked in, and adding one without a run would be a module nothing
  checks. Three results were checked by hand and are recorded as hazards: the
  `freeslot` slot leak, the `release` race, and the K1 receive wedge.
- **Hazards recorded without a property.** These are listed in
  `PROJECT.json` with the reason:
  - epclose ignores the results of Stop Endpoint and Configure Endpoint and
    then frees the rings (usbxhci.c:1059). Checking it needs `XhciRing`
    composed with `XhciCmd`.
  - The interrupt handler reads `ctlr->slot[x]` without a lock while
    `freeslot` frees the Slot (usbxhci.c:913). A successful Disable Slot
    orders the free after the handler; a failed or flushed one does not.
  - portreset sets PR by a read-modify-write of PORTSC. That write clears
    the RW1C change bits and writes 1 to PED (usbxhci.c:1730).
- **Left for future work, each needing a run of its own:**
  1. A composition of `XhciRing` with `XhciCmd`, in which the Stop Endpoint,
     Reset Endpoint and Set TR Dequeue commands can fail or time out. It
     would also cover epclose.
  2. A run for the slot-leak invariant described above.
  3. `XhciSlot`, for epopen, initep, ringsetup and epclose with
     `slot->nep`. It is only worth building if the USB layer's locking lets
     two opens or closes of one device overlap. Run one at a time, `nep`
     keeps its bound by the shape of the updates (see the hazard at
     usbxhci.c:1057).
  4. The isochronous arithmetic (the frame and offset computation of
     isowrite/isoread), as operators checked against a reference.
  5. A run for the K1 receive wedge.
- **Not modelled because there is nothing to check against:**
  - `portstatus` maps PORTSC bits to the generic layer's `HP*` bits. Those
    bits are defined in `usb.h`, which is not in the repository, so there is
    no reference to check a translation against.
  - xecp's capability walk and `handoff` are register reads and writes of
    firmware-owned state.
- **DWMAC4, not modelled:** the PHY, the register setup (`swreset`,
  `setdmaskip`, `reset`, `setmacs`), and `detach`/`shutdown`. These are MMIO
  programming with no shared state the properties tell apart. `freeblks` has
  no caller. `allocall` is modelled in its first call, which seeds the pool.
  Its other branch runs for each later controller (`first` is static) and
  only zeroes that controller's fresh rings.
  `attach`'s `rxinit` runs without `tlock`. Whether that can race `rproc`
  depends on the generic ether layer, which is not in the repository.
- **Out of scope:** PCI discovery and register setup, k10 glue, and the rest
  of the repository (the K1 ethernet driver, whose receive path was checked
  by hand as above, boot code, libraries). They are listed with reasons in
  `PROJECT.json`.
