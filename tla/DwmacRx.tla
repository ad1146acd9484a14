------------------------------ MODULE DwmacRx ------------------------------
(***************************************************************************)
(* The receive side of the DWMAC4 ethernet driver (etherdwmac4.c): the     *)
(* ring of Nrd receive descriptors, the private pool of Nrb receive        *)
(* buffers (rballoc/rbfree), the receive kernel process rproc with qinpkt  *)
(* and replenish, the receive and fatal-error parts of interrupt(), and    *)
(* the reset path resetrxtx/rxinit.                                        *)
(*                                                                         *)
(* The DMA engine is modelled from the ring's own comment above            *)
(* replenish: it fills the descriptor at its head pointer while that       *)
(* descriptor has Own set and the head has not reached the tail register,  *)
(* clears Own, advances, and raises Rie.                                   *)
(*                                                                         *)
(* Data is abstracted: a buffer is only counted, a packet is only "good"   *)
(* (handed upstream) or "bad" (a receive error or a bad CRC, tossed).      *)
(***************************************************************************)
EXTENDS Integers, FiniteSets

CONSTANTS
  Nrd,       \* descriptors in the receive ring
  Nrb,       \* receive buffers in the private pool (allocall)
  MaxPkts,   \* bound on packets the wire delivers
  MaxFatal   \* bound on fatal DMA errors (Cdee|Fbee)

ASSUME Nrd >= 2 /\ Nrb >= 1 /\ MaxPkts \in Nat /\ MaxFatal \in Nat

Slots == 0 .. Nrd - 1

\* NEXT(x, Nrd) of the ether drivers.
NEXT(x) == (x + 1) % Nrd

\* Descriptor status as the driver reads it: zeroed by rxinit, handed to
\* the hardware (Own), or written back by the hardware.
Status == {"zero", "own", "good", "bad"}

VARIABLES
  sts,        \* rdba[i].status
  rb,         \* ctlr->rb[i] # nil
  rdh, rdt,   \* ctlr->rdh, ctlr->rdt
  hwh,        \* the DMA engine's current descriptor
  tail,       \* the Rcvtail register, as a descriptor index
  pool,       \* nrbavail: buffers in rbpool
  up,         \* buffers passed upstream by etheriq, not yet freed
  rie,        \* Rie pending in Dma0sts
  rim,        \* ctlr->rim
  needreset,  \* ctlr->needreset
  rpc,        \* rproc: "sleep", "drain" or "panic"
  passed,     \* rproc's passed > 0 in the current drain
  pkts,       \* packets delivered by the wire so far
  fatals      \* fatal errors so far

vars == <<sts, rb, rdh, rdt, hwh, tail, pool, up, rie, rim, needreset,
          rpc, passed, pkts, fatals>>

(***************************************************************************)
(* replenish: from rdt, up to the slot before rdh, give each descriptor a  *)
(* buffer from the pool and set Own; stop at an Own descriptor, at one     *)
(* that still has a buffer ("rx overrun") or when rballoc fails.  Fill     *)
(* counts those descriptors; Replenish returns the resulting ring and the  *)
(* tail register, which is written only when some descriptor was given.    *)
(***************************************************************************)
\* Mutant: rballoc's nil return not checked, the descriptor armed anyway.
RECURSIVE FillNoPoolCheck(_, _, _, _, _)
FillNoPoolCheck(h, x, st, b, k) ==
  IF NEXT(x) = h \/ st[x] = "own" \/ b[x] THEN 0
  ELSE 1 + FillNoPoolCheck(h, NEXT(x), st, b, k - 1)

\* rballoc: pop a buffer off rbpool, or nil when the pool (k buffers) is
\* empty.
Rballoc(k) == k > 0

RECURSIVE Fill(_, _, _, _, _)
Fill(h, x, st, b, k) ==
  IF NEXT(x) = h \/ st[x] = "own" \/ b[x] \/ ~Rballoc(k) THEN 0
  ELSE 1 + Fill(h, NEXT(x), st, b, k - 1)

Replenish(h, t, st, b, p, tl) ==
  LET n   == Fill(h, t, st, b, p)
      new == {(t + j) % Nrd : j \in 0 .. n - 1}
  IN [sts  |-> [i \in Slots |-> IF i \in new THEN "own" ELSE st[i]],
      rb   |-> [i \in Slots |-> b[i] \/ i \in new],
      rdt  |-> (t + n) % Nrd,
      pool |-> p - n,
      tail |-> IF n > 0 THEN (t + n) % Nrd ELSE tl]

(***************************************************************************)
(* rxinit: reset the DMA engine, free every buffer still in the ring back  *)
(* to the pool, zero the ring, point base and tail at slot 0, rdh = rdt =  *)
(* 0, then replenish.  From a pool of p buffers and a ring holding b.      *)
(***************************************************************************)
RxInit(b, p) ==
  LET zero == [i \in Slots |-> "zero"]
      none == [i \in Slots |-> FALSE]
  IN Replenish(0, 0, zero, none,
               p + Cardinality({i \in Slots : b[i]}), 0)

SetRing(r) ==
  /\ sts' = r.sts
  /\ rb' = r.rb
  /\ rdt' = r.rdt
  /\ pool' = r.pool
  /\ tail' = r.tail

\* allocall, first call: a zeroed rb[] and Nrb buffers given to the pool
\* through freeb -> rbfree.
Allocall == [rb |-> [i \in Slots |-> FALSE], pool |-> Nrb]

\* attach: allocall, rxinit, then rproc starts with rdh = 0 and goes to
\* sleep.
Init ==
  LET r == RxInit(Allocall.rb, Allocall.pool)
  IN /\ sts = r.sts /\ rb = r.rb /\ rdt = r.rdt /\ pool = r.pool
     /\ tail = r.tail
     /\ rdh = 0 /\ hwh = 0 /\ up = 0
     /\ rie = FALSE /\ rim = FALSE /\ needreset = FALSE
     /\ rpc = "sleep" /\ passed = FALSE /\ pkts = 0 /\ fatals = 0

Alive == rpc # "panic"

-----------------------------------------------------------------------------
(* The wire and the DMA engine.                                            *)

\* A packet arrives and the engine writes it into the descriptor at its
\* head, clearing Own; a receive error or CRC error makes it "bad".
Receive ==
  /\ Alive /\ pkts < MaxPkts
  /\ hwh # tail /\ sts[hwh] = "own"
  /\ \E v \in {"good", "bad"} : sts' = [sts EXCEPT ![hwh] = v]
  /\ hwh' = NEXT(hwh)
  /\ rie' = TRUE
  /\ pkts' = pkts + 1
  /\ UNCHANGED <<rb, rdh, rdt, tail, pool, up, rim, needreset, rpc,
                 passed, fatals>>

\* interrupt(): Cdee|Fbee set needreset and wake rproc.
Fatal ==
  /\ Alive /\ fatals < MaxFatal
  /\ needreset' = TRUE
  /\ fatals' = fatals + 1
  /\ UNCHANGED <<sts, rb, rdh, rdt, hwh, tail, pool, up, rie, rim, rpc,
                 passed, pkts>>

\* Mutant: the receive status acknowledged without rim |= rint.
RxIntrNoRim ==
  /\ Alive /\ rie
  /\ rie' = FALSE
  /\ UNCHANGED <<sts, rb, rdh, rdt, hwh, tail, pool, up, rim, needreset, rpc,
                 passed, pkts, fatals>>

\* interrupt(): rim |= Dma0sts & Rie, acknowledge, wake rproc.
RxIntr ==
  /\ Alive /\ rie
  /\ rim' = TRUE
  /\ rie' = FALSE
  /\ UNCHANGED <<sts, rb, rdh, rdt, hwh, tail, pool, up, needreset, rpc,
                 passed, pkts, fatals>>

\* The protocol stack frees a buffer it was passed: freeb calls rbfree,
\* which puts it back on rbpool.
RbFree ==
  /\ Alive /\ up > 0
  /\ up' = up - 1
  /\ pool' = pool + 1
  /\ UNCHANGED <<sts, rb, rdh, rdt, hwh, tail, rie, rim, needreset, rpc,
                 passed, pkts, fatals>>

-----------------------------------------------------------------------------
(* rproc.                                                                  *)

\* rim(): the condition rproc sleeps on.
Rim == rim \/ needreset

\* sleep(rim) returns; rim = 0; resetrxtx if needreset, which
\* runs rxinit (the DMA engine is reset: head back at slot 0, status
\* cleared).
Wake ==
  /\ rpc = "sleep" /\ Rim
  /\ rim' = FALSE
  /\ IF needreset
       THEN LET r == RxInit(rb, pool)
            IN /\ SetRing(r)
               /\ rdh' = 0 /\ hwh' = 0 /\ rie' = FALSE
               /\ needreset' = FALSE
       ELSE UNCHANGED <<sts, rb, rdh, rdt, hwh, tail, pool, rie, needreset>>
  /\ rpc' = "drain"
  /\ passed' = FALSE
  /\ UNCHANGED <<up, pkts, fatals>>

\* Mutant: the bad packet's buffer is dropped without freeb.
TossLeak(good) == pool

\* A bad packet's buffer is freed (freeb -> rbfree) at once.
Toss(good) == IF good THEN pool ELSE pool + 1

\* qinpkt passes a packet upstream when its status has none of the error
\* bits and ckcksum found no Crcerr (it sets Bpktck, which rbfree clears).
Good(st) == st \in {"good", "zero"}

\* Mutant: ctlr->rb[rdh] = nil left out.
QinpktTakeKeepsRb ==
  /\ rpc = "drain" /\ sts[rdh] # "own" /\ rb[rdh]
  /\ LET good == Good(sts[rdh])
     IN /\ rdh' = NEXT(rdh)
        /\ up' = IF good THEN up + 1 ELSE up
        /\ pool' = Toss(good)
        /\ passed' = (passed \/ good)
  /\ UNCHANGED <<sts, rb, rdt, hwh, tail, rie, rim, needreset, rpc, pkts,
                 fatals>>

\* qinpkt on a descriptor without Own: take rb[rdh], advance rdh, pass a
\* good packet upstream with etheriq, toss a bad one.  A status of zero
\* carries no error bits and so counts as good.
QinpktTake ==
  /\ rpc = "drain" /\ sts[rdh] # "own" /\ rb[rdh]
  /\ LET good == Good(sts[rdh])
     IN /\ rb' = [rb EXCEPT ![rdh] = FALSE]
        /\ rdh' = NEXT(rdh)
        /\ up' = IF good THEN up + 1 ELSE up
        /\ pool' = Toss(good)
        /\ passed' = (passed \/ good)
  /\ UNCHANGED <<sts, rdt, hwh, tail, rie, rim, needreset, rpc, pkts,
                 fatals>>

\* qinpkt on a descriptor without Own whose rb[rdh] is nil:
\* panic("nil Block* from ctlr->rb").
QinpktPanic ==
  /\ rpc = "drain" /\ sts[rdh] # "own" /\ ~rb[rdh]
  /\ rpc' = "panic"
  /\ UNCHANGED <<sts, rb, rdh, rdt, hwh, tail, pool, up, rie, rim,
                 needreset, passed, pkts, fatals>>

\* qinpkt returns -1 at an Own descriptor; if (passed <= 0) continue;
\* else replenish.  Back to sleep either way.
QinpktEnd ==
  /\ rpc = "drain" /\ sts[rdh] = "own"
  /\ IF passed
       THEN SetRing(Replenish(rdh, rdt, sts, rb, pool, tail))
       ELSE UNCHANGED <<sts, rb, rdt, tail, pool>>
  /\ rpc' = "sleep"
  /\ UNCHANGED <<rdh, hwh, up, rie, rim, needreset, passed, pkts, fatals>>

Next ==
  \/ Receive \/ Fatal \/ RxIntr \/ RbFree
  \/ Wake \/ QinpktTake \/ QinpktPanic \/ QinpktEnd

\* rproc and the interrupt run whenever they can; the wire, the protocol
\* stack and fatal errors need not.
Fairness == WF_vars(Wake) /\ WF_vars(QinpktTake) /\ WF_vars(QinpktPanic)
            /\ WF_vars(QinpktEnd) /\ WF_vars(RxIntr)

Spec == Init /\ [][Next]_vars /\ Fairness

-----------------------------------------------------------------------------
(* Properties.                                                             *)

TypeOK ==
  /\ sts \in [Slots -> Status] /\ rb \in [Slots -> BOOLEAN]
  /\ {rdh, rdt, hwh, tail} \subseteq Slots
  /\ pool \in 0 .. Nrb /\ up \in 0 .. Nrb
  /\ {rie, rim, needreset, passed} \subseteq BOOLEAN
  /\ rpc \in {"sleep", "drain", "panic"}

\* Every receive buffer is in exactly one place: the pool, upstream, or a
\* ring slot.  Broken by a bad packet not freed by qinpkt, a teardown in
\* rxinit that zeroes rb without freeb, or replenish losing a buffer.
BuffersConserved == pool + up + Cardinality({i \in Slots : rb[i]}) = Nrb

\* The ring keeps the shape the comment above replenish describes, through
\* resets and an exhausted pool: the descriptors from the engine's head up
\* to Rcvtail (= rdt) are Own and carry a buffer, those from rdh up to the
\* engine's head are filled and carry a buffer, and every other descriptor
\* is neither Own nor holds a buffer.  So the engine never writes through
\* an unarmed descriptor, and no buffer is left in a slot nobody will take.
Between(a, b) == {(a + j) % Nrd : j \in 0 .. ((b - a) % Nrd) - 1}
DescriptorOwnership ==
  /\ tail = rdt
  /\ \A i \in Between(hwh, tail) : sts[i] = "own" /\ rb[i]
  /\ \A i \in Between(rdh, hwh) : sts[i] \in {"good", "bad"} /\ rb[i]
  /\ \A i \in Slots \ (Between(rdh, hwh) \cup Between(hwh, tail)) :
        sts[i] # "own" /\ ~rb[i]

\* qinpkt never reaches panic("nil Block* from ctlr->rb[%d]").
NoRxPanic == rpc # "panic"

\* A packet the hardware wrote into a descriptor is eventually taken by
\* qinpkt (or its buffer freed by a reset), unless the kernel panicked.
Filled(i) == sts[i] \in {"good", "bad"} /\ rb[i]
RxDelivered == \A i \in Slots : Filled(i) ~> (~Filled(i) \/ ~Alive)

=============================================================================
