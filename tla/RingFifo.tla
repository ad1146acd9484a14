------------------------------ MODULE RingFifo ------------------------------
(***************************************************************************)
(* What a TRB ring promises the controller: the TRBs the driver publishes *)
(* reach the consumer in the order they were queued, each exactly once.   *)
(* Only while the consumer is stopped (a Stop Endpoint, or halted on an   *)
(* error) may the producer re-point it (Set TR Dequeue Pointer), dropping *)
(* the TRBs it has not taken.  TRBs are named by the write cursor value   *)
(* they were queued at, so "fresh" means "at or above the cursor of the   *)
(* previous step".                                                        *)
(***************************************************************************)
EXTENDS Integers, Sequences, SequencesExt

VARIABLES
  queue,   \* TRBs published and not yet taken by the consumer, oldest first
  top,     \* the producer's cursor: every TRB name issued so far is below it
  halted   \* the consumer is stopped or halted

avars == <<queue, top, halted>>

\* s is a strictly increasing run of names issued in [lo, hi).
FreshRun(s, lo, hi) ==
  /\ \A i \in 1..Len(s) : s[i] \in lo..(hi - 1)
  /\ \A i \in 1..(Len(s) - 1) : s[i] < s[i + 1]

AInit == queue = <<>> /\ top = 0 /\ halted = FALSE

\* The producer appends fresh TRBs and starts the consumer; if the consumer
\* was stopped it may first drop the untaken ones.
Produce ==
  /\ top' > top
  /\ halted' = FALSE
  /\ \/ /\ IsPrefix(queue, queue')
        /\ FreshRun(SubSeq(queue', Len(queue) + 1, Len(queue')), top, top')
     \/ /\ halted
        /\ FreshRun(queue', top, top')

\* The consumer takes the oldest TRB, and may halt on it.
Take ==
  /\ queue # <<>>
  /\ queue' = Tail(queue)
  /\ top' = top
  /\ halted' \in BOOLEAN

\* The consumer is stopped.
Stop ==
  /\ halted' = TRUE
  /\ UNCHANGED <<queue, top>>

ANext == Produce \/ Take \/ Stop

ASpec == AInit /\ [][ANext]_avars
=============================================================================
