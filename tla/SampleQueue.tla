---------------------------- MODULE SampleQueue ----------------------------
(***************************************************************************)
(* What a RingBuffer promises to its two threads: a bounded FIFO queue of  *)
(* samples in which the writer prepares samples (`pending'), takes back    *)
(* the oldest of those it prepared, and hands all of them over at once     *)
(* (`ready'); the reader takes or drops the oldest ones handed over.       *)
(* Every operation is one atomic step.                                     *)
(***************************************************************************)
EXTENDS Integers, Sequences

CONSTANTS
    Capacity    \* the number of samples the queue holds at most

VARIABLES
    next,       \* the serial number of the next sample the writer produces
    pending,    \* samples put and not flushed
    ready       \* samples flushed and not consumed

qvars == <<next, pending, ready>>

Silence == 0

Serials(first, k) == [i \in 1..k |-> first + i - 1]

Zeros(k) == [i \in 1..k |-> Silence]

Room == Capacity - Len(ready) - Len(pending)

Init ==
    /\ next = 1
    /\ pending = <<>>
    /\ ready = <<>>

\* k new samples, followed by z samples of silence, are prepared.
Put(k, z) ==
    /\ k + z <= Room
    /\ pending' = pending \o Serials(next, k) \o Zeros(z)
    /\ next' = next + k
    /\ UNCHANGED ready

\* The k oldest of the prepared samples are taken back.
Unput(k) ==
    /\ k <= Len(pending)
    /\ pending' = SubSeq(pending, k + 1, Len(pending))
    /\ UNCHANGED <<next, ready>>

Flush ==
    /\ ready' = ready \o pending
    /\ pending' = <<>>
    /\ UNCHANGED next

\* The reader takes, or drops, the k oldest of the flushed samples.
Consume(k) ==
    /\ k <= Len(ready)
    /\ ready' = SubSeq(ready, k + 1, Len(ready))
    /\ UNCHANGED <<next, pending>>

Next ==
    \/ \E k, z \in 0..Capacity : Put(k, z)
    \/ \E k \in 0..Capacity : Unput(k) \/ Consume(k)
    \/ Flush

Spec == Init /\ [][Next]_qvars
============================================================================
