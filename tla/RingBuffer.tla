----------------------------- MODULE RingBuffer -----------------------------
(***************************************************************************)
(* RingBuffer (au3-audio-io/RingBuffer.cpp): the lock-free queue of        *)
(* samples between the audio thread and the device callback.  One thread   *)
(* writes, one reads; they share mStart, which only the reader stores, and *)
(* mEnd, which only the writer stores, and the cells of the buffer.        *)
(*                                                                         *)
(* A copy is one step per sample.  A load of the other thread's index may  *)
(* be stale: it returns any value between the one this thread saw last and *)
(* the current one, which is all that coherence guarantees of the relaxed  *)
(* and acquire loads of the code.  Samples are serial numbers from 1, in   *)
(* the order they are produced; 0 is silence.                              *)
(***************************************************************************)
EXTENDS Integers, Sequences

CONSTANTS
    N,          \* mBufferSize
    Gap,        \* cells that always stay free (4 in the code)
    MaxSamples  \* bound: serial numbers the writer produces

ASSUME SizesAssumption ==
    /\ N \in Nat /\ Gap \in Nat /\ MaxSamples \in Nat
    /\ 0 < Gap /\ Gap < N

VARIABLES
    buffer,         \* mBuffer
    mStart,         \* first cell the reader has not consumed
    mEnd,           \* first cell the reader must not read
    mWritten,       \* first cell the writer has not written
    mLastPadding,   \* samples of silence that ended the last Put
    next,           \* the next serial number
    \* the writer thread
    wpc,            \* "idle", or inside "put"
    wStart,         \* the value of mStart it loaded last
    wCopy,          \* samples this Put copies
    wPad,           \* cells this Put clears after them
    wDone,          \* cells it has written so far
    room,           \* what AvailForPut promised, less what was put since
    \* the reader thread
    rpc,            \* "idle", or inside "get"
    rEnd,           \* the value of mEnd it loaded last
    rCopy,          \* samples this Get copies
    dest,           \* what it copied so far
    avail           \* what AvailForGet promised, less what was taken since

shared == <<buffer, mStart, mEnd>>
writer == <<mWritten, mLastPadding, next, wpc, wStart, wCopy, wPad, wDone, room>>
reader == <<rpc, rEnd, rCopy, dest, avail>>
vars == <<buffer, mStart, mEnd, writer, reader>>

Silence == 0
Cells == 0..N - 1
Least(a, b) == IF a <= b THEN a ELSE b

Filled(start, end) == (end + N - start) % N

(* Mutant: no cell is kept free.                                           *)
FreeToTheBrim(start, end) == N - Filled(start, end)

Free(start, end) == (IF N - Filled(start, end) > Gap THEN N - Filled(start, end) ELSE Gap) - Gap

Advance(pos, k) == (pos + k) % N

\* The values a load of the other thread's index can return.
StartSeen == {Advance(wStart, k) : k \in 0..Filled(wStart, mStart)}

(* Mutant: the reader goes by what was written, flushed or not.            *)
EndWritten == {mWritten}

EndSeen == {Advance(rEnd, k) : k \in 0..Filled(rEnd, mEnd)}

\* The locals `pos' of Put and `start' of Get.
wPos == Advance(mWritten, wDone)
rPos == Advance(mStart, Len(dest))

TypeOK ==
    /\ buffer \in [Cells -> Nat]
    /\ mStart \in Cells /\ mEnd \in Cells /\ mWritten \in Cells
    /\ mLastPadding \in 0..N /\ next \in 1..MaxSamples + 1
    /\ wpc \in {"idle", "put"} /\ wStart \in Cells
    /\ wCopy \in 0..N /\ wPad \in 0..N /\ wDone \in 0..N /\ room \in 0..N
    /\ rpc \in {"idle", "get"} /\ rEnd \in Cells /\ rCopy \in 0..N /\ avail \in 0..N
    /\ dest \in Seq(Nat)

Init ==
    /\ buffer = [i \in Cells |-> Silence]
    /\ mStart = 0 /\ mEnd = 0 /\ mWritten = 0 /\ mLastPadding = 0 /\ next = 1
    /\ wpc = "idle" /\ wStart = 0 /\ wCopy = 0 /\ wPad = 0 /\ wDone = 0 /\ room = 0
    /\ rpc = "idle" /\ rEnd = 0 /\ rCopy = 0 /\ avail = 0
    /\ dest = <<>>

-----------------------------------------------------------------------------
(* The writer.                                                             *)

(* Mutant: what is written and not flushed counts as free.                 *)
AvailForPutIgnoringPending ==
    /\ wpc = "idle"
    /\ wStart' \in StartSeen
    /\ room' = Free(wStart', mEnd)
    /\ UNCHANGED <<shared, mWritten, mLastPadding, next, wpc, wCopy, wPad, wDone, reader>>

AvailForPut ==
    /\ wpc = "idle"
    /\ wStart' \in StartSeen
    /\ room' = Free(wStart', mWritten)
    /\ UNCHANGED <<shared, mWritten, mLastPadding, next, wpc, wCopy, wPad, wDone, reader>>

\* Put(buffer, format, samples, padding): loads mStart and bounds the copy.
\* A caller that asks for silence stays within what AvailForPut promised.
PutBegin(samples, padding) ==
    /\ wpc = "idle"
    /\ next + samples <= MaxSamples + 1
    /\ padding > 0 => samples + padding <= room
    /\ wpc' = "put"
    /\ wStart' \in StartSeen
    /\ LET free == Free(wStart', mWritten)
       IN /\ wCopy' = Least(samples, free)
          /\ wPad' = Least(padding, free - wCopy')
    /\ wDone' = 0
    /\ mLastPadding' = padding
    /\ UNCHANGED <<shared, mWritten, next, room, reader>>

\* Clear(format, samples): silence, of which mLastPadding keeps no count.
ClearBegin(samples) ==
    /\ wpc = "idle"
    /\ wpc' = "put"
    /\ wStart' \in StartSeen
    /\ wCopy' = 0
    /\ wPad' = Least(samples, Free(wStart', mWritten))
    /\ wDone' = 0
    /\ UNCHANGED <<shared, mWritten, mLastPadding, next, room, reader>>

\* One cell: first the caller's samples, then the silence.
PutSample ==
    /\ wpc = "put" /\ wDone < wCopy + wPad
    /\ buffer' = [buffer EXCEPT ![wPos] = IF wDone < wCopy THEN next + wDone ELSE Silence]
    /\ wDone' = wDone + 1
    /\ UNCHANGED <<mStart, mEnd, mWritten, mLastPadding, next, wpc, wStart, wCopy, wPad, room, reader>>

PutEnd ==
    /\ wpc = "put" /\ wDone = wCopy + wPad
    /\ wpc' = "idle"
    /\ mWritten' = wPos
    /\ next' = next + wCopy
    /\ room' = room - Least(room, wDone)
    /\ wCopy' = 0 /\ wPad' = 0 /\ wDone' = 0
    /\ UNCHANGED <<shared, mLastPadding, wStart, reader>>

\* memmove of n cells of b.
Memmove(b, dst, src, n) ==
    [i \in DOMAIN b |-> IF dst <= i /\ i < dst + n THEN b[src + (i - dst)] ELSE b[i]]

(* Mutant: what wrapped around is moved without discounting what the first *)
(* move has discarded.                                                     *)
ShiftedTwice(size) ==
    LET wraps == mEnd >= mWritten
        limit == IF wraps THEN N ELSE mWritten
        source == Least(mEnd + size, limit)
        count == limit - source
        first == Memmove(buffer, mEnd, source, count)
        end == mEnd + count
        rest == Least(size, mWritten)
        toMove1 == Least(mWritten - rest, N - end)
        toMove2 == mWritten - rest - toMove1
    IN IF wraps
       THEN Memmove(Memmove(first, end, rest, toMove1), 0, rest + toMove1, toMove2)
       ELSE first

\* The buffer after the first `size' unflushed samples are removed: one move
\* when they lie in one piece, three when they wrap around.
Shifted(size) ==
    LET wraps == mEnd >= mWritten
        limit == IF wraps THEN N ELSE mWritten
        source == Least(mEnd + size, limit)
        count == limit - source
        first == Memmove(buffer, mEnd, source, count)
        end == mEnd + count
        rest == size - (source - mEnd)
        toMove1 == Least(mWritten - rest, N - end)
        toMove2 == mWritten - rest - toMove1
    IN IF wraps
       THEN Memmove(Memmove(first, end, rest, toMove1), 0, rest + toMove1, toMove2)
       ELSE first

\* The local `end' that Unput measures the remaining padding from: `count'
\* was added to it when the data wrapped around.
PaddingFrom(size) ==
    IF mEnd >= mWritten THEN mEnd + N - Least(mEnd + size, N) ELSE mEnd

\* Unput(size), by a caller that put at least that much since the last Flush.
\* Only unflushed cells change, which the reader does not touch: one step.
Unput(size) ==
    /\ wpc = "idle"
    /\ size <= Filled(mEnd, mWritten)
    /\ buffer' = Shifted(size)
    /\ mWritten' = Advance(mWritten, N - size)
    /\ mLastPadding' = Least(mLastPadding, Filled(PaddingFrom(size), mWritten'))
    /\ UNCHANGED <<mStart, mEnd, next, wpc, wStart, wCopy, wPad, wDone, room, reader>>

Flush ==
    /\ wpc = "idle"
    /\ mEnd' = mWritten
    /\ mLastPadding' = 0
    /\ UNCHANGED <<buffer, mStart, mWritten, next, wpc, wStart, wCopy, wPad, wDone, room, reader>>

-----------------------------------------------------------------------------
(* The reader.                                                             *)

AvailForGet ==
    /\ rpc = "idle"
    /\ rEnd' \in EndSeen
    /\ avail' = Filled(mStart, rEnd')
    /\ UNCHANGED <<shared, writer, rpc, rCopy, dest>>

GetBegin(samples) ==
    /\ rpc = "idle"
    /\ rpc' = "get"
    /\ rEnd' \in EndSeen
    /\ rCopy' = Least(samples, Filled(mStart, rEnd'))
    /\ UNCHANGED <<shared, writer, dest, avail>>

GetSample ==
    /\ rpc = "get" /\ Len(dest) < rCopy
    /\ dest' = Append(dest, buffer[rPos])
    /\ UNCHANGED <<shared, writer, rpc, rEnd, rCopy, avail>>

GetEnd ==
    /\ rpc = "get" /\ Len(dest) = rCopy
    /\ rpc' = "idle"
    /\ mStart' = rPos
    /\ avail' = avail - Least(avail, rCopy)
    /\ dest' = <<>> /\ rCopy' = 0
    /\ UNCHANGED <<buffer, mEnd, writer, rEnd>>

Discard(samples) ==
    /\ rpc = "idle"
    /\ rEnd' \in EndSeen
    /\ LET k == Least(samples, Filled(mStart, rEnd'))
       IN /\ mStart' = Advance(mStart, k)
          /\ avail' = avail - Least(avail, k)
    /\ UNCHANGED <<buffer, mEnd, writer, rpc, rCopy, dest>>

-----------------------------------------------------------------------------
WriterStep ==
    \/ AvailForPut \/ PutSample \/ PutEnd \/ Flush
    \/ \E samples, padding \in 0..N : PutBegin(samples, padding)
    \/ \E samples \in 1..N : ClearBegin(samples) \/ Unput(samples)

ReaderStep ==
    \/ AvailForGet \/ GetSample \/ GetEnd
    \/ \E samples \in 0..N : GetBegin(samples) \/ Discard(samples)

Next == WriterStep \/ ReaderStep

Spec == Init /\ [][Next]_vars

-----------------------------------------------------------------------------
(* Properties.                                                             *)

\* The two threads never touch the same cell: what a Put is still going to
\* write is disjoint from what a Get is still going to read, however stale
\* the index each of them loaded (RingBuffer.cpp:16-17).
RegionsDisjoint ==
    wpc = "put" /\ rpc = "get" =>
        \A i \in wDone..wCopy + wPad - 1, j \in Len(dest)..rCopy - 1 :
            Advance(mWritten, i) # Advance(mStart, j)

\* "AvailForPut and AvailForGet may underestimate but will never
\* overestimate" (RingBuffer.cpp:23-24): between calls, what was promised and
\* not used yet is really there, whatever the other thread did since.
AvailNeverOverestimates ==
    /\ wpc = "idle" => room <= Free(wStart, mWritten) /\ room <= Free(mStart, mWritten)
    /\ rpc = "idle" => avail <= Filled(mStart, rEnd) /\ avail <= Filled(mStart, mEnd)

\* No step changes a sample that was flushed and is not consumed yet.
FlushedSamplesStay ==
    [][\A k \in 0..Filled(mStart, mEnd) - 1 :
            buffer'[Advance(mStart, k)] = buffer[Advance(mStart, k)]]_vars

\* The samples in n cells from pos on.
Contents(pos, n) == [k \in 1..n |-> buffer[Advance(pos, k - 1)]]

\* What a Get has copied so far is what is at the front of the flushed
\* samples now that it is going to consume them: no copied sample is stale,
\* torn from its neighbours or not flushed yet.
GetReadsTheFront == dest = Contents(mStart, Len(dest))

Queue == INSTANCE SampleQueue WITH
    Capacity <- N - Gap,
    pending <- Contents(mEnd, Filled(mEnd, mWritten)),
    ready <- Contents(mStart, Filled(mStart, mEnd))

\* The buffer implements the queue: a Put takes effect when it stores
\* mWritten, a Get when it stores mStart, and nothing is lost, duplicated,
\* reordered or overwritten in between.
ImplementsSampleQueue == Queue!Spec
=============================================================================
