-------------------------- MODULE RingBuffer_proofs --------------------------
(***************************************************************************)
(* Proofs about RingBuffer, for every size of the buffer and every gap.    *)
(*                                                                         *)
(* The indices go round in a circle, so none is "before" another; what is  *)
(* invariant is their order as seen from wStart, the value of mStart that  *)
(* the writer loaded last (Order).  Everything else is measured from it.   *)
(***************************************************************************)
EXTENDS RingBuffer, SequenceTheorems, TLAPS

(* The two operators on indices without the remainder.                     *)
Dist(a, b) == IF b >= a THEN b - a ELSE b + N - a
Move(p, k) == IF p + k < N THEN p + k ELSE p + k - N

(* The order of the indices, and what lies between them.                   *)
Order ==
    /\ Dist(wStart, mStart) <= Dist(wStart, rEnd)
    /\ Dist(wStart, rEnd) <= Dist(wStart, mEnd)
    /\ Dist(wStart, mEnd) <= Dist(wStart, mWritten)
    /\ Dist(wStart, mWritten) + wCopy + wPad <= N - Gap

(* What a Put and a Get have still to do.                                  *)
Copies ==
    /\ wpc = "idle" => wCopy = 0 /\ wPad = 0 /\ wDone = 0
    /\ wDone <= wCopy + wPad
    /\ rpc = "idle" => rCopy = 0
    /\ Len(dest) <= rCopy
    /\ rCopy <= Dist(mStart, rEnd)
    /\ next + wCopy <= MaxSamples + 1

(* What was promised to the callers.                                       *)
Promises ==
    /\ Dist(wStart, mWritten) + room <= N - Gap
    /\ avail <= Dist(mStart, rEnd)

Inv == TypeOK /\ Order /\ Copies /\ Promises

-----------------------------------------------------------------------------
(* The remainder of a number below twice the divisor.                      *)
LEMMA RemainderBelow == ASSUME NEW x \in Nat, x < N PROVE x % N = x
  BY SizesAssumption

LEMMA RemainderAbove == ASSUME NEW x \in Nat, N <= x, x < 2 * N PROVE x % N = x - N
  BY SizesAssumption

(* Filled and Advance are Dist and Move on the indices of the buffer.      *)
LEMMA FilledIsDist ==
  ASSUME NEW a \in Cells, NEW b \in Cells
  PROVE Filled(a, b) = Dist(a, b)
<1> USE SizesAssumption DEF Cells
<1>1. CASE b >= a
  <2>1. b + N - a \in Nat /\ N <= b + N - a /\ b + N - a < 2 * N
    BY <1>1
  <2>2. (b + N - a) % N = b + N - a - N
    BY <2>1, RemainderAbove
  <2>3. QED
    BY <1>1, <2>2 DEF Filled, Dist
<1>2. CASE ~(b >= a)
  <2>1. b + N - a \in Nat /\ b + N - a < N
    BY <1>2
  <2>2. QED
    BY <1>2, <2>1, RemainderBelow DEF Filled, Dist
<1>3. QED
  BY <1>1, <1>2

LEMMA AdvanceIsMove ==
  ASSUME NEW p \in Cells, NEW k \in 0..N
  PROVE Advance(p, k) = Move(p, k) /\ Move(p, k) \in Cells
<1> USE SizesAssumption DEF Cells
<1>1. CASE p + k < N
  BY <1>1, RemainderBelow DEF Advance, Move
<1>2. CASE ~(p + k < N)
  <2>1. p + k \in Nat /\ N <= p + k /\ p + k < 2 * N
    BY <1>2
  <2>2. QED
    BY <1>2, <2>1, RemainderAbove DEF Advance, Move
<1>3. QED
  BY <1>1, <1>2

(* The algebra of distances.                                               *)
LEMMA DistType ==
  ASSUME NEW a \in Cells, NEW b \in Cells
  PROVE Dist(a, b) \in 0..N - 1
  BY SizesAssumption DEF Cells, Dist

LEMMA DistBetween ==
  ASSUME NEW s \in Cells, NEW a \in Cells, NEW b \in Cells,
         Dist(s, a) <= Dist(s, b)
  PROVE Dist(a, b) = Dist(s, b) - Dist(s, a)
  BY SizesAssumption DEF Cells, Dist

LEMMA DistOfMove ==
  ASSUME NEW s \in Cells, NEW a \in Cells, NEW k \in 0..N,
         Dist(s, a) + k < N
  PROVE Dist(s, Move(a, k)) = Dist(s, a) + k
  BY SizesAssumption DEF Cells, Dist, Move

LEMMA DistFromMove ==
  ASSUME NEW s \in Cells, NEW a \in Cells, NEW k \in 0..Dist(s, a)
  PROVE Dist(Move(s, k), a) = Dist(s, a) - k
  BY SizesAssumption DEF Cells, Dist, Move

LEMMA MoveBack ==
  ASSUME NEW s \in Cells, NEW a \in Cells, NEW k \in 0..Dist(s, a)
  PROVE Move(a, N - k) \in Cells /\ Dist(s, Move(a, N - k)) = Dist(s, a) - k
  BY SizesAssumption DEF Cells, Dist, Move

LEMMA FreeType ==
  ASSUME NEW a \in Cells, NEW b \in Cells
  PROVE Free(a, b) \in 0..N
<1>1. Filled(a, b) = Dist(a, b) /\ Dist(a, b) \in 0..N - 1
  BY FilledIsDist, DistType
<1>2. QED
  BY <1>1, SizesAssumption DEF Free

LEMMA FreeValue ==
  ASSUME NEW a \in Cells, NEW b \in Cells, Dist(a, b) <= N - Gap
  PROVE Free(a, b) = N - Gap - Dist(a, b) /\ Free(a, b) \in 0..N
<1>1. Filled(a, b) = Dist(a, b) /\ Dist(a, b) \in 0..N - 1
  BY FilledIsDist, DistType
<1>2. QED
  BY <1>1, SizesAssumption DEF Free

-----------------------------------------------------------------------------
(* A load by the writer may only move wStart forward, up to mStart.        *)
LEMMA WriterLoads ==
  ASSUME Inv, wStart' \in StartSeen
  PROVE /\ wStart' \in Cells
        /\ \E k \in Nat :
             /\ Dist(wStart', mStart) = Dist(wStart, mStart) - k
             /\ Dist(wStart', rEnd) = Dist(wStart, rEnd) - k
             /\ Dist(wStart', mEnd) = Dist(wStart, mEnd) - k
             /\ Dist(wStart', mWritten) = Dist(wStart, mWritten) - k
<1> USE DEF Inv, TypeOK
<1>1. Filled(wStart, mStart) = Dist(wStart, mStart) /\ Dist(wStart, mStart) \in 0..N - 1
  BY FilledIsDist, DistType
<1>2. PICK k \in 0..Dist(wStart, mStart) : wStart' = Advance(wStart, k)
  BY <1>1 DEF StartSeen
<1>3. wStart' = Move(wStart, k) /\ wStart' \in Cells
  <2>1. k \in 0..N
    BY <1>1, SizesAssumption
  <2>2. wStart \in Cells
    OBVIOUS
  <2>3. QED
    BY <1>2, <2>1, <2>2, AdvanceIsMove
<1>4. /\ Dist(wStart, rEnd) \in 0..N - 1
      /\ Dist(wStart, mEnd) \in 0..N - 1
      /\ Dist(wStart, mWritten) \in 0..N - 1
  BY DistType
<1>5. /\ k \in 0..Dist(wStart, rEnd)
      /\ k \in 0..Dist(wStart, mEnd)
      /\ k \in 0..Dist(wStart, mWritten)
  BY <1>1, <1>4, SizesAssumption DEF Order
<1>6. /\ Dist(wStart', mStart) = Dist(wStart, mStart) - k
      /\ Dist(wStart', rEnd) = Dist(wStart, rEnd) - k
      /\ Dist(wStart', mEnd) = Dist(wStart, mEnd) - k
      /\ Dist(wStart', mWritten) = Dist(wStart, mWritten) - k
  BY <1>3, <1>5, DistFromMove
<1>7. QED
  BY <1>1, <1>3, <1>6, SizesAssumption

(* A load by the reader may only move rEnd forward, up to mEnd.            *)
LEMMA ReaderLoads ==
  ASSUME Inv, rEnd' \in EndSeen
  PROVE /\ rEnd' \in Cells
        /\ Dist(wStart, rEnd) <= Dist(wStart, rEnd')
        /\ Dist(wStart, rEnd') <= Dist(wStart, mEnd)
        /\ Dist(mStart, rEnd') \in 0..N - 1
        /\ Dist(mStart, rEnd) <= Dist(mStart, rEnd')
        /\ Dist(mStart, rEnd') = Dist(wStart, rEnd') - Dist(wStart, mStart)
<1> USE DEF Inv, TypeOK
<1>1. Filled(rEnd, mEnd) = Dist(rEnd, mEnd) /\ Dist(rEnd, mEnd) \in 0..N - 1
  BY FilledIsDist, DistType
<1>2. PICK k \in 0..Dist(rEnd, mEnd) : rEnd' = Advance(rEnd, k)
  BY <1>1 DEF EndSeen
<1>a. k \in 0..N
  BY <1>1, SizesAssumption
<1>3. rEnd' = Move(rEnd, k) /\ rEnd' \in Cells
  <2>1. rEnd \in Cells
    OBVIOUS
  <2>2. QED
    BY <1>2, <1>a, <2>1, AdvanceIsMove
<1>4. /\ Dist(wStart, mStart) \in 0..N - 1
      /\ Dist(wStart, rEnd) \in 0..N - 1
      /\ Dist(wStart, mEnd) \in 0..N - 1
  BY DistType
<1>5. Dist(rEnd, mEnd) = Dist(wStart, mEnd) - Dist(wStart, rEnd)
  BY DistBetween DEF Order
<1>6. Dist(wStart, rEnd') = Dist(wStart, rEnd) + k
  <2>1. Dist(wStart, rEnd) + k < N
    BY <1>1, <1>4, <1>5, SizesAssumption
  <2>2. wStart \in Cells /\ rEnd \in Cells
    OBVIOUS
  <2>3. QED
    BY <1>3, <1>a, <2>1, <2>2, DistOfMove
<1>7. /\ Dist(wStart, rEnd) <= Dist(wStart, rEnd')
      /\ Dist(wStart, rEnd') <= Dist(wStart, mEnd)
  BY <1>1, <1>4, <1>5, <1>6, SizesAssumption
<1>8. Dist(mStart, rEnd) = Dist(wStart, rEnd) - Dist(wStart, mStart)
  BY DistBetween DEF Order
<1>9. Dist(wStart, mStart) <= Dist(wStart, rEnd')
  BY <1>1, <1>4, <1>6, SizesAssumption DEF Order
<1>10. Dist(mStart, rEnd') = Dist(wStart, rEnd') - Dist(wStart, mStart)
  BY <1>3, <1>9, DistBetween
<1>11. Dist(mStart, rEnd') \in 0..N - 1
  BY <1>3, DistType
<1>12. QED
  BY <1>1, <1>3, <1>4, <1>6, <1>7, <1>8, <1>10, <1>11, SizesAssumption

(* The invariant in one piece: the types of the indices and counts, the    *)
(* distances, and those that follow from the order.                        *)
LEMMA Facts ==
  ASSUME Inv
  PROVE /\ mStart \in Cells /\ mEnd \in Cells /\ mWritten \in Cells
        /\ wStart \in Cells /\ rEnd \in Cells
        /\ wCopy \in 0..N /\ wPad \in 0..N /\ wDone \in 0..N /\ room \in 0..N
        /\ rCopy \in 0..N /\ avail \in 0..N /\ mLastPadding \in 0..N
        /\ Len(dest) \in Nat
        /\ Dist(wStart, mStart) \in 0..N - 1 /\ Dist(wStart, rEnd) \in 0..N - 1
        /\ Dist(wStart, mEnd) \in 0..N - 1 /\ Dist(wStart, mWritten) \in 0..N - 1
        /\ Dist(mStart, rEnd) = Dist(wStart, rEnd) - Dist(wStart, mStart)
        /\ Dist(mStart, mEnd) = Dist(wStart, mEnd) - Dist(wStart, mStart)
        /\ Dist(mStart, mWritten) = Dist(wStart, mWritten) - Dist(wStart, mStart)
        /\ Dist(mEnd, mWritten) = Dist(wStart, mWritten) - Dist(wStart, mEnd)
        /\ Order /\ Copies /\ Promises
<1>1. TypeOK /\ Order /\ Copies /\ Promises
  BY DEF Inv
<1>2. /\ mStart \in Cells /\ mEnd \in Cells /\ mWritten \in Cells
      /\ wStart \in Cells /\ rEnd \in Cells
      /\ wCopy \in 0..N /\ wPad \in 0..N /\ wDone \in 0..N /\ room \in 0..N
      /\ rCopy \in 0..N /\ avail \in 0..N /\ mLastPadding \in 0..N
  BY <1>1 DEF TypeOK
<1>3. Len(dest) \in Nat
  BY <1>1 DEF TypeOK
<1>4. /\ Dist(wStart, mStart) \in 0..N - 1 /\ Dist(wStart, rEnd) \in 0..N - 1
      /\ Dist(wStart, mEnd) \in 0..N - 1 /\ Dist(wStart, mWritten) \in 0..N - 1
  BY <1>2, DistType
<1>5. /\ Dist(wStart, mStart) <= Dist(wStart, mEnd)
      /\ Dist(wStart, mStart) <= Dist(wStart, mWritten)
      /\ Dist(wStart, mStart) <= Dist(wStart, rEnd)
      /\ Dist(wStart, mEnd) <= Dist(wStart, mWritten)
  BY <1>1, <1>4, SizesAssumption DEF Order
<1>6. /\ Dist(mStart, rEnd) = Dist(wStart, rEnd) - Dist(wStart, mStart)
      /\ Dist(mStart, mEnd) = Dist(wStart, mEnd) - Dist(wStart, mStart)
      /\ Dist(mStart, mWritten) = Dist(wStart, mWritten) - Dist(wStart, mStart)
      /\ Dist(mEnd, mWritten) = Dist(wStart, mWritten) - Dist(wStart, mEnd)
  BY <1>2, <1>5, DistBetween
<1>7. QED
  BY <1>1, <1>2, <1>3, <1>4, <1>6

(* What the invariant says of the regions of the two threads.              *)
LEMMA InvImpliesDisjoint == Inv => RegionsDisjoint
<1> SUFFICES ASSUME Inv, wpc = "put", rpc = "get",
                    NEW i \in wDone..wCopy + wPad - 1, NEW j \in Len(dest)..rCopy - 1
             PROVE Advance(mWritten, i) # Advance(mStart, j)
  BY DEF RegionsDisjoint
<1>1. /\ wCopy \in 0..N /\ wPad \in 0..N /\ wDone \in 0..N /\ rCopy \in 0..N
      /\ Len(dest) \in Nat
      /\ Dist(wStart, mStart) \in 0..N - 1 /\ Dist(wStart, rEnd) \in 0..N - 1
      /\ Dist(wStart, mEnd) \in 0..N - 1 /\ Dist(wStart, mWritten) \in 0..N - 1
  BY Facts
<1>2. /\ Dist(wStart, rEnd) <= Dist(wStart, mEnd)
      /\ Dist(wStart, mEnd) <= Dist(wStart, mWritten)
      /\ Dist(wStart, mWritten) + wCopy + wPad <= N - Gap
      /\ rCopy <= Dist(wStart, rEnd) - Dist(wStart, mStart)
  BY Facts DEF Order, Copies
<1>3. i \in Nat /\ i <= wCopy + wPad - 1 /\ j \in Nat /\ j <= rCopy - 1
  BY <1>1
<1>4. i \in 0..N /\ Dist(wStart, mWritten) + i < N
  BY <1>1, <1>2, <1>3, SizesAssumption
<1>5. j \in 0..N /\ Dist(wStart, mStart) + j < Dist(wStart, rEnd)
  BY <1>1, <1>2, <1>3, SizesAssumption
<1>6. Dist(wStart, Advance(mWritten, i)) = Dist(wStart, mWritten) + i
  BY <1>4, Facts, AdvanceIsMove, DistOfMove
<1>7. Dist(wStart, Advance(mStart, j)) = Dist(wStart, mStart) + j
  <2>1. Dist(wStart, mStart) + j < N
    BY <1>1, <1>5, SizesAssumption
  <2>2. QED
    BY <1>5, <2>1, Facts, AdvanceIsMove, DistOfMove
<1>8. Dist(wStart, mStart) + j < Dist(wStart, mWritten) + i
  BY <1>1, <1>2, <1>3, <1>5, SizesAssumption
<1>9. QED
  BY <1>1, <1>3, <1>6, <1>7, <1>8, SizesAssumption

LEMMA InvImpliesPromises == Inv => AvailNeverOverestimates
<1> SUFFICES ASSUME Inv PROVE AvailNeverOverestimates
  OBVIOUS
<1>1. /\ wCopy \in 0..N /\ wPad \in 0..N /\ room \in 0..N /\ avail \in 0..N
      /\ Dist(wStart, mStart) \in 0..N - 1 /\ Dist(wStart, rEnd) \in 0..N - 1
      /\ Dist(wStart, mEnd) \in 0..N - 1 /\ Dist(wStart, mWritten) \in 0..N - 1
      /\ Dist(mStart, rEnd) = Dist(wStart, rEnd) - Dist(wStart, mStart)
      /\ Dist(mStart, mEnd) = Dist(wStart, mEnd) - Dist(wStart, mStart)
      /\ Dist(mStart, mWritten) = Dist(wStart, mWritten) - Dist(wStart, mStart)
  BY Facts
<1>2. /\ Dist(wStart, rEnd) <= Dist(wStart, mEnd)
      /\ Dist(wStart, mWritten) + wCopy + wPad <= N - Gap
      /\ Dist(wStart, mWritten) + room <= N - Gap
      /\ avail <= Dist(mStart, rEnd)
  BY Facts DEF Order, Promises
<1>3. Dist(wStart, mWritten) <= N - Gap /\ Dist(mStart, mWritten) <= N - Gap
  BY <1>1, <1>2, SizesAssumption
<1>4. /\ Free(wStart, mWritten) = N - Gap - Dist(wStart, mWritten)
      /\ Free(mStart, mWritten) = N - Gap - Dist(mStart, mWritten)
  BY <1>3, FreeValue, Facts
<1>5. /\ Filled(mStart, rEnd) = Dist(mStart, rEnd)
      /\ Filled(mStart, mEnd) = Dist(mStart, mEnd)
  BY FilledIsDist, Facts
<1>6. room <= Free(wStart, mWritten) /\ room <= Free(mStart, mWritten)
  BY <1>1, <1>2, <1>4, SizesAssumption
<1>7. avail <= Filled(mStart, rEnd) /\ avail <= Filled(mStart, mEnd)
  BY <1>1, <1>2, <1>5, SizesAssumption
<1>8. QED
  BY <1>6, <1>7 DEF AvailNeverOverestimates

-----------------------------------------------------------------------------
(* The invariant holds at the start and every step preserves it.           *)
LEMMA InitInv == Init => Inv
<1> SUFFICES ASSUME Init PROVE Inv
  OBVIOUS
<1> USE SizesAssumption DEF Init
<1>1. 0 \in Cells
  BY DEF Cells
<1>2. Dist(0, 0) = 0
  BY DEF Dist
<1>3. dest \in Seq(Nat) /\ Len(dest) = 0
  OBVIOUS
<1>4. buffer \in [Cells -> Nat]
  BY DEF Silence
<1>5. TypeOK
  BY <1>1, <1>3, <1>4 DEF TypeOK
<1>6. Order /\ Copies /\ Promises
  BY <1>2, <1>3 DEF Order, Copies, Promises
<1>7. QED
  BY <1>5, <1>6 DEF Inv

(* What a step of the writer that loads mStart does to the distances.      *)
LEMMA LoadStep ==
  ASSUME Inv, wStart' \in StartSeen, wCopy' + wPad' <= Free(wStart', mWritten),
         wCopy' \in Nat, wPad' \in Nat,
         UNCHANGED <<mStart, mEnd, mWritten, rEnd>>
  PROVE /\ wStart' \in Cells
        /\ Order'
        /\ Free(wStart', mWritten) = N - Gap - Dist(wStart', mWritten)
        /\ Free(wStart', mWritten) \in 0..N
        /\ Dist(wStart', mWritten) \in 0..N - 1
        /\ Dist(wStart', mWritten) <= Dist(wStart, mWritten)
<1>1. wStart' \in Cells
  BY WriterLoads
<1>2. PICK k \in Nat :
             /\ Dist(wStart', mStart) = Dist(wStart, mStart) - k
             /\ Dist(wStart', rEnd) = Dist(wStart, rEnd) - k
             /\ Dist(wStart', mEnd) = Dist(wStart, mEnd) - k
             /\ Dist(wStart', mWritten) = Dist(wStart, mWritten) - k
  BY WriterLoads
<1>3. /\ wCopy \in 0..N /\ wPad \in 0..N
      /\ Dist(wStart, mStart) \in 0..N - 1 /\ Dist(wStart, rEnd) \in 0..N - 1
      /\ Dist(wStart, mEnd) \in 0..N - 1 /\ Dist(wStart, mWritten) \in 0..N - 1
  BY Facts
<1>4. /\ Dist(wStart, mStart) <= Dist(wStart, rEnd)
      /\ Dist(wStart, rEnd) <= Dist(wStart, mEnd)
      /\ Dist(wStart, mEnd) <= Dist(wStart, mWritten)
      /\ Dist(wStart, mWritten) + wCopy + wPad <= N - Gap
  BY Facts DEF Order
<1>5. Dist(wStart', mWritten) \in 0..N - 1
  BY <1>1, DistType, Facts
<1>6. Dist(wStart', mWritten) <= N - Gap
  BY <1>2, <1>3, <1>4, SizesAssumption
<1>7. /\ Free(wStart', mWritten) = N - Gap - Dist(wStart', mWritten)
      /\ Free(wStart', mWritten) \in 0..N
  BY <1>1, <1>6, FreeValue, Facts
<1>8. /\ Dist(wStart', mStart) <= Dist(wStart', rEnd)
      /\ Dist(wStart', rEnd) <= Dist(wStart', mEnd)
      /\ Dist(wStart', mEnd) <= Dist(wStart', mWritten)
      /\ Dist(wStart', mWritten) + wCopy' + wPad' <= N - Gap
      /\ Dist(wStart', mWritten) <= Dist(wStart, mWritten)
  BY <1>2, <1>3, <1>4, <1>5, <1>7, SizesAssumption
<1>9. Order'
  BY <1>8 DEF Order, Dist
<1>10. QED
  BY <1>1, <1>5, <1>7, <1>8, <1>9

LEMMA AvailForPutStep == Inv /\ AvailForPut => Inv'
<1> SUFFICES ASSUME Inv, AvailForPut PROVE Inv'
  OBVIOUS
<1>1. /\ wpc = "idle" /\ wStart' \in StartSeen
      /\ room' = Free(wStart', mWritten)
      /\ UNCHANGED <<buffer, mStart, mEnd, mWritten, mLastPadding, next, wpc, wCopy, wPad, wDone>>
      /\ UNCHANGED <<rpc, rEnd, rCopy, dest, avail>>
  BY DEF AvailForPut, shared, reader
<1>2. wCopy = 0 /\ wPad = 0
  BY <1>1, Facts DEF Copies
<1>3. Free(wStart', mWritten) \in 0..N
  BY <1>1, WriterLoads, FreeType, Facts
<1>4. wCopy' + wPad' <= Free(wStart', mWritten) /\ wCopy' \in Nat /\ wPad' \in Nat
  BY <1>1, <1>2, <1>3
<1>5. /\ wStart' \in Cells /\ Order'
      /\ Free(wStart', mWritten) = N - Gap - Dist(wStart', mWritten)
      /\ Free(wStart', mWritten) \in 0..N
      /\ Dist(wStart', mWritten) \in 0..N - 1
  BY <1>1, <1>4, LoadStep
<1>6. TypeOK'
  BY <1>1, <1>5 DEF Inv, TypeOK
<1>7. Copies'
  BY <1>1 DEF Inv, Copies, Dist
<1>8. Promises'
  <2>1. Dist(wStart', mWritten) + room' <= N - Gap
    BY <1>1, <1>5, SizesAssumption
  <2>2. avail <= Dist(mStart, rEnd)
    BY Facts DEF Promises
  <2>3. QED
    BY <1>1, <2>1, <2>2 DEF Promises, Dist
<1>9. QED
  BY <1>5, <1>6, <1>7, <1>8 DEF Inv

(* A Put and a Clear begin alike: they bound what they will write.         *)
LEMMA BeginStep ==
  ASSUME Inv, wpc = "idle", wpc' = "put", wStart' \in StartSeen,
         wCopy' \in Nat, wPad' \in Nat, wDone' = 0, mLastPadding' \in 0..N,
         wCopy' + wPad' <= Free(wStart', mWritten),
         next + wCopy' <= MaxSamples + 1,
         UNCHANGED <<buffer, mStart, mEnd, mWritten, next, room>>,
         UNCHANGED <<rpc, rEnd, rCopy, dest, avail>>
  PROVE Inv'
<1>1. /\ wStart' \in Cells /\ Order'
      /\ Free(wStart', mWritten) \in 0..N
      /\ Dist(wStart', mWritten) \in 0..N - 1
      /\ Dist(wStart', mWritten) <= Dist(wStart, mWritten)
  BY LoadStep
<1>2. wCopy' \in 0..N /\ wPad' \in 0..N /\ 0 \in 0..N
  BY <1>1, SizesAssumption
<1>3. TypeOK'
  BY <1>1, <1>2 DEF Inv, TypeOK
<1>4. Copies'
  <2>1. \A a, b \in Nat : 0 <= a + b
    OBVIOUS
  <2>2. 0 <= wCopy' + wPad'
    BY <2>1
  <2>3. QED
    BY <2>2 DEF Inv, Copies, Dist
<1>5. Promises'
  <2>1. room \in 0..N /\ Dist(wStart, mWritten) \in 0..N - 1
    BY Facts
  <2>2. Dist(wStart, mWritten) + room <= N - Gap /\ avail <= Dist(mStart, rEnd)
    BY Facts DEF Promises
  <2>3. Dist(wStart', mWritten) + room <= N - Gap
    BY <1>1, <2>1, <2>2, SizesAssumption
  <2>4. QED
    BY <2>2, <2>3 DEF Promises, Dist
<1>6. QED
  BY <1>1, <1>3, <1>4, <1>5 DEF Inv

LEMMA PutBeginStep ==
  ASSUME Inv, NEW samples \in 0..N, NEW padding \in 0..N, PutBegin(samples, padding)
  PROVE Inv'
<1> DEFINE free == Free(wStart', mWritten)
<1>1. /\ wpc = "idle" /\ wpc' = "put" /\ wStart' \in StartSeen
      /\ next + samples <= MaxSamples + 1
      /\ wCopy' = Least(samples, free) /\ wPad' = Least(padding, free - wCopy')
      /\ wDone' = 0 /\ mLastPadding' = padding
      /\ UNCHANGED <<buffer, mStart, mEnd, mWritten, next, room>>
      /\ UNCHANGED <<rpc, rEnd, rCopy, dest, avail>>
  BY DEF PutBegin, shared, reader
<1>2. free \in 0..N
  BY <1>1, WriterLoads, FreeType, Facts
<1>3. wCopy' \in 0..N /\ wCopy' <= samples /\ wCopy' <= free
  BY <1>1, <1>2, SizesAssumption DEF Least
<1>4. wPad' \in Nat /\ wCopy' + wPad' <= free
  BY <1>1, <1>2, <1>3, SizesAssumption DEF Least
<1>5. next \in Nat
  BY SizesAssumption DEF Inv, TypeOK
<1>6. next + wCopy' <= MaxSamples + 1
  BY <1>1, <1>3, <1>5, SizesAssumption
<1>7. QED
  BY <1>1, <1>3, <1>4, <1>6, BeginStep

LEMMA ClearBeginStep ==
  ASSUME Inv, NEW samples \in 1..N, ClearBegin(samples)
  PROVE Inv'
<1>1. /\ wpc = "idle" /\ wpc' = "put" /\ wStart' \in StartSeen
      /\ wCopy' = 0 /\ wPad' = Least(samples, Free(wStart', mWritten)) /\ wDone' = 0
      /\ UNCHANGED <<buffer, mStart, mEnd, mWritten, mLastPadding, next, room>>
      /\ UNCHANGED <<rpc, rEnd, rCopy, dest, avail>>
  BY DEF ClearBegin, shared, reader
<1>2. Free(wStart', mWritten) \in 0..N
  BY <1>1, WriterLoads, FreeType, Facts
<1>3. wPad' \in Nat /\ wCopy' + wPad' <= Free(wStart', mWritten)
  BY <1>1, <1>2, SizesAssumption DEF Least
<1>4. next \in Nat /\ next + wCopy' <= MaxSamples + 1 /\ mLastPadding' \in 0..N
  BY <1>1, SizesAssumption DEF Inv, TypeOK
<1>5. QED
  BY <1>1, <1>3, <1>4, BeginStep

LEMMA PutSampleStep == Inv /\ PutSample => Inv'
<1> SUFFICES ASSUME Inv, PutSample PROVE Inv'
  OBVIOUS
<1>1. /\ wpc = "put" /\ wDone < wCopy + wPad /\ wDone' = wDone + 1
      /\ buffer' = [buffer EXCEPT ![wPos] = IF wDone < wCopy THEN next + wDone ELSE Silence]
      /\ UNCHANGED <<mStart, mEnd, mWritten, mLastPadding, next, wpc, wStart, wCopy, wPad, room>>
      /\ UNCHANGED <<rpc, rEnd, rCopy, dest, avail>>
  BY DEF PutSample, reader
<1>2. /\ wCopy \in 0..N /\ wPad \in 0..N /\ wDone \in 0..N
      /\ Dist(wStart, mWritten) \in 0..N - 1
  BY Facts
<1>3. Dist(wStart, mWritten) + wCopy + wPad <= N - Gap
  BY Facts DEF Order
<1>4. wDone' \in 0..N /\ wDone' <= wCopy + wPad
  BY <1>1, <1>2, <1>3, SizesAssumption
<1>5. (IF wDone < wCopy THEN next + wDone ELSE Silence) \in Nat
  BY <1>2, SizesAssumption DEF Inv, TypeOK, Silence
<1>6. buffer' \in [Cells -> Nat]
  BY <1>1, <1>5 DEF Inv, TypeOK
<1>7. TypeOK'
  BY <1>1, <1>4, <1>6 DEF Inv, TypeOK
<1>8. Order' /\ Promises'
  BY <1>1 DEF Inv, Order, Promises, Dist
<1>9. Copies'
  BY <1>1, <1>4 DEF Inv, Copies, Dist
<1>10. QED
  BY <1>7, <1>8, <1>9 DEF Inv

LEMMA PutEndStep == Inv /\ PutEnd => Inv'
<1> SUFFICES ASSUME Inv, PutEnd PROVE Inv'
  OBVIOUS
<1>1. /\ wpc = "put" /\ wDone = wCopy + wPad /\ wpc' = "idle"
      /\ mWritten' = Advance(mWritten, wDone) /\ next' = next + wCopy
      /\ room' = room - Least(room, wDone)
      /\ wCopy' = 0 /\ wPad' = 0 /\ wDone' = 0
      /\ UNCHANGED <<buffer, mStart, mEnd, mLastPadding, wStart>>
      /\ UNCHANGED <<rpc, rEnd, rCopy, dest, avail>>
  BY DEF PutEnd, shared, reader, wPos
<1>2. /\ wCopy \in 0..N /\ wPad \in 0..N /\ wDone \in 0..N /\ room \in 0..N
      /\ Dist(wStart, mWritten) \in 0..N - 1 /\ Dist(wStart, mEnd) \in 0..N - 1
  BY Facts
<1>3. /\ Dist(wStart, mWritten) + wCopy + wPad <= N - Gap
      /\ Dist(wStart, mWritten) + room <= N - Gap
      /\ Dist(wStart, mEnd) <= Dist(wStart, mWritten)
      /\ next + wCopy <= MaxSamples + 1
  BY Facts DEF Order, Promises, Copies
<1>4. Dist(wStart, mWritten) + wDone < N
  BY <1>1, <1>2, <1>3, SizesAssumption
<1>5. mWritten' \in Cells /\ Dist(wStart, mWritten') = Dist(wStart, mWritten) + wDone
  <2>1. mWritten \in Cells /\ wStart \in Cells
    BY Facts
  <2>2. mWritten' = Move(mWritten, wDone) /\ mWritten' \in Cells
    BY <1>1, <1>2, <2>1, AdvanceIsMove
  <2>3. QED
    BY <1>2, <1>4, <2>1, <2>2, DistOfMove
<1>6. room' \in 0..N
  BY <1>1, <1>2, SizesAssumption DEF Least
<1>7. next' \in 1..MaxSamples + 1
  <2>1. next \in 1..MaxSamples + 1
    BY DEF Inv, TypeOK
  <2>2. QED
    BY <1>1, <1>2, <1>3, <2>1, SizesAssumption
<1>8. TypeOK'
  <2>1. 0 \in 0..N
    BY SizesAssumption
  <2>2. QED
    BY <1>1, <1>5, <1>6, <1>7, <2>1 DEF Inv, TypeOK
<1>9. Order'
  <2>1. /\ Dist(wStart, mEnd) <= Dist(wStart, mWritten')
        /\ Dist(wStart, mWritten') + 0 + 0 <= N - Gap
    BY <1>1, <1>2, <1>3, <1>5, SizesAssumption
  <2>2. QED
    BY <1>1, <2>1 DEF Inv, Order, Dist
<1>10. Copies'
  <2>1. 0 <= 0 + 0 /\ next' + 0 <= MaxSamples + 1
    <3>1. next' \in Int /\ next' <= MaxSamples + 1
      BY <1>7, SizesAssumption
    <3>2. QED
      BY <3>1
  <2>2. QED
    BY <1>1, <2>1 DEF Inv, Copies, Dist
<1>11. Promises'
  <2>1. Dist(wStart, mWritten') + room' <= N - Gap
    BY <1>1, <1>2, <1>3, <1>5, SizesAssumption DEF Least
  <2>2. QED
    BY <1>1, <2>1 DEF Inv, Promises, Dist
<1>12. QED
  BY <1>8, <1>9, <1>10, <1>11 DEF Inv

(* Moving cells within the buffer keeps it a buffer.                       *)
LEMMA MemmoveType ==
  ASSUME NEW b \in [Cells -> Nat], NEW dst \in Nat, NEW src \in Nat, NEW n \in Int,
         src + n <= N
  PROVE Memmove(b, dst, src, n) \in [Cells -> Nat]
<1>1. ASSUME NEW i \in Cells, dst <= i, i < dst + n
      PROVE b[src + (i - dst)] \in Nat
  <2>1. src + (i - dst) \in Cells
    BY <1>1, SizesAssumption DEF Cells
  <2>2. QED
    BY <2>1
<1>2. QED
  BY <1>1 DEF Memmove

(* Unput moves unflushed samples only: the buffer stays one, and a flushed *)
(* sample stays where it is.                                               *)
LEMMA ShiftedType ==
  ASSUME Inv, NEW size \in 1..N, size <= Dist(mEnd, mWritten)
  PROVE /\ Shifted(size) \in [Cells -> Nat]
        /\ \A i \in Cells :
             Dist(wStart, i) < Dist(wStart, mEnd) => Shifted(size)[i] = buffer[i]
<1>1. /\ buffer \in [Cells -> Nat] /\ mEnd \in 0..N - 1 /\ mWritten \in 0..N - 1
      /\ wStart \in 0..N - 1
  BY DEF Inv, TypeOK, Cells
<1>2. Dist(wStart, mEnd) <= Dist(wStart, mWritten)
  BY Facts DEF Order
<1>3. CASE mEnd >= mWritten
  <2> DEFINE source == Least(mEnd + size, N)
             count == N - source
             end == mEnd + count
             rest == size - (source - mEnd)
             toMove1 == Least(mWritten - rest, N - end)
             toMove2 == mWritten - rest - toMove1
             first == Memmove(buffer, mEnd, source, count)
             second == Memmove(first, end, rest, toMove1)
  <2>1. mEnd > mWritten /\ size <= mWritten + N - mEnd
    BY <1>1, <1>3, SizesAssumption DEF Dist
  <2>2. /\ source \in Nat /\ count \in Nat /\ source + count <= N
        /\ end \in Nat /\ mEnd <= end
        /\ rest \in Nat /\ rest <= mWritten
    BY <1>1, <2>1, SizesAssumption DEF Least
  <2>3. /\ toMove1 \in Int /\ toMove2 \in Int /\ rest + toMove1 \in Nat
        /\ toMove1 <= mWritten - rest /\ rest + toMove1 + toMove2 <= mWritten
    BY <1>1, <2>1, <2>2, SizesAssumption DEF Least
  <2>4. first \in [Cells -> Nat]
    BY <1>1, <2>2, MemmoveType
  <2>5. second \in [Cells -> Nat]
    <3>1. rest + toMove1 <= N
      BY <1>1, <2>2, <2>3, SizesAssumption
    <3>2. QED
      BY <2>2, <2>3, <2>4, <3>1, MemmoveType
  <2>6. Memmove(second, 0, rest + toMove1, toMove2) \in [Cells -> Nat]
    <3>1. rest + toMove1 + toMove2 <= N
      BY <1>1, <2>2, <2>3, SizesAssumption
    <3>2. QED
      BY <2>2, <2>3, <2>5, <3>1, MemmoveType
  <2>7. Shifted(size) = Memmove(second, 0, rest + toMove1, toMove2)
    BY <1>3 DEF Shifted
  <2>8. ASSUME NEW i \in Cells, Dist(wStart, i) < Dist(wStart, mEnd)
        PROVE Memmove(second, 0, rest + toMove1, toMove2)[i] = buffer[i]
    <3>1. i \in 0..N - 1 /\ i < mEnd /\ mWritten <= i
      BY <1>1, <1>2, <2>1, <2>8, SizesAssumption DEF Dist, Cells
    <3>2. first[i] = buffer[i]
      BY <1>1, <2>8, <3>1 DEF Memmove
    <3>3. second[i] = first[i]
      BY <1>1, <2>2, <2>4, <2>8, <3>1 DEF Memmove
    <3>4. ~(0 <= i /\ i < 0 + toMove2)
      BY <1>1, <2>2, <2>3, <3>1, SizesAssumption
    <3>5. QED
      BY <2>5, <2>8, <3>2, <3>3, <3>4 DEF Memmove
  <2>9. QED
    BY <2>6, <2>7, <2>8
<1>4. CASE ~(mEnd >= mWritten)
  <2> DEFINE source == Least(mEnd + size, mWritten)
             count == mWritten - source
  <2>1. source \in Nat /\ count \in Nat /\ source + count <= N
        /\ mEnd + count <= mWritten
    BY <1>1, <1>4, SizesAssumption DEF Least
  <2>2. Shifted(size) = Memmove(buffer, mEnd, source, count)
    BY <1>4 DEF Shifted
  <2>3. Shifted(size) \in [Cells -> Nat]
    BY <1>1, <2>1, <2>2, MemmoveType
  <2>4. ASSUME NEW i \in Cells, Dist(wStart, i) < Dist(wStart, mEnd)
        PROVE Memmove(buffer, mEnd, source, count)[i] = buffer[i]
    <3>1. i \in 0..N - 1 /\ (i < mEnd \/ mWritten <= i)
      BY <1>1, <1>2, <1>4, <2>4, SizesAssumption DEF Dist, Cells
    <3>2. ~(mEnd <= i /\ i < mEnd + count)
      BY <1>1, <2>1, <3>1, SizesAssumption
    <3>3. QED
      BY <1>1, <2>4, <3>2 DEF Memmove
  <2>5. QED
    BY <2>2, <2>3, <2>4
<1>5. QED
  BY <1>3, <1>4

LEMMA UnputStep ==
  ASSUME Inv, NEW size \in 1..N, Unput(size)
  PROVE Inv'
<1>1. /\ wpc = "idle" /\ size <= Filled(mEnd, mWritten)
      /\ buffer' = Shifted(size) /\ mWritten' = Advance(mWritten, N - size)
      /\ mLastPadding' = Least(mLastPadding, Filled(PaddingFrom(size), mWritten'))
      /\ UNCHANGED <<mStart, mEnd, next, wpc, wStart, wCopy, wPad, wDone, room>>
      /\ UNCHANGED <<rpc, rEnd, rCopy, dest, avail>>
  BY DEF Unput, reader
<1>2. /\ mStart \in Cells /\ mEnd \in Cells /\ mWritten \in Cells /\ wStart \in Cells
      /\ wCopy \in 0..N /\ wPad \in 0..N /\ room \in 0..N /\ mLastPadding \in 0..N
      /\ Dist(wStart, mWritten) \in 0..N - 1 /\ Dist(wStart, mEnd) \in 0..N - 1
      /\ Dist(mEnd, mWritten) = Dist(wStart, mWritten) - Dist(wStart, mEnd)
  BY Facts
<1>3. /\ Dist(wStart, mWritten) + wCopy + wPad <= N - Gap
      /\ Dist(wStart, mWritten) + room <= N - Gap
  BY Facts DEF Order, Promises
<1>4. size <= Dist(mEnd, mWritten)
  BY <1>1, <1>2, FilledIsDist
<1>5. size \in 0..Dist(wStart, mWritten) /\ N - size \in 0..N
  BY <1>2, <1>4, SizesAssumption
<1>6. mWritten' \in Cells /\ Dist(wStart, mWritten') = Dist(wStart, mWritten) - size
  BY <1>1, <1>2, <1>5, AdvanceIsMove, MoveBack
<1>7. buffer' \in [Cells -> Nat]
  BY <1>1, <1>4, ShiftedType
<1>8. mLastPadding' \in 0..N
  <2>1. PaddingFrom(size) \in 0..N
    BY <1>2, SizesAssumption DEF PaddingFrom, Least, Cells
  <2>2. mWritten' + N - PaddingFrom(size) \in Nat
    BY <1>6, <2>1, SizesAssumption DEF Cells
  <2>3. Filled(PaddingFrom(size), mWritten') \in Nat
    BY <2>2, SizesAssumption DEF Filled
  <2>4. QED
    BY <1>1, <1>2, <2>3, SizesAssumption DEF Least
<1>9. TypeOK'
  BY <1>1, <1>6, <1>7, <1>8 DEF Inv, TypeOK
<1>10. Order'
  <2>1. /\ Dist(wStart, mEnd) <= Dist(wStart, mWritten')
        /\ Dist(wStart, mWritten') + wCopy + wPad <= N - Gap
    BY <1>2, <1>3, <1>4, <1>6, SizesAssumption
  <2>2. QED
    BY <1>1, <2>1 DEF Inv, Order, Dist
<1>11. Copies'
  BY <1>1 DEF Inv, Copies, Dist
<1>12. Promises'
  <2>1. Dist(wStart, mWritten') + room <= N - Gap
    BY <1>2, <1>3, <1>6, SizesAssumption
  <2>2. QED
    BY <1>1, <2>1 DEF Inv, Promises, Dist
<1>13. QED
  BY <1>9, <1>10, <1>11, <1>12 DEF Inv

LEMMA FlushStep == Inv /\ Flush => Inv'
<1> SUFFICES ASSUME Inv, Flush PROVE Inv'
  OBVIOUS
<1>1. /\ wpc = "idle" /\ mEnd' = mWritten /\ mLastPadding' = 0
      /\ UNCHANGED <<buffer, mStart, mWritten, next, wpc, wStart, wCopy, wPad, wDone, room>>
      /\ UNCHANGED <<rpc, rEnd, rCopy, dest, avail>>
  BY DEF Flush, reader
<1>2. 0 \in 0..N
  BY SizesAssumption
<1>3. TypeOK'
  BY <1>1, <1>2 DEF Inv, TypeOK
<1>4. Order'
  <2>1. /\ Dist(wStart, rEnd) \in 0..N - 1 /\ Dist(wStart, mEnd) \in 0..N - 1
        /\ Dist(wStart, mWritten) \in 0..N - 1
    BY Facts
  <2>2. /\ Dist(wStart, rEnd) <= Dist(wStart, mEnd)
        /\ Dist(wStart, mEnd) <= Dist(wStart, mWritten)
    BY Facts DEF Order
  <2>3. /\ Dist(wStart, rEnd) <= Dist(wStart, mWritten)
        /\ Dist(wStart, mWritten) <= Dist(wStart, mWritten)
    BY <2>1, <2>2, SizesAssumption
  <2>4. QED
    BY <1>1, <2>3 DEF Inv, Order, Dist
<1>5. Copies' /\ Promises'
  BY <1>1 DEF Inv, Copies, Promises, Dist
<1>6. QED
  BY <1>3, <1>4, <1>5 DEF Inv

(* What a step of the reader that loads mEnd does.                         *)
LEMMA ReaderLoadStep ==
  ASSUME Inv, rEnd' \in EndSeen, rpc = "idle", rpc' \in {"idle", "get"}, rCopy' \in 0..N,
         rCopy' <= Filled(mStart, rEnd'), avail' \in 0..N,
         avail' <= Filled(mStart, rEnd'),
         rpc' = "idle" => rCopy' = 0,
         UNCHANGED <<buffer, mStart, mEnd, dest>>,
         UNCHANGED <<mWritten, mLastPadding, next, wpc, wStart, wCopy, wPad, wDone, room>>
  PROVE Inv'
<1>1. /\ rEnd' \in Cells
      /\ Dist(wStart, rEnd) <= Dist(wStart, rEnd')
      /\ Dist(wStart, rEnd') <= Dist(wStart, mEnd)
  BY ReaderLoads
<1>2. Filled(mStart, rEnd') = Dist(mStart, rEnd')
  BY <1>1, FilledIsDist, Facts
<1>3. TypeOK'
  BY <1>1 DEF Inv, TypeOK
<1>4. Order'
  <2>1. /\ Dist(wStart, mStart) \in 0..N - 1 /\ Dist(wStart, rEnd) \in 0..N - 1
        /\ Dist(wStart, rEnd') \in 0..N - 1
    BY <1>1, Facts, DistType
  <2>2. Dist(wStart, mStart) <= Dist(wStart, rEnd)
    BY Facts DEF Order
  <2>3. Dist(wStart, mStart) <= Dist(wStart, rEnd')
    BY <1>1, <2>1, <2>2, SizesAssumption
  <2>4. QED
    BY <1>1, <2>3 DEF Inv, Order, Dist
<1>5. Copies'
  <2>1. Len(dest) = 0
    <3>1. Len(dest) \in Nat
      BY Facts
    <3>2. Len(dest) <= 0
      BY Facts DEF Copies
    <3>3. QED
      BY <3>1, <3>2
  <2>2. Len(dest) <= rCopy'
    BY <2>1, SizesAssumption
  <2>3. QED
    BY <1>2, <2>2 DEF Inv, Copies, Dist
<1>6. Promises'
  BY <1>2 DEF Inv, Promises, Dist
<1>7. QED
  BY <1>3, <1>4, <1>5, <1>6 DEF Inv

LEMMA AvailForGetStep == Inv /\ AvailForGet => Inv'
<1> SUFFICES ASSUME Inv, AvailForGet PROVE Inv'
  OBVIOUS
<1>1. /\ rpc = "idle" /\ rEnd' \in EndSeen /\ avail' = Filled(mStart, rEnd')
      /\ UNCHANGED <<buffer, mStart, mEnd, rpc, rCopy, dest>>
      /\ UNCHANGED <<mWritten, mLastPadding, next, wpc, wStart, wCopy, wPad, wDone, room>>
  BY DEF AvailForGet, shared, writer
<1>2. rCopy = 0
  BY <1>1, Facts DEF Copies
<1>3. Filled(mStart, rEnd') \in 0..N - 1
  BY <1>1, ReaderLoads, FilledIsDist, Facts
<1>4. /\ avail' \in 0..N /\ avail' <= Filled(mStart, rEnd')
      /\ rCopy' \in 0..N /\ rCopy' <= Filled(mStart, rEnd') /\ rCopy' = 0
      /\ rpc' \in {"idle", "get"}
  BY <1>1, <1>2, <1>3, SizesAssumption
<1>5. QED
  BY <1>1, <1>4, ReaderLoadStep

LEMMA GetBeginStep ==
  ASSUME Inv, NEW samples \in 0..N, GetBegin(samples)
  PROVE Inv'
<1>1. /\ rpc = "idle" /\ rpc' = "get" /\ rEnd' \in EndSeen
      /\ rCopy' = Least(samples, Filled(mStart, rEnd'))
      /\ UNCHANGED <<buffer, mStart, mEnd, dest, avail>>
      /\ UNCHANGED <<mWritten, mLastPadding, next, wpc, wStart, wCopy, wPad, wDone, room>>
  BY DEF GetBegin, shared, writer
<1>2. /\ Filled(mStart, rEnd') \in 0..N - 1
      /\ Filled(mStart, rEnd') = Dist(mStart, rEnd')
      /\ Dist(mStart, rEnd) <= Dist(mStart, rEnd')
  BY <1>1, ReaderLoads, FilledIsDist, Facts
<1>3. rCopy' \in 0..N /\ rCopy' <= Filled(mStart, rEnd')
  BY <1>1, <1>2, SizesAssumption DEF Least
<1>4. avail' \in 0..N /\ avail' <= Filled(mStart, rEnd')
  <2>1. avail \in 0..N /\ Dist(mStart, rEnd) \in 0..N - 1
    BY Facts, DistType
  <2>2. avail <= Dist(mStart, rEnd)
    BY Facts DEF Promises
  <2>3. QED
    BY <1>1, <1>2, <2>1, <2>2, SizesAssumption
<1>5. QED
  BY <1>1, <1>3, <1>4, ReaderLoadStep

LEMMA GetSampleStep == Inv /\ GetSample => Inv'
<1> SUFFICES ASSUME Inv, GetSample PROVE Inv'
  OBVIOUS
<1>1. /\ rpc = "get" /\ Len(dest) < rCopy
      /\ dest' = Append(dest, buffer[Advance(mStart, Len(dest))])
      /\ UNCHANGED <<buffer, mStart, mEnd, rpc, rEnd, rCopy, avail>>
      /\ UNCHANGED <<mWritten, mLastPadding, next, wpc, wStart, wCopy, wPad, wDone, room>>
  BY DEF GetSample, shared, writer, rPos
<1>2. Len(dest) \in Nat /\ rCopy \in 0..N /\ mStart \in Cells
  BY Facts
<1>3. Len(dest) \in 0..N
  BY <1>1, <1>2, SizesAssumption
<1>4. buffer[Advance(mStart, Len(dest))] \in Nat
  <2>1. Advance(mStart, Len(dest)) \in Cells
    BY <1>2, <1>3, AdvanceIsMove
  <2>2. QED
    BY <2>1 DEF Inv, TypeOK
<1>5. dest' \in Seq(Nat) /\ Len(dest') = Len(dest) + 1
  BY <1>1, <1>4 DEF Inv, TypeOK
<1>6. Len(dest') <= rCopy
  BY <1>1, <1>2, <1>5, SizesAssumption
<1>7. TypeOK'
  BY <1>1, <1>5 DEF Inv, TypeOK
<1>8. Order' /\ Promises'
  BY <1>1 DEF Inv, Order, Promises, Dist
<1>9. Copies'
  BY <1>1, <1>6 DEF Inv, Copies, Dist
<1>10. QED
  BY <1>7, <1>8, <1>9 DEF Inv

(* Consuming the first k of the samples that the reader has seen.          *)
LEMMA ConsumeStep ==
  ASSUME Inv, NEW k \in 0..N, k <= Dist(mStart, rEnd'),
         rEnd' \in EndSeen, mStart' = Advance(mStart, k),
         avail' = avail - Least(avail, k),
         rpc' = "idle", rCopy' = 0, dest' = <<>>,
         UNCHANGED <<buffer, mEnd>>,
         UNCHANGED <<mWritten, mLastPadding, next, wpc, wStart, wCopy, wPad, wDone, room>>
  PROVE Inv'
<1>1. /\ rEnd' \in Cells
      /\ Dist(wStart, rEnd') <= Dist(wStart, mEnd)
      /\ Dist(mStart, rEnd') \in 0..N - 1
      /\ Dist(mStart, rEnd) <= Dist(mStart, rEnd')
      /\ Dist(mStart, rEnd') = Dist(wStart, rEnd') - Dist(wStart, mStart)
  BY ReaderLoads
<1>2. /\ mStart \in Cells /\ wStart \in Cells /\ avail \in 0..N
      /\ Dist(wStart, mStart) \in 0..N - 1 /\ Dist(wStart, rEnd') \in 0..N - 1
      /\ Dist(mStart, rEnd) \in 0..N - 1
  BY <1>1, Facts, DistType
<1>3. mStart' = Move(mStart, k) /\ mStart' \in Cells
  BY <1>2, AdvanceIsMove
<1>4. Dist(wStart, mStart') = Dist(wStart, mStart) + k
  <2>1. Dist(wStart, mStart) + k < N
    BY <1>1, <1>2, SizesAssumption
  <2>2. QED
    BY <1>2, <1>3, <2>1, DistOfMove
<1>5. Dist(mStart', rEnd') = Dist(mStart, rEnd') - k
  <2>1. Dist(wStart, mStart') <= Dist(wStart, rEnd')
    BY <1>1, <1>2, <1>4, SizesAssumption
  <2>2. Dist(mStart', rEnd') = Dist(wStart, rEnd') - Dist(wStart, mStart')
    BY <1>1, <1>2, <1>3, <2>1, DistBetween
  <2>3. QED
    BY <1>1, <1>2, <1>4, <2>2, SizesAssumption
<1>6. avail' \in 0..N /\ avail' <= Dist(mStart', rEnd')
  <2>1. avail <= Dist(mStart, rEnd)
    BY Facts DEF Promises
  <2>2. QED
    BY <1>1, <1>2, <1>5, <2>1, SizesAssumption DEF Least
<1>7. TypeOK'
  <2>1. dest' \in Seq(Nat) /\ 0 \in 0..N
    BY SizesAssumption
  <2>2. QED
    BY <1>1, <1>3, <1>6, <2>1 DEF Inv, TypeOK
<1>8. Order'
  <2>1. Dist(wStart, mStart') <= Dist(wStart, rEnd')
    BY <1>1, <1>2, <1>4, SizesAssumption
  <2>2. QED
    BY <1>1, <2>1 DEF Inv, Order, Dist
<1>9. Copies'
  <2>1. Dist(mStart', rEnd') \in Nat /\ Len(dest') = 0
    BY <1>1, <1>3, DistType, SizesAssumption
  <2>2. Len(dest') <= 0 /\ 0 <= Dist(mStart', rEnd')
    BY <2>1
  <2>3. QED
    BY <2>2 DEF Inv, Copies, Dist
<1>10. Promises'
  BY <1>6 DEF Inv, Promises, Dist
<1>11. QED
  BY <1>7, <1>8, <1>9, <1>10 DEF Inv

LEMMA GetEndStep == Inv /\ GetEnd => Inv'
<1> SUFFICES ASSUME Inv, GetEnd PROVE Inv'
  OBVIOUS
<1>1. /\ rpc = "get" /\ Len(dest) = rCopy /\ rpc' = "idle"
      /\ mStart' = Advance(mStart, rCopy) /\ avail' = avail - Least(avail, rCopy)
      /\ dest' = <<>> /\ rCopy' = 0
      /\ UNCHANGED <<buffer, mEnd, rEnd>>
      /\ UNCHANGED <<mWritten, mLastPadding, next, wpc, wStart, wCopy, wPad, wDone, room>>
  BY DEF GetEnd, writer, rPos
<1>2. rCopy \in 0..N /\ rEnd \in Cells /\ mEnd \in Cells
  BY Facts
<1>3. rEnd' \in EndSeen
  <2>1. Filled(rEnd, mEnd) \in 0..N - 1
    BY <1>2, FilledIsDist, DistType
  <2>2. 0 \in 0..Filled(rEnd, mEnd)
    BY <2>1, SizesAssumption
  <2>3. 0 \in 0..N /\ rEnd + 0 < N /\ rEnd + 0 = rEnd
    BY <1>2, SizesAssumption DEF Cells
  <2>4. Advance(rEnd, 0) = rEnd
    BY <1>2, <2>3, AdvanceIsMove DEF Move
  <2>5. QED
    BY <1>1, <2>2, <2>4 DEF EndSeen
<1>4. rCopy <= Dist(mStart, rEnd')
  BY <1>1, Facts DEF Copies
<1>5. QED
  BY <1>1, <1>2, <1>3, <1>4, ConsumeStep

LEMMA DiscardStep ==
  ASSUME Inv, NEW samples \in 0..N, Discard(samples)
  PROVE Inv'
<1> DEFINE k == Least(samples, Filled(mStart, rEnd'))
<1>1. /\ rpc = "idle" /\ rEnd' \in EndSeen
      /\ mStart' = Advance(mStart, k) /\ avail' = avail - Least(avail, k)
      /\ UNCHANGED <<buffer, mEnd, rpc, rCopy, dest>>
      /\ UNCHANGED <<mWritten, mLastPadding, next, wpc, wStart, wCopy, wPad, wDone, room>>
  BY DEF Discard, writer
<1>2. Filled(mStart, rEnd') \in 0..N - 1 /\ Filled(mStart, rEnd') = Dist(mStart, rEnd')
  BY <1>1, ReaderLoads, FilledIsDist, Facts
<1>3. k \in 0..N /\ k <= Dist(mStart, rEnd')
  BY <1>2, SizesAssumption DEF Least
<1>4. rCopy = 0 /\ dest = <<>>
  <2>1. rCopy = 0
    BY <1>1, Facts DEF Copies
  <2>2. Len(dest) \in Nat /\ Len(dest) <= 0
    BY <2>1, Facts DEF Copies
  <2>3. dest \in Seq(Nat) /\ Len(dest) = 0
    BY <2>2 DEF Inv, TypeOK
  <2>4. QED
    BY <2>1, <2>3
<1>5. QED
  BY <1>1, <1>3, <1>4, ConsumeStep

LEMMA NextInv == Inv /\ [Next]_vars => Inv'
<1> SUFFICES ASSUME Inv, [Next]_vars PROVE Inv'
  OBVIOUS
<1>1. ASSUME NEW samples \in 0..N, NEW padding \in 0..N, PutBegin(samples, padding)
      PROVE Inv'
  BY <1>1, PutBeginStep
<1>2. ASSUME NEW samples \in 1..N, ClearBegin(samples) PROVE Inv'
  BY <1>2, ClearBeginStep
<1>3. ASSUME NEW size \in 1..N, Unput(size) PROVE Inv'
  BY <1>3, UnputStep
<1>4. CASE AvailForPut \/ PutSample \/ PutEnd \/ Flush
  BY <1>4, AvailForPutStep, PutSampleStep, PutEndStep, FlushStep
<1>5. CASE AvailForGet \/ GetSample \/ GetEnd
  BY <1>5, AvailForGetStep, GetSampleStep, GetEndStep
<1>6. ASSUME NEW samples \in 0..N, GetBegin(samples) PROVE Inv'
  BY <1>6, GetBeginStep
<1>7. ASSUME NEW samples \in 0..N, Discard(samples) PROVE Inv'
  BY <1>7, DiscardStep
<1>8. CASE UNCHANGED vars
  BY <1>8 DEF vars, writer, reader, Inv, TypeOK, Order, Copies, Promises, Dist
<1>9. QED
  BY <1>1, <1>2, <1>3, <1>4, <1>5, <1>6, <1>7, <1>8 DEF Next, WriterStep, ReaderStep

LEMMA InvAlways == Spec => []Inv
<1>1. QED
  BY InitInv, NextInv, PTL DEF Spec

\* The types, for every size of the buffer.
THEOREM TypesHold == Spec => []TypeOK
<1>1. Inv => TypeOK
  BY DEF Inv
<1>2. QED
  BY <1>1, InvAlways, PTL

\* The writer and the reader never touch the same cell, for every size of the
\* buffer and however stale the index that each of them loaded.
THEOREM NoSharedCell == Spec => []RegionsDisjoint
<1>1. QED
  BY InvImpliesDisjoint, InvAlways, PTL

\* What AvailForPut and AvailForGet promised stays true until it is used.
THEOREM PromisesKept == Spec => []AvailNeverOverestimates
<1>1. QED
  BY InvImpliesPromises, InvAlways, PTL

-----------------------------------------------------------------------------
(* Where the k-th flushed cell lies.                                       *)
LEMMA ReadyCell ==
  ASSUME Inv, NEW k \in 0..Filled(mStart, mEnd) - 1
  PROVE /\ Advance(mStart, k) \in Cells
        /\ Dist(wStart, Advance(mStart, k)) < Dist(wStart, mEnd)
<1>1. /\ mStart \in Cells /\ mEnd \in Cells /\ wStart \in Cells
      /\ Dist(wStart, mStart) \in 0..N - 1 /\ Dist(wStart, mEnd) \in 0..N - 1
      /\ Dist(mStart, mEnd) = Dist(wStart, mEnd) - Dist(wStart, mStart)
  BY Facts
<1>2. Filled(mStart, mEnd) = Dist(mStart, mEnd)
  BY <1>1, FilledIsDist
<1>3. k \in 0..N /\ Dist(wStart, mStart) + k < Dist(wStart, mEnd)
  BY <1>1, <1>2, SizesAssumption
<1>4. Dist(wStart, mStart) + k < N
  BY <1>1, <1>3, SizesAssumption
<1>5. Advance(mStart, k) = Move(mStart, k) /\ Move(mStart, k) \in Cells
  BY <1>1, <1>3, AdvanceIsMove
<1>6. Dist(wStart, Move(mStart, k)) = Dist(wStart, mStart) + k
  BY <1>1, <1>3, <1>4, DistOfMove
<1>7. QED
  BY <1>3, <1>5, <1>6

(* A flushed cell is touched neither by a Put nor by an Unput.             *)
LEMMA FlushedStep ==
  ASSUME Inv, [Next]_vars, NEW i \in Cells, Dist(wStart, i) < Dist(wStart, mEnd)
  PROVE buffer'[i] = buffer[i]
<1>1. CASE PutSample
  <2>1. /\ wDone < wCopy + wPad
        /\ buffer' = [buffer EXCEPT ![Advance(mWritten, wDone)] =
                        IF wDone < wCopy THEN next + wDone ELSE Silence]
    BY <1>1 DEF PutSample, wPos
  <2>2. /\ wCopy \in 0..N /\ wPad \in 0..N /\ wDone \in 0..N
        /\ wStart \in Cells /\ mWritten \in Cells
        /\ Dist(wStart, mWritten) \in 0..N - 1 /\ Dist(wStart, mEnd) \in 0..N - 1
    BY Facts
  <2>3. /\ Dist(wStart, mWritten) + wCopy + wPad <= N - Gap
        /\ Dist(wStart, mEnd) <= Dist(wStart, mWritten)
    BY Facts DEF Order
  <2>4. Dist(wStart, mWritten) + wDone < N
    BY <2>1, <2>2, <2>3, SizesAssumption
  <2>5. Dist(wStart, Advance(mWritten, wDone)) = Dist(wStart, mWritten) + wDone
    BY <2>2, <2>4, AdvanceIsMove, DistOfMove
  <2>6. Dist(wStart, i) \in 0..N - 1
    BY <2>2, DistType
  <2>7. i # Advance(mWritten, wDone)
    BY <2>2, <2>3, <2>5, <2>6, SizesAssumption
  <2>8. QED
    BY <2>1, <2>7 DEF Inv, TypeOK
<1>2. ASSUME NEW size \in 1..N, Unput(size) PROVE buffer'[i] = buffer[i]
  <2>1. size <= Filled(mEnd, mWritten) /\ buffer' = Shifted(size)
    BY <1>2 DEF Unput
  <2>2. Filled(mEnd, mWritten) = Dist(mEnd, mWritten)
    BY FilledIsDist, Facts
  <2>3. QED
    BY <2>1, <2>2, ShiftedType
<1>3. ASSUME NEW samples \in 0..N, NEW padding \in 0..N, PutBegin(samples, padding)
      PROVE buffer'[i] = buffer[i]
  BY <1>3 DEF PutBegin, shared
<1>4. ASSUME NEW samples \in 1..N, ClearBegin(samples) PROVE buffer'[i] = buffer[i]
  BY <1>4 DEF ClearBegin, shared
<1>5. CASE AvailForPut \/ PutEnd \/ Flush \/ AvailForGet \/ GetSample \/ GetEnd
  BY <1>5 DEF AvailForPut, PutEnd, Flush, AvailForGet, GetSample, GetEnd, shared
<1>6. ASSUME NEW samples \in 0..N, GetBegin(samples) \/ Discard(samples)
      PROVE buffer'[i] = buffer[i]
  BY <1>6 DEF GetBegin, Discard, shared
<1>7. CASE UNCHANGED vars
  BY <1>7 DEF vars
<1>8. QED
  BY <1>1, <1>2, <1>3, <1>4, <1>5, <1>6, <1>7 DEF Next, WriterStep, ReaderStep

\* A sample that was flushed stays what it is until the reader consumes it,
\* for every size of the buffer.
THEOREM FlushedSamplesKept == Spec => FlushedSamplesStay
<1> DEFINE Stays == \A k \in 0..Filled(mStart, mEnd) - 1 :
                      buffer'[Advance(mStart, k)] = buffer[Advance(mStart, k)]
<1>1. Inv /\ [Next]_vars => Stays
  <2> SUFFICES ASSUME Inv, [Next]_vars, NEW k \in 0..Filled(mStart, mEnd) - 1
               PROVE buffer'[Advance(mStart, k)] = buffer[Advance(mStart, k)]
    OBVIOUS
  <2>1. QED
    BY ReadyCell, FlushedStep
<1>2. Inv /\ [Next]_vars => [Stays]_vars
  BY <1>1
<1>3. QED
  BY <1>2, InvAlways, PTL DEF Spec, FlushedSamplesStay

-----------------------------------------------------------------------------
(* The k-th sample that a Get has copied is the k-th flushed one.          *)
Copied == \A k \in 0..Len(dest) - 1 : dest[k + 1] = buffer[Advance(mStart, k)]

(* A cell that a Get has copied is flushed, so no step of the writer       *)
(* changes it.                                                             *)
LEMMA CopiedCellStays ==
  ASSUME Inv, [Next]_vars, NEW k \in 0..Len(dest) - 1
  PROVE buffer'[Advance(mStart, k)] = buffer[Advance(mStart, k)]
<1>1. /\ Len(dest) \in Nat /\ Len(dest) <= rCopy /\ rCopy \in 0..N
      /\ rCopy <= Dist(mStart, rEnd) /\ Dist(wStart, rEnd) <= Dist(wStart, mEnd)
      /\ Dist(mStart, rEnd) = Dist(wStart, rEnd) - Dist(wStart, mStart)
      /\ Dist(mStart, mEnd) = Dist(wStart, mEnd) - Dist(wStart, mStart)
      /\ Dist(wStart, mStart) \in 0..N - 1 /\ Dist(wStart, rEnd) \in 0..N - 1
      /\ Dist(wStart, mEnd) \in 0..N - 1
  BY Facts DEF Copies, Order
<1>2. Filled(mStart, mEnd) = Dist(mStart, mEnd)
  BY FilledIsDist, Facts
<1>3. k \in 0..Filled(mStart, mEnd) - 1
  BY <1>1, <1>2, SizesAssumption
<1>4. QED
  BY <1>3, ReadyCell, FlushedStep

LEMMA CopiedStep == Inv /\ Copied /\ [Next]_vars => Copied'
<1> SUFFICES ASSUME Inv, Copied, [Next]_vars PROVE Copied'
  OBVIOUS
<1>1. dest \in Seq(Nat) /\ Len(dest) \in Nat
  BY DEF Inv, TypeOK
<1>2. ASSUME dest' = <<>> PROVE Copied'
  BY <1>2 DEF Copied
<1>3. ASSUME dest' = dest, mStart' = mStart PROVE Copied'
  <2> SUFFICES ASSUME NEW k \in 0..Len(dest) - 1
               PROVE dest[k + 1] = buffer'[Advance(mStart, k)]
    BY <1>3 DEF Copied
  <2>2. QED
    BY CopiedCellStays DEF Copied
<1>4. ASSUME GetSample PROVE Copied'
  <2>1. /\ dest' = Append(dest, buffer[Advance(mStart, Len(dest))])
        /\ buffer' = buffer /\ mStart' = mStart
    BY <1>4 DEF GetSample, shared, rPos
  <2>2. buffer[Advance(mStart, Len(dest))] \in Nat
    <3>1. Len(dest) < rCopy /\ rCopy \in 0..N /\ mStart \in Cells
      BY <1>4, Facts DEF GetSample
    <3>2. Len(dest) \in 0..N
      BY <1>1, <3>1, SizesAssumption
    <3>3. Advance(mStart, Len(dest)) \in Cells
      BY <3>1, <3>2, AdvanceIsMove
    <3>4. QED
      BY <3>3 DEF Inv, TypeOK
  <2>3. /\ Len(dest') = Len(dest) + 1
        /\ dest'[Len(dest) + 1] = buffer[Advance(mStart, Len(dest))]
        /\ \A i \in 1..Len(dest) : dest'[i] = dest[i]
    BY <1>1, <2>1, <2>2
  <2> SUFFICES ASSUME NEW k \in 0..Len(dest)
               PROVE dest'[k + 1] = buffer[Advance(mStart, k)]
    BY <1>1, <2>1, <2>3 DEF Copied
  <2>4. CASE k = Len(dest)
    BY <2>3, <2>4
  <2>5. CASE k # Len(dest)
    <3>1. k \in 0..Len(dest) - 1 /\ k + 1 \in 1..Len(dest)
      BY <1>1, <2>5
    <3>2. QED
      BY <2>3, <3>1 DEF Copied
  <2>6. QED
    BY <2>4, <2>5
<1>5. ASSUME NEW samples \in 0..N, Discard(samples) PROVE Copied'
  <2>1. dest' = dest /\ rCopy = 0 /\ Len(dest) <= rCopy
    BY <1>5, Facts DEF Discard, Copies
  <2>2. Len(dest) = 0
    BY <1>1, <2>1
  <2>3. QED
    BY <1>1, <1>2, <2>1, <2>2
<1>6. CASE GetEnd
  BY <1>2, <1>6 DEF GetEnd
<1>7. CASE AvailForPut \/ PutSample \/ PutEnd \/ Flush \/ AvailForGet
  BY <1>3, <1>7
     DEF AvailForPut, PutSample, PutEnd, Flush, AvailForGet, shared, reader
<1>8. ASSUME NEW samples \in 0..N, NEW padding \in 0..N, PutBegin(samples, padding)
      PROVE Copied'
  BY <1>3, <1>8 DEF PutBegin, shared, reader
<1>9. ASSUME NEW samples \in 1..N, ClearBegin(samples) \/ Unput(samples) PROVE Copied'
  BY <1>3, <1>9 DEF ClearBegin, Unput, shared, reader
<1>10. ASSUME NEW samples \in 0..N, GetBegin(samples) PROVE Copied'
  BY <1>3, <1>10 DEF GetBegin, shared
<1>11. CASE UNCHANGED vars
  BY <1>3, <1>11 DEF vars, shared, reader
<1>12. QED
  BY <1>4, <1>5, <1>6, <1>7, <1>8, <1>9, <1>10, <1>11
     DEF Next, WriterStep, ReaderStep

\* What a Get copies is what is at the front of the flushed samples when it
\* consumes them, for every size of the buffer and however stale the index
\* it loaded: nothing it copied is torn, stale or unflushed.
THEOREM FrontIsRead == Spec => []GetReadsTheFront
<1>1. Init => Copied
  BY DEF Init, Copied
<1>2. Inv /\ Copied => GetReadsTheFront
  <2> SUFFICES ASSUME Inv, Copied PROVE dest = Contents(mStart, Len(dest))
    BY DEF GetReadsTheFront
  <2>1. dest \in Seq(Nat) /\ Len(dest) \in Nat
    BY DEF Inv, TypeOK
  <2>2. dest = [i \in 1..Len(dest) |-> dest[i]]
    BY <2>1
  <2>3. ASSUME NEW i \in 1..Len(dest) PROVE dest[i] = buffer[Advance(mStart, i - 1)]
    <3>1. i - 1 \in 0..Len(dest) - 1 /\ (i - 1) + 1 = i
      BY <2>1
    <3>2. QED
      BY <3>1 DEF Copied
  <2>4. QED
    BY <2>2, <2>3 DEF Contents
<1>3. QED
  BY <1>1, <1>2, CopiedStep, InvAlways, InitInv, NextInv, PTL DEF Spec

-----------------------------------------------------------------------------
(***************************************************************************)
(* RingBuffer implements SampleQueue, for every size of the buffer: a Put  *)
(* takes effect when it stores mWritten, an Unput, a Flush and a Discard   *)
(* in their one step, a Get when it stores mStart; every other step leaves *)
(* the queue as it is.                                                     *)
(***************************************************************************)

(* What a Put has written so far, behind mWritten.                         *)
Written ==
    \A d \in 0..wDone - 1 :
        buffer[Advance(mWritten, d)] = IF d < wCopy THEN next + d ELSE Silence

QueueInv == Inv /\ Written

Pending == Contents(mEnd, Filled(mEnd, mWritten))
Ready == Contents(mStart, Filled(mStart, mEnd))

-----------------------------------------------------------------------------
(* More algebra of the circle.                                             *)
LEMMA MoveBeyond ==
  ASSUME NEW a \in Cells, NEW b \in Cells, NEW d \in 0..N, Dist(a, b) + d < N
  PROVE Move(a, Dist(a, b) + d) = Move(b, d)
  BY SizesAssumption DEF Cells, Dist, Move

LEMMA MoveTwice ==
  ASSUME NEW a \in Cells, NEW k \in 0..N, NEW d \in 0..N, k + d < N
  PROVE Move(Move(a, k), d) = Move(a, k + d)
  BY SizesAssumption DEF Cells, Move

LEMMA DistOfMoveSelf ==
  ASSUME NEW a \in Cells, NEW k \in 0..N - 1
  PROVE Dist(a, Move(a, k)) = k
  BY SizesAssumption DEF Cells, Dist, Move

(* The samples in n cells are a sequence of length n.                      *)
LEMMA ContentsType ==
  ASSUME Inv, NEW pos \in Cells, NEW n \in 0..N
  PROVE /\ Contents(pos, n) \in Seq(Nat)
        /\ Len(Contents(pos, n)) = n
        /\ \A i \in 1..n : Contents(pos, n)[i] = buffer[Move(pos, i - 1)]
<1>1. ASSUME NEW i \in 1..n
      PROVE Advance(pos, i - 1) = Move(pos, i - 1) /\ Move(pos, i - 1) \in Cells
  <2>1. i - 1 \in 0..N
    BY SizesAssumption
  <2>2. QED
    BY <2>1, AdvanceIsMove
<1>2. buffer \in [Cells -> Nat]
  BY DEF Inv, TypeOK
<1>3. n \in Nat
  BY SizesAssumption
<1>4. Contents(pos, n) \in [1..n -> Nat]
  BY <1>1, <1>2 DEF Contents
<1>5. Contents(pos, n) \in Seq(Nat)
  BY <1>3, <1>4, SeqDef
<1>6. DOMAIN Contents(pos, n) = 1..n
  BY DEF Contents
<1>7. Len(Contents(pos, n)) = n
  BY <1>3, <1>5, <1>6, LenProperties
<1>8. QED
  BY <1>1, <1>5, <1>7 DEF Contents

LEMMA SerialsType ==
  ASSUME NEW first \in Nat, NEW k \in Nat
  PROVE /\ Queue!Serials(first, k) \in Seq(Nat)
        /\ Len(Queue!Serials(first, k)) = k
        /\ \A i \in 1..k : Queue!Serials(first, k)[i] = first + i - 1
<1>1. Queue!Serials(first, k) \in [1..k -> Nat]
  BY DEF Queue!Serials
<1>2. Queue!Serials(first, k) \in Seq(Nat)
  BY <1>1, SeqDef
<1>3. DOMAIN Queue!Serials(first, k) = 1..k
  BY DEF Queue!Serials
<1>4. QED
  BY <1>2, <1>3, LenProperties DEF Queue!Serials

LEMMA ZerosType ==
  ASSUME NEW k \in Nat
  PROVE /\ Queue!Zeros(k) \in Seq(Nat)
        /\ Len(Queue!Zeros(k)) = k
        /\ \A i \in 1..k : Queue!Zeros(k)[i] = 0
<1>1. Queue!Zeros(k) \in [1..k -> Nat]
  BY DEF Queue!Zeros, Queue!Silence
<1>2. Queue!Zeros(k) \in Seq(Nat)
  BY <1>1, SeqDef
<1>3. DOMAIN Queue!Zeros(k) = 1..k
  BY DEF Queue!Zeros
<1>4. QED
  BY <1>2, <1>3, LenProperties DEF Queue!Zeros, Queue!Silence

LEMMA Concatenation ==
  ASSUME NEW s \in Seq(Nat), NEW t \in Seq(Nat)
  PROVE /\ s \o t \in Seq(Nat)
        /\ Len(s \o t) = Len(s) + Len(t)
        /\ \A i \in 1..Len(s) + Len(t) :
             (s \o t)[i] = IF i <= Len(s) THEN s[i] ELSE t[i - Len(s)]
  BY ConcatProperties

(* The two sequences of the queue, cell by cell.                           *)
LEMMA QueueFacts ==
  ASSUME Inv
  PROVE /\ Filled(mEnd, mWritten) = Dist(mEnd, mWritten)
        /\ Filled(mStart, mEnd) = Dist(mStart, mEnd)
        /\ Dist(mEnd, mWritten) \in 0..N /\ Dist(mStart, mEnd) \in 0..N
        /\ Dist(mStart, mEnd) + Dist(mEnd, mWritten) + wCopy + wPad <= N - Gap
        /\ Pending \in Seq(Nat) /\ Len(Pending) = Dist(mEnd, mWritten)
        /\ Ready \in Seq(Nat) /\ Len(Ready) = Dist(mStart, mEnd)
        /\ \A i \in 1..Dist(mEnd, mWritten) : Pending[i] = buffer[Move(mEnd, i - 1)]
        /\ \A i \in 1..Dist(mStart, mEnd) : Ready[i] = buffer[Move(mStart, i - 1)]
<1>1. /\ mStart \in Cells /\ mEnd \in Cells /\ mWritten \in Cells
      /\ wCopy \in 0..N /\ wPad \in 0..N
      /\ Dist(wStart, mStart) \in 0..N - 1 /\ Dist(wStart, mEnd) \in 0..N - 1
      /\ Dist(wStart, mWritten) \in 0..N - 1
      /\ Dist(mStart, mEnd) = Dist(wStart, mEnd) - Dist(wStart, mStart)
      /\ Dist(mEnd, mWritten) = Dist(wStart, mWritten) - Dist(wStart, mEnd)
  BY Facts
<1>2. Dist(wStart, mWritten) + wCopy + wPad <= N - Gap
  BY Facts DEF Order
<1>3. /\ Filled(mEnd, mWritten) = Dist(mEnd, mWritten)
      /\ Filled(mStart, mEnd) = Dist(mStart, mEnd)
  BY <1>1, FilledIsDist
<1>4. Dist(mEnd, mWritten) \in 0..N /\ Dist(mStart, mEnd) \in 0..N
  <2>1. Dist(mEnd, mWritten) \in 0..N - 1 /\ Dist(mStart, mEnd) \in 0..N - 1
    BY <1>1, DistType
  <2>2. QED
    BY <2>1, SizesAssumption
<1>5. Dist(mStart, mEnd) + Dist(mEnd, mWritten) + wCopy + wPad <= N - Gap
  BY <1>1, <1>2, SizesAssumption
<1>6. QED
  BY <1>1, <1>3, <1>4, <1>5, ContentsType DEF Pending, Ready

-----------------------------------------------------------------------------
(* The cells a Put writes: each in its place, all of them distinct.        *)
LEMMA PutCell ==
  ASSUME Inv, NEW d \in 0..wCopy + wPad - 1
  PROVE /\ d \in 0..N /\ Dist(wStart, mWritten) + d < N
        /\ Advance(mWritten, d) = Move(mWritten, d)
        /\ Move(mWritten, d) \in Cells
        /\ Dist(wStart, Move(mWritten, d)) = Dist(wStart, mWritten) + d
<1>1. /\ wCopy \in 0..N /\ wPad \in 0..N /\ mWritten \in Cells /\ wStart \in Cells
      /\ Dist(wStart, mWritten) \in 0..N - 1
  BY Facts
<1>2. Dist(wStart, mWritten) + wCopy + wPad <= N - Gap
  BY Facts DEF Order
<1>3. d \in 0..N /\ Dist(wStart, mWritten) + d < N
  BY <1>1, <1>2, SizesAssumption
<1>4. QED
  BY <1>1, <1>3, AdvanceIsMove, DistOfMove

LEMMA PutSampleFacts ==
  ASSUME Inv, PutSample
  PROVE /\ wDone \in 0..wCopy + wPad - 1 /\ wDone' = wDone + 1
        /\ wDone \in Nat /\ wCopy \in Nat
        /\ buffer' = [buffer EXCEPT ![Move(mWritten, wDone)] =
                        IF wDone < wCopy THEN next + wDone ELSE Silence]
        /\ buffer \in [Cells -> Nat]
        /\ UNCHANGED <<mStart, mEnd, mWritten, next, wStart, wCopy, wPad>>
<1>1. /\ wDone < wCopy + wPad /\ wDone' = wDone + 1
      /\ buffer' = [buffer EXCEPT ![Advance(mWritten, wDone)] =
                      IF wDone < wCopy THEN next + wDone ELSE Silence]
      /\ UNCHANGED <<mStart, mEnd, mWritten, next, wStart, wCopy, wPad>>
  BY DEF PutSample, wPos
<1>2. wCopy \in 0..N /\ wPad \in 0..N /\ wDone \in 0..N
  BY Facts
<1>3. wDone \in 0..wCopy + wPad - 1
  BY <1>1, <1>2, SizesAssumption
<1>4. buffer \in [Cells -> Nat]
  BY DEF Inv, TypeOK
<1>5. Advance(mWritten, wDone) = Move(mWritten, wDone)
  BY <1>3, PutCell
<1>6. wDone \in Nat /\ wCopy \in Nat
  BY <1>2, SizesAssumption
<1>7. QED
  BY <1>1, <1>3, <1>4, <1>5, <1>6

(* The progress of a Put.                                                  *)
LEMMA WrittenStep == QueueInv /\ [Next]_vars => Written'
<1> SUFFICES ASSUME QueueInv, [Next]_vars PROVE Written'
  OBVIOUS
<1>0. Inv /\ Written
  BY DEF QueueInv
<1>1. CASE PutSample
  <2>1. /\ wDone \in 0..wCopy + wPad - 1 /\ wDone' = wDone + 1
        /\ wDone \in Nat /\ wCopy \in Nat
        /\ buffer' = [buffer EXCEPT ![Move(mWritten, wDone)] =
                        IF wDone < wCopy THEN next + wDone ELSE Silence]
        /\ buffer \in [Cells -> Nat]
        /\ UNCHANGED <<mWritten, next, wCopy>>
    BY <1>0, <1>1, PutSampleFacts
  <2>2. ASSUME NEW d \in 0..wDone
        PROVE buffer'[Advance(mWritten, d)] = IF d < wCopy THEN next + d ELSE Silence
    <3>0. wCopy \in 0..N /\ wPad \in 0..N
      BY <1>0, Facts
    <3>1. d \in 0..wCopy + wPad - 1
      BY <2>1, <3>0, SizesAssumption
    <3>2. /\ Advance(mWritten, d) = Move(mWritten, d)
          /\ Move(mWritten, d) \in Cells
          /\ Dist(wStart, Move(mWritten, d)) = Dist(wStart, mWritten) + d
      BY <1>0, <3>1, PutCell
    <3>3. /\ Move(mWritten, wDone) \in Cells
          /\ Dist(wStart, Move(mWritten, wDone)) = Dist(wStart, mWritten) + wDone
      BY <1>0, <2>1, PutCell
    <3>4. CASE d = wDone
      BY <2>1, <3>2, <3>4
    <3>5. CASE d # wDone
      <4>1. d \in 0..wDone - 1
        BY <2>1, <3>5
      <4>2. buffer[Move(mWritten, d)] = IF d < wCopy THEN next + d ELSE Silence
        BY <1>0, <3>2, <4>1 DEF Written
      <4>3. Dist(wStart, mWritten) \in Int
        BY <1>0, Facts, SizesAssumption
      <4>4. Move(mWritten, d) # Move(mWritten, wDone)
        BY <2>1, <3>2, <3>3, <3>5, <4>3
      <4>5. QED
        BY <2>1, <3>2, <4>2, <4>4
    <3>6. QED
      BY <3>4, <3>5
  <2>3. 0..wDone' - 1 = 0..wDone
    BY <2>1
  <2>4. QED
    BY <2>1, <2>2, <2>3 DEF Written, Advance
<1>2. CASE PutEnd
  <2>1. wDone' = 0
    BY <1>2 DEF PutEnd
  <2>2. QED
    BY <2>1 DEF Written
<1>3. ASSUME NEW samples \in 0..N, NEW padding \in 0..N, PutBegin(samples, padding)
      PROVE Written'
  <2>1. wDone' = 0
    BY <1>3 DEF PutBegin
  <2>2. QED
    BY <2>1 DEF Written
<1>4. ASSUME NEW samples \in 1..N, ClearBegin(samples) PROVE Written'
  <2>1. wDone' = 0
    BY <1>4 DEF ClearBegin
  <2>2. QED
    BY <2>1 DEF Written
<1>5. ASSUME NEW size \in 1..N, Unput(size) PROVE Written'
  <2>1. wDone = 0 /\ wDone' = wDone
    BY <1>0, <1>5, Facts DEF Unput, Copies
  <2>2. QED
    BY <2>1 DEF Written
<1>6. CASE AvailForPut \/ Flush
  BY <1>0, <1>6 DEF AvailForPut, Flush, shared, Written, Advance
<1>7. CASE AvailForGet \/ GetSample \/ GetEnd
  BY <1>0, <1>7 DEF AvailForGet, GetSample, GetEnd, shared, writer, Written, Advance
<1>8. ASSUME NEW samples \in 0..N, GetBegin(samples) \/ Discard(samples) PROVE Written'
  BY <1>0, <1>8 DEF GetBegin, Discard, shared, writer, Written, Advance
<1>9. CASE UNCHANGED vars
  BY <1>0, <1>9 DEF vars, writer, Written, Advance
<1>10. QED
  BY <1>1, <1>2, <1>3, <1>4, <1>5, <1>6, <1>7, <1>8, <1>9 DEF Next, WriterStep, ReaderStep

LEMMA QueueInvAlways == Spec => []QueueInv
<1>1. Init => Written
  BY DEF Init, Written
<1>2. Init => QueueInv
  BY <1>1, InitInv DEF QueueInv
<1>3. QueueInv /\ [Next]_vars => QueueInv'
  BY NextInv, WrittenStep DEF QueueInv
<1>4. QED
  BY <1>2, <1>3, PTL DEF Spec

-----------------------------------------------------------------------------
(* A Put takes effect at its end.                                          *)
LEMMA PutEndRefines == QueueInv /\ PutEnd => Queue!Next
<1> SUFFICES ASSUME QueueInv, PutEnd PROVE Queue!Next
  OBVIOUS
<1>0. Inv /\ Written
  BY DEF QueueInv
<1>1. /\ wDone = wCopy + wPad /\ mWritten' = Advance(mWritten, wDone)
      /\ next' = next + wCopy /\ UNCHANGED <<buffer, mStart, mEnd>>
  BY DEF PutEnd, shared, wPos
<1>2. Inv' /\ buffer' = buffer
  BY <1>0, <1>1, PutEndStep
<1>3. /\ wCopy \in 0..N /\ wPad \in 0..N /\ mWritten \in Cells /\ mEnd \in Cells
  BY <1>0, Facts
<1>4. /\ Dist(mEnd, mWritten) \in 0..N /\ Dist(mStart, mEnd) \in 0..N
      /\ Dist(mStart, mEnd) + Dist(mEnd, mWritten) + wCopy + wPad <= N - Gap
      /\ Pending \in Seq(Nat) /\ Len(Pending) = Dist(mEnd, mWritten)
      /\ Ready \in Seq(Nat) /\ Len(Ready) = Dist(mStart, mEnd)
      /\ \A i \in 1..Dist(mEnd, mWritten) : Pending[i] = buffer[Move(mEnd, i - 1)]
  BY <1>0, QueueFacts
<1>5. Dist(mEnd, mWritten) + wDone < N /\ wDone \in 0..N
  BY <1>1, <1>3, <1>4, SizesAssumption
<1>a. /\ wCopy \in Nat /\ wPad \in Nat /\ Dist(mEnd, mWritten) \in Nat
      /\ Dist(mEnd, mWritten) + wCopy \in Nat
  BY <1>3, <1>4, SizesAssumption
<1>6. mWritten' = Move(mWritten, wDone)
  BY <1>1, <1>3, <1>5, AdvanceIsMove
<1>7. Dist(mEnd, mWritten') = Dist(mEnd, mWritten) + wDone
  BY <1>3, <1>5, <1>6, DistOfMove
<1>8. /\ Pending' \in Seq(Nat)
      /\ Len(Pending') = Dist(mEnd, mWritten) + wDone
      /\ \A i \in 1..Dist(mEnd, mWritten) + wDone : Pending'[i] = buffer[Move(mEnd, i - 1)]
  <2>1. /\ (Pending \in Seq(Nat))'
        /\ (Len(Pending) = Dist(mEnd, mWritten))'
        /\ (\A i \in 1..Dist(mEnd, mWritten) : Pending[i] = buffer[Move(mEnd, i - 1)])'
    BY <1>2, QueueFacts, PTL
  <2>2. QED
    BY <1>1, <1>7, <2>1 DEF Dist, Move
<1>9. next \in Nat
  BY <1>0, SizesAssumption DEF Inv, TypeOK
<1> DEFINE S == Queue!Serials(next, wCopy)
           Z == Queue!Zeros(wPad)
<1>10. /\ S \in Seq(Nat) /\ Len(S) = wCopy
       /\ \A i \in 1..wCopy : S[i] = next + i - 1
       /\ Z \in Seq(Nat) /\ Len(Z) = wPad
       /\ \A i \in 1..wPad : Z[i] = 0
  <2>1. wCopy \in Nat /\ wPad \in Nat
    BY <1>3, SizesAssumption
  <2>2. QED
    BY <1>9, <2>1, SerialsType, ZerosType
<1> HIDE DEF S, Z
<1>11. /\ Pending \o S \in Seq(Nat) /\ Len(Pending \o S) = Dist(mEnd, mWritten) + wCopy
       /\ \A i \in 1..Dist(mEnd, mWritten) + wCopy : (Pending \o S)[i] =
            IF i <= Dist(mEnd, mWritten) THEN Pending[i] ELSE S[i - Dist(mEnd, mWritten)]
  <2>1. /\ Pending \in Seq(Nat) /\ Len(Pending) = Dist(mEnd, mWritten)
        /\ S \in Seq(Nat) /\ Len(S) = wCopy
    BY <1>4, <1>10
  <2>2. /\ Pending \o S \in Seq(Nat)
        /\ Len(Pending \o S) = Len(Pending) + Len(S)
        /\ \A i \in 1..Len(Pending) + Len(S) : (Pending \o S)[i] =
             IF i <= Len(Pending) THEN Pending[i] ELSE S[i - Len(Pending)]
    BY <2>1, Concatenation
  <2>3. QED
    BY <2>1, <2>2
<1>12. /\ (Pending \o S) \o Z \in Seq(Nat)
       /\ Len((Pending \o S) \o Z) = Dist(mEnd, mWritten) + wCopy + wPad
       /\ \A i \in 1..Dist(mEnd, mWritten) + wCopy + wPad : ((Pending \o S) \o Z)[i] =
            IF i <= Dist(mEnd, mWritten) + wCopy
            THEN (Pending \o S)[i] ELSE Z[i - (Dist(mEnd, mWritten) + wCopy)]
  <2>1. /\ Pending \o S \in Seq(Nat) /\ Len(Pending \o S) = Dist(mEnd, mWritten) + wCopy
        /\ Z \in Seq(Nat) /\ Len(Z) = wPad
    BY <1>10, <1>11
  <2> DEFINE T == Pending \o S
  <2>2. /\ T \o Z \in Seq(Nat)
        /\ Len(T \o Z) = Len(T) + Len(Z)
        /\ \A i \in 1..Len(T) + Len(Z) : (T \o Z)[i] =
             IF i <= Len(T) THEN T[i] ELSE Z[i - Len(T)]
    BY <2>1, Concatenation
  <2>3. QED
    BY <2>1, <2>2
<1>13. ASSUME NEW i \in 1..Dist(mEnd, mWritten) + wDone
       PROVE Pending'[i] = ((Pending \o S) \o Z)[i]
  <2>0. /\ i \in 1..Dist(mEnd, mWritten) + wCopy + wPad /\ i \in Nat
        /\ Pending'[i] = buffer[Move(mEnd, i - 1)]
    BY <1>1, <1>3, <1>4, <1>8
  <2>1. CASE i <= Dist(mEnd, mWritten)
    <3>1. i \in 1..Dist(mEnd, mWritten) /\ i <= Dist(mEnd, mWritten) + wCopy
          /\ i \in 1..Dist(mEnd, mWritten) + wCopy
      BY <1>3, <1>4, <2>0, <2>1, SizesAssumption
    <3>2. QED
      BY <1>4, <1>11, <1>12, <2>0, <2>1, <3>1
  <2>2. CASE ~(i <= Dist(mEnd, mWritten))
    <3> DEFINE d == i - 1 - Dist(mEnd, mWritten)
    <3>1. /\ d \in 0..wDone - 1 /\ d \in 0..N /\ d \in Nat
          /\ Dist(mEnd, mWritten) + d < N
          /\ Dist(mEnd, mWritten) + d = i - 1
      <4>1. i \in Nat /\ i <= Dist(mEnd, mWritten) + wDone
        BY <1>5, <1>a
      <4>2. wDone \in Nat
        BY <1>5
      <4>3. QED
        BY <1>5, <1>a, <2>2, <4>1, <4>2, SizesAssumption
    <3> HIDE DEF d
    <3>2. Move(mEnd, i - 1) = Move(mWritten, d)
      BY <1>3, <3>1, MoveBeyond
    <3>3. Advance(mWritten, d) = Move(mWritten, d)
      BY <1>3, <3>1, AdvanceIsMove
    <3>4. Pending'[i] = IF d < wCopy THEN next + d ELSE Silence
      BY <1>0, <2>0, <3>1, <3>2, <3>3 DEF Written
    <3>5. CASE d < wCopy
      <4>1. /\ i \in 1..Dist(mEnd, mWritten) + wCopy /\ i <= Dist(mEnd, mWritten) + wCopy
            /\ i - Dist(mEnd, mWritten) \in 1..wCopy
            /\ next + (i - Dist(mEnd, mWritten)) - 1 = next + d
        BY <1>a, <1>9, <2>0, <2>2, <3>1, <3>5
      <4>2. ((Pending \o S) \o Z)[i] = S[i - Dist(mEnd, mWritten)]
        BY <1>11, <1>12, <2>0, <2>2, <4>1
      <4>3. QED
        BY <1>10, <3>4, <3>5, <4>1, <4>2
    <3>6. CASE ~(d < wCopy)
      <4>1. /\ ~(i <= Dist(mEnd, mWritten) + wCopy)
            /\ i - (Dist(mEnd, mWritten) + wCopy) \in 1..wPad
        BY <1>1, <1>a, <2>0, <2>2, <3>1, <3>6
      <4>2. ((Pending \o S) \o Z)[i] = Z[i - (Dist(mEnd, mWritten) + wCopy)]
        BY <1>12, <2>0, <4>1
      <4>3. QED
        BY <1>10, <3>4, <3>6, <4>1, <4>2 DEF Silence
    <3>7. QED
      BY <3>5, <3>6
  <2>3. QED
    BY <2>1, <2>2
<1>14. Pending' = (Pending \o S) \o Z
  <2>1. Len(Pending') = Len((Pending \o S) \o Z)
    BY <1>1, <1>3, <1>4, <1>8, <1>12, SizesAssumption
  <2>2. \A i \in 1..Len(Pending') : Pending'[i] = ((Pending \o S) \o Z)[i]
    BY <1>8, <1>13
  <2>3. QED
    BY <1>8, <1>12, <2>1, <2>2, SeqEqual
<1>15. Ready' = Ready
  BY <1>1 DEF Ready, Contents, Filled, Advance
<1>16. wCopy \in 0..N - Gap /\ wPad \in 0..N - Gap
       /\ wCopy + wPad <= (N - Gap) - Len(Ready) - Len(Pending)
  BY <1>3, <1>4, SizesAssumption
<1>17. Queue!Put(wCopy, wPad)
  BY <1>1, <1>14, <1>15, <1>16 DEF Queue!Put, Queue!Room, S, Z, Pending, Ready
<1>18. QED
  BY <1>16, <1>17 DEF Queue!Next

(* Unput moves each unflushed sample `size' places towards mEnd, whether   *)
(* they lie in one piece or wrap around.                                   *)
LEMMA ShiftedMoves ==
  ASSUME Inv, NEW size \in 1..N, size <= Dist(mEnd, mWritten),
         NEW j \in 0..N, j + size < Dist(mEnd, mWritten)
  PROVE Shifted(size)[Move(mEnd, j)] = buffer[Move(mEnd, j + size)]
<1>1. /\ buffer \in [Cells -> Nat] /\ mEnd \in 0..N - 1 /\ mWritten \in 0..N - 1
  BY DEF Inv, TypeOK, Cells
<1>0. Move(mEnd, j) \in Cells /\ Move(mEnd, j) \in Int
  BY <1>1, SizesAssumption DEF Move, Cells, Dist
<1>2. CASE mEnd >= mWritten
  <2> DEFINE source == Least(mEnd + size, N)
             count == N - source
             end == mEnd + count
             rest == size - (source - mEnd)
             toMove1 == Least(mWritten - rest, N - end)
             toMove2 == mWritten - rest - toMove1
             first == Memmove(buffer, mEnd, source, count)
             second == Memmove(first, end, rest, toMove1)
             third == Memmove(second, 0, rest + toMove1, toMove2)
             c == Move(mEnd, j)
  <2>1. mEnd > mWritten /\ size <= mWritten + N - mEnd /\ j + size < mWritten + N - mEnd
    BY <1>1, <1>2, SizesAssumption DEF Dist
  <2>2. /\ source \in Nat /\ count \in Nat /\ source + count <= N
        /\ end \in Nat /\ mEnd <= end /\ end <= N
        /\ rest \in Nat /\ rest <= mWritten
    BY <1>1, <2>1, SizesAssumption DEF Least
  <2>3. /\ toMove1 \in Nat /\ toMove2 \in Nat
        /\ toMove1 <= mWritten - rest /\ rest + toMove1 + toMove2 <= mWritten
    BY <1>1, <2>1, <2>2, SizesAssumption DEF Least
  <2>4. first \in [Cells -> Nat] /\ second \in [Cells -> Nat]
    <3>1. first \in [Cells -> Nat]
      BY <1>1, <2>2, MemmoveType
    <3>2. rest + toMove1 <= N
      BY <1>1, <2>2, <2>3, SizesAssumption
    <3>3. QED
      BY <2>2, <2>3, <3>1, <3>2, MemmoveType
  <2>5. Shifted(size) = third
    BY <1>2 DEF Shifted
  <2>6. c \in Cells /\ c \in Int /\ Move(mEnd, j) = c
    BY <1>0
  <2>7. \A i \in Cells :
          /\ first[i] = IF mEnd <= i /\ i < mEnd + count THEN buffer[source + (i - mEnd)] ELSE buffer[i]
          /\ second[i] = IF end <= i /\ i < end + toMove1 THEN first[rest + (i - end)] ELSE first[i]
          /\ third[i] = IF 0 <= i /\ i < 0 + toMove2
                        THEN second[rest + toMove1 + (i - 0)] ELSE second[i]
    BY <1>1, <2>4 DEF Memmove
  <2>8. CASE c >= mEnd /\ c < end
    <3>1. /\ ~(0 <= c /\ c < 0 + toMove2) /\ ~(end <= c /\ c < end + toMove1)
          /\ mEnd <= c /\ c < mEnd + count
      BY <1>1, <2>1, <2>2, <2>3, <2>6, <2>8, SizesAssumption
    <3>2. third[c] = buffer[source + (c - mEnd)]
      BY <2>6, <2>7, <3>1
    <3>3. source + (c - mEnd) = Move(mEnd, j + size)
      BY <1>1, <2>1, <2>8, SizesAssumption DEF Move, Least
    <3>4. QED
      BY <2>5, <3>2, <3>3
  <2>9. CASE c >= end
    <3>1. /\ ~(0 <= c /\ c < 0 + toMove2) /\ end <= c /\ c < end + toMove1
          /\ rest + (c - end) = Move(mEnd, j + size)
      BY <1>1, <2>1, <2>9, SizesAssumption DEF Move, Least
    <3> HIDE DEF source, count, end, rest, toMove1, toMove2, first, second, third, c
    <3>2. /\ rest + (c - end) \in Cells
          /\ ~(mEnd <= rest + (c - end) /\ rest + (c - end) < mEnd + count)
      <4>1. rest + (c - end) \in Nat /\ rest + (c - end) < mEnd
        BY <1>1, <2>1, <2>2, <2>3, <2>6, <2>9, <3>1
      <4>2. QED
        BY <1>1, <4>1, SizesAssumption DEF Cells
    <3>3. third[c] = first[rest + (c - end)]
      BY <2>6, <2>7, <3>1
    <3>4. first[rest + (c - end)] = buffer[rest + (c - end)]
      BY <2>7, <3>2
    <3>5. QED
      BY <2>5, <2>6, <3>1, <3>3, <3>4
  <2>10. CASE c < mEnd
    <3>1. /\ 0 <= c /\ c < 0 + toMove2
          /\ rest + toMove1 + (c - 0) = Move(mEnd, j + size)
      BY <1>1, <2>1, <2>10, SizesAssumption DEF Move, Least
    <3> HIDE DEF source, count, end, rest, toMove1, toMove2, first, second, third, c
    <3> DEFINE e == rest + toMove1 + (c - 0)
    <3>a. e \in Nat /\ e < mWritten
      BY <1>1, <2>2, <2>3, <2>6, <3>1
    <3>2. e \in Cells /\ e < mWritten
      BY <1>1, <3>a, SizesAssumption DEF Cells
    <3>3. ~(end <= e /\ e < end + toMove1) /\ ~(mEnd <= e /\ e < mEnd + count)
      <4> HIDE DEF e
      <4>1. QED
        BY <1>1, <2>1, <2>2, <2>3, <3>a
    <3>4. third[c] = second[e]
      BY <2>6, <2>7, <3>1
    <3>5. second[e] = buffer[e]
      BY <2>7, <3>2, <3>3
    <3>6. QED
      BY <2>5, <2>6, <3>1, <3>4, <3>5
  <2>11. QED
    BY <1>1, <2>2, <2>6, <2>8, <2>9, <2>10
<1>3. CASE ~(mEnd >= mWritten)
  <2> DEFINE source == Least(mEnd + size, mWritten)
             count == mWritten - source
  <2>1. Shifted(size) = Memmove(buffer, mEnd, source, count)
    BY <1>3 DEF Shifted
  <2>2. /\ Move(mEnd, j) = mEnd + j /\ Move(mEnd, j + size) = mEnd + j + size
        /\ mEnd <= mEnd + j /\ mEnd + j < mEnd + count
        /\ source + (mEnd + j - mEnd) = mEnd + j + size
    BY <1>1, <1>3, SizesAssumption DEF Move, Least, Dist
  <2>3. Memmove(buffer, mEnd, source, count)[mEnd + j] = buffer[source + (mEnd + j - mEnd)]
    BY <1>0, <1>1, <2>2 DEF Memmove
  <2>4. QED
    BY <2>1, <2>2, <2>3
<1>4. QED
  BY <1>2, <1>3

LEMMA TailOf ==
  ASSUME NEW s \in Seq(Nat), NEW t \in Seq(Nat), NEW k \in 0..Len(s),
         Len(t) = Len(s) - k, \A i \in 1..Len(s) - k : t[i] = s[i + k]
  PROVE t = SubSeq(s, k + 1, Len(s))
<1>1. Len(s) \in Nat /\ k \in Nat
  BY LenProperties
<1>2. \A i \in k + 1..Len(s) : s[i] \in Nat
  <2>1. ASSUME NEW i \in k + 1..Len(s) PROVE s[i] \in Nat
    <3>1. i \in 1..Len(s)
      BY <1>1
    <3>2. QED
      BY <3>1, ElementOfSeq
  <2>2. QED
    BY <2>1
<1> DEFINE u == SubSeq(s, k + 1, Len(s))
<1>3. /\ u \in Seq(Nat)
      /\ Len(u) = IF k + 1 <= Len(s) THEN Len(s) - (k + 1) + 1 ELSE 0
      /\ \A i \in 1..Len(s) - (k + 1) + 1 : u[i] = s[k + 1 + i - 1]
  <2>1. k + 1 \in Int /\ Len(s) \in Int
    BY <1>1
  <2>2. QED
    BY <1>1, <1>2, <2>1
<1> HIDE DEF u
<1>4. Len(u) = Len(s) - k
  BY <1>1, <1>3
<1>5. ASSUME NEW i \in 1..Len(t) PROVE t[i] = u[i]
  <2>1. i \in 1..Len(s) - k /\ i \in 1..Len(s) - (k + 1) + 1 /\ k + 1 + i - 1 = i + k
    BY <1>1
  <2>2. QED
    BY <1>3, <2>1
<1>6. t = u
  BY <1>3, <1>4, <1>5, SeqEqual
<1>7. QED
  BY <1>6 DEF u

LEMMA UnputRefines ==
  ASSUME QueueInv, NEW size \in 1..N, Unput(size)
  PROVE Queue!Next
<1>0. Inv
  BY DEF QueueInv
<1>1. /\ size <= Filled(mEnd, mWritten) /\ buffer' = Shifted(size)
      /\ mWritten' = Advance(mWritten, N - size)
      /\ UNCHANGED <<mStart, mEnd, next>>
  BY DEF Unput
<1>2. Inv'
  BY <1>0, UnputStep
<1>3. /\ Filled(mEnd, mWritten) = Dist(mEnd, mWritten)
      /\ Dist(mEnd, mWritten) \in 0..N /\ Dist(mStart, mEnd) \in 0..N
      /\ Pending \in Seq(Nat) /\ Len(Pending) = Dist(mEnd, mWritten)
      /\ \A i \in 1..Dist(mEnd, mWritten) : Pending[i] = buffer[Move(mEnd, i - 1)]
  BY <1>0, QueueFacts
<1>a. Dist(mStart, mEnd) + Dist(mEnd, mWritten) + wCopy + wPad <= N - Gap
      /\ wCopy \in 0..N /\ wPad \in 0..N /\ mEnd \in Cells /\ mWritten \in Cells
  BY <1>0, QueueFacts, Facts
<1>4. size \in 0..Dist(mEnd, mWritten) /\ N - size \in 0..N /\ size \in 0..N - Gap
  BY <1>1, <1>3, <1>a, SizesAssumption
<1>5. Dist(mEnd, mWritten') = Dist(mEnd, mWritten) - size
  BY <1>1, <1>4, <1>a, AdvanceIsMove, MoveBack
<1>6. /\ Pending' \in Seq(Nat)
      /\ Len(Pending') = Dist(mEnd, mWritten) - size
      /\ \A i \in 1..Dist(mEnd, mWritten) - size : Pending'[i] = Shifted(size)[Move(mEnd, i - 1)]
  <2>1. /\ (Pending \in Seq(Nat))'
        /\ (Len(Pending) = Dist(mEnd, mWritten))'
        /\ (\A i \in 1..Dist(mEnd, mWritten) : Pending[i] = buffer[Move(mEnd, i - 1)])'
    BY <1>2, QueueFacts, PTL
  <2>2. QED
    BY <1>1, <1>5, <2>1 DEF Dist, Move
<1>7. ASSUME NEW i \in 1..Dist(mEnd, mWritten) - size
      PROVE Pending'[i] = Pending[i + size]
  <2>1. /\ i - 1 \in 0..N /\ (i - 1) + size < Dist(mEnd, mWritten)
        /\ i + size \in 1..Dist(mEnd, mWritten) /\ (i - 1) + size = (i + size) - 1
        /\ size <= Dist(mEnd, mWritten)
    BY <1>3, <1>4, SizesAssumption
  <2>2. Shifted(size)[Move(mEnd, i - 1)] = buffer[Move(mEnd, (i - 1) + size)]
    BY <1>0, <2>1, ShiftedMoves
  <2>3. Pending[i + size] = buffer[Move(mEnd, (i + size) - 1)]
    BY <1>3, <2>1
  <2>4. QED
    BY <1>6, <2>1, <2>2, <2>3
<1>8. Pending' = SubSeq(Pending, size + 1, Len(Pending))
  BY <1>3, <1>4, <1>6, <1>7, TailOf
<1>9. Ready' = Ready
  <2>1. \A k \in 1..Filled(mStart, mEnd) :
          buffer'[Advance(mStart, k - 1)] = buffer[Advance(mStart, k - 1)]
    <3>1. ASSUME NEW k \in 1..Filled(mStart, mEnd)
          PROVE buffer'[Advance(mStart, k - 1)] = buffer[Advance(mStart, k - 1)]
      <4>1. k - 1 \in 0..Filled(mStart, mEnd) - 1
        <5>1. Filled(mStart, mEnd) \in 0..N
          BY <1>0, QueueFacts
        <5>2. QED
          BY <5>1, SizesAssumption
      <4>2. /\ Advance(mStart, k - 1) \in Cells
            /\ Dist(wStart, Advance(mStart, k - 1)) < Dist(wStart, mEnd)
        BY <1>0, <4>1, ReadyCell
      <4>3. QED
        BY <1>0, <1>1, <1>3, <4>2, ShiftedType
    <3>2. QED
      BY <3>1
  <2>2. QED
    BY <1>1, <2>1 DEF Ready, Contents, Filled, Advance
<1>10. Queue!Unput(size)
  BY <1>1, <1>3, <1>4, <1>8, <1>9 DEF Queue!Unput, Pending, Ready
<1>11. QED
  BY <1>4, <1>10 DEF Queue!Next

LEMMA FlushRefines == QueueInv /\ Flush => Queue!Next
<1> SUFFICES ASSUME QueueInv, Flush PROVE Queue!Next
  OBVIOUS
<1>0. Inv
  BY DEF QueueInv
<1>1. /\ mEnd' = mWritten /\ UNCHANGED <<buffer, mStart, mWritten, next>>
  BY DEF Flush
<1>2. Inv'
  BY <1>0, FlushStep
<1>3. /\ Dist(mEnd, mWritten) \in 0..N /\ Dist(mStart, mEnd) \in 0..N
      /\ Pending \in Seq(Nat) /\ Len(Pending) = Dist(mEnd, mWritten)
      /\ Ready \in Seq(Nat) /\ Len(Ready) = Dist(mStart, mEnd)
      /\ \A i \in 1..Dist(mEnd, mWritten) : Pending[i] = buffer[Move(mEnd, i - 1)]
      /\ \A i \in 1..Dist(mStart, mEnd) : Ready[i] = buffer[Move(mStart, i - 1)]
  BY <1>0, QueueFacts
<1>4. /\ mStart \in Cells /\ mEnd \in Cells /\ mWritten \in Cells
      /\ Dist(wStart, mWritten) \in 0..N - 1 /\ Dist(wStart, mEnd) \in 0..N - 1
      /\ Dist(wStart, mStart) \in 0..N - 1
      /\ Dist(mStart, mEnd) = Dist(wStart, mEnd) - Dist(wStart, mStart)
      /\ Dist(mEnd, mWritten) = Dist(wStart, mWritten) - Dist(wStart, mEnd)
      /\ Dist(mStart, mWritten) = Dist(wStart, mWritten) - Dist(wStart, mStart)
  BY <1>0, Facts
<1>5. /\ Dist(mStart, mWritten) = Dist(mStart, mEnd) + Dist(mEnd, mWritten)
      /\ Dist(mStart, mWritten) < N
      /\ Dist(mStart, mEnd) \in Nat /\ Dist(mEnd, mWritten) \in Nat
  BY <1>3, <1>4, SizesAssumption
<1>6. /\ Ready' \in Seq(Nat)
      /\ Len(Ready') = Dist(mStart, mWritten)
      /\ \A i \in 1..Dist(mStart, mWritten) : Ready'[i] = buffer[Move(mStart, i - 1)]
      /\ Pending' \in Seq(Nat) /\ Len(Pending') = 0
  <2>1. /\ (Ready \in Seq(Nat))'
        /\ (Len(Ready) = Dist(mStart, mEnd))'
        /\ (\A i \in 1..Dist(mStart, mEnd) : Ready[i] = buffer[Move(mStart, i - 1)])'
        /\ (Pending \in Seq(Nat))'
        /\ (Len(Pending) = Dist(mEnd, mWritten))'
    BY <1>2, QueueFacts, PTL
  <2>2. Dist(mEnd', mWritten') = 0
    BY <1>1, <1>4 DEF Dist, Cells
  <2>3. QED
    BY <1>1, <2>1, <2>2 DEF Dist, Move
<1>7. /\ Ready \o Pending \in Seq(Nat)
      /\ Len(Ready \o Pending) = Len(Ready) + Len(Pending)
      /\ \A i \in 1..Len(Ready) + Len(Pending) : (Ready \o Pending)[i] =
           IF i <= Len(Ready) THEN Ready[i] ELSE Pending[i - Len(Ready)]
  BY <1>3, Concatenation
<1>8. ASSUME NEW i \in 1..Dist(mStart, mWritten)
      PROVE Ready'[i] = (Ready \o Pending)[i]
  <2>1. i \in 1..Len(Ready) + Len(Pending) /\ i \in Nat
    BY <1>3, <1>5
  <2>2. CASE i <= Dist(mStart, mEnd)
    <3>1. i \in 1..Dist(mStart, mEnd)
      BY <1>5, <2>1, <2>2
    <3>2. QED
      BY <1>3, <1>6, <1>7, <2>1, <2>2, <3>1
  <2>3. CASE ~(i <= Dist(mStart, mEnd))
    <3> DEFINE d == i - Dist(mStart, mEnd) - 1
    <3>1. /\ d \in 0..N /\ d + 1 \in 1..Dist(mEnd, mWritten)
          /\ Dist(mStart, mEnd) + d = i - 1 /\ Dist(mStart, mEnd) + d < N
          /\ i - Dist(mStart, mEnd) = d + 1 /\ (d + 1) - 1 = d
      BY <1>5, <2>1, <2>3, SizesAssumption
    <3> HIDE DEF d
    <3>2. Move(mStart, i - 1) = Move(mEnd, d)
      BY <1>4, <3>1, MoveBeyond
    <3>3. Pending[d + 1] = buffer[Move(mEnd, d)]
      BY <1>3, <3>1
    <3>4. (Ready \o Pending)[i] = Pending[d + 1]
      BY <1>3, <1>7, <2>1, <2>3, <3>1
    <3>5. QED
      BY <1>6, <3>2, <3>3, <3>4
  <2>4. QED
    BY <2>2, <2>3
<1>9. Ready' = Ready \o Pending
  <2>1. Len(Ready') = Len(Ready \o Pending)
    BY <1>3, <1>5, <1>6, <1>7
  <2>2. \A i \in 1..Len(Ready') : Ready'[i] = (Ready \o Pending)[i]
    BY <1>6, <1>8
  <2>3. QED
    BY <1>6, <1>7, <2>1, <2>2, SeqEqual
<1>10. Pending' = <<>>
  BY <1>6
<1>11. Queue!Flush
  BY <1>1, <1>9, <1>10 DEF Queue!Flush, Pending, Ready
<1>12. QED
  BY <1>11 DEF Queue!Next

(* A Get and a Discard consume the k oldest flushed samples.               *)
LEMMA ConsumeRefines ==
  ASSUME Inv, Inv', NEW k \in 0..Dist(mStart, mEnd), mStart' = Advance(mStart, k),
         UNCHANGED <<buffer, mEnd, mWritten, next>>
  PROVE Queue!Next
<1>1. /\ Dist(mStart, mEnd) \in 0..N /\ Dist(mEnd, mWritten) \in 0..N
      /\ Dist(mStart, mEnd) + Dist(mEnd, mWritten) + wCopy + wPad <= N - Gap
      /\ Ready \in Seq(Nat) /\ Len(Ready) = Dist(mStart, mEnd)
      /\ \A i \in 1..Dist(mStart, mEnd) : Ready[i] = buffer[Move(mStart, i - 1)]
  BY QueueFacts
<1>2. mStart \in Cells /\ mEnd \in Cells /\ wCopy \in 0..N /\ wPad \in 0..N
  BY Facts
<1>3. k \in 0..N /\ k \in 0..N - Gap /\ k \in 0..Len(Ready)
  BY <1>1, <1>2, SizesAssumption
<1>4. mStart' = Move(mStart, k)
  BY <1>2, <1>3, AdvanceIsMove
<1>5. Dist(mStart', mEnd) = Dist(mStart, mEnd) - k
  BY <1>2, <1>4, DistFromMove
<1>6. /\ Ready' \in Seq(Nat)
      /\ Len(Ready') = Dist(mStart, mEnd) - k
      /\ \A i \in 1..Dist(mStart, mEnd) - k : Ready'[i] = buffer[Move(mStart', i - 1)]
  <2>1. /\ (Ready \in Seq(Nat))'
        /\ (Len(Ready) = Dist(mStart, mEnd))'
        /\ (\A i \in 1..Dist(mStart, mEnd) : Ready[i] = buffer[Move(mStart, i - 1)])'
    BY QueueFacts, PTL
  <2>2. QED
    BY <1>5, <2>1 DEF Dist, Move
<1>7. ASSUME NEW i \in 1..Dist(mStart, mEnd) - k
      PROVE Ready'[i] = Ready[i + k]
  <2>1. /\ i - 1 \in 0..N /\ k + (i - 1) < N /\ k + (i - 1) = (i + k) - 1
        /\ i + k \in 1..Dist(mStart, mEnd)
    <3>1. Dist(mStart, mEnd) \in 0..N - 1 /\ k \in 0..N
      BY <1>2, <1>3, DistType
    <3>2. QED
      BY <3>1, SizesAssumption
  <2>2. Move(Move(mStart, k), i - 1) = Move(mStart, k + (i - 1))
    BY <1>2, <1>3, <2>1, MoveTwice
  <2>3. Ready[i + k] = buffer[Move(mStart, (i + k) - 1)]
    BY <1>1, <2>1
  <2>4. QED
    BY <1>4, <1>6, <2>1, <2>2, <2>3
<1>8. Ready' = SubSeq(Ready, k + 1, Len(Ready))
  BY <1>1, <1>3, <1>6, <1>7, TailOf
<1>9. Pending' = Pending
  BY DEF Pending, Contents, Filled, Advance
<1>10. Queue!Consume(k)
  BY <1>3, <1>8, <1>9 DEF Queue!Consume, Pending, Ready
<1>11. QED
  BY <1>3, <1>10 DEF Queue!Next

LEMMA GetEndRefines == QueueInv /\ GetEnd => Queue!Next
<1> SUFFICES ASSUME QueueInv, GetEnd PROVE Queue!Next
  OBVIOUS
<1>1. Inv
  BY DEF QueueInv
<1>2. /\ rpc = "get" /\ Len(dest) = rCopy /\ mStart' = Advance(mStart, rCopy)
      /\ UNCHANGED <<buffer, mEnd, mWritten, next>>
  BY DEF GetEnd, writer, rPos
<1>3. Inv'
  BY <1>1, GetEndStep
<1>4. rCopy \in 0..Dist(mStart, mEnd)
  <2>1. /\ rCopy \in 0..N /\ Dist(wStart, mStart) \in 0..N - 1
        /\ Dist(wStart, rEnd) \in 0..N - 1 /\ Dist(wStart, mEnd) \in 0..N - 1
        /\ Dist(mStart, rEnd) = Dist(wStart, rEnd) - Dist(wStart, mStart)
        /\ Dist(mStart, mEnd) = Dist(wStart, mEnd) - Dist(wStart, mStart)
    BY <1>1, Facts
  <2>2. rCopy <= Dist(mStart, rEnd) /\ Dist(wStart, rEnd) <= Dist(wStart, mEnd)
    BY <1>1, Facts DEF Copies, Order
  <2>3. QED
    BY <2>1, <2>2, SizesAssumption
<1>5. QED
  BY <1>1, <1>2, <1>3, <1>4, ConsumeRefines

LEMMA DiscardRefines ==
  ASSUME QueueInv, NEW samples \in 0..N, Discard(samples)
  PROVE Queue!Next
<1> DEFINE k == Least(samples, Filled(mStart, rEnd'))
<1>1. Inv
  BY DEF QueueInv
<1>2. /\ rEnd' \in EndSeen /\ mStart' = Advance(mStart, k)
      /\ UNCHANGED <<buffer, mEnd, mWritten, next>>
  BY DEF Discard, writer
<1>3. Inv'
  BY <1>1, DiscardStep
<1>4. k \in 0..Dist(mStart, mEnd)
  <2>1. /\ rEnd' \in Cells /\ Dist(wStart, rEnd') <= Dist(wStart, mEnd)
        /\ Dist(mStart, rEnd') \in 0..N - 1
        /\ Dist(mStart, rEnd') = Dist(wStart, rEnd') - Dist(wStart, mStart)
    BY <1>1, <1>2, ReaderLoads
  <2>2. /\ Dist(wStart, mStart) \in 0..N - 1 /\ Dist(wStart, mEnd) \in 0..N - 1
        /\ Dist(mStart, mEnd) = Dist(wStart, mEnd) - Dist(wStart, mStart)
        /\ Dist(wStart, rEnd') \in 0..N - 1
        /\ Filled(mStart, rEnd') = Dist(mStart, rEnd')
    BY <1>1, <2>1, Facts, DistType, FilledIsDist
  <2>3. Filled(mStart, rEnd') <= Dist(mStart, mEnd) /\ Filled(mStart, rEnd') \in Nat
    BY <2>1, <2>2, SizesAssumption
  <2>4. QED
    BY <2>2, <2>3, SizesAssumption DEF Least
<1>5. QED
  BY <1>1, <1>2, <1>3, <1>4, ConsumeRefines

(* The step of a copy leaves the queue as it is.                           *)
LEMMA PutSampleRefines == QueueInv /\ PutSample => Pending' = Pending /\ Ready' = Ready
<1> SUFFICES ASSUME QueueInv, PutSample PROVE Pending' = Pending /\ Ready' = Ready
  OBVIOUS
<1>0. Inv
  BY DEF QueueInv
<1>1. /\ wDone \in 0..wCopy + wPad - 1 /\ wDone \in Nat
      /\ buffer' = [buffer EXCEPT ![Move(mWritten, wDone)] =
                      IF wDone < wCopy THEN next + wDone ELSE Silence]
      /\ buffer \in [Cells -> Nat]
      /\ UNCHANGED <<mStart, mEnd, mWritten>>
  BY <1>0, PutSampleFacts
<1>2. Dist(wStart, Move(mWritten, wDone)) = Dist(wStart, mWritten) + wDone
  BY <1>0, <1>1, PutCell
<1>3. ASSUME NEW i \in Cells, Dist(wStart, i) < Dist(wStart, mWritten)
      PROVE buffer'[i] = buffer[i]
  <2>1. Dist(wStart, i) \in 0..N - 1 /\ Dist(wStart, mWritten) \in 0..N - 1
    BY <1>0, Facts, DistType
  <2>2. i # Move(mWritten, wDone)
    BY <1>1, <1>2, <1>3, <2>1, SizesAssumption
  <2>3. QED
    BY <1>1, <2>2
<1>4. /\ mStart \in Cells /\ mEnd \in Cells /\ mWritten \in Cells /\ wStart \in Cells
      /\ Dist(wStart, mStart) \in 0..N - 1 /\ Dist(wStart, mEnd) \in 0..N - 1
      /\ Dist(wStart, mWritten) \in 0..N - 1
      /\ Dist(mStart, mEnd) = Dist(wStart, mEnd) - Dist(wStart, mStart)
      /\ Dist(mEnd, mWritten) = Dist(wStart, mWritten) - Dist(wStart, mEnd)
  BY <1>0, Facts
<1>5. Dist(wStart, mEnd) <= Dist(wStart, mWritten)
  BY <1>0, Facts DEF Order
<1>6. Filled(mEnd, mWritten) = Dist(mEnd, mWritten) /\ Filled(mStart, mEnd) = Dist(mStart, mEnd)
  BY <1>0, QueueFacts
<1>7. ASSUME NEW k \in 1..Filled(mEnd, mWritten)
      PROVE buffer'[Advance(mEnd, k - 1)] = buffer[Advance(mEnd, k - 1)]
  <2>1. /\ k - 1 \in 0..N /\ Dist(wStart, mEnd) + (k - 1) < N
        /\ Dist(wStart, mEnd) + (k - 1) < Dist(wStart, mWritten)
    BY <1>4, <1>6, SizesAssumption
  <2>2. Advance(mEnd, k - 1) = Move(mEnd, k - 1) /\ Move(mEnd, k - 1) \in Cells
    BY <1>4, <2>1, AdvanceIsMove
  <2>3. Dist(wStart, Move(mEnd, k - 1)) = Dist(wStart, mEnd) + (k - 1)
    BY <1>4, <2>1, DistOfMove
  <2>4. QED
    BY <1>3, <2>1, <2>2, <2>3
<1>8. ASSUME NEW k \in 1..Filled(mStart, mEnd)
      PROVE buffer'[Advance(mStart, k - 1)] = buffer[Advance(mStart, k - 1)]
  <2>1. /\ k - 1 \in 0..N /\ Dist(wStart, mStart) + (k - 1) < N
        /\ Dist(wStart, mStart) + (k - 1) < Dist(wStart, mWritten)
    BY <1>4, <1>5, <1>6, SizesAssumption
  <2>2. Advance(mStart, k - 1) = Move(mStart, k - 1) /\ Move(mStart, k - 1) \in Cells
    BY <1>4, <2>1, AdvanceIsMove
  <2>3. Dist(wStart, Move(mStart, k - 1)) = Dist(wStart, mStart) + (k - 1)
    BY <1>4, <2>1, DistOfMove
  <2>4. QED
    BY <1>3, <2>1, <2>2, <2>3
<1>9. QED
  BY <1>1, <1>7, <1>8 DEF Pending, Ready, Contents, Filled, Advance

LEMMA StepRefines == QueueInv /\ [Next]_vars => [Queue!Next]_(Queue!qvars)
<1> SUFFICES ASSUME QueueInv, [Next]_vars PROVE [Queue!Next]_(Queue!qvars)
  OBVIOUS
<1>1. ASSUME UNCHANGED <<buffer, mStart, mEnd, mWritten, next>>
      PROVE UNCHANGED Queue!qvars
  BY <1>1 DEF Queue!qvars, Contents, Filled, Advance
<1>2. CASE PutSample
  <2>1. next' = next
    BY <1>2 DEF PutSample
  <2>2. Pending' = Pending /\ Ready' = Ready
    BY <1>2, PutSampleRefines
  <2>3. QED
    BY <2>1, <2>2 DEF Queue!qvars, Pending, Ready
<1>3. CASE PutEnd \/ Flush \/ GetEnd
  BY <1>3, PutEndRefines, FlushRefines, GetEndRefines
<1>4. ASSUME NEW size \in 1..N, Unput(size) PROVE Queue!Next
  BY <1>4, UnputRefines
<1>5. ASSUME NEW samples \in 0..N, Discard(samples) PROVE Queue!Next
  BY <1>5, DiscardRefines
<1>6. CASE AvailForPut \/ AvailForGet \/ GetSample
  BY <1>1, <1>6 DEF AvailForPut, AvailForGet, GetSample, shared, writer
<1>7. ASSUME NEW samples \in 0..N, NEW padding \in 0..N, PutBegin(samples, padding)
      PROVE UNCHANGED Queue!qvars
  BY <1>1, <1>7 DEF PutBegin, shared
<1>8. ASSUME NEW samples \in 1..N, ClearBegin(samples) PROVE UNCHANGED Queue!qvars
  BY <1>1, <1>8 DEF ClearBegin, shared
<1>9. ASSUME NEW samples \in 0..N, GetBegin(samples) PROVE UNCHANGED Queue!qvars
  BY <1>1, <1>9 DEF GetBegin, shared, writer
<1>10. CASE UNCHANGED vars
  BY <1>1, <1>10 DEF vars, writer
<1>11. QED
  BY <1>2, <1>3, <1>4, <1>5, <1>6, <1>7, <1>8, <1>9, <1>10 DEF Next, WriterStep, ReaderStep

LEMMA InitRefines == Init => Queue!Init
<1> SUFFICES ASSUME Init PROVE Queue!Init
  OBVIOUS
<1>1. Inv /\ mStart = 0 /\ mEnd = 0 /\ mWritten = 0 /\ next = 1
  BY InitInv DEF Init
<1>2. Dist(0, 0) = 0
  BY DEF Dist
<1>3. Pending \in Seq(Nat) /\ Len(Pending) = 0 /\ Ready \in Seq(Nat) /\ Len(Ready) = 0
  BY <1>1, <1>2, QueueFacts
<1>4. QED
  BY <1>1, <1>3 DEF Queue!Init, Pending, Ready

\* The lock-free buffer is a queue: whatever its size and however stale the
\* indices its threads load, what the writer flushes is what the reader gets,
\* once and in order, and Unput takes back exactly the oldest pending samples.
THEOREM RingBufferIsQueue == Spec => ImplementsSampleQueue
<1>1. QED
  BY InitRefines, StepRefines, QueueInvAlways, PTL DEF Spec, ImplementsSampleQueue, Queue!Spec
=============================================================================
