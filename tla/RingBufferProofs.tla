-------------------------- MODULE RingBufferProofs --------------------------
(***************************************************************************)
(* Proofs about RingBuffer for every size, every set of elements and every *)
(* set of blocks: the inductive invariant, the absence of a data race on a *)
(* slot, and that the buffer implements the queue of module Fifo.          *)
(***************************************************************************)
EXTENDS RingBuffer, SequenceTheorems, TLAPS

USE SizeAssumption

\* increment() and the place-counting helpers stay inside the buffer, and
\* going one place further is one increment.
LEMMA AdvanceSteps ==
  ASSUME NEW k \in Slots, NEW n \in 0 .. Size - 1
  PROVE  /\ Advance(k, n) \in Slots
         /\ Advance(k, n + 1) \in Slots
         /\ increment(k) \in Slots
         /\ increment(Advance(k, n)) = Advance(k, n + 1)
         /\ Advance(k, 0) = k
  BY DEF Advance, increment, Slots

\* The number of used slots is at most the capacity, and zero for equal
\* indices only.
LEMMA UsedRange ==
  ASSUME NEW w \in Slots, NEW r \in Slots
  PROVE  /\ Used(w, r) \in 0 .. Capacity
         /\ Free(w, r) \in 0 .. Capacity
         /\ Used(w, r) = 0 <=> w = r
         /\ Advance(r, Used(w, r)) = w
  BY DEF Used, Free, Capacity, Slots, Advance

\* The room test: a slot further is the read index exactly if nothing is free.
LEMMA RoomTest ==
  ASSUME NEW w \in Slots, NEW r \in Slots, NEW n \in 0 .. Free(w, r)
  PROVE  increment(Advance(w, n)) = r <=> n = Free(w, r)
  BY DEF Used, Free, Capacity, Slots, Advance, increment

\* Publishing n free slots adds n to the used ones; taking one takes one off.
LEMMA UsedMoves ==
  ASSUME NEW w \in Slots, NEW r \in Slots
  PROVE  /\ \A n \in 0 .. Free(w, r) : Used(Advance(w, n), r) = Used(w, r) + n
         /\ w # r => Used(w, increment(r)) = Used(w, r) - 1
  BY DEF Used, Free, Capacity, Slots, Advance, increment

\* A free slot is not a used one.
LEMMA FreeIsNotUsed ==
  ASSUME NEW w \in Slots, NEW r \in Slots,
         NEW n \in Nat, n < Free(w, r),
         NEW k \in Nat, k < Used(w, r)
  PROVE  Advance(w, n) # Advance(r, k)
  BY DEF Used, Free, Capacity, Slots, Advance

\* A block is a sequence of elements.
LEMMA BlockIsSeq ==
  ASSUME NEW b \in Blocks \cup {<<>>}
  PROVE  b \in Seq(Data) /\ Len(b) \in Nat /\ \A k \in 1 .. Len(b) : b[k] \in Data
  <1>1. <<>> \in Seq(Data)
    OBVIOUS
  <1>2. b \in Seq(Data)
    BY <1>1, BlocksAssumption
  <1>3. QED
    BY <1>2

-----------------------------------------------------------------------------
(* The inductive invariant. *)

LEMMA InitInv == Init => IInv
  <1> SUFFICES ASSUME Init PROVE IInv
    OBVIOUS
  <1>1. TypeOK
    <2>1. 0 \in Slots
      BY DEF Slots
    <2>2. buf \in [Slots -> Data] /\ data \in Data
      BY DEF Init
    <2>3. block \in Blocks \cup {<<>>} /\ i \in 0 .. Len(block)
      BY DEF Init
    <2>4. QED
      BY <2>1, <2>2, <2>3 DEF Init, TypeOK
  <1>2. ProducerInv /\ ConsumerInv
    BY DEF Init, ProducerInv, ConsumerInv
  <1>3. QED
    BY <1>1, <1>2 DEF IInv

\* Every step of the producer, of the consumer and of reset() keeps it.
LEMMA NextInv == IInv /\ [Next]_vars => IInv'
  <1> SUFFICES ASSUME IInv, [Next]_vars PROVE IInv'
    OBVIOUS
  <1> USE DEF IInv
  <1>0. write_index \in Slots /\ atomic_write_index \in Slots /\ atomic_read_index \in Slots
    BY DEF TypeOK
  <1>1. ASSUME NEW b \in Blocks, PushCall(b) PROVE IInv'
    <2>1. TypeOK'
      BY <1>1, BlockIsSeq DEF PushCall, TypeOK, shared, cvars
    <2>2. ProducerInv'
      BY <1>1, <1>0, AdvanceSteps DEF PushCall, ProducerInv, TypeOK, shared
    <2>3. ConsumerInv'
      BY <1>1 DEF PushCall, ConsumerInv, shared, cvars
    <2>4. QED
      BY <2>1, <2>2, <2>3
  <1>2. ASSUME PushLoadRead PROVE IInv'
    <2>1. TypeOK'
      <3>1. Fits(block) \in BOOLEAN
        BY DEF Fits
      <3>2. QED
        BY <1>2, <3>1 DEF PushLoadRead, TypeOK, shared, cvars
    <2>2. ProducerInv'
      <3>1. Free(atomic_write_index, atomic_read_index) \in Nat
        BY <1>0, UsedRange DEF Capacity
      <3>2. fitted' <=> Len(block) <= Free(atomic_write_index, atomic_read_index)
        <4>1. fitted' = Fits(block)
          BY <1>2 DEF PushLoadRead
        <4>2. Len(block) \in Nat
          BY BlockIsSeq DEF TypeOK
        <4>3. Fits(block) <=> Len(block) <= Free(atomic_write_index, atomic_read_index)
          <5>1. Used(atomic_write_index, atomic_read_index) \in Nat
            BY <1>0, UsedRange DEF Capacity
          <5>2. QED
            BY <4>2, <5>1 DEF Fits, Free, Capacity
        <4>4. QED
          BY <4>1, <4>3, Zenon
      <3>3. QED
        BY <1>2, <3>1, <3>2 DEF PushLoadRead, ProducerInv, TypeOK, shared, Free, Used, Capacity
    <2>3. ConsumerInv'
      BY <1>2 DEF PushLoadRead, ConsumerInv, shared, cvars
    <2>4. QED
      BY <2>1, <2>2, <2>3
  <1>3. ASSUME PushCopy PROVE IInv'
    <2> DEFINE w == atomic_write_index
               r == atomic_read_index
    <2>1. /\ i \in 0 .. Free(w, read_index) /\ Free(w, read_index) <= Free(w, r)
          /\ read_index \in Slots /\ write_index = Advance(w, i)
          /\ Free(w, r) \in 0 .. Capacity /\ Free(w, read_index) \in 0 .. Capacity
      BY <1>3, <1>0, UsedRange DEF PushCopy, ProducerInv, TypeOK
    <2>2. i < Free(w, read_index)
      BY <1>3, <2>1, <1>0, RoomTest DEF PushCopy, RoomForOne, Free, Used, Capacity, Slots
    <2>3. write_index' = Advance(w, i + 1) /\ write_index' \in Slots
      BY <1>3, <2>1, <2>2, <1>0, AdvanceSteps DEF PushCopy, Capacity, Slots, Free, Used
    <2>4. TypeOK'
      <3>1. block[i + 1] \in Data /\ i + 1 \in 0 .. Len(block)
        BY <1>3, BlockIsSeq DEF PushCopy, TypeOK
      <3>2. QED
        BY <1>3, <3>1, <2>3 DEF PushCopy, TypeOK, cvars
    <2>5. \A k \in 0 .. i : buf'[Advance(w, k)] = block[k + 1]
      <3>1. ASSUME NEW k \in 0 .. i - 1 PROVE Advance(w, k) # write_index /\ Advance(w, k) \in Slots
        BY <2>1, <2>2, <1>0 DEF Advance, Slots, Capacity, Free, Used
      <3>2. \A k \in 0 .. i - 1 : buf'[Advance(w, k)] = block[k + 1]
        BY <1>3, <3>1 DEF PushCopy, ProducerInv, TypeOK
      <3>3. buf'[Advance(w, i)] = block[i + 1]
        BY <1>3, <2>1 DEF PushCopy, TypeOK
      <3>4. i \in Nat
        BY <2>1 DEF Free, Used, Capacity, Slots
      <3>5. QED
        BY <3>2, <3>3, <3>4
    <2>6. ProducerInv'
      <3>1. i' = i + 1 /\ i \in Nat /\ Free(w, read_index) \in Nat
        BY <1>3, <2>1, <1>0, UsedRange DEF PushCopy, TypeOK, Capacity
      <3>2. ppc' = "copy" /\ w' = w /\ r' = r /\ UNCHANGED <<block, read_index, fitted>>
        BY <1>3 DEF PushCopy
      <3>3. /\ Free(w, read_index)' = Free(w, read_index)
            /\ Free(w, r)' = Free(w, r)
        BY <3>2 DEF Free, Used
      <3>4. \A k \in 0 .. i' - 1 : buf'[Advance(w', k)] = block'[k + 1]
        BY <3>1, <3>2, <2>5
      <3>5. block' \in Blocks /\ write_index' = Advance(w', i')
        BY <1>3, <3>1, <3>2, <2>3 DEF PushCopy, ProducerInv
      <3>6. fitted' <=> Len(block') <= Free(w', read_index')
        BY <1>3, <3>2, <3>3 DEF PushCopy, ProducerInv
      <3>7. i' <= Free(w', read_index')
        BY <3>1, <3>2, <3>3, <2>2
      <3>8. Free(w', read_index') <= Free(w', r')
        BY <3>2, <3>3, <2>1
      <3>9. QED
        BY <3>2, <3>4, <3>5, <3>6, <3>7, <3>8 DEF ProducerInv
    <2>7. ConsumerInv'
      <3>1. cpc = "release" => atomic_read_index # write_index
        <4> SUFFICES ASSUME cpc = "release" PROVE r # write_index
          OBVIOUS
        <4>1. w # r
          BY DEF ConsumerInv
        <4>2. Used(w, r) \in Nat /\ 0 < Used(w, r)
          BY <4>1, <1>0, UsedRange DEF Capacity
        <4>3. i \in Nat /\ i < Free(w, r)
          BY <2>1, <2>2 DEF Capacity
        <4>4. Advance(w, i) # Advance(r, 0)
          BY <4>2, <4>3, <1>0, FreeIsNotUsed
        <4>5. QED
          BY <4>4, <2>1, <1>0 DEF Advance, Slots
      <3>2. QED
        BY <1>3, <3>1, <1>0 DEF PushCopy, ConsumerInv, cvars, TypeOK
    <2>8. QED
      BY <2>4, <2>6, <2>7
  <1>4. ASSUME PushRefuse PROVE IInv'
    BY <1>4 DEF PushRefuse, TypeOK, ProducerInv, ConsumerInv, shared, cvars
  <1>5. ASSUME PushPublish PROVE IInv'
    <2>1. TypeOK'
      BY <1>5 DEF PushPublish, TypeOK, cvars
    <2>2. ProducerInv'
      BY <1>5 DEF PushPublish, ProducerInv
    <2>3. ConsumerInv'
      <3>1. /\ i \in 0 .. Free(atomic_write_index, atomic_read_index)
            /\ atomic_write_index' = Advance(atomic_write_index, i)
        <4>1. /\ i \in Nat /\ i <= Free(atomic_write_index, read_index)
              /\ Free(atomic_write_index, read_index)
                   <= Free(atomic_write_index, atomic_read_index)
              /\ read_index \in Slots
          BY <1>5, BlockIsSeq DEF PushPublish, ProducerInv, TypeOK
        <4>2. /\ Free(atomic_write_index, read_index) \in Nat
              /\ Free(atomic_write_index, atomic_read_index) \in Nat
          BY <4>1, <1>0, UsedRange DEF Capacity
        <4>3. atomic_write_index' = Advance(atomic_write_index, i)
          BY <1>5 DEF PushPublish, ProducerInv
        <4>4. QED
          BY <4>1, <4>2, <4>3
      <3>2. Used(atomic_write_index', atomic_read_index)
              = Used(atomic_write_index, atomic_read_index) + i
        BY <3>1, <1>0, UsedMoves
      <3>3. c_write_index \in Slots
        BY DEF TypeOK
      <3>4. Used(atomic_write_index, atomic_read_index) \in Nat /\ i \in Nat
        BY <1>0, <3>1, UsedRange DEF Capacity
      <3>5. atomic_write_index # atomic_read_index => atomic_write_index' # atomic_read_index
        BY <3>2, <3>4, <1>0, UsedRange, <2>1 DEF TypeOK, Capacity
      <3>6. UNCHANGED <<atomic_read_index, buf, cpc, c_write_index, data, available>>
        BY <1>5 DEF PushPublish, cvars
      <3>7. cpc = "test" =>
              /\ Used(c_write_index, atomic_read_index) <= Used(atomic_write_index', atomic_read_index)
              /\ available <=> c_write_index # atomic_read_index
        BY <3>2, <3>3, <3>4, <1>0, UsedRange DEF ConsumerInv, Capacity
      <3>8. QED
        BY <3>5, <3>6, <3>7 DEF ConsumerInv
    <2>4. QED
      BY <2>1, <2>2, <2>3
  <1>6. ASSUME PopCall PROVE IInv'
    <2>1. TypeOK'
      BY <1>6 DEF PopCall, TypeOK, shared, pvars
    <2>2. ProducerInv'
      BY <1>6 DEF PopCall, ProducerInv, shared, pvars
    <2>3. ConsumerInv'
      <3>1. available' <=> atomic_write_index # atomic_read_index
        <4>1. Used(atomic_write_index, atomic_read_index) \in Nat
          BY <1>0, UsedRange DEF Capacity
        <4>2. Contents # <<>> <=> Used(atomic_write_index, atomic_read_index) # 0
          BY <4>1 DEF Contents
        <4>3. QED
          BY <4>2, <1>6, <1>0, UsedRange DEF PopCall
      <3>2. QED
        BY <3>1, <1>6, <1>0 DEF PopCall, ConsumerInv, shared, Used, Slots
    <2>4. QED
      BY <2>1, <2>2, <2>3
  <1>7. ASSUME PopEmpty PROVE IInv'
    BY <1>7 DEF PopEmpty, TypeOK, ProducerInv, ConsumerInv, shared, pvars
  <1>8. ASSUME PopRead PROVE IInv'
    <2>1. TypeOK'
      BY <1>8 DEF PopRead, TypeOK, shared, pvars
    <2>2. ProducerInv'
      BY <1>8 DEF PopRead, ProducerInv, shared, pvars
    <2>3. atomic_write_index # atomic_read_index
      <3>1. /\ c_write_index \in Slots /\ c_write_index # atomic_read_index
            /\ Used(c_write_index, atomic_read_index)
                 <= Used(atomic_write_index, atomic_read_index)
        BY <1>8 DEF PopRead, ConsumerInv, TypeOK
      <3>2. 0 < Used(c_write_index, atomic_read_index)
        BY <3>1, <1>0 DEF Used, Slots
      <3>3. QED
        BY <3>1, <3>2, <1>0 DEF Used, Slots
    <2>4. ConsumerInv'
      BY <1>8, <2>3 DEF PopRead, ConsumerInv, shared, pvars
    <2>5. QED
      BY <2>1, <2>2, <2>4
  <1>9. ASSUME PopRelease PROVE IInv'
    <2>1. atomic_read_index' = increment(atomic_read_index) /\ atomic_read_index' \in Slots
      BY <1>9, <1>0 DEF PopRelease, increment, Slots
    <2>2. TypeOK'
      BY <1>9, <2>1 DEF PopRelease, TypeOK, pvars
    <2>3. ProducerInv'
      <3>1. atomic_write_index # atomic_read_index
        BY <1>9 DEF PopRelease, ConsumerInv
      <3>2. Used(atomic_write_index, atomic_read_index')
              = Used(atomic_write_index, atomic_read_index) - 1
        BY <3>1, <2>1, <1>0, UsedMoves
      <3>3. Free(atomic_write_index, atomic_read_index)
              <= Free(atomic_write_index, atomic_read_index')
        BY <3>2, <1>0, UsedRange DEF Free, Capacity, Slots
      <3>4. read_index \in Slots
        BY DEF TypeOK
      <3>5. ppc = "copy" => Free(atomic_write_index, read_index)
                              <= Free(atomic_write_index, atomic_read_index')
        <4>1. /\ Free(atomic_write_index, read_index) \in Nat
              /\ Free(atomic_write_index, atomic_read_index) \in Nat
              /\ Free(atomic_write_index, atomic_read_index') \in Nat
          BY <3>4, <2>1, <1>0, UsedRange DEF Capacity
        <4>2. QED
          BY <4>1, <3>3 DEF ProducerInv
      <3>6. QED
        BY <3>5, <1>9 DEF PopRelease, ProducerInv, pvars
    <2>4. ConsumerInv'
      BY <1>9 DEF PopRelease, ConsumerInv
    <2>5. QED
      BY <2>2, <2>3, <2>4
  <1>10. ASSUME reset PROVE IInv'
    BY <1>10 DEF reset, TypeOK, ProducerInv, ConsumerInv, pvars, cvars, Slots
  <1>11. ASSUME UNCHANGED vars PROVE IInv'
    BY <1>11 DEF vars, shared, pvars, cvars, TypeOK, ProducerInv, ConsumerInv
  <1>12. QED
    BY <1>1, <1>2, <1>3, <1>4, <1>5, <1>6, <1>7, <1>8, <1>9, <1>10, <1>11
       DEF Next, PushStep, PopStep

\* Indices and copies of indices are in step on every interleaving of one
\* producer and one consumer, for every Size: the buffer is never indexed
\* outside and no stale copy is acted upon wrongly.
THEOREM Invariance == Spec => []IInv
  <1>1. QED
    BY InitInv, NextInv, PTL DEF Spec

-----------------------------------------------------------------------------
(* What the invariant is for. *)

\* The occupied slots are the used ones: a free slot is not among them and the
\* slot at the read index is, unless the buffer is empty.
LEMMA NoSlotSharedStep == IInv => NoSlotShared
  <1> SUFFICES ASSUME IInv PROVE NoSlotShared
    OBVIOUS
  <1> DEFINE w == atomic_write_index
             r == atomic_read_index
  <1>0. w \in Slots /\ r \in Slots
    BY DEF IInv, TypeOK
  <1>00. Used(w, r) \in Nat
    BY <1>0, UsedRange DEF Capacity
  <1>1. ASSUME ppc = "copy", i < Len(block), RoomForOne
        PROVE  write_index \notin Occupied
    <2>1. /\ read_index \in Slots /\ write_index = Advance(w, i)
          /\ i \in Nat /\ i <= Free(w, read_index) /\ Free(w, read_index) <= Free(w, r)
      BY <1>1, BlockIsSeq DEF IInv, TypeOK, ProducerInv
    <2>2. Free(w, read_index) \in Nat /\ Free(w, r) \in Nat
      BY <2>1, <1>0, UsedRange DEF Capacity
    <2>3. i # Free(w, read_index)
      BY <1>1, <2>1, <2>2, <1>0, RoomTest DEF RoomForOne
    <2>4. i < Free(w, r)
      BY <2>1, <2>2, <2>3
    <2>5. ASSUME NEW k \in 0 .. Used(w, r) - 1 PROVE Advance(r, k) # write_index
      BY <2>1, <2>4, <1>0, <1>00, FreeIsNotUsed
    <2>6. QED
      BY <2>5 DEF Occupied
  <1>2. ASSUME (cpc = "test" /\ r # c_write_index) \/ cpc = "release"
        PROVE  r \in Occupied
    <2>1. w # r
      <3>1. CASE cpc = "release"
        BY <3>1 DEF IInv, ConsumerInv
      <3>2. CASE cpc = "test" /\ r # c_write_index
        <4>1. c_write_index \in Slots /\ Used(c_write_index, r) <= Used(w, r)
          BY <3>2 DEF IInv, TypeOK, ConsumerInv
        <4>2. Used(c_write_index, r) # 0 /\ Used(c_write_index, r) \in Nat
          BY <3>2, <4>1, <1>0, UsedRange DEF Capacity
        <4>3. QED
          BY <4>1, <4>2, <1>0, <1>00, UsedRange
      <3>3. QED
        BY <1>2, <3>1, <3>2
    <2>2. 0 \in 0 .. Used(w, r) - 1
      BY <2>1, <1>0, <1>00, UsedRange
    <2>3. Advance(r, 0) = r
      BY <1>0 DEF Advance, Slots
    <2>4. QED
      BY <2>2, <2>3 DEF Occupied
  <1>3. QED
    BY <1>1, <1>2 DEF NoSlotShared

\* No slot is ever written by push()/pushs() while pop() may read it.
THEOREM SlotsAreNotShared == Spec => []NoSlotShared
  BY Invariance, NoSlotSharedStep, PTL

\* pop() answers "empty" only if nothing was published when it was called.
THEOREM EmptyAnswerIsTrue == Spec => EmptyOnlyIfNothingPublished
  <1>1. IInv /\ [Next]_vars => [cpc = "test" /\ cpc' = "idle" => ~available]_vars
    BY DEF IInv, ConsumerInv, Next, PushStep, PopStep, PushCall, PushLoadRead, PushCopy,
           PushRefuse, PushPublish, PopCall, PopEmpty, PopRead, PopRelease, reset,
           cvars, vars
  <1>2. QED
    BY <1>1, Invariance, PTL DEF Spec, EmptyOnlyIfNothingPublished

\* A block is refused exactly if it did not fit when the call looked.
THEOREM RefusalIsTrue == Spec => RefusedIfAndOnlyIfFull
  <1>1. ASSUME IInv, Next, ppc = "copy", ppc' = "idle"
        PROVE  fitted <=> i = Len(block)
    <2>0. /\ atomic_write_index \in Slots /\ read_index \in Slots
          /\ i \in Nat /\ Len(block) \in Nat /\ i <= Len(block)
          /\ i <= Free(atomic_write_index, read_index)
          /\ write_index = Advance(atomic_write_index, i)
      BY <1>1, BlockIsSeq DEF IInv, TypeOK, ProducerInv
    <2>1. Free(atomic_write_index, read_index) \in 0 .. Capacity
      BY <2>0, UsedRange
    <2>2. fitted <=> Len(block) <= Free(atomic_write_index, read_index)
      BY <1>1 DEF IInv, ProducerInv
    <2>3. PushRefuse \/ PushPublish
      BY <1>1 DEF Next, PushStep, PopStep, PushCall, PushLoadRead, PushCopy, PopCall,
                  PopEmpty, PopRead, PopRelease, reset, pvars
    <2>4. CASE PushPublish
      BY <2>4, <2>0, <2>2 DEF PushPublish
    <2>5. CASE PushRefuse
      <3>1. i < Len(block) /\ ~RoomForOne
        BY <2>5 DEF PushRefuse
      <3>2. i = Free(atomic_write_index, read_index)
        BY <3>1, <2>0, <2>1, RoomTest DEF RoomForOne, Capacity
      <3>3. QED
        BY <3>1, <3>2, <2>0, <2>2
    <2>6. QED
      BY <2>3, <2>4, <2>5
  <1>2. IInv /\ [Next]_vars
          => [ppc = "copy" /\ ppc' = "idle" => (fitted <=> i = Len(block))]_vars
    BY <1>1
  <1>3. QED
    BY <1>2, Invariance, PTL DEF Spec, RefusedIfAndOnlyIfFull

-----------------------------------------------------------------------------
(* The refinement: a step of the buffer is a step of the queue or none. *)

\* The queue the indices and the buffer stand for.
LEMMA ContentsIsQueue ==
  ASSUME IInv
  PROVE  /\ Contents \in Seq(Data)
         /\ Len(Contents) = Used(atomic_write_index, atomic_read_index)
         /\ Len(Contents) \in 0 .. Capacity
  <1>1. /\ atomic_write_index \in Slots /\ atomic_read_index \in Slots
        /\ buf \in [Slots -> Data]
    BY DEF IInv, TypeOK
  <1>2. Used(atomic_write_index, atomic_read_index) \in 0 .. Capacity
    BY <1>1, UsedRange
  <1>3. \A k \in 1 .. Used(atomic_write_index, atomic_read_index) :
          Advance(atomic_read_index, k - 1) \in Slots
    BY <1>1, <1>2 DEF Advance, Slots, Capacity
  <1>4. QED
    BY <1>1, <1>2, <1>3 DEF Contents, Capacity

\* Filling a free slot changes nothing in the queue.
LEMMA CopyStutters == IInv /\ PushCopy => UNCHANGED Contents
  <1> SUFFICES ASSUME IInv, PushCopy PROVE Contents' = Contents
    OBVIOUS
  <1>1. write_index \notin Occupied
    BY NoSlotSharedStep DEF NoSlotShared, PushCopy
  <1>2. UNCHANGED <<atomic_write_index, atomic_read_index>>
        /\ buf' = [buf EXCEPT ![write_index] = block[i + 1]] /\ buf \in [Slots -> Data]
    BY DEF PushCopy, IInv, TypeOK
  <1>3. Used(atomic_write_index, atomic_read_index) \in 0 .. Capacity
        /\ atomic_read_index \in Slots
    BY UsedRange DEF IInv, TypeOK
  <1>4. ASSUME NEW k \in 1 .. Used(atomic_write_index, atomic_read_index)
        PROVE  buf'[Advance(atomic_read_index, k - 1)] = buf[Advance(atomic_read_index, k - 1)]
    <2>1. k - 1 \in 0 .. Used(atomic_write_index, atomic_read_index) - 1
      BY <1>3 DEF Capacity
    <2>2. Advance(atomic_read_index, k - 1) # write_index
      BY <1>1, <2>1 DEF Occupied
    <2>3. Advance(atomic_read_index, k - 1) \in Slots
      BY <2>1, <1>3 DEF Advance, Slots, Capacity
    <2>4. QED
      BY <1>2, <2>2, <2>3
  <1>5. QED
    BY <1>2, <1>4 DEF Contents, Used

\* Publishing appends the whole block; the queue cannot overflow by it.
LEMMA PublishPuts == IInv /\ PushPublish => F!Put(block)
  <1> SUFFICES ASSUME IInv, PushPublish PROVE F!Put(block)
    OBVIOUS
  <1> DEFINE w == atomic_write_index
             r == atomic_read_index
             n == Used(w, r)
  <1>1. /\ w \in Slots /\ r \in Slots /\ read_index \in Slots /\ buf \in [Slots -> Data]
        /\ i = Len(block) /\ i \in Nat /\ block \in Seq(Data)
    BY BlockIsSeq DEF IInv, TypeOK, PushPublish
  <1>2. i <= Free(w, r)
    <2>1. i <= Free(w, read_index) /\ Free(w, read_index) <= Free(w, r)
      BY DEF PushPublish, IInv, ProducerInv
    <2>2. Free(w, read_index) \in 0 .. Capacity /\ Free(w, r) \in 0 .. Capacity
      BY <1>1, UsedRange
    <2>3. QED
      BY <1>1, <2>1, <2>2 DEF Capacity
  <1>3. n \in 0 .. Capacity /\ Free(w, r) = Capacity - n
    BY <1>1, UsedRange DEF Free
  <1>4. w' = Advance(w, i) /\ r' = r /\ buf' = buf /\ popped' = popped
    BY DEF PushPublish, IInv, ProducerInv, cvars
  <1>5. Used(w', r') = n + i
    BY <1>1, <1>2, <1>3, <1>4, UsedMoves DEF Capacity
  <1>6. Len(Contents) = n /\ Contents \in Seq(Data)
    BY ContentsIsQueue
  <1>7. Contents' = Contents \o block
    <2>1. Contents' = [k \in 1 .. n + i |-> buf[Advance(r, k - 1)]]
      BY <1>4, <1>5 DEF Contents
    <2>2. ASSUME NEW k \in 1 .. n PROVE buf[Advance(r, k - 1)] = Contents[k]
      BY DEF Contents
    <2>3. ASSUME NEW k \in n + 1 .. n + i PROVE buf[Advance(r, k - 1)] = block[k - n]
      <3>1. k - n - 1 \in 0 .. i - 1
        BY <1>1, <1>3 DEF Capacity
      <3>2. Advance(r, k - 1) = Advance(w, k - n - 1)
        BY <1>1, <1>2, <1>3, <3>1 DEF Advance, Used, Slots, Capacity
      <3>3. buf[Advance(w, k - n - 1)] = block[(k - n - 1) + 1]
        BY <3>1 DEF PushPublish, IInv, ProducerInv
      <3>4. (k - n - 1) + 1 = k - n
        BY <1>3 DEF Capacity
      <3>5. QED
        BY <3>2, <3>3, <3>4
    <2>4. n \in Nat /\ n + i \in Nat /\ n + i <= Capacity
      BY <1>1, <1>2, <1>3 DEF Capacity
    <2>5. Contents' \in Seq(Data) /\ Len(Contents') = n + i
      <3>1. \A k \in 1 .. n + i : buf[Advance(r, k - 1)] \in Data
        BY <1>1, <2>4 DEF Advance, Slots, Capacity
      <3>2. QED
        BY <2>1, <2>4, <3>1
    <2>6. /\ Contents \o block \in Seq(Data) /\ Len(Contents \o block) = n + i
          /\ \A k \in 1 .. n + i : (Contents \o block)[k]
                                     = IF k <= n THEN Contents[k] ELSE block[k - n]
      <3>1. /\ Contents \o block \in Seq(Data)
            /\ Len(Contents \o block) = Len(Contents) + Len(block)
            /\ \A k \in 1 .. Len(Contents) + Len(block) : (Contents \o block)[k]
                 = IF k <= Len(Contents) THEN Contents[k] ELSE block[k - Len(Contents)]
        BY <1>1, <1>6, ConcatProperties
      <3>2. Len(Contents) = n /\ Len(block) = i
        BY <1>1, <1>6
      <3>3. QED
        BY <3>1, <3>2
    <2>7. ASSUME NEW k \in 1 .. n + i PROVE Contents'[k] = (Contents \o block)[k]
      <3>1. Contents'[k] = buf[Advance(r, k - 1)]
        BY <2>1
      <3>2. CASE k <= n
        BY <3>1, <3>2, <2>2, <2>4, <2>6
      <3>3. CASE ~(k <= n)
        <4>1. k \in n + 1 .. n + i
          BY <3>3, <2>4
        <4>2. QED
          BY <3>1, <3>3, <4>1, <2>3, <2>6
      <3>4. QED
        BY <3>2, <3>3
    <2>8. QED
      BY <2>5, <2>6, <2>7, SeqEqual
  <1>8. Len(Contents) + Len(block) <= Capacity
    BY <1>1, <1>2, <1>3, <1>6 DEF Capacity
  <1>9. QED
    BY <1>4, <1>7, <1>8 DEF F!Put

\* Releasing the slot takes the oldest element, the one that was read.
LEMMA ReleaseGets == IInv /\ PopRelease => F!Get
  <1> SUFFICES ASSUME IInv, PopRelease PROVE F!Get
    OBVIOUS
  <1> DEFINE w == atomic_write_index
             r == atomic_read_index
             n == Used(w, r)
  <1>1. /\ w \in Slots /\ r \in Slots /\ buf \in [Slots -> Data]
        /\ w # r /\ data = buf[r]
    BY DEF IInv, TypeOK, ConsumerInv, PopRelease
  <1>2. n \in 1 .. Capacity
    BY <1>1, UsedRange DEF Capacity
  <1>3. r' = increment(r) /\ w' = w /\ buf' = buf /\ popped' = <<data>>
    BY DEF PopRelease
  <1>4. Used(w', r') = n - 1
    BY <1>1, <1>3, UsedMoves
  <1>5. Len(Contents) = n /\ Contents \in Seq(Data) /\ Contents # <<>>
    BY ContentsIsQueue, <1>2 DEF Capacity
  <1>6. Head(Contents) = data
    <2>1. Contents[1] = buf[Advance(r, 1 - 1)]
      BY <1>2 DEF Contents, Capacity
    <2>2. Advance(r, 1 - 1) = r
      BY <1>1 DEF Advance, Slots
    <2>3. QED
      BY <1>1, <1>5, <2>1, <2>2
  <1>7. Contents' = Tail(Contents)
    <2>1. Contents' = [k \in 1 .. n - 1 |-> buf[Advance(r', k - 1)]]
      BY <1>3, <1>4 DEF Contents
    <2>2. /\ Tail(Contents) \in Seq(Data) /\ Len(Tail(Contents)) = n - 1
          /\ \A k \in 1 .. n - 1 : Tail(Contents)[k] = Contents[k + 1]
      BY <1>5, HeadTailProperties
    <2>3. ASSUME NEW k \in 1 .. n - 1 PROVE buf[Advance(r', k - 1)] = Contents[k + 1]
      <3>1. Advance(r', k - 1) = Advance(r, (k + 1) - 1)
        BY <1>1, <1>2, <1>3 DEF Advance, increment, Slots, Capacity
      <3>2. k + 1 \in 1 .. n
        BY <1>2 DEF Capacity
      <3>3. QED
        BY <3>1, <3>2 DEF Contents
    <2>4. Contents' \in Seq(Data) /\ Len(Contents') = n - 1
      <3>1. \A k \in 1 .. n - 1 : buf[Advance(r', k - 1)] \in Data
        BY <1>1, <1>2, <1>3 DEF Advance, increment, Slots, Capacity
      <3>2. n - 1 \in Nat
        BY <1>2 DEF Capacity
      <3>3. QED
        BY <2>1, <3>1, <3>2
    <2>5. \A k \in 1 .. n - 1 : Contents'[k] = Tail(Contents)[k]
      BY <2>1, <2>2, <2>3
    <2>6. QED
      BY <2>2, <2>4, <2>5, SeqEqual
  <1>8. QED
    BY <1>3, <1>5, <1>6, <1>7 DEF F!Get

\* The lock-free buffer implements the queue: what push() and pushs() publish
\* comes out of pop() whole, once and in order, whatever the interleaving.
THEOREM Refinement == Spec => RefinesFifo
  <1>1. Init => F!Init
    BY DEF Init, F!Init, Contents, Used
  <1>2. IInv /\ [Next]_vars => [F!Next]_(F!vars)
    <2> SUFFICES ASSUME IInv, [Next]_vars PROVE [F!Next]_(F!vars)
      OBVIOUS
    <2> USE DEF F!vars, F!Next
    <2>1. ASSUME UNCHANGED <<shared, popped>> PROVE UNCHANGED F!vars
      BY <2>1 DEF shared, Contents, Used
    <2>2. CASE \E b \in Blocks : PushCall(b)
      BY <2>1, <2>2 DEF PushCall, cvars
    <2>3. CASE PushLoadRead \/ PushRefuse \/ PopCall \/ PopEmpty \/ PopRead
      BY <2>1, <2>3 DEF PushLoadRead, PushRefuse, PopCall, PopEmpty, PopRead, cvars
    <2>4. CASE PushCopy
      BY <2>4, CopyStutters DEF PushCopy, cvars
    <2>5. CASE PushPublish
      <3>1. block \in Blocks
        BY <2>5 DEF PushPublish, IInv, ProducerInv
      <3>2. QED
        BY <2>5, <3>1, PublishPuts
    <2>6. CASE PopRelease
      BY <2>6, ReleaseGets
    <2>7. CASE reset
      <3>1. Contents' = <<>> /\ popped' = popped
        BY <2>7 DEF reset, Contents, Used, cvars
      <3>2. QED
        BY <3>1 DEF F!Clear
    <2>8. CASE UNCHANGED vars
      BY <2>1, <2>8 DEF vars, cvars
    <2>9. QED
      BY <2>2, <2>3, <2>4, <2>5, <2>6, <2>7, <2>8 DEF Next, PushStep, PopStep
  <1>3. QED
    BY <1>1, <1>2, Invariance, PTL DEF Spec, RefinesFifo, F!Spec
=============================================================================
