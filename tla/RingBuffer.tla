----------------------------- MODULE RingBuffer -----------------------------
(***************************************************************************)
(* mptl::ring_buffer (include/fifo.hpp): one producer and one consumer     *)
(* share a buffer of Size slots and two atomic indices, without a lock.    *)
(*                                                                         *)
(* Every load and store of shared memory is a step of its own, so the two  *)
(* sides interleave anywhere.  The acquire/release order of the indices    *)
(* (write the slot, then store the index; load the index, then read the    *)
(* slot) lets steps be taken one after the other in program order.         *)
(*                                                                         *)
(* push(c) and both pushs() are one program here: load write_index, load   *)
(* read_index, then for each element test for room and fill a slot, then   *)
(* publish; push() hands over a block of one element.                      *)
(***************************************************************************)
EXTENDS Naturals, Sequences

CONSTANTS Size,      \* the template argument: slots of buf
          Data,      \* elements
          Blocks     \* the blocks pushs() is called with

ASSUME SizeAssumption == Size \in Nat \ {0}
ASSUME BlocksAssumption == Blocks \subseteq Seq(Data)

VARIABLES atomic_write_index, atomic_read_index, buf,
          \* the producer: where it is, its block, its own copies of the indices
          ppc, block, i, write_index, read_index,
          \* the consumer: where it is, its own copies, the element read
          cpc, c_write_index, data,
          \* what the last successful pop() returned
          popped,
          \* history: what the callers could have known when the call looked
          fitted, available

pvars == <<ppc, block, i, write_index, read_index, fitted>>
cvars == <<cpc, c_write_index, data, popped, available>>
shared == <<atomic_write_index, atomic_read_index, buf>>
vars == <<shared, pvars, cvars>>

Slots == 0 .. Size - 1

increment(k) == IF k + 1 >= Size THEN 0 ELSE k + 1

\* The slot n places after slot k, for n \in 0..Size.
Advance(k, n) == IF k + n < Size THEN k + n ELSE k + n - Size

\* Published and not yet consumed elements, for given indices.
Used(w, r) == IF w >= r THEN w - r ELSE w + Size - r

Capacity == Size - 1

Contents == [k \in 1 .. Used(atomic_write_index, atomic_read_index) |->
                buf[Advance(atomic_read_index, k - 1)]]

Fits(b) == Len(b) + Used(atomic_write_index, atomic_read_index) <= Capacity

\* Static storage: no constructor runs, all members are zero.  The content of
\* buf is never looked at before it is written; any element stands for zero.
Init == /\ atomic_write_index = 0 /\ atomic_read_index = 0
        /\ \E d \in Data : buf = [s \in Slots |-> d] /\ data = d
        /\ ppc = "idle" /\ block = <<>> /\ i = 0
        /\ write_index = 0 /\ read_index = 0 /\ fitted = TRUE
        /\ cpc = "idle" /\ c_write_index = 0
        /\ popped = <<>> /\ available = FALSE

-----------------------------------------------------------------------------
(* The producer. *)

\* push() or pushs() is called and loads its own index.
PushCall(b) ==
  /\ ppc = "idle"
  /\ ppc' = "load_read"
  /\ block' = b /\ i' = 0
  /\ write_index' = atomic_write_index
  /\ UNCHANGED <<shared, cvars, read_index, fitted>>

\* It loads the consumer's index, once for the whole block.
PushLoadRead ==
  /\ ppc = "load_read"
  /\ ppc' = "copy"
  /\ read_index' = atomic_read_index
  /\ fitted' = Fits(block)
  /\ UNCHANGED <<shared, cvars, block, i, write_index>>

\* Mutants: the first element goes in untested; a second slot is kept free.
RoomUntested == i = 0 \/ increment(write_index) # read_index
RoomForTwo == increment(write_index) # read_index
              /\ increment(increment(write_index)) # read_index

RoomForOne == increment(write_index) # read_index

\* One turn of the loop: fill the next slot, privately.
PushCopy ==
  /\ ppc = "copy" /\ i < Len(block) /\ RoomForOne
  /\ buf' = [buf EXCEPT ![write_index] = block[i + 1]]
  /\ write_index' = increment(write_index)
  /\ i' = i + 1
  /\ UNCHANGED <<atomic_write_index, atomic_read_index, cvars, ppc, block, read_index, fitted>>

\* Mutants: publish what was copied before the buffer ran full; wait for the
\* consumer to make room.
PushRefuseKeepPart ==
  /\ ppc = "copy" /\ i < Len(block) /\ ~RoomForOne
  /\ ppc' = "idle"
  /\ atomic_write_index' = write_index
  /\ UNCHANGED <<atomic_read_index, buf, cvars, block, i, write_index, read_index, fitted>>
PushRefuseSpin ==
  /\ ppc = "copy" /\ i < Len(block) /\ ~RoomForOne
  /\ read_index' = atomic_read_index
  /\ UNCHANGED <<shared, cvars, ppc, block, i, write_index, fitted>>

\* Buffer full: return false, all the copying before is discarded.
PushRefuse ==
  /\ ppc = "copy" /\ i < Len(block) /\ ~RoomForOne
  /\ ppc' = "idle"
  /\ UNCHANGED <<shared, cvars, block, i, write_index, read_index, fitted>>

\* The loop is done: publish and return true.
PushPublish ==
  /\ ppc = "copy" /\ i = Len(block)
  /\ ppc' = "idle"
  /\ atomic_write_index' = write_index
  /\ UNCHANGED <<atomic_read_index, buf, cvars, block, i, write_index, read_index, fitted>>

-----------------------------------------------------------------------------
(* The consumer. *)

\* Mutant: pop() goes by the write index it loaded the last time.
PopCallCached ==
  /\ cpc = "idle"
  /\ cpc' = "test"
  /\ available' = (Contents # <<>>)
  /\ UNCHANGED <<shared, pvars, c_write_index, data, popped>>

\* pop() is called and loads the producer's index.
PopCall ==
  /\ cpc = "idle"
  /\ cpc' = "test"
  /\ c_write_index' = atomic_write_index
  /\ available' = (Contents # <<>>)
  /\ UNCHANGED <<shared, pvars, data, popped>>

\* It loads its own index.  Equal indices: buffer empty, return false.
PopEmpty ==
  /\ cpc = "test" /\ atomic_read_index = c_write_index
  /\ cpc' = "idle"
  /\ UNCHANGED <<shared, pvars, c_write_index, data, popped, available>>

PopRead ==
  /\ cpc = "test" /\ atomic_read_index # c_write_index
  /\ cpc' = "release"
  /\ data' = buf[atomic_read_index]
  /\ UNCHANGED <<shared, pvars, c_write_index, popped, available>>

\* Give the slot back to the producer and return true with the element.
PopRelease ==
  /\ cpc = "release"
  /\ cpc' = "idle"
  /\ atomic_read_index' = increment(atomic_read_index)
  /\ popped' = <<data>>
  /\ UNCHANGED <<atomic_write_index, buf, pvars, c_write_index, data, available>>

-----------------------------------------------------------------------------
\* reset() is not thread-safe; its callers hold both sides still.
reset ==
  /\ ppc = "idle" /\ cpc = "idle"
  /\ atomic_write_index' = 0 /\ atomic_read_index' = 0
  /\ UNCHANGED <<buf, pvars, cvars>>

PushStep == PushLoadRead \/ PushCopy \/ PushRefuse \/ PushPublish
PopStep == PopEmpty \/ PopRead \/ PopRelease

Next == \/ \E b \in Blocks : PushCall(b)
        \/ PushStep
        \/ PopCall
        \/ PopStep
        \/ reset

Spec == Init /\ [][Next]_vars

\* A side that is inside a call keeps running; nobody has to make a call.
FairSpec == Spec /\ WF_vars(PushStep) /\ WF_vars(PopStep)

-----------------------------------------------------------------------------
(* Properties. *)

\* Indices stay inside the buffer, whatever the other side does.
TypeOK ==
  /\ atomic_write_index \in Slots /\ atomic_read_index \in Slots
  /\ buf \in [Slots -> Data]
  /\ ppc \in {"idle", "load_read", "copy"}
  /\ block \in Blocks \cup {<<>>} /\ i \in 0 .. Len(block)
  /\ write_index \in Slots /\ read_index \in Slots /\ fitted \in BOOLEAN
  /\ cpc \in {"idle", "test", "release"}
  /\ c_write_index \in Slots /\ data \in Data
  /\ popped \in {<<>>} \cup {<<d>> : d \in Data} /\ available \in BOOLEAN

\* The buffer is the queue it promises to be: every block is published whole
\* or not at all, elements leave once and in order, Size - 1 fit at most.
F == INSTANCE Fifo WITH queue <- Contents
RefinesFifo == F!Spec

\* The slots the consumer may read now or with the indices it has loaded.
Occupied == {Advance(atomic_read_index, k) :
               k \in 0 .. Used(atomic_write_index, atomic_read_index) - 1}

\* No data race on a slot: the producer, working with an old copy of the read
\* index, never fills a slot that holds an unread element, and the slot the
\* consumer is reading is one of those.
NoSlotShared ==
  /\ ppc = "copy" /\ i < Len(block) /\ RoomForOne => write_index \notin Occupied
  /\ (cpc = "test" /\ atomic_read_index # c_write_index) \/ cpc = "release"
       => atomic_read_index \in Occupied

\* A call returns false, without having come to the end of its block, exactly
\* if the block did not fit when the call looked at the read index; the
\* consumer may have made room since.
RefusedIfAndOnlyIfFull ==
  [][ppc = "copy" /\ ppc' = "idle" => (fitted <=> i = Len(block))]_vars

\* pop() returns false only if nothing was published when it was called.
EmptyOnlyIfNothingPublished ==
  [][cpc = "test" /\ cpc' = "idle" => ~available]_vars

\* Lock-free, as the class comment says: a call returns whether or not the
\* other side ever moves.
Lockfree == /\ ppc # "idle" ~> ppc = "idle"
            /\ cpc # "idle" ~> cpc = "idle"

-----------------------------------------------------------------------------
(* The inductive invariant. *)

\* Free slots between a write and a read index.
Free(w, r) == Capacity - Used(w, r)

\* The producer's copies: what it took for free is free, its write index is
\* ahead of the published one by what it copied, and the copies are in place.
ProducerInv ==
  /\ ppc # "idle" => block \in Blocks /\ write_index = Advance(atomic_write_index, i)
  /\ ppc = "load_read" => i = 0
  /\ ppc = "copy" =>
       /\ Free(atomic_write_index, read_index)
            <= Free(atomic_write_index, atomic_read_index)
       /\ i <= Free(atomic_write_index, read_index)
       /\ \A k \in 0 .. i - 1 : buf[Advance(atomic_write_index, k)] = block[k + 1]
       /\ fitted <=> Len(block) <= Free(atomic_write_index, read_index)

\* The consumer's copies: what it took for published is published, and the
\* element it read is still the oldest.
ConsumerInv ==
  /\ cpc = "test" =>
       /\ Used(c_write_index, atomic_read_index)
            <= Used(atomic_write_index, atomic_read_index)
       /\ available <=> c_write_index # atomic_read_index
  /\ cpc = "release" =>
       /\ atomic_write_index # atomic_read_index
       /\ data = buf[atomic_read_index]

IInv == TypeOK /\ ProducerInv /\ ConsumerInv
=============================================================================
