---------------------------- MODULE VectorProofs ----------------------------
(***************************************************************************)
(* The vector keeps its promises for every PTRDIFF_MAX, every set of bytes  *)
(* and data of any size.                                                   *)
(***************************************************************************)
EXTENDS Vector, TLAPS

(* The slice of the last shrink lies between the offset and the capacity of *)
(* a block that was not lost since.                                        *)
SliceInv ==
  slice.size > 0 =>
    /\ buffer # Null
    /\ offset <= slice.at
    /\ slice.at + slice.size <= capacity

Inv ==
  /\ TypeOK
  /\ offset <= capacity
  /\ SliceInv
  /\ HoldsWhatWasPushed
  /\ PoppedStaysReadable

----------------------------------------------------------------------------
(* Growth: the block is large enough afterwards, and its capacity is its    *)
(* size and never wraps around.                                            *)
LEMMA CapacitySuffices ==
  ASSUME TypeOK, offset <= capacity, NEW n \in Nat, CanGrow(n),
         NewCapacity(n) <= PtrdiffMax
  PROVE  /\ NewCapacity(n) \in 0 .. PtrdiffMax
         /\ offset + n <= NewCapacity(n)
         /\ capacity <= NewCapacity(n)
<1> DEFINE sum == capacity + GrowSize(n)
<1>1. CASE SpaceLeft < n
  <2>1. PtrdiffMax - offset >= n
    BY <1>1 DEF CanGrow, AddressSpaceLeft
  <2>2. /\ GrowSize(n) \in 0 .. PtrdiffMax
        /\ offset + n <= capacity + GrowSize(n)
    BY <1>1, <2>1, VectorAssumption DEF TypeOK, GrowSize, SpaceLeft
  <2>3. sum \in 0 .. SizeMax
    BY <2>2, VectorAssumption DEF TypeOK, SizeMax
  <2>4. SizeMax \in Nat /\ sum % (SizeMax + 1) = sum
    BY <2>3, VectorAssumption DEF SizeMax
  <2>5. NewCapacity(n) = sum
    BY <1>1, <2>4 DEF NewCapacity
  <2> QED
    BY <2>2, <2>3, <2>5, VectorAssumption DEF TypeOK, SizeMax
<1>2. CASE ~(SpaceLeft < n)
  BY <1>2, VectorAssumption DEF NewCapacity, TypeOK, SpaceLeft
<1> QED
  BY <1>1, <1>2

(* The grown buffer is a block of the new capacity that starts with what    *)
(* the old one held.                                                       *)
LEMMA GrownKeepsBytes ==
  ASSUME Inv, NEW n \in Nat, CanGrow(n), NewCapacity(n) <= PtrdiffMax
  PROVE  /\ n > 0 \/ buffer # Null => Grown(n) \in Bytes(NewCapacity(n))
         /\ n = 0 => Grown(n) = buffer /\ NewCapacity(n) = capacity
         /\ \A k \in 0 .. offset - 1 : Grown(n)[k] = buffer[k]
<1>1. /\ NewCapacity(n) \in 0 .. PtrdiffMax
      /\ offset + n <= NewCapacity(n) /\ capacity <= NewCapacity(n)
  BY CapacitySuffices DEF Inv
<1>2. CASE SpaceLeft < n
  <2>1. Grown(n) = Reallocated(NewCapacity(n))
    BY <1>2 DEF Grown
  <2>2. n # 0
    BY <1>2 DEF Inv, TypeOK, SpaceLeft
  <2>3. Reallocated(NewCapacity(n)) \in Bytes(NewCapacity(n))
    BY <1>1 DEF Reallocated, Bytes, Inv, TypeOK
  <2>4. \A k \in 0 .. offset - 1 : Reallocated(NewCapacity(n))[k] = buffer[k]
    BY <1>1 DEF Reallocated, Inv, TypeOK, CanGrow, Usable
  <2> QED
    BY <2>1, <2>2, <2>3, <2>4
<1>3. CASE ~(SpaceLeft < n)
  <2>1. Grown(n) = buffer /\ NewCapacity(n) = capacity
    BY <1>3 DEF Grown, NewCapacity
  <2>2. n > 0 => capacity > 0
    BY <1>3 DEF Inv, TypeOK, SpaceLeft
  <2> QED
    BY <2>1, <2>2 DEF Inv, TypeOK, CanGrow, Usable
<1> QED
  BY <1>2, <1>3

----------------------------------------------------------------------------
(* What a growth leaves, before and after it.                              *)
LEMMA GrowthKeeps ==
  ASSUME Inv, NEW n \in Nat, GrowsBy(n), n = 0 => buffer' = buffer,
         n > 0 => buffer' \in Bytes(capacity'),
         NEW data \in Bytes(n), stack' = Join(stack, offset, data, n),
         \A k \in 0 .. offset - 1 : buffer'[k] = buffer[k],
         \A k \in 0 .. n - 1 : data[k] \in Byte => buffer'[offset + k] = data[k]
  PROVE  Inv'
<1> USE VectorAssumption
<1>1. /\ capacity' \in 0 .. PtrdiffMax /\ offset' = offset + n
      /\ offset' <= capacity' /\ capacity <= capacity'
      /\ n = 0 => capacity' = capacity
      /\ slice' = NoSlice /\ popped' = Nothing
  BY CapacitySuffices DEF Inv, GrowsBy, NewCapacity, TypeOK, SpaceLeft
<1>2. buffer' # Null => buffer' \in Bytes(capacity')
  BY <1>1 DEF Inv, TypeOK
<1>3. stack' \in Bytes(offset')
  <2>1. stack \in Bytes(offset) /\ offset \in Nat
    BY DEF Inv, TypeOK
  <2> QED
    BY <1>1, <2>1 DEF Bytes, Join
<1>4. TypeOK'
  <2>1. offset' \in 0 .. PtrdiffMax
    BY <1>1 DEF Inv, TypeOK
  <2>2. slice' \in [at : 0 .. PtrdiffMax, size : 0 .. PtrdiffMax] /\ slice'.size = 0
    BY <1>1 DEF NoSlice
  <2>3. popped' \in Bytes(0)
    BY <1>1 DEF Nothing, Unwritten, Bytes
  <2> QED
    BY <1>1, <1>2, <1>3, <2>1, <2>2, <2>3 DEF TypeOK
<1>5. SliceInv'
  BY <1>1 DEF SliceInv, NoSlice
<1>6. HoldsWhatWasPushed'
  <2> SUFFICES ASSUME NEW k \in 0 .. offset' - 1, stack'[k] \in Byte
               PROVE  buffer'[k] = stack'[k]
    BY DEF HoldsWhatWasPushed
  <2>1. Usable /\ offset \in Nat
    BY DEF GrowsBy, CanGrow, Inv, TypeOK
  <2>2. CASE k < offset
    <3>1. stack'[k] = stack[k]
      BY <1>1, <2>1, <2>2 DEF Join
    <3> QED
      BY <2>1, <2>2, <3>1 DEF Inv, HoldsWhatWasPushed
  <2>3. CASE k >= offset
    <3>1. k - offset \in 0 .. n - 1 /\ k = offset + (k - offset)
      BY <1>1, <2>1, <2>3
    <3>2. stack'[k] = data[k - offset]
      BY <1>1, <2>1, <2>3, <3>1 DEF Join
    <3> QED
      BY <3>1, <3>2
  <2> QED
    BY <2>1, <2>2, <2>3
<1>7. PoppedStaysReadable'
  BY <1>1 DEF PoppedStaysReadable, NoSlice
<1> QED
  BY <1>1, <1>4, <1>5, <1>6, <1>7 DEF Inv

(* thsn_vector_push keeps the invariant: the old data is moved, not lost.  *)
LEMMA PushKeeps ==
  ASSUME Inv, NEW n \in Nat, NEW data \in Data(n), Push(n, data)
  PROVE  Inv'
<1> USE VectorAssumption
<1>1. /\ GrowsBy(n) /\ CanGrow(n) /\ NewCapacity(n) <= PtrdiffMax
      /\ capacity' = NewCapacity(n) /\ stack' = Join(stack, offset, data, n)
  BY DEF Push, GrowsBy
<1>2. /\ offset + n <= NewCapacity(n) /\ offset \in Nat /\ NewCapacity(n) \in Nat
      /\ data \in Bytes(n)
  BY <1>1, CapacitySuffices DEF Inv, TypeOK, Bytes, Data
<1>3. CASE n = 0
  <2>1. buffer' = buffer
    BY <1>3 DEF Push
  <2> QED
    BY <1>1, <1>2, <1>3, <2>1, GrowthKeeps
<1>4. CASE n > 0
  <2>1. buffer' = Written(Grown(n), offset, n, data)
    BY <1>4 DEF Push
  <2>2. Grown(n) \in Bytes(capacity')
    BY <1>1, <1>4, GrownKeepsBytes
  <2>3. \A k \in 0 .. offset - 1 : Grown(n)[k] = buffer[k]
    BY <1>1, <1>4, GrownKeepsBytes
  <2>4. DOMAIN Grown(n) = 0 .. capacity' - 1
    BY <2>2 DEF Bytes
  <2>5. buffer' \in Bytes(capacity')
    BY <1>1, <1>2, <2>1, <2>2, <2>4 DEF Written, Bytes, Data
  <2>6. \A k \in 0 .. offset - 1 : buffer'[k] = buffer[k]
    BY <1>1, <1>2, <2>1, <2>3, <2>4 DEF Written
  <2>7. \A k \in 0 .. n - 1 : buffer'[offset + k] = data[k]
    BY <1>1, <1>2, <2>1, <2>4 DEF Written
  <2> QED
    BY <1>1, <1>2, <1>4, <2>5, <2>6, <2>7, GrowthKeeps
<1> QED
  BY <1>3, <1>4

(* A growth without writing keeps it; the new space is unwritten.          *)
LEMMA ReserveKeeps ==
  ASSUME Inv, NEW n \in Nat, Reserve(n)
  PROVE  Inv'
<1> USE VectorAssumption
<1>1. /\ GrowsBy(n) /\ CanGrow(n) /\ NewCapacity(n) <= PtrdiffMax
      /\ capacity' = NewCapacity(n) /\ buffer' = Grown(n)
      /\ stack' = Join(stack, offset, Unwritten(n), n)
  BY DEF Reserve, GrowsBy
<1>2. Unwritten(n) \in Bytes(n)
      /\ \A k \in 0 .. n - 1 : Unwritten(n)[k] \notin Byte
  BY DEF Unwritten, Bytes
<1>3. /\ n = 0 => buffer' = buffer
      /\ n > 0 => buffer' \in Bytes(capacity')
      /\ \A k \in 0 .. offset - 1 : buffer'[k] = buffer[k]
  BY <1>1, GrownKeepsBytes
<1> QED
  BY <1>1, <1>2, <1>3, GrowthKeeps

(* A pop leaves what it pops behind the end.                               *)
LEMMA PopKeeps ==
  ASSUME Inv, NEW n \in Nat, Pop(n)
  PROVE  Inv'
<1> USE VectorAssumption
<1>1. /\ offset' = offset - n /\ offset' \in 0 .. PtrdiffMax
      /\ n \in 0 .. PtrdiffMax /\ offset \in Nat /\ capacity \in Nat
      /\ slice' = [at |-> offset - n, size |-> n]
      /\ buffer' = buffer /\ capacity' = capacity
  BY DEF Pop, Inv, TypeOK
<1>2. Usable /\ stack \in Bytes(offset) /\ offset <= capacity
  BY DEF Pop, Inv, TypeOK
<1>3. stack' = [k \in 0 .. offset' - 1 |-> stack[k]] /\ stack' \in Bytes(offset')
  BY <1>1, <1>2 DEF Pop, Prefix, Bytes
<1>4. popped' = [k \in 0 .. n - 1 |-> stack[offset - n + k]] /\ popped' \in Bytes(n)
  BY <1>1, <1>2 DEF Pop, Bytes
<1>5. TypeOK'
  BY <1>1, <1>3, <1>4 DEF Inv, TypeOK
<1>6. SliceInv'
  BY <1>1, <1>2 DEF SliceInv, Usable
<1>7. HoldsWhatWasPushed'
  BY <1>1, <1>2, <1>3 DEF Inv, HoldsWhatWasPushed, Usable
<1>8. PoppedStaysReadable'
  <2> SUFFICES ASSUME NEW k \in 0 .. n - 1, popped'[k] \in Byte
               PROVE  buffer'[slice'.at + k] = popped'[k]
    BY <1>1 DEF PoppedStaysReadable
  <2>1. offset - n + k \in 0 .. offset - 1 /\ popped'[k] = stack[offset - n + k]
    BY <1>1, <1>4
  <2> QED
    BY <1>1, <1>2, <2>1 DEF Inv, HoldsWhatWasPushed
<1> QED
  BY <1>1, <1>2, <1>5, <1>6, <1>7, <1>8 DEF Inv

(* Only what lies before the offset is ever overwritten.                   *)
LEMMA OverwriteKeeps ==
  ASSUME Inv, NEW at \in Nat, NEW n \in Nat, NEW data \in Data(n),
         Overwrite(at, n, data)
  PROVE  Inv'
<1> USE VectorAssumption
<1>1. /\ at + n <= offset /\ n > 0 /\ offset \in Nat /\ capacity \in Nat
      /\ offset <= capacity
      /\ UNCHANGED <<capacity, offset, slice, popped>>
  BY DEF Overwrite, CanWrite, Inv, TypeOK
<1>2. buffer # Null /\ buffer \in Bytes(capacity) /\ stack \in Bytes(offset) /\ Usable
  BY <1>1 DEF Overwrite, Usable, Inv, TypeOK
<1>3. /\ buffer' = [k \in 0 .. capacity - 1 |->
                      IF at <= k /\ k < at + n THEN data[k - at] ELSE buffer[k]]
      /\ stack' = [k \in 0 .. offset - 1 |->
                     IF at <= k /\ k < at + n THEN data[k - at] ELSE stack[k]]
  BY <1>2 DEF Overwrite, Written, Bytes
<1>4. buffer' \in Bytes(capacity) /\ stack' \in Bytes(offset)
  BY <1>1, <1>2, <1>3 DEF Bytes, Data
<1>5. TypeOK'
  BY <1>1, <1>4 DEF Inv, TypeOK
<1>6. SliceInv'
  BY <1>1, <1>4, VectorAssumption DEF Inv, TypeOK, SliceInv
<1>7. HoldsWhatWasPushed'
  BY <1>1, <1>2, <1>3 DEF Inv, HoldsWhatWasPushed
<1>8. PoppedStaysReadable'
  <2> SUFFICES ASSUME NEW k \in 0 .. slice.size - 1, popped[k] \in Byte
               PROVE  buffer'[slice.at + k] = popped[k]
    BY <1>1 DEF PoppedStaysReadable
  <2>1. slice.at + k \in 0 .. capacity - 1 /\ slice.at + k >= at + n
    BY <1>1 DEF Inv, TypeOK, SliceInv
  <2> QED
    BY <1>1, <1>3, <2>1 DEF Inv, PoppedStaysReadable, TypeOK
<1> QED
  BY <1>1, <1>5, <1>6, <1>7, <1>8 DEF Inv

----------------------------------------------------------------------------
(* It holds of an empty vector.                                            *)
LEMMA InitInv == Init => Inv
BY VectorAssumption
   DEF Init, Inv, TypeOK, SliceInv, HoldsWhatWasPushed, PoppedStaysReadable, NoSlice,
       Nothing, Unwritten, Bytes

(* thsn_vector_allocate keeps it.                                          *)
LEMMA AllocateKeeps ==
  ASSUME Inv, NEW n \in 0 .. PtrdiffMax, Allocate(n)
  PROVE  Inv'
<1>1. capacity' = n /\ offset' = 0 /\ UNCHANGED <<slice, stack, popped>>
  BY DEF Allocate
<1>2. buffer' \in Bytes(n)
  BY DEF Allocate, Unwritten, Bytes
<1>3. offset = 0 /\ slice.size = 0
  BY VectorAssumption DEF Allocate, Inv, TypeOK, SliceInv
<1> QED
  BY <1>1, <1>2, <1>3, VectorAssumption
     DEF Inv, TypeOK, SliceInv, HoldsWhatWasPushed, PoppedStaysReadable

(* thsn_vector_free keeps it.                                              *)
LEMMA FreeKeeps == Inv /\ Free => Inv'
BY VectorAssumption
   DEF Free, Inv, TypeOK, SliceInv, HoldsWhatWasPushed, PoppedStaysReadable, NoSlice,
       Nothing, Unwritten, Bytes

(* A failed reallocation leaves a vector without a block, which has no     *)
(* slices.                                                                 *)
LEMMA GrowFailsKeeps ==
  ASSUME Inv, NEW n \in Nat, GrowFails(n)
  PROVE  Inv'
<1>1. buffer' = Null /\ UNCHANGED <<capacity, offset, stack>>
      /\ slice' = NoSlice /\ popped' = Nothing
  BY DEF GrowFails
<1>2. TypeOK'
  <2>1. slice' \in [at : 0 .. PtrdiffMax, size : 0 .. PtrdiffMax] /\ slice'.size = 0
    BY <1>1, VectorAssumption DEF NoSlice
  <2>2. popped' \in Bytes(0)
    BY <1>1 DEF Nothing, Unwritten, Bytes
  <2> QED
    BY <1>1, <2>1, <2>2 DEF Inv, TypeOK
<1>3. Usable' => offset' = 0
  BY <1>1, VectorAssumption DEF Usable, Inv, TypeOK
<1> QED
  BY <1>1, <1>2, <1>3
     DEF Inv, SliceInv, HoldsWhatWasPushed, PoppedStaysReadable, NoSlice

(* Every operation keeps the invariant.                                    *)
LEMMA StepInv == Inv /\ [Next]_vars => Inv'
<1> SUFFICES ASSUME Inv, [Next]_vars PROVE Inv'
  OBVIOUS
<1> USE VectorAssumption
<1>1. Sizes \subseteq Nat /\ 0 .. MaxData \subseteq Nat
  BY DEF Sizes
<1>2. CASE \E n \in 0 .. PtrdiffMax : Allocate(n)
  BY <1>2, AllocateKeeps
<1>3. CASE Free
  BY <1>3, FreeKeeps
<1>4. CASE \E n \in 0 .. MaxData : \E data \in Data(n) : Push(n, data)
  BY <1>1, <1>4, PushKeeps
<1>5. CASE \E n \in Sizes : Reserve(n) \/ GrowFails(n)
  BY <1>1, <1>5, ReserveKeeps, GrowFailsKeeps
<1>6. CASE \E n \in Sizes : Pop(n)
  BY <1>1, <1>6, PopKeeps
<1>7. CASE \E at \in Sizes, n \in 0 .. MaxData :
             \E data \in Data(n) : Overwrite(at, n, data)
  BY <1>1, <1>7, OverwriteKeeps
<1>8. CASE UNCHANGED vars
  BY <1>8 DEF vars, Inv, TypeOK, SliceInv, HoldsWhatWasPushed, PoppedStaysReadable,
              Usable
<1> QED
  BY <1>2, <1>3, <1>4, <1>5, <1>6, <1>7, <1>8 DEF Next

(* The invariant holds throughout.                                         *)
LEMMA AlwaysInv == Spec => []Inv
BY InitInv, StepInv, PTL DEF Spec

(* The capacity is at every time the size of the block, within PTRDIFF_MAX, *)
(* and no slice handed out has another size than what was popped            *)
(* (thsn_vector_grow, thsn_vector_shrink).                                 *)
THEOREM VectorTypeCorrect == Spec => []TypeOK
<1>1. Inv => TypeOK
  BY DEF Inv
<1> QED
  BY <1>1, AlwaysInv, PTL

(* The space asked for is there, and every slice lies in the block: no      *)
(* growth is computed too small, and none wraps around.                    *)
THEOREM SpaceIsAlwaysThere == Spec => []SpaceIsThere
<1>1. Inv => SpaceIsThere
  <2> SUFFICES ASSUME Inv, buffer # Null, NEW at \in Sizes, NEW n \in Sizes,
                      CanRead(at, n) \/ CanWrite(at, n)
               PROVE  at .. at + n - 1 \subseteq DOMAIN buffer
    BY DEF SpaceIsThere, Inv
  <2>1. DOMAIN buffer = 0 .. capacity - 1 /\ capacity \in Nat /\ offset \in Nat
    BY DEF Inv, TypeOK, Bytes
  <2>2. at \in Nat /\ n \in Nat /\ offset <= capacity
    BY DEF Sizes, Inv
  <2> QED
    BY <2>1, <2>2 DEF CanRead, CanWrite
<1> QED
  BY <1>1, AlwaysInv, PTL

(* A vector is a stack: what was pushed or written over is what is there,   *)
(* through all growths of the block.                                       *)
THEOREM VectorHoldsWhatWasPushed == Spec => []HoldsWhatWasPushed
<1>1. Inv => HoldsWhatWasPushed
  BY DEF Inv
<1> QED
  BY <1>1, AlwaysInv, PTL

(* Popped data stays readable behind the end until the next growth, as the  *)
(* comment in thsn_vector_slice_at_offset says.                            *)
THEOREM PoppedDataStaysReadable == Spec => []PoppedStaysReadable
<1>1. Inv => PoppedStaysReadable
  BY DEF Inv
<1> QED
  BY <1>1, AlwaysInv, PTL
=============================================================================
