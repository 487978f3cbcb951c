------------------------------- MODULE Vector -------------------------------
(***************************************************************************)
(* The vector of bytes (src/lib/vector.h) under the parser's stack, the     *)
(* segments and the visitor's stack, with one owner who calls its           *)
(* operations in any order.                                                *)
(*                                                                         *)
(* Calls that return an error and change nothing are not steps: a growth    *)
(* that the address space has no room for, a pop of more than there is, a   *)
(* slice of bytes that are not there.  A failed realloc is a step: the      *)
(* vector has lost its buffer and keeps capacity and offset.  Its owner     *)
(* then only frees it, as all callers in the library do.                   *)
(***************************************************************************)
EXTENDS Integers

CONSTANTS Byte,        \* the values of a byte
          Unset,       \* stands for a byte that nobody has written
          Null,        \* the pointer
          PtrdiffMax,  \* PTRDIFF_MAX, the most that an allocator gives
          MaxData      \* the largest data pushed in one piece

VARIABLES buffer,    \* what the allocated block holds, or Null
          capacity,
          offset,
          slice,     \* of the last shrink, until the vector grows again
          stack,     \* not in the code: what was pushed and is not popped yet,
          popped     \* and what the last shrink popped

vars == <<buffer, capacity, offset, slice, stack, popped>>

SizeMax == 2 * PtrdiffMax + 1
Sizes   == 0 .. SizeMax

Bytes(n) == [0 .. n - 1 -> Byte \cup {Unset}]
Data(n)  == [0 .. n - 1 -> Byte]

ASSUME VectorAssumption ==
  /\ PtrdiffMax \in Nat /\ MaxData \in Nat
  /\ Unset \notin Byte
  /\ \A n \in 0 .. PtrdiffMax : Null \notin Bytes(n)

(* The first n bytes of f; these and then the m bytes of g.                *)
Prefix(f, n)    == [k \in 0 .. n - 1 |-> f[k]]
Join(f, n, g, m) == [k \in 0 .. n + m - 1 |-> IF k < n THEN f[k] ELSE g[k - n]]
Unwritten(n)    == [k \in 0 .. n - 1 |-> Unset]

NoSlice == [at |-> 0, size |-> 0]
Nothing == Unwritten(0)

----------------------------------------------------------------------------
(* thsn_vector_grow                                                        *)

SpaceLeft == capacity - offset

(* The block is doubled, unless that is not enough or not possible.        *)
GrowSizeDoubles(n) == capacity

GrowSize(n) ==
  IF capacity < n \/ capacity > PtrdiffMax - offset THEN n ELSE capacity

AnyAddressSpace(n)  == TRUE
AddressSpaceLeft(n) == PtrdiffMax - offset >= n

NewCapacity(n) ==
  IF SpaceLeft < n THEN (capacity + GrowSize(n)) % (SizeMax + 1) ELSE capacity

(* realloc keeps what fits of the old block.                               *)
Reallocated(n) ==
  [k \in 0 .. n - 1 |->
     IF buffer # Null /\ k < capacity THEN buffer[k] ELSE Unset]

Grown(n) == IF SpaceLeft < n THEN Reallocated(NewCapacity(n)) ELSE buffer

Usable == buffer # Null \/ capacity = 0

CanGrow(n) ==
  /\ Usable
  /\ SpaceLeft < n => AddressSpaceLeft(n)

GrowsBy(n) ==
  /\ CanGrow(n)
  /\ NewCapacity(n) <= PtrdiffMax
  /\ capacity' = NewCapacity(n)
  /\ offset' = offset + n
  /\ slice' = NoSlice /\ popped' = Nothing

(* n bytes of data written into a buffer.                                  *)
Written(b, at, n, data) ==
  [k \in DOMAIN b |-> IF at <= k /\ k < at + n THEN data[k - at] ELSE b[k]]

----------------------------------------------------------------------------
Init ==
  /\ buffer = Null /\ capacity = 0 /\ offset = 0
  /\ slice = NoSlice /\ stack = Nothing /\ popped = Nothing

(* thsn_vector_allocate                                                    *)
Allocate(n) ==
  /\ buffer = Null /\ capacity = 0
  /\ buffer' = Unwritten(n) /\ capacity' = n /\ offset' = 0
  /\ UNCHANGED <<slice, stack, popped>>

(* thsn_vector_free                                                        *)
Free ==
  /\ buffer' = Null /\ capacity' = 0 /\ offset' = 0
  /\ slice' = NoSlice /\ stack' = Nothing /\ popped' = Nothing

PushToOldBlock(n, data) ==
  /\ GrowsBy(n)
  /\ buffer' = IF n = 0 \/ SpaceLeft < n THEN Grown(n)
               ELSE Written(buffer, offset, n, data)
  /\ stack' = Join(stack, offset, data, n)

(* thsn_vector_push                                                        *)
Push(n, data) ==
  /\ GrowsBy(n)
  /\ buffer' = IF n = 0 THEN buffer ELSE Written(Grown(n), offset, n, data)
  /\ stack' = Join(stack, offset, data, n)

(* thsn_vector_grow, for data to be written later.                         *)
Reserve(n) ==
  /\ GrowsBy(n)
  /\ buffer' = Grown(n)
  /\ stack' = Join(stack, offset, Unwritten(n), n)

(* realloc returns NULL.                                                   *)
GrowFails(n) ==
  /\ CanGrow(n) /\ SpaceLeft < n
  /\ buffer' = Null
  /\ slice' = NoSlice /\ popped' = Nothing
  /\ UNCHANGED <<capacity, offset, stack>>

(* thsn_vector_shrink, and thsn_vector_pop, which copies the slice.         *)
Pop(n) ==
  /\ Usable
  /\ n <= offset
  /\ offset' = offset - n
  /\ slice' = [at |-> offset - n, size |-> n]
  /\ stack' = Prefix(stack, offset - n)
  /\ popped' = [k \in 0 .. n - 1 |-> stack[offset - n + k]]
  /\ UNCHANGED <<buffer, capacity>>

(* The conditions of thsn_vector_slice_at_offset and                       *)
(* thsn_vector_mut_slice_at_offset.                                        *)
CanRead(at, n)  == at <= capacity /\ n <= capacity - at

CanWriteAnywhere(at, n) == CanRead(at, n)
CanWrite(at, n) == at <= offset /\ n <= offset - at

(* thsn_vector_mut_slice_at_offset, and data written to the slice.         *)
Overwrite(at, n, data) ==
  /\ Usable /\ n > 0
  /\ CanWrite(at, n)
  /\ buffer' = Written(buffer, at, n, data)
  /\ stack' = Written(stack, at, n, data)
  /\ UNCHANGED <<capacity, offset, slice, popped>>

Next ==
  \/ \E n \in 0 .. PtrdiffMax : Allocate(n)
  \/ Free
  \/ \E n \in 0 .. MaxData : \E data \in Data(n) : Push(n, data)
  \/ \E n \in Sizes : Reserve(n) \/ GrowFails(n)
  \/ \E n \in Sizes : Pop(n)
  \/ \E at \in Sizes, n \in 0 .. MaxData : \E data \in Data(n) : Overwrite(at, n, data)

Spec == Init /\ [][Next]_vars

----------------------------------------------------------------------------
(* Properties.                                                             *)

(* Every variable has its type: the block has as many bytes as the vector   *)
(* says, and none is larger than PTRDIFF_MAX, whatever size was asked for.  *)
TypeOK ==
  /\ capacity \in 0 .. PtrdiffMax /\ offset \in 0 .. PtrdiffMax
  /\ buffer # Null => buffer \in Bytes(capacity)
  /\ slice \in [at : 0 .. PtrdiffMax, size : 0 .. PtrdiffMax]
  /\ stack \in Bytes(offset) /\ popped \in Bytes(slice.size)

(* The space that was asked for is there: what lies before the offset, and  *)
(* every slice that thsn_vector_slice_at_offset hands out of a vector, lies *)
(* in the allocated block, at any size up to SIZE_MAX that a caller asks.   *)
SpaceIsThere ==
  /\ offset <= capacity
  /\ buffer # Null =>
       \A at, n \in Sizes : CanRead(at, n) \/ CanWrite(at, n) =>
                              at .. at + n - 1 \subseteq DOMAIN buffer

(* The vector holds what was pushed into it or written over it, wherever    *)
(* that was written at all, through all growths and moves of its block.     *)
HoldsWhatWasPushed ==
  Usable => \A k \in 0 .. offset - 1 : stack[k] \in Byte => buffer[k] = stack[k]

(* Data that was popped can still be read behind the end of the vector      *)
(* until it grows, whatever is popped or overwritten in the meantime.       *)
PoppedStaysReadable ==
  \A k \in 0 .. slice.size - 1 :
    popped[k] \in Byte => buffer[slice.at + k] = popped[k]
=============================================================================
