------------------------------ MODULE Numbers ------------------------------
(***************************************************************************)
(* How the integers of a text are read and stored: thsn_parser_atoll_checked *)
(* of src/lib/parser.h, thsn_segment_store_int and thsn_segment_read_number  *)
(* of src/lib/segment.h.  The four widths are parameters.  A long long that  *)
(* overflows is undefined in C: here it wraps, as it does in the builds of   *)
(* the Makefile.  Reading an integer as a double is exact here (in the code  *)
(* it is so up to 2^53).                                                   *)
(***************************************************************************)
EXTENDS Integers, Sequences, SequencesExt

CONSTANT Bits  \* of int8_t, int16_t, int32_t and long long

ASSUME BitsAssumption ==
  /\ Bits \in Seq(Nat \ {0}) /\ Bits # <<>>
  /\ \A k \in 2 .. Len(Bits) : Bits[k - 1] < Bits[k]

LongLong == Len(Bits)

Minimum(k) == -(2 ^ (Bits[k] - 1))
Maximum(k) == 2 ^ (Bits[k] - 1) - 1

(* The integer of width k that has the bits of n.                          *)
AsSigned(n, k) == ((n - Minimum(k)) % 2 ^ Bits[k]) + Minimum(k)

Minus      == 45  \* the bytes of '-' and '0'
FirstDigit == 48

(* thsn_parser_atoll_checked of a text of bytes: the digits are accumulated *)
(* as a positive number, and the sign is applied to it in the end.         *)
AtollUnsigned(digits) ==
  FoldLeft(LAMBDA result, c : AsSigned(result * 10 + (c - FirstDigit), LongLong),
           0, digits)

Atoll(text) ==
  IF Head(text) = Minus
  THEN AsSigned(-AtollUnsigned(Tail(text)), LongLong)
  ELSE AtollUnsigned(text)

(* thsn_segment_store_int: the least width that holds the value is the tag's *)
(* size, and the value's bits follow.                                      *)
StoreIntRounded(n) ==
  LET fits == {k \in DOMAIN Bits : Minimum(k) <= n /\ n <= Maximum(k) + 1}
      size == IF n = 0 THEN 0 ELSE CHOOSE k \in fits : \A l \in fits : k <= l
  IN  [size |-> size, bits |-> IF size = 0 THEN 0 ELSE n % 2 ^ Bits[size]]

StoreInt(n) ==
  LET fits == {k \in DOMAIN Bits : Minimum(k) <= n /\ n <= Maximum(k)}
      size == IF n = 0 THEN 0 ELSE CHOOSE k \in fits : \A l \in fits : k <= l
  IN  [size |-> size, bits |-> IF size = 0 THEN 0 ELSE n % 2 ^ Bits[size]]

(* thsn_segment_read_number, of an integer.                                *)
ReadInt(stored) == IF stored.size = 0 THEN 0 ELSE AsSigned(stored.bits, stored.size)
=============================================================================
