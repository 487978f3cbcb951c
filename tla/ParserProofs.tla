----------------------------- MODULE ParserProofs -----------------------------
(***************************************************************************)
(* The parser reads its untyped stack the way it was written, and what it   *)
(* stores can be read element by element, for every number of tokens and    *)
(* every set of kinds of tokens.                                           *)
(***************************************************************************)
EXTENDS Parser, TLAPS, SequenceTheorems

(* What may be on the stack: only two states are ever pushed.              *)
ReturnStates == {"NEXT_ARRAY_ELEMENT", "KV_END"}
AnyWord == {State(s) : s \in ReturnStates} \cup {Offset(o) : o \in Nat}
             \cup {Count(n) : n \in Nat \ {0}}

Headers  == {Header("array"), Header("object")}
AnyCell  == {Leaf(t) : t \in TokenTypes} \cup {ValueHandle(t) : t \in TokenTypes}
              \cup {Empty("array"), Empty("object")} \cup Headers
              \cup [tag : {"array", "object"}, count : Nat, table : Nat]
              \cup {Table(offsets) : offsets \in Seq(Nat)}

Contexts == [state : States, stack : Seq(AnyWord), segment : Seq(AnyCell),
             result : Results]

IsOffset(word) == word[1] = "offset"

(* The offsets on the stack never fall and lie in the segment.              *)
OffsetsRise(stack) ==
  \A k, l \in 1 .. Len(stack) :
    k <= l /\ IsOffset(stack[k]) /\ IsOffset(stack[l]) => stack[k][2] <= stack[l][2]
OffsetsUpTo(stack, n) ==
  \A k \in 1 .. Len(stack) : IsOffset(stack[k]) => stack[k][2] <= n
CountsUpTo(stack, n) ==
  \A k \in 1 .. Len(stack) : stack[k][1] = "count" => stack[k][2] <= n

(* A frame, by the position of its bottom.                                 *)
FrameFrom(stack, segment, bottom, k, type) ==
  /\ stack[k][1] = "count" /\ bottom = k - stack[k][2] - 1
  /\ \A l \in bottom .. k - 1 :
       /\ stack[l][1] = "offset" /\ stack[l][2] <= Len(segment)
       /\ l > bottom => stack[l - 1][2] < stack[l][2]
  /\ segment[stack[bottom][2] + 1] = Header(type)
  /\ bottom = 1 \/ stack[bottom - 1][1] = "state"

(* What has to lie at position k for the parser to go on in a state.        *)
Fits(stack, segment, k, state) ==
  IF state \in DOMAIN TypeOfState
  THEN k >= 1 /\ IsFrame(stack, segment, k, TypeOfState[state])
  ELSE k = 0 \/ stack[k][1] = "state"

(* The count on top of the stack, and what is under the frame it ends.      *)
TopCount(stack) == stack[Len(stack)][2]
UnderFrame(stack) == Len(stack) - TopCount(stack) - 2

(* A header that is not written yet waits at the bottom of a frame.         *)
IsBottom(stack, b) == IsOffset(stack[b]) /\ (b = 1 \/ stack[b - 1][1] = "state")
StartsFrame(stack, b) ==
  IsBottom(stack, b) /\ IsOffset(stack[b + 1]) /\ stack[b][2] < stack[b + 1][2]
UnwrittenWait(stack, segment) ==
  \A p \in 1 .. Len(segment) :
    segment[p] \in Headers =>
      \E b \in 1 .. Len(stack) : IsBottom(stack, b) /\ stack[b][2] + 1 = p

(* The stack and the segment of a parser that can go on in a state.         *)
Sound(stack, segment, state) ==
  /\ OffsetsRise(stack)
  /\ OffsetsUpTo(stack, Len(segment))
  /\ Fits(stack, segment, Len(stack), state)
  /\ \A k \in 1 .. Len(stack) :
       stack[k][1] = "state" => Fits(stack, segment, k - 1, stack[k][2])
  /\ UnwrittenWait(stack, segment)

(* After n tokens.                                                         *)
Bounded(stack, segment, n) ==
  /\ Len(segment) <= 2 * n
  /\ OffsetsUpTo(stack, Len(segment))
  /\ CountsUpTo(stack, n)

(* Between the elements of a composite, the value of its last one has been  *)
(* stored, unless the input ended in its place.                            *)
LastElementStored ==
  context.result = "success" /\ context.state \in DOMAIN TypeOfState /\ ~AtEnd =>
    \A k \in 1 .. Len(context.stack) :
      IsOffset(context.stack[k]) => context.stack[k][2] < Len(context.segment)

ParserInv ==
  /\ read \in Seq(TokenTypes) /\ Len(read) <= MaxTokens
  /\ context \in Contexts
  /\ Bounded(context.stack, context.segment, Len(read))
  /\ context.result # "mismatch"
  /\ context.result = "success" => Sound(context.stack, context.segment, context.state)
  /\ context.result = "finished" =>
       UnwrittenWait(context.stack, context.segment) /\ context.stack = <<>>
  /\ LastElementStored

----------------------------------------------------------------------------
(* Words and cells.                                                        *)

(* A word is what its first part says.                                     *)
LEMMA WordKinds ==
  /\ \A w \in AnyWord : /\ w[1] \in {"state", "offset", "count"}
                        /\ w[1] = "state" => w[2] \in ReturnStates
                        /\ w[1] = "offset" => w[2] \in Nat
                        /\ w[1] = "count" => w[2] \in Nat \ {0}
  /\ \A s \in ReturnStates : State(s) \in AnyWord
  /\ \A n \in Nat : Offset(n) \in AnyWord
  /\ \A n \in Nat \ {0} : Count(n) \in AnyWord
BY DEF AnyWord, State, Offset, Count

(* The two parts of the words that the parser pushes.                      *)
LEMMA WordParts ==
  /\ \A s : State(s)[1] = "state" /\ State(s)[2] = s
  /\ \A n : Offset(n)[1] = "offset" /\ Offset(n)[2] = n
  /\ \A n : Count(n)[1] = "count" /\ Count(n)[2] = n
BY DEF State, Offset, Count

(* Only a composite's header that is not written yet is one of Headers.     *)
LEMMA CellKinds ==
  /\ \A t \in TokenTypes : Leaf(t) \in AnyCell /\ Leaf(t) \notin Headers
  /\ \A t \in TokenTypes : ValueHandle(t) \in AnyCell /\ ValueHandle(t) \notin Headers
  /\ \A type \in {"array", "object"} :
       /\ Empty(type) \in AnyCell /\ Empty(type) \notin Headers
       /\ Header(type) \in AnyCell /\ Header(type) \in Headers
       /\ \A n, m \in Nat : Written(type, n, m) \in AnyCell \ Headers
  /\ \A offsets \in Seq(Nat) : Table(offsets) \in AnyCell /\ Table(offsets) \notin Headers
<1>1. \A t \in TokenTypes : Leaf(t) \in AnyCell /\ Leaf(t) \notin Headers
  BY DEF AnyCell, Headers, Header, Written, Leaf
<1>2. \A t \in TokenTypes : ValueHandle(t) \in AnyCell /\ ValueHandle(t) \notin Headers
  BY DEF AnyCell, Headers, Header, Written, ValueHandle
<1>3. \A type \in {"array", "object"} :
       /\ Empty(type) \in AnyCell /\ Empty(type) \notin Headers
       /\ Header(type) \in AnyCell /\ Header(type) \in Headers
  BY DEF AnyCell, Headers, Header, Written, Empty, NotWritten
<1>4. ASSUME NEW type \in {"array", "object"}, NEW n \in Nat, NEW m \in Nat
      PROVE  Written(type, n, m) \in AnyCell \ Headers
  <2>1. Written(type, n, m) \in [tag : {"array", "object"}, count : Nat, table : Nat]
    BY DEF Written
  <2>2. Written(type, n, m) \notin Headers
    BY DEF Headers, Header, Written, NotWritten
  <2> QED
    BY <2>1, <2>2 DEF AnyCell
<1>5. \A offsets \in Seq(Nat) : Table(offsets) \in AnyCell /\ Table(offsets) \notin Headers
  BY DEF AnyCell, Headers, Header, Written, Table
<1> QED
  BY <1>1, <1>2, <1>3, <1>4, <1>5

(* The tags of the cells.                                                  *)
LEMMA CellTags ==
  \A cell \in AnyCell : cell.tag \in {"leaf", "handle", "table", "array", "object"}
BY DEF AnyCell, Headers, Header, Written, Leaf, ValueHandle, Table, Empty

(* The last word of a stack and the rest of it.                            *)
LEMMA FrontAndLast ==
  ASSUME NEW stack \in Seq(AnyWord), stack # <<>>
  PROVE  /\ Len(stack) \in Nat \ {0}
         /\ Last(stack) = stack[Len(stack)] /\ Last(stack) \in AnyWord
         /\ Front(stack) \in Seq(AnyWord)
         /\ Len(Front(stack)) = Len(stack) - 1
         /\ \A k \in 1 .. Len(stack) - 1 : Front(stack)[k] = stack[k]
<1>1. Len(stack) \in Nat \ {0}
  BY EmptySeq
<1>2. \A k \in 1 .. Len(stack) - 1 : stack[k] \in AnyWord
  BY <1>1, LenProperties
<1>3. /\ Front(stack) \in Seq(AnyWord)
      /\ Len(Front(stack)) = Len(stack) - 1
      /\ \A k \in 1 .. Len(stack) - 1 : Front(stack)[k] = stack[k]
  <2> DEFINE n == Len(stack) - 1
  <2>1. n \in Nat /\ \A i \in 1 .. n : stack[i] \in AnyWord
    BY <1>1, <1>2
  <2>2. /\ SubSeq(stack, 1, n) \in Seq(AnyWord)
        /\ Len(SubSeq(stack, 1, n)) = n
        /\ \A i \in 1 .. n : SubSeq(stack, 1, n)[i] = stack[i]
    <3> HIDE DEF n
    <3>1. /\ SubSeq(stack, 1, n) \in Seq(AnyWord)
          /\ Len(SubSeq(stack, 1, n)) = IF 1 <= n THEN n - 1 + 1 ELSE 0
          /\ \A i \in 1 .. n - 1 + 1 : SubSeq(stack, 1, n)[i] = stack[1 + i - 1]
      BY <2>1, SubSeqProperties
    <3> QED
      BY <2>1, <3>1
  <2>3. Front(stack) = SubSeq(stack, 1, n)
    BY DEF Front
  <2> QED
    BY <2>2, <2>3
<1>4. Last(stack) = stack[Len(stack)] /\ Last(stack) \in AnyWord
  BY <1>1, LenProperties DEF Last
<1> QED
  BY <1>1, <1>3, <1>4

(* What one word more, and one cell more, change.                          *)
LEMMA OneWordMore ==
  ASSUME NEW stack \in Seq(AnyWord), NEW word \in AnyWord
  PROVE  /\ stack \o <<word>> \in Seq(AnyWord)
         /\ Len(stack) \in Nat /\ Len(stack \o <<word>>) = Len(stack) + 1
         /\ \A k \in 1 .. Len(stack) : (stack \o <<word>>)[k] = stack[k]
         /\ (stack \o <<word>>)[Len(stack) + 1] = word
<1>1. <<word>> \in Seq(AnyWord) /\ Len(<<word>>) = 1 /\ <<word>>[1] = word
  OBVIOUS
<1> QED
  BY <1>1, ConcatProperties, LenProperties

(* Storing a cell leaves the cells before it where they are.               *)
LEMMA OneCellMore ==
  ASSUME NEW segment \in Seq(AnyCell), NEW cell \in AnyCell
  PROVE  /\ Append(segment, cell) \in Seq(AnyCell)
         /\ Len(segment) \in Nat /\ Len(Append(segment, cell)) = Len(segment) + 1
         /\ \A k \in 1 .. Len(segment) : Append(segment, cell)[k] = segment[k]
         /\ Append(segment, cell)[Len(segment) + 1] = cell
BY AppendProperties, LenProperties

----------------------------------------------------------------------------
(* Frames.                                                                 *)

(* The parts of a frame, from its bottom to the count on its top.           *)
LEMMA FrameParts ==
  ASSUME NEW stack \in Seq(AnyWord), NEW segment, NEW k \in 1 .. Len(stack), NEW type
  PROVE  IsFrame(stack, segment, k, type) <=>
           \E bottom \in 1 .. k - 2 : FrameFrom(stack, segment, bottom, k, type)
<1>1. stack[k] \in AnyWord
  BY LenProperties
<1>2. stack[k][1] = "count" => stack[k][2] \in Nat \ {0}
  BY <1>1, WordKinds
<1>3. ASSUME IsFrame(stack, segment, k, type)
      PROVE  \E bottom \in 1 .. k - 2 : FrameFrom(stack, segment, bottom, k, type)
  <2>1. k - stack[k][2] - 1 \in 1 .. k - 2
    <3>1. stack[k][2] \in Nat \ {0} /\ k \in Nat
      BY <1>2, <1>3, LenProperties DEF IsFrame
    <3>2. k - stack[k][2] - 1 >= 1
      BY <1>3 DEF IsFrame
    <3> QED
      BY <3>1, <3>2
  <2>2. FrameFrom(stack, segment, k - stack[k][2] - 1, k, type)
    BY <1>3 DEF IsFrame, FrameFrom
  <2> QED
    BY <2>1, <2>2
<1>4. ASSUME NEW bottom \in 1 .. k - 2, FrameFrom(stack, segment, bottom, k, type)
      PROVE  IsFrame(stack, segment, k, type)
  <2>1. bottom >= 1
    OBVIOUS
  <2> QED
    BY <1>4, <2>1 DEF IsFrame, FrameFrom
<1> QED
  BY <1>3, <1>4

(* A frame, or a state, that lies low enough on the stack is not disturbed  *)
(* by what happens above it and by what is stored.                         *)
LEMMA FitsBelow ==
  ASSUME NEW stack \in Seq(AnyWord), NEW other \in Seq(AnyWord),
         NEW segment \in Seq(AnyCell), NEW more \in Seq(AnyCell),
         NEW k \in Nat, k <= Len(stack), k <= Len(other), NEW state,
         \A l \in 1 .. k : other[l] = stack[l],
         Len(segment) <= Len(more),
         \A b \in 1 .. k - 1 : StartsFrame(stack, b) /\ stack[b][2] < Len(segment) =>
           more[stack[b][2] + 1] = segment[stack[b][2] + 1],
         Fits(stack, segment, k, state)
  PROVE  Fits(other, more, k, state)
<1>0. /\ Len(segment) \in Nat /\ Len(more) \in Nat /\ Len(stack) \in Nat
      /\ \A l \in 1 .. k : stack[l] \in AnyWord
  BY LenProperties
<1>1. CASE state \notin DOMAIN TypeOfState
  BY <1>1 DEF Fits
<1>2. CASE state \in DOMAIN TypeOfState
  <2> DEFINE type == TypeOfState[state]
  <2>1. k \in 1 .. Len(stack) /\ IsFrame(stack, segment, k, type)
    BY <1>0, <1>2 DEF Fits
  <2>2. PICK bottom \in 1 .. k - 2 : FrameFrom(stack, segment, bottom, k, type)
    BY <2>1, FrameParts
  <2>3. \A l \in bottom .. k - 1 :
          /\ stack[l][1] = "offset" /\ stack[l][2] <= Len(segment)
          /\ l > bottom => stack[l - 1][2] < stack[l][2]
    BY <2>2 DEF FrameFrom
  <2>4. StartsFrame(stack, bottom)
    <3>1. /\ bottom \in bottom .. k - 1 /\ bottom + 1 \in bottom .. k - 1
          /\ bottom + 1 > bottom /\ (bottom + 1) - 1 = bottom
      OBVIOUS
    <3>2. stack[bottom][1] = "offset" /\ stack[bottom + 1][1] = "offset"
      BY <2>3, <3>1
    <3>3. stack[bottom][2] < stack[bottom + 1][2]
      BY <2>3, <3>1
    <3> QED
      BY <2>2, <3>2, <3>3 DEF FrameFrom, StartsFrame, IsBottom, IsOffset
  <2>5. more[stack[bottom][2] + 1] = Header(type)
    <3>1. bottom \in 1 .. k - 1 /\ segment[stack[bottom][2] + 1] = Header(type)
      BY <2>2 DEF FrameFrom
    <3>2. stack[bottom][2] < Len(segment)
      <4>1. bottom + 1 \in bottom .. k - 1 /\ bottom + 1 > bottom
        OBVIOUS
      <4>2. stack[bottom + 1][2] <= Len(segment) /\ stack[bottom][2] < stack[bottom + 1][2]
        BY <2>3, <4>1
      <4>3. stack[bottom] \in AnyWord /\ stack[bottom + 1] \in AnyWord
        BY <1>0, <4>1
      <4>4. stack[bottom][2] \in Nat /\ stack[bottom + 1][2] \in Nat
        BY <2>3, <4>1, <4>3, WordKinds
      <4> QED
        BY <1>0, <4>2, <4>4
    <3> QED
      BY <2>4, <3>1, <3>2
  <2>6. ASSUME NEW l \in bottom .. k - 1
        PROVE  /\ other[l][1] = "offset" /\ other[l][2] <= Len(more)
               /\ l > bottom => other[l - 1][2] < other[l][2]
    <3>1. l \in 1 .. k /\ (l > bottom => l - 1 \in 1 .. k)
      OBVIOUS
    <3>2. stack[l][2] \in Nat
      BY <1>0, <2>3, <3>1, WordKinds
    <3>3. other[l] = stack[l] /\ (l > bottom => other[l - 1] = stack[l - 1])
      BY <3>1
    <3> QED
      BY <1>0, <2>3, <3>2, <3>3
  <2>7. FrameFrom(other, more, bottom, k, type)
    <3>1. other[bottom] = stack[bottom] /\ other[k] = stack[k]
      BY <2>1
    <3>2. bottom = 1 \/ other[bottom - 1] = stack[bottom - 1]
      OBVIOUS
    <3> QED
      BY <2>2, <2>5, <2>6, <3>1, <3>2 DEF FrameFrom
  <2>8. IsFrame(other, more, k, type)
    <3>1. k \in 1 .. Len(other)
      BY <2>1
    <3> QED
      BY <2>7, <3>1, FrameParts
  <2> QED
    BY <1>2, <2>1, <2>8 DEF Fits
<1> QED
  BY <1>1, <1>2

(* And so are the states that lie low enough.                              *)
LEMMA StatesFitBelow ==
  ASSUME NEW stack \in Seq(AnyWord), NEW other \in Seq(AnyWord),
         NEW segment \in Seq(AnyCell), NEW more \in Seq(AnyCell),
         NEW m \in Nat, m <= Len(stack), m <= Len(other),
         \A l \in 1 .. m : other[l] = stack[l],
         Len(segment) <= Len(more),
         \A b \in 1 .. m - 1 : StartsFrame(stack, b) /\ stack[b][2] < Len(segment) =>
           more[stack[b][2] + 1] = segment[stack[b][2] + 1],
         NEW state, Sound(stack, segment, state)
  PROVE  \A k \in 1 .. m :
           other[k][1] = "state" => Fits(other, more, k - 1, other[k][2])
<1> SUFFICES ASSUME NEW k \in 1 .. m, other[k][1] = "state"
             PROVE  Fits(other, more, k - 1, other[k][2])
  OBVIOUS
<1>1. Len(stack) \in Nat /\ Len(other) \in Nat
  BY LenProperties
<1>2. k \in 1 .. Len(stack) /\ other[k] = stack[k]
  BY <1>1
<1>3. Fits(stack, segment, k - 1, other[k][2])
  BY <1>2 DEF Sound
<1>4. /\ k - 1 \in Nat /\ k - 1 <= Len(stack) /\ k - 1 <= Len(other)
      /\ \A l \in 1 .. k - 1 : l \in 1 .. m
      /\ \A b \in 1 .. (k - 1) - 1 : b \in 1 .. m - 1
  BY <1>1
<1> QED
  BY <1>3, <1>4, FitsBelow

----------------------------------------------------------------------------
(* The operations on a context's stack and segment.                        *)

(* Storing a value leaves the stack as it should be.                        *)
LEMMA StoreSound ==
  ASSUME NEW stack \in Seq(AnyWord), NEW segment \in Seq(AnyCell), NEW state,
         NEW cell \in AnyCell \ Headers, Sound(stack, segment, state)
  PROVE  Sound(stack, Append(segment, cell), state)
<1> DEFINE more == Append(segment, cell)
<1>1. /\ more \in Seq(AnyCell) /\ Len(segment) \in Nat /\ Len(stack) \in Nat
      /\ Len(more) = Len(segment) + 1 /\ more[Len(segment) + 1] = cell
      /\ \A k \in 1 .. Len(segment) : more[k] = segment[k]
      /\ \A k \in 1 .. Len(stack) : stack[k] \in AnyWord
  BY OneCellMore, LenProperties
<1>2. \A k \in 1 .. Len(stack) : IsOffset(stack[k]) => stack[k][2] \in Nat
  BY <1>1, WordKinds DEF IsOffset
<1> HIDE DEF more
<1>3. OffsetsUpTo(stack, Len(more))
  BY <1>1, <1>2 DEF Sound, OffsetsUpTo
<1>4. \A b \in 1 .. Len(stack) - 1 : StartsFrame(stack, b) /\ stack[b][2] < Len(segment) =>
        more[stack[b][2] + 1] = segment[stack[b][2] + 1]
  <2> SUFFICES ASSUME NEW b \in 1 .. Len(stack) - 1, StartsFrame(stack, b),
                      stack[b][2] < Len(segment)
               PROVE  more[stack[b][2] + 1] = segment[stack[b][2] + 1]
    OBVIOUS
  <2>1. stack[b][2] \in Nat
    BY <1>1, <1>2 DEF StartsFrame, IsBottom
  <2>2. stack[b][2] + 1 \in 1 .. Len(segment)
    BY <1>1, <2>1
  <2> QED
    BY <1>1, <2>2
<1>t. /\ Len(stack) <= Len(stack) /\ Len(segment) <= Len(more)
      /\ \A l \in 1 .. Len(stack) : stack[l] = stack[l]
  BY <1>1
<1>5. Fits(stack, more, Len(stack), state)
  BY <1>1, <1>t, <1>4, FitsBelow DEF Sound
<1>6. \A k \in 1 .. Len(stack) :
        stack[k][1] = "state" => Fits(stack, more, k - 1, stack[k][2])
  BY <1>1, <1>t, <1>4, StatesFitBelow
<1>7. UnwrittenWait(stack, more)
  <2> SUFFICES ASSUME NEW p \in 1 .. Len(more), more[p] \in Headers
               PROVE  \E b \in 1 .. Len(stack) : IsBottom(stack, b) /\ stack[b][2] + 1 = p
    BY DEF UnwrittenWait
  <2>1. p \in 1 .. Len(segment) /\ segment[p] \in Headers
    BY <1>1
  <2> QED
    BY <2>1 DEF Sound, UnwrittenWait
<1>8. Sound(stack, more, state)
  BY <1>3, <1>5, <1>6, <1>7 DEF Sound
<1> QED
  BY <1>8 DEF more

(* A state is pushed on the frame it is for, or popped off it again.        *)
LEMMA PushStateSound ==
  ASSUME NEW stack \in Seq(AnyWord), NEW segment \in Seq(AnyCell),
         NEW s \in ReturnStates, NEW state, state \notin DOMAIN TypeOfState,
         Sound(stack, segment, s)
  PROVE  Sound(stack \o <<State(s)>>, segment, state)
<1> DEFINE other == stack \o <<State(s)>>
<1>1. /\ other \in Seq(AnyWord) /\ Len(segment) \in Nat /\ Len(stack) \in Nat
      /\ Len(other) = Len(stack) + 1
      /\ \A k \in 1 .. Len(stack) : other[k] = stack[k]
      /\ other[Len(stack) + 1] = State(s)
  BY OneWordMore, LenProperties, WordKinds
<1>2. State(s)[1] = "state" /\ State(s)[2] = s /\ ~IsOffset(State(s))
  BY WordParts DEF IsOffset
<1> HIDE DEF other
<1>3. \A k \in 1 .. Len(other) : IsOffset(other[k]) => k \in 1 .. Len(stack)
  BY <1>1, <1>2
<1>4. OffsetsRise(other) /\ OffsetsUpTo(other, Len(segment))
  BY <1>1, <1>3 DEF Sound, OffsetsRise, OffsetsUpTo
<1>5. Fits(other, segment, Len(other), state)
  BY <1>1, <1>2 DEF Fits
<1>t. /\ Len(stack) <= Len(stack) /\ Len(stack) <= Len(other)
      /\ Len(segment) <= Len(segment)
  BY <1>1
<1>k. \A k \in 1 .. Len(stack) :
        other[k][1] = "state" => Fits(other, segment, k - 1, other[k][2])
  BY <1>1, <1>t, StatesFitBelow
<1>6. ASSUME NEW k \in 1 .. Len(other), other[k][1] = "state"
      PROVE  Fits(other, segment, k - 1, other[k][2])
  <2>1. CASE k \in 1 .. Len(stack)
    BY <1>6, <1>k, <2>1
  <2>2. CASE k = Len(stack) + 1
    <3>1. Fits(stack, segment, Len(stack), s)
      BY DEF Sound
    <3>2. Fits(other, segment, Len(stack), s)
      BY <1>1, <1>t, <3>1, FitsBelow
    <3> QED
      BY <1>1, <1>2, <2>2, <3>2
  <2> QED
    BY <1>1, <2>1, <2>2
<1>7. UnwrittenWait(other, segment)
  <2> SUFFICES ASSUME NEW p \in 1 .. Len(segment), segment[p] \in Headers
               PROVE  \E b \in 1 .. Len(other) : IsBottom(other, b) /\ other[b][2] + 1 = p
    BY DEF UnwrittenWait
  <2>1. PICK b \in 1 .. Len(stack) : IsBottom(stack, b) /\ stack[b][2] + 1 = p
    BY DEF Sound, UnwrittenWait
  <2>2. b \in 1 .. Len(other) /\ other[b] = stack[b] /\ (b = 1 \/ other[b - 1] = stack[b - 1])
    BY <1>1
  <2> QED
    BY <2>1, <2>2 DEF IsBottom
<1>8. Sound(other, segment, state)
  BY <1>4, <1>5, <1>6, <1>7 DEF Sound
<1> QED
  BY <1>8 DEF other

(* Popping a state leaves what that state goes on with                     *)
(* (thsn_parser_reset_state).                                              *)
LEMMA PopStateSound ==
  ASSUME NEW stack \in Seq(AnyWord), NEW segment \in Seq(AnyCell), NEW state,
         stack # <<>>, Last(stack)[1] = "state", Sound(stack, segment, state)
  PROVE  /\ Last(stack)[2] \in ReturnStates
         /\ Sound(Front(stack), segment, Last(stack)[2])
<1> DEFINE other == Front(stack)
<1> DEFINE s == Last(stack)[2]
<1>1. /\ other \in Seq(AnyWord) /\ Len(segment) \in Nat /\ Len(stack) \in Nat \ {0}
      /\ Len(other) = Len(stack) - 1
      /\ \A k \in 1 .. Len(other) : other[k] = stack[k]
      /\ s \in ReturnStates /\ stack[Len(stack)] = Last(stack)
  BY FrontAndLast, LenProperties, WordKinds
<1> HIDE DEF other, s
<1>t. /\ Len(other) \in Nat /\ Len(other) <= Len(stack) /\ Len(other) <= Len(other)
      /\ Len(segment) <= Len(segment)
      /\ \A k \in 1 .. Len(other) : k \in 1 .. Len(stack)
  BY <1>1
<1>2. OffsetsRise(other) /\ OffsetsUpTo(other, Len(segment))
  BY <1>1, <1>t DEF Sound, OffsetsRise, OffsetsUpTo
<1>3. Fits(other, segment, Len(other), s)
  <2>1. Fits(stack, segment, Len(stack) - 1, s)
    <3>1. Len(stack) \in 1 .. Len(stack)
      BY <1>1
    <3> QED
      BY <1>1, <3>1 DEF Sound, s
  <2>2. Fits(stack, segment, Len(other), s)
    BY <1>1, <2>1
  <2> QED
    BY <1>1, <1>t, <2>2, FitsBelow
<1>4. \A k \in 1 .. Len(other) :
        other[k][1] = "state" => Fits(other, segment, k - 1, other[k][2])
  BY <1>1, <1>t, StatesFitBelow
<1>5. UnwrittenWait(other, segment)
  <2> SUFFICES ASSUME NEW p \in 1 .. Len(segment), segment[p] \in Headers
               PROVE  \E b \in 1 .. Len(other) : IsBottom(other, b) /\ other[b][2] + 1 = p
    BY DEF UnwrittenWait
  <2>1. PICK b \in 1 .. Len(stack) : IsBottom(stack, b) /\ stack[b][2] + 1 = p
    BY DEF Sound, UnwrittenWait
  <2>2. b # Len(stack)
    BY <1>1, <2>1 DEF IsBottom, IsOffset
  <2>3. b \in 1 .. Len(other) /\ other[b] = stack[b] /\ (b = 1 \/ other[b - 1] = stack[b - 1])
    BY <1>1, <2>2
  <2> QED
    BY <2>1, <2>3 DEF IsBottom
<1>6. Sound(other, segment, s)
  BY <1>2, <1>3, <1>4, <1>5 DEF Sound
<1> QED
  BY <1>1, <1>6 DEF other, s

(* What three words more change.                                           *)
LEMMA ThreeWordsMore ==
  ASSUME NEW stack \in Seq(AnyWord), NEW u \in AnyWord, NEW v \in AnyWord,
         NEW w \in AnyWord
  PROVE  /\ stack \o <<u, v, w>> \in Seq(AnyWord)
         /\ Len(stack) \in Nat /\ Len(stack \o <<u, v, w>>) = Len(stack) + 3
         /\ \A k \in 1 .. Len(stack) : (stack \o <<u, v, w>>)[k] = stack[k]
         /\ (stack \o <<u, v, w>>)[Len(stack) + 1] = u
         /\ (stack \o <<u, v, w>>)[Len(stack) + 2] = v
         /\ (stack \o <<u, v, w>>)[Len(stack) + 3] = w
<1>1. /\ <<u, v, w>> \in Seq(AnyWord) /\ Len(<<u, v, w>>) = 3
      /\ <<u, v, w>>[1] = u /\ <<u, v, w>>[2] = v /\ <<u, v, w>>[3] = w
  OBVIOUS
<1> QED
  BY <1>1, ConcatProperties, LenProperties

(* A composite begins: its header is stored, its frame pushed.              *)
LEMMA OpenSound ==
  ASSUME NEW stack \in Seq(AnyWord), NEW segment \in Seq(AnyCell),
         NEW state, state \notin DOMAIN TypeOfState,
         NEW s \in DOMAIN TypeOfState, Sound(stack, segment, state),
         NEW other \in Seq(AnyWord), Len(other) = Len(stack) + 3,
         \A k \in 1 .. Len(stack) : other[k] = stack[k],
         other[Len(stack) + 1] = Offset(Len(segment)),
         other[Len(stack) + 2] = Offset(Len(segment) + 1),
         other[Len(stack) + 3] = Count(1)
  PROVE  Sound(other, Append(segment, Header(TypeOfState[s])), s)
<1> DEFINE type == TypeOfState[s]
<1> DEFINE size == Len(segment)
<1> DEFINE top == Len(stack)
<1> DEFINE more == Append(segment, Header(type))
<1>1. type \in {"array", "object"}
  BY DEF TypeOfState
<1>2. /\ more \in Seq(AnyCell) /\ size \in Nat /\ Len(more) = size + 1
      /\ more[size + 1] = Header(type)
      /\ \A k \in 1 .. size : more[k] = segment[k]
  BY <1>1, OneCellMore, CellKinds
<1>4. /\ top \in Nat /\ \A k \in 1 .. top : stack[k] \in AnyWord
  BY LenProperties
<1> HIDE DEF type, size, top, more
<1>5. Len(other) = top + 3
  BY DEF top
<1>6. /\ \A k \in 1 .. top : other[k] = stack[k]
      /\ other[top + 1] = Offset(size)
      /\ other[top + 2] = Offset(size + 1)
      /\ other[top + 3] = Count(1)
  BY DEF top, size
<1>7. /\ \A k \in 1 .. top : IsOffset(stack[k]) => stack[k][2] \in Nat /\ stack[k][2] <= size
      /\ \A k, l \in 1 .. top : k <= l /\ IsOffset(stack[k]) /\ IsOffset(stack[l])
                                => stack[k][2] <= stack[l][2]
  BY <1>4, WordKinds DEF IsOffset, Sound, OffsetsUpTo, OffsetsRise, size, top
<1>8. /\ other[top + 1][1] = "offset" /\ other[top + 1][2] = size
      /\ other[top + 2][1] = "offset" /\ other[top + 2][2] = size + 1
      /\ other[top + 3][1] = "count" /\ other[top + 3][2] = 1
  BY <1>6, WordParts
<1>9. OffsetsUpTo(other, Len(more))
  <2> SUFFICES ASSUME NEW k \in 1 .. top + 3, IsOffset(other[k])
               PROVE  other[k][2] <= size + 1
    BY <1>2, <1>5 DEF OffsetsUpTo
  <2>1. CASE k \in 1 .. top
    BY <1>2, <1>6, <1>7, <2>1
  <2>2. CASE k \in {top + 1, top + 2}
    BY <1>2, <1>8, <2>2
  <2>3. CASE k = top + 3
    BY <1>8, <2>3 DEF IsOffset
  <2> QED
    BY <1>4, <2>1, <2>2, <2>3
<1>10. OffsetsRise(other)
  <2> SUFFICES ASSUME NEW k \in 1 .. top + 3, NEW l \in 1 .. top + 3, k <= l,
                      IsOffset(other[k]), IsOffset(other[l])
               PROVE  other[k][2] <= other[l][2]
    BY <1>5 DEF OffsetsRise
  <2>1. k # top + 3 /\ l # top + 3
    BY <1>8 DEF IsOffset
  <2>2. CASE l \in 1 .. top
    <3>1. k \in 1 .. top
      BY <1>4, <2>2
    <3> QED
      BY <1>6, <1>7, <2>2, <3>1
  <2>3. CASE k \in 1 .. top /\ l \notin 1 .. top
    <3>1. other[k][2] \in Nat /\ other[k][2] <= size
      BY <1>6, <1>7, <2>3
    <3>2. l = top + 1 \/ l = top + 2
      BY <1>4, <2>1, <2>3
    <3>3. other[l][2] = size \/ other[l][2] = size + 1
      BY <1>8, <3>2
    <3> QED
      BY <1>2, <3>1, <3>3
  <2>4. CASE k \notin 1 .. top /\ l \notin 1 .. top
    <3>1. k = top + 1 \/ (k = top + 2 /\ l = top + 2)
      BY <1>4, <2>1, <2>4
    <3>2. l = top + 1 \/ l = top + 2
      BY <1>4, <2>1, <2>4
    <3>3. other[l][2] = size \/ other[l][2] = size + 1
      BY <1>8, <3>2
    <3>4. CASE k = top + 1
      BY <1>2, <1>8, <3>3, <3>4
    <3>5. CASE k = top + 2 /\ l = top + 2
      <4>1. k = l /\ other[l][2] = size + 1
        BY <1>8, <3>5
      <4> QED
        BY <1>2, <4>1
    <3> QED
      BY <3>1, <3>4, <3>5
  <2> QED
    BY <2>2, <2>3, <2>4
<1>11. \A b \in 1 .. top - 1 : StartsFrame(stack, b) /\ stack[b][2] < size =>
         more[stack[b][2] + 1] = segment[stack[b][2] + 1]
  <2> SUFFICES ASSUME NEW b \in 1 .. top - 1, StartsFrame(stack, b), stack[b][2] < size
               PROVE  more[stack[b][2] + 1] = segment[stack[b][2] + 1]
    OBVIOUS
  <2>1. stack[b][2] \in Nat
    BY <1>4, <1>7 DEF StartsFrame, IsBottom
  <2>2. \A n \in Nat : n < size => n + 1 \in 1 .. size
    BY <1>2
  <2>3. stack[b][2] + 1 \in 1 .. size
    BY <2>1, <2>2
  <2> QED
    BY <1>2, <2>3
<1>12. top = 0 \/ other[top][1] = "state"
  <2>1. top = 0 \/ stack[top][1] = "state"
    BY DEF Sound, Fits, top
  <2> QED
    BY <1>4, <1>6, <2>1
<1>13. Fits(other, more, Len(other), s)
  <2>1. FrameFrom(other, more, top + 1, top + 3, type)
    <3>1. \A l \in top + 1 .. (top + 3) - 1 :
            /\ other[l][1] = "offset" /\ other[l][2] <= Len(more)
            /\ l > top + 1 => other[l - 1][2] < other[l][2]
      <4> SUFFICES ASSUME NEW l \in top + 1 .. (top + 3) - 1
                   PROVE  /\ other[l][1] = "offset" /\ other[l][2] <= Len(more)
                          /\ l > top + 1 => other[l - 1][2] < other[l][2]
        OBVIOUS
      <4>1. CASE l = top + 1
        BY <1>2, <1>4, <1>8, <4>1
      <4>2. CASE l = top + 2
        <5>1. l - 1 = top + 1
          BY <1>4, <4>2
        <5> QED
          BY <1>2, <1>4, <1>8, <4>2, <5>1
      <4> QED
        BY <1>4, <4>1, <4>2
    <3>2. other[top + 3][1] = "count" /\ top + 1 = (top + 3) - other[top + 3][2] - 1
      BY <1>4, <1>8
    <3>3. more[other[top + 1][2] + 1] = Header(type)
      BY <1>2, <1>8
    <3>4. top + 1 = 1 \/ other[(top + 1) - 1][1] = "state"
      BY <1>4, <1>12
    <3> QED
      BY <3>1, <3>2, <3>3, <3>4 DEF FrameFrom
  <2>2. top + 3 \in 1 .. Len(other) /\ top + 1 \in 1 .. (top + 3) - 2
    BY <1>4, <1>5
  <2>3. IsFrame(other, more, top + 3, type)
    BY <1>5, <2>1, <2>2, FrameParts
  <2> QED
    BY <1>4, <1>5, <2>3 DEF Fits, type
<1>14. ASSUME NEW k \in 1 .. Len(other), other[k][1] = "state"
       PROVE  Fits(other, more, k - 1, other[k][2])
  <2>1. k \in 1 .. top
    BY <1>4, <1>5, <1>8, <1>14
  <2>2. /\ top <= top /\ top <= Len(other) /\ size <= Len(more)
    BY <1>2, <1>4, <1>5
  <2>3. \A i \in 1 .. top :
          other[i][1] = "state" => Fits(other, more, i - 1, other[i][2])
    BY <1>2, <1>4, <1>5, <1>6, <1>11, <2>2, StatesFitBelow DEF top, size
  <2> QED
    BY <1>14, <2>1, <2>3
<1>15. UnwrittenWait(other, more)
  <2> SUFFICES ASSUME NEW p \in 1 .. size + 1, more[p] \in Headers
               PROVE  \E b \in 1 .. top + 3 : IsBottom(other, b) /\ other[b][2] + 1 = p
    BY <1>2, <1>5 DEF UnwrittenWait
  <2>1. CASE p \in 1 .. size
    <3>1. segment[p] \in Headers
      BY <1>2, <2>1
    <3>2. PICK b \in 1 .. top : IsBottom(stack, b) /\ stack[b][2] + 1 = p
      BY <2>1, <3>1 DEF Sound, UnwrittenWait, top, size
    <3>3. /\ b \in 1 .. top + 3 /\ other[b] = stack[b]
          /\ b = 1 \/ other[b - 1] = stack[b - 1]
      BY <1>4, <1>6
    <3> QED
      BY <3>2, <3>3 DEF IsBottom
  <2>2. CASE p = size + 1
    <3>1. top + 1 \in 1 .. top + 3 /\ (top + 1) - 1 = top
      BY <1>4
    <3>2. IsBottom(other, top + 1)
      BY <1>4, <1>8, <1>12, <3>1 DEF IsBottom, IsOffset
    <3> QED
      BY <1>8, <2>2, <3>1, <3>2
  <2> QED
    BY <1>2, <2>1, <2>2
<1> QED
  BY <1>5, <1>9, <1>10, <1>13, <1>14, <1>15 DEF Sound, more, type

(* A further element begins where the last one ended.                       *)
LEMMA AddSound ==
  ASSUME NEW stack \in Seq(AnyWord), NEW segment \in Seq(AnyCell),
         NEW s \in DOMAIN TypeOfState, Sound(stack, segment, s),
         \A k \in 1 .. Len(stack) : IsOffset(stack[k]) => stack[k][2] < Len(segment),
         NEW other \in Seq(AnyWord), Len(other) = Len(stack) + 1,
         \A k \in 1 .. Len(stack) - 1 : other[k] = stack[k],
         other[Len(stack)] = Offset(Len(segment)),
         other[Len(stack) + 1] = Count(stack[Len(stack)][2] + 1)
  PROVE  Sound(other, segment, s)
<1> DEFINE type == TypeOfState[s]
<1> DEFINE size == Len(segment)
<1> DEFINE top == Len(stack)
<1> DEFINE n == stack[top][2]
<1>1. /\ size \in Nat /\ top \in Nat /\ \A k \in 1 .. top : stack[k] \in AnyWord
  BY LenProperties
<1>2. Len(other) = top + 1
  BY DEF top
<1>3. top \in 1 .. Len(stack) /\ IsFrame(stack, segment, top, type)
  BY <1>1 DEF Sound, Fits
<1> HIDE DEF type
<1>4. PICK bottom \in 1 .. top - 2 : FrameFrom(stack, segment, bottom, top, type)
  BY <1>3, FrameParts
<1>5. /\ stack[top][1] = "count" /\ n \in Nat \ {0} /\ bottom = top - n - 1
      /\ \A l \in bottom .. top - 1 :
           /\ stack[l][1] = "offset" /\ stack[l][2] <= size
           /\ l > bottom => stack[l - 1][2] < stack[l][2]
      /\ segment[stack[bottom][2] + 1] = Header(type)
      /\ bottom = 1 \/ stack[bottom - 1][1] = "state"
  <2>1. stack[top] \in AnyWord /\ stack[top][1] = "count"
    BY <1>1, <1>3, <1>4 DEF FrameFrom
  <2>2. n \in Nat \ {0}
    BY <2>1, WordKinds
  <2> QED
    BY <1>4, <2>1, <2>2 DEF FrameFrom
<1>6. /\ other[top][1] = "offset" /\ other[top][2] = size
      /\ other[top + 1][1] = "count" /\ other[top + 1][2] = n + 1
  BY WordParts
<1>7. \A k \in 1 .. top - 1 : other[k] = stack[k]
  BY DEF top
<1>8. /\ \A k \in 1 .. top - 1 : IsOffset(stack[k]) => stack[k][2] \in Nat /\ stack[k][2] < size
      /\ \A k, l \in 1 .. top - 1 : k <= l /\ IsOffset(stack[k]) /\ IsOffset(stack[l])
                                    => stack[k][2] <= stack[l][2]
  <2>1. \A k \in 1 .. top - 1 : k \in 1 .. Len(stack)
    BY <1>1
  <2>2. \A k \in 1 .. top - 1 : IsOffset(stack[k]) => stack[k][2] \in Nat
    BY <1>1, <2>1, WordKinds DEF IsOffset
  <2> QED
    BY <2>1, <2>2 DEF Sound, OffsetsRise
<1> HIDE DEF size, top, n
<1>9. OffsetsUpTo(other, size)
  <2> SUFFICES ASSUME NEW k \in 1 .. top + 1, IsOffset(other[k])
               PROVE  other[k][2] <= size
    BY <1>2 DEF OffsetsUpTo
  <2>1. CASE k \in 1 .. top - 1
    BY <1>1, <1>7, <1>8, <2>1
  <2>2. CASE k = top
    BY <1>1, <1>6, <2>2
  <2>3. CASE k = top + 1
    BY <1>6, <2>3 DEF IsOffset
  <2> QED
    BY <1>1, <2>1, <2>2, <2>3
<1>10. OffsetsRise(other)
  <2> SUFFICES ASSUME NEW k \in 1 .. top + 1, NEW l \in 1 .. top + 1, k <= l,
                      IsOffset(other[k]), IsOffset(other[l])
               PROVE  other[k][2] <= other[l][2]
    BY <1>2 DEF OffsetsRise
  <2>1. k # top + 1 /\ l # top + 1
    BY <1>6 DEF IsOffset
  <2>2. CASE l \in 1 .. top - 1
    <3>1. k \in 1 .. top - 1
      BY <1>1, <2>2
    <3> QED
      BY <1>7, <1>8, <2>2, <3>1
  <2>3. CASE l = top /\ k \in 1 .. top - 1
    <3>1. other[k][2] \in Nat /\ other[k][2] < size
      BY <1>7, <1>8, <2>3
    <3> QED
      BY <1>1, <1>6, <2>3, <3>1
  <2>4. CASE l = top /\ k = top
    BY <1>1, <1>6, <2>4
  <2> QED
    BY <1>1, <2>1, <2>2, <2>3, <2>4
<1>11. Fits(other, segment, Len(other), s)
  <2>1. FrameFrom(other, segment, bottom, top + 1, type)
    <3>1. ASSUME NEW l \in bottom .. (top + 1) - 1
          PROVE  /\ other[l][1] = "offset" /\ other[l][2] <= size
                 /\ l > bottom => other[l - 1][2] < other[l][2]
      <4>1. CASE l \in bottom .. top - 1
        <5>1. l \in 1 .. top - 1 /\ (l > bottom => l - 1 \in 1 .. top - 1)
          BY <1>1, <4>1
        <5> QED
          BY <1>5, <1>7, <4>1, <5>1
      <4>2. CASE l = top
        <5>1. top - 1 \in 1 .. top - 1 /\ top - 1 \in bottom .. top - 1
          BY <1>1
        <5>2. other[top - 1][2] < size
          BY <1>5, <1>7, <1>8, <5>1 DEF IsOffset
        <5> QED
          BY <1>1, <1>6, <4>2, <5>2
      <4> QED
        BY <1>1, <4>1, <4>2
    <3>2. other[top + 1][1] = "count" /\ bottom = (top + 1) - other[top + 1][2] - 1
      BY <1>1, <1>5, <1>6
    <3>3. bottom \in 1 .. top - 1 /\ (bottom # 1 => bottom - 1 \in 1 .. top - 1)
      BY <1>1
    <3>4. /\ segment[other[bottom][2] + 1] = Header(type)
          /\ bottom = 1 \/ other[bottom - 1][1] = "state"
      BY <1>5, <1>7, <3>3
    <3> QED
      BY <3>1, <3>2, <3>4 DEF FrameFrom, size
  <2>2. top + 1 \in 1 .. Len(other) /\ bottom \in 1 .. (top + 1) - 2
    BY <1>1, <1>2
  <2>3. IsFrame(other, segment, top + 1, type)
    BY <1>2, <2>1, <2>2, FrameParts
  <2> QED
    BY <1>1, <1>2, <2>3 DEF Fits, type
<1>12. ASSUME NEW k \in 1 .. Len(other), other[k][1] = "state"
       PROVE  Fits(other, segment, k - 1, other[k][2])
  <2>1. k \in 1 .. top - 1
    BY <1>1, <1>2, <1>6, <1>12
  <2>2. /\ top - 1 \in Nat /\ top - 1 <= top /\ top - 1 <= Len(other)
        /\ Len(segment) <= Len(segment)
    BY <1>1, <1>2, <2>1 DEF size
  <2>3. \A i \in 1 .. top - 1 :
          other[i][1] = "state" => Fits(other, segment, i - 1, other[i][2])
    BY <1>7, <2>2, StatesFitBelow DEF top
  <2> QED
    BY <1>12, <2>1, <2>3
<1>13. UnwrittenWait(other, segment)
  <2> SUFFICES ASSUME NEW p \in 1 .. Len(segment), segment[p] \in Headers
               PROVE  \E b \in 1 .. top + 1 : IsBottom(other, b) /\ other[b][2] + 1 = p
    BY <1>2 DEF UnwrittenWait
  <2>1. PICK b \in 1 .. top : IsBottom(stack, b) /\ stack[b][2] + 1 = p
    BY DEF Sound, UnwrittenWait, top
  <2>2. b # top
    BY <1>5, <2>1 DEF IsBottom, IsOffset
  <2>3. b \in 1 .. top - 1 /\ (b # 1 => b - 1 \in 1 .. top - 1) /\ b \in 1 .. top + 1
    BY <1>1, <2>2
  <2> QED
    BY <1>7, <2>1, <2>3 DEF IsBottom
<1> QED
  BY <1>9, <1>10, <1>11, <1>12, <1>13 DEF Sound, size

(* On top of the stack lies the frame that the state expects there: as many *)
(* offsets as its count says, and one more, the header's.                  *)
LEMMA TopFrame ==
  ASSUME NEW stack \in Seq(AnyWord), NEW segment \in Seq(AnyCell),
         NEW s \in DOMAIN TypeOfState, Sound(stack, segment, s)
  PROVE  /\ stack # <<>> /\ stack[Len(stack)][1] = "count"
         /\ TopCount(stack) \in Nat \ {0} /\ UnderFrame(stack) \in Nat
         /\ UnderFrame(stack) + TopCount(stack) + 2 = Len(stack)
         /\ \A k \in 1 .. TopCount(stack) + 1 :
              /\ IsOffset(stack[UnderFrame(stack) + k])
              /\ stack[UnderFrame(stack) + k][2] \in 0 .. Len(segment)
         /\ stack[UnderFrame(stack) + 1][2] < Len(segment)
         /\ UnderFrame(stack) = 0 \/ stack[UnderFrame(stack)][1] = "state"
<1> DEFINE type == TypeOfState[s]
<1> DEFINE top == Len(stack)
<1> DEFINE n == TopCount(stack)
<1> DEFINE rest == UnderFrame(stack)
<1>1. /\ Len(segment) \in Nat /\ top \in Nat /\ \A k \in 1 .. top : stack[k] \in AnyWord
  BY LenProperties
<1>2. top \in 1 .. Len(stack) /\ IsFrame(stack, segment, top, type)
  BY <1>1 DEF Sound, Fits
<1>3. n = stack[top][2] /\ rest = top - n - 2
  BY DEF TopCount, UnderFrame
<1> HIDE DEF type, top, n, rest
<1>4. PICK bottom \in 1 .. top - 2 : FrameFrom(stack, segment, bottom, top, type)
  BY <1>2, FrameParts
<1>5. stack[top][1] = "count" /\ n \in Nat \ {0} /\ bottom = top - n - 1
  <2>1. stack[top] \in AnyWord /\ stack[top][1] = "count"
    BY <1>1, <1>2, <1>4 DEF FrameFrom, top
  <2>2. n \in Nat \ {0}
    BY <1>3, <2>1, WordKinds
  <2> QED
    BY <1>3, <1>4, <2>1, <2>2 DEF FrameFrom
<1>6. bottom = rest + 1 /\ rest \in Nat /\ rest + n + 2 = top
  <2>1. rest = top - n - 2
    BY <1>3
  <2> QED
    BY <1>1, <1>5, <2>1
<1>7. \A l \in bottom .. top - 1 :
        /\ stack[l][1] = "offset" /\ stack[l][2] <= Len(segment)
        /\ l > bottom => stack[l - 1][2] < stack[l][2]
  BY <1>4 DEF FrameFrom
<1>8. ASSUME NEW k \in 1 .. n + 1
      PROVE  IsOffset(stack[rest + k]) /\ stack[rest + k][2] \in 0 .. Len(segment)
  <2>1. rest + k \in bottom .. top - 1 /\ rest + k \in 1 .. top
    BY <1>1, <1>5, <1>6
  <2>2. stack[rest + k][1] = "offset" /\ stack[rest + k][2] <= Len(segment)
    BY <1>7, <2>1
  <2>3. stack[rest + k][2] \in Nat
    BY <1>1, <2>1, <2>2, WordKinds
  <2> QED
    BY <1>1, <2>2, <2>3 DEF IsOffset
<1>9. stack[rest + 1][2] < Len(segment)
  <2>1. /\ bottom + 1 \in bottom .. top - 1 /\ bottom + 1 > bottom
        /\ (bottom + 1) - 1 = bottom /\ bottom + 1 = rest + 2
    BY <1>5, <1>6
  <2>2. stack[rest + 1][2] < stack[rest + 2][2] /\ stack[rest + 2][2] <= Len(segment)
    BY <1>6, <1>7, <2>1
  <2>3. /\ 1 \in 1 .. n + 1 /\ 2 \in 1 .. n + 1
    BY <1>5
  <2>4. stack[rest + 1][2] \in Int /\ stack[rest + 2][2] \in Int
    BY <1>8, <2>3
  <2> QED
    BY <1>1, <2>2, <2>4
<1>10. rest = 0 \/ stack[rest][1] = "state"
  <2>1. bottom = 1 \/ stack[bottom - 1][1] = "state"
    BY <1>4 DEF FrameFrom
  <2> QED
    BY <1>6, <2>1
<1>11. stack # <<>>
  BY <1>1, <1>2 DEF top
<1> QED
  BY <1>5, <1>6, <1>8, <1>9, <1>10, <1>11 DEF top, n, rest

(* A composite ends: its frame is popped, its tables stored and its header  *)
(* written.                                                                *)
LEMMA CloseSound ==
  ASSUME NEW stack \in Seq(AnyWord), NEW segment \in Seq(AnyCell),
         NEW s \in DOMAIN TypeOfState, Sound(stack, segment, s),
         NEW state, state \notin DOMAIN TypeOfState,
         NEW other \in Seq(AnyWord), Len(other) = UnderFrame(stack),
         \A k \in 1 .. UnderFrame(stack) : other[k] = stack[k],
         NEW more \in Seq(AnyCell), Len(segment) <= Len(more),
         \A k \in 1 .. Len(segment) :
           k # stack[UnderFrame(stack) + 1][2] + 1 => more[k] = segment[k],
         more[stack[UnderFrame(stack) + 1][2] + 1] \notin Headers,
         \A k \in Len(segment) + 1 .. Len(more) : more[k] \notin Headers
  PROVE  Sound(other, more, state)
<1> DEFINE n == TopCount(stack)
<1> DEFINE rest == UnderFrame(stack)
<1> DEFINE header == stack[rest + 1][2]
<1> DEFINE top == Len(stack)
<1> DEFINE size == Len(segment)
<1>1. /\ size \in Nat /\ Len(more) \in Nat
      /\ top \in Nat /\ \A k \in 1 .. top : stack[k] \in AnyWord
  BY LenProperties
<1>2. /\ stack[top][1] = "count"
      /\ n \in Nat \ {0} /\ rest \in Nat /\ rest + n + 2 = top
      /\ \A k \in 1 .. n + 1 : IsOffset(stack[rest + k]) /\ stack[rest + k][2] \in 0 .. size
      /\ header < size
      /\ rest = 0 \/ stack[rest][1] = "state"
  BY TopFrame
<1>3. /\ \A k \in 1 .. size : k # header + 1 => more[k] = segment[k]
      /\ more[header + 1] \notin Headers
      /\ \A k \in size + 1 .. Len(more) : more[k] \notin Headers
      /\ Len(other) = rest /\ \A k \in 1 .. rest : other[k] = stack[k]
  OBVIOUS
<1> HIDE DEF header, top, size, n, rest
<1>4. IsOffset(stack[rest + 1]) /\ header \in Nat
  <2>1. 1 \in 1 .. n + 1
    BY <1>2
  <2>2. IsOffset(stack[rest + 1]) /\ stack[rest + 1][2] \in 0 .. size
    BY <1>2, <2>1
  <2> QED
    BY <1>1, <2>2 DEF header
<1>5. \A k \in 1 .. rest : k \in 1 .. top /\ k <= rest + 1
  BY <1>1, <1>2
<1>6. \A k \in 1 .. rest : IsOffset(stack[k]) => stack[k][2] \in Nat /\ stack[k][2] <= header
  <2>1. rest + 1 \in 1 .. top
    BY <1>1, <1>2
  <2>2. \A k \in 1 .. rest : IsOffset(stack[k]) => stack[k][2] <= header
    BY <1>4, <1>5, <2>1 DEF Sound, top, OffsetsRise, header
  <2>3. \A k \in 1 .. rest : IsOffset(stack[k]) => stack[k][2] \in Nat
    BY <1>1, <1>5, WordKinds DEF IsOffset
  <2> QED
    BY <2>2, <2>3
<1>7. OffsetsUpTo(other, Len(more)) /\ OffsetsRise(other)
  <2>1. size <= Len(more)
    BY DEF size
  <2>2. \A k \in 1 .. rest : IsOffset(stack[k]) => stack[k][2] <= Len(more)
    <3> SUFFICES ASSUME NEW k \in 1 .. rest, IsOffset(stack[k])
                 PROVE  stack[k][2] <= Len(more)
      OBVIOUS
    <3>1. stack[k][2] \in Nat /\ stack[k][2] <= header
      BY <1>6
    <3> QED
      BY <1>1, <1>2, <1>4, <2>1, <3>1
  <2>3. OffsetsRise(other)
    BY <1>3, <1>5 DEF Sound, OffsetsRise, top
  <2> QED
    BY <1>3, <2>2, <2>3 DEF OffsetsUpTo
<1>8. ASSUME NEW b \in 1 .. rest - 1, StartsFrame(stack, b), stack[b][2] < size
      PROVE  more[stack[b][2] + 1] = segment[stack[b][2] + 1]
  <2>1. b \in 1 .. rest /\ b + 1 \in 1 .. rest
    BY <1>2
  <2>2. /\ stack[b][2] \in Nat /\ stack[b + 1][2] \in Nat /\ stack[b + 1][2] <= header
        /\ stack[b][2] < stack[b + 1][2]
    BY <1>6, <1>8, <2>1 DEF StartsFrame, IsBottom
  <2>3. \A x, y \in Nat : x < y /\ y <= header => x + 1 \in 1 .. size /\ x + 1 # header + 1
    BY <1>1, <1>2, <1>4
  <2>4. stack[b][2] + 1 \in 1 .. size /\ stack[b][2] + 1 # header + 1
    BY <2>2, <2>3
  <2> QED
    BY <1>3, <2>4
<1>9. Fits(other, more, Len(other), state)
  BY <1>2, <1>3, <1>5 DEF Fits
<1>10. \A k \in 1 .. Len(other) :
         other[k][1] = "state" => Fits(other, more, k - 1, other[k][2])
  <2>1. rest \in Nat /\ rest <= Len(stack) /\ rest <= Len(other)
    BY <1>1, <1>2, <1>3 DEF top
  <2> QED
    BY <1>3, <1>8, <2>1, StatesFitBelow DEF size
<1>11. UnwrittenWait(other, more)
  <2> SUFFICES ASSUME NEW p \in 1 .. Len(more), more[p] \in Headers
               PROVE  \E b \in 1 .. rest : IsBottom(other, b) /\ other[b][2] + 1 = p
    BY <1>3 DEF UnwrittenWait
  <2>1. p \in 1 .. size /\ p # header + 1
    BY <1>1, <1>3
  <2>2. segment[p] \in Headers
    BY <1>3, <2>1
  <2>3. PICK b \in 1 .. top : IsBottom(stack, b) /\ stack[b][2] + 1 = p
    BY <2>1, <2>2 DEF Sound, UnwrittenWait, top, size
  <2>4. b # rest + 1
    BY <2>1, <2>3 DEF header
  <2>5. b # top
    BY <1>2, <2>3 DEF IsBottom, IsOffset
  <2>6. ~(b \in rest + 2 .. top - 1)
    <3> SUFFICES ASSUME b \in rest + 2 .. top - 1
                 PROVE  FALSE
      OBVIOUS
    <3>1. b - 1 - rest \in 1 .. n + 1 /\ rest + (b - 1 - rest) = b - 1 /\ b # 1
      BY <1>2
    <3>2. IsOffset(stack[b - 1])
      BY <1>2, <3>1
    <3> QED
      BY <2>3, <3>1, <3>2 DEF IsBottom, IsOffset
  <2>7. b \in 1 .. rest /\ (b # 1 => b - 1 \in 1 .. rest)
    BY <1>1, <1>2, <2>4, <2>5, <2>6
  <2> QED
    BY <1>3, <2>3, <2>7 DEF IsBottom
<1> QED
  BY <1>7, <1>9, <1>10, <1>11 DEF Sound

----------------------------------------------------------------------------
(* The operations on a whole context.                                      *)

(* States that expect the same on top of the stack.                        *)
LEMMA SameTop ==
  ASSUME NEW stack, NEW segment, NEW s, NEW r, Sound(stack, segment, s),
         \/ s \notin DOMAIN TypeOfState /\ r \notin DOMAIN TypeOfState
         \/ /\ s \in DOMAIN TypeOfState /\ r \in DOMAIN TypeOfState
            /\ TypeOfState[s] = TypeOfState[r]
  PROVE  Sound(stack, segment, r)
<1>1. Fits(stack, segment, Len(stack), r)
  BY DEF Sound, Fits
<1> QED
  BY <1>1 DEF Sound

(* Which composite the parser is in, in each state inside of one.          *)
LEMMA CompositeStates ==
  /\ DOMAIN TypeOfState = {"NEXT_ARRAY_ELEMENT", "KV_COLON", "KV_END", "NEXT_KV"}
  /\ TypeOfState["NEXT_ARRAY_ELEMENT"] = "array" /\ TypeOfState["KV_COLON"] = "object"
  /\ TypeOfState["KV_END"] = "object" /\ TypeOfState["NEXT_KV"] = "object"
  /\ ReturnStates \subseteq DOMAIN TypeOfState /\ ReturnStates \subseteq States
BY DEF TypeOfState, ReturnStates, States

(* What lies on top of a stack that is not empty.                          *)
LEMMA TopIsWord ==
  ASSUME NEW c \in Contexts, NEW kind
  PROVE  /\ c.stack # <<>> => (TopIs(c, <<kind>>) <=> Last(c.stack)[1] = kind)
         /\ c.stack = <<>> => ~TopIs(c, <<kind>>)
<1>1. c.stack \in Seq(AnyWord) /\ Len(c.stack) \in Nat
  BY LenProperties DEF Contexts
<1>2. Len(<<kind>>) = 1 /\ <<kind>>[1] = kind
  OBVIOUS
<1>3. TopIs(c, <<kind>>) <=>
        1 <= Len(c.stack) /\ \A k \in 1 .. 1 : c.stack[Len(c.stack) - 1 + k][1] = <<kind>>[k]
  BY <1>2 DEF TopIs
<1>4. (\A k \in 1 .. 1 : c.stack[Len(c.stack) - 1 + k][1] = <<kind>>[k])
        <=> c.stack[Len(c.stack)][1] = kind
  <2>1. Len(c.stack) - 1 + 1 = Len(c.stack) /\ \A k \in 1 .. 1 : k = 1
    BY <1>1
  <2> QED
    BY <1>2, <2>1
<1>5. CASE c.stack # <<>>
  BY <1>1, <1>3, <1>4, <1>5, FrontAndLast
<1>6. CASE c.stack = <<>>
  BY <1>3, <1>6, EmptySeq
<1> QED
  BY <1>5, <1>6

(* What a handler leaves to the rest of thsn_parser_parse_next_token, at    *)
(* most `size` cells and counts of up to n.                                 *)
Stored(c) ==
  \A k \in 1 .. Len(c.stack) : IsOffset(c.stack[k]) => c.stack[k][2] < Len(c.segment)

Handled(c, t, size, n) ==
  /\ c \in Contexts /\ c.result \in {"success", "input_error"}
  /\ Len(c.segment) <= size
  /\ OffsetsUpTo(c.stack, Len(c.segment)) /\ CountsUpTo(c.stack, n)
  /\ c.result = "success" =>
       /\ Sound(c.stack, c.segment, c.state)
       /\ t.kind # "eof" /\ c.state \in DOMAIN TypeOfState \cup {"FINISH"} => Stored(c)

(* What a handler begins with.                                             *)
Ready(c, t, size, n) ==
  /\ c \in Contexts /\ c.result = "success"
  /\ Len(c.segment) <= size /\ CountsUpTo(c.stack, n)
  /\ Sound(c.stack, c.segment, c.state)
  /\ t.kind # "eof" /\ c.state \in DOMAIN TypeOfState => Stored(c)

(* Rejecting the input changes neither the stack nor the segment.          *)
LEMMA RejectHandled ==
  ASSUME NEW c \in Contexts, NEW t, NEW size, NEW n, Len(c.segment) <= size,
         OffsetsUpTo(c.stack, Len(c.segment)), CountsUpTo(c.stack, n)
  PROVE  Handled(Reject(c), t, size, n)
<1>1. /\ Reject(c) \in Contexts /\ Reject(c).result = "input_error"
      /\ Reject(c).stack = c.stack /\ Reject(c).segment = c.segment
  BY DEF Contexts, Reject, Results
<1> QED
  BY <1>1 DEF Handled

(* A scalar, a string or an empty composite is stored and a value finished. *)
LEMMA LeafHandled ==
  ASSUME NEW c \in Contexts, NEW t, NEW size \in Int, NEW n, NEW d,
         NEW cell \in AnyCell \ Headers,
         c.result = "success", c.state \notin DOMAIN TypeOfState,
         Len(c.segment) + 1 <= size, CountsUpTo(c.stack, n),
         Sound(c.stack, c.segment, c.state),
         d = Store(GoTo(c, "FINISH"), cell)
  PROVE  Handled(d, t, size, n)
<1>1. c.stack \in Seq(AnyWord) /\ c.segment \in Seq(AnyCell)
  BY DEF Contexts
<1>2. /\ Append(c.segment, cell) \in Seq(AnyCell) /\ Len(c.segment) \in Nat
      /\ Len(Append(c.segment, cell)) = Len(c.segment) + 1
  BY <1>1, OneCellMore
<1>3. /\ d.stack = c.stack /\ d.segment = Append(c.segment, cell)
      /\ d.state = "FINISH" /\ d.result = "success" /\ d \in Contexts
  BY <1>2 DEF Contexts, Store, GoTo, States
<1>4. Sound(d.stack, d.segment, d.state)
  <2>1. Sound(c.stack, c.segment, "FINISH")
    BY SameTop, CompositeStates
  <2> QED
    BY <1>1, <1>3, <2>1, StoreSound
<1>5. Stored(d)
  <2> SUFFICES ASSUME NEW k \in 1 .. Len(c.stack), IsOffset(c.stack[k])
               PROVE  c.stack[k][2] < Len(c.segment) + 1
    BY <1>2, <1>3 DEF Stored
  <2>1. c.stack[k] \in AnyWord
    BY <1>1, LenProperties
  <2>2. c.stack[k][2] \in Nat
    BY <2>1, WordKinds DEF IsOffset
  <2>3. c.stack[k][2] <= Len(c.segment)
    BY DEF Sound, OffsetsUpTo
  <2> QED
    BY <1>2, <2>2, <2>3
<1> QED
  BY <1>2, <1>3, <1>4, <1>5 DEF Handled, Sound

(* Only the state changes.                                                 *)
LEMMA GoToHandled ==
  ASSUME NEW c, NEW t, NEW size, NEW n, Ready(c, t, size, n),
         NEW s \in States,
         \/ s \notin DOMAIN TypeOfState /\ c.state \notin DOMAIN TypeOfState
         \/ /\ s \in DOMAIN TypeOfState /\ c.state \in DOMAIN TypeOfState
            /\ TypeOfState[c.state] = TypeOfState[s],
         s = "FINISH" => t.kind = "eof"
  PROVE  Handled(GoTo(c, s), t, size, n)
<1>1. /\ GoTo(c, s).stack = c.stack /\ GoTo(c, s).segment = c.segment
      /\ GoTo(c, s).state = s /\ GoTo(c, s).result = "success" /\ GoTo(c, s) \in Contexts
  BY DEF Ready, Contexts, GoTo
<1>2. Sound(c.stack, c.segment, s)
  BY SameTop DEF Ready
<1>3. t.kind # "eof" /\ s \in DOMAIN TypeOfState => Stored(GoTo(c, s))
  BY <1>1 DEF Ready, Stored
<1> QED
  BY <1>1, <1>2, <1>3 DEF Handled, Ready, Sound

(* thsn_parser_parse_value stores a value or begins a composite.           *)
LEMMA ParseValueHandled ==
  ASSUME NEW c, NEW t \in TokenTypes, NEW size \in Int, NEW n, Ready(c, t, size - 1, n),
         c.state \notin DOMAIN TypeOfState
  PROVE  Handled(ParseValue(c, t), t, size, n)
<1>1. /\ c \in Contexts /\ c.stack \in Seq(AnyWord) /\ c.segment \in Seq(AnyCell)
      /\ Len(c.segment) \in Nat /\ Len(c.segment) + 1 <= size /\ Len(c.segment) <= size
      /\ c.result = "success" /\ CountsUpTo(c.stack, n)
      /\ Sound(c.stack, c.segment, c.state) /\ Ready(c, t, size, n)
  <2>1. c \in Contexts /\ c.stack \in Seq(AnyWord) /\ c.segment \in Seq(AnyCell)
    BY DEF Ready, Contexts
  <2>2. Len(c.segment) \in Nat /\ Len(c.segment) <= size - 1
    BY <2>1, LenProperties DEF Ready
  <2> QED
    BY <2>1, <2>2 DEF Ready
<1>2. CASE t.kind = "eof"
  <2>1. ParseValue(c, t) = GoTo(c, "FINISH")
    BY <1>2 DEF ParseValue, Scalars
  <2>2. Handled(GoTo(c, "FINISH"), t, size, n)
    BY <1>1, <1>2, GoToHandled, CompositeStates DEF States
  <2> QED
    BY <2>1, <2>2
<1>3. CASE t.kind \in Scalars \cup {"string"}
  <2>1. ParseValue(c, t) = Store(GoTo(c, "FINISH"), Leaf(t))
    BY <1>3 DEF ParseValue, Scalars
  <2> QED
    BY <1>1, <2>1, LeafHandled, CellKinds
<1>4. CASE t.kind = "["
  <2>1. ParseValue(c, t) = GoTo(c, "FIRST_ARRAY_ELEMENT")
    BY <1>4 DEF ParseValue, Scalars
  <2>2. Handled(GoTo(c, "FIRST_ARRAY_ELEMENT"), t, size, n)
    BY <1>1, GoToHandled, CompositeStates DEF States
  <2> QED
    BY <2>1, <2>2
<1>5. CASE t.kind = "{"
  <2>1. ParseValue(c, t) = GoTo(c, "FIRST_KV")
    BY <1>5 DEF ParseValue, Scalars
  <2>2. Handled(GoTo(c, "FIRST_KV"), t, size, n)
    BY <1>1, GoToHandled, CompositeStates DEF States
  <2> QED
    BY <2>1, <2>2
<1>6. CASE t.kind \notin Scalars \cup {"string", "eof", "[", "{"}
  <2>1. ParseValue(c, t) = Reject(GoTo(c, "FINISH"))
    BY <1>6 DEF ParseValue
  <2>2. /\ GoTo(c, "FINISH") \in Contexts /\ GoTo(c, "FINISH").stack = c.stack
        /\ GoTo(c, "FINISH").segment = c.segment
    BY <1>1 DEF GoTo, Contexts, States
  <2>3. OffsetsUpTo(c.stack, Len(c.segment))
    BY <1>1 DEF Sound
  <2> QED
    BY <1>1, <2>1, <2>2, <2>3, RejectHandled
<1> QED
  BY <1>2, <1>3, <1>4, <1>5, <1>6

(* A composite begins, in a state that goes on with it.                     *)
LEMMA BeginsComposite ==
  ASSUME NEW c, NEW t, NEW n \in Nat \ {0}, NEW room \in Int, Ready(c, t, room, n),
         c.state \notin DOMAIN TypeOfState, NEW s \in DOMAIN TypeOfState,
         NEW d, d = StoreCompositeHeader(c, TypeOfState[s])
  PROVE  /\ d \in Contexts /\ d.result = "success" /\ d.state = c.state
         /\ Len(d.segment) <= room + 1 /\ CountsUpTo(d.stack, n)
         /\ Sound(d.stack, d.segment, s)
<1> DEFINE o == Len(c.segment)
<1> DEFINE other == c.stack \o <<Offset(o), Offset(o + 1), Count(1)>>
<1> DEFINE more == Append(c.segment, Header(TypeOfState[s]))
<1>1. /\ c \in Contexts /\ c.stack \in Seq(AnyWord) /\ c.segment \in Seq(AnyCell)
      /\ o \in Nat /\ o <= room /\ Len(c.stack) \in Nat
  <2>1. c \in Contexts /\ c.stack \in Seq(AnyWord) /\ c.segment \in Seq(AnyCell)
    BY DEF Ready, Contexts
  <2>2. o \in Nat /\ o <= room /\ Len(c.stack) \in Nat
    BY <2>1, LenProperties DEF Ready
  <2> QED
    BY <2>1, <2>2
<1>2. more \in Seq(AnyCell) /\ Len(more) = o + 1
  <2>1. Header(TypeOfState[s]) \in AnyCell
    BY CellKinds, CompositeStates
  <2> QED
    BY <1>1, <2>1, OneCellMore
<1>3. /\ other \in Seq(AnyWord) /\ Len(other) = Len(c.stack) + 3
      /\ \A k \in 1 .. Len(c.stack) : other[k] = c.stack[k]
      /\ other[Len(c.stack) + 1] = Offset(o)
      /\ other[Len(c.stack) + 2] = Offset(o + 1)
      /\ other[Len(c.stack) + 3] = Count(1)
  <2>1. Offset(o) \in AnyWord /\ Offset(o + 1) \in AnyWord /\ Count(1) \in AnyWord
    BY <1>1, WordKinds
  <2> HIDE DEF o
  <2> QED
    BY <1>1, <2>1, ThreeWordsMore
<1>4. /\ d.stack = other /\ d.segment = more /\ d.result = "success"
      /\ d.state = c.state /\ d \in Contexts
  <2>1. /\ d.stack = other /\ d.segment = more /\ d.result = "success"
        /\ d.state = c.state /\ d = [c EXCEPT !.segment = more, !.stack = other]
    BY <1>1 DEF StoreCompositeHeader, PushWords, Store, NextOffset, Contexts, Ready
  <2> HIDE DEF other, more
  <2> QED
    BY <1>1, <1>2, <1>3, <2>1 DEF Contexts
<1>5. Sound(other, more, s)
  BY <1>1, <1>3, OpenSound DEF Ready
<1>6. CountsUpTo(other, n)
  <2> SUFFICES ASSUME NEW k \in 1 .. Len(c.stack) + 3, other[k][1] = "count"
               PROVE  other[k][2] <= n
    BY <1>3 DEF CountsUpTo
  <2> HIDE DEF other
  <2>1. CASE k \in 1 .. Len(c.stack)
    BY <1>3, <2>1 DEF Ready, CountsUpTo
  <2>2. CASE k = Len(c.stack) + 1 \/ k = Len(c.stack) + 2
    BY <1>3, <2>2, WordParts
  <2>3. CASE k = Len(c.stack) + 3
    BY <1>3, <2>3, WordParts
  <2>4. \/ k \in 1 .. Len(c.stack)
        \/ k = Len(c.stack) + 1 \/ k = Len(c.stack) + 2
        \/ k = Len(c.stack) + 3
    <3>1. \A m \in Nat : \A l \in 1 .. m + 3 :
            l \in 1 .. m \/ l = m + 1 \/ l = m + 2 \/ l = m + 3
      OBVIOUS
    <3> QED
      BY <1>1, <3>1
  <2> QED
    BY <2>1, <2>2, <2>3, <2>4
<1> QED
  BY <1>1, <1>2, <1>4, <1>5, <1>6

(* What thsn_parser_store_composite_elements_table writes.                  *)
LEMMA TableCells ==
  ASSUME NEW segment \in Seq(AnyCell), NEW type \in {"array", "object"},
         NEW header \in 0 .. Len(segment) - 1, NEW elements \in Seq(Nat),
         NEW more, more = WithTable(segment, type, header, elements)
  PROVE  /\ more \in Seq(AnyCell)
         /\ Len(more) = Len(segment) + (IF type = "object" THEN 2 ELSE 1)
         /\ \A k \in 1 .. Len(segment) : k # header + 1 => more[k] = segment[k]
         /\ more[header + 1] = Written(type, Len(elements), Len(segment))
         /\ \A k \in Len(segment) + 1 .. Len(more) : more[k] = Table(elements)
<1> DEFINE size == Len(segment)
<1> DEFINE copies == IF type = "object" THEN 2 ELSE 1
<1> DEFINE written == Written(type, Len(elements), size)
<1> DEFINE first == [segment EXCEPT ![header + 1] = written]
<1> DEFINE second == [k \in 1 .. copies |-> Table(elements)]
<1>1. size \in Nat /\ Len(elements) \in Nat /\ header + 1 \in 1 .. size
  BY LenProperties
<1>2. written \in AnyCell
  BY <1>1, CellKinds
<1> HIDE DEF written
<1>3. /\ first \in Seq(AnyCell) /\ Len(first) = size
      /\ \A k \in 1 .. size : first[k] = IF k = header + 1 THEN written ELSE segment[k]
  BY <1>1, <1>2, ExceptSeq
<1>4. copies \in Nat
  OBVIOUS
<1>5. second \in Seq(AnyCell) /\ Len(second) = copies
  <2>1. Table(elements) \in AnyCell
    BY CellKinds
  <2> HIDE DEF copies
  <2>2. second \in [1 .. copies -> AnyCell]
    BY <2>1
  <2> QED
    BY <1>4, <2>2
<1>6. \A k \in 1 .. copies : second[k] = Table(elements)
  OBVIOUS
<1>7. more = first \o second
  BY DEF WithTable, written
<1> HIDE DEF first, second, copies, size
<1>8. /\ more \in Seq(AnyCell) /\ Len(more) = size + copies
      /\ \A k \in 1 .. size + copies :
           more[k] = IF k <= size THEN first[k] ELSE second[k - size]
  <2>1. /\ first \o second \in Seq(AnyCell) /\ Len(first \o second) = size + copies
        /\ \A k \in 1 .. size + copies :
             (first \o second)[k] = IF k <= size THEN first[k] ELSE second[k - size]
    BY <1>3, <1>5, ConcatProperties
  <2> QED
    BY <1>7, <2>1
<1>9. \A k \in 1 .. size : more[k] = IF k = header + 1 THEN written ELSE segment[k]
  <2> SUFFICES ASSUME NEW k \in 1 .. size
               PROVE  more[k] = first[k]
    BY <1>3
  <2>1. k \in 1 .. size + copies /\ k <= size
    BY <1>1, <1>4
  <2> QED
    BY <1>8, <2>1
<1>10. \A k \in size + 1 .. Len(more) : more[k] = Table(elements)
  <2> SUFFICES ASSUME NEW k \in size + 1 .. Len(more)
               PROVE  more[k] = Table(elements)
    OBVIOUS
  <2>1. k - size \in 1 .. copies /\ k \in 1 .. size + copies /\ ~(k <= size)
    BY <1>1, <1>4, <1>8
  <2> QED
    BY <1>6, <1>8, <2>1
<1> QED
  BY <1>1, <1>8, <1>9, <1>10 DEF size, copies, written

(* No header is left unwritten among what it writes.                       *)
LEMMA TableWritten ==
  ASSUME NEW segment \in Seq(AnyCell), NEW type \in {"array", "object"},
         NEW header \in 0 .. Len(segment) - 1, NEW elements \in Seq(Nat),
         NEW more, more = WithTable(segment, type, header, elements)
  PROVE  /\ more \in Seq(AnyCell)
         /\ Len(segment) < Len(more) /\ Len(more) <= Len(segment) + 2
         /\ \A k \in 1 .. Len(segment) : k # header + 1 => more[k] = segment[k]
         /\ more[header + 1] \notin Headers
         /\ \A k \in Len(segment) + 1 .. Len(more) : more[k] \notin Headers
<1> DEFINE size == Len(segment)
<1> DEFINE copies == IF type = "object" THEN 2 ELSE 1
<1>1. /\ more \in Seq(AnyCell)
      /\ Len(more) = size + copies
      /\ \A k \in 1 .. size : k # header + 1 => more[k] = segment[k]
      /\ more[header + 1] = Written(type, Len(elements), size)
      /\ \A k \in size + 1 .. Len(more) : more[k] = Table(elements)
  BY TableCells
<1>2. size \in Nat /\ Len(elements) \in Nat /\ copies \in {1, 2}
  BY LenProperties
<1> HIDE DEF copies
<1>3. size < Len(more) /\ Len(more) <= size + 2
  BY <1>1, <1>2
<1>4. Written(type, Len(elements), size) \notin Headers /\ Table(elements) \notin Headers
  BY <1>2, CellKinds
<1> QED
  BY <1>1, <1>3, <1>4

(* The kinds of the words that a frame needs are the kinds on the stack.    *)
LEMMA TopIsFrame ==
  ASSUME NEW c \in Contexts, NEW n \in Nat, NEW rest \in Nat,
         Len(c.stack) = rest + n + 2,
         \A k \in 1 .. n + 1 : IsOffset(c.stack[rest + k]),
         c.stack[Len(c.stack)][1] = "count"
  PROVE  TopIs(c, [k \in 1 .. n + 1 |-> "offset"] \o <<"count">>)
<1> DEFINE offsets == [k \in 1 .. n + 1 |-> "offset"]
<1> DEFINE kinds == offsets \o <<"count">>
<1> DEFINE Strings == {"offset", "count"}
<1>1. offsets \in Seq(Strings) /\ Len(offsets) = n + 1
  <2>1. offsets \in [1 .. n + 1 -> Strings]
    OBVIOUS
  <2> QED
    BY <2>1
<1>2. <<"count">> \in Seq(Strings) /\ Len(<<"count">>) = 1 /\ <<"count">>[1] = "count"
  OBVIOUS
<1>3. /\ Len(kinds) = n + 2
      /\ \A k \in 1 .. n + 2 :
           kinds[k] = IF k <= n + 1 THEN offsets[k] ELSE <<"count">>[k - (n + 1)]
  <2> HIDE DEF offsets, Strings
  <2>1. /\ Len(kinds) = (n + 1) + 1
        /\ \A k \in 1 .. (n + 1) + 1 :
             kinds[k] = IF k <= n + 1 THEN offsets[k] ELSE <<"count">>[k - (n + 1)]
    BY <1>1, <1>2, ConcatProperties
  <2> QED
    BY <2>1
<1>4. \A k \in 1 .. n + 1 : offsets[k] = "offset"
  OBVIOUS
<1> HIDE DEF kinds, offsets
<1>5. ASSUME NEW k \in 1 .. n + 2
      PROVE  c.stack[Len(c.stack) - Len(kinds) + k][1] = kinds[k]
  <2>1. Len(c.stack) - Len(kinds) + k = rest + k
    BY <1>3
  <2>2. CASE k <= n + 1
    BY <1>3, <1>4, <2>1, <2>2 DEF IsOffset
  <2>3. CASE k = n + 2
    <3>1. rest + k = Len(c.stack) /\ k - (n + 1) = 1 /\ ~(k <= n + 1)
      BY <2>3
    <3>2. kinds[k] = "count"
      BY <1>2, <1>3, <3>1
    <3> QED
      BY <2>1, <3>1, <3>2
  <2> QED
    BY <2>2, <2>3
<1>6. Len(kinds) <= Len(c.stack)
  BY <1>3
<1>7. TopIs(c, kinds)
  BY <1>3, <1>5, <1>6 DEF TopIs
<1> QED
  BY <1>7 DEF kinds, offsets

(* The frame on top of the stack is popped: its elements' offsets and the   *)
(* offset of its header.                                                   *)
LEMMA FramePopped ==
  ASSUME NEW c \in Contexts, c.state \in DOMAIN TypeOfState,
         Sound(c.stack, c.segment, c.state)
  PROVE  LET type     == TypeOfState[c.state]
             rest     == UnderFrame(c.stack)
             header   == c.stack[rest + 1][2]
             elements == [k \in 1 .. TopCount(c.stack) |-> c.stack[rest + 1 + k][2]]
             other    == SubSeq(c.stack, 1, rest)
         IN  /\ elements \in Seq(Nat) /\ Len(elements) = TopCount(c.stack)
             /\ header \in 0 .. Len(c.segment) - 1
             /\ other \in Seq(AnyWord) /\ Len(other) = rest
             /\ \A k \in 1 .. rest : other[k] = c.stack[k]
             /\ rest \in Nat /\ rest <= Len(c.stack)
             /\ StoreElementsTable(c, type) =
                  [c EXCEPT !.stack = other,
                            !.segment = WithTable(c.segment, type, header, elements)]
<1> DEFINE type == TypeOfState[c.state]
<1> DEFINE count == TopCount(c.stack)
<1> DEFINE rest == UnderFrame(c.stack)
<1> DEFINE elements == [k \in 1 .. count |-> c.stack[rest + 1 + k][2]]
<1> DEFINE other == SubSeq(c.stack, 1, rest)
<1> DEFINE more == WithTable(c.segment, type, c.stack[rest + 1][2], elements)
<1> DEFINE d == StoreElementsTable(c, type)
<1>1. /\ c.stack \in Seq(AnyWord) /\ c.segment \in Seq(AnyCell)
      /\ Len(c.segment) \in Nat /\ Len(c.stack) \in Nat
      /\ \A k \in 1 .. Len(c.stack) : c.stack[k] \in AnyWord
  <2>1. c.stack \in Seq(AnyWord) /\ c.segment \in Seq(AnyCell)
    BY DEF Contexts
  <2> QED
    BY <2>1, LenProperties
<1>2. /\ c.stack # <<>> /\ c.stack[Len(c.stack)][1] = "count"
      /\ count \in Nat \ {0} /\ rest \in Nat /\ rest + count + 2 = Len(c.stack)
      /\ \A k \in 1 .. count + 1 : /\ IsOffset(c.stack[rest + k])
                                  /\ c.stack[rest + k][2] \in 0 .. Len(c.segment)
      /\ c.stack[rest + 1][2] < Len(c.segment)
  BY <1>1, TopFrame
<1> HIDE DEF count, rest
<1>3. elements \in Seq(Nat) /\ Len(elements) = count
  <2>1. ASSUME NEW k \in 1 .. count
        PROVE  c.stack[rest + 1 + k][2] \in Nat
    <3>1. k + 1 \in 1 .. count + 1 /\ rest + (k + 1) = rest + 1 + k
      BY <1>2
    <3>2. c.stack[rest + (k + 1)][2] \in 0 .. Len(c.segment)
      BY <1>2, <3>1
    <3> QED
      BY <1>1, <3>1, <3>2
  <2>2. elements \in [1 .. count -> Nat] /\ count \in Nat
    BY <1>2, <2>1
  <2> HIDE DEF elements
  <2> QED
    BY <2>2
<1>4. c.stack[rest + 1][2] \in 0 .. Len(c.segment) - 1
  <2>1. 1 \in 1 .. count + 1
    BY <1>2
  <2>2. c.stack[rest + 1][2] \in 0 .. Len(c.segment)
    BY <1>2, <2>1
  <2>3. \A x \in 0 .. Len(c.segment) : x < Len(c.segment) => x \in 0 .. Len(c.segment) - 1
    BY <1>1
  <2> QED
    BY <1>2, <2>2, <2>3
<1> HIDE DEF elements
<1>5. /\ other \in Seq(AnyWord) /\ Len(other) = rest
      /\ \A k \in 1 .. rest : other[k] = c.stack[k]
  <2>1. rest \in Int /\ \A k \in 1 .. rest : c.stack[k] \in AnyWord
    BY <1>1, <1>2
  <2>2. /\ other \in Seq(AnyWord)
        /\ Len(other) = IF 1 <= rest THEN rest - 1 + 1 ELSE 0
        /\ \A k \in 1 .. rest - 1 + 1 : other[k] = c.stack[1 + k - 1]
    BY <2>1, SubSeqProperties
  <2> QED
    BY <1>2, <2>2
<1> HIDE DEF other, more
<1>6. d = [c EXCEPT !.stack = other, !.segment = more]
  <2>1. TopIs(c, <<"count">>) /\ Last(c.stack) = c.stack[Len(c.stack)]
    BY <1>1, <1>2, TopIsWord, FrontAndLast
  <2>2. Last(c.stack)[2] = count /\ Len(c.stack) - count - 2 = rest
    BY <1>1, <1>2, <2>1 DEF TopCount, count
  <2>3. TopIs(c, [k \in 1 .. count + 1 |-> "offset"] \o <<"count">>)
    BY <1>1, <1>2, TopIsFrame
  <2> QED
    BY <2>1, <2>2, <2>3 DEF StoreElementsTable, other, more, elements
<1>7. rest <= Len(c.stack)
  BY <1>1, <1>2
<1> QED
  BY <1>2, <1>3, <1>4, <1>5, <1>6, <1>7 DEF d, rest, count, elements, other, more

(* A composite ends where its closing token is.                            *)
LEMMA EndsComposite ==
  ASSUME NEW c, NEW t, NEW size \in Int, NEW n \in Nat, Ready(c, t, size - 2, n),
         c.state \in DOMAIN TypeOfState
  PROVE  Handled(GoTo(StoreElementsTable(c, TypeOfState[c.state]), "FINISH"), t, size, n)
<1> DEFINE type == TypeOfState[c.state]
<1> DEFINE count == TopCount(c.stack)
<1> DEFINE rest == UnderFrame(c.stack)
<1> DEFINE elements == [k \in 1 .. count |-> c.stack[rest + 1 + k][2]]
<1> DEFINE other == SubSeq(c.stack, 1, rest)
<1> DEFINE more == WithTable(c.segment, type, c.stack[rest + 1][2], elements)
<1> DEFINE d == StoreElementsTable(c, type)
<1>1. /\ c \in Contexts /\ c.stack \in Seq(AnyWord) /\ c.segment \in Seq(AnyCell)
      /\ Len(c.segment) \in Nat /\ Len(c.segment) <= size - 2 /\ Len(c.stack) \in Nat
      /\ Sound(c.stack, c.segment, c.state) /\ CountsUpTo(c.stack, n)
      /\ c.result = "success" /\ type \in {"array", "object"}
      /\ \A k \in 1 .. Len(c.stack) : c.stack[k] \in AnyWord
  <2>1. c \in Contexts /\ c.stack \in Seq(AnyWord) /\ c.segment \in Seq(AnyCell)
    BY DEF Ready, Contexts
  <2>2. /\ Len(c.segment) \in Nat /\ Len(c.stack) \in Nat
        /\ \A k \in 1 .. Len(c.stack) : c.stack[k] \in AnyWord
    BY <2>1, LenProperties
  <2> QED
    BY <2>1, <2>2, CompositeStates DEF Ready
<1>2. /\ elements \in Seq(Nat) /\ rest \in Nat /\ rest <= Len(c.stack)
      /\ c.stack[rest + 1][2] \in 0 .. Len(c.segment) - 1
      /\ d = [c EXCEPT !.stack = other, !.segment = more]
      /\ other \in Seq(AnyWord) /\ Len(other) = rest
      /\ \A k \in 1 .. rest : other[k] = c.stack[k]
  BY <1>1, FramePopped
<1> HIDE DEF count, rest, elements, type
<1>3. /\ more \in Seq(AnyCell)
      /\ Len(c.segment) < Len(more) /\ Len(more) <= Len(c.segment) + 2
      /\ \A k \in 1 .. Len(c.segment) :
           k # c.stack[rest + 1][2] + 1 => more[k] = c.segment[k]
      /\ more[c.stack[rest + 1][2] + 1] \notin Headers
      /\ \A k \in Len(c.segment) + 1 .. Len(more) : more[k] \notin Headers
  <2> DEFINE header == c.stack[rest + 1][2]
  <2>1. /\ header \in 0 .. Len(c.segment) - 1 /\ elements \in Seq(Nat)
        /\ more = WithTable(c.segment, type, header, elements)
        /\ c.segment \in Seq(AnyCell) /\ type \in {"array", "object"}
    BY <1>1, <1>2
  <2> HIDE DEF d, header, more
  <2>2. /\ more \in Seq(AnyCell)
        /\ Len(c.segment) < Len(more) /\ Len(more) <= Len(c.segment) + 2
        /\ \A k \in 1 .. Len(c.segment) : k # header + 1 => more[k] = c.segment[k]
        /\ more[header + 1] \notin Headers
        /\ \A k \in Len(c.segment) + 1 .. Len(more) : more[k] \notin Headers
    BY <2>1, TableWritten
  <2> QED
    BY <2>2 DEF header
<1> HIDE DEF other, more
<1>4. Sound(other, more, "FINISH")
  <2>1. c.state \in DOMAIN TypeOfState /\ "FINISH" \notin DOMAIN TypeOfState
    BY CompositeStates
  <2>2. Len(c.segment) <= Len(more)
    BY <1>1, <1>3, LenProperties
  <2> QED
    BY <1>1, <1>2, <1>3, <2>1, <2>2, CloseSound DEF rest
<1>5. /\ GoTo(d, "FINISH").stack = other /\ GoTo(d, "FINISH").segment = more
      /\ GoTo(d, "FINISH").state = "FINISH" /\ GoTo(d, "FINISH").result = "success"
      /\ GoTo(d, "FINISH") \in Contexts
  <2> HIDE DEF d
  <2>1. /\ d \in Contexts /\ d.stack = other /\ d.segment = more /\ d.result = "success"
    BY <1>1, <1>2, <1>3 DEF Contexts
  <2> QED
    BY <2>1 DEF GoTo, Contexts, States
<1>6. \A k \in 1 .. rest : k \in 1 .. Len(c.stack)
  BY <1>1, <1>2
<1>7. CountsUpTo(other, n)
  BY <1>1, <1>2, <1>6 DEF CountsUpTo
<1>8. \A k \in 1 .. rest : IsOffset(other[k]) => other[k][2] < Len(more)
  <2> SUFFICES ASSUME NEW k \in 1 .. rest, IsOffset(c.stack[k])
               PROVE  c.stack[k][2] < Len(more)
    BY <1>2
  <2>1. c.stack[k][2] \in Nat
    BY <1>1, <1>6, WordKinds DEF IsOffset
  <2>2. c.stack[k][2] <= Len(c.segment)
    BY <1>1, <1>6 DEF Sound, OffsetsUpTo
  <2> QED
    BY <1>1, <1>3, <2>1, <2>2, LenProperties
<1>9. Len(more) <= size
  BY <1>1, <1>3, LenProperties
<1>10. Handled(GoTo(d, "FINISH"), t, size, n)
  BY <1>2, <1>4, <1>5, <1>7, <1>8, <1>9 DEF Handled, Stored, Sound
<1> QED
  BY <1>10 DEF type

(* The count on top of the stack gives way to the offset to come and to one *)
(* more.                                                                   *)
LEMMA ElementCounted ==
  ASSUME NEW c \in Contexts, c.state \in DOMAIN TypeOfState,
         Sound(c.stack, c.segment, c.state)
  PROVE  LET top   == Len(c.stack)
             other == Front(c.stack) \o <<Offset(Len(c.segment)), Count(TopCount(c.stack) + 1)>>
         IN  /\ other \in Seq(AnyWord) /\ Len(other) = top + 1 /\ top \in Nat \ {0}
             /\ \A k \in 1 .. top - 1 : other[k] = c.stack[k]
             /\ other[top] = Offset(Len(c.segment))
             /\ other[top + 1] = Count(TopCount(c.stack) + 1)
             /\ c.stack[top][1] = "count" /\ TopCount(c.stack) \in Nat \ {0}
             /\ AddCompositeElement(c) = [c EXCEPT !.stack = other]
<1> DEFINE top == Len(c.stack)
<1> DEFINE o == Len(c.segment)
<1> DEFINE more == TopCount(c.stack) + 1
<1> DEFINE other == Front(c.stack) \o <<Offset(o), Count(more)>>
<1>1. /\ c.stack \in Seq(AnyWord) /\ c.segment \in Seq(AnyCell)
      /\ o \in Nat /\ top \in Nat
  <2>1. c.stack \in Seq(AnyWord) /\ c.segment \in Seq(AnyCell)
    BY DEF Contexts
  <2> QED
    BY <2>1, LenProperties
<1>2. /\ c.stack # <<>> /\ c.stack[top][1] = "count" /\ TopCount(c.stack) \in Nat \ {0}
  BY <1>1, TopFrame
<1>3. /\ Front(c.stack) \in Seq(AnyWord) /\ Len(Front(c.stack)) = top - 1
      /\ \A k \in 1 .. top - 1 : Front(c.stack)[k] = c.stack[k]
      /\ Last(c.stack) = c.stack[top] /\ top \in Nat \ {0}
  BY <1>1, <1>2, FrontAndLast
<1> HIDE DEF top, o, more
<1>4. <<Offset(o), Count(more)>> \in Seq(AnyWord)
  <2>1. o \in Nat /\ more \in Nat \ {0}
    BY <1>1, <1>2 DEF more
  <2>2. \A u, v \in AnyWord : <<u, v>> \in Seq(AnyWord)
    OBVIOUS
  <2>3. Offset(o) \in AnyWord /\ Count(more) \in AnyWord
    BY <2>1, WordKinds
  <2> QED
    BY <2>2, <2>3
<1>5. /\ Len(<<Offset(o), Count(more)>>) = 2 /\ <<Offset(o), Count(more)>>[1] = Offset(o)
      /\ <<Offset(o), Count(more)>>[2] = Count(more)
  OBVIOUS
<1>6. /\ other \in Seq(AnyWord) /\ Len(other) = top - 1 + 2
      /\ \A k \in 1 .. top - 1 + 2 :
           other[k] = IF k <= top - 1 THEN Front(c.stack)[k]
                                      ELSE <<Offset(o), Count(more)>>[k - (top - 1)]
  BY <1>3, <1>4, <1>5, ConcatProperties
<1>7. /\ Len(other) = top + 1
      /\ \A k \in 1 .. top - 1 : other[k] = c.stack[k]
      /\ other[top] = Offset(o) /\ other[top + 1] = Count(more)
  <2> HIDE DEF other
  <2>1. /\ top - 1 + 2 = top + 1 /\ top \in 1 .. top + 1 /\ top + 1 \in 1 .. top + 1
        /\ ~(top <= top - 1) /\ ~(top + 1 <= top - 1)
        /\ top - (top - 1) = 1 /\ top + 1 - (top - 1) = 2
        /\ \A k \in 1 .. top - 1 : k \in 1 .. top + 1 /\ k <= top - 1
    BY <1>3
  <2> QED
    BY <1>3, <1>5, <1>6, <2>1
<1> HIDE DEF other
<1>8. AddCompositeElement(c) = [c EXCEPT !.stack = other]
  <2>1. TopIs(c, <<"count">>)
    BY <1>1, <1>2, <1>3, TopIsWord
  <2>2. Last(c.stack)[2] + 1 = more
    BY <1>3 DEF more, TopCount, top
  <2> QED
    BY <2>1, <2>2 DEF AddCompositeElement, NextOffset, other, o
<1> QED
  BY <1>2, <1>3, <1>6, <1>7, <1>8 DEF top, o, more, other

(* Another element of a composite: the offset to come replaces the count,   *)
(* and one more is counted.                                                *)
LEMMA AddsElement ==
  ASSUME NEW c, NEW t, NEW size, NEW n \in Nat, Ready(c, t, size, n),
         c.state \in DOMAIN TypeOfState, t.kind # "eof",
         NEW d, d = AddCompositeElement(c)
  PROVE  /\ d \in Contexts /\ d.result = "success" /\ d.state = c.state
         /\ d.segment = c.segment /\ CountsUpTo(d.stack, n + 1)
         /\ Sound(d.stack, d.segment, c.state)
<1> DEFINE top == Len(c.stack)
<1> DEFINE o == Len(c.segment)
<1> DEFINE more == TopCount(c.stack) + 1
<1> DEFINE other == Front(c.stack) \o <<Offset(o), Count(more)>>
<1>1. /\ c \in Contexts /\ c.stack \in Seq(AnyWord) /\ c.segment \in Seq(AnyCell)
      /\ o \in Nat /\ top \in Nat
      /\ Sound(c.stack, c.segment, c.state) /\ CountsUpTo(c.stack, n)
      /\ c.result = "success" /\ Stored(c)
  <2>1. c \in Contexts /\ c.stack \in Seq(AnyWord) /\ c.segment \in Seq(AnyCell)
    BY DEF Ready, Contexts
  <2> QED
    BY <2>1, LenProperties DEF Ready
<1>2. /\ other \in Seq(AnyWord) /\ Len(other) = top + 1 /\ top \in Nat \ {0}
      /\ \A k \in 1 .. top - 1 : other[k] = c.stack[k]
      /\ other[top] = Offset(o) /\ other[top + 1] = Count(more)
      /\ c.stack[top][1] = "count" /\ TopCount(c.stack) \in Nat \ {0}
      /\ d = [c EXCEPT !.stack = other]
  BY <1>1, ElementCounted
<1> HIDE DEF top, o, more, other
<1>3. Sound(other, c.segment, c.state)
  BY <1>1, <1>2, AddSound DEF Stored, top, o, more, TopCount
<1>4. /\ d \in Contexts /\ d.stack = other /\ d.segment = c.segment
       /\ d.state = c.state /\ d.result = "success"
  BY <1>1, <1>2 DEF Contexts
<1>5. CountsUpTo(other, n + 1)
  <2> SUFFICES ASSUME NEW k \in 1 .. top + 1, other[k][1] = "count"
               PROVE  other[k][2] <= n + 1
    BY <1>2 DEF CountsUpTo
  <2>1. top \in 1 .. Len(c.stack) /\ c.stack[top][2] <= n /\ c.stack[top][2] \in Nat
    <3>1. /\ top \in 1 .. Len(c.stack) /\ c.stack[top][1] = "count"
          /\ c.stack[top][2] \in Nat
      BY <1>2 DEF TopCount, top
    <3> QED
      BY <1>1, <3>1 DEF CountsUpTo
  <2>2. CASE k \in 1 .. top - 1
    <3>1. k \in 1 .. Len(c.stack) /\ c.stack[k] \in AnyWord /\ other[k] = c.stack[k]
      BY <1>1, <1>2, <2>2, LenProperties DEF top
    <3>2. c.stack[k][2] \in Nat /\ c.stack[k][2] <= n
      BY <1>1, <3>1, WordKinds DEF CountsUpTo
    <3> QED
      BY <3>1, <3>2
  <2>3. CASE k = top
    BY <1>2, <2>3, WordParts
  <2>4. CASE k = top + 1
    <3>1. other[k][2] = c.stack[top][2] + 1
      BY <1>2, <2>4, WordParts DEF more, TopCount, top
    <3> QED
      BY <2>1, <3>1
  <2> QED
    BY <1>2, <2>2, <2>3, <2>4
<1> QED
  BY <1>3, <1>4, <1>5

----------------------------------------------------------------------------
(* The handlers.                                                           *)

(* The state to go on with is pushed.                                      *)
LEMMA PushesState ==
  ASSUME NEW d \in Contexts, NEW s \in ReturnStates, NEW n, CountsUpTo(d.stack, n),
         Sound(d.stack, d.segment, s), NEW e, e = PushWords(d, <<State(s)>>)
  PROVE  /\ e \in Contexts /\ e.segment = d.segment /\ e.state = d.state
         /\ e.result = d.result /\ CountsUpTo(e.stack, n)
         /\ \A r : r \notin DOMAIN TypeOfState => Sound(e.stack, e.segment, r)
<1> DEFINE other == d.stack \o <<State(s)>>
<1>1. d.stack \in Seq(AnyWord) /\ d.segment \in Seq(AnyCell)
  BY DEF Contexts
<1>2. /\ other \in Seq(AnyWord) /\ Len(d.stack) \in Nat /\ Len(other) = Len(d.stack) + 1
      /\ \A k \in 1 .. Len(d.stack) : other[k] = d.stack[k]
      /\ other[Len(d.stack) + 1] = State(s)
  BY <1>1, OneWordMore, WordKinds
<1>3. \A r : r \notin DOMAIN TypeOfState => Sound(other, d.segment, r)
  BY <1>1, PushStateSound
<1> HIDE DEF other
<1>4. e = [d EXCEPT !.stack = other]
  BY DEF PushWords, other
<1>5. /\ e \in Contexts /\ e.stack = other /\ e.segment = d.segment
      /\ e.state = d.state /\ e.result = d.result
  BY <1>2, <1>4 DEF Contexts
<1>6. CountsUpTo(other, n)
  BY <1>2, WordParts DEF CountsUpTo
<1> QED
  BY <1>3, <1>5, <1>6

(* A handler that leaves the value to come to thsn_parser_parse_value.     *)
LEMMA GoesIntoValue ==
  ASSUME NEW d \in Contexts, NEW s \in ReturnStates, NEW n, CountsUpTo(d.stack, n),
         Sound(d.stack, d.segment, s), d.result = "success", NEW t,
         NEW size, Len(d.segment) <= size
  PROVE  Handled(GoTo(PushWords(d, <<State(s)>>), "VALUE"), t, size, n)
<1> DEFINE e == PushWords(d, <<State(s)>>)
<1>1. /\ e \in Contexts /\ e.segment = d.segment /\ e.state = d.state
      /\ e.result = "success" /\ CountsUpTo(e.stack, n)
      /\ Sound(e.stack, e.segment, "VALUE")
  <2>1. /\ e \in Contexts /\ e.segment = d.segment /\ e.state = d.state
        /\ e.result = d.result /\ CountsUpTo(e.stack, n)
        /\ \A r : r \notin DOMAIN TypeOfState => Sound(e.stack, e.segment, r)
    BY PushesState
  <2>2. "VALUE" \notin DOMAIN TypeOfState
    BY CompositeStates
  <2> QED
    BY <2>1, <2>2
<1> HIDE DEF e
<1>2. /\ GoTo(e, "VALUE") \in Contexts /\ GoTo(e, "VALUE").segment = e.segment
      /\ GoTo(e, "VALUE").stack = e.stack /\ GoTo(e, "VALUE").result = "success"
      /\ GoTo(e, "VALUE").state = "VALUE"
  BY <1>1 DEF GoTo, Contexts, States
<1>3. "VALUE" \notin DOMAIN TypeOfState \cup {"FINISH"}
  BY CompositeStates
<1>4. Handled(GoTo(e, "VALUE"), t, size, n)
  BY <1>1, <1>2, <1>3 DEF Handled, Sound
<1> QED
  BY <1>4 DEF e

(* The key of an object's next member is stored.                           *)
LEMMA KeyHandled ==
  ASSUME NEW d \in Contexts, NEW s \in DOMAIN TypeOfState, TypeOfState[s] = "object",
         Sound(d.stack, d.segment, s), d.result = "success", NEW n, CountsUpTo(d.stack, n),
         NEW size \in Int, Len(d.segment) + 1 <= size, NEW t \in TokenTypes
  PROVE  Handled(GoTo(Store(d, Leaf(t)), "KV_COLON"), t, size, n)
<1> DEFINE e == GoTo(Store(d, Leaf(t)), "KV_COLON")
<1> DEFINE more == Append(d.segment, Leaf(t))
<1>1. /\ d.stack \in Seq(AnyWord) /\ d.segment \in Seq(AnyCell)
      /\ \A k \in 1 .. Len(d.stack) : d.stack[k] \in AnyWord
  BY LenProperties DEF Contexts
<1>2. Leaf(t) \in AnyCell \ Headers
  BY CellKinds
<1>3. /\ more \in Seq(AnyCell) /\ Len(d.segment) \in Nat /\ Len(more) = Len(d.segment) + 1
  BY <1>1, <1>2, OneCellMore
<1>4. Sound(d.stack, more, "KV_COLON")
  <2>1. Sound(d.stack, d.segment, "KV_COLON")
    BY SameTop, CompositeStates
  <2> QED
    BY <1>1, <1>2, <2>1, StoreSound
<1> HIDE DEF more
<1>5. /\ e \in Contexts /\ e.stack = d.stack /\ e.segment = more
      /\ e.state = "KV_COLON" /\ e.result = "success"
  BY <1>3 DEF Contexts, GoTo, Store, States, more
<1>6. Stored(e)
  <2> SUFFICES ASSUME NEW k \in 1 .. Len(d.stack), IsOffset(d.stack[k])
               PROVE  d.stack[k][2] < Len(d.segment) + 1
    BY <1>3, <1>5 DEF Stored
  <2>1. d.stack[k][2] \in Nat
    BY <1>1, WordKinds DEF IsOffset
  <2>2. d.stack[k][2] <= Len(d.segment)
    BY DEF Sound, OffsetsUpTo
  <2> QED
    BY <1>3, <2>1, <2>2
<1> HIDE DEF e
<1>7. Handled(e, t, size, n)
  BY <1>3, <1>4, <1>5, <1>6 DEF Handled, Sound
<1> QED
  BY <1>7 DEF e

(* More room and larger counts than needed.                                *)
LEMMA RoomToSpare ==
  ASSUME NEW c, NEW t, NEW size \in Int, NEW n \in Nat, NEW larger \in Int,
         size <= larger
  PROVE  /\ Ready(c, t, size, n) => Ready(c, t, larger, n) /\ Ready(c, t, larger, n + 1)
         /\ Handled(c, t, size, n) => Handled(c, t, larger, n) /\ Handled(c, t, larger, n + 1)
<1>1. ASSUME c \in Contexts, Len(c.segment) <= size
      PROVE  Len(c.segment) <= larger
  <2>1. c.segment \in Seq(AnyCell)
    BY <1>1 DEF Contexts
  <2>2. Len(c.segment) \in Nat
    BY <2>1, LenProperties
  <2> QED
    BY <1>1, <2>2
<1>2. ASSUME c \in Contexts, CountsUpTo(c.stack, n)
      PROVE  CountsUpTo(c.stack, n + 1)
  <2> SUFFICES ASSUME NEW k \in 1 .. Len(c.stack), c.stack[k][1] = "count"
               PROVE  c.stack[k][2] <= n + 1
    BY DEF CountsUpTo
  <2>1. c.stack \in Seq(AnyWord)
    BY <1>2 DEF Contexts
  <2>2. c.stack[k] \in AnyWord
    BY <2>1, LenProperties
  <2>3. c.stack[k][2] \in Nat /\ c.stack[k][2] <= n
    BY <1>2, <2>2, WordKinds DEF CountsUpTo
  <2> QED
    BY <2>3
<1>3. Ready(c, t, size, n) => Ready(c, t, larger, n) /\ Ready(c, t, larger, n + 1)
  BY <1>1, <1>2 DEF Ready
<1>4. Handled(c, t, size, n) => Handled(c, t, larger, n) /\ Handled(c, t, larger, n + 1)
  BY <1>1, <1>2 DEF Handled
<1> QED
  BY <1>3, <1>4

(* Every handler leaves what the rest of the call needs.                    *)
LEMMA FirstArrayElementHandled ==
  ASSUME NEW c, NEW t \in TokenTypes, NEW size \in Int, NEW n \in Nat,
         Ready(c, t, size - 2, n), c.state = "FIRST_ARRAY_ELEMENT"
  PROVE  Handled(ParseFirstArrayElement(c, t), t, size, n + 1)
<1>1. c.state \notin DOMAIN TypeOfState /\ "NEXT_ARRAY_ELEMENT" \in DOMAIN TypeOfState
  BY CompositeStates
<1>2. /\ n + 1 \in Nat \ {0} /\ size - 1 \in Int /\ size - 2 \in Int
      /\ size - 2 <= size - 2 /\ (size - 2) + 1 = size - 1
  OBVIOUS
<1>3. Ready(c, t, size - 2, n + 1)
  BY <1>2, RoomToSpare
<1>4. CASE t.kind = "]"
  <2>1. ParseFirstArrayElement(c, t) = Store(GoTo(c, "FINISH"), Empty("array"))
    BY <1>4 DEF ParseFirstArrayElement
  <2>2. /\ c \in Contexts /\ c.result = "success" /\ CountsUpTo(c.stack, n + 1)
        /\ Sound(c.stack, c.segment, c.state) /\ Len(c.segment) <= size - 2
    BY <1>3 DEF Ready
  <2>3. Len(c.segment) + 1 <= size
    <3>1. c.segment \in Seq(AnyCell)
      BY <2>2 DEF Contexts
    <3>2. Len(c.segment) \in Nat
      BY <3>1, LenProperties
    <3> QED
      BY <2>2, <3>2
  <2>4. Empty("array") \in AnyCell \ Headers
    BY CellKinds
  <2> QED
    BY <1>1, <2>1, <2>2, <2>3, <2>4, LeafHandled
<1>5. CASE t.kind # "]"
  <2> DEFINE d == StoreCompositeHeader(c, "array")
  <2> DEFINE e == PushWords(d, <<State("NEXT_ARRAY_ELEMENT")>>)
  <2>1. ParseFirstArrayElement(c, t) = ParseValue(e, t)
    BY <1>5 DEF ParseFirstArrayElement
  <2>2. d = StoreCompositeHeader(c, TypeOfState["NEXT_ARRAY_ELEMENT"])
    BY CompositeStates
  <2> HIDE DEF d
  <2>3. /\ d \in Contexts /\ d.result = "success" /\ d.state = c.state
        /\ Len(d.segment) <= size - 1 /\ CountsUpTo(d.stack, n + 1)
        /\ Sound(d.stack, d.segment, "NEXT_ARRAY_ELEMENT")
    <3>1. /\ d \in Contexts /\ d.result = "success" /\ d.state = c.state
          /\ Len(d.segment) <= (size - 2) + 1 /\ CountsUpTo(d.stack, n + 1)
          /\ Sound(d.stack, d.segment, "NEXT_ARRAY_ELEMENT")
      BY <1>1, <1>2, <1>3, <2>2, BeginsComposite
    <3> QED
      BY <1>2, <3>1
  <2>4. /\ e \in Contexts /\ e.segment = d.segment /\ e.state = d.state
        /\ e.result = d.result /\ CountsUpTo(e.stack, n + 1)
        /\ \A r : r \notin DOMAIN TypeOfState => Sound(e.stack, e.segment, r)
    BY <2>3, PushesState DEF ReturnStates
  <2> HIDE DEF e
  <2>5. Ready(e, t, size - 1, n + 1) /\ e.state \notin DOMAIN TypeOfState
    BY <1>1, <2>3, <2>4 DEF Ready
  <2> QED
    BY <2>1, <2>5, ParseValueHandled
<1> QED
  BY <1>4, <1>5

(* A comma adds an element to an array, a bracket ends it.                 *)
LEMMA NextArrayElementHandled ==
  ASSUME NEW c, NEW t \in TokenTypes, NEW size \in Int, NEW n \in Nat,
         Ready(c, t, size - 2, n), c.state = "NEXT_ARRAY_ELEMENT"
  PROVE  Handled(ParseNextArrayElement(c, t), t, size, n + 1)
<1>1. c.state \in DOMAIN TypeOfState /\ TypeOfState[c.state] = "array"
  BY CompositeStates
<1>2. size - 2 \in Int /\ size - 2 <= size /\ size <= size /\ n + 1 \in Nat
  OBVIOUS
<1>3. Ready(c, t, size, n + 1)
  BY <1>2, RoomToSpare
<1>4. CASE t.kind = "]"
  <2>1. ParseNextArrayElement(c, t) = GoTo(StoreElementsTable(c, "array"), "FINISH")
    BY <1>4 DEF ParseNextArrayElement
  <2>2. Handled(ParseNextArrayElement(c, t), t, size, n)
    BY <1>1, <2>1, EndsComposite
  <2> QED
    BY <1>2, <2>2, RoomToSpare
<1>5. CASE t.kind = ","
  <2> DEFINE d == AddCompositeElement(c)
  <2>1. ParseNextArrayElement(c, t) = GoTo(PushWords(d, <<State("NEXT_ARRAY_ELEMENT")>>), "VALUE")
    BY <1>5 DEF ParseNextArrayElement
  <2>2. /\ d \in Contexts /\ d.result = "success" /\ d.state = c.state
        /\ d.segment = c.segment /\ CountsUpTo(d.stack, n + 1)
        /\ Sound(d.stack, d.segment, c.state)
    BY <1>1, <1>5, AddsElement
  <2> HIDE DEF d
  <2>3. Len(d.segment) <= size
    BY <1>3, <2>2 DEF Ready
  <2> QED
    BY <2>1, <2>2, <2>3, GoesIntoValue DEF ReturnStates
<1>6. CASE t.kind \notin {"]", ","}
  <2>1. ParseNextArrayElement(c, t) = Reject(c)
    BY <1>6 DEF ParseNextArrayElement
  <2> QED
    BY <1>3, <2>1, RejectHandled DEF Ready, Sound
<1> QED
  BY <1>4, <1>5, <1>6

(* The first key of an object is stored, or the empty object is.           *)
LEMMA FirstKvHandled ==
  ASSUME NEW c, NEW t \in TokenTypes, NEW size \in Int, NEW n \in Nat,
         Ready(c, t, size - 2, n), c.state = "FIRST_KV"
  PROVE  Handled(ParseFirstKv(c, t), t, size, n + 1)
<1>1. c.state \notin DOMAIN TypeOfState /\ "KV_COLON" \in DOMAIN TypeOfState
  BY CompositeStates
<1>2. /\ n + 1 \in Nat \ {0} /\ size - 1 \in Int /\ size - 2 \in Int /\ size - 2 <= size
      /\ size - 2 <= size - 2 /\ (size - 2) + 1 = size - 1
  OBVIOUS
<1>3. Ready(c, t, size, n + 1) /\ Ready(c, t, size - 2, n + 1)
  BY <1>2, RoomToSpare
<1>4. /\ c \in Contexts /\ c.result = "success" /\ CountsUpTo(c.stack, n + 1)
      /\ Sound(c.stack, c.segment, c.state)
  BY <1>3 DEF Ready
<1>5. CASE t.kind = "}"
  <2>1. ParseFirstKv(c, t) = Store(GoTo(c, "FINISH"), Empty("object"))
    BY <1>5 DEF ParseFirstKv
  <2>2. Len(c.segment) + 1 <= size
    <3>1. c.segment \in Seq(AnyCell) /\ Len(c.segment) <= size - 2
      BY <1>3, <1>4 DEF Contexts, Ready
    <3>2. Len(c.segment) \in Nat
      BY <3>1, LenProperties
    <3> QED
      BY <3>1, <3>2
  <2>3. Empty("object") \in AnyCell \ Headers
    BY CellKinds
  <2> QED
    BY <1>1, <1>4, <2>1, <2>2, <2>3, LeafHandled
<1>6. CASE t.kind = "string"
  <2> DEFINE d == StoreCompositeHeader(c, "object")
  <2>1. ParseFirstKv(c, t) = GoTo(Store(d, Leaf(t)), "KV_COLON")
    BY <1>6 DEF ParseFirstKv
  <2>2. d = StoreCompositeHeader(c, TypeOfState["KV_COLON"])
    BY CompositeStates
  <2> HIDE DEF d
  <2>3. /\ d \in Contexts /\ d.result = "success"
        /\ Len(d.segment) <= size - 1 /\ CountsUpTo(d.stack, n + 1)
        /\ Sound(d.stack, d.segment, "KV_COLON")
    <3>1. /\ d \in Contexts /\ d.result = "success" /\ d.state = c.state
          /\ Len(d.segment) <= (size - 2) + 1 /\ CountsUpTo(d.stack, n + 1)
          /\ Sound(d.stack, d.segment, "KV_COLON")
      BY <1>1, <1>2, <1>3, <2>2, BeginsComposite
    <3> QED
      BY <1>2, <3>1
  <2>4. Len(d.segment) + 1 <= size
    <3>1. d.segment \in Seq(AnyCell)
      BY <2>3 DEF Contexts
    <3>2. Len(d.segment) \in Nat
      BY <3>1, LenProperties
    <3> QED
      BY <2>3, <3>2
  <2> QED
    BY <1>1, <2>1, <2>3, <2>4, KeyHandled, CompositeStates
<1>7. CASE t.kind \notin {"}", "string"}
  <2>1. ParseFirstKv(c, t) = Reject(c)
    BY <1>7 DEF ParseFirstKv
  <2> QED
    BY <1>3, <2>1, RejectHandled DEF Ready, Sound
<1> QED
  BY <1>5, <1>6, <1>7

(* A comma goes on to the next key, a brace ends the object.               *)
LEMMA NextKvHandled ==
  ASSUME NEW c, NEW t \in TokenTypes, NEW size \in Int, NEW n \in Nat,
         Ready(c, t, size - 2, n), c.state = "NEXT_KV"
  PROVE  Handled(ParseNextKv(c, t), t, size, n + 1)
<1>1. c.state \in DOMAIN TypeOfState /\ TypeOfState[c.state] = "object"
  BY CompositeStates
<1>2. size - 2 \in Int /\ size - 2 <= size
  OBVIOUS
<1>3. Ready(c, t, size, n + 1)
  BY <1>2, RoomToSpare
<1>4. CASE t.kind = "string"
  <2> DEFINE d == AddCompositeElement(c)
  <2>1. ParseNextKv(c, t) = GoTo(Store(d, Leaf(t)), "KV_COLON")
    BY <1>4 DEF ParseNextKv
  <2>2. /\ d \in Contexts /\ d.result = "success"
        /\ d.segment = c.segment /\ CountsUpTo(d.stack, n + 1)
        /\ Sound(d.stack, d.segment, c.state)
    BY <1>1, <1>4, AddsElement
  <2> HIDE DEF d
  <2>3. Len(d.segment) + 1 <= size
    <3>1. d.segment \in Seq(AnyCell) /\ Len(d.segment) <= size - 2
      BY <2>2 DEF Contexts, Ready
    <3>2. Len(d.segment) \in Nat
      BY <3>1, LenProperties
    <3> QED
      BY <3>1, <3>2
  <2> QED
    BY <1>1, <2>1, <2>2, <2>3, KeyHandled
<1>5. CASE t.kind # "string"
  <2>1. ParseNextKv(c, t) = Reject(c)
    BY <1>5 DEF ParseNextKv
  <2> QED
    BY <1>3, <2>1, RejectHandled DEF Ready, Sound
<1> QED
  BY <1>4, <1>5

(* A colon goes on to the value of the key.                                *)
LEMMA KvColonHandled ==
  ASSUME NEW c, NEW t \in TokenTypes, NEW size \in Int, NEW n \in Nat,
         Ready(c, t, size, n), c.state = "KV_COLON"
  PROVE  Handled(ParseKvColon(c, t), t, size, n)
<1>1. /\ c \in Contexts /\ c.result = "success" /\ CountsUpTo(c.stack, n)
      /\ Sound(c.stack, c.segment, c.state) /\ Len(c.segment) <= size
  BY DEF Ready
<1>2. CASE t.kind = ":"
  <2>1. ParseKvColon(c, t) = GoTo(PushWords(c, <<State("KV_END")>>), "VALUE")
    BY <1>2 DEF ParseKvColon
  <2>2. Sound(c.stack, c.segment, "KV_END")
    BY <1>1, SameTop, CompositeStates
  <2> QED
    BY <1>1, <2>1, <2>2, GoesIntoValue DEF ReturnStates
<1>3. CASE t.kind # ":"
  <2>1. ParseKvColon(c, t) = Reject(c)
    BY <1>3 DEF ParseKvColon
  <2> QED
    BY <1>1, <2>1, RejectHandled DEF Sound
<1> QED
  BY <1>2, <1>3

(* The end of a member adds the next one, or ends the object.              *)
LEMMA KvEndHandled ==
  ASSUME NEW c, NEW t \in TokenTypes, NEW size \in Int, NEW n \in Nat,
         Ready(c, t, size - 2, n), c.state = "KV_END"
  PROVE  Handled(ParseKvEnd(c, t), t, size, n)
<1>1. /\ c.state \in DOMAIN TypeOfState /\ TypeOfState[c.state] = "object"
      /\ "NEXT_KV" \in DOMAIN TypeOfState /\ TypeOfState["NEXT_KV"] = "object"
  BY CompositeStates
<1>2. Ready(c, t, size, n)
  BY RoomToSpare
<1>3. CASE t.kind = "}"
  <2>1. ParseKvEnd(c, t) = GoTo(StoreElementsTable(c, "object"), "FINISH")
    BY <1>3 DEF ParseKvEnd
  <2> QED
    BY <1>1, <2>1, EndsComposite
<1>4. CASE t.kind = ","
  <2>1. ParseKvEnd(c, t) = GoTo(c, "NEXT_KV")
    BY <1>4 DEF ParseKvEnd
  <2> QED
    BY <1>1, <1>2, <2>1, GoToHandled DEF States
<1>5. CASE t.kind \notin {"}", ","}
  <2>1. ParseKvEnd(c, t) = Reject(c)
    BY <1>5 DEF ParseKvEnd
  <2> QED
    BY <1>2, <2>1, RejectHandled DEF Ready, Sound
<1> QED
  BY <1>3, <1>4, <1>5

(* Every state of thsn_parser_parse_next_token hands over to its handler.  *)
LEMMA HandleHandled ==
  ASSUME NEW c, NEW t \in TokenTypes, NEW size \in Int, NEW n \in Nat,
         Ready(c, t, size - 2, n)
  PROVE  Handled(Handle(c, t), t, size, n + 1)
<1>1. /\ size - 2 \in Int /\ size - 2 <= size /\ size - 2 <= size - 1 /\ size <= size
      /\ size - 1 \in Int /\ n + 1 \in Nat
  OBVIOUS
<1>2. /\ Ready(c, t, size, n + 1) /\ Ready(c, t, size, n)
      /\ Ready(c, t, size - 1, n + 1)
  BY <1>1, RoomToSpare
<1>3. c.state \in States
  BY <1>2 DEF Ready, Contexts
<1>4. CASE c.state = "VALUE"
  <2>1. Handle(c, t) = ParseValue(c, t) /\ c.state \notin DOMAIN TypeOfState
    BY <1>4, CompositeStates DEF Handle
  <2> QED
    BY <1>2, <2>1, ParseValueHandled
<1>5. CASE c.state = "FIRST_ARRAY_ELEMENT"
  <2>1. Handle(c, t) = ParseFirstArrayElement(c, t)
    BY <1>5 DEF Handle
  <2> QED
    BY <1>5, <2>1, FirstArrayElementHandled
<1>6. CASE c.state = "NEXT_ARRAY_ELEMENT"
  <2>1. Handle(c, t) = ParseNextArrayElement(c, t)
    BY <1>6 DEF Handle
  <2> QED
    BY <1>6, <2>1, NextArrayElementHandled
<1>7. CASE c.state = "FIRST_KV"
  <2>1. Handle(c, t) = ParseFirstKv(c, t)
    BY <1>7 DEF Handle
  <2> QED
    BY <1>7, <2>1, FirstKvHandled
<1>8. CASE c.state = "KV_COLON"
  <2>1. Handle(c, t) = ParseKvColon(c, t)
    BY <1>8 DEF Handle
  <2>2. Handled(ParseKvColon(c, t), t, size, n)
    BY <1>2, <1>8, KvColonHandled
  <2> QED
    BY <1>1, <2>1, <2>2, RoomToSpare
<1>9. CASE c.state = "KV_END"
  <2>1. Handle(c, t) = ParseKvEnd(c, t)
    BY <1>9 DEF Handle
  <2>2. Handled(ParseKvEnd(c, t), t, size, n)
    BY <1>9, KvEndHandled
  <2> QED
    BY <1>1, <2>1, <2>2, RoomToSpare
<1>10. CASE c.state = "NEXT_KV"
  <2>1. Handle(c, t) = ParseNextKv(c, t)
    BY <1>10 DEF Handle
  <2> QED
    BY <1>10, <2>1, NextKvHandled
<1>11. CASE c.state = "FINISH"
  <2>1. Handle(c, t) = Reject(c)
    BY <1>11 DEF Handle
  <2> QED
    BY <1>2, <2>1, RejectHandled DEF Ready, Sound
<1> QED
  BY <1>3, <1>4, <1>5, <1>6, <1>7, <1>8, <1>9, <1>10, <1>11 DEF States

----------------------------------------------------------------------------
(* The rest of a call, and the steps of the specification.                  *)

(* What holds of the context after every call, the token being the last.    *)
Settled(c, t, size, n) ==
  /\ c \in Contexts /\ c.result # "mismatch"
  /\ Len(c.segment) <= size
  /\ OffsetsUpTo(c.stack, Len(c.segment)) /\ CountsUpTo(c.stack, n)
  /\ c.result = "success" =>
       /\ Sound(c.stack, c.segment, c.state)
       /\ t.kind # "eof" /\ c.state \in DOMAIN TypeOfState => Stored(c)
  /\ c.result = "finished" => UnwrittenWait(c.stack, c.segment) /\ c.stack = <<>>

(* A value is complete: the composite it is in goes on.                    *)
LEMMA PopSettles ==
  ASSUME NEW c \in Contexts, NEW t, NEW size, NEW n, c.stack # <<>>,
         c.result = "success", c.state \notin DOMAIN TypeOfState,
         Len(c.segment) <= size, CountsUpTo(c.stack, n),
         Sound(c.stack, c.segment, c.state), t.kind # "eof" => Stored(c)
  PROVE  Settled(PopState(c), t, size, n)
<1> DEFINE other == Front(c.stack)
<1> DEFINE s == Last(c.stack)[2]
<1> DEFINE d == PopState(c)
<1>1. c.stack \in Seq(AnyWord) /\ c.segment \in Seq(AnyCell)
  BY DEF Contexts
<1>2. /\ Len(c.stack) \in Nat \ {0} /\ Last(c.stack) = c.stack[Len(c.stack)]
      /\ other \in Seq(AnyWord) /\ Len(other) = Len(c.stack) - 1
      /\ \A k \in 1 .. Len(c.stack) - 1 : other[k] = c.stack[k]
  BY <1>1, FrontAndLast
<1>3. Last(c.stack)[1] = "state"
  BY <1>2 DEF Sound, Fits
<1>4. s \in ReturnStates /\ s \in States /\ Sound(other, c.segment, s)
  BY <1>1, <1>3, PopStateSound, CompositeStates
<1>5. d = [c EXCEPT !.state = s, !.stack = other]
  BY <1>3, TopIsWord DEF PopState
<1> HIDE DEF other, s
<1>6. /\ d.stack = other /\ d.segment = c.segment /\ d.state = s /\ d.result = "success"
      /\ d \in Contexts
  BY <1>2, <1>4, <1>5 DEF Contexts
<1>7. \A k \in 1 .. Len(other) : k \in 1 .. Len(c.stack) /\ k \in 1 .. Len(c.stack) - 1
  BY <1>2
<1>8. CountsUpTo(other, n)
  BY <1>2, <1>7 DEF CountsUpTo
<1>9. Stored(c) => Stored(d)
  BY <1>2, <1>6, <1>7 DEF Stored
<1> QED
  BY <1>4, <1>6, <1>8, <1>9 DEF Settled, Sound

(* thsn_parser_parse_next_token, with the state popped at the end of it.   *)
LEMMA TokenSettles ==
  ASSUME NEW c, NEW t \in TokenTypes, NEW size \in Int, NEW n \in Nat,
         Ready(c, t, size - 2, n)
  PROVE  Settled(ParseNextToken(c, t), t, size, n + 1)
<1> DEFINE h == Handle(c, t)
<1>1. Handled(h, t, size, n + 1)
  BY HandleHandled
<1> HIDE DEF h
<1>2. ParseNextToken(c, t) = AfterHandler(h)
  BY DEF ParseNextToken, h
<1>3. CASE h.result # "success" \/ h.state # "FINISH"
  <2>1. AfterHandler(h) = h
    BY <1>3 DEF AfterHandler
  <2> QED
    BY <1>1, <1>2, <1>3, <2>1 DEF Handled, Settled
<1>4. CASE h.result = "success" /\ h.state = "FINISH" /\ h.stack = <<>>
  <2> DEFINE d == [h EXCEPT !.result = "finished"]
  <2>1. AfterHandler(h) = d
    BY <1>4 DEF AfterHandler
  <2>2. /\ d \in Contexts /\ d.result = "finished" /\ d.stack = h.stack
        /\ d.segment = h.segment
    BY <1>1 DEF Handled, Contexts, Results
  <2> HIDE DEF d
  <2> QED
    BY <1>1, <1>2, <1>4, <2>1, <2>2 DEF Handled, Settled, Sound
<1>5. CASE h.result = "success" /\ h.state = "FINISH" /\ h.stack # <<>>
  <2>1. AfterHandler(h) = PopState(h)
    BY <1>5 DEF AfterHandler
  <2>2. /\ h \in Contexts /\ Len(h.segment) <= size /\ CountsUpTo(h.stack, n + 1)
        /\ Sound(h.stack, h.segment, h.state) /\ (t.kind # "eof" => Stored(h))
        /\ h.state \notin DOMAIN TypeOfState
    BY <1>1, <1>5, CompositeStates DEF Handled
  <2> QED
    BY <1>2, <1>5, <2>1, <2>2, PopSettles
<1> QED
  BY <1>3, <1>4, <1>5

(* thsn_parser_add_value_handle stores a handle in place of a value.       *)
LEMMA HandleSettles ==
  ASSUME NEW c, NEW value \in TokenTypes, NEW size \in Int, NEW n \in Nat,
         Ready(c, value, size - 2, n), value.kind # "eof"
  PROVE  Settled(AddValueHandle(c, value), value, size, n + 1)
<1>1. size - 2 \in Int /\ size - 2 <= size
  OBVIOUS
<1>2. Ready(c, value, size, n + 1) /\ Ready(c, value, size - 2, n)
  BY <1>1, RoomToSpare
<1>3. /\ c \in Contexts /\ c.stack \in Seq(AnyWord) /\ c.segment \in Seq(AnyCell)
      /\ c.result = "success" /\ Len(c.segment) <= size - 2 /\ Len(c.segment) <= size
      /\ Sound(c.stack, c.segment, c.state) /\ CountsUpTo(c.stack, n + 1)
  BY <1>2 DEF Ready, Contexts
<1> DEFINE more == Append(c.segment, ValueHandle(value))
<1> DEFINE d == Store(c, ValueHandle(value))
<1>4. ValueHandle(value) \in AnyCell \ Headers
  BY CellKinds
<1>5. /\ more \in Seq(AnyCell) /\ Len(c.segment) \in Nat /\ Len(more) = Len(c.segment) + 1
  BY <1>3, <1>4, OneCellMore
<1>6. Sound(c.stack, more, c.state)
  BY <1>3, <1>4, StoreSound
<1> HIDE DEF more
<1>7. /\ d \in Contexts /\ d.stack = c.stack /\ d.segment = more /\ d.state = c.state
      /\ d.result = "success"
  BY <1>3, <1>5 DEF Store, Contexts, more
<1>8. Stored(d)
  <2> SUFFICES ASSUME NEW k \in 1 .. Len(c.stack), IsOffset(c.stack[k])
               PROVE  c.stack[k][2] < Len(more)
    BY <1>7 DEF Stored
  <2>1. c.stack[k] \in AnyWord
    BY <1>3, LenProperties
  <2>2. c.stack[k][2] \in Nat /\ c.stack[k][2] <= Len(c.segment)
    BY <1>3, <2>1, WordKinds DEF IsOffset, Sound, OffsetsUpTo
  <2> QED
    BY <1>5, <2>2
<1>9. Len(more) <= size
  BY <1>3, <1>5
<1> HIDE DEF d
<1>10. CASE c.state = "VALUE" /\ c.stack # <<>>
  <2>1. AddValueHandle(c, value) = PopState(d) /\ d.state \notin DOMAIN TypeOfState
    BY <1>7, <1>10, CompositeStates DEF AddValueHandle, d
  <2>2. Settled(PopState(d), value, size, n + 1)
    BY <1>3, <1>6, <1>7, <1>8, <1>9, <1>10, <2>1, PopSettles
  <2> QED
    BY <2>1, <2>2
<1>11. CASE c.state = "VALUE" /\ c.stack = <<>>
  <2>1. ~TopIs(d, <<"state">>)
    BY <1>7, <1>11, TopIsWord
  <2>2. AddValueHandle(c, value) = Reject(d)
    BY <1>7, <1>11, <2>1 DEF AddValueHandle, PopState, d
  <2>3. Handled(Reject(d), value, size, n + 1)
    BY <1>3, <1>6, <1>7, <1>9, RejectHandled DEF Sound
  <2>4. Reject(d).result = "input_error"
    BY <1>7 DEF Reject, Contexts
  <2> QED
    BY <2>2, <2>3, <2>4 DEF Handled, Settled
<1>12. CASE c.state # "VALUE"
  <2>1. AddValueHandle(c, value) = Reject(c)
    BY <1>12 DEF AddValueHandle
  <2>2. Handled(Reject(c), value, size, n + 1)
    BY <1>3, RejectHandled DEF Sound
  <2>3. Reject(c).result = "input_error"
    BY <1>3 DEF Reject, Contexts
  <2> QED
    BY <2>1, <2>2, <2>3 DEF Handled, Settled
<1> QED
  BY <1>10, <1>11, <1>12

(* The invariant holds of a parser that has read nothing.                  *)
LEMMA InitSound == Init => ParserInv
<1> SUFFICES ASSUME Init PROVE ParserInv
  OBVIOUS
<1>1. /\ context.stack = <<>> /\ context.segment = <<>> /\ context.state = "VALUE"
      /\ context.result = "success" /\ context \in Contexts /\ read = <<>>
  BY DEF Init, NewContext, Contexts, States, Results
<1>2. read \in Seq(TokenTypes) /\ Len(read) = 0 /\ Len(context.stack) = 0
      /\ Len(context.segment) = 0 /\ MaxTokens \in Nat
  BY <1>1, InputsAssumption
<1>3. "VALUE" \notin DOMAIN TypeOfState
  BY CompositeStates
<1>4. Sound(context.stack, context.segment, context.state)
  BY <1>1, <1>2, <1>3
  DEF Sound, OffsetsRise, OffsetsUpTo, Fits, UnwrittenWait
<1>5. Bounded(context.stack, context.segment, Len(read))
  BY <1>2 DEF Bounded, OffsetsUpTo, CountsUpTo
<1> QED
  BY <1>1, <1>2, <1>3, <1>4, <1>5 DEF ParserInv, LastElementStored

(* A token or handle is taken in a settled way: the invariant holds again.  *)
LEMMA TakenSound ==
  ASSUME ParserInv, NEW t \in TokenTypes, Take(t),
         Settled(context', t, 2 * (Len(read) + 1), Len(read) + 1)
  PROVE  ParserInv'
<1>1. /\ read' \in Seq(TokenTypes) /\ Len(read') = Len(read) + 1 /\ Len(read) \in Nat
      /\ read' # <<>> /\ Last(read') = t
  <2>1. read \in Seq(TokenTypes) /\ read' = Append(read, t)
    BY DEF ParserInv, Take
  <2>2. /\ read' \in Seq(TokenTypes) /\ Len(read') = Len(read) + 1 /\ Len(read) \in Nat
        /\ read' # <<>> /\ read'[Len(read) + 1] = t
    BY <2>1, AppendProperties, LenProperties
  <2> QED
    BY <2>2 DEF Last
<1>2. Len(read') <= MaxTokens
  BY <1>1, InputsAssumption DEF Take
<1>3. AtEnd' <=> t.kind = "eof"
  BY <1>1 DEF AtEnd
<1>4. LastElementStored'
  BY <1>3 DEF LastElementStored, Settled, Stored
<1>5. Bounded(context.stack, context.segment, Len(read))'
  BY <1>1 DEF Settled, Bounded
<1> QED
  BY <1>1, <1>2, <1>4, <1>5 DEF ParserInv, Settled

(* Every token and every handle keeps the invariant.                       *)
LEMMA NextSound == ParserInv /\ [Next]_<<context, read>> => ParserInv'
<1> SUFFICES ASSUME ParserInv, [Next]_<<context, read>>
             PROVE  ParserInv'
  OBVIOUS
<1>1. /\ read \in Seq(TokenTypes) /\ Len(read) \in Nat
      /\ 2 * (Len(read) + 1) \in Int /\ 2 * (Len(read) + 1) - 2 = 2 * Len(read)
  <2>1. Len(read) \in Nat
    BY LenProperties DEF ParserInv
  <2> QED
    BY <2>1 DEF ParserInv
<1>2. ASSUME NEW t, context.result = "success", t.kind # "eof" => ~AtEnd
      PROVE  Ready(context, t, 2 * (Len(read) + 1) - 2, Len(read))
  BY <1>1, <1>2 DEF ParserInv, LastElementStored, Ready, Stored, Bounded
<1>3. CASE NextToken
  <2>1. PICK kind \in Inputs : /\ context.result = "success" /\ (AtEnd => kind = "eof")
                              /\ Take(Token(kind))
                              /\ context' = ParseNextToken(context, Token(kind))
    BY <1>3 DEF NextToken
  <2>2. Token(kind) \in TokenTypes /\ Token(kind).kind = kind
    BY <1>1, InputsAssumption DEF Token, TokenTypes
  <2>3. Ready(context, Token(kind), 2 * (Len(read) + 1) - 2, Len(read))
    BY <1>2, <2>1, <2>2
  <2>4. Settled(context', Token(kind), 2 * (Len(read) + 1), Len(read) + 1)
    BY <1>1, <2>1, <2>2, <2>3, TokenSettles
  <2> QED
    BY <2>1, <2>2, <2>4, TakenSound
<1>4. CASE NextHandle
  <2>1. /\ context.result = "success" /\ ~AtEnd /\ Take(Token("handle"))
        /\ context' = AddValueHandle(context, Token("handle"))
    BY <1>4 DEF NextHandle
  <2>2. Token("handle") \in TokenTypes /\ Token("handle").kind # "eof"
    BY <1>1 DEF Token, TokenTypes
  <2>3. Ready(context, Token("handle"), 2 * (Len(read) + 1) - 2, Len(read))
    BY <1>2, <2>1
  <2>4. Settled(context', Token("handle"), 2 * (Len(read) + 1), Len(read) + 1)
    BY <1>1, <2>1, <2>2, <2>3, HandleSettles
  <2> QED
    BY <2>1, <2>2, <2>4, TakenSound
<1>5. CASE UNCHANGED <<context, read>>
  BY <1>5 DEF ParserInv, LastElementStored, AtEnd
<1> QED
  BY <1>3, <1>4, <1>5 DEF Next

(* The invariant of the parser and its segment.                            *)
THEOREM ParserIsSound == Spec => []ParserInv
BY InitSound, NextSound, PTL DEF Spec

----------------------------------------------------------------------------
(* The checked properties.                                                 *)

(* The context is of its type: tokens cost at most two cells, and offsets   *)
(* and counts are bounded by the number of tokens.                          *)
THEOREM ParserTypeCorrect == Spec => []TypeOK
<1>1. ParserInv => TypeOK
  <2> SUFFICES ASSUME ParserInv PROVE TypeOK
    OBVIOUS
  <2>1. /\ context.stack \in Seq(AnyWord) /\ context.segment \in Seq(AnyCell)
        /\ context.state \in States /\ context.result \in Results
    BY DEF ParserInv, Contexts
  <2>2. /\ Len(context.stack) \in Nat /\ Len(context.segment) \in Nat
        /\ \A k \in 1 .. Len(context.stack) : context.stack[k] \in AnyWord
        /\ DOMAIN context.segment = 1 .. Len(context.segment)
        /\ \A k \in 1 .. Len(context.segment) : context.segment[k] \in AnyCell
        /\ context.stack \in [1 .. Len(context.stack) -> AnyWord]
    BY <2>1, LenProperties
  <2>3. /\ Len(read) \in Nat /\ Len(read) <= MaxTokens /\ MaxTokens \in Nat
        /\ Len(context.segment) <= 2 * Len(read)
    BY LenProperties, InputsAssumption DEF ParserInv, Bounded
  <2>4. ASSUME NEW k \in 1 .. Len(context.stack)
        PROVE  context.stack[k] \in Words
    <3> DEFINE w == context.stack[k]
    <3>1. w \in AnyWord
      BY <2>2
    <3>2. CASE w \in {State(s) : s \in ReturnStates}
      BY <3>2, CompositeStates DEF Words
    <3>3. CASE w \in {Offset(o) : o \in Nat}
      <4>1. PICK o \in Nat : w = Offset(o)
        BY <3>3
      <4>2. o <= Len(context.segment)
        BY <4>1, WordParts DEF ParserInv, Bounded, OffsetsUpTo, IsOffset
      <4>3. o \in OffsetTypes
        BY <2>2, <2>3, <4>2 DEF OffsetTypes
      <4> QED
        BY <4>1, <4>3 DEF Words
    <3>4. CASE w \in {Count(n) : n \in Nat \ {0}}
      <4>1. PICK n \in Nat \ {0} : w = Count(n)
        BY <3>4
      <4>2. n <= Len(read)
        BY <4>1, WordParts DEF ParserInv, Bounded, CountsUpTo
      <4>3. n \in 1 .. MaxTokens
        BY <2>3, <4>2
      <4> QED
        BY <4>1, <4>3 DEF Words
    <3> QED
      BY <3>1, <3>2, <3>3, <3>4 DEF AnyWord
  <2>5. context.stack \in Seq(Words)
    BY <2>2, <2>4
  <2> QED
    BY <2>1, <2>2, <2>3, <2>5, CellTags DEF TypeOK, ParserInv
<1> QED
  BY <1>1, ParserIsSound, PTL

(* Nothing is ever popped as a word of another kind than it was pushed as,  *)
(* and every state on the stack lies on the frame that it goes on with.     *)
THEOREM StackIsReadAsWritten == Spec => []StackFits
<1>1. ParserInv => StackFits
  BY DEF ParserInv, StackFits, Sound, Fits
<1> QED
  BY <1>1, ParserIsSound, PTL

----------------------------------------------------------------------------
(* What has been stored can be read, element by element.                   *)

(* The states in which the value of every element has been stored, if the   *)
(* input has not ended; in the others the last one may be missing.          *)
FullStates == {"NEXT_ARRAY_ELEMENT", "KV_END", "NEXT_KV", "FINISH"}
Margin(state, t) == IF t.kind # "eof" /\ state \in FullStates THEN 2 ELSE 1

(* An element of a composite that is not complete, whose value may be yet   *)
(* to come; of an object's at least `margin` cells have been stored.        *)
ElementSoFar(segment, type, offset, margin) ==
  IF type = "array" THEN offset < Len(segment) => HoldsValue(segment, offset)
  ELSE /\ offset < Len(segment) => HoldsKey(segment, offset)
       /\ offset + 1 < Len(segment) => HoldsValue(segment, offset + 1)
       /\ offset + margin <= Len(segment)

(* The frame from `bottom` to its count at position k of the stack.         *)
FrameReads(stack, segment, bottom, k, type, margin) ==
  /\ bottom >= 1
  /\ \A l \in bottom .. k - 1 : IsOffset(stack[l])
  /\ stack[bottom][2] < Len(segment) /\ segment[stack[bottom][2] + 1].tag = type
  /\ \A l \in bottom + 1 .. k - 1 : ElementSoFar(segment, type, stack[l][2], margin)

FramesRead(stack, segment, margin) ==
  \A k \in 1 .. Len(stack) :
    stack[k][1] = "count" =>
      \E type \in {"array", "object"} :
        FrameReads(stack, segment, k - stack[k][2] - 1, k, type, margin)

(* Every header that is written.                                           *)
Composed(segment) ==
  \A k \in 1 .. Len(segment) : segment[k] \notin Headers => IsReadable(segment, k)

ReadableInv ==
  /\ Composed(context.segment)
  /\ context.result = "success" =>
       FramesRead(context.stack, context.segment,
                  IF ~AtEnd /\ context.state \in FullStates THEN 2 ELSE 1)

(* A segment grows at its end, and headers are written in it.               *)
Grows(segment, more) ==
  /\ Len(segment) <= Len(more)
  /\ \A k \in 1 .. Len(segment) :
       \/ more[k] = segment[k]
       \/ segment[k] \in Headers /\ more[k].tag = segment[k].tag

ValueTags == {"leaf", "handle", "array", "object"}

(* A header is a value and neither a key nor a table.                      *)
LEMMA HeaderTags == \A cell \in Headers : cell.tag \in {"array", "object"}
BY DEF Headers, Header, Written

(* What lies at an offset stays there.                                     *)
LEMMA HeldStays ==
  ASSUME NEW segment \in Seq(AnyCell), NEW more \in Seq(AnyCell), Grows(segment, more),
         NEW o
  PROVE  /\ HoldsValue(segment, o) => HoldsValue(more, o)
         /\ HoldsKey(segment, o) => HoldsKey(more, o)
         /\ \A type : HoldsElement(segment, type, o) => HoldsElement(more, type, o)
         /\ HoldsElement(segment, "object", o) <=> HoldsKey(segment, o) /\ HoldsValue(segment, o + 1)
<1>1. /\ DOMAIN segment = 1 .. Len(segment) /\ DOMAIN more = 1 .. Len(more)
      /\ Len(segment) \in Nat /\ Len(more) \in Nat
  BY LenProperties
<1>2. \A k \in DOMAIN segment : k \in DOMAIN more
  BY <1>1 DEF Grows
<1>3. \A k \in DOMAIN segment :
        /\ more[k].tag = segment[k].tag
        /\ segment[k].tag \notin {"array", "object"} => more[k] = segment[k]
  BY <1>1, HeaderTags DEF Grows
<1>4. \A p : HoldsValue(segment, p) => HoldsValue(more, p)
  BY <1>2, <1>3 DEF HoldsValue
<1>5. HoldsKey(segment, o) => HoldsKey(more, o)
  BY <1>2, <1>3 DEF HoldsKey
<1> QED
  BY <1>4, <1>5 DEF HoldsElement

(* And so does a composite that can be read.                               *)
LEMMA ReadableStays ==
  ASSUME NEW segment \in Seq(AnyCell), NEW more \in Seq(AnyCell), Grows(segment, more),
         NEW k \in 1 .. Len(segment), IsReadable(segment, k), more[k] = segment[k]
  PROVE  IsReadable(more, k)
<1> DEFINE cell == segment[k]
<1>1. /\ DOMAIN segment = 1 .. Len(segment) /\ DOMAIN more = 1 .. Len(more)
      /\ Len(segment) \in Nat /\ Len(more) \in Nat
  BY LenProperties
<1>2. \A l \in DOMAIN segment :
        l \in DOMAIN more /\ (segment[l].tag = "table" => more[l] = segment[l])
  BY <1>1, HeaderTags DEF Grows
<1>3. ASSUME NEW type, NEW header, NEW table, NEW count,
             HoldsTable(segment, type, header, table, count)
      PROVE  HoldsTable(more, type, header, table, count)
  <2>1. table + 1 \in DOMAIN more /\ more[table + 1] = segment[table + 1]
    BY <1>2, <1>3 DEF HoldsTable
  <2>2. \A o : HoldsElement(segment, type, o) => HoldsElement(more, type, o)
    BY HeldStays
  <2> QED
    BY <1>3, <2>1, <2>2 DEF HoldsTable
<1> QED
  BY <1>3 DEF IsReadable

(* An element stays as it is while the segment grows behind it.             *)
LEMMA ElementKept ==
  ASSUME NEW segment \in Seq(AnyCell), NEW more \in Seq(AnyCell), Grows(segment, more),
         NEW o \in Nat, NEW type, o < Len(segment), ElementSoFar(segment, type, o, 2)
  PROVE  ElementSoFar(more, type, o, 2)
<1>1. Len(segment) \in Nat /\ Len(more) \in Nat /\ Len(segment) <= Len(more)
  BY LenProperties DEF Grows
<1>2. CASE type = "array"
  BY <1>1, <1>2, HeldStays DEF ElementSoFar
<1>3. CASE type # "array"
  <2>1. /\ HoldsKey(segment, o) /\ o + 2 <= Len(segment)
        /\ o + 1 < Len(segment) => HoldsValue(segment, o + 1)
    BY <1>3 DEF ElementSoFar
  <2>2. o + 1 < Len(segment) /\ o + 2 <= Len(more)
    BY <1>1, <2>1
  <2>3. HoldsKey(more, o) /\ HoldsValue(more, o + 1)
    BY <2>1, <2>2, HeldStays
  <2> QED
    BY <1>3, <2>2, <2>3 DEF ElementSoFar
<1> QED
  BY <1>2, <1>3

(* A value that is stored is the one an element waited for.                 *)
LEMMA ElementGetsValue ==
  ASSUME NEW segment \in Seq(AnyCell), NEW more \in Seq(AnyCell), Grows(segment, more),
         Len(more) = Len(segment) + 1, more[Len(more)].tag \in ValueTags,
         NEW o \in Nat, NEW type, ElementSoFar(segment, type, o, 1)
  PROVE  ElementSoFar(more, type, o, 2)
<1>1. /\ Len(segment) \in Nat /\ Len(more) \in Nat /\ DOMAIN more = 1 .. Len(more)
      /\ Len(more) \in DOMAIN more /\ Len(segment) + 1 = Len(more)
  BY LenProperties
<1>2. HoldsValue(more, Len(segment))
  BY <1>1 DEF HoldsValue, ValueTags
<1>3. CASE type = "array"
  <2>1. o < Len(more) => o < Len(segment) \/ o = Len(segment)
    BY <1>1
  <2> QED
    BY <1>2, <1>3, <2>1, HeldStays DEF ElementSoFar
<1>4. CASE type # "array"
  <2>1. /\ o < Len(segment) => HoldsKey(segment, o)
        /\ o + 1 < Len(segment) => HoldsValue(segment, o + 1)
        /\ o + 1 <= Len(segment)
    BY <1>4 DEF ElementSoFar
  <2>2. /\ o < Len(segment) /\ o + 2 <= Len(more)
        /\ o + 1 < Len(segment) \/ o + 1 = Len(segment)
    BY <1>1, <2>1
  <2>3. HoldsKey(more, o) /\ HoldsValue(more, o + 1)
    BY <1>2, <2>1, <2>2, HeldStays
  <2> QED
    BY <1>4, <2>2, <2>3 DEF ElementSoFar
<1> QED
  BY <1>3, <1>4

(* A key that is stored is the one an object's next element waited for.     *)
LEMMA ElementGetsKey ==
  ASSUME NEW segment \in Seq(AnyCell), NEW more \in Seq(AnyCell), Grows(segment, more),
         Len(more) = Len(segment) + 1, HoldsKey(more, Len(segment)),
         NEW o \in Nat, NEW type, ElementSoFar(segment, type, o, 0)
  PROVE  ElementSoFar(more, type, o, 1)
<1>1. Len(segment) \in Nat
  BY LenProperties
<1>2. HoldsValue(more, Len(segment))
  BY DEF HoldsKey, HoldsValue
<1>3. CASE type = "array"
  <2>1. o < Len(more) => o < Len(segment) \/ o = Len(segment)
    BY <1>1
  <2> QED
    BY <1>2, <1>3, <2>1, HeldStays DEF ElementSoFar
<1>4. CASE type # "array"
  <2>1. /\ o < Len(segment) => HoldsKey(segment, o)
        /\ o + 1 < Len(segment) => HoldsValue(segment, o + 1)
        /\ o + 0 <= Len(segment)
    BY <1>4 DEF ElementSoFar
  <2>2. /\ o < Len(segment) \/ o = Len(segment)
        /\ o + 1 < Len(more) => o + 1 < Len(segment) \/ o + 1 = Len(segment)
        /\ o + 1 <= Len(more)
    BY <1>1, <2>1
  <2>3. HoldsKey(more, o) /\ (o + 1 < Len(more) => HoldsValue(more, o + 1))
    BY <1>2, <2>1, <2>2, HeldStays
  <2> QED
    BY <1>4, <2>2, <2>3 DEF ElementSoFar
<1> QED
  BY <1>3, <1>4

(* Less is asked of an element.                                            *)
LEMMA ElementEasier ==
  ASSUME NEW segment \in Seq(AnyCell), NEW o \in Nat, NEW type, NEW margin \in Nat,
         NEW less \in Nat, less <= margin, ElementSoFar(segment, type, o, margin)
  PROVE  ElementSoFar(segment, type, o, less)
<1>1. Len(segment) \in Nat
  BY LenProperties
<1>2. o + margin <= Len(segment) => o + less <= Len(segment)
  BY <1>1
<1> QED
  BY <1>2 DEF ElementSoFar

(* What holds of the elements on a stack holds of its frames.               *)
LEMMA FramesLift ==
  ASSUME NEW stack \in Seq(AnyWord), NEW segment \in Seq(AnyCell), NEW more \in Seq(AnyCell),
         Grows(segment, more), NEW margin, NEW margin2, FramesRead(stack, segment, margin),
         \A l \in 1 .. Len(stack) : IsOffset(stack[l]) =>
           \A type : ElementSoFar(segment, type, stack[l][2], margin)
                       => ElementSoFar(more, type, stack[l][2], margin2)
  PROVE  FramesRead(stack, more, margin2)
<1> SUFFICES ASSUME NEW k \in 1 .. Len(stack), stack[k][1] = "count"
             PROVE  \E type \in {"array", "object"} :
                      FrameReads(stack, more, k - stack[k][2] - 1, k, type, margin2)
  BY DEF FramesRead
<1>1. PICK type \in {"array", "object"} :
        FrameReads(stack, segment, k - stack[k][2] - 1, k, type, margin)
  BY DEF FramesRead
<1> DEFINE bottom == k - stack[k][2] - 1
<1>2. /\ Len(stack) \in Nat /\ Len(segment) \in Nat /\ Len(more) \in Nat
      /\ Len(segment) <= Len(more)
      /\ \A l \in 1 .. Len(stack) : IsOffset(stack[l]) => stack[l][2] \in Nat
      /\ stack[k][2] \in Nat \ {0}
  <2>1. \A l \in 1 .. Len(stack) : stack[l] \in AnyWord
    BY LenProperties
  <2> QED
    BY <2>1, LenProperties, WordKinds DEF IsOffset, Grows
<1>3. bottom \in Int /\ bottom <= k - 1 /\ bottom \in bottom .. k - 1
  BY <1>2
<1>4. /\ bottom >= 1
      /\ \A l \in bottom .. k - 1 : IsOffset(stack[l])
      /\ stack[bottom][2] < Len(segment) /\ segment[stack[bottom][2] + 1].tag = type
      /\ \A l \in bottom + 1 .. k - 1 : ElementSoFar(segment, type, stack[l][2], margin)
  BY <1>1 DEF FrameReads
<1> HIDE DEF bottom
<1>5. \A l \in bottom .. k - 1 : l \in 1 .. Len(stack)
  BY <1>2, <1>3, <1>4
<1>6. stack[bottom][2] < Len(more) /\ more[stack[bottom][2] + 1].tag = type
  <2>1. stack[bottom][2] \in Nat
    BY <1>2, <1>3, <1>4, <1>5
  <2>2. stack[bottom][2] + 1 \in 1 .. Len(segment) /\ stack[bottom][2] < Len(more)
    BY <1>2, <1>4, <2>1
  <2> QED
    BY <1>4, <2>2 DEF Grows
<1>7. ASSUME NEW l \in bottom + 1 .. k - 1
      PROVE  ElementSoFar(more, type, stack[l][2], margin2)
  <2>1. l \in bottom .. k - 1
    BY <1>3
  <2> QED
    BY <1>4, <1>5, <2>1
<1> QED
  BY <1>4, <1>6, <1>7 DEF FrameReads, bottom

(* The frames of a stack after more was stored, for all that is asked.      *)
LEMMA FramesGrow ==
  ASSUME NEW stack \in Seq(AnyWord), NEW segment \in Seq(AnyCell), NEW more \in Seq(AnyCell),
         Grows(segment, more)
  PROVE  /\ /\ FramesRead(stack, segment, 2)
            /\ \A l \in 1 .. Len(stack) : IsOffset(stack[l]) => stack[l][2] < Len(segment)
            => FramesRead(stack, more, 2)
         /\ /\ Len(more) = Len(segment) + 1 /\ more[Len(more)].tag \in ValueTags
            /\ FramesRead(stack, segment, 1)
            => FramesRead(stack, more, 2)
         /\ /\ Len(more) = Len(segment) + 1 /\ HoldsKey(more, Len(segment))
            /\ FramesRead(stack, segment, 0)
            => FramesRead(stack, more, 1)
         /\ FramesRead(stack, segment, 2) => FramesRead(stack, segment, 1)
         /\ FramesRead(stack, segment, 1) => FramesRead(stack, segment, 0)
<1>1. \A l \in 1 .. Len(stack) : IsOffset(stack[l]) => stack[l][2] \in Nat
  <2>1. \A l \in 1 .. Len(stack) : stack[l] \in AnyWord
    BY LenProperties
  <2> QED
    BY <2>1, WordKinds DEF IsOffset
<1>2. ASSUME FramesRead(stack, segment, 2),
             \A l \in 1 .. Len(stack) : IsOffset(stack[l]) => stack[l][2] < Len(segment)
      PROVE  FramesRead(stack, more, 2)
  <2>1. ASSUME NEW l \in 1 .. Len(stack), IsOffset(stack[l]), NEW type,
               ElementSoFar(segment, type, stack[l][2], 2)
        PROVE  ElementSoFar(more, type, stack[l][2], 2)
    BY <1>1, <1>2, <2>1, ElementKept
  <2> QED
    BY <1>2, <2>1, FramesLift
<1>3. ASSUME Len(more) = Len(segment) + 1, more[Len(more)].tag \in ValueTags,
             FramesRead(stack, segment, 1)
      PROVE  FramesRead(stack, more, 2)
  <2>1. ASSUME NEW l \in 1 .. Len(stack), IsOffset(stack[l]), NEW type,
               ElementSoFar(segment, type, stack[l][2], 1)
        PROVE  ElementSoFar(more, type, stack[l][2], 2)
    BY <1>1, <1>3, <2>1, ElementGetsValue
  <2> QED
    BY <1>3, <2>1, FramesLift
<1>4. ASSUME Len(more) = Len(segment) + 1, HoldsKey(more, Len(segment)),
             FramesRead(stack, segment, 0)
      PROVE  FramesRead(stack, more, 1)
  <2>1. ASSUME NEW l \in 1 .. Len(stack), IsOffset(stack[l]), NEW type,
               ElementSoFar(segment, type, stack[l][2], 0)
        PROVE  ElementSoFar(more, type, stack[l][2], 1)
    BY <1>1, <1>4, <2>1, ElementGetsKey
  <2> QED
    BY <1>4, <2>1, FramesLift
<1>5. ASSUME NEW margin \in Nat, NEW less \in Nat, less <= margin,
             FramesRead(stack, segment, margin)
      PROVE  FramesRead(stack, segment, less)
  <2>1. Grows(segment, segment)
    BY LenProperties DEF Grows
  <2>2. ASSUME NEW l \in 1 .. Len(stack), IsOffset(stack[l]), NEW type,
               ElementSoFar(segment, type, stack[l][2], margin)
        PROVE  ElementSoFar(segment, type, stack[l][2], less)
    BY <1>1, <1>5, <2>2, ElementEasier
  <2> QED
    BY <1>5, <2>1, <2>2, FramesLift
<1>6. FramesRead(stack, segment, 2) => FramesRead(stack, segment, 1)
  BY <1>5
<1>7. FramesRead(stack, segment, 1) => FramesRead(stack, segment, 0)
  BY <1>5
<1> QED
  BY <1>2, <1>3, <1>4, <1>6, <1>7


(* What is read of a frame depends only on the words up to its count.       *)
LEMMA SameFrame ==
  ASSUME NEW stack \in Seq(AnyWord), NEW other \in Seq(AnyWord), NEW segment, NEW margin,
         NEW m \in Nat, m <= Len(stack), \A l \in 1 .. m : other[l] = stack[l],
         FramesRead(stack, segment, margin), NEW k \in 1 .. m, other[k][1] = "count"
  PROVE  \E type \in {"array", "object"} :
           FrameReads(other, segment, k - other[k][2] - 1, k, type, margin)
<1>1. k \in 1 .. Len(stack) /\ other[k] = stack[k] /\ Len(stack) \in Nat
  BY LenProperties
<1>2. PICK type \in {"array", "object"} :
        FrameReads(stack, segment, k - stack[k][2] - 1, k, type, margin)
  BY <1>1 DEF FramesRead
<1> DEFINE bottom == k - stack[k][2] - 1
<1>3. /\ bottom >= 1
      /\ \A l \in bottom .. k - 1 : IsOffset(stack[l])
      /\ stack[bottom][2] < Len(segment) /\ segment[stack[bottom][2] + 1].tag = type
      /\ \A l \in bottom + 1 .. k - 1 : ElementSoFar(segment, type, stack[l][2], margin)
  BY <1>2 DEF FrameReads
<1>4. stack[k][2] \in Nat \ {0}
  <2>1. stack[k] \in AnyWord
    BY <1>1, LenProperties
  <2> QED
    BY <1>1, <2>1, WordKinds
<1>5. bottom \in Int /\ bottom <= k - 1
  BY <1>4
<1> HIDE DEF bottom
<1>6. /\ \A l \in bottom .. k - 1 : l \in 1 .. m
      /\ \A l \in bottom + 1 .. k - 1 : l \in bottom .. k - 1
      /\ bottom \in bottom .. k - 1
  BY <1>3, <1>5
<1>7. FrameReads(other, segment, bottom, k, type, margin)
  BY <1>3, <1>6 DEF FrameReads
<1> QED
  BY <1>1, <1>7 DEF bottom

(* Words are popped: the frames that are left read as before.              *)
LEMMA FramesShorter ==
  ASSUME NEW stack \in Seq(AnyWord), NEW other \in Seq(AnyWord), NEW segment, NEW margin,
         Len(other) <= Len(stack), \A l \in 1 .. Len(other) : other[l] = stack[l],
         FramesRead(stack, segment, margin)
  PROVE  FramesRead(other, segment, margin)
<1>1. Len(other) \in Nat
  BY LenProperties
<1> SUFFICES ASSUME NEW k \in 1 .. Len(other), other[k][1] = "count"
             PROVE  \E type \in {"array", "object"} :
                      FrameReads(other, segment, k - other[k][2] - 1, k, type, margin)
  BY DEF FramesRead
<1> QED
  BY <1>1, SameFrame

(* A state is pushed: it begins no frame, and the frames read as before.   *)
LEMMA FramesPushState ==
  ASSUME NEW stack \in Seq(AnyWord), NEW segment, NEW margin, NEW s \in ReturnStates,
         FramesRead(stack, segment, margin)
  PROVE  FramesRead(stack \o <<State(s)>>, segment, margin)
<1> DEFINE other == stack \o <<State(s)>>
<1>1. /\ other \in Seq(AnyWord) /\ Len(stack) \in Nat /\ Len(other) = Len(stack) + 1
      /\ \A k \in 1 .. Len(stack) : other[k] = stack[k]
      /\ other[Len(stack) + 1][1] = "state"
  BY OneWordMore, WordKinds, WordParts
<1> HIDE DEF other
<1>2. ASSUME NEW k \in 1 .. Len(other), other[k][1] = "count"
      PROVE  \E type \in {"array", "object"} :
               FrameReads(other, segment, k - other[k][2] - 1, k, type, margin)
  <2>1. k # Len(stack) + 1
    BY <1>1, <1>2
  <2>2. k \in 1 .. Len(stack) /\ Len(stack) <= Len(stack)
    BY <1>1, <2>1
  <2> QED
    BY <1>1, <1>2, <2>2, SameFrame
<1>3. FramesRead(other, segment, margin)
  BY <1>2 DEF FramesRead
<1> QED
  BY <1>3 DEF other

(* One cell more is growth.                                                *)
LEMMA AppendGrows ==
  ASSUME NEW segment \in Seq(AnyCell), NEW cell \in AnyCell
  PROVE  Grows(segment, Append(segment, cell))
BY OneCellMore DEF Grows

(* The frame of a composite that begins: nothing of its first element is    *)
(* stored.                                                                 *)
LEMMA FramesOpen ==
  ASSUME NEW stack \in Seq(AnyWord), NEW segment \in Seq(AnyCell),
         NEW type \in {"array", "object"},
         NEW other \in Seq(AnyWord), Len(other) = Len(stack) + 3,
         \A k \in 1 .. Len(stack) : other[k] = stack[k],
         other[Len(stack) + 1] = Offset(Len(segment)),
         other[Len(stack) + 2] = Offset(Len(segment) + 1),
         other[Len(stack) + 3] = Count(1),
         FramesRead(stack, segment, 1)
  PROVE  FramesRead(other, Append(segment, Header(type)), IF type = "array" THEN 1 ELSE 0)
<1> DEFINE more == Append(segment, Header(type))
<1> DEFINE margin == IF type = "array" THEN 1 ELSE 0
<1> DEFINE top == Len(stack)
<1> DEFINE size == Len(segment)
<1>1. /\ more \in Seq(AnyCell) /\ size \in Nat /\ Len(more) = size + 1 /\ top \in Nat
      /\ more[size + 1] = Header(type) /\ Grows(segment, more)
  BY OneCellMore, CellKinds, AppendGrows, LenProperties
<1>2. Header(type).tag = type /\ type \in ValueTags
  BY DEF Header, Written, ValueTags
<1> HIDE DEF more
<1>3. FramesRead(stack, more, margin)
  <2>1. FramesRead(stack, more, 2)
    BY <1>1, <1>2, FramesGrow
  <2>2. Grows(more, more)
    BY <1>1, LenProperties DEF Grows
  <2>3. FramesRead(stack, more, 1) /\ FramesRead(stack, more, 0)
    BY <1>1, <2>1, <2>2, FramesGrow
  <2> QED
    BY <2>3
<1>4. FrameReads(other, more, top + 1, top + 3, type, margin)
  <2>1. /\ \A l \in top + 1 .. (top + 3) - 1 : l = top + 1 \/ l = top + 2
        /\ \A l \in (top + 1) + 1 .. (top + 3) - 1 : l = top + 2
        /\ top + 1 >= 1
    <3> HIDE DEF top
    <3> QED
      BY <1>1
  <2>2. /\ other[top + 1][1] = "offset" /\ other[top + 1][2] = size
        /\ other[top + 2][1] = "offset" /\ other[top + 2][2] = size + 1
    BY WordParts
  <2>3. ElementSoFar(more, type, size + 1, margin)
    <3>1. ~(size + 1 < Len(more)) /\ ~((size + 1) + 1 < Len(more))
          /\ (size + 1) + 0 <= Len(more)
      BY <1>1
    <3> QED
      BY <3>1 DEF ElementSoFar
  <2>4. size < Len(more) /\ more[size + 1].tag = type
    BY <1>1, <1>2
  <2> HIDE DEF margin, size, top
  <2>5. \A l \in top + 1 .. (top + 3) - 1 : IsOffset(other[l])
    BY <2>1, <2>2 DEF IsOffset
  <2>6. \A l \in (top + 1) + 1 .. (top + 3) - 1 : ElementSoFar(more, type, other[l][2], margin)
    BY <2>1, <2>2, <2>3
  <2>7. other[top + 1][2] < Len(more) /\ more[other[top + 1][2] + 1].tag = type
    BY <2>2, <2>4
  <2> QED
    BY <2>1, <2>5, <2>6, <2>7 DEF FrameReads
<1>5. ASSUME NEW k \in 1 .. Len(other), other[k][1] = "count"
      PROVE  \E kind \in {"array", "object"} :
               FrameReads(other, more, k - other[k][2] - 1, k, kind, margin)
  <2>1. CASE k \in 1 .. top
    <3>1. top <= Len(stack)
      BY <1>1
    <3> HIDE DEF margin
    <3> QED
      BY <1>1, <1>3, <1>5, <2>1, <3>1, SameFrame
  <2>2. CASE k = top + 1 \/ k = top + 2
    BY <1>5, <2>2, WordParts
  <2>3. CASE k = top + 3
    <3>1. other[k][2] = 1
      BY <2>3, WordParts
    <3>2. k - other[k][2] - 1 = top + 1
      BY <1>1, <2>3, <3>1
    <3> QED
      BY <1>4, <2>3, <3>2
  <2>4. k \in 1 .. top \/ k = top + 1 \/ k = top + 2 \/ k = top + 3
    BY <1>1
  <2> QED
    BY <2>1, <2>2, <2>3, <2>4
<1>6. FramesRead(other, more, margin)
  BY <1>5 DEF FramesRead
<1> QED
  BY <1>6 DEF more

(* The frame of a composite that goes on: nothing of its next element is    *)
(* stored.                                                                 *)
LEMMA FramesAdd ==
  ASSUME NEW stack \in Seq(AnyWord), NEW segment \in Seq(AnyCell),
         NEW s \in DOMAIN TypeOfState, Sound(stack, segment, s),
         NEW margin \in {0, 1}, margin = 0 \/ TypeOfState[s] = "array",
         NEW other \in Seq(AnyWord), Len(other) = Len(stack) + 1,
         \A k \in 1 .. Len(stack) - 1 : other[k] = stack[k],
         other[Len(stack)] = Offset(Len(segment)),
         other[Len(stack) + 1] = Count(TopCount(stack) + 1),
         FramesRead(stack, segment, margin)
  PROVE  FramesRead(other, segment, margin)
<1> DEFINE top == Len(stack)
<1> DEFINE n == TopCount(stack)
<1> DEFINE bottom == UnderFrame(stack) + 1
<1> DEFINE type == TypeOfState[s]
<1>1. /\ Len(segment) \in Nat /\ top \in Nat \ {0} /\ n \in Nat \ {0}
      /\ bottom \in Nat \ {0} /\ bottom + n + 1 = top
      /\ stack[top][1] = "count" /\ stack[top][2] = n
  <2>1. /\ stack # <<>> /\ stack[top][1] = "count" /\ n \in Nat \ {0}
        /\ UnderFrame(stack) \in Nat /\ UnderFrame(stack) + n + 2 = top
    BY TopFrame
  <2>2. Len(segment) \in Nat /\ top \in Nat /\ stack[top][2] = n
    BY LenProperties DEF TopCount
  <2> QED
    BY <2>1, <2>2
<1>2. segment[stack[bottom][2] + 1] = Header(type)
  <2>1. IsFrame(stack, segment, top, type)
    BY <1>1 DEF Sound, Fits
  <2>2. top - stack[top][2] - 1 = bottom
    BY <1>1
  <2> QED
    BY <2>1, <2>2 DEF IsFrame
<1>3. /\ other[top][1] = "offset" /\ other[top][2] = Len(segment)
      /\ other[top + 1][1] = "count" /\ other[top + 1][2] = n + 1
  BY WordParts
<1>4. FrameReads(other, segment, bottom, top + 1, type, margin)
  <2>1. PICK kind \in {"array", "object"} :
          FrameReads(stack, segment, top - stack[top][2] - 1, top, kind, margin)
    <3>1. top \in 1 .. Len(stack)
      BY <1>1
    <3> QED
      BY <1>1, <3>1 DEF FramesRead
  <2>2. top - stack[top][2] - 1 = bottom
    BY <1>1
  <2> HIDE DEF bottom, top, type
  <2>3. /\ \A l \in bottom .. top - 1 : IsOffset(stack[l])
        /\ stack[bottom][2] < Len(segment) /\ segment[stack[bottom][2] + 1].tag = kind
        /\ \A l \in bottom + 1 .. top - 1 : ElementSoFar(segment, kind, stack[l][2], margin)
    BY <2>1, <2>2 DEF FrameReads
  <2>4. kind = type
    BY <1>2, <2>3 DEF Header, Written
  <2>5. \A l \in bottom .. top - 1 : other[l] = stack[l]
    <3>1. \A l \in bottom .. top - 1 : l \in 1 .. top - 1
      BY <1>1
    <3> QED
      BY <3>1 DEF top
  <2>6. /\ bottom \in bottom .. top - 1 /\ bottom >= 1
        /\ \A l \in bottom .. (top + 1) - 1 : l \in bottom .. top - 1 \/ l = top
        /\ \A l \in bottom + 1 .. (top + 1) - 1 : l \in bottom + 1 .. top - 1 \/ l = top
        /\ \A l \in bottom + 1 .. top - 1 : l \in bottom .. top - 1
    BY <1>1
  <2>7. ElementSoFar(segment, type, Len(segment), margin)
    <3>1. /\ ~(Len(segment) < Len(segment)) /\ ~(Len(segment) + 1 < Len(segment))
          /\ Len(segment) + 0 <= Len(segment)
      BY <1>1
    <3> QED
      BY <3>1 DEF ElementSoFar, type
  <2> QED
    BY <1>3, <2>3, <2>4, <2>5, <2>6, <2>7 DEF FrameReads, IsOffset
<1>5. ASSUME NEW k \in 1 .. Len(other), other[k][1] = "count"
      PROVE  \E kind \in {"array", "object"} :
               FrameReads(other, segment, k - other[k][2] - 1, k, kind, margin)
  <2>1. CASE k \in 1 .. top - 1
    <3>1. top - 1 \in Nat /\ top - 1 <= Len(stack)
      BY <1>1
    <3> QED
      BY <1>5, <2>1, <3>1, SameFrame
  <2>2. CASE k = top
    BY <1>3, <1>5, <2>2
  <2>3. CASE k = top + 1
    <3>1. k - other[k][2] - 1 = bottom
      BY <1>1, <1>3, <2>3
    <3>2. type \in {"array", "object"}
      BY DEF TypeOfState
    <3> QED
      BY <1>4, <2>3, <3>1, <3>2
  <2>4. k \in 1 .. top - 1 \/ k = top \/ k = top + 1
    BY <1>1
  <2> QED
    BY <2>1, <2>2, <2>3, <2>4
<1> QED
  BY <1>5 DEF FramesRead

(* What is stored in one piece leads to nothing that could be missing.     *)
LEMMA ComposedStore ==
  ASSUME NEW segment \in Seq(AnyCell), NEW cell \in AnyCell, Composed(segment),
         \/ cell \in Headers
         \/ cell.tag \notin {"array", "object"}
         \/ cell.count = 0
  PROVE  Composed(Append(segment, cell))
<1> DEFINE more == Append(segment, cell)
<1>1. /\ more \in Seq(AnyCell) /\ Len(segment) \in Nat /\ Len(more) = Len(segment) + 1
      /\ more[Len(segment) + 1] = cell /\ Grows(segment, more)
      /\ \A k \in 1 .. Len(segment) : more[k] = segment[k]
  BY OneCellMore, AppendGrows
<1> HIDE DEF more
<1>2. ASSUME NEW k \in 1 .. Len(more), more[k] \notin Headers
      PROVE  IsReadable(more, k)
  <2>1. CASE k \in 1 .. Len(segment)
    <3>1. more[k] = segment[k] /\ IsReadable(segment, k)
      BY <1>1, <1>2, <2>1 DEF Composed
    <3> QED
      BY <1>1, <2>1, <3>1, ReadableStays
  <2>2. CASE k = Len(segment) + 1
    BY <1>1, <1>2, <2>2 DEF IsReadable
  <2> QED
    BY <1>1, <2>1, <2>2
<1>3. Composed(more)
  BY <1>2 DEF Composed
<1> QED
  BY <1>3 DEF more

(* The elements of the frame on top of the stack, once the last one is      *)
(* complete: in the order they came, all of them behind the header.        *)
LEMMA TopElements ==
  ASSUME NEW stack \in Seq(AnyWord), NEW segment \in Seq(AnyCell),
         NEW s \in DOMAIN TypeOfState, Sound(stack, segment, s),
         \A k \in 1 .. Len(stack) : IsOffset(stack[k]) => stack[k][2] < Len(segment),
         FramesRead(stack, segment, 2)
  PROVE  LET offset(k) == stack[UnderFrame(stack) + 1 + k][2]
         IN  /\ \A k \in 0 .. TopCount(stack) : offset(k) \in Nat
             /\ \A k \in 1 .. TopCount(stack) :
                  /\ HoldsElement(segment, TypeOfState[s], offset(k))
                  /\ offset(0) < offset(k) /\ offset(k) < Len(segment)
             /\ \A k \in 1 .. TopCount(stack) - 1 : offset(k) < offset(k + 1)
<1> DEFINE top == Len(stack)
<1> DEFINE n == TopCount(stack)
<1> DEFINE bottom == UnderFrame(stack) + 1
<1> DEFINE type == TypeOfState[s]
<1> DEFINE offset(k) == stack[bottom + k][2]
<1>1. /\ Len(segment) \in Nat /\ top \in Nat \ {0} /\ n \in Nat \ {0}
      /\ bottom \in Nat \ {0} /\ bottom + n + 1 = top
      /\ stack[top][1] = "count" /\ stack[top][2] = n
      /\ top \in 1 .. Len(stack)
  <2>1. /\ stack # <<>> /\ stack[top][1] = "count" /\ n \in Nat \ {0}
        /\ UnderFrame(stack) \in Nat /\ UnderFrame(stack) + n + 2 = top
    BY TopFrame
  <2>2. Len(segment) \in Nat /\ top \in Nat /\ stack[top][2] = n
    BY LenProperties DEF TopCount
  <2> QED
    BY <2>1, <2>2
<1>2. /\ segment[stack[bottom][2] + 1] = Header(type)
      /\ \A l \in bottom .. top - 1 :
           /\ stack[l][1] = "offset"
           /\ l > bottom => stack[l - 1][2] < stack[l][2]
  <2>1. IsFrame(stack, segment, top, type)
    BY <1>1 DEF Sound, Fits
  <2>2. top - stack[top][2] - 1 = bottom
    BY <1>1
  <2> QED
    BY <2>1, <2>2 DEF IsFrame
<1>3. PICK kind \in {"array", "object"} : FrameReads(stack, segment, bottom, top, kind, 2)
  <2>1. top - stack[top][2] - 1 = bottom
    BY <1>1
  <2> HIDE DEF bottom
  <2> QED
    BY <1>1, <2>1 DEF FramesRead
<1>4. kind = type
  BY <1>2, <1>3 DEF Header, Written, FrameReads
<1> HIDE DEF bottom, top, n, type
<1>5. ASSUME NEW k \in 0 .. n
      PROVE  bottom + k \in 1 .. Len(stack) /\ bottom + k \in bottom .. top - 1
  BY <1>1 DEF top
<1>6. ASSUME NEW k \in 0 .. n
      PROVE  offset(k) \in Nat /\ offset(k) < Len(segment)
  <2>1. stack[bottom + k] \in AnyWord /\ stack[bottom + k][1] = "offset"
    <3>1. /\ bottom + k \in 1 .. Len(stack) /\ bottom + k \in bottom .. top - 1
          /\ \A l \in 1 .. Len(stack) : stack[l] \in AnyWord
      BY <1>5, LenProperties
    <3> QED
      BY <1>2, <3>1
  <2> QED
    BY <1>5, <2>1, WordKinds DEF IsOffset
<1>7. ASSUME NEW k \in 0 .. n - 1
      PROVE  offset(k) < offset(k + 1)
  <2> DEFINE l == bottom + (k + 1)
  <2>1. k + 1 \in 0 .. n
    BY <1>1
  <2>2. l \in bottom .. top - 1 /\ l > bottom /\ l - 1 = bottom + k
    BY <1>1, <1>5, <2>1
  <2> HIDE DEF l
  <2>3. stack[l - 1][2] < stack[l][2] /\ stack[l - 1] = stack[bottom + k]
    BY <1>2, <2>2
  <2>4. stack[bottom + k][2] < stack[l][2]
    BY <2>3
  <2> QED
    BY <2>4 DEF l
<1>8. ASSUME NEW k \in 1 .. n
      PROVE  offset(0) < offset(k)
  <2>1. 0 \in 0 .. n - 1 /\ 0 \in 0 .. n /\ 1 \in 0 .. n /\ k \in 0 .. n /\ 0 + 1 = 1
    BY <1>1
  <2>2. offset(0) < offset(1)
    BY <1>7, <2>1
  <2>3. /\ bottom + 1 \in 1 .. Len(stack) /\ bottom + k \in 1 .. Len(stack)
        /\ bottom + 1 <= bottom + k
    BY <1>1, <1>5, <2>1
  <2>4. IsOffset(stack[bottom + 1]) /\ IsOffset(stack[bottom + k])
    <3>1. bottom + 1 \in bottom .. top - 1 /\ bottom + k \in bottom .. top - 1
      BY <1>5, <2>1
    <3> QED
      BY <1>2, <3>1 DEF IsOffset
  <2>5. offset(1) <= offset(k)
    BY <2>3, <2>4 DEF Sound, OffsetsRise
  <2>6. offset(0) \in Nat /\ offset(1) \in Nat /\ offset(k) \in Nat
    BY <1>6, <2>1
  <2> HIDE DEF offset
  <2> QED
    BY <2>2, <2>5, <2>6
<1>9. ASSUME NEW k \in 1 .. n
      PROVE  HoldsElement(segment, type, offset(k))
  <2>1. k \in 0 .. n /\ bottom + k \in bottom + 1 .. top - 1
    BY <1>1
  <2>2. ElementSoFar(segment, type, offset(k), 2)
    BY <1>3, <1>4, <2>1 DEF FrameReads
  <2>3. offset(k) \in Nat /\ offset(k) < Len(segment)
    BY <1>6, <2>1
  <2> HIDE DEF offset
  <2>4. offset(k) + 2 <= Len(segment) => offset(k) + 1 < Len(segment)
    BY <1>1, <2>3
  <2> QED
    BY <2>2, <2>3, <2>4 DEF ElementSoFar, HoldsElement
<1> HIDE DEF offset
<1>10. /\ \A k \in 0 .. n : offset(k) \in Nat
       /\ \A k \in 1 .. n :
            /\ HoldsElement(segment, type, offset(k))
            /\ offset(0) < offset(k) /\ offset(k) < Len(segment)
       /\ \A k \in 1 .. n - 1 : offset(k) < offset(k + 1)
  <2>1. /\ \A k \in 1 .. n : k \in 0 .. n
        /\ \A k \in 1 .. n - 1 : k \in 0 .. n - 1
    BY <1>1
  <2> QED
    BY <1>6, <1>7, <1>8, <1>9, <2>1
<1> QED
  BY <1>10 DEF bottom, n, type, offset

(* A composite whose last element is complete can be read once its tables   *)
(* are stored and its header is written, and so can all that could be read. *)
LEMMA TableComposed ==
  ASSUME NEW segment \in Seq(AnyCell), NEW type \in {"array", "object"},
         NEW header \in 0 .. Len(segment) - 1, NEW elements \in Seq(Nat),
         segment[header + 1] = Header(type), Composed(segment),
         \A k \in 1 .. Len(elements) :
           /\ HoldsElement(segment, type, elements[k])
           /\ header < elements[k] /\ elements[k] < Len(segment),
         \A k \in 1 .. Len(elements) - 1 : elements[k] < elements[k + 1],
         NEW more, more = WithTable(segment, type, header, elements)
  PROVE  Grows(segment, more) /\ Composed(more)
<1> DEFINE size == Len(segment)
<1> DEFINE copies == IF type = "object" THEN 2 ELSE 1
<1>1. /\ more \in Seq(AnyCell) /\ size \in Nat /\ Len(elements) \in Nat
      /\ Len(more) = size + copies /\ header + 1 \in 1 .. size
      /\ \A k \in 1 .. size : k # header + 1 => more[k] = segment[k]
      /\ more[header + 1] = Written(type, Len(elements), size)
      /\ \A k \in size + 1 .. Len(more) : more[k] = Table(elements)
      /\ DOMAIN more = 1 .. Len(more)
  <2>1. /\ more \in Seq(AnyCell)
        /\ Len(more) = size + copies
        /\ \A k \in 1 .. size : k # header + 1 => more[k] = segment[k]
        /\ more[header + 1] = Written(type, Len(elements), size)
        /\ \A k \in size + 1 .. Len(more) : more[k] = Table(elements)
    BY TableCells
  <2>2. size \in Nat /\ Len(elements) \in Nat /\ DOMAIN more = 1 .. Len(more)
    BY <2>1, LenProperties
  <2>3. header + 1 \in 1 .. size
    BY <2>2
  <2> QED
    BY <2>1, <2>2, <2>3
<1>2. copies \in {1, 2} /\ copies \in Nat /\ (copies = 2 <=> type = "object")
  OBVIOUS
<1> HIDE DEF size, copies
<1>3. Grows(segment, more)
  <2>1. /\ segment[header + 1] \in Headers /\ segment[header + 1].tag = type
        /\ more[header + 1].tag = type
    BY <1>1 DEF Header, Written, Headers
  <2>2. size <= Len(more)
    BY <1>1, <1>2
  <2> QED
    BY <1>1, <2>1, <2>2 DEF Grows, size
<1>4. ASSUME NEW copy \in 0 .. copies - 1
      PROVE  HoldsTable(more, type, header, size + copy, Len(elements))
  <2>1. size + copy + 1 \in size + 1 .. Len(more) /\ size + copy + 1 \in 1 .. Len(more)
    BY <1>1, <1>2
  <2>2. /\ size + copy + 1 \in DOMAIN more
        /\ more[size + copy + 1].tag = "table" /\ more[size + copy + 1].offsets = elements
    BY <1>1, <2>1 DEF Table
  <2>3. ASSUME NEW k \in 1 .. Len(elements)
        PROVE  /\ HoldsElement(more, type, elements[k])
               /\ header < elements[k] /\ elements[k] < size + copy
    <3>1. HoldsElement(more, type, elements[k])
      BY <1>1, <1>3, HeldStays
    <3>2. elements[k] \in Nat /\ elements[k] < size
      BY LenProperties DEF size
    <3>3. elements[k] < size + copy
      <4>1. copy \in Nat /\ size \in Nat
        BY <1>1, <1>2
      <4>2. \A e, x, y \in Nat : e < x => e < x + y
        OBVIOUS
      <4> QED
        BY <3>2, <4>1, <4>2
    <3> QED
      BY <3>1, <3>3
  <2> QED
    BY <2>2, <2>3 DEF HoldsTable
<1>5. ASSUME NEW k \in 1 .. Len(more), more[k] \notin Headers
      PROVE  IsReadable(more, k)
  <2>1. CASE k = header + 1
    <3>1. k - 1 = header
      BY <1>1, <2>1
    <3>2. /\ more[k].tag = type /\ more[k].count = Len(elements) /\ more[k].table = size
      BY <1>1, <2>1 DEF Written
    <3>3. \A copy \in 0 .. (IF type = "object" THEN 1 ELSE 0) : copy \in 0 .. copies - 1
      BY <1>2
    <3>4. \A copy \in 0 .. (IF more[k].tag = "object" THEN 1 ELSE 0) :
            HoldsTable(more, more[k].tag, k - 1, more[k].table + copy, more[k].count)
      BY <1>4, <3>1, <3>2, <3>3
    <3> QED
      BY <3>4 DEF IsReadable
  <2>2. CASE k \in 1 .. size /\ k # header + 1
    <3>1. more[k] = segment[k] /\ k \in 1 .. Len(segment)
      BY <1>1, <2>2 DEF size
    <3>2. IsReadable(segment, k)
      BY <1>5, <3>1 DEF Composed
    <3> QED
      BY <1>1, <1>3, <3>1, <3>2, ReadableStays
  <2>3. CASE k \in size + 1 .. Len(more)
    BY <1>1, <2>3 DEF IsReadable, Table
  <2> QED
    BY <1>1, <2>1, <2>2, <2>3
<1> QED
  BY <1>3, <1>5 DEF Composed

----------------------------------------------------------------------------
(* What the operations on a context leave readable.                        *)

(* What can be read of a context's segment, an element on its stack having  *)
(* at least `margin` cells.                                                *)
Readable(c, margin) == Composed(c.segment) /\ FramesRead(c.stack, c.segment, margin)

(* What a handler leaves.                                                  *)
ReadableAfter(h, t) ==
  /\ Composed(h.segment)
  /\ h.result = "success" => FramesRead(h.stack, h.segment, Margin(h.state, t))

(* Less is asked.                                                          *)
LEMMA ReadableEasier ==
  ASSUME NEW c \in Contexts
  PROVE  /\ Readable(c, 2) => Readable(c, 1)
         /\ Readable(c, 1) => Readable(c, 0)
<1>1. c.stack \in Seq(AnyWord) /\ c.segment \in Seq(AnyCell)
  BY DEF Contexts
<1>2. Grows(c.segment, c.segment)
  BY <1>1, LenProperties DEF Grows
<1> QED
  BY <1>1, <1>2, FramesGrow DEF Readable

(* A value is stored, or a key, or a composite's header.                   *)
LEMMA StoreReadable ==
  ASSUME NEW c \in Contexts, NEW cell \in AnyCell
  PROVE  /\ /\ Readable(c, 1) /\ cell.tag \in ValueTags
            /\ cell \in Headers \/ cell.tag \notin {"array", "object"} \/ cell.count = 0
            => Readable(Store(c, cell), 2)
         /\ /\ Readable(c, 0) /\ cell.tag = "leaf" /\ cell.token.kind = "string"
            => Readable(Store(c, cell), 1)
<1> DEFINE more == Append(c.segment, cell)
<1>1. c.stack \in Seq(AnyWord) /\ c.segment \in Seq(AnyCell)
  BY DEF Contexts
<1>2. /\ more \in Seq(AnyCell) /\ Len(c.segment) \in Nat /\ Len(more) = Len(c.segment) + 1
      /\ more[Len(more)] = cell /\ Grows(c.segment, more)
      /\ Len(c.segment) + 1 \in DOMAIN more
  <2>1. /\ more \in Seq(AnyCell) /\ Len(c.segment) \in Nat /\ Len(more) = Len(c.segment) + 1
        /\ more[Len(c.segment) + 1] = cell /\ Grows(c.segment, more)
    BY <1>1, OneCellMore, AppendGrows
  <2>2. DOMAIN more = 1 .. Len(more)
    BY <2>1, LenProperties
  <2> QED
    BY <2>1, <2>2
<1>3. Store(c, cell).stack = c.stack /\ Store(c, cell).segment = more
  BY DEF Store, Contexts
<1>4. ASSUME Readable(c, 1), cell.tag \in ValueTags,
             cell \in Headers \/ cell.tag \notin {"array", "object"} \/ cell.count = 0
      PROVE  Readable(Store(c, cell), 2)
  <2>1. Composed(more)
    BY <1>1, <1>4, ComposedStore DEF Readable
  <2> HIDE DEF more
  <2>2. FramesRead(c.stack, more, 2)
    BY <1>1, <1>2, <1>4, FramesGrow DEF Readable
  <2> QED
    BY <1>3, <2>1, <2>2 DEF Readable
<1>5. ASSUME Readable(c, 0), cell.tag = "leaf", cell.token.kind = "string"
      PROVE  Readable(Store(c, cell), 1)
  <2>1. Composed(more)
    BY <1>1, <1>5, ComposedStore DEF Readable
  <2> HIDE DEF more
  <2>2. HoldsKey(more, Len(c.segment))
    BY <1>2, <1>5 DEF HoldsKey
  <2>3. FramesRead(c.stack, more, 1)
    BY <1>1, <1>2, <1>5, <2>2, FramesGrow DEF Readable
  <2> QED
    BY <1>3, <2>1, <2>3 DEF Readable
<1> QED
  BY <1>4, <1>5

(* A composite begins.                                                     *)
LEMMA OpenReadable ==
  ASSUME NEW c \in Contexts, NEW type \in {"array", "object"}, Readable(c, 1)
  PROVE  Readable(StoreCompositeHeader(c, type), IF type = "array" THEN 1 ELSE 0)
<1> DEFINE o == Len(c.segment)
<1> DEFINE other == c.stack \o <<Offset(o), Offset(o + 1), Count(1)>>
<1> DEFINE more == Append(c.segment, Header(type))
<1> DEFINE d == StoreCompositeHeader(c, type)
<1>1. c.stack \in Seq(AnyWord) /\ c.segment \in Seq(AnyCell) /\ o \in Nat
  <2>1. c.stack \in Seq(AnyWord) /\ c.segment \in Seq(AnyCell)
    BY DEF Contexts
  <2> QED
    BY <2>1, LenProperties
<1>2. d.stack = other /\ d.segment = more
  BY <1>1 DEF StoreCompositeHeader, PushWords, Store, NextOffset, Contexts
<1>3. /\ other \in Seq(AnyWord) /\ Len(other) = Len(c.stack) + 3
      /\ \A k \in 1 .. Len(c.stack) : other[k] = c.stack[k]
      /\ other[Len(c.stack) + 1] = Offset(o)
      /\ other[Len(c.stack) + 2] = Offset(o + 1)
      /\ other[Len(c.stack) + 3] = Count(1)
  <2>1. Offset(o) \in AnyWord /\ Offset(o + 1) \in AnyWord /\ Count(1) \in AnyWord
    BY <1>1, WordKinds
  <2> HIDE DEF o
  <2> QED
    BY <1>1, <2>1, ThreeWordsMore
<1>4. Header(type) \in AnyCell /\ Header(type) \in Headers
  BY CellKinds
<1>5. Composed(more)
  BY <1>1, <1>4, ComposedStore DEF Readable
<1> HIDE DEF other
<1>6. FramesRead(other, more, IF type = "array" THEN 1 ELSE 0)
  BY <1>1, <1>3, FramesOpen DEF Readable
<1> QED
  BY <1>2, <1>5, <1>6 DEF Readable

(* A further element begins.                                               *)
LEMMA AddReadable ==
  ASSUME NEW c \in Contexts, c.state \in DOMAIN TypeOfState,
         Sound(c.stack, c.segment, c.state), NEW margin \in {0, 1},
         margin = 0 \/ TypeOfState[c.state] = "array", Readable(c, margin)
  PROVE  Readable(AddCompositeElement(c), margin)
<1> DEFINE other == Front(c.stack) \o <<Offset(Len(c.segment)), Count(TopCount(c.stack) + 1)>>
<1> DEFINE d == AddCompositeElement(c)
<1>1. /\ c.stack \in Seq(AnyWord) /\ c.segment \in Seq(AnyCell)
  BY DEF Contexts
<1>2. /\ other \in Seq(AnyWord) /\ Len(other) = Len(c.stack) + 1
      /\ \A k \in 1 .. Len(c.stack) - 1 : other[k] = c.stack[k]
      /\ other[Len(c.stack)] = Offset(Len(c.segment))
      /\ other[Len(c.stack) + 1] = Count(TopCount(c.stack) + 1)
      /\ d = [c EXCEPT !.stack = other]
  BY ElementCounted
<1> HIDE DEF other
<1>3. d.stack = other /\ d.segment = c.segment
  BY <1>2 DEF Contexts
<1>4. Composed(c.segment) /\ FramesRead(c.stack, c.segment, margin)
  BY DEF Readable
<1> HIDE DEF d
<1>5. FramesRead(other, c.segment, margin)
  BY <1>1, <1>2, <1>4, FramesAdd
<1>6. Readable(d, margin)
  BY <1>3, <1>4, <1>5 DEF Readable
<1> QED
  BY <1>6 DEF d

(* A composite ends.                                                       *)
LEMMA CloseReadable ==
  ASSUME NEW c \in Contexts, c.state \in DOMAIN TypeOfState,
         Sound(c.stack, c.segment, c.state), Stored(c), Readable(c, 2)
  PROVE  Readable(StoreElementsTable(c, TypeOfState[c.state]), 2)
<1> DEFINE type == TypeOfState[c.state]
<1> DEFINE rest == UnderFrame(c.stack)
<1> DEFINE n == TopCount(c.stack)
<1> DEFINE header == c.stack[rest + 1][2]
<1> DEFINE elements == [k \in 1 .. n |-> c.stack[rest + 1 + k][2]]
<1> DEFINE other == SubSeq(c.stack, 1, rest)
<1> DEFINE more == WithTable(c.segment, type, header, elements)
<1> DEFINE d == StoreElementsTable(c, type)
<1>1. /\ c.stack \in Seq(AnyWord) /\ c.segment \in Seq(AnyCell)
      /\ type \in {"array", "object"}
      /\ \A k \in 1 .. Len(c.stack) : IsOffset(c.stack[k]) => c.stack[k][2] < Len(c.segment)
      /\ Composed(c.segment) /\ FramesRead(c.stack, c.segment, 2)
  BY DEF Contexts, TypeOfState, Stored, Readable
<1>2. /\ elements \in Seq(Nat) /\ Len(elements) = n
      /\ header \in 0 .. Len(c.segment) - 1
      /\ other \in Seq(AnyWord) /\ Len(other) = rest
      /\ \A k \in 1 .. rest : other[k] = c.stack[k]
      /\ rest \in Nat /\ rest <= Len(c.stack)
      /\ d = [c EXCEPT !.stack = other, !.segment = more]
  BY FramePopped
<1>3. c.segment[header + 1] = Header(type)
  <2>1. /\ Len(c.stack) \in Nat /\ n \in Nat \ {0} /\ rest + n + 2 = Len(c.stack)
    BY <1>1, TopFrame, LenProperties
  <2>2. IsFrame(c.stack, c.segment, Len(c.stack), type)
    BY DEF Sound, Fits
  <2>3. Len(c.stack) - c.stack[Len(c.stack)][2] - 1 = rest + 1
    <3>1. c.stack[Len(c.stack)][2] = n /\ rest \in Nat
      BY <1>2 DEF TopCount
    <3> HIDE DEF n, rest
    <3> QED
      BY <2>1, <3>1
  <2>4. c.segment[c.stack[Len(c.stack) - c.stack[Len(c.stack)][2] - 1][2] + 1] = Header(type)
    BY <2>2 DEF IsFrame
  <2> HIDE DEF rest, type
  <2> QED
    BY <2>3, <2>4
<1>4. /\ \A k \in 1 .. n :
           /\ HoldsElement(c.segment, type, elements[k])
           /\ header < elements[k] /\ elements[k] < Len(c.segment)
      /\ \A k \in 1 .. n - 1 : elements[k] < elements[k + 1]
  <2> DEFINE offset(k) == c.stack[rest + 1 + k][2]
  <2>1. /\ \A k \in 1 .. n :
             /\ HoldsElement(c.segment, type, offset(k))
             /\ offset(0) < offset(k) /\ offset(k) < Len(c.segment)
        /\ \A k \in 1 .. n - 1 : offset(k) < offset(k + 1)
    BY <1>1, TopElements
  <2>2. rest + 1 + 0 = rest + 1
    BY <1>2
  <2>3. offset(0) = header /\ n \in Nat
    BY <1>1, <2>2, TopFrame
  <2>4. \A k \in 1 .. n : elements[k] = offset(k)
    OBVIOUS
  <2>5. \A k \in 1 .. n - 1 : k \in 1 .. n /\ k + 1 \in 1 .. n
    BY <2>3
  <2> HIDE DEF offset, header, elements, n, rest, type
  <2> QED
    BY <2>1, <2>3, <2>4, <2>5
<1> HIDE DEF elements, header, n, type, other
<1>5. Grows(c.segment, more) /\ Composed(more) /\ more \in Seq(AnyCell)
  <2>1. more \in Seq(AnyCell)
    BY <1>1, <1>2, TableWritten
  <2> QED
    BY <1>1, <1>2, <1>3, <1>4, <2>1, TableComposed
<1> HIDE DEF more
<1>6. FramesRead(c.stack, more, 2)
  BY <1>1, <1>5, FramesGrow
<1>7. FramesRead(other, more, 2)
  BY <1>1, <1>2, <1>6, FramesShorter
<1>8. d.stack = other /\ d.segment = more
  BY <1>2 DEF Contexts
<1>9. Readable(d, 2)
  BY <1>5, <1>7, <1>8 DEF Readable
<1> QED
  BY <1>9 DEF type

----------------------------------------------------------------------------
(* What the handlers leave readable.                                       *)

(* Going to another state, pushing one and rejecting store nothing.        *)
LEMMA GoToReadable ==
  ASSUME NEW c \in Contexts, NEW margin, Readable(c, margin)
  PROVE  /\ \A s : Readable(GoTo(c, s), margin)
         /\ \A s \in ReturnStates : Readable(PushWords(c, <<State(s)>>), margin)
         /\ \A t : ReadableAfter(Reject(c), t)
<1>1. c.stack \in Seq(AnyWord)
  BY DEF Contexts
<1>2. \A s : Readable(GoTo(c, s), margin)
  BY DEF GoTo, Readable, Contexts
<1>3. ASSUME NEW s \in ReturnStates
      PROVE  Readable(PushWords(c, <<State(s)>>), margin)
  <2> DEFINE other == c.stack \o <<State(s)>>
  <2>1. FramesRead(other, c.segment, margin)
    BY <1>1, FramesPushState DEF Readable
  <2>2. PushWords(c, <<State(s)>>).stack = other /\ PushWords(c, <<State(s)>>).segment = c.segment
    BY DEF PushWords, Contexts
  <2> QED
    BY <2>1, <2>2 DEF Readable
<1>4. \A t : ReadableAfter(Reject(c), t)
  BY DEF Reject, Readable, ReadableAfter, Contexts
<1> QED
  BY <1>2, <1>3, <1>4

(* As much can be read as is asked in the state.                           *)
LEMMA AsMuchAsAsked ==
  ASSUME NEW c \in Contexts, NEW t, Readable(c, Margin(c.state, t)) \/ Readable(c, 2)
  PROVE  ReadableAfter(c, t)
<1>1. Margin(c.state, t) = 1 \/ Margin(c.state, t) = 2
  BY DEF Margin
<1>2. Readable(c, Margin(c.state, t))
  BY <1>1, ReadableEasier
<1> QED
  BY <1>2 DEF ReadableAfter, Readable

(* A value is stored, unless the input ends in its place or a composite     *)
(* begins (thsn_parser_parse_value).                                       *)
LEMMA ParseValueReadable ==
  ASSUME NEW c \in Contexts, NEW t \in TokenTypes, Readable(c, 1)
  PROVE  ReadableAfter(ParseValue(c, t), t)
<1> DEFINE h == ParseValue(c, t)
<1> DEFINE done == GoTo(c, "FINISH")
<1>1. /\ done \in Contexts /\ done.state = "FINISH" /\ Readable(done, 1)
      /\ GoTo(c, "FIRST_ARRAY_ELEMENT") \in Contexts /\ GoTo(c, "FIRST_KV") \in Contexts
      /\ GoTo(c, "FIRST_ARRAY_ELEMENT").state = "FIRST_ARRAY_ELEMENT"
      /\ GoTo(c, "FIRST_KV").state = "FIRST_KV"
      /\ Readable(GoTo(c, "FIRST_ARRAY_ELEMENT"), 1) /\ Readable(GoTo(c, "FIRST_KV"), 1)
  BY GoToReadable DEF GoTo, Contexts, States
<1>2. CASE t.kind = "eof"
  <2>1. h = done
    BY <1>2 DEF ParseValue, Scalars
  <2>2. Margin("FINISH", t) = 1
    BY <1>2 DEF Margin
  <2>3. Readable(done, Margin(done.state, t))
    BY <1>1, <2>2
  <2> HIDE DEF done
  <2> QED
    BY <1>1, <2>1, <2>3, AsMuchAsAsked
<1>3. CASE t.kind \in Scalars \cup {"string"}
  <2>1. h = Store(done, Leaf(t))
    BY <1>3 DEF ParseValue, Scalars
  <2>2. Leaf(t) \in AnyCell /\ Leaf(t).tag = "leaf"
    BY CellKinds DEF Leaf
  <2>3. Readable(h, 2)
    BY <1>1, <2>1, <2>2, StoreReadable DEF ValueTags
  <2>4. h \in Contexts
    <3> HIDE DEF done
    <3>1. Append(done.segment, Leaf(t)) \in Seq(AnyCell)
      BY <1>1, <2>2, OneCellMore DEF Contexts
    <3> QED
      BY <1>1, <2>1, <3>1 DEF Store, Contexts
  <2> QED
    BY <2>3, <2>4, AsMuchAsAsked
<1>4. CASE t.kind \in {"[", "{"}
  <2>1. h = GoTo(c, "FIRST_ARRAY_ELEMENT") \/ h = GoTo(c, "FIRST_KV")
    BY <1>4 DEF ParseValue, Scalars
  <2>2. Margin("FIRST_ARRAY_ELEMENT", t) = 1 /\ Margin("FIRST_KV", t) = 1
    BY DEF Margin, FullStates
  <2> QED
    BY <1>1, <2>1, <2>2, AsMuchAsAsked
<1>5. CASE t.kind \notin Scalars \cup {"string", "eof", "[", "{"}
  <2>1. h = Reject(done)
    BY <1>5 DEF ParseValue
  <2> QED
    BY <1>1, <2>1, GoToReadable
<1> QED
  BY <1>2, <1>3, <1>4, <1>5

(* A context stays one, whatever is stored and pushed.                     *)
LEMMA StillContexts ==
  ASSUME NEW c \in Contexts
  PROVE  /\ \A s \in States : GoTo(c, s) \in Contexts /\ GoTo(c, s).state = s
         /\ \A cell \in AnyCell : Store(c, cell) \in Contexts
         /\ \A s \in ReturnStates : PushWords(c, <<State(s)>>) \in Contexts
         /\ \A type \in {"array", "object"} : StoreCompositeHeader(c, type) \in Contexts
<1>1. c.stack \in Seq(AnyWord) /\ c.segment \in Seq(AnyCell) /\ NextOffset(c) \in Nat
  <2>1. c.stack \in Seq(AnyWord) /\ c.segment \in Seq(AnyCell)
    BY DEF Contexts
  <2> QED
    BY <2>1, LenProperties DEF NextOffset
<1>2. \A s \in States : GoTo(c, s) \in Contexts /\ GoTo(c, s).state = s
  BY DEF GoTo, Contexts
<1>3. ASSUME NEW cell \in AnyCell
      PROVE  Store(c, cell) \in Contexts
  <2>1. Append(c.segment, cell) \in Seq(AnyCell)
    BY <1>1, OneCellMore
  <2> QED
    BY <2>1 DEF Store, Contexts
<1>4. ASSUME NEW s \in ReturnStates
      PROVE  PushWords(c, <<State(s)>>) \in Contexts
  <2>1. c.stack \o <<State(s)>> \in Seq(AnyWord)
    BY <1>1, OneWordMore, WordKinds
  <2> QED
    BY <2>1 DEF PushWords, Contexts
<1>5. ASSUME NEW type \in {"array", "object"}
      PROVE  StoreCompositeHeader(c, type) \in Contexts
  <2> DEFINE words == <<Offset(NextOffset(c)), Offset(NextOffset(c) + 1), Count(1)>>
  <2>1. c.stack \o words \in Seq(AnyWord)
    <3>1. /\ Offset(NextOffset(c)) \in AnyWord /\ Offset(NextOffset(c) + 1) \in AnyWord
          /\ Count(1) \in AnyWord
      BY <1>1, WordKinds
    <3> QED
      BY <1>1, <3>1, ThreeWordsMore
  <2>2. Store(c, Header(type)) \in Contexts /\ Store(c, Header(type)).stack = c.stack
    <3>1. Store(c, Header(type)).stack = c.stack
      BY DEF Store, Contexts
    <3> QED
      BY <1>3, <3>1, CellKinds
  <2> HIDE DEF words
  <2>3. StoreCompositeHeader(c, type) = [Store(c, Header(type)) EXCEPT !.stack = @ \o words]
    BY DEF StoreCompositeHeader, PushWords, words
  <2> QED
    BY <2>1, <2>2, <2>3 DEF Contexts
<1> QED
  BY <1>2, <1>3, <1>4, <1>5

(* An empty composite is stored in one piece.                              *)
LEMMA EmptyReadable ==
  ASSUME NEW c \in Contexts, NEW t, NEW type \in {"array", "object"}, Readable(c, 1)
  PROVE  ReadableAfter(Store(GoTo(c, "FINISH"), Empty(type)), t)
<1> DEFINE done == GoTo(c, "FINISH")
<1>1. done \in Contexts /\ Readable(done, 1)
  BY StillContexts, GoToReadable DEF States
<1>2. /\ Empty(type) \in AnyCell /\ Empty(type).tag \in ValueTags
      /\ Empty(type).count = 0
  BY CellKinds DEF Empty, ValueTags
<1> HIDE DEF done
<1>3. Readable(Store(done, Empty(type)), 2) /\ Store(done, Empty(type)) \in Contexts
  BY <1>1, <1>2, StoreReadable, StillContexts
<1>4. ReadableAfter(Store(done, Empty(type)), t)
  BY <1>3, AsMuchAsAsked
<1> QED
  BY <1>4 DEF done

(* A key is stored where an object's next member is due.                   *)
LEMMA KeyReadable ==
  ASSUME NEW c \in Contexts, NEW t \in TokenTypes, t.kind = "string", Readable(c, 0)
  PROVE  ReadableAfter(GoTo(Store(c, Leaf(t)), "KV_COLON"), t)
<1> DEFINE d == Store(c, Leaf(t))
<1>1. Leaf(t) \in AnyCell /\ Leaf(t).tag = "leaf" /\ Leaf(t).token.kind = "string"
  BY CellKinds DEF Leaf
<1>2. d \in Contexts /\ Readable(d, 1)
  BY <1>1, StoreReadable, StillContexts
<1> HIDE DEF d
<1>3. /\ GoTo(d, "KV_COLON") \in Contexts /\ GoTo(d, "KV_COLON").state = "KV_COLON"
      /\ Readable(GoTo(d, "KV_COLON"), 1) /\ Margin("KV_COLON", t) = 1
  BY <1>2, StillContexts, GoToReadable DEF States, Margin, FullStates
<1>4. ReadableAfter(GoTo(d, "KV_COLON"), t)
  BY <1>3, AsMuchAsAsked
<1> QED
  BY <1>4 DEF d

(* A value is due: what is on the stack waits for it.                      *)
LEMMA ValueDueReadable ==
  ASSUME NEW c \in Contexts, NEW t, NEW s \in ReturnStates, Readable(c, 1)
  PROVE  ReadableAfter(GoTo(PushWords(c, <<State(s)>>), "VALUE"), t)
<1> DEFINE e == PushWords(c, <<State(s)>>)
<1>1. e \in Contexts /\ Readable(e, 1)
  BY StillContexts, GoToReadable
<1> HIDE DEF e
<1>2. /\ GoTo(e, "VALUE") \in Contexts /\ GoTo(e, "VALUE").state = "VALUE"
      /\ Readable(GoTo(e, "VALUE"), 1) /\ Margin("VALUE", t) = 1
  BY <1>1, StillContexts, GoToReadable DEF States, Margin, FullStates
<1>3. ReadableAfter(GoTo(e, "VALUE"), t)
  BY <1>2, AsMuchAsAsked
<1> QED
  BY <1>3 DEF e

(* The tables of a composite are stored at its closing token.              *)
LEMMA EndReadable ==
  ASSUME NEW c, NEW t, NEW size \in Int, NEW n \in Nat, Ready(c, t, size - 2, n),
         c.state \in DOMAIN TypeOfState, t.kind # "eof", Readable(c, 2)
  PROVE  ReadableAfter(GoTo(StoreElementsTable(c, TypeOfState[c.state]), "FINISH"), t)
<1> DEFINE d == StoreElementsTable(c, TypeOfState[c.state])
<1>1. c \in Contexts /\ Sound(c.stack, c.segment, c.state) /\ Stored(c)
  BY DEF Ready
<1>2. Readable(d, 2)
  BY <1>1, CloseReadable
<1>3. GoTo(d, "FINISH") \in Contexts
  <2>1. Handled(GoTo(d, "FINISH"), t, size, n)
    BY EndsComposite
  <2> QED
    BY <2>1 DEF Handled
<1> HIDE DEF d
<1>4. Readable(GoTo(d, "FINISH"), 2)
  BY <1>2 DEF Readable, GoTo
<1>5. ReadableAfter(GoTo(d, "FINISH"), t)
  BY <1>3, <1>4, AsMuchAsAsked
<1> QED
  BY <1>5 DEF d

(* Every handler keeps readable what is, and adds to it.                   *)
LEMMA HandleReadable ==
  ASSUME NEW c, NEW t \in TokenTypes, NEW size \in Int, NEW n \in Nat,
         Ready(c, t, size - 2, n), Readable(c, Margin(c.state, t))
  PROVE  ReadableAfter(Handle(c, t), t)
<1>1. c \in Contexts /\ Sound(c.stack, c.segment, c.state) /\ c.state \in States
  BY DEF Ready, Contexts
<1>2. /\ Readable(c, 1) /\ Readable(c, 0)
      /\ t.kind # "eof" /\ c.state \in FullStates => Readable(c, 2)
  BY <1>1, ReadableEasier DEF Margin
<1>3. \A r : ReadableAfter(Reject(c), r)
  BY <1>1, <1>2, GoToReadable
<1>4. CASE c.state = "VALUE"
  BY <1>1, <1>2, <1>4, ParseValueReadable DEF Handle
<1>5. CASE c.state = "FIRST_ARRAY_ELEMENT"
  <2> DEFINE d == StoreCompositeHeader(c, "array")
  <2> DEFINE e == PushWords(d, <<State("NEXT_ARRAY_ELEMENT")>>)
  <2>1. Handle(c, t) = IF t.kind = "]" THEN Store(GoTo(c, "FINISH"), Empty("array"))
                                       ELSE ParseValue(e, t)
    BY <1>5 DEF Handle, ParseFirstArrayElement
  <2>2. d \in Contexts /\ Readable(d, 1)
    BY <1>1, <1>2, StillContexts, OpenReadable
  <2> HIDE DEF d
  <2>3. e \in Contexts /\ Readable(e, 1)
    BY <2>2, StillContexts, GoToReadable DEF ReturnStates
  <2> HIDE DEF e
  <2>4. ReadableAfter(ParseValue(e, t), t)
    BY <2>3, ParseValueReadable
  <2> QED
    BY <1>1, <1>2, <2>1, <2>4, EmptyReadable
<1>6. CASE c.state = "NEXT_ARRAY_ELEMENT"
  <2> DEFINE d == AddCompositeElement(c)
  <2>1. c.state \in DOMAIN TypeOfState /\ TypeOfState[c.state] = "array"
    BY <1>6, CompositeStates
  <2>2. CASE t.kind = "]"
    <3>1. Handle(c, t) = GoTo(StoreElementsTable(c, TypeOfState[c.state]), "FINISH")
      BY <1>6, <2>1, <2>2 DEF Handle, ParseNextArrayElement
    <3> QED
      BY <1>2, <1>6, <2>1, <2>2, <3>1, EndReadable DEF FullStates
  <2>3. CASE t.kind = ","
    <3>1. Handle(c, t) = GoTo(PushWords(d, <<State("NEXT_ARRAY_ELEMENT")>>), "VALUE")
      BY <1>6, <2>3 DEF Handle, ParseNextArrayElement
    <3>2. Readable(d, 1)
      BY <1>1, <1>2, <2>1, AddReadable
    <3>3. d \in Contexts
      BY <2>1, <2>3, AddsElement
    <3> HIDE DEF d
    <3> QED
      BY <3>1, <3>2, <3>3, ValueDueReadable DEF ReturnStates
  <2>4. CASE t.kind \notin {"]", ","}
    BY <1>3, <1>6, <2>4 DEF Handle, ParseNextArrayElement
  <2> QED
    BY <2>2, <2>3, <2>4
<1>7. CASE c.state = "FIRST_KV"
  <2> DEFINE d == StoreCompositeHeader(c, "object")
  <2>1. CASE t.kind = "}"
    <3>1. Handle(c, t) = Store(GoTo(c, "FINISH"), Empty("object"))
      BY <1>7, <2>1 DEF Handle, ParseFirstKv
    <3> QED
      BY <1>1, <1>2, <3>1, EmptyReadable
  <2>2. CASE t.kind = "string"
    <3>1. Handle(c, t) = GoTo(Store(d, Leaf(t)), "KV_COLON")
      BY <1>7, <2>2 DEF Handle, ParseFirstKv
    <3>2. d \in Contexts /\ Readable(d, 0)
      BY <1>1, <1>2, StillContexts, OpenReadable
    <3> HIDE DEF d
    <3> QED
      BY <2>2, <3>1, <3>2, KeyReadable
  <2>3. CASE t.kind \notin {"}", "string"}
    BY <1>3, <1>7, <2>3 DEF Handle, ParseFirstKv
  <2> QED
    BY <2>1, <2>2, <2>3
<1>8. CASE c.state = "KV_COLON"
  <2>1. CASE t.kind = ":"
    <3>1. Handle(c, t) = GoTo(PushWords(c, <<State("KV_END")>>), "VALUE")
      BY <1>8, <2>1 DEF Handle, ParseKvColon
    <3> QED
      BY <1>1, <1>2, <3>1, ValueDueReadable DEF ReturnStates
  <2>2. CASE t.kind # ":"
    BY <1>3, <1>8, <2>2 DEF Handle, ParseKvColon
  <2> QED
    BY <2>1, <2>2
<1>9. CASE c.state = "KV_END"
  <2>1. c.state \in DOMAIN TypeOfState /\ TypeOfState[c.state] = "object"
    BY <1>9, CompositeStates
  <2>2. CASE t.kind = "}"
    <3>1. Handle(c, t) = GoTo(StoreElementsTable(c, TypeOfState[c.state]), "FINISH")
      BY <1>9, <2>1, <2>2 DEF Handle, ParseKvEnd
    <3> QED
      BY <1>2, <1>9, <2>1, <2>2, <3>1, EndReadable DEF FullStates
  <2>3. CASE t.kind = ","
    <3>1. Handle(c, t) = GoTo(c, "NEXT_KV") /\ Readable(c, 2)
      BY <1>2, <1>9, <2>3 DEF Handle, ParseKvEnd, FullStates
    <3>2. GoTo(c, "NEXT_KV") \in Contexts /\ Readable(GoTo(c, "NEXT_KV"), 2)
      BY <1>1, <3>1, StillContexts, GoToReadable DEF States
    <3> QED
      BY <3>1, <3>2, AsMuchAsAsked
  <2>4. CASE t.kind \notin {"}", ","}
    BY <1>3, <1>9, <2>4 DEF Handle, ParseKvEnd
  <2> QED
    BY <2>2, <2>3, <2>4
<1>10. CASE c.state = "NEXT_KV"
  <2> DEFINE d == AddCompositeElement(c)
  <2>1. c.state \in DOMAIN TypeOfState
    BY <1>10, CompositeStates
  <2>2. CASE t.kind = "string"
    <3>1. Handle(c, t) = GoTo(Store(d, Leaf(t)), "KV_COLON")
      BY <1>10, <2>2 DEF Handle, ParseNextKv
    <3>2. Readable(d, 0)
      BY <1>1, <1>2, <2>1, AddReadable
    <3>3. d \in Contexts
      BY <2>1, <2>2, AddsElement
    <3> HIDE DEF d
    <3> QED
      BY <2>2, <3>1, <3>2, <3>3, KeyReadable
  <2>3. CASE t.kind # "string"
    BY <1>3, <1>10, <2>3 DEF Handle, ParseNextKv
  <2> QED
    BY <2>2, <2>3
<1>11. CASE c.state = "FINISH"
  BY <1>3, <1>11 DEF Handle
<1> QED
  BY <1>1, <1>4, <1>5, <1>6, <1>7, <1>8, <1>9, <1>10, <1>11 DEF States

----------------------------------------------------------------------------
(* The rest of a call, and the steps of the specification.                  *)

(* Popping a state asks as much as a complete value does.                  *)
LEMMA PopReadable ==
  ASSUME NEW c \in Contexts, NEW t, c.stack # <<>>, c.state \notin DOMAIN TypeOfState,
         Sound(c.stack, c.segment, c.state), Readable(c, Margin("FINISH", t))
  PROVE  ReadableAfter(PopState(c), t)
<1> DEFINE other == Front(c.stack)
<1> DEFINE s == Last(c.stack)[2]
<1> DEFINE d == PopState(c)
<1>1. c.stack \in Seq(AnyWord) /\ c.segment \in Seq(AnyCell)
  BY DEF Contexts
<1>2. /\ Len(c.stack) \in Nat \ {0} /\ Last(c.stack) = c.stack[Len(c.stack)]
      /\ other \in Seq(AnyWord) /\ Len(other) = Len(c.stack) - 1
      /\ \A k \in 1 .. Len(c.stack) - 1 : other[k] = c.stack[k]
  BY <1>1, FrontAndLast
<1>3. Last(c.stack)[1] = "state"
  BY <1>2 DEF Sound, Fits
<1>4. s \in ReturnStates
  BY <1>1, <1>3, PopStateSound
<1>5. d = [c EXCEPT !.state = s, !.stack = other]
  BY <1>3, TopIsWord DEF PopState
<1> HIDE DEF other, s
<1>6. d.stack = other /\ d.segment = c.segment /\ d.state = s
  BY <1>5 DEF Contexts
<1>7. Margin(s, t) = Margin("FINISH", t)
  BY <1>4 DEF Margin, ReturnStates, FullStates
<1>8. Len(other) <= Len(c.stack) /\ \A k \in 1 .. Len(other) : other[k] = c.stack[k]
  BY <1>2
<1>9. FramesRead(other, c.segment, Margin(s, t))
  BY <1>1, <1>2, <1>7, <1>8, FramesShorter DEF Readable
<1> QED
  BY <1>6, <1>9 DEF ReadableAfter, Readable

(* thsn_parser_parse_next_token.                                           *)
LEMMA TokenReadable ==
  ASSUME NEW c, NEW t \in TokenTypes, NEW size \in Int, NEW n \in Nat,
         Ready(c, t, size - 2, n), Readable(c, Margin(c.state, t))
  PROVE  ReadableAfter(ParseNextToken(c, t), t)
<1> DEFINE h == Handle(c, t)
<1>1. Handled(h, t, size, n + 1) /\ ReadableAfter(h, t)
  BY HandleHandled, HandleReadable
<1>2. ParseNextToken(c, t) = AfterHandler(h)
  BY DEF ParseNextToken
<1> HIDE DEF h
<1>3. CASE h.result # "success" \/ h.state # "FINISH"
  BY <1>1, <1>2, <1>3 DEF AfterHandler
<1>4. CASE h.result = "success" /\ h.state = "FINISH" /\ h.stack = <<>>
  <2> DEFINE d == [h EXCEPT !.result = "finished"]
  <2>1. AfterHandler(h) = d
    BY <1>4 DEF AfterHandler
  <2>2. d.segment = h.segment /\ d.result = "finished"
    BY <1>1 DEF Handled, Contexts
  <2> HIDE DEF d
  <2> QED
    BY <1>1, <1>2, <2>1, <2>2 DEF ReadableAfter
<1>5. CASE h.result = "success" /\ h.state = "FINISH" /\ h.stack # <<>>
  <2>1. AfterHandler(h) = PopState(h)
    BY <1>5 DEF AfterHandler
  <2>2. h \in Contexts /\ Sound(h.stack, h.segment, h.state) /\ h.state \notin DOMAIN TypeOfState
    BY <1>1, <1>5, CompositeStates DEF Handled
  <2>3. Readable(h, Margin("FINISH", t))
    BY <1>1, <1>5 DEF ReadableAfter, Readable
  <2> QED
    BY <1>2, <1>5, <2>1, <2>2, <2>3, PopReadable
<1> QED
  BY <1>3, <1>4, <1>5

(* thsn_parser_add_value_handle.                                           *)
LEMMA TakenHandleReadable ==
  ASSUME NEW c \in Contexts, NEW value \in TokenTypes,
         Sound(c.stack, c.segment, c.state), Readable(c, 1)
  PROVE  ReadableAfter(AddValueHandle(c, value), value)
<1> DEFINE d == Store(c, ValueHandle(value))
<1>1. CASE c.state # "VALUE"
  BY <1>1, GoToReadable DEF AddValueHandle
<1>2. CASE c.state = "VALUE"
  <2>1. ValueHandle(value) \in AnyCell \ Headers /\ ValueHandle(value).tag = "handle"
    BY CellKinds DEF ValueHandle
  <2>2. d \in Contexts /\ Readable(d, 2)
    BY <2>1, StillContexts, StoreReadable DEF ValueTags
  <2>3. d.stack = c.stack /\ d.state = "VALUE" /\ AddValueHandle(c, value) = PopState(d)
    BY <1>2 DEF Store, Contexts, AddValueHandle
  <2>4. Sound(d.stack, d.segment, d.state)
    <3>1. d.segment = Append(c.segment, ValueHandle(value)) /\ d.state = c.state
      BY DEF Store, Contexts
    <3>2. c.stack \in Seq(AnyWord) /\ c.segment \in Seq(AnyCell)
      BY DEF Contexts
    <3> HIDE DEF d
    <3> QED
      BY <2>1, <2>3, <3>1, <3>2, StoreSound
  <2> HIDE DEF d
  <2>5. CASE d.stack # <<>>
    <3>1. Readable(d, Margin("FINISH", value))
      BY <2>2, ReadableEasier DEF Margin
    <3> QED
      BY <2>2, <2>3, <2>4, <2>5, <3>1, PopReadable, CompositeStates
  <2>6. CASE d.stack = <<>>
    <3>1. PopState(d) = Reject(d)
      BY <2>2, <2>6, TopIsWord DEF PopState
    <3>2. ReadableAfter(Reject(d), value)
      BY <2>2, GoToReadable
    <3> QED
      BY <2>3, <3>1, <3>2
  <2> QED
    BY <2>5, <2>6
<1> QED
  BY <1>1, <1>2

(* Nothing is stored and nothing is missing before the first token.        *)
LEMMA InitReadable == Init => ReadableInv
<1> SUFFICES ASSUME Init PROVE ReadableInv
  OBVIOUS
<1>1. Len(context.stack) = 0 /\ Len(context.segment) = 0
  BY DEF Init, NewContext
<1> QED
  BY <1>1 DEF ReadableInv, Composed, FramesRead

(* Every token and every handle keeps readable what is, and adds to it.     *)
LEMMA NextReadable ==
  ParserInv /\ ReadableInv /\ [Next]_<<context, read>> => ReadableInv'
<1> SUFFICES ASSUME ParserInv, ReadableInv, [Next]_<<context, read>>
             PROVE  ReadableInv'
  OBVIOUS
<1>1. /\ read \in Seq(TokenTypes) /\ Len(read) \in Nat
      /\ 2 * (Len(read) + 1) \in Int /\ 2 * (Len(read) + 1) - 2 = 2 * Len(read)
      /\ context \in Contexts
  <2>1. Len(read) \in Nat
    BY LenProperties DEF ParserInv
  <2> QED
    BY <2>1 DEF ParserInv
<1>2. ASSUME NEW t, context.result = "success", t.kind # "eof" => ~AtEnd
      PROVE  /\ Ready(context, t, 2 * (Len(read) + 1) - 2, Len(read))
             /\ Readable(context, Margin(context.state, t))
  <2>1. Ready(context, t, 2 * (Len(read) + 1) - 2, Len(read))
    BY <1>1, <1>2 DEF ParserInv, LastElementStored, Ready, Stored, Bounded
  <2>2. Readable(context, IF ~AtEnd /\ context.state \in FullStates THEN 2 ELSE 1)
    BY <1>2 DEF ReadableInv, Readable
  <2>3. Readable(context, Margin(context.state, t))
    BY <1>1, <1>2, <2>2, ReadableEasier DEF Margin
  <2> QED
    BY <2>1, <2>3
<1>3. ASSUME NEW t \in TokenTypes, Take(t), ReadableAfter(context', t)
      PROVE  ReadableInv'
  <2>1. read' # <<>> /\ Last(read') = t
    <3>1. read' = Append(read, t)
      BY <1>3 DEF Take
    <3>2. /\ Len(read') = Len(read) + 1 /\ read' # <<>> /\ read'[Len(read) + 1] = t
      BY <1>1, <3>1, AppendProperties
    <3> QED
      BY <3>2 DEF Last
  <2>2. AtEnd' <=> t.kind = "eof"
    BY <2>1 DEF AtEnd
  <2> QED
    BY <1>3, <2>2 DEF ReadableInv, ReadableAfter, Margin
<1>4. CASE NextToken
  <2>1. PICK kind \in Inputs : /\ context.result = "success" /\ (AtEnd => kind = "eof")
                              /\ Take(Token(kind))
                              /\ context' = ParseNextToken(context, Token(kind))
    BY <1>4 DEF NextToken
  <2>2. Token(kind) \in TokenTypes /\ Token(kind).kind = kind
    BY <1>1, InputsAssumption DEF Token, TokenTypes
  <2>3. /\ Ready(context, Token(kind), 2 * (Len(read) + 1) - 2, Len(read))
        /\ Readable(context, Margin(context.state, Token(kind)))
    BY <1>2, <2>1, <2>2
  <2>4. ReadableAfter(context', Token(kind))
    BY <1>1, <2>1, <2>2, <2>3, TokenReadable
  <2> QED
    BY <1>3, <2>1, <2>2, <2>4
<1>5. CASE NextHandle
  <2>1. /\ context.result = "success" /\ ~AtEnd /\ Take(Token("handle"))
        /\ context' = AddValueHandle(context, Token("handle"))
    BY <1>5 DEF NextHandle
  <2>2. Token("handle") \in TokenTypes /\ Token("handle").kind # "eof"
    BY <1>1 DEF Token, TokenTypes
  <2>3. Readable(context, 1) /\ Sound(context.stack, context.segment, context.state)
    <3>1. /\ Ready(context, Token("handle"), 2 * (Len(read) + 1) - 2, Len(read))
          /\ Readable(context, Margin(context.state, Token("handle")))
      BY <1>2, <2>1, <2>2
    <3> QED
      BY <1>1, <3>1, ReadableEasier DEF Margin, Ready
  <2>4. ReadableAfter(context', Token("handle"))
    BY <1>1, <2>1, <2>2, <2>3, TakenHandleReadable
  <2> QED
    BY <1>3, <2>1, <2>2, <2>4
<1>6. CASE UNCHANGED <<context, read>>
  BY <1>6 DEF ReadableInv, AtEnd
<1> QED
  BY <1>4, <1>5, <1>6 DEF Next

(* A finished parser has left no header unwritten, and every header leads   *)
(* to tables of as many elements as it counts, all of them values, or keys  *)
(* followed by their values, between the header and the tables: reading     *)
(* the document meets nothing else and goes round in no circle.            *)
THEOREM FinishedDocumentsAreReadable == Spec => []FinishedIsReadable
<1>1. Spec => []ReadableInv
  <2>1. ParserInv /\ ReadableInv /\ [Next]_<<context, read>> => ReadableInv'
    BY NextReadable
  <2> QED
    BY InitReadable, ParserIsSound, <2>1, PTL DEF Spec
<1>2. ParserInv /\ ReadableInv => FinishedIsReadable
  <2> SUFFICES ASSUME ParserInv, ReadableInv, context.result = "finished",
                      NEW k \in DOMAIN context.segment
               PROVE  IsReadable(context.segment, k)
    BY DEF FinishedIsReadable
  <2>1. k \in 1 .. Len(context.segment)
    <3>1. context.segment \in Seq(AnyCell)
      BY DEF ParserInv, Contexts
    <3> QED
      BY <3>1, LenProperties
  <2>2. context.segment[k] \notin Headers
    <3>1. UnwrittenWait(context.stack, context.segment) /\ Len(context.stack) = 0
      BY DEF ParserInv
    <3> QED
      BY <2>1, <3>1 DEF UnwrittenWait
  <2> QED
    BY <2>1, <2>2 DEF ReadableInv, Composed
<1> QED
  BY <1>1, <1>2, ParserIsSound, PTL
=============================================================================
