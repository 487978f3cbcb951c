--------------------------- MODULE TokenizerProofs ---------------------------
(***************************************************************************)
(* Proofs about module Tokenizer, for texts of every size over every        *)
(* alphabet: no token leaves the text; a string ends where reading it       *)
(* escape by escape ends it; every JSON number is read whole.               *)
(***************************************************************************)
EXTENDS Tokenizer, FiniteSetTheorems, WellFoundedInduction, TLAPS

----------------------------------------------------------------------------
(* The least element of a set of positions.                                *)

Below == {pair \in Nat \X Nat : pair[1] < pair[2]}

(* The order of the natural numbers, as a relation, is well founded.        *)
LEMMA BelowWellFounded == IsWellFoundedOn(Below, Nat)
  BY NatLessThanWellFounded, Zenon DEF OpToRel, Below

(* A set of natural numbers that is not empty has a least element: First    *)
(* chooses it.                                                             *)
LEMMA FirstIsLeast ==
  ASSUME NEW S \in SUBSET Nat, S # {}
  PROVE  First(S) \in S /\ \A q \in S : First(S) <= q
<1>1. \E p \in S : \A q \in S : ~ (<<q, p>> \in Below)
  BY BelowWellFounded, WFMin
<1>2. \A p, q \in Nat : q < p => <<q, p>> \in Below
  BY Z3 DEF Below
<1>3. \E p \in S : \A q \in S : ~ (q < p)
  BY <1>1, <1>2
<1>4. \E p \in S : \A q \in S : p <= q
  BY <1>3
<1> QED BY <1>4 DEF First

(* A claim about every position from the first one on follows from the      *)
(* claim about the first and the step from each position to the next.       *)
LEMMA LeastCounterexample ==
  ASSUME NEW from \in Nat, NEW S \in SUBSET Nat, from \in S,
         \A p \in Nat : from <= p /\ p \in S => p + 1 \in S
  PROVE  \A p \in Nat : from <= p => p \in S
<1> SUFFICES ASSUME NEW r \in Nat, from <= r, r \notin S  PROVE FALSE
  OBVIOUS
<1> DEFINE Outside == {p \in Nat : from <= p /\ p \notin S}
<1>1. Outside \in SUBSET Nat /\ Outside # {}
  OBVIOUS
<1>2. First(Outside) \in Outside /\ \A q \in Outside : First(Outside) <= q
  BY <1>1, FirstIsLeast
<1>3. PICK p \in Nat : /\ from <= p /\ p \notin S
                       /\ \A q \in Nat : from <= q /\ q \notin S => p <= q
  BY <1>2
<1>4. p - 1 \in Nat /\ from <= p - 1
  BY <1>3
<1>5. p - 1 \in S
  BY <1>3, <1>4
<1> QED BY <1>3, <1>4, <1>5

----------------------------------------------------------------------------
(* Where the parts of a token end.                                         *)

(* The text is a function on its positions but the last.                   *)
LEMMA TextIsRead ==
  ASSUME text \in Texts
  PROVE  TextSize \in Nat /\ \A p \in 0 .. TextSize - 1 : text[p] \in Characters
  BY TextAssumption DEF Texts

(* White space is skipped inside of the text.                              *)
LEMMA SkipsForwards ==
  ASSUME NEW end \in Nat, NEW from \in 0 .. end
  PROVE  First({end} \cup {q \in from .. end - 1 : text[q] # Space}) \in from .. end
<1> DEFINE S == {end} \cup {q \in from .. end - 1 : text[q] # Space}
<1>1. S \in SUBSET Nat /\ S # {} /\ S \subseteq from .. end
  OBVIOUS
<1> QED BY <1>1, FirstIsLeast

(* A number ends behind its first character, inside of the text, all of it  *)
(* continues it and nothing that follows does.                             *)
LEMMA NumberEnds ==
  ASSUME NEW end \in Nat, NEW p \in 0 .. end - 1
  PROVE  /\ NumberEnd(p, end) \in p + 1 .. end
         /\ \A q \in p + 1 .. NumberEnd(p, end) - 1 : Continues(q)
         /\ NumberEnd(p, end) < end => ~Continues(NumberEnd(p, end))
<1> DEFINE S == {end} \cup {q \in p + 1 .. end - 1 : ~Continues(q)}
<1>1. S \in SUBSET Nat /\ S # {} /\ S \subseteq p + 1 .. end
  OBVIOUS
<1>2. First(S) \in S /\ \A q \in S : First(S) <= q
  BY <1>1, FirstIsLeast
<1>3. NumberEnd(p, end) = First(S)
  BY DEF NumberEnd
<1> QED BY <1>1, <1>2, <1>3

(* A string goes on to the first of its closing quotes.                    *)
LEMMA FirstClosingQuote ==
  ASSUME NEW end \in Nat, NEW from \in 0 .. end, ClosingQuotes(from, end) # {}
  PROVE  /\ First(ClosingQuotes(from, end)) \in from .. end - 1
         /\ AfterString(from, end) = First(ClosingQuotes(from, end)) + 1
<1>1. ClosingQuotes(from, end) \in SUBSET Nat /\ ClosingQuotes(from, end) \subseteq from .. end - 1
  BY DEF ClosingQuotes
<1>2. First(ClosingQuotes(from, end)) \in ClosingQuotes(from, end)
  BY <1>1, FirstIsLeast
<1> QED BY <1>1, <1>2 DEF AfterString

----------------------------------------------------------------------------
(* Type correctness.                                                       *)

(* What a read of a token gives, its place and where to read on.            *)
Inside(read, from, end) == read.token \in Tokens /\ read.next \in from .. end

(* A token that lies in the text is a token of the module.                 *)
LEMMA ReadInside ==
  ASSUME NEW kind \in Kinds, NEW from \in 0 .. TextSize, NEW to \in from .. TextSize,
         NEW start, NEW end, NEW next \in start .. end, TextSize \in Nat
  PROVE  Inside(Read(kind, from, to, next), start, end)
<1>1. to - from \in 0 .. TextSize
  OBVIOUS
<1> QED BY <1>1 DEF Inside, Read, Token, Tokens, Positions

(* thsn_next_token moves forwards and never beyond the end it was given;    *)
(* the token it finds lies in the text.                                     *)
LEMMA TokenIsInside ==
  ASSUME text \in Texts, NEW from \in 0 .. TextSize
  PROVE  Inside(NextToken(from, TextSize), from, TextSize)
<1>1. TextSize \in Nat /\ \A p \in 0 .. TextSize - 1 : text[p] \in Characters
  BY TextIsRead
<1> DEFINE p == First({TextSize} \cup {q \in from .. TextSize - 1 : text[q] # Space})
           N == TextSize
<1>2. p \in from .. N
  BY <1>1, SkipsForwards
<1> HIDE DEF p
<1>3. CASE p = N
  <2>1. NextToken(from, N) = Read("eof", 0, 0, N)
    BY <1>3 DEF NextToken, p
  <2>2. "eof" \in Kinds /\ 0 \in 0 .. N /\ 0 \in 0 .. 0 /\ N \in from .. N
    BY <1>1 DEF Kinds
  <2> QED BY <1>1, <2>1, <2>2, ReadInside
<1>4. CASE p # N
  <2>1. NextToken(from, N) = ReadToken(p, N)
    BY <1>4 DEF NextToken, p
  <2>2. p \in 0 .. N - 1 /\ p \in 0 .. N /\ p + 1 \in p .. N /\ p + 1 \in from .. N
    BY <1>1, <1>2, <1>4
  <2>3. Inside(ReadError(p), from, N)
    <3>1. "error" \in Kinds  BY DEF Kinds
    <3> QED BY <1>1, <2>2, <3>1, ReadInside DEF ReadError
  <2>4. CASE text[p] \in Punctuation
    <3>1. ReadToken(p, N) = Read(text[p], p, p + 1, p + 1)
      BY <2>4 DEF ReadToken, Punctuation, Quote, Digit, Word
    <3>2. text[p] \in Kinds  BY <2>4 DEF Kinds
    <3> QED BY <1>1, <2>1, <2>2, <3>1, <3>2, ReadInside
  <2>5. CASE text[p] = Quote
    <3>1. ReadToken(p, N) = ReadString(p, N)
      BY <2>5 DEF ReadToken, Punctuation, Quote, Digit, Word
    <3>2. p + 1 \in 0 .. N /\ N \in p + 1 .. N /\ N \in from .. N
      BY <1>1, <1>2, <2>2
    <3>3. CASE ClosingQuotes(p + 1, N) = {}
      <4>1. ReadString(p, N) = Read("unclosed_string", p + 1, N, N)
        BY <3>3 DEF ReadString
      <4>2. "unclosed_string" \in Kinds  BY DEF Kinds
      <4> QED BY <1>1, <2>1, <3>1, <3>2, <4>1, <4>2, ReadInside
    <3>4. CASE ClosingQuotes(p + 1, N) # {}
      <4> DEFINE after == AfterString(p + 1, N)
      <4>1. ReadString(p, N) = Read("string", p + 1, after - 1, after)
        BY <3>4 DEF ReadString
      <4>2. after - 1 \in p + 1 .. N - 1
        BY <1>1, <3>2, <3>4, FirstClosingQuote
      <4>3. after - 1 \in p + 1 .. N /\ after \in from .. N
        <5>1. after = First(ClosingQuotes(p + 1, N)) + 1
          BY <1>1, <3>2, <3>4, FirstClosingQuote
        <5>2. First(ClosingQuotes(p + 1, N)) \in p + 1 .. N - 1
          BY <1>1, <3>2, <3>4, FirstClosingQuote
        <5> QED BY <1>1, <1>2, <5>1, <5>2
      <4>4. "string" \in Kinds  BY DEF Kinds
      <4> HIDE DEF after
      <4> QED BY <1>1, <2>1, <3>1, <3>2, <4>1, <4>3, <4>4, ReadInside
    <3> QED BY <3>3, <3>4
  <2>6. CASE text[p] \in {Digit, "-"}
    <3> DEFINE n == NumberEnd(p, N)
               kind == IF Marks(p, n) = {} THEN "int" ELSE "float"
    <3>1. ReadToken(p, N) = ReadNumber(p, N)
      BY <2>6 DEF ReadToken, Punctuation, Quote, Digit, Word
    <3>2. n \in p + 1 .. N
      BY <1>1, <2>2, NumberEnds
    <3>3. n \in p .. N /\ n \in from .. N
      BY <1>1, <1>2, <2>2, <3>2
    <3>4. kind \in Kinds
      BY DEF Kinds
    <3>5. ReadNumber(p, N) \in {ReadError(p), Read(kind, p, n, n)}
      BY DEF ReadNumber
    <3> HIDE DEF n, kind
    <3>6. Inside(Read(kind, p, n, n), from, N)
      BY <1>1, <2>2, <3>3, <3>4, ReadInside
    <3> QED BY <2>1, <2>3, <3>1, <3>5, <3>6
  <2>7. CASE text[p] = Word[1]
    <3>1. ReadToken(p, N) = ReadWord(p, N)
      BY <2>7 DEF ReadToken, Punctuation, Quote, Digit, Word
    <3>2. CASE p + 1 < N /\ text[p + 1] = Word[2]
      <4>1. ReadWord(p, N) = Read("word", p, p + 2, p + 2)
        BY <3>2 DEF ReadWord
      <4>2. "word" \in Kinds /\ p + 2 \in p .. N /\ p + 2 \in from .. N
        BY <1>1, <1>2, <2>2, <3>2 DEF Kinds
      <4> QED BY <1>1, <2>1, <2>2, <3>1, <4>1, <4>2, ReadInside
    <3>3. CASE ~(p + 1 < N /\ text[p + 1] = Word[2])
      BY <2>1, <2>3, <3>1, <3>3 DEF ReadWord
    <3> QED BY <3>2, <3>3
  <2>8. CASE /\ text[p] \notin Punctuation /\ text[p] # Quote
             /\ text[p] \notin {Digit, "-"} /\ text[p] # Word[1]
    BY <2>1, <2>3, <2>8 DEF ReadToken
  <2> QED BY <2>4, <2>5, <2>6, <2>7, <2>8
<1> QED BY <1>3, <1>4

(* Every token lies in the text, and so does the unread rest: the reads of  *)
(* thsn_next_token stay in the slice that it was given, whatever the text.  *)
THEOREM TokensStayInside == Spec => []TypeOK
<1>1. Init => TypeOK
  BY TextAssumption DEF Init, TypeOK, Positions, Token, Tokens, Kinds
<1>2. TypeOK /\ [Next]_<<text, pos, token>> => TypeOK'
  <2> SUFFICES ASSUME TypeOK, [Next]_<<text, pos, token>>  PROVE TypeOK'
    OBVIOUS
  <2>1. CASE Next
    <3>1. text \in Texts /\ pos \in 0 .. TextSize /\ TextSize \in Nat
      BY TextAssumption DEF TypeOK, Positions
    <3>2. Inside(NextToken(pos, TextSize), pos, TextSize)
      BY <3>1, TokenIsInside
    <3>3. token' \in Tokens /\ pos' \in pos .. TextSize /\ text' = text
      BY <2>1, <3>2 DEF Next, Inside
    <3>4. text' \in Texts' /\ pos' \in Positions' /\ token' \in Tokens'
      BY <3>1, <3>3 DEF Texts, Positions, Tokens, Kinds
    <3> QED BY <3>4 DEF TypeOK
  <2>2. CASE UNCHANGED <<text, pos, token>>
    BY <2>2 DEF TypeOK, Texts, Positions, Tokens, Kinds
  <2> QED BY <2>1, <2>2
<1> QED BY <1>1, <1>2, PTL DEF Spec

----------------------------------------------------------------------------
(* Strings.                                                                *)

(* The backslashes before a position, as they are counted: one more than    *)
(* before a backslash, none behind any other character.                     *)
LEMMA SlashesGrow ==
  ASSUME NEW from \in Nat, NEW q \in Nat, from <= q
  PROVE  /\ Slashes(from, q) \in Nat
         /\ Slashes(from, from) = 0
         /\ Slashes(from, q + 1) = IF text[q] = Slash THEN Slashes(from, q) + 1 ELSE 0
<1> DEFINE Run(r) == {k \in from .. r - 1 : \A l \in k .. r - 1 : text[l] = Slash}
<1>1. IsFiniteSet(from .. q - 1)
  BY FS_Interval
<1>2. Run(q) \subseteq from .. q - 1
  OBVIOUS
<1>3. IsFiniteSet(Run(q))
  BY <1>1, <1>2, FS_Subset
<1>4. Cardinality(Run(q)) \in Nat
  BY <1>3, FS_CardinalityType
<1>5. Run(from) = {}
  OBVIOUS
<1>6. CASE text[q] = Slash
  <2>1. Run(q + 1) = Run(q) \cup {q}
    BY <1>6
  <2>2. q \notin Run(q)
    OBVIOUS
  <2> HIDE DEF Run
  <2>3. Cardinality(Run(q + 1)) = Cardinality(Run(q)) + 1
    BY <1>3, <2>1, <2>2, FS_AddElement
  <2> QED BY <1>4, <1>5, <1>6, <2>3, FS_EmptySet DEF Run, Slashes
<1>7. CASE text[q] # Slash
  <2>1. Run(q + 1) = {}
    BY <1>7
  <2> HIDE DEF Run
  <2> QED BY <1>4, <1>5, <1>7, <2>1, FS_EmptySet DEF Run, Slashes
<1> QED BY <1>6, <1>7

(* Whether a character is escaped depends on the one before it only: it is  *)
(* if that is a backslash that is not escaped itself.                       *)
LEMMA EscapedStep ==
  ASSUME NEW from \in Nat, NEW q \in Nat, from <= q
  PROVE  /\ ~Escaped(from, from)
         /\ Escaped(from, q + 1) <=> text[q] = Slash /\ ~Escaped(from, q)
<1>1. /\ Slashes(from, q) \in Nat
      /\ Slashes(from, from) = 0
      /\ Slashes(from, q + 1) = IF text[q] = Slash THEN Slashes(from, q) + 1 ELSE 0
  BY SlashesGrow
<1>2. \A n \in Nat : (n + 1) % 2 = 1 <=> ~(n % 2 = 1)
  OBVIOUS
<1> QED BY <1>1, <1>2 DEF Escaped

(* The quotes that end a string read forwards, escape by escape, are those  *)
(* with an even number of backslashes before them.                          *)
LEMMA ForwardsAndBackwards ==
  ASSUME NEW from \in Nat, TextSize \in Nat
  PROVE  EndsForwards(from) = ClosingQuotes(from, TextSize)
<1> DEFINE D == from .. TextSize
           Body(f) == [p \in D |-> p > from /\ text[p - 1] = Slash /\ ~f[p - 1]]
           counted == [p \in D |-> Escaped(from, p)]
           escaping == CHOOSE f : f = Body(f)
<1>1. counted = Body(counted)
  <2> SUFFICES ASSUME NEW p \in D
               PROVE  Escaped(from, p) = (p > from /\ text[p - 1] = Slash /\ ~counted[p - 1])
    OBVIOUS
  <2>1. CASE p = from
    <3>1. ~Escaped(from, from)
      BY EscapedStep
    <3>2. ~(from > from)
      OBVIOUS
    <3>3. Escaped(from, from) \in BOOLEAN
      BY DEF Escaped
    <3> QED BY <2>1, <3>1, <3>2, <3>3
  <2>2. CASE p > from
    <3>1. p - 1 \in Nat /\ from <= p - 1 /\ (p - 1) + 1 = p /\ p - 1 \in D
      BY <2>2
    <3>2. Escaped(from, (p - 1) + 1) <=> text[p - 1] = Slash /\ ~Escaped(from, p - 1)
      BY <3>1, EscapedStep
    <3>3. counted[p - 1] = Escaped(from, p - 1)
      BY <3>1
    <3> QED BY <2>2, <3>1, <3>2, <3>3 DEF Escaped
  <2> QED BY <2>1, <2>2
<1>2. escaping = Body(escaping)
  BY <1>1, Zenon
<1>3. \A p \in D : escaping[p] <=> (p > from /\ text[p - 1] = Slash /\ ~escaping[p - 1])
  BY <1>2
<1> HIDE DEF escaping
<1>4. \A p \in D : escaping[p] <=> Escaped(from, p)
  <2> DEFINE Agree == {p \in Nat : p \in D => (escaping[p] <=> Escaped(from, p))}
  <2>1. from \in Agree
    <3>1. ~Escaped(from, from)
      BY EscapedStep
    <3>2. from \in D => ~escaping[from]
      BY <1>3
    <3> QED BY <3>1, <3>2
  <2>2. ASSUME NEW p \in Nat, from <= p, p \in Agree  PROVE p + 1 \in Agree
    <3> SUFFICES ASSUME p + 1 \in D  PROVE escaping[p + 1] <=> Escaped(from, p + 1)
      OBVIOUS
    <3>1. p \in D /\ p + 1 > from /\ (p + 1) - 1 = p
      BY <2>2
    <3>2. escaping[p + 1] <=> (text[p] = Slash /\ ~escaping[p])
      BY <1>3, <3>1
    <3>3. Escaped(from, p + 1) <=> text[p] = Slash /\ ~Escaped(from, p)
      BY <2>2, EscapedStep
    <3>4. escaping[p] <=> Escaped(from, p)
      BY <2>2, <3>1
    <3> QED BY <3>2, <3>3, <3>4
  <2>3. Agree \in SUBSET Nat
    OBVIOUS
  <2> HIDE DEF Agree
  <2>4. \A p \in Nat : from <= p => p \in Agree
    BY <2>1, <2>2, <2>3, LeastCounterexample
  <2> QED BY <2>4 DEF Agree
<1>5. EndsForwards(from) = {q \in from .. TextSize - 1 : text[q] = Quote /\ ~escaping[q]}
  BY DEF EndsForwards, escaping
<1>6. \A q \in from .. TextSize - 1 : q \in D
  OBVIOUS
<1> QED BY <1>4, <1>5, <1>6 DEF ClosingQuotes

(* What the next token is, if it is a string.                              *)
LEMMA NextTokenIsString ==
  ASSUME text \in Texts, NEW from \in 0 .. TextSize,
         NEW read, read = NextToken(from, TextSize)
  PROVE  /\ read.token.data \in Nat
         /\ read.token.kind = "string" =>
              /\ ClosingQuotes(read.token.data, TextSize) # {}
              /\ read.next = First(ClosingQuotes(read.token.data, TextSize)) + 1
         /\ read.token.kind = "unclosed_string" =>
              ClosingQuotes(read.token.data, TextSize) = {}
<1>1. TextSize \in Nat /\ \A p \in 0 .. TextSize - 1 : text[p] \in Characters
  BY TextIsRead
<1> DEFINE p == First({TextSize} \cup {q \in from .. TextSize - 1 : text[q] # Space})
           N == TextSize
           IsString(r) == r.token.kind \in {"string", "unclosed_string"}
<1>2. p \in from .. N
  BY <1>1, SkipsForwards
<1>3. Inside(NextToken(from, N), from, N)
  BY TokenIsInside
<1>4. read.token.data \in Nat
  BY <1>1, <1>3 DEF Inside, Tokens, Positions
<1>5. NextToken(from, N) = IF p = N THEN Read("eof", 0, 0, N) ELSE ReadToken(p, N)
  BY DEF NextToken
<1> HIDE DEF p
<1>6. CASE p # N /\ text[p] = Quote
  <2>1. p + 1 \in 0 .. N /\ p \in 0 .. N - 1
    BY <1>1, <1>2, <1>6
  <2>2. ReadToken(p, N) = ReadString(p, N)
    BY <1>6 DEF ReadToken, Punctuation, Quote, Digit, Word
  <2>3. CASE ClosingQuotes(p + 1, N) = {}
    <3>1. ReadString(p, N) = Read("unclosed_string", p + 1, N, N)
      BY <2>3 DEF ReadString
    <3>2. read.token.kind = "unclosed_string" /\ read.token.data = p + 1
      BY <1>5, <1>6, <2>2, <3>1 DEF Read, Token
    <3> QED BY <1>4, <2>3, <3>2
  <2>4. CASE ClosingQuotes(p + 1, N) # {}
    <3> DEFINE after == AfterString(p + 1, N)
    <3>1. ReadString(p, N) = Read("string", p + 1, after - 1, after)
      BY <2>4 DEF ReadString
    <3>2. /\ read.token.kind = "string" /\ read.token.data = p + 1
          /\ read.next = after
      BY <1>5, <1>6, <2>2, <3>1 DEF Read, Token
    <3>3. after = First(ClosingQuotes(p + 1, N)) + 1
      BY <1>1, <2>1, <2>4, FirstClosingQuote
    <3> QED BY <1>4, <2>4, <3>2, <3>3
  <2> QED BY <2>3, <2>4
<1>7. CASE p = N
  BY <1>4, <1>5, <1>7 DEF Read, Token
<1>8. CASE p # N /\ text[p] # Quote
  <2>1. ~IsString(ReadError(p)) /\ ~IsString(Read("word", p, p + 2, p + 2))
    BY DEF ReadError, Read, Token
  <2>2. CASE text[p] \in Punctuation
    <3>1. ReadToken(p, N) = Read(text[p], p, p + 1, p + 1)
      BY <2>2 DEF ReadToken, Punctuation, Quote, Digit, Word
    <3>2. read.token.kind \in Punctuation
      BY <1>5, <1>8, <2>2, <3>1 DEF Read, Token
    <3> QED BY <1>4, <3>2 DEF Punctuation
  <2>3. CASE text[p] \in {Digit, "-"}
    <3> DEFINE n == NumberEnd(p, N)
               kind == IF Marks(p, n) = {} THEN "int" ELSE "float"
    <3>1. ReadToken(p, N) = ReadNumber(p, N)
      BY <2>3 DEF ReadToken, Punctuation, Quote, Digit, Word
    <3>2. ReadNumber(p, N) \in {ReadError(p), Read(kind, p, n, n)}
      BY DEF ReadNumber
    <3>3. ~IsString(Read(kind, p, n, n))
      BY DEF Read, Token
    <3> HIDE DEF n, kind
    <3>4. ~IsString(read)
      BY <1>5, <1>8, <2>1, <3>1, <3>2, <3>3
    <3> QED BY <1>4, <3>4
  <2>4. CASE text[p] = Word[1]
    <3>1. ReadToken(p, N) = ReadWord(p, N)
      BY <2>4 DEF ReadToken, Punctuation, Quote, Digit, Word
    <3>2. ReadWord(p, N) \in {ReadError(p), Read("word", p, p + 2, p + 2)}
      BY DEF ReadWord
    <3>3. ~IsString(read)
      BY <1>5, <1>8, <2>1, <3>1, <3>2
    <3> QED BY <1>4, <3>3
  <2>5. CASE /\ text[p] \notin Punctuation
             /\ text[p] \notin {Digit, "-"} /\ text[p] # Word[1]
    <3>1. ReadToken(p, N) = ReadError(p)
      BY <1>8, <2>5 DEF ReadToken
    <3>2. ~IsString(read)
      BY <1>5, <1>8, <2>1, <3>1
    <3> QED BY <1>4, <3>2
  <2> QED BY <2>2, <2>3, <2>4, <2>5
<1> QED BY <1>6, <1>7, <1>8

(* A string ends where reading it forwards, escape by escape, ends it, and  *)
(* is unclosed when that does not end it: counting backslashes back from a  *)
(* quote finds the same, in texts of every size.                            *)
THEOREM StringsAreRead == Spec => []StringsEndForwards
<1> USE DEF StringsEndForwards
<1>1. Init => StringsEndForwards
  BY DEF Init, Token
<1>2. TypeOK /\ StringsEndForwards /\ [Next]_<<text, pos, token>> => StringsEndForwards'
  <2> SUFFICES ASSUME TypeOK, StringsEndForwards, [Next]_<<text, pos, token>>
               PROVE  StringsEndForwards'
    OBVIOUS
  <2>1. CASE Next
    <3>1. text \in Texts /\ pos \in 0 .. TextSize /\ TextSize \in Nat /\ text' = text
      BY <2>1, TextAssumption DEF TypeOK, Positions, Next
    <3> DEFINE read == NextToken(pos, TextSize)
    <3>2. token' = read.token /\ pos' = read.next
      BY <2>1 DEF Next
    <3>3. /\ read.token.data \in Nat
          /\ read.token.kind = "string" =>
               /\ ClosingQuotes(read.token.data, TextSize) # {}
               /\ read.next = First(ClosingQuotes(read.token.data, TextSize)) + 1
          /\ read.token.kind = "unclosed_string" =>
               ClosingQuotes(read.token.data, TextSize) = {}
      BY <3>1, NextTokenIsString
    <3>4. EndsForwards(read.token.data) = ClosingQuotes(read.token.data, TextSize)
      BY <3>1, <3>3, ForwardsAndBackwards
    <3> HIDE DEF read
    <3>5. EndsForwards(token.data)' = EndsForwards(read.token.data)
      BY <3>1, <3>2 DEF EndsForwards
    <3> QED BY <3>2, <3>3, <3>4, <3>5
  <2>2. CASE UNCHANGED <<text, pos, token>>
    <3>1. EndsForwards(token.data)' = EndsForwards(token.data)
      BY <2>2 DEF EndsForwards
    <3> QED BY <2>2, <3>1
  <2> QED BY <2>1, <2>2
<1> QED BY <1>1, <1>2, TokensStayInside, PTL DEF Spec

----------------------------------------------------------------------------
(* Numbers.                                                                *)

(* A JSON number in parts: what each of its characters may be.  A point is  *)
(* only where the fraction begins, an exponent's letter only where the      *)
(* exponent begins, and a sign only first or right behind that letter.      *)
LEMMA PartsOfNumber ==
  ASSUME NEW p \in Nat, NEW to \in Nat, IsJsonNumber(p, to)
  PROVE  \E fraction, exponent \in p + 1 .. to :
           /\ fraction <= exponent
           /\ text[p] \in {Digit, "-"}
           /\ text[to - 1] = Digit
           /\ \A q \in p + 1 .. to - 1 :
                \/ text[q] = Digit
                \/ q = fraction /\ q < exponent /\ text[q] = "."
                \/ q = exponent /\ text[q] = "e"
                \/ q = exponent + 1 /\ text[q] \in {"-", "+"} /\ text[exponent] = "e"
<1>1. PICK digits \in {p, p + 1} :
        \E fraction, exponent \in digits + 1 .. to :
          /\ digits = p \/ text[p] = "-"
          /\ fraction <= exponent /\ AllDigits(digits, fraction)
          /\ IsFraction(fraction, exponent) /\ IsExponent(exponent, to)
  BY DEF IsJsonNumber
<1>2. PICK fraction \in digits + 1 .. to, exponent \in digits + 1 .. to :
        /\ digits = p \/ text[p] = "-"
        /\ fraction <= exponent /\ AllDigits(digits, fraction)
        /\ IsFraction(fraction, exponent) /\ IsExponent(exponent, to)
  BY <1>1
<1>3. /\ digits \in Nat /\ p <= digits /\ digits <= p + 1
      /\ fraction \in Int /\ exponent \in Int
      /\ digits < fraction /\ fraction <= exponent /\ exponent <= to
  BY <1>2
<1>4. digits < fraction /\ \A q \in digits .. fraction - 1 : text[q] = Digit
  BY <1>2 DEF AllDigits
<1>5. \/ fraction = exponent
      \/ /\ fraction < exponent /\ text[fraction] = "." /\ fraction + 1 < exponent
         /\ \A q \in fraction + 1 .. exponent - 1 : text[q] = Digit
  BY <1>2 DEF IsFraction, AllDigits
<1>6. \/ exponent = to
      \/ /\ exponent + 1 < to /\ text[exponent] = "e"
         /\ \/ \A q \in exponent + 1 .. to - 1 : text[q] = Digit
            \/ /\ text[exponent + 1] \in {"-", "+"} /\ exponent + 2 < to
               /\ \A q \in exponent + 2 .. to - 1 : text[q] = Digit
  BY <1>2 DEF IsExponent, AllDigits
<1>7. text[p] \in {Digit, "-"}
  BY <1>2, <1>3, <1>4
<1>8. text[exponent - 1] = Digit
  <2>1. CASE fraction = exponent
    <3>1. exponent - 1 \in digits .. fraction - 1  BY <1>3, <2>1
    <3> QED BY <1>4, <3>1
  <2>2. CASE fraction # exponent
    <3>1. exponent - 1 \in fraction + 1 .. exponent - 1  BY <1>3, <1>5, <2>2
    <3> QED BY <1>5, <2>2, <3>1
  <2> QED BY <2>1, <2>2
<1>9. text[to - 1] = Digit
  <2>1. CASE exponent = to
    BY <1>8, <2>1
  <2>2. CASE exponent # to
    <3>1. to - 1 \in exponent + 1 .. to - 1  BY <1>3, <1>6, <2>2
    <3>2. exponent + 2 < to => to - 1 \in exponent + 2 .. to - 1  BY <1>3
    <3> QED BY <1>6, <2>2, <3>1, <3>2
  <2> QED BY <2>1, <2>2
<1>10. ASSUME NEW q \in p + 1 .. to - 1
       PROVE  \/ text[q] = Digit
              \/ q = fraction /\ q < exponent /\ text[q] = "."
              \/ q = exponent /\ text[q] = "e"
              \/ q = exponent + 1 /\ text[q] \in {"-", "+"} /\ text[exponent] = "e"
  <2>1. CASE q < fraction
    <3>1. q \in digits .. fraction - 1  BY <1>3, <2>1
    <3> QED BY <1>4, <3>1
  <2>2. CASE fraction <= q /\ q < exponent
    <3>1. q = fraction \/ q \in fraction + 1 .. exponent - 1  BY <1>3, <2>2
    <3>2. fraction # exponent  BY <1>3, <2>2
    <3> QED BY <1>5, <2>2, <3>1, <3>2
  <2>3. CASE exponent <= q
    <3>1. exponent # to  BY <1>3, <2>3
    <3>2. q = exponent \/ q = exponent + 1 \/ q \in exponent + 2 .. to - 1  BY <1>3, <2>3
    <3>3. q = exponent \/ q \in exponent + 1 .. to - 1  BY <1>3, <2>3
    <3> QED BY <1>6, <3>1, <3>2, <3>3
  <2> QED BY <1>3, <2>1, <2>2, <2>3
<1>11. fraction \in p + 1 .. to /\ exponent \in p + 1 .. to
  BY <1>3
<1> QED BY <1>2, <1>7, <1>9, <1>10, <1>11

(* A JSON number ends where reading on stops, when what follows is neither  *)
(* a digit nor a point nor an exponent.                                     *)
LEMMA NumberIsReadWhole ==
  ASSUME TextSize \in Nat, NEW p \in 0 .. TextSize - 1, NEW to \in p + 1 .. TextSize,
         IsJsonNumber(p, to),
         to < TextSize => text[to] \notin {Digit, ".", "e"}
  PROVE  NumberEnd(p, TextSize) = to /\ ~BadNumber(p, to) /\ text[p] \in {Digit, "-"}
<1> DEFINE Part(q, fraction, exponent) ==
             \/ text[q] = Digit
             \/ q = fraction /\ q < exponent /\ text[q] = "."
             \/ q = exponent /\ text[q] = "e"
             \/ q = exponent + 1 /\ text[q] \in {"-", "+"} /\ text[exponent] = "e"
<1>1. PICK fraction \in p + 1 .. to, exponent \in p + 1 .. to :
        /\ fraction <= exponent
        /\ text[p] \in {Digit, "-"}
        /\ text[to - 1] = Digit
        /\ \A q \in p + 1 .. to - 1 : Part(q, fraction, exponent)
  BY PartsOfNumber
<1>2. ASSUME NEW q \in p + 1 .. to - 1  PROVE Continues(q)
  <2>1. Part(q, fraction, exponent)
    BY <1>1
  <2>2. q = exponent + 1 => q - 1 = exponent
    OBVIOUS
  <2> QED BY <2>1, <2>2 DEF Continues
<1>3. to < TextSize => ~Continues(to)
  BY <1>1 DEF Continues, Digit
<1> DEFINE n == NumberEnd(p, TextSize)
<1>4. /\ n \in p + 1 .. TextSize
      /\ \A q \in p + 1 .. n - 1 : Continues(q)
      /\ n < TextSize => ~Continues(n)
  BY NumberEnds
<1>5. n = to
  <2> HIDE DEF n
  <2>1. ~(n < to)
    <3> SUFFICES ASSUME n < to  PROVE FALSE
      OBVIOUS
    <3>1. n \in p + 1 .. to - 1 /\ n < TextSize  BY <1>4
    <3> QED BY <1>2, <1>4, <3>1
  <2>2. ~(to < n)
    <3> SUFFICES ASSUME to < n  PROVE FALSE
      OBVIOUS
    <3>1. to \in p + 1 .. n - 1 /\ to < TextSize  BY <1>4
    <3> QED BY <1>3, <1>4, <3>1
  <2> QED BY <1>4, <2>1, <2>2
<1>6. ~BadNumber(p, to)
  <2>1. ASSUME NEW q \in Marks(p, to), NEW r \in Marks(p, to), q < r,
               text[r] = "." \/ text[r] = text[q]
        PROVE  FALSE
    <3>1. /\ q \in p + 1 .. to - 1 /\ text[q] \in {".", "e"}
          /\ r \in p + 1 .. to - 1 /\ text[r] \in {".", "e"}
      BY DEF Marks
    <3>2. Part(q, fraction, exponent) /\ Part(r, fraction, exponent)
      BY <1>1, <3>1
    <3> HIDE DEF Part
    <3>6. ASSUME NEW s \in p + 1 .. to - 1, Part(s, fraction, exponent), text[s] \in {".", "e"}
          PROVE  (text[s] = "." /\ s = fraction) \/ (text[s] = "e" /\ s = exponent)
      <4>1. text[s] # Digit /\ text[s] \notin {"-", "+"}
        BY <3>6 DEF Digit
      <4> QED BY <3>6, <4>1 DEF Part
    <3>3. (text[q] = "." /\ q = fraction) \/ (text[q] = "e" /\ q = exponent)
      BY <3>6, <3>1, <3>2
    <3>4. (text[r] = "." /\ r = fraction) \/ (text[r] = "e" /\ r = exponent)
      BY <3>6, <3>1, <3>2
    <3>5. q # r /\ ~(q = exponent /\ r = fraction)
      BY <1>1, <2>1, <3>1
    <3> QED BY <2>1, <3>3, <3>4, <3>5
  <2> QED BY <1>1, <2>1 DEF BadNumber, Digit
<1> QED BY <1>1, <1>5, <1>6

(* Where the unread text begins with a JSON number and then something that  *)
(* cannot be part of one, that number is the next token, whole: no valid    *)
(* number is rejected by thsn_next_token, cut or read with what follows it. *)
THEOREM NumbersAreRead == Spec => []JsonNumbersAreRead
<1>1. ASSUME TypeOK, NEW to \in pos + 1 .. TextSize, IsJsonNumber(pos, to),
             to < TextSize => text[to] \notin {Digit, ".", "e"}
      PROVE  /\ NextToken(pos, TextSize).token.kind \in {"int", "float"}
             /\ NextToken(pos, TextSize).next = to
  <2> DEFINE N == TextSize
             skipped == {N} \cup {q \in pos .. N - 1 : text[q] # Space}
             kind == IF Marks(pos, to) = {} THEN "int" ELSE "float"
  <2>1. N \in Nat /\ pos \in 0 .. N - 1 /\ text \in Texts
    BY <1>1, TextAssumption DEF TypeOK, Positions
  <2>2. NumberEnd(pos, N) = to /\ ~BadNumber(pos, to) /\ text[pos] \in {Digit, "-"}
    BY <1>1, <2>1, NumberIsReadWhole
  <2>3. First(skipped) = pos
    <3>1. skipped \in SUBSET Nat /\ pos \in skipped /\ \A q \in skipped : pos <= q
      BY <2>1, <2>2 DEF Digit, Space
    <3> HIDE DEF skipped
    <3>2. First(skipped) \in skipped /\ First(skipped) <= pos
      BY <3>1, FirstIsLeast
    <3>3. \A q \in Nat : pos <= q /\ q <= pos => q = pos
      BY <2>1
    <3> QED BY <3>1, <3>2, <3>3
  <2>4. NextToken(pos, N) = ReadToken(pos, N)
    BY <2>1, <2>3 DEF NextToken
  <2>5. ReadToken(pos, N) = ReadNumber(pos, N)
    BY <2>2 DEF ReadToken, Punctuation, Quote, Digit, Word
  <2>6. ReadNumber(pos, N) = Read(kind, pos, to, to)
    BY <2>2 DEF ReadNumber
  <2> QED BY <2>4, <2>5, <2>6 DEF Read, Token
<1>2. TypeOK => JsonNumbersAreRead
  BY <1>1 DEF JsonNumbersAreRead
<1> QED BY <1>2, TokensStayInside, PTL
=============================================================================
