------------------------------ MODULE Tokenizer ------------------------------
(***************************************************************************)
(* thsn_next_token (src/lib/tokenizer.h): the tokens of a piece of text,    *)
(* read one after the other.  The text is an array of characters, a piece   *)
(* of it a position to read from and one to stop before.                    *)
(*                                                                         *)
(* Abstracted: one digit, one white space and one character "a" that begins *)
(* no token stand for all of their kind; the words null, true and false are *)
(* one word of two characters, enough for a piece to end inside it; "e" is  *)
(* also 'E'.  What a string or number says is left out, where it ends is    *)
(* not.                                                                    *)
(***************************************************************************)
EXTENDS Integers, FiniteSets

CONSTANTS TextSize,   \* the number of characters of the text
          Alphabet    \* the characters that may occur in it

Quote == "quote"
Slash == "backslash"
Space == "space"
Digit == "0"
Word  == <<"n", "u">>
Punctuation == {"{", "}", "[", "]", ",", ":"}
Characters  == Punctuation \cup {Quote, Slash, Space, Digit, "-", "+", ".", "e",
                                 "n", "u", "a"}

ASSUME TextAssumption == TextSize \in Nat /\ Alphabet \subseteq Characters

VARIABLES text,   \* the characters, never changed
          pos,    \* where the unread rest of the text begins (buffer_slice)
          token   \* the token read last

Positions == 0 .. TextSize
Texts     == [0 .. TextSize - 1 -> Alphabet]
Kinds     == Punctuation \cup {"eof", "word", "int", "float", "string",
                               "unclosed_string", "error"}
Tokens    == [kind : Kinds, data : Positions, size : Positions]

First(S) == CHOOSE p \in S : \A q \in S : p <= q

----------------------------------------------------------------------------
(* Strings.                                                                *)

(* The backslashes right before q, counted backwards, not beyond `from`:    *)
(* the code stops there or at the last escaped quote, whichever is later,   *)
(* and no run of backslashes reaches across a quote.                        *)
SlashesAnywhere(from, q) == Cardinality({k \in from .. q - 1 : text[k] = Slash})
Slashes(from, q) ==
  Cardinality({k \in from .. q - 1 : \A l \in k .. q - 1 : text[l] = Slash})

Escaped(from, q) == Slashes(from, q) % 2 = 1

ClosingQuotes(from, end) ==
  {q \in from .. end - 1 : text[q] = Quote /\ ~Escaped(from, q)}

(* Where the text goes on after the string that `from` lies in.            *)
AfterString(from, end) ==
  IF ClosingQuotes(from, end) = {} THEN end ELSE First(ClosingQuotes(from, end)) + 1

----------------------------------------------------------------------------
(* Numbers.  A sign is part of one right after its exponent begins.         *)

Continues(q) == \/ text[q] \in {Digit, ".", "e"}
                \/ text[q] \in {"-", "+"} /\ text[q - 1] = "e"

NumberEnd(p, end) == First({end} \cup {q \in p + 1 .. end - 1 : ~Continues(q)})

(* A second point or exponent, a point in the exponent, or a last sign.     *)
Marks(p, n) == {q \in p + 1 .. n - 1 : text[q] \in {".", "e"}}

BadAnyRepeat(p, n) == Cardinality(Marks(p, n)) > 1 \/ text[n - 1] \in {"-", "+"}
BadNumber(p, n) ==
  \/ \E q, r \in Marks(p, n) : q < r /\ (text[r] = "." \/ text[r] = text[q])
  \/ text[n - 1] \in {"-", "+"}

----------------------------------------------------------------------------
(* The token that begins at p, the text ending before `end`, and the next   *)
(* position to read from.  The quotes are not part of a string's token.     *)

Token(kind, from, to) == [kind |-> kind, data |-> from, size |-> to - from]
Read(kind, from, to, next) == [token |-> Token(kind, from, to), next |-> next]
ReadError(p) == Read("error", p, p + 1, p + 1)

ReadString(p, end) ==
  LET after == AfterString(p + 1, end)
  IN  IF ClosingQuotes(p + 1, end) = {} THEN Read("unclosed_string", p + 1, end, end)
                                        ELSE Read("string", p + 1, after - 1, after)

ReadNumber(p, end) ==
  LET n == NumberEnd(p, end)
      kind == IF Marks(p, n) = {} THEN "int" ELSE "float"
  IN  IF BadNumber(p, n) THEN ReadError(p) ELSE Read(kind, p, n, n)

ReadWordUnchecked(p, end) == Read("word", p, p + 2, p + 2)
ReadWord(p, end) ==
  IF p + 1 < end /\ text[p + 1] = Word[2] THEN Read("word", p, p + 2, p + 2)
                                          ELSE ReadError(p)

ReadToken(p, end) ==
  CASE text[p] \in Punctuation -> Read(text[p], p, p + 1, p + 1)
    [] text[p] = Quote         -> ReadString(p, end)
    [] text[p] \in {Digit, "-"} -> ReadNumber(p, end)
    [] text[p] = Word[1]       -> ReadWord(p, end)
    [] OTHER                   -> ReadError(p)

(* thsn_next_token: white space is skipped; EOF has no characters.          *)
NextToken(from, end) ==
  LET p == First({end} \cup {q \in from .. end - 1 : text[q] # Space})
  IN  IF p = end THEN Read("eof", 0, 0, end) ELSE ReadToken(p, end)

----------------------------------------------------------------------------
Init ==
  /\ text \in Texts
  /\ pos = 0
  /\ token = Token("eof", 0, 0)

(* A caller stops at the first error and at the end of the text.           *)
Next ==
  /\ token.kind # "error" /\ (token.kind = "eof" => pos = 0)
  /\ LET read == NextToken(pos, TextSize)
     IN  token' = read.token /\ pos' = read.next
  /\ UNCHANGED text

Spec == Init /\ [][Next]_<<text, pos, token>>

----------------------------------------------------------------------------
(* Properties.                                                             *)

(* Every token lies in the text, and so does the unread rest.              *)
TypeOK == text \in Texts /\ pos \in Positions /\ token \in Tokens

(* The reference for strings: read forwards, a backslash outside of an      *)
(* escape begins one, and a quote outside of an escape ends the string.     *)
(* escaping[p] says that p is the second character of an escape, in a       *)
(* string whose first character is at `from`.                               *)
EndsForwards(from) ==
  LET escaping[p \in from .. TextSize] ==
        p > from /\ text[p - 1] = Slash /\ ~escaping[p - 1]
  IN  {p \in from .. TextSize - 1 : text[p] = Quote /\ ~escaping[p]}

(* A string ends where reading it forwards, escape by escape, ends it, and  *)
(* is unclosed when that does not end it: counting the backslashes back     *)
(* from a quote comes to the same, however many escaped backslashes and     *)
(* quotes there are.                                                       *)
StringsEndForwards ==
  /\ token.kind = "string" => pos = First(EndsForwards(token.data)) + 1
  /\ token.kind = "unclosed_string" => EndsForwards(token.data) = {}

(* The reference for numbers: -? digits, a fraction, an exponent, the last  *)
(* two only if they are there.                                             *)
AllDigits(from, to) == from < to /\ \A q \in from .. to - 1 : text[q] = Digit

IsExponent(from, to) ==
  \/ from = to
  \/ /\ from + 1 < to /\ text[from] = "e"
     /\ \/ AllDigits(from + 1, to)
        \/ text[from + 1] \in {"-", "+"} /\ AllDigits(from + 2, to)

IsFraction(from, to) ==
  from = to \/ (from < to /\ text[from] = "." /\ AllDigits(from + 1, to))

IsJsonNumber(from, to) ==
  \E digits \in {from, from + 1} :
    \E fraction, exponent \in digits + 1 .. to :
      /\ digits = from \/ text[from] = "-"
      /\ fraction <= exponent /\ AllDigits(digits, fraction)
      /\ IsFraction(fraction, exponent) /\ IsExponent(exponent, to)

(* Where the unread text begins with a JSON number and then something that  *)
(* cannot be part of one, that number is the next token, whole.             *)
JsonNumbersAreRead ==
  \A to \in pos + 1 .. TextSize :
    (/\ IsJsonNumber(pos, to)
     /\ to < TextSize => text[to] \notin {Digit, ".", "e"})
      => /\ NextToken(pos, TextSize).token.kind \in {"int", "float"}
         /\ NextToken(pos, TextSize).next = to
=============================================================================
