---------------------------- MODULE MCDocuments ----------------------------
(***************************************************************************)
(* Module Formatter with the texts it is checked with: the tokens of trees, *)
(* some of whose composites were parsed by other threads, and what a visit  *)
(* of them calls and the program prints.                                   *)
(***************************************************************************)
EXTENDS Formatter

Null      == <<"null", "null">>
Bool(b)   == <<"bool", b>>
Number(n) == <<"number", n>>
String(s) == <<"string", s>>

Array(values) ==
  <<"array", [k \in DOMAIN values |-> [key |-> <<>>, value |-> values[k]]]>>

(* Keys and values in turn.                                                *)
Object(members) ==
  <<"object", [k \in 1 .. (Len(members) \div 2) |->
                 [key |-> members[2 * k - 1], value |-> members[2 * k]]]>>

(* An object with numbers for these keys, in this order.                   *)
Numbered(keys) ==
  <<"object", [k \in DOMAIN keys |-> [key |-> keys[k], value |-> Number(k)]]>>

----------------------------------------------------------------------------
Token(kind, data) == [kind |-> kind, data |-> data]

Punctuation(kind) == <<Token(kind, <<>>)>>

Digits(n) == IF n < 10 THEN <<48 + n>> ELSE <<48 + (n \div 10), 48 + (n % 10)>>

(* The number with a point in its text: the others are integers.           *)
Pi == 314

(* An integer is one whatever its length: the tokenizer tells numbers apart *)
(* by a point or an exponent and never by how many digits they have.       *)
ScalarToken(value) ==
  CASE value[1] = "null"   -> Token("word", "null")
    [] value[1] = "bool"   -> Token("word", IF value[2] THEN "true" ELSE "false")
    [] value[1] = "string" -> Token("string", value[2])
    [] value[1] = "number" ->
         CASE value[2] = Pi -> Token("float", value[2])
           [] value[2] < 0  -> Token("int", <<Minus>> \o Digits(-value[2]))
           [] OTHER         -> Token("int", Digits(value[2]))

RECURSIVE Tokens(_, _)
Tokens(value, preparsed) ==
  LET opening  == IF value[1] = "array" THEN "[" ELSE "{"
      closing  == IF value[1] = "array" THEN "]" ELSE "}"
      elements == value[2]
      element(k) ==
        (IF k = 1 THEN <<>> ELSE Punctuation(","))
          \o (IF value[1] = "array" THEN <<>>
              ELSE <<Token("string", elements[k].key)>> \o Punctuation(":"))
          \o (IF elements[k].value \in preparsed /\ (value[1] = "object" \/ k > 1)
              THEN <<Token("preparsed", Tokens(elements[k].value, {}))>>
              ELSE Tokens(elements[k].value, preparsed))
  IN  IF value[1] \in Scalars THEN <<ScalarToken(value)>>
      ELSE Punctuation(opening)
             \o FlattenSeq([k \in DOMAIN elements |-> element(k)])
             \o Punctuation(closing)

----------------------------------------------------------------------------
(* Keys that are empty, that are prefixes of one another, that are equal.   *)
a == 97
b == 98
TheKeys == {<<>>, <<a>>, <<a, a>>, <<a, b>>, <<b>>, <<b, a>>, <<b, b>>}

Nested ==
  LET inner == Object(<<<<b>>, Null, <<a>>, Number(-9)>>)
      list  == Array(<<Number(7), inner, Array(<<>>)>>)
  IN  Object(<<<<b>>, list, <<a>>, inner, <<b>>, Bool(FALSE)>>)

List ==
  Array(<<Array(<<Bool(TRUE)>>), Object(<<>>), String(<<a>>),
          Array(<<Array(<<Null>>)>>), Array(<<Number(Pi)>>)>>)

Lookups ==
  <<Numbered(<<<<a>>>>),
    Numbered(<<<<b>>, <<a>>>>),
    Numbered(<<<<a, a>>, <<>>, <<a>>>>),
    Numbered(<<<<b>>, <<a>>, <<b>>, <<a>>>>),
    Numbered(<<<<b, b>>, <<b>>, <<a>>, <<a, b>>, <<a, a>>>>),
    Numbered(<<<<b, b>>, <<a, a>>, <<b>>, <<>>, <<b, a>>, <<a, b>>, <<a>>>>)>>

Text(value, preparsed, slots) ==
  [tree |-> value, tokens |-> Tokens(value, preparsed) \o Punctuation("eof"),
   slots |-> slots]

(* Texts that are empty, or end too early.                                 *)
Cut(tokens) ==
  [tree |-> Missing, tokens |-> tokens \o Punctuation("eof"), slots |-> {}]

IntegerTexts(first, last) ==
  [k \in 1 .. last - first + 1 |-> Text(Number(first + k - 1), {}, {})]

(* Every integer of the longest width is the text of a document.  Longer    *)
(* ones are in LongIntegers.                                               *)
TheTexts ==
  LET list  == Nested[2][1].value
      inner == Nested[2][2].value
      late  == {List[2][k].value : k \in {2, 4, 5}}
  IN  <<Text(Nested, {}, {1}), Text(Nested, {inner}, {1}), Text(Nested, {list}, {1}),
        Text(Nested, {inner, list}, {1}),
        Text(List, {}, {1}), Text(List, late, {1, 2}),
        Cut(<<>>), Cut(Punctuation("[") \o Punctuation("[") \o Punctuation("]"))>>
      \o [k \in DOMAIN Lookups |-> Text(Lookups[k], {}, IF k \in 2 .. 4 THEN {1, 2} ELSE {1})]
      \o IntegerTexts(Minimum(4), Maximum(4))

(* Integers of two digits, of which those of the longest width are a part.  *)
LongIntegers == IntegerTexts(-99, 99)

TheBits == <<3, 4, 5, 6>>

TheVisitors ==
  {[vtable |-> Callbacks, answers |-> Answers],
   [vtable |-> Callbacks \ Starts, answers |-> {"CONTINUE", "SKIP"}],
   [vtable |-> {}, answers |-> Answers]}

----------------------------------------------------------------------------
(* Properties.                                                             *)

Expected(call, at, skip) == <<[call |-> call, context |-> at, skip |-> skip]>>

(* The walks of a tree by a visitor who skips some of its composites.       *)
RECURSIVE Walks(_, _), WalksOfElements(_, _, _)
Walks(value, at) ==
  LET type  == value[1]
      start(skip) == Expected(<<StartOf[type]>>, at, skip)
      end   == Expected(<<EndOf[type]>>, at, FALSE)
  IN  CASE value = Missing -> {<<>>}
        [] type \in Scalars -> {Expected(value, at, FALSE)}
        [] OTHER -> {start(TRUE)}
                      \cup {start(FALSE) \o walk \o end :
                              walk \in WalksOfElements(type, value[2], 1)}

WalksOfElements(type, elements, k) ==
  IF k > Len(elements) THEN {<<>>}
  ELSE LET at == [key       |-> elements[k].key,
                  in_array  |-> type = "array",
                  in_object |-> type = "object",
                  last      |-> k = Len(elements)]
       IN  {walk \o rest : walk \in Walks(elements[k].value, at),
                           rest \in WalksOfElements(type, elements, k + 1)}

(* The callbacks are those of a walk through the tree of the text, in the   *)
(* order of the text and each with the context of its value, no matter what *)
(* they skip and what they sort; a visit that is not aborted makes all.    *)
VisitsInOrder ==
  \E walk \in Walks(tree, Outside) :
    LET expected == SelectSeq(walk, LAMBDA call : call.call[1] \in visitor.vtable)
    IN  IsPrefix(calls, expected) /\ (pc = "done" => calls = expected)

(* The lines of a value that is the last of `length` elements or an earlier *)
(* one, or is the whole text.                                              *)
RECURSIVE Spelled(_, _, _, _)
Spelled(value, depth, key, comma) ==
  IF value[1] \in Scalars THEN <<PrintedLine(depth, key, value, comma)>>
  ELSE LET elements == value[2]
           inner    == [k \in DOMAIN elements |->
                          Spelled(elements[k].value, depth + 1,
                                  IF value[1] = "array" THEN NoKey ELSE <<elements[k].key>>,
                                  k < Len(elements))]
       IN  <<PrintedLine(depth, key, <<StartOf[value[1]]>>, FALSE)>> \o FlattenSeq(inner)
             \o <<PrintedLine(depth, NoKey, <<EndOf[value[1]]>>, comma)>>

(* A text that is printed to the end is printed with all of its values and  *)
(* keys in order, indented by how deep they are, with a comma after all     *)
(* elements but the last.  The integers of the texts fit a long long (in    *)
(* TheTexts): of longer ones IntegersAreKept says the same, and is wrong.  *)
PrintsDocument == main = "exited_0" => lines = Spelled(tree, 0, NoKey, FALSE)

(* A text that is a number is printed as that number, however long it is:   *)
(* nothing overflows while it is read (README.md:8 of the code claims that  *)
(* there is no undefined behaviour).                                       *)
IntegersAreKept ==
  main = "exited_0" /\ tree[1] = "number"
    => lines = <<PrintedLine(0, NoKey, tree, FALSE)>>
=============================================================================
