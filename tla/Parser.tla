------------------------------- MODULE Parser -------------------------------
(***************************************************************************)
(* The parser (src/lib/parser.h) and the segment it writes (store_* of      *)
(* src/lib/segment.h): a context takes one token, or one handle to a value  *)
(* preparsed elsewhere, after the other.                                   *)
(*                                                                         *)
(* The stack is a vector of bytes without types: here it is a sequence of   *)
(* words that know what was pushed, and a pop of something else is the      *)
(* result "mismatch".  Abstracted: a segment is a sequence of cells instead *)
(* of bytes and an offset a number of cells; a token is its kind and where  *)
(* it was read, a cell stores the token instead of its value.  Allocations  *)
(* do not fail here (module ParserThreads).                                 *)
(***************************************************************************)
EXTENDS Integers, Sequences, SequencesExt

CONSTANTS MaxTokens,  \* how many tokens are read at most
          Inputs      \* the kinds of tokens considered

VARIABLES context,   \* the ThsnParserContext and the result of the last call
          read       \* not in the code: the tokens and handles taken so far

(* A number whose text strtod cannot read (it has no digit, or more than    *)
(* 128 characters) is a "bad_float".                                       *)
Scalars     == {"word", "int", "float"}
Punctuation == {"{", "}", "[", "]", ",", ":"}
Kinds       == Scalars \cup Punctuation
                 \cup {"string", "unclosed_string", "bad_float", "eof"}

ASSUME InputsAssumption == MaxTokens \in Nat /\ Inputs \subseteq Kinds

States == {"VALUE", "FINISH", "FIRST_ARRAY_ELEMENT", "NEXT_ARRAY_ELEMENT", "FIRST_KV",
           "KV_COLON", "KV_END", "NEXT_KV"}

Results == {"success", "finished", "input_error", "mismatch"}

(* The words of the stack and the cells of a segment.                      *)
State(s)  == <<"state", s>>
Offset(o) == <<"offset", o>>
Count(n)  == <<"count", n>>

NotWritten == -1   \* whatever realloc left there

Leaf(token)  == [tag |-> "leaf", token |-> token]
Empty(type)  == [tag |-> type, count |-> 0]
Written(type, count, table) == [tag |-> type, count |-> count, table |-> table]
Header(type) == Written(type, NotWritten, NotWritten)
Table(offsets)     == [tag |-> "table", offsets |-> offsets]
ValueHandle(value) == [tag |-> "handle", value |-> value]

----------------------------------------------------------------------------
(* thsn_parser_context_init and the operations on a context.               *)

NewContext ==
  [state |-> "VALUE", stack |-> <<>>, segment |-> <<>>, result |-> "success"]

(* thsn_parser_reset_state and thsn_parser_next_value_offset.              *)
ResetState(c) == [c EXCEPT !.state = "VALUE", !.result = "success"]
NextOffset(c) == Len(c.segment)

Reject(c)         == [c EXCEPT !.result = "input_error"]
Mismatch(c)       == [c EXCEPT !.result = "mismatch"]
GoTo(c, state)    == [c EXCEPT !.state = state]
Store(c, cell)    == [c EXCEPT !.segment = Append(@, cell)]
PushWords(c, words) == [c EXCEPT !.stack = @ \o words]

(* The words on top of the stack are of these kinds.                       *)
TopIs(c, kinds) ==
  /\ Len(kinds) <= Len(c.stack)
  /\ \A k \in 1 .. Len(kinds) :
       c.stack[Len(c.stack) - Len(kinds) + k][1] = kinds[k]

PopState(c) ==
  CASE c.stack = <<>>         -> Reject(c)
    [] TopIs(c, <<"state">>)  -> [c EXCEPT !.state = Last(c.stack)[2],
                                           !.stack = Front(@)]
    [] OTHER                  -> Mismatch(c)

CountsFromZero(c, type) ==
  PushWords(Store(c, Header(type)),
            <<Offset(NextOffset(c)), Offset(NextOffset(c) + 1), Count(0)>>)

(* thsn_parser_store_composite_header: the header is written later, its     *)
(* first element comes right after it.                                     *)
StoreCompositeHeader(c, type) ==
  PushWords(Store(c, Header(type)),
            <<Offset(NextOffset(c)), Offset(NextOffset(c) + 1), Count(1)>>)

AddsNoOffset(c) == [c EXCEPT !.stack = Front(@) \o <<Count(Last(@)[2] + 1)>>]

(* thsn_parser_add_composite_element                                       *)
AddCompositeElement(c) ==
  IF TopIs(c, <<"count">>)
  THEN [c EXCEPT !.stack = Front(@) \o <<Offset(NextOffset(c)), Count(Last(@)[2] + 1)>>]
  ELSE Mismatch(c)

AsPopped(segment, type, header, elements) ==
  [segment EXCEPT ![header + 1] = Written(type, Len(elements), Len(segment))]
    \o [k \in 1 .. 2 |-> Table(Reverse(elements))]

StoresOneTable(segment, type, header, elements) ==
  Append([segment EXCEPT ![header + 1] = Written(type, Len(elements), Len(segment))],
         Table(elements))

(* The segment with the table of a composite's elements stored, an object's *)
(* once more to be sorted later, and the composite's header written.        *)
WithTable(segment, type, header, elements) ==
  LET copies == IF type = "object" THEN 2 ELSE 1
  IN  [segment EXCEPT ![header + 1] = Written(type, Len(elements), Len(segment))]
        \o [k \in 1 .. copies |-> Table(elements)]

(* thsn_parser_store_composite_elements_table: the count, then as many      *)
(* offsets, then the header's offset are popped.                           *)
StoreElementsTable(c, type) ==
  IF ~TopIs(c, <<"count">>) THEN Mismatch(c)
  ELSE LET n    == Last(c.stack)[2]
           rest == Len(c.stack) - n - 2
       IN  IF ~TopIs(c, [k \in 1 .. n + 1 |-> "offset"] \o <<"count">>) THEN Mismatch(c)
           ELSE LET elements == [k \in 1 .. n |-> c.stack[rest + 1 + k][2]]
                IN  [c EXCEPT !.stack = SubSeq(@, 1, rest),
                              !.segment = WithTable(@, type, c.stack[rest + 1][2],
                                                    elements)]

----------------------------------------------------------------------------
(* The handlers, one per state.                                            *)

ParseValue(c, t) ==
  LET done == GoTo(c, "FINISH")
  IN  CASE t.kind = "eof" -> done
        [] t.kind \in Scalars \cup {"string"} -> Store(done, Leaf(t))
        [] t.kind = "[" -> GoTo(c, "FIRST_ARRAY_ELEMENT")
        [] t.kind = "{" -> GoTo(c, "FIRST_KV")
        [] OTHER -> Reject(done)

ParseFirstArrayElement(c, t) ==
  IF t.kind = "]"
  THEN Store(GoTo(c, "FINISH"), Empty("array"))
  ELSE ParseValue(PushWords(StoreCompositeHeader(c, "array"),
                            <<State("NEXT_ARRAY_ELEMENT")>>), t)

ParseNextArrayElement(c, t) ==
  CASE t.kind = "]" -> GoTo(StoreElementsTable(c, "array"), "FINISH")
    [] t.kind = "," -> GoTo(PushWords(AddCompositeElement(c),
                                      <<State("NEXT_ARRAY_ELEMENT")>>), "VALUE")
    [] OTHER -> Reject(c)

ParseFirstKv(c, t) ==
  CASE t.kind = "}" -> Store(GoTo(c, "FINISH"), Empty("object"))
    [] t.kind = "string" -> GoTo(Store(StoreCompositeHeader(c, "object"), Leaf(t)),
                                 "KV_COLON")
    [] OTHER -> Reject(c)

ParseNextKv(c, t) ==
  IF t.kind = "string"
  THEN GoTo(Store(AddCompositeElement(c), Leaf(t)), "KV_COLON")
  ELSE Reject(c)

ParseKvColon(c, t) ==
  IF t.kind = ":" THEN GoTo(PushWords(c, <<State("KV_END")>>), "VALUE") ELSE Reject(c)

ParseKvEnd(c, t) ==
  CASE t.kind = "}" -> GoTo(StoreElementsTable(c, "object"), "FINISH")
    [] t.kind = "," -> GoTo(c, "NEXT_KV")
    [] OTHER -> Reject(c)

Handle(c, t) ==
  CASE c.state = "VALUE"               -> ParseValue(c, t)
    [] c.state = "FIRST_ARRAY_ELEMENT" -> ParseFirstArrayElement(c, t)
    [] c.state = "NEXT_ARRAY_ELEMENT"  -> ParseNextArrayElement(c, t)
    [] c.state = "FIRST_KV"            -> ParseFirstKv(c, t)
    [] c.state = "KV_COLON"            -> ParseKvColon(c, t)
    [] c.state = "KV_END"              -> ParseKvEnd(c, t)
    [] c.state = "NEXT_KV"             -> ParseNextKv(c, t)
    [] c.state = "FINISH"              -> Reject(c)

(* When a value is complete, the parser returns to the composite it is in,  *)
(* or is finished.                                                         *)
AfterHandler(c) ==
  IF c.result # "success" \/ c.state # "FINISH" THEN c
  ELSE IF c.stack = <<>> THEN [c EXCEPT !.result = "finished"]
                         ELSE PopState(c)

(* thsn_parser_parse_next_token                                            *)
ParseNextToken(c, t) == AfterHandler(Handle(c, t))

TakesHandleAnywhere(c, value) == PopState(Store(c, ValueHandle(value)))

(* thsn_parser_add_value_handle                                            *)
AddValueHandle(c, value) ==
  IF c.state = "VALUE" THEN PopState(Store(c, ValueHandle(value))) ELSE Reject(c)

----------------------------------------------------------------------------
Init == context = NewContext /\ read = <<>>

Token(kind) == [kind |-> kind, data |-> Len(read)]

AtEnd == read # <<>> /\ Last(read).kind = "eof"

Take(token) == Len(read) < MaxTokens /\ read' = Append(read, token)

(* The callers go on until the parser is finished or rejects; what follows  *)
(* the end of the input is its end again.                                  *)
NextToken ==
  /\ context.result = "success"
  /\ \E kind \in Inputs :
       /\ AtEnd => kind = "eof"
       /\ Take(Token(kind))
       /\ context' = ParseNextToken(context, Token(kind))

(* In place of a whole composite value, when it was preparsed.             *)
NextHandle ==
  /\ context.result = "success"
  /\ ~AtEnd
  /\ Take(Token("handle"))
  /\ context' = AddValueHandle(context, Token("handle"))

Next == NextToken \/ NextHandle

Spec == Init /\ [][Next]_<<context, read>>

----------------------------------------------------------------------------
(* Properties.                                                             *)

TokenTypes  == [kind : Kinds \cup {"handle"}, data : Nat]
OffsetTypes == 0 .. 2 * MaxTokens
Words == {State(s) : s \in States} \cup {Offset(o) : o \in OffsetTypes}
           \cup {Count(n) : n \in 1 .. MaxTokens}

(* A token costs at most two cells, a header in use is complete.           *)
TypeOK ==
  /\ read \in Seq(TokenTypes) /\ Len(read) <= MaxTokens
  /\ context.state \in States /\ context.result \in Results
  /\ context.stack \in Seq(Words)
  /\ Len(context.segment) <= 2 * Len(read)
  /\ \A k \in DOMAIN context.segment :
       context.segment[k].tag \in {"leaf", "handle", "table", "array", "object"}

(* What the parser expects to pop in a state, if it expects a composite's   *)
(* count.                                                                  *)
TypeOfState == [NEXT_ARRAY_ELEMENT |-> "array", KV_COLON |-> "object",
                KV_END |-> "object", NEXT_KV |-> "object"]

(* Position k of the stack ends the frame of an unfinished composite of     *)
(* this type: its header's offset, the offsets of its elements in rising    *)
(* order, their number; and right under it lies the state to go on with     *)
(* when the composite is complete.                                         *)
IsFrame(stack, segment, k, type) ==
  /\ stack[k][1] = "count"
  /\ LET bottom == k - stack[k][2] - 1
     IN  /\ bottom >= 1
         /\ \A l \in bottom .. k - 1 :
              /\ stack[l][1] = "offset" /\ stack[l][2] <= Len(segment)
              /\ l > bottom => stack[l - 1][2] < stack[l][2]
         /\ segment[stack[bottom][2] + 1] = Header(type)
         /\ bottom = 1 \/ stack[bottom - 1][1] = "state"

(* The untyped stack is always read the way it was written: nothing pops    *)
(* words of another kind, every state on it lies on the frame of the        *)
(* composite that the state is for, and so does the state the parser is in. *)
StackFits ==
  /\ context.result # "mismatch"
  /\ context.result = "success" =>
       LET stack == context.stack
           frame(k, state) ==
             IF state \in DOMAIN TypeOfState
             THEN k >= 1 /\ IsFrame(stack, context.segment, k, TypeOfState[state])
             ELSE k = 0 \/ stack[k][1] = "state"
       IN  /\ frame(Len(stack), context.state)
           /\ \A k \in 1 .. Len(stack) :
                stack[k][1] = "state" => frame(k - 1, stack[k][2])

(* What lies at an offset of a segment: a value, a key, an element of an    *)
(* array or object, the table of a composite's elements.                    *)
HoldsValue(segment, offset) ==
  /\ offset + 1 \in DOMAIN segment
  /\ segment[offset + 1].tag \in {"leaf", "handle", "array", "object"}

HoldsKey(segment, offset) ==
  /\ offset + 1 \in DOMAIN segment
  /\ segment[offset + 1].tag = "leaf" /\ segment[offset + 1].token.kind = "string"

HoldsElement(segment, type, offset) ==
  IF type = "array" THEN HoldsValue(segment, offset)
  ELSE HoldsKey(segment, offset) /\ HoldsValue(segment, offset + 1)

HoldsTable(segment, type, header, table, count) ==
  /\ table + 1 \in DOMAIN segment /\ segment[table + 1].tag = "table"
  /\ LET offsets == segment[table + 1].offsets
     IN  /\ Len(offsets) = count
         /\ \A k \in 1 .. count : /\ HoldsElement(segment, type, offsets[k])
                                 /\ header < offsets[k] /\ offsets[k] < table
         /\ \A k \in 1 .. count - 1 : offsets[k] < offsets[k + 1]

(* The composite whose header is cell k can be read, by its plain table and *)
(* by the one to be sorted.                                                *)
IsReadable(segment, k) ==
  LET cell == segment[k]
  IN  cell.tag \in {"array", "object"} /\ cell.count # 0 =>
        \A copy \in 0 .. IF cell.tag = "object" THEN 1 ELSE 0 :
          HoldsTable(segment, cell.tag, k - 1, cell.table + copy, cell.count)

(* A parser that finishes leaves no header unwritten and no element out of  *)
(* place, however composites are nested: each header leads to a table of as *)
(* many elements as it counts, which are values, or keys followed by their  *)
(* values, in the order they came, all of them between the header and the   *)
(* table, so that reading goes round in no circle.                          *)
FinishedIsReadable ==
  context.result = "finished" =>
    \A k \in DOMAIN context.segment : IsReadable(context.segment, k)
=============================================================================
