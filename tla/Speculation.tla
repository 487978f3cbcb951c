---------------------------- MODULE Speculation ----------------------------
(***************************************************************************)
(* What the preparsing of chunks (src/lib/parser_threads.c) does to a       *)
(* document: the text is cut into chunks at any character, every chunk but  *)
(* the first is preparsed as if it began inside a string and as if it did   *)
(* not, and the main parse of the whole text puts a handle wherever it      *)
(* meets the beginning of a value that the chosen preparsing has listed.    *)
(*                                                                         *)
(* It is checked against thsn_document_parse, which does without: module    *)
(* ParserThreads has the threads, their memory and any tables whatever,     *)
(* this one has the tables that come out of a text.  So a preparsing is one *)
(* operator here, and one iteration of the main loop one step.              *)
(***************************************************************************)
EXTENDS Integers, Sequences

CONSTANTS TextSize,      \* the number of characters of the text
          TextStarts,    \* how it may begin, and what characters may follow
          ThreadsCount   \* the number of chunks

ASSUME SizesAssumption == ThreadsCount \in 1 .. TextSize

VARIABLES text, pos, token,   \* see Tokenizer
          context,            \* of the main parse, see Parser
          cursor,             \* the ThsnPreparseIterator
          segments            \* per chunk: the segment of the chosen preparsing

vars == <<text, pos, token, context, cursor, segments>>

T == INSTANCE Tokenizer WITH Alphabet <- {}
P == INSTANCE Parser WITH read <- <<>>, MaxTokens <- 0, Inputs <- {}
J == INSTANCE Json WITH MaxLength <- 0

Chunks   == 0 .. ThreadsCount - 1
Size     == TextSize \div ThreadsCount
Begin(t) == IF t = 0 THEN 0 ELSE TextSize - (ThreadsCount - t) * Size
End(t)   == TextSize - (ThreadsCount - 1 - t) * Size

Opening == {"[", "{"}

----------------------------------------------------------------------------
(* Preparsing: from p, in a chunk that stops before `end`.                  *)

(* The parser with the tokens from p on, until the value it is in is        *)
(* complete or something is wrong.                                         *)
ParseToken(c, t) == IF t.kind = "error" THEN P!Reject(c) ELSE P!ParseNextToken(c, t)

RECURSIVE ParseOn(_, _, _)
GoOn(c, p, end) ==
  IF c.result = "success" THEN ParseOn(p, end, c) ELSE [context |-> c, pos |-> p]

ParseOn(p, end, c) ==
  LET r == T!NextToken(p, end) IN GoOn(ParseToken(c, r.token), r.next, end)

(* A ThsnPreparsedValue: the characters of a value, and where it is stored. *)
Listed(p, before, after) ==
  [data |-> p, size |-> after.pos - p, offset |-> P!NextOffset(before)]

(* thsn_preparse_buffer: whatever is not an opening bracket is skipped; the *)
(* first token that cannot be read, or value that cannot be completed, ends *)
(* the preparsing with what was found so far.                              *)
Job(c, table) == [segment |-> c.segment, table |-> table]

RECURSIVE PreparseBuffer(_, _, _, _)
PreparseValue(after, at, end, c, table) ==
  IF after.context.result # "finished" THEN Job(after.context, table)
  ELSE PreparseBuffer(after.pos, end, P!ResetState(after.context),
                      Append(table, Listed(at, c, after)))

PreparseToken(r, end, c, table) ==
  CASE r.token.kind \in {"error", "eof"} -> Job(c, table)
    [] r.token.kind \in Opening -> PreparseValue(ParseOn(r.token.data, end, c),
                                                r.token.data, end, c, table)
    [] OTHER -> PreparseBuffer(r.next, end, c, table)

PreparseBuffer(p, end, c, table) == PreparseToken(T!NextToken(p, end), end, c, table)

(* One of the two preparsings of thsn_preparse_thread.                     *)
Preparsed(t, in_string) ==
  PreparseBuffer(IF in_string THEN T!AfterString(Begin(t), End(t)) ELSE Begin(t),
                 End(t), P!NewContext, <<>>)

----------------------------------------------------------------------------
(* The cursor over the tables.                                             *)

NoValue == [data |-> -1, size |-> 0, offset |-> 0]

AtTable(t, table) ==
  IF table = <<>> THEN [chunk |-> t, value |-> NoValue, table |-> <<>>]
                  ELSE [chunk |-> t, value |-> Head(table), table |-> Tail(table)]

(* thsn_pp_iter_advance_to_char: moves to the chunk of point, if that is a  *)
(* later one, and to the table of the preparsing that was chosen for it.    *)
Enter(t, job) == [cursor |-> AtTable(t, job.table),
                  segments |-> [segments EXCEPT ![t] = job.segment]]

Advanced(point, in_string) ==
  CASE point < End(cursor.chunk) -> [cursor |-> cursor, segments |-> segments]
    [] point >= TextSize -> [cursor |-> AtTable(ThreadsCount - 1, <<>>),
                             segments |-> segments]
    [] OTHER ->
         LET t == CHOOSE u \in Chunks : Begin(u) <= point /\ point < End(u)
         IN  Enter(t, Preparsed(t, in_string))

(* The rest of thsn_pp_iter_find_value_at, for a cursor c in the chunk of   *)
(* point: the entries before point are passed.                             *)
RECURSIVE PassBefore(_, _)
PassBefore(c, point) ==
  IF c.value = NoValue \/ point <= c.value.data \/ c.table = <<>> THEN c
  ELSE PassBefore(AtTable(c.chunk, c.table), point)

----------------------------------------------------------------------------
(* The main parse, one iteration of its loop at a time.                    *)

Init ==
  /\ \E b \in TextStarts : \E rest \in [Len(b.text) .. TextSize - 1 -> b.alphabet] :
       text = [k \in 0 .. TextSize - 1 |-> IF k < Len(b.text) THEN b.text[k + 1] ELSE rest[k]]
  /\ pos = 0 /\ token = T!Token("eof", 0, 0)
  /\ context = P!NewContext
  /\ cursor = [chunk |-> 0, value |-> NoValue, table |-> <<>>]
  /\ segments = [t \in Chunks |-> <<>>]

Parsing == context.result = "success"

Reading(kinds) ==
  /\ Parsing
  /\ token' = T!NextToken(pos, TextSize).token
  /\ token'.kind \in kinds
  /\ UNCHANGED text

AfterToken == T!NextToken(pos, TextSize).next

MovesCursor(advanced) == cursor' = advanced.cursor /\ segments' = advanced.segments

(* thsn_next_token fails.                                                  *)
TokenError ==
  /\ Reading({"error"})
  /\ pos' = AfterToken
  /\ context' = P!Reject(context)
  /\ UNCHANGED <<cursor, segments>>

(* A string moves the cursor to the character after its closing quote; the  *)
(* preparsing that began in a string is chosen if that is in a new chunk.   *)
TokenString ==
  /\ Reading({"string"})
  /\ pos' = AfterToken
  /\ MovesCursor(Advanced(AfterToken, TRUE))
  /\ context' = P!ParseNextToken(context, token')

TokenOther ==
  /\ Reading(T!Kinds \ ({"error", "string"} \cup Opening))
  /\ pos' = AfterToken
  /\ context' = P!ParseNextToken(context, token')
  /\ UNCHANGED <<cursor, segments>>

SkipsOneLess(value) == value.data + value.size - 1
SkipsOneMore(value) == value.data + value.size + 1
AfterValue(value) == value.data + value.size

(* thsn_pp_iter_find_value_at for an opening bracket.                      *)
FindValueAt(point) ==
  LET advanced == Advanced(point, FALSE)
  IN  MovesCursor([advanced EXCEPT !.cursor = PassBefore(@, point)])

Found == cursor'.value.data = token'.data

(* The value that an opening bracket begins is not listed: it is parsed,    *)
TokenOpen ==
  /\ Reading(Opening)
  /\ FindValueAt(token'.data) /\ ~Found
  /\ pos' = AfterToken
  /\ context' = P!ParseNextToken(context, token')

(* or it is: it is skipped and a handle to it put in its place.             *)
SkipValue ==
  /\ Reading(Opening)
  /\ FindValueAt(token'.data) /\ Found
  /\ pos' = AfterValue(cursor'.value)
  /\ context' = P!AddValueHandle(context, <<cursor'.chunk, cursor'.value.offset>>)

Next == TokenError \/ TokenString \/ TokenOther \/ TokenOpen \/ SkipValue

Spec == Init /\ [][Next]_vars

----------------------------------------------------------------------------
(* Properties.                                                             *)

(* The reference: thsn_document_parse, from the beginning of the text.      *)
Sequential == ParseOn(0, TextSize, P!NewContext)

(* What a document of one segment or, following the handles, of several     *)
(* says; the document of an empty text has an empty segment.                *)
TokensOf(segment, offset, Follow(_)) == J!TokensAt(segment, offset, 0, Follow)
NoHandles(value) == <<"handle in a preparsed segment">>
Says(root, Follow(_)) == IF root = <<>> THEN <<>> ELSE TokensOf(root, 0, Follow)

(* The offset at which the main parse goes on stays in the text, the cursor *)
(* on a chunk, and no segment is there before its chunk was entered.        *)
TypeOK ==
  /\ pos \in 0 .. TextSize /\ token \in T!Tokens
  /\ context.state \in P!States /\ context.result \in P!Results \ {"mismatch"}
  /\ cursor.chunk \in Chunks
  /\ \A t \in Chunks : segments[t] # <<>> => t \in 1 .. cursor.chunk

(* A document parsed with preparsed chunks is the document parsed without:  *)
(* thsn_document_parse succeeds on the text as well, stops at the same      *)
(* character, and following the handles gives the same tokens in the same   *)
(* order; wherever the chunks begin, inside strings or escapes, and however *)
(* wrong a preparsing went.                                                *)
SameDocument ==
  context.result = "finished" =>
    /\ Sequential.context.result = "finished" /\ Sequential.pos = pos
    /\ Says(context.segment,
            LAMBDA value : TokensOf(segments[value[1]], value[2], NoHandles))
         = Says(Sequential.context.segment, NoHandles)

(* A document that thsn_document_parse accepts is only ever rejected        *)
(* because the parser takes no handle where a value is listed: for the      *)
(* first element of an array, or for the document's root.                   *)
RejectsOnlyHandles ==
  context.result = "input_error" /\ Sequential.context.result = "finished" =>
    /\ token.kind \in Opening /\ cursor.value.data = token.data
    /\ context.state = "FIRST_ARRAY_ELEMENT" \/ context.stack = <<>>

(* A document is accepted with preparsed chunks exactly if it is without.   *)
AcceptsSameDocuments ==
  context.result # "success" =>
    (context.result = "finished" <=> Sequential.context.result = "finished")
=============================================================================
