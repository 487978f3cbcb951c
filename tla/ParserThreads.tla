--------------------------- MODULE ParserThreads ---------------------------
(***************************************************************************)
(* thsn_document_parse_multithreaded (src/lib/parser_threads.c): the        *)
(* caller cuts the input into chunks, one detached thread per chunk but the *)
(* first preparses it twice (the chunk may start inside a string or outside *)
(* of one), and the caller parses the whole input, jumping over every       *)
(* composite value that it finds already preparsed.                         *)
(*                                                                         *)
(* Modelled: who owns which memory block and when it is freed, the release  *)
(* and acquire of the completion flags, the choice of a scenario per chunk, *)
(* the cursor over the preparsed tables, the handles put into the document  *)
(* and every error path.  Abstracted: the text (the next token may be any   *)
(* that fits, a table any that fits into its chunk) and the parser's state  *)
(* (it may accept or reject, module Parser); offsets of the input stand for *)
(* pointers into it.                                                        *)
(***************************************************************************)
EXTENDS Integers, FiniteSets

CONSTANTS JsonSize,           \* bytes of input
          ThreadsCount,       \* the caller's threads_count
          MinThreadSliceSize, \* MIN_THREAD_SLICE_SIZE
          Uint8Values,        \* 2^8: the values a uint8_t holds
          PreparseOutcomes    \* the outcomes of thsn_preparse_buffer considered

(* What a call of thsn_preparse_buffer leaves allocated, by its outcome,    *)
(* and which of that it publishes in parsing_results.  It fails exactly     *)
(* when it publishes no table.  Only "preparsed" does without an allocation *)
(* failure: "no_x" is a failed malloc of x, "x_grow" a failed realloc of x, *)
(* where thsn_vector_grow overwrites its only pointer to the old block.     *)
LeftAllocated ==
  [preparsed    |-> {"segment", "table"},
   no_table     |-> {},
   no_stack     |-> {"table"},
   no_segment   |-> {"table", "stack"},
   table_grow   |-> {"table"},
   segment_grow |-> {"segment", "table"},
   stack_grow   |-> {"segment", "table", "stack"}]

Published ==
  [preparsed    |-> {"segment", "table"},
   no_table     |-> {},
   no_stack     |-> {},
   no_segment   |-> {},
   table_grow   |-> {},
   segment_grow |-> {"table"},
   stack_grow   |-> {"segment", "table"}]

ASSUME SizesAssumption ==
  /\ JsonSize \in Nat
  /\ ThreadsCount \in Nat \ {0}
  /\ MinThreadSliceSize \in Nat \ {0}
  /\ Uint8Values \in Nat \ {0, 1}

ASSUME OutcomesAssumption == PreparseOutcomes \subseteq DOMAIN Published

VARIABLES
  pc,               \* where the calling thread is
  i,                \* its loop counter
  current_offset,   \* first byte not yet given to a chunk
  subbuffer_size,   \* size of the chunks after the first one
  threads_created,
  slice,            \* subbuffer_slice of every thread context
  chunk_no,         \* chunk_no of every thread context
  pp_scenario,      \* pp_scenario of every thread context
  thread_pc,        \* where every preparsing thread is
  completed,        \* the jobs whose completion flag is set
  failed,           \* the jobs whose failed flag is set
  segment,          \* per job: the published segment pointer
  pp_table,         \* per job: the published table pointer
  entries,          \* per job: the preparsed values its table lists
  live,             \* the allocated memory blocks
  misused,          \* the blocks freed while they were not allocated
  buffer_pos,       \* offset of the unread rest of the input
  token,            \* the token being handled
  point,            \* where that token puts the cursor
  current,          \* iterator: index of its current context
  unread,           \* iterator: the rest of its current table
  pp_value,         \* iterator: the table entry read last
  handles,          \* the handles stored in the main segment
  segment_count,    \* the document's number of segments
  segments,         \* the document's segment pointers
  result            \* what the call returned

callerVars == <<pc, i, token, point, buffer_pos, result>>
layoutVars == <<current_offset, subbuffer_size, threads_created, slice, chunk_no>>
jobVars    == <<thread_pc, completed, failed, segment, pp_table, entries>>
heapVars   == <<live, misused>>
cursorVars == <<current, unread, pp_value, pp_scenario>>
docVars    == <<handles, segment_count, segments>>
vars == <<callerVars, layoutVars, jobVars, heapVars, cursorVars, docVars>>

----------------------------------------------------------------------------
(* Chunks, jobs and memory blocks.                                         *)

(* The number of chunks: no chunk is shorter than MIN_THREAD_SLICE_SIZE,    *)
(* unless there is only one.                                                *)
EffectiveThreads ==
  LET most == JsonSize \div MinThreadSliceSize
  IN  IF most >= ThreadsCount THEN ThreadsCount ELSE IF most = 0 THEN 1 ELSE most

Contexts   == 0 .. EffectiveThreads - 1
Preparsers == 1 .. EffectiveThreads - 1

NotInString == "not_in_string"
InString    == "in_string"
Scenarios   == {NotInString, InString}

(* A job is one preparsing of one chunk; the caller's own parse of the      *)
(* whole input has a job too, for its blocks.                               *)
Jobs    == Preparsers \X Scenarios
MainJob == <<0, NotInString>>

Block(kind, job) == <<kind, job[1], job[2]>>
Document         == Block("document", MainJob)
ThreadContexts   == Block("contexts", MainJob)
Blocks == {Document, ThreadContexts}
            \cup {Block(kind, job) : kind \in {"segment", "table", "stack"},
                                     job \in Jobs \cup {MainJob}}

(* A pointer is the set of blocks it points to: {} is NULL.                 *)
Allocate(pointer) == live' = live \cup pointer /\ UNCHANGED misused

Free(pointer) == /\ live' = live \ pointer
                 /\ misused' = misused \cup (pointer \ live)

Slices       == [data : 0 .. JsonSize, size : 0 .. JsonSize]
EmptySlice   == [data |-> 0, size |-> 0]
SliceEnd(s)  == s.data + s.size
BufferLeft   == JsonSize - current_offset

SubbufferSize == JsonSize \div EffectiveThreads

(* The first chunk also gets the bytes that the division leaves over.       *)
RemainderDropped == SubbufferSize
FirstChunkSize == JsonSize - SubbufferSize * (EffectiveThreads - 1)

(* The blocks thsn_document_free finds in the document.                     *)
SegmentBlocks == UNION {segments[t] : t \in {u \in Contexts : u < segment_count}}

Init ==
  /\ pc = "call" /\ i = 1 /\ token = "none" /\ point = 0 /\ buffer_pos = 0
  /\ result = "none"
  /\ current_offset = 0 /\ subbuffer_size = 0 /\ threads_created = 0
  /\ slice = [t \in Contexts |-> EmptySlice] /\ chunk_no = [t \in Contexts |-> 0]
  /\ thread_pc = [t \in Preparsers |-> "absent"] /\ completed = {} /\ failed = {}
  /\ segment = [j \in Jobs |-> {}] /\ pp_table = [j \in Jobs |-> {}]
  /\ entries = [j \in Jobs |-> {}]
  /\ live = {} /\ misused = {}
  /\ current = 0 /\ unread = {} /\ pp_value = EmptySlice
  /\ pp_scenario = [t \in Contexts |-> NotInString]
  /\ handles = {} /\ segment_count = 0 /\ segments = [t \in Contexts |-> {}]

----------------------------------------------------------------------------
(* The calling thread: cutting the input and starting the threads.         *)

(* The document and the thread contexts are allocated, the first chunk is   *)
(* cut.  The document's number of segments goes through a uint8_t.          *)
Call ==
  /\ pc = "call" /\ pc' = "create" /\ i' = 1
  /\ Allocate({Document, ThreadContexts})
  /\ segment_count' = EffectiveThreads % Uint8Values
  /\ subbuffer_size' = SubbufferSize
  /\ current_offset' = FirstChunkSize
  /\ slice' = [slice EXCEPT ![0] = [data |-> 0, size |-> FirstChunkSize]]
  /\ UNCHANGED <<threads_created, chunk_no, token, point, buffer_pos, result,
                 jobVars, cursorVars, handles, segments>>

AllocateFails ==
  /\ pc = "call" /\ pc' = "returned" /\ result' = "error"
  /\ UNCHANGED <<i, token, point, buffer_pos, layoutVars, jobVars, heapVars,
                 cursorVars, docVars>>

NextSize == IF BufferLeft <= subbuffer_size THEN BufferLeft ELSE subbuffer_size

(* The context of thread i is filled in before the thread is created.      *)
FillContext ==
  /\ pc = "create" /\ i < EffectiveThreads /\ BufferLeft > 0
  /\ subbuffer_size' = NextSize
  /\ slice' = [slice EXCEPT ![i] = [data |-> current_offset, size |-> NextSize]]
  /\ chunk_no' = [chunk_no EXCEPT ![i] = i % Uint8Values]

StartThread ==
  /\ thread_pc' = [thread_pc EXCEPT ![i] = "preparse_in"]
  /\ threads_created' = threads_created + 1
  /\ UNCHANGED <<completed, failed, segment, pp_table, entries>>

CreateThread ==
  /\ FillContext /\ StartThread
  /\ current_offset' = current_offset + NextSize
  /\ i' = i + 1
  /\ UNCHANGED <<pc, token, point, buffer_pos, result, heapVars, cursorVars, docVars>>

(* thrd_create fails.                                                      *)
CreateFails ==
  /\ FillContext
  /\ pc' = "cleanup_not" /\ i' = 1
  /\ UNCHANGED <<threads_created, current_offset, token, point, buffer_pos, result,
                 jobVars, heapVars, cursorVars, docVars>>

(* The thread runs, but cannot be detached.                                *)
DetachFails ==
  /\ FillContext /\ StartThread
  /\ pc' = "cleanup_not" /\ i' = 1
  /\ UNCHANGED <<current_offset, token, point, buffer_pos, result, heapVars,
                 cursorVars, docVars>>

AllThreadsCreated ==
  /\ pc = "create"
  /\ ~(i < EffectiveThreads /\ BufferLeft > 0)

(* thsn_main_thread starts: the iterator stands on the first context, which *)
(* has no table.                                                            *)
StartMain ==
  /\ AllThreadsCreated
  /\ pc' = "token"
  /\ Allocate({Block("segment", MainJob), Block("stack", MainJob)})
  /\ UNCHANGED <<i, token, point, buffer_pos, result, layoutVars, jobVars,
                 cursorVars, docVars>>

(* thsn_parser_context_init fails; a stack it has already allocated is lost. *)
MainInitFails ==
  /\ AllThreadsCreated
  /\ pc' = "cleanup_not" /\ i' = 1
  /\ \E lost \in SUBSET {Block("stack", MainJob)} :
       (lost = {} \/ "no_segment" \in PreparseOutcomes) /\ Allocate(lost)
  /\ UNCHANGED <<token, point, buffer_pos, result, layoutVars, jobVars, cursorVars,
                 docVars>>

----------------------------------------------------------------------------
(* The calling thread: tokens.  A token takes at least one byte; EOF takes  *)
(* the white space that is left, and comes again when asked for again.      *)

MainFails ==
  /\ pc' = "cleanup_not" /\ i' = 1
  /\ Free({Block("segment", MainJob), Block("stack", MainJob)})

NextToken(kind, at, end) ==
  /\ pc = "token" /\ token' = kind /\ point' = at /\ buffer_pos' = end
  /\ UNCHANGED <<i, result, layoutVars, jobVars, heapVars, cursorVars, docVars>>

(* point is the byte after the closing quote.                              *)
TokenString ==
  /\ \E end \in buffer_pos + 2 .. JsonSize : NextToken("string", end, end)
  /\ pc' = "advance"

TokenBehindEnd ==
  /\ \E at \in buffer_pos .. JsonSize : NextToken("open", at, at + 1)
  /\ pc' = "advance"

TokenOpen ==
  /\ \E at \in buffer_pos .. JsonSize - 1 : NextToken("open", at, at + 1)
  /\ pc' = "advance"

TokenOther ==
  /\ \E end \in buffer_pos + 1 .. JsonSize : NextToken("other", 0, end)
  /\ pc' = "parse"

TokenEof ==
  /\ NextToken(IF token \in {"eof", "eof_again"} THEN "eof_again" ELSE "eof",
               0, JsonSize)
  /\ pc' = "parse"

TokenError ==
  /\ pc = "token" /\ MainFails
  /\ UNCHANGED <<token, point, buffer_pos, result, layoutVars, jobVars, cursorVars,
                 docVars>>

----------------------------------------------------------------------------
(* The calling thread: the cursor over the preparsed tables.               *)

(* A chunk is entered in the middle of a string token or before an opening  *)
(* bracket; only strings and opening brackets move the cursor.              *)
EnteredAs == IF token = "string" THEN InString ELSE NotInString

AfterAdvance == IF token = "string" THEN "parse" ELSE "find"

CurrentIsSkipped == unread
Pending == IF pp_value.size = 0 THEN {} ELSE {pp_value} \cup unread

IsFirst(e, E) == e \in E /\ \A f \in E : e.data <= f.data
IsLast(e, E)  == e \in E /\ \A f \in E : f.data <= e.data

cursorUnchanged == UNCHANGED <<i, token, point, buffer_pos, result, layoutVars, jobVars,
                               heapVars, docVars>>

(* thsn_pp_iter_advance_to_char: point is in the current chunk,            *)
AdvanceHereChooses ==
  /\ pc = "advance" /\ point < SliceEnd(slice[current])
  /\ pc' = AfterAdvance
  /\ pp_scenario' = [pp_scenario EXCEPT ![current] = EnteredAs]
  /\ cursorUnchanged /\ UNCHANGED <<current, unread, pp_value>>

AdvanceHere ==
  /\ pc = "advance" /\ point < SliceEnd(slice[current])
  /\ pc' = AfterAdvance
  /\ cursorUnchanged /\ UNCHANGED cursorVars

(* or behind the last chunk,                                               *)
AdvanceOut ==
  /\ pc = "advance"
  /\ \A t \in current .. EffectiveThreads - 1 : point >= SliceEnd(slice[t])
  /\ current' = EffectiveThreads - 1 /\ unread' = {} /\ pp_value' = EmptySlice
  /\ pc' = AfterAdvance
  /\ cursorUnchanged /\ UNCHANGED pp_scenario

(* or in a later one, whose job for the scenario must be waited for.        *)
AdvanceTo ==
  /\ pc = "advance"
  /\ \E t \in current + 1 .. EffectiveThreads - 1 :
       /\ point < SliceEnd(slice[t])
       /\ \A u \in current .. t - 1 : point >= SliceEnd(slice[u])
       /\ current' = t
  /\ pc' = "await"
  /\ cursorUnchanged /\ UNCHANGED <<unread, pp_value, pp_scenario>>

CurrentJob == <<current, EnteredAs>>

(* The acquire load sees the flag of the job.                              *)
Awaited == pc = "await" /\ CurrentJob \in completed

ChooseScenario == pp_scenario' = [pp_scenario EXCEPT ![current] = EnteredAs]

AwaitFailed ==
  /\ Awaited /\ CurrentJob \in failed
  /\ ChooseScenario /\ MainFails
  /\ UNCHANGED <<token, point, buffer_pos, result, layoutVars, jobVars, docVars,
                 current, unread, pp_value>>

LoadTable ==
  /\ Awaited /\ CurrentJob \notin failed
  /\ ChooseScenario
  /\ LET table == entries[CurrentJob]
     IN  \E e \in table \cup {EmptySlice} :
           /\ IF table = {} THEN e = EmptySlice ELSE IsFirst(e, table)
           /\ pp_value' = e /\ unread' = table \ {e}
  /\ pc' = AfterAdvance
  /\ cursorUnchanged /\ UNCHANGED current

(* thsn_pp_iter_find_value_at: the table has no entry at point or later,    *)
FindNothing ==
  /\ pc = "find"
  /\ \A e \in Pending : e.data < point
  /\ \E last \in Pending \cup {EmptySlice} :
       /\ IF Pending = {} THEN last = EmptySlice ELSE IsLast(last, Pending)
       /\ pp_value' = last
  /\ unread' = {}
  /\ pc' = "parse"
  /\ cursorUnchanged /\ UNCHANGED <<current, pp_scenario>>

(* A handle with this segment_no means that there is none.                 *)
NotFound == Uint8Values - 1

AfterFindTakesLater(e) == IF e.data >= point THEN "handle" ELSE "parse"

AfterFind(e) ==
  IF e.data = point /\ chunk_no[current] # NotFound THEN "handle" ELSE "parse"

(* or the first of those becomes the current one.                          *)
FindEntry ==
  /\ pc = "find"
  /\ \E e \in Pending :
       LET ahead == {f \in Pending : f.data >= point}
       IN  /\ IsFirst(e, ahead)
           /\ pp_value' = e /\ unread' = ahead \ {e}
           /\ pc' = AfterFind(e)
  /\ cursorUnchanged /\ UNCHANGED <<current, pp_scenario>>

----------------------------------------------------------------------------
(* The calling thread: what the parser makes of the token or the handle.    *)

(* It goes on; a second EOF is never accepted.                             *)
ParseContinues ==
  /\ pc = "parse" /\ token # "eof_again"
  /\ pc' = "token"
  /\ cursorUnchanged /\ UNCHANGED cursorVars

(* It is done: an opening bracket does not end a document.  The parser's    *)
(* stack is freed, its segment becomes the document's first.               *)
ParseFinishes ==
  /\ pc = "parse" /\ token \in {"string", "other", "eof"}
  /\ Free({Block("stack", MainJob)})
  /\ segments' = [segments EXCEPT ![0] = {Block("segment", MainJob)}]
  /\ pc' = "collect" /\ i' = 1
  /\ UNCHANGED <<token, point, buffer_pos, result, layoutVars, jobVars, cursorVars,
                 handles, segment_count>>

ParseFails ==
  /\ pc = "parse" /\ MainFails
  /\ UNCHANGED <<token, point, buffer_pos, result, layoutVars, jobVars, cursorVars,
                 docVars>>

(* The handle is stored instead of the value, whose text is skipped.  job   *)
(* is not in the code: it tells which preparsing the value comes from.      *)
AddHandle ==
  /\ pc = "handle"
  /\ buffer_pos - 1 + pp_value.size <= JsonSize
  /\ handles' = handles \cup {[segment_no |-> chunk_no[current],
                               job |-> <<current, pp_scenario[current]>>]}
  /\ buffer_pos' = buffer_pos - 1 + pp_value.size
  /\ pc' = "token"
  /\ UNCHANGED <<i, token, point, result, layoutVars, jobVars, heapVars, cursorVars,
                 segment_count, segments>>

(* The parser is in no state to take a handle, or the input is too short.   *)
HandleFails ==
  /\ pc = "handle" /\ MainFails
  /\ UNCHANGED <<token, point, buffer_pos, result, layoutVars, jobVars, cursorVars,
                 docVars>>

----------------------------------------------------------------------------
(* The calling thread: collecting the results, or cleaning up.             *)

Other(s) == IF s = InString THEN NotInString ELSE InString

CollectsNotInString(t) == NotInString
CollectScenario(t) == pp_scenario[t]

(* What is freed when the segment of scenario s of context t is kept.       *)
DiscardsKept(t, s) ==
  segment[<<t, s>>] \cup pp_table[<<t, InString>>] \cup pp_table[<<t, NotInString>>]

DiscardsOneTable(t, s) == segment[<<t, Other(s)>>] \cup pp_table[<<t, Other(s)>>]

Discarded(t, s) ==
  segment[<<t, Other(s)>>] \cup pp_table[<<t, InString>>]
    \cup pp_table[<<t, NotInString>>]

(* Both jobs of context i are waited for; the segment of the scenario that  *)
(* was chosen goes into the document, the other one is freed.               *)
Collect ==
  /\ pc = "collect" /\ i < segment_count
  /\ {<<i, NotInString>>, <<i, InString>>} \subseteq completed
  /\ LET s == CollectScenario(i)
     IN  /\ segments' = [segments EXCEPT ![i] = segment[<<i, s>>]]
         /\ Free(Discarded(i, s))
  /\ i' = i + 1
  /\ UNCHANGED <<pc, token, point, buffer_pos, result, layoutVars, jobVars, cursorVars,
                 handles, segment_count>>

ReturnSuccess ==
  /\ pc = "collect" /\ i >= segment_count
  /\ Free({ThreadContexts})
  /\ pc' = "returned" /\ result' = "success"
  /\ UNCHANGED <<i, token, point, buffer_pos, layoutVars, jobVars, cursorVars, docVars>>

LastButOne == threads_created - 1
LastCleanedUp == threads_created

(* error_cleanup waits for one job of context i after the other and frees   *)
(* what it published.                                                      *)
CleanupJob(here, job) ==
  /\ pc = here /\ i <= LastCleanedUp /\ job \in completed
  /\ Free(segment[job] \cup pp_table[job])
  /\ UNCHANGED <<token, point, buffer_pos, result, layoutVars, jobVars, cursorVars,
                 docVars>>

CleanupNotInString ==
  CleanupJob("cleanup_not", <<i, NotInString>>) /\ pc' = "cleanup_in" /\ i' = i

CleanupInString ==
  CleanupJob("cleanup_in", <<i, InString>>) /\ pc' = "cleanup_not" /\ i' = i + 1

(* thsn_document_free finds the segments that were filled in (none).       *)
ReturnError ==
  /\ pc = "cleanup_not" /\ i > LastCleanedUp
  /\ Free({ThreadContexts, Document} \cup SegmentBlocks)
  /\ pc' = "returned" /\ result' = "error"
  /\ UNCHANGED <<i, token, point, buffer_pos, layoutVars, jobVars, cursorVars, docVars>>

(* The client frees the document it got (thsn_document_free).              *)
DocumentFree ==
  /\ pc = "returned" /\ result = "success"
  /\ Free({Document} \cup SegmentBlocks)
  /\ pc' = "freed"
  /\ UNCHANGED <<i, token, point, buffer_pos, result, layoutVars, jobVars, cursorVars,
                 docVars>>

----------------------------------------------------------------------------
(* The preparsing threads.  First the chunk is taken to start inside a      *)
(* string, then outside of one.                                            *)

PreparseStage(s) == IF s = InString THEN "preparse_in" ELSE "preparse_not"
PublishStage(s)  == IF s = InString THEN "publish_in" ELSE "publish_not"
StageAfter(s)    == IF s = InString THEN "preparse_not" ELSE "exited"

(* The element of parsing_results that a preparsing writes.                 *)
SameResultTwice(t, s) == <<t, InString>>
ResultOf(t, s) == <<t, s>>

(* The composite values that lie in the chunk of thread t; in the scenario  *)
(* InString the chunk's first byte belongs to the string at least.          *)
Preparsable(t, s) ==
  {e \in Slices : /\ e.size >= 2
                  /\ e.data >= slice[t].data + (IF s = InString THEN 1 ELSE 0)
                  /\ SliceEnd(e) <= SliceEnd(slice[t])}

Tables(t, s) ==
  {E \in SUBSET Preparsable(t, s) :
     \A e, f \in E : e = f \/ SliceEnd(e) <= f.data \/ SliceEnd(f) <= e.data}

PublishedBlocks(kind, outcome, job) ==
  IF kind \in Published[outcome] THEN {Block(kind, job)} ELSE {}

(* thsn_preparse_buffer, and the failed flag.                              *)
Preparse(t, s) ==
  LET job == ResultOf(t, s)
  IN  /\ thread_pc[t] = PreparseStage(s)
      /\ thread_pc' = [thread_pc EXCEPT ![t] = PublishStage(s)]
      /\ \E o \in PreparseOutcomes :
           /\ Allocate({Block(kind, job) : kind \in LeftAllocated[o]})
           /\ segment' = [segment EXCEPT ![job] = PublishedBlocks("segment", o, job)]
           /\ pp_table' = [pp_table EXCEPT ![job] = PublishedBlocks("table", o, job)]
           /\ failed' = IF "table" \in Published[o] THEN failed ELSE failed \cup {job}
           /\ \E E \in IF "table" \in Published[o] THEN Tables(t, s) ELSE {{}} :
                entries' = [entries EXCEPT ![job] = E]
      /\ UNCHANGED <<callerVars, layoutVars, completed, cursorVars, docVars>>

NotIfFailed(t, s) == {<<t, s>>} \ failed
Completes(t, s) == {<<t, s>>}

(* The release store of the completion flag.                               *)
Publish(t, s) ==
  /\ thread_pc[t] = PublishStage(s)
  /\ thread_pc' = [thread_pc EXCEPT ![t] = StageAfter(s)]
  /\ completed' = completed \cup Completes(t, s)
  /\ UNCHANGED <<callerVars, layoutVars, failed, segment, pp_table, entries, heapVars,
                 cursorVars, docVars>>

----------------------------------------------------------------------------
Setup   == Call \/ AllocateFails \/ CreateThread \/ CreateFails \/ DetachFails
             \/ StartMain \/ MainInitFails
Tokens  == TokenString \/ TokenOpen \/ TokenOther \/ TokenEof \/ TokenError
Cursor  == AdvanceHere \/ AdvanceOut \/ AdvanceTo \/ AwaitFailed \/ LoadTable
             \/ FindNothing \/ FindEntry
Parse   == ParseContinues \/ ParseFinishes \/ ParseFails \/ AddHandle \/ HandleFails
Finish  == Collect \/ ReturnSuccess \/ CleanupNotInString \/ CleanupInString
             \/ ReturnError
Caller  == Setup \/ Tokens \/ Cursor \/ Parse \/ Finish

Thread(t) == \E s \in Scenarios : Preparse(t, s) \/ Publish(t, s)

(* The call is over and the client has freed what it got.                  *)
Done == pc = "freed" \/ (pc = "returned" /\ result = "error")

Terminated == Done /\ UNCHANGED vars

Next == Caller \/ DocumentFree \/ Terminated \/ \E t \in Preparsers : Thread(t)

(* The scheduler runs every thread that can run (the caller yields while it *)
(* waits); the client is free never to free the document.                   *)
Fairness == WF_vars(Caller) /\ \A t \in Preparsers : WF_vars(Thread(t))

Spec == Init /\ [][Next]_vars /\ Fairness

----------------------------------------------------------------------------
(* Properties.                                                             *)

CallerTypes ==
  /\ pc \in {"call", "create", "token", "advance", "await", "find", "parse", "handle",
             "collect", "cleanup_not", "cleanup_in", "returned", "freed"}
  /\ i \in 1 .. EffectiveThreads
  /\ token \in {"none", "string", "open", "other", "eof", "eof_again"}
  /\ point \in 0 .. JsonSize /\ buffer_pos \in 0 .. JsonSize
  /\ result \in {"none", "success", "error"}

LayoutTypes ==
  /\ current_offset \in 0 .. JsonSize /\ subbuffer_size \in 0 .. JsonSize
  /\ threads_created \in 0 .. EffectiveThreads - 1
  /\ slice \in [Contexts -> Slices] /\ chunk_no \in [Contexts -> 0 .. Uint8Values - 1]

JobTypes ==
  /\ thread_pc \in [Preparsers -> {"absent", "preparse_in", "publish_in",
                                   "preparse_not", "publish_not", "exited"}]
  /\ completed \subseteq Jobs /\ failed \subseteq Jobs
  /\ segment \in [Jobs -> SUBSET Blocks] /\ pp_table \in [Jobs -> SUBSET Blocks]
  /\ entries \in [Jobs -> SUBSET Slices]

HeapTypes == live \subseteq Blocks /\ misused \subseteq Blocks

CursorTypes ==
  /\ current \in Contexts /\ unread \subseteq Slices /\ pp_value \in Slices
  /\ pp_scenario \in [Contexts -> Scenarios]

DocTypes ==
  /\ handles \subseteq [segment_no : 0 .. Uint8Values - 1, job : Jobs]
  /\ segment_count \in 0 .. Uint8Values - 1
  /\ segments \in [Contexts -> SUBSET Blocks]

(* Every variable has its type: no offset leaves the input, no counter its  *)
(* range, and a handle is only ever made for a job of a preparsing thread.  *)
TypeOK == CallerTypes /\ LayoutTypes /\ JobTypes /\ HeapTypes /\ CursorTypes /\ DocTypes

(* The chunks tile the input, and unless there is only one none is shorter  *)
(* than MIN_THREAD_SLICE_SIZE: no byte is left to nobody by the division    *)
(* and its remainder, and none is preparsed by two threads.                 *)
ChunksTileInput ==
  pc \notin {"call", "create", "cleanup_not", "cleanup_in", "returned", "freed"} =>
    /\ slice[0].data = 0
    /\ \A t \in Preparsers : slice[t].data = SliceEnd(slice[t - 1])
    /\ SliceEnd(slice[EffectiveThreads - 1]) = JsonSize
    /\ \A t \in Preparsers : slice[t].size >= MinThreadSliceSize
    /\ slice[0].size >= slice[EffectiveThreads - 1].size

(* No use after free: the contexts stay allocated while a thread still has  *)
(* to write to its own, or the caller to read one, and so does the table    *)
(* that the cursor reads.                                                   *)
NoUseAfterFree ==
  /\ (\/ pc \notin {"call", "returned", "freed"}
      \/ \E t \in Preparsers : thread_pc[t] \notin {"absent", "exited"})
       => ThreadContexts \in live
  /\ unread # {} /\ pc \in {"advance", "find", "token", "parse", "handle"}
       => /\ pp_table[<<current, pp_scenario[current]>>] # {}
          /\ pp_table[<<current, pp_scenario[current]>>] \subseteq live

(* No block is freed twice, or without having been allocated.              *)
NoDoubleFree == misused = {}

(* When the call succeeds every handle leads to the segment its value was   *)
(* preparsed into: the scenario chosen while parsing is the one collected,  *)
(* the segment number did not wrap and the segment is still allocated.      *)
HandlesResolve ==
  (pc = "returned" /\ result = "success") =>
    \A h \in handles :
      /\ h.segment_no \in Contexts /\ h.segment_no < segment_count
      /\ segments[h.segment_no] = {Block("segment", h.job)}
      /\ segments[h.segment_no] \subseteq live

(* What is allocated after the call is the document and its segments, and   *)
(* nothing is once it has been freed or the call has failed.                *)
NoLeak ==
  /\ pc = "returned" /\ result = "success" => live = {Document} \cup SegmentBlocks
  /\ Done => live = {}

(* The cursor never steps over a preparsed value that the parse may still   *)
(* reach: whatever its table lists from the read position on is the current *)
(* entry or unread.                                                         *)
CursorKeepsRest ==
  pc \in {"token", "advance", "find"} /\ current > 0 =>
    \A e \in entries[<<current, pp_scenario[current]>>] :
      e.data >= (IF pc = "token" THEN buffer_pos ELSE point)
        => e \in {pp_value} \cup unread

(* A value that the table of the current chunk lists where the parse stands *)
(* is skipped, however many tokens, chunks and entries were passed before;  *)
(* and only such a value is.                                                *)
FindsListedValue ==
  [][pc = "find" /\ pc' # pc =>
       (pc' = "handle" <=>
          /\ current > 0 /\ chunk_no[current] # NotFound
          /\ \E e \in entries[<<current, pp_scenario[current]>>] : e.data = point)]_vars

(* A completed job is never touched by its thread again: what the caller    *)
(* reads after the acquire load is what was there at the release store.     *)
PublishedIsFrozen ==
  [][/\ completed \subseteq completed'
     /\ \A j \in completed : /\ segment'[j] = segment[j] /\ pp_table'[j] = pp_table[j]
                             /\ entries'[j] = entries[j]
                             /\ j \in failed' <=> j \in failed]_vars

(* The scenario of a chunk is settled when its first value is skipped.     *)
ScenarioSettled ==
  [][\A h \in handles : pp_scenario'[h.job[1]] = h.job[2]]_vars

(* What the caller sees of the call: a handle in the document leads to the  *)
(* pointer in the document's segments, whatever block that is.             *)
DocumentReturned ==
  IF pc = "returned" /\ result = "success"
  THEN [blocks  |-> {Document} \cup SegmentBlocks,
        handles |-> {[leads_to |-> segments[h.segment_no],
                      value_in |-> Block("segment", h.job)] : h \in handles}]
  ELSE [blocks |-> {}, handles |-> {}]

Status ==
  CASE pc = "freed"    -> "freed"
    [] pc = "returned" -> result
    [] OTHER           -> "running"

Promise == INSTANCE ParseCall WITH status <- Status, memory <- live,
                                   document <- DocumentReturned

(* The call keeps its promise: no thread touches memory once it has         *)
(* returned, the document is complete and all there is, and a failed call   *)
(* leaves nothing.                                                         *)
ImplementsParseCall == Promise!Spec

(* The call returns, whatever the input and whichever thread fails.        *)
Returns == <>(pc \in {"returned", "freed"})
=============================================================================
