----------------------- MODULE ParserThreadsMemory ------------------------
(*************************************************************************)
(* Proofs about the memory of ParserThreads: nothing is freed twice,     *)
(* nothing is used after it has been freed, nothing is leaked, and every *)
(* handle of a returned document resolves to the segment its value was   *)
(* preparsed into, for every input size, every number of threads below   *)
(* 2^8 and every interleaving.                                           *)
(*                                                                       *)
(* The invariant says of every block exactly when it is allocated        *)
(* (Memory). It rests on what the caller knows at each of its positions  *)
(* (Phases), on what every job has published (Results), on where the     *)
(* cursor and the handles come from (CursorInv) and on what the document *)
(* holds (SegmentsInv).                                                  *)
(*                                                                       *)
(* Two assumptions are needed, and the runs Wrapped and OutOfMemory show *)
(* why: the number of chunks fits into the uint8_t it is stored in, and  *)
(* a preparsing that runs out of memory leaves nothing allocated but     *)
(* what it publishes.                                                    *)
(*************************************************************************)
EXTENDS ParserThreadsProofs

(* The number of chunks fits into a uint8_t and does not reach the segment  *)
(* number that stands for "not found".                                      *)
FewChunks == EffectiveThreads < Uint8Values

(* No preparsing loses a block on an allocation failure.                    *)
NothingLost == \A o \in PreparseOutcomes : LeftAllocated[o] = Published[o]

----------------------------------------------------------------------------
(* What the caller knows of the threads.                                    *)

(* A step of the caller's parse touches no context and no job, and the heap *)
(* only when the parse ends.                                                *)
LEMMA LoopStep ==
  ASSUME Tokens \/ Cursor \/ Parse
  PROVE  /\ pc \in MainLoop /\ result' = result
         /\ UNCHANGED <<layoutVars, jobVars>>
         /\ \/ /\ pc' \in MainLoop
               /\ UNCHANGED <<heapVars, segment_count, segments>>
            \/ MainFails /\ UNCHANGED docVars
            \/ ParseFinishes
  <1>1. CASE Tokens
    BY <1>1
    DEF Tokens, TokenString, TokenOpen, TokenOther, TokenEof, TokenError, NextToken,
        MainLoop, docVars
  <1>2. CASE Cursor
    BY <1>2
    DEF Cursor, AdvanceHere, AdvanceOut, AdvanceTo, AwaitFailed, LoadTable, FindNothing,
        FindEntry, cursorUnchanged, Awaited, AfterAdvance, AfterFind, MainLoop, docVars
  <1>3. CASE Parse
    BY <1>3
    DEF Parse, ParseContinues, ParseFinishes, ParseFails, AddHandle, HandleFails,
        cursorUnchanged, MainLoop, docVars
  <1> QED BY <1>1, <1>2, <1>3

(* Thread t has made its last access to its context.                        *)
Exited(t) == thread_pc[t] = "exited"

(* What the caller has reached at each of its positions: while it collects  *)
(* or cleans up, the threads of the contexts behind it are over; when it    *)
(* has returned, all of them are; the document has one segment per chunk,   *)
(* and a context knows its own number.                                      *)
Phases ==
  /\ pc \notin {"returned", "freed"} => result = "none"
  /\ pc = "returned" => result \in {"success", "error"}
  /\ pc = "freed" => result = "success"
  /\ pc \in {"collect", "cleanup_not", "cleanup_in"} =>
       \A t \in Preparsers : t < i => Exited(t)
  /\ pc = "cleanup_in" => \A t \in Preparsers : t = i => Exited(t)
  /\ pc \in {"returned", "freed"} =>
       \A t \in Preparsers : thread_pc[t] \in {"absent", "exited"}
  /\ result = "success" => \A t \in Preparsers : Exited(t)
  /\ pc # "call" /\ result # "error" => segment_count = EffectiveThreads
  /\ \A t \in Preparsers : t <= threads_created => chunk_no[t] = t

(* With few chunks the conversion to uint8_t loses nothing.                 *)
LEMMA SmallMod == FewChunks => /\ EffectiveThreads % Uint8Values = EffectiveThreads
                               /\ \A t \in Preparsers : t % Uint8Values = t
  <1>1. /\ EffectiveThreads \in Nat
        /\ \A t \in Preparsers : t \in Nat /\ t < EffectiveThreads
    BY Threads DEF Preparsers
  <1>2. ASSUME FewChunks, NEW t \in Nat, t <= EffectiveThreads PROVE t % Uint8Values = t
    BY <1>1, <1>2, DivFacts, SizesAssumption DEF FewChunks
  <1> QED BY <1>1, <1>2

(* The phases hold initially.                                               *)
LEMMA PhasesInit == Init => Phases
  BY Threads DEF Init, Phases, Preparsers

(* Every step keeps the phases: the caller passes a context only after the  *)
(* acquire load of the last flag its thread sets.                           *)
LEMMA PhasesStep ==
  FewChunks /\ TypeInv /\ Layout /\ Stages /\ Phases /\ [Next]_vars => Phases'
  <1> SUFFICES ASSUME FewChunks, TypeInv, Layout, Stages, Phases, [Next]_vars
               PROVE  Phases'
    OBVIOUS
  <1>0. /\ \A t \in Preparsers : t \in Int /\ t >= 1 /\ t < EffectiveThreads
        /\ i \in Int /\ i >= 1 /\ threads_created \in Int /\ EffectiveThreads \in Int
    BY Threads DEF Preparsers, TypeInv, TypeOK, CallerTypes, LayoutTypes
  <1>1. CASE Call
    BY <1>1, SmallMod DEF Call, Phases
  <1>2. CASE AllocateFails
    <2>1. \A t \in Preparsers : thread_pc[t] = "absent"
      <3>1. threads_created = 0
        BY <1>2 DEF AllocateFails, TypeInv, Control
      <3>2. \A t \in Preparsers : t > threads_created
        BY <1>0, <3>1
      <3> QED BY <3>2 DEF Stages
    <2> QED BY <1>2, <2>1 DEF AllocateFails, Phases, layoutVars, jobVars
  <1>3. CASE CreateThread
    BY <1>3, <1>0, SmallMod
    DEF CreateThread, FillContext, StartThread, Phases, TypeInv, TypeOK, Control,
        LayoutTypes, Contexts, docVars
  <1>4. CASE CreateFails
    BY <1>4 DEF CreateFails, FillContext, Phases, TypeInv, Control, Preparsers, docVars
  <1>5. CASE DetachFails
    BY <1>5, SmallMod, FillContextTypes
    DEF DetachFails, FillContext, StartThread, Phases, TypeInv, TypeOK, Control,
        Preparsers, docVars
  <1>6. CASE StartMain \/ MainInitFails
    BY <1>6, <1>0
    DEF StartMain, MainInitFails, AllThreadsCreated, Phases, docVars, layoutVars
  <1>7. CASE Tokens \/ Cursor \/ Parse
    <2>1. /\ pc \in MainLoop /\ result' = result /\ segment_count' = segment_count
          /\ UNCHANGED <<layoutVars, jobVars>>
          /\ pc' \in MainLoop \/ (pc' \in {"cleanup_not", "collect"} /\ i' = 1)
      BY <1>7, LoopStep DEF MainFails, ParseFinishes, docVars
    <2> QED BY <2>1, <1>0 DEF Phases, MainLoop, layoutVars
  <1>8. CASE Collect
    <2>1. \A t \in Preparsers : t = i => Exited(t)
      BY <1>8 DEF Collect, Stages, Exited
    <2> QED BY <1>8, <1>0, <2>1 DEF Collect, Phases, layoutVars, jobVars, Exited
  <1>9. CASE ReturnSuccess
    <2>1. \A t \in Preparsers : Exited(t)
      BY <1>9, <1>0 DEF ReturnSuccess, Phases
    <2> QED BY <1>9, <2>1
            DEF ReturnSuccess, Phases, layoutVars, jobVars, docVars, Exited
  <1>10. CASE CleanupNotInString
    BY <1>10
    DEF CleanupNotInString, CleanupJob, Phases, layoutVars, jobVars, docVars, Exited,
        Stages
  <1>11. CASE CleanupInString
    BY <1>11, <1>0
    DEF CleanupInString, CleanupJob, Phases, layoutVars, jobVars, docVars, Exited
  <1>12. CASE ReturnError
    <2>1. \A t \in Preparsers : thread_pc[t] \in {"absent", "exited"}
      <3>1. i > threads_created /\ \A t \in Preparsers : t < i => Exited(t)
        BY <1>12 DEF ReturnError, LastCleanedUp, Phases
      <3>2. \A t \in Preparsers : t < i \/ t > threads_created
        BY <1>0, <3>1
      <3> QED BY <3>1, <3>2 DEF Stages, Exited
    <2> QED BY <1>12, <2>1 DEF ReturnError, Phases, layoutVars, jobVars
  <1>13. CASE DocumentFree
    BY <1>13 DEF DocumentFree, Phases, layoutVars, jobVars, docVars, Exited
  <1>14. ASSUME NEW t \in Preparsers, Thread(t) PROVE Phases'
    <2>1. /\ UNCHANGED <<callerVars, layoutVars, docVars>>
          /\ thread_pc[t] \notin {"absent", "exited"}
          /\ \A u \in Preparsers \ {t} : thread_pc'[u] = thread_pc[u]
      BY <1>14
      DEF Thread, Preparse, Publish, TypeInv, TypeOK, JobTypes, PreparseStage,
          PublishStage
    <2> QED BY <2>1 DEF Phases, callerVars, layoutVars, docVars, Exited
  <1>15. CASE Terminated \/ UNCHANGED vars
    BY <1>15
    DEF Terminated, Phases, vars, callerVars, layoutVars, jobVars, docVars, Exited
  <1> QED BY <1>1, <1>2, <1>3, <1>4, <1>5, <1>6, <1>7, <1>8, <1>9, <1>10, <1>11, <1>12,
             <1>13, <1>14, <1>15
          DEF Next, Caller, Setup, Finish

----------------------------------------------------------------------------
(* What the jobs have published.                                            *)

(* Preparsing s of thread t has stored its results.                         *)
Written(t, s) ==
  IF s = InString
  THEN thread_pc[t] \in {"publish_in", "preparse_not", "publish_not", "exited"}
  ELSE thread_pc[t] \in {"publish_not", "exited"}

(* The blocks of the jobs, and of the caller.                               *)
Seg(t, s) == Block("segment", <<t, s>>)

Tab(t, s) == Block("table", <<t, s>>)

Stk(t, s) == Block("stack", <<t, s>>)

MainSeg == Block("segment", MainJob)

MainTab == Block("table", MainJob)

MainStk == Block("stack", MainJob)

(* What a job shows: nothing before it has stored its results or if it has  *)
(* failed, and else its own segment and its own table, which lists no value *)
(* shorter than its two brackets.                                           *)
ResultsOf(t, s) ==
  LET j == <<t, s>>
  IN  /\ j \in failed => Written(t, s)
      /\ Written(t, s) /\ j \notin failed =>
           segment[j] = {Seg(t, s)} /\ pp_table[j] = {Tab(t, s)}
      /\ ~Written(t, s) \/ j \in failed =>
           segment[j] = {} /\ pp_table[j] = {} /\ entries[j] = {}
      /\ \A e \in entries[j] : e.size >= 2

(* Every job does.                                                          *)
Results == \A t \in Preparsers, s \in Scenarios : ResultsOf(t, s)

(* No job shows anything initially.                                         *)
LEMMA ResultsInit == Init => Results
  BY DEF Init, Results, ResultsOf, Written, Jobs

(* If no block is lost, a preparsing leaves both of its blocks or none.     *)
LEMMA OutcomeBlocks ==
  ASSUME NothingLost, NEW o \in PreparseOutcomes
  PROVE  \/ Published[o] = {} /\ LeftAllocated[o] = {}
         \/ Published[o] = {"segment", "table"} /\ LeftAllocated[o] = {"segment", "table"}
  BY OutcomesAssumption DEF NothingLost, Published, LeftAllocated

(* What thsn_preparse_buffer does to its own job and to the heap, and that  *)
(* it does nothing to another job.                                          *)
LEMMA PreparseEffect ==
  ASSUME NothingLost, TypeInv, Results,
         NEW t \in Preparsers, NEW s \in Scenarios, Preparse(t, s)
  PROVE  /\ thread_pc[t] = PreparseStage(s) /\ ~Written(t, s) /\ Written(t, s)'
         /\ \A u \in Preparsers, r \in Scenarios : <<u, r>> # <<t, s>> =>
              /\ Written(u, r)' = Written(u, r)
              /\ segment'[<<u, r>>] = segment[<<u, r>>]
              /\ pp_table'[<<u, r>>] = pp_table[<<u, r>>]
              /\ entries'[<<u, r>>] = entries[<<u, r>>]
              /\ <<u, r>> \in failed' <=> <<u, r>> \in failed
         /\ \/ /\ segment'[<<t, s>>] = {} /\ pp_table'[<<t, s>>] = {}
               /\ entries'[<<t, s>>] = {}
               /\ <<t, s>> \in failed' /\ live' = live
            \/ /\ segment'[<<t, s>>] = {Seg(t, s)} /\ pp_table'[<<t, s>>] = {Tab(t, s)}
               /\ entries'[<<t, s>>] \in Tables(t, s)
               /\ <<t, s>> \notin failed' /\ live' = live \cup {Seg(t, s), Tab(t, s)}
         /\ misused' = misused
  <1> DEFINE job == <<t, s>>
  <1>1. PICK o \in PreparseOutcomes :
          /\ Allocate({Block(kind, job) : kind \in LeftAllocated[o]})
          /\ segment' = [segment EXCEPT ![job] = PublishedBlocks("segment", o, job)]
          /\ pp_table' = [pp_table EXCEPT ![job] = PublishedBlocks("table", o, job)]
          /\ failed' = IF "table" \in Published[o] THEN failed ELSE failed \cup {job}
          /\ \E E \in IF "table" \in Published[o] THEN Tables(t, s) ELSE {{}} :
               entries' = [entries EXCEPT ![job] = E]
    BY DEF Preparse, ResultOf
  <1>2. /\ thread_pc[t] = PreparseStage(s)
        /\ thread_pc' = [thread_pc EXCEPT ![t] = PublishStage(s)]
        /\ t \in DOMAIN thread_pc
    BY DEF Preparse, ResultOf, TypeInv, TypeOK, JobTypes
  <1>3. ~Written(t, s) /\ Written(t, s)'
        /\ \A u \in Preparsers, r \in Scenarios :
             <<u, r>> # <<t, s>> => Written(u, r)' = Written(u, r)
    BY <1>2 DEF Written, PreparseStage, PublishStage, Scenarios
  <1>4. \A u \in Preparsers, r \in Scenarios : <<u, r>> # <<t, s>> =>
              /\ segment'[<<u, r>>] = segment[<<u, r>>]
              /\ pp_table'[<<u, r>>] = pp_table[<<u, r>>]
              /\ entries'[<<u, r>>] = entries[<<u, r>>]
              /\ <<u, r>> \in failed' <=> <<u, r>> \in failed
    BY <1>1, JobRange DEF TypeInv, TypeOK, JobTypes
  <1>5. job \in Jobs /\ job \notin failed
    BY <1>3, JobRange DEF Results, ResultsOf
  <1>6. CASE Published[o] = {} /\ LeftAllocated[o] = {}
    <2>1. live' = live /\ misused' = misused
      BY <1>1, <1>6 DEF Allocate
    <2>2. /\ segment'[job] = {} /\ pp_table'[job] = {} /\ entries'[job] = {}
          /\ job \in failed'
      BY <1>1, <1>5, <1>6 DEF PublishedBlocks, TypeInv, TypeOK, JobTypes
    <2> QED BY <1>2, <1>3, <1>4, <2>1, <2>2
  <1>7. CASE Published[o] = {"segment", "table"} /\ LeftAllocated[o] = {"segment", "table"}
    <2>1. live' = live \cup {Seg(t, s), Tab(t, s)} /\ misused' = misused
      BY <1>1, <1>7 DEF Allocate, Seg, Tab
    <2>2. segment'[job] = {Seg(t, s)} /\ pp_table'[job] = {Tab(t, s)}
      BY <1>1, <1>5, <1>7 DEF PublishedBlocks, Seg, Tab, TypeInv, TypeOK, JobTypes
    <2>3. entries'[job] \in Tables(t, s) /\ job \notin failed'
      BY <1>1, <1>5, <1>7 DEF TypeInv, TypeOK, JobTypes
    <2> QED BY <1>2, <1>3, <1>4, <2>1, <2>2, <2>3
  <1> QED BY <1>6, <1>7, OutcomeBlocks

(* The store of a completion flag changes no result.                        *)
LEMMA PublishEffect ==
  ASSUME TypeInv, NEW t \in Preparsers, NEW s \in Scenarios, Publish(t, s)
  PROVE  /\ \A u \in Preparsers, r \in Scenarios : Written(u, r)' = Written(u, r)
         /\ UNCHANGED <<failed, segment, pp_table, entries, heapVars>>
  BY DEF Publish, PublishStage, StageAfter, Written

(* No step of the caller changes the result of a job.                       *)
LEMMA CallerResults ==
  ASSUME TypeInv, Stages, Caller
  PROVE  /\ \A u \in Preparsers, r \in Scenarios : Written(u, r)' = Written(u, r)
         /\ UNCHANGED <<failed, segment, pp_table, entries, completed>>
         /\ \A u \in Preparsers : Exited(u)' = Exited(u)
  <1>1. CASE CreateThread \/ DetachFails
    <2>1. /\ i \in Preparsers /\ i > threads_created
          /\ thread_pc' = [thread_pc EXCEPT ![i] = "preparse_in"]
          /\ UNCHANGED <<failed, segment, pp_table, entries, completed>>
      BY <1>1, FillContextTypes
      DEF CreateThread, DetachFails, StartThread, FillContext, TypeInv, TypeOK, Control,
          Preparsers
    <2>2. thread_pc[i] = "absent" /\ thread_pc'[i] = "preparse_in"
          /\ \A u \in Preparsers \ {i} : thread_pc'[u] = thread_pc[u]
      BY <2>1 DEF Stages, TypeInv, TypeOK, JobTypes
    <2> QED BY <2>1, <2>2 DEF Written, Exited
  <1>2. CASE ~(CreateThread \/ DetachFails)
    <2>1. UNCHANGED jobVars
      BY <1>2, CallerFrame DEF Call, CreateFails
    <2> QED BY <2>1 DEF jobVars, Written, Exited
  <1> QED BY <1>1, <1>2

(* Every step keeps the results.                                            *)
LEMMA ResultsStep ==
  NothingLost /\ TypeInv /\ Stages /\ Results /\ [Next]_vars => Results'
  <1> SUFFICES ASSUME NothingLost, TypeInv, Stages, Results, [Next]_vars PROVE Results'
    OBVIOUS
  <1>1. ASSUME /\ \A u \in Preparsers, r \in Scenarios : Written(u, r)' = Written(u, r)
               /\ UNCHANGED <<failed, segment, pp_table, entries>>
        PROVE  Results'
    BY <1>1 DEF Results, ResultsOf
  <1>2. ASSUME NEW t \in Preparsers, NEW s \in Scenarios, Preparse(t, s)
        PROVE  Results'
    <2>1. \A E \in Tables(t, s) : \A e \in E : e.size >= 2
      BY DEF Tables, Preparsable
    <2>2. ResultsOf(t, s)'
      BY <1>2, <2>1, PreparseEffect DEF ResultsOf
    <2>3. ASSUME NEW u \in Preparsers, NEW r \in Scenarios, <<u, r>> # <<t, s>>
          PROVE  ResultsOf(u, r)'
      <3>1. /\ Written(u, r)' = Written(u, r)
            /\ segment'[<<u, r>>] = segment[<<u, r>>]
            /\ pp_table'[<<u, r>>] = pp_table[<<u, r>>]
            /\ entries'[<<u, r>>] = entries[<<u, r>>]
            /\ <<u, r>> \in failed' <=> <<u, r>> \in failed
        BY <1>2, <2>3, PreparseEffect
      <3>2. ResultsOf(u, r)
        BY DEF Results
      <3> QED BY <3>1, <3>2 DEF ResultsOf
    <2> QED BY <2>2, <2>3 DEF Results
  <1>3. DocumentFree \/ Terminated \/ UNCHANGED vars => UNCHANGED jobVars
    BY DEF DocumentFree, Terminated, vars
  <1>4. UNCHANGED jobVars => Results'
    BY DEF jobVars, Results, ResultsOf, Written
  <1> QED BY <1>1, <1>2, <1>3, <1>4, CallerResults, PublishEffect DEF Next, Thread

----------------------------------------------------------------------------
(* The cursor and the handles.                                              *)

(* The cursor reads the table of a completed job that has not failed, or    *)
(* none at all; a value is skipped only if it is an entry of that table;    *)
(* and every handle names a completed job and carries the number of its     *)
(* chunk.                                                                   *)
CursorInv ==
  /\ pc \in {"call", "create"} => current = 0
  /\ pc \in MainLoop \ {"await"} =>
       \/ unread = {} /\ pp_value.size = 0
       \/ /\ current > 0 /\ CursorJob \in completed \ failed
          /\ unread \subseteq entries[CursorJob]
          /\ pp_value.size # 0 => pp_value \in entries[CursorJob]
  /\ pc = "handle" => pp_value.size # 0
  /\ \A h \in handles : /\ h.job \in completed \ failed
                        /\ h.segment_no = h.job[1]

(* The cursor is on the first context initially.                            *)
LEMMA CursorInit == Init => CursorInv
  BY DEF Init, CursorInv, MainLoop

(* On entering a chunk the cursor stands on the table of the job it has     *)
(* waited for.                                                              *)
LEMMA LoadedTable ==
  ASSUME TypeInv, Skipping, LoadTable
  PROVE  /\ current' = current /\ current > 0 /\ CursorJob' = CurrentJob
         /\ CurrentJob \in completed \ failed
         /\ \E e \in entries[CurrentJob] \cup {EmptySlice} :
              /\ pp_value' = e /\ unread' = entries[CurrentJob] \ {e}
              /\ e = EmptySlice \/ e \in entries[CurrentJob]
         /\ UNCHANGED <<entries, completed, failed, handles>>
         /\ pc' \in {"parse", "find"}
  <1>1. current \in DOMAIN pp_scenario
    BY DEF TypeInv, TypeOK, CursorTypes
  <1> QED BY <1>1
          DEF LoadTable, Awaited, ChooseScenario, CursorJob, CurrentJob, TypeInv,
              Control, cursorUnchanged, jobVars, docVars, AfterAdvance

(* What the cursor has still before it is listed in the table of its job.   *)
LEMMA PendingListed ==
  ASSUME CursorInv, pc \in MainLoop \ {"await"}
  PROVE  \/ Pending = {}
         \/ /\ current > 0 /\ CursorJob \in completed \ failed
            /\ Pending \subseteq entries[CursorJob]
  BY DEF CursorInv, Pending

(* Every step keeps the cursor.                                             *)
LEMMA CursorStep ==
  TypeInv /\ Stages /\ Phases /\ Results /\ Skipping /\ CursorInv /\ [Next]_vars
    => CursorInv'
  <1> SUFFICES ASSUME TypeInv, Stages, Phases, Results, Skipping, CursorInv, [Next]_vars
               PROVE CursorInv'
    OBVIOUS
  <1>1. CASE Setup
    <2>1. /\ pc \in {"call", "create"} /\ pc' \notin MainLoop \ {"token"}
          /\ UNCHANGED <<handles, cursorVars, completed, failed>>
      BY <1>1
      DEF Setup, Call, AllocateFails, CreateThread, CreateFails, DetachFails, StartMain,
          MainInitFails, AllThreadsCreated, FillContext, StartThread, MainLoop, docVars,
          jobVars
    <2>2. current = 0 /\ unread = {} /\ pp_value.size = 0
      BY <2>1 DEF CursorInv, TypeInv, Control, EmptySlice
    <2> QED BY <2>1, <2>2 DEF CursorInv, MainLoop, cursorVars
  <1>2. CASE Tokens \/ AdvanceHere \/ AdvanceOut \/ AdvanceTo \/ AwaitFailed
    <2>1. /\ UNCHANGED <<handles, completed, failed, entries>>
          /\ pc \in MainLoop
          /\ pc' \notin {"handle", "call", "create"}
          /\ \/ UNCHANGED cursorVars /\ pc # "await"
             \/ pc' \notin MainLoop \ {"await"}
             \/ unread' = {} /\ pp_value' = EmptySlice
      BY <1>2
      DEF Tokens, TokenString, TokenOpen, TokenOther, TokenEof, TokenError, NextToken,
          MainFails, AdvanceHere, AdvanceOut, AdvanceTo, AwaitFailed, Awaited,
          cursorUnchanged, MainLoop, AfterAdvance, docVars, jobVars
    <2> QED BY <2>1 DEF CursorInv, cursorVars, EmptySlice, CursorJob
  <1>3. CASE LoadTable
    BY <1>3, LoadedTable DEF CursorInv, EmptySlice
  <1>4. CASE FindNothing
    <2>1. /\ UNCHANGED <<handles, completed, failed, entries, current, pp_scenario>>
          /\ pc = "find" /\ pc' = "parse" /\ unread' = {}
          /\ pp_value' \in Pending \/ pp_value' = EmptySlice
      BY <1>4 DEF FindNothing, cursorUnchanged, docVars, jobVars
    <2> QED BY <2>1, PendingListed DEF CursorInv, MainLoop, CursorJob, EmptySlice
  <1>5. CASE FindEntry
    <2>1. /\ UNCHANGED <<handles, completed, failed, entries, current, pp_scenario>>
          /\ pc = "find" /\ pc' \in {"parse", "handle"}
          /\ unread' \subseteq Pending /\ pp_value' \in Pending
      BY <1>5 DEF FindEntry, cursorUnchanged, docVars, jobVars, AfterFind
    <2>2. /\ current > 0 /\ CursorJob \in completed \ failed
          /\ Pending \subseteq entries[CursorJob]
      BY <2>1, PendingListed DEF MainLoop
    <2>3. \A e \in entries[CursorJob] : e.size # 0
      <3>1. current \in Preparsers /\ pp_scenario[current] \in Scenarios
        BY <2>2 DEF TypeInv, TypeOK, CursorTypes, Contexts, Preparsers
      <3>2. /\ entries[CursorJob] \subseteq Slices
            /\ \A e \in entries[CursorJob] : e.size >= 2
        BY <3>1, PublishedTypes DEF Results, ResultsOf, CursorJob, TypeInv, TypeOK
      <3>3. \A e \in Slices : e.size >= 2 => e.size # 0
        BY SizesAssumption DEF Slices
      <3> QED BY <3>2, <3>3
    <2>4. CursorJob' = CursorJob
      BY <2>1 DEF CursorJob
    <2> QED BY <2>1, <2>2, <2>3, <2>4 DEF CursorInv
  <1>6. CASE ParseContinues \/ ParseFinishes \/ ParseFails \/ HandleFails
    <2>1. /\ UNCHANGED <<handles, completed, failed, entries, cursorVars>>
          /\ pc \in MainLoop \ {"await"} /\ pc' \notin {"handle", "call", "create"}
      BY <1>6
      DEF ParseContinues, ParseFinishes, ParseFails, HandleFails, MainFails,
          cursorUnchanged, MainLoop, docVars, jobVars
    <2> QED BY <2>1 DEF CursorInv, MainLoop, cursorVars, CursorJob
  <1>7. CASE AddHandle
    <2>1. /\ UNCHANGED <<completed, failed, entries, cursorVars>>
          /\ pc = "handle" /\ pc' = "token"
          /\ handles' = handles \cup {[segment_no |-> chunk_no[current],
                                       job |-> CursorJob]}
      BY <1>7 DEF AddHandle, jobVars, CursorJob
    <2>2. current > 0 /\ CursorJob \in completed \ failed
      BY <2>1 DEF CursorInv, MainLoop
    <2>3. chunk_no[current] = CursorJob[1]
      <3>1. current \in Preparsers /\ pp_scenario[current] \in Scenarios
        BY <2>2 DEF TypeInv, TypeOK, CursorTypes, Contexts, Preparsers
      <3>2. <<current, pp_scenario[current]>> \in completed
        BY <2>2 DEF CursorJob
      <3>3. thread_pc[current] # "absent"
        BY <3>1, <3>2 DEF Stages, Scenarios
      <3>4. current <= threads_created
        <4>1. current \in Int /\ threads_created \in Int
          BY DEF TypeInv, TypeOK, CursorTypes, LayoutTypes, Contexts
        <4>2. ~(current > threads_created)
          BY <3>1, <3>3 DEF Stages
        <4> QED BY <4>1, <4>2
      <3> QED BY <3>1, <3>4 DEF Phases, CursorJob
    <2> QED BY <2>1, <2>3 DEF CursorInv, MainLoop, cursorVars, CursorJob
  <1>8. CASE Finish \/ DocumentFree
    <2>1. /\ UNCHANGED <<handles, completed, failed>>
          /\ pc' \notin MainLoop \cup {"call", "create"}
      BY <1>8
      DEF Finish, Collect, ReturnSuccess, CleanupNotInString, CleanupInString,
          CleanupJob, ReturnError, DocumentFree, docVars, jobVars, MainLoop
    <2> QED BY <2>1 DEF CursorInv, MainLoop
  <1>9. ASSUME NEW t \in Preparsers, Thread(t) PROVE CursorInv'
    <2>1. UNCHANGED <<callerVars, cursorVars, docVars>>
      BY <1>9 DEF Thread, Preparse, Publish
    <2>2. \A j \in completed \ failed :
            j \in completed' \ failed' /\ entries'[j] = entries[j]
      <3>1. ASSUME NEW s \in Scenarios, Preparse(t, s)
            PROVE  <<t, s>> \notin completed /\ completed' = completed
                   /\ \A j \in Jobs \ {<<t, s>>} : /\ j \notin failed => j \notin failed'
                                                   /\ entries'[j] = entries[j]
        <4>1. <<t, s>> \notin completed /\ completed' = completed
          BY <3>1 DEF Preparse, Stages, PreparseStage, Scenarios
        <4>2. \A j \in Jobs \ {<<t, s>>} : /\ j \notin failed => j \notin failed'
                                           /\ entries'[j] = entries[j]
          BY <3>1 DEF Preparse, ResultOf
        <4> QED BY <4>1, <4>2
      <3>2. ASSUME NEW s \in Scenarios, Publish(t, s)
            PROVE  completed \subseteq completed' /\ UNCHANGED <<failed, entries>>
        BY <3>2 DEF Publish
      <3>3. completed \subseteq Jobs
        BY DEF TypeInv, TypeOK, JobTypes
      <3> QED BY <1>9, <3>1, <3>2, <3>3 DEF Thread
    <2> QED BY <2>1, <2>2 DEF CursorInv, callerVars, cursorVars, docVars, CursorJob
  <1>10. CASE Terminated \/ UNCHANGED vars
    BY <1>10
    DEF Terminated, vars, callerVars, cursorVars, docVars, jobVars, CursorInv, CursorJob
  <1> QED BY <1>1, <1>2, <1>3, <1>4, <1>5, <1>6, <1>7, <1>8, <1>9, <1>10
          DEF Next, Caller, Cursor, Parse

----------------------------------------------------------------------------
(* The document's segments.                                                 *)

(* The document holds the caller's segment and, for the contexts collected  *)
(* so far, the segment of the chosen scenario; it holds none before and     *)
(* none in case of an error.                                                *)
SegmentsInv ==
  /\ segments[0] = IF pc = "collect" \/ result = "success" THEN {MainSeg} ELSE {}
  /\ \A t \in Preparsers :
       segments[t] = IF (pc = "collect" /\ t < i) \/ result = "success"
                     THEN segment[<<t, pp_scenario[t]>>] ELSE {}

(* The contexts are the first one and those of the threads.                 *)
LEMMA ContextRange ==
  /\ EffectiveThreads \in Nat \ {0}
  /\ 0 \in Contexts /\ 0 \notin Preparsers
  /\ \A t \in Preparsers : t \in Contexts /\ t \in Int /\ t >= 1 /\ t < EffectiveThreads
  /\ \A t \in Contexts : t \in Int /\ (t = 0 \/ t \in Preparsers)
  <1>1. EffectiveThreads \in Nat \ {0}
    BY Threads
  <1> QED BY <1>1 DEF Contexts, Preparsers

(* The document holds no segment initially.                                 *)
LEMMA SegmentsInit == Init => SegmentsInv
  BY Threads DEF Init, SegmentsInv, Contexts, Preparsers

(* A segment that the document holds belongs to a thread that is over.      *)
LEMMA SettledSegments ==
  ASSUME Stages, Phases, NEW t \in Preparsers, NEW u \in Preparsers, NEW s \in Scenarios,
         Preparse(u, s), (pc = "collect" /\ t < i) \/ result = "success"
  PROVE  u # t
  <1>1. Exited(t)
    BY DEF Phases
  <1> QED BY <1>1 DEF Exited, Preparse, PreparseStage

(* Every step keeps the segments.                                           *)
LEMMA SegmentsStep ==
  TypeInv /\ Stages /\ Phases /\ SegmentsInv /\ [Next]_vars => SegmentsInv'
  <1> SUFFICES ASSUME TypeInv, Stages, Phases, SegmentsInv, [Next]_vars PROVE SegmentsInv'
    OBVIOUS
  <1>0. /\ 0 \in Contexts /\ 0 \notin Preparsers /\ i \in Int
        /\ segments \in [Contexts -> SUBSET Blocks]
        /\ \A t \in Preparsers :
             t \in Contexts /\ t \in Int /\ t >= 1 /\ t < EffectiveThreads
        /\ EffectiveThreads \in Int
    <2>1. i \in Int /\ segments \in [Contexts -> SUBSET Blocks]
      BY Threads DEF TypeInv, TypeOK, CallerTypes, DocTypes
    <2> QED BY <2>1, ContextRange
  <1>1. CASE Setup
    BY <1>1
    DEF Setup, Call, AllocateFails, CreateThread, CreateFails, DetachFails, StartMain,
        MainInitFails, AllThreadsCreated, FillContext, docVars, SegmentsInv, Phases
  <1>2. CASE (Tokens \/ Cursor \/ Parse) /\ ~ParseFinishes
    <2>1. pc \in MainLoop /\ pc' # "collect" /\ UNCHANGED <<segments, result>>
      BY <1>2, LoopStep DEF MainFails, docVars, MainLoop
    <2> QED BY <2>1 DEF SegmentsInv, Phases, MainLoop
  <1>3. CASE ParseFinishes
    <2>1. pc = "parse" /\ pc' = "collect" /\ i' = 1 /\ result' = result
          /\ segments' = [segments EXCEPT ![0] = {MainSeg}]
      BY <1>3 DEF ParseFinishes, MainSeg
    <2> QED BY <1>0, <2>1 DEF SegmentsInv, Phases
  <1>4. CASE Collect
    <2>1. i \in Preparsers
      BY <1>4, <1>0 DEF Collect, Phases, TypeInv, TypeOK, CallerTypes, Preparsers
    <2>2. /\ segments' = [segments EXCEPT ![i] = segment[<<i, pp_scenario[i]>>]]
          /\ i' = i + 1 /\ pc' = "collect" /\ pc = "collect"
          /\ UNCHANGED <<result, segment, pp_scenario>>
      BY <1>4 DEF Collect, CollectScenario, jobVars, cursorVars
    <2>3. \A t \in Preparsers : t < i' <=> t < i \/ t = i
      BY <1>0, <2>2
    <2> QED BY <1>0, <2>1, <2>2 DEF SegmentsInv
  <1>5. CASE ReturnSuccess
    <2>1. /\ pc = "collect" /\ \A t \in Preparsers : t < i
      BY <1>5, <1>0 DEF ReturnSuccess, Phases
    <2>2. UNCHANGED <<segments, segment, pp_scenario>> /\ result' = "success"
      BY <1>5 DEF ReturnSuccess, docVars, jobVars, cursorVars
    <2> QED BY <2>1, <2>2 DEF SegmentsInv
  <1>6. CASE CleanupNotInString \/ CleanupInString \/ ReturnError
    <2>1. /\ pc \in {"cleanup_not", "cleanup_in"} /\ pc' # "collect"
          /\ result' # "success"
          /\ segments' = segments
      BY <1>6
      DEF CleanupNotInString, CleanupInString, CleanupJob, ReturnError, Phases, docVars
    <2> QED BY <2>1 DEF SegmentsInv, Phases
  <1>7. CASE DocumentFree
    BY <1>7 DEF DocumentFree, docVars, jobVars, cursorVars, SegmentsInv
  <1>8. ASSUME NEW u \in Preparsers, NEW s \in Scenarios, Preparse(u, s)
        PROVE  SegmentsInv'
    <2>1. UNCHANGED <<callerVars, cursorVars, docVars>>
      BY <1>8 DEF Preparse
    <2>2. ASSUME NEW t \in Preparsers, u # t
          PROVE  segment'[<<t, pp_scenario[t]>>] = segment[<<t, pp_scenario[t]>>]
      BY <1>8, <2>2 DEF Preparse, ResultOf
    <2> QED BY <1>8, <2>1, <2>2, SettledSegments
            DEF SegmentsInv, callerVars, cursorVars, docVars
  <1>9. ASSUME NEW u \in Preparsers, NEW s \in Scenarios, Publish(u, s)
        PROVE  SegmentsInv'
    BY <1>9 DEF Publish, SegmentsInv, callerVars, cursorVars, docVars
  <1>10. CASE Terminated \/ UNCHANGED vars
    BY <1>10 DEF Terminated, vars, callerVars, cursorVars, docVars, jobVars, SegmentsInv
  <1> QED BY <1>1, <1>2, <1>3, <1>4, <1>5, <1>6, <1>7, <1>8, <1>9, <1>10
          DEF Next, Caller, Finish, Thread

----------------------------------------------------------------------------
(* The heap.                                                                *)

(* The caller has disposed of job s of thread t,                            *)
Released(t, s) ==
  \/ pc \in {"collect", "cleanup_not"} /\ t < i
  \/ pc = "cleanup_in" /\ (t < i \/ (t = i /\ s = NotInString))
  \/ pc \in {"returned", "freed"}

(* by moving its segment into the document instead of freeing it.           *)
Kept(t, s) == /\ s = pp_scenario[t]
              /\ pc = "collect" \/ (pc = "returned" /\ result = "success")

(* When the blocks of a job are allocated: its stack never outlives a       *)
(* preparsing, its table lives from the publishing to the release, its      *)
(* segment for as long, or as the document if it is kept.                   *)
OfJob(t, s) ==
  /\ Stk(t, s) \notin live
  /\ Tab(t, s) \in live <=> pp_table[<<t, s>>] # {} /\ ~Released(t, s)
  /\ Seg(t, s) \in live <=> segment[<<t, s>>] # {} /\ (~Released(t, s) \/ Kept(t, s))

(* When the caller's blocks are allocated: the document until the client    *)
(* frees it or the call fails, the contexts for the time of the call, stack *)
(* and segment for the time of the parse, and the segment as long as the    *)
(* document from then on.                                                   *)
OfCaller ==
  /\ misused = {}
  /\ Document \in live <=> pc \notin {"call", "freed"} /\ result # "error"
  /\ ThreadContexts \in live <=> pc \notin {"call", "returned", "freed"}
  /\ MainStk \in live <=> pc \in MainLoop
  /\ MainSeg \in live <=> \/ pc \in MainLoop \cup {"collect"}
                          \/ pc = "returned" /\ result = "success"
  /\ MainTab \notin live

(* All of it, and no block has been freed that was not allocated.           *)
Memory == OfCaller /\ \A t \in Preparsers, s \in Scenarios : OfJob(t, s)

(* Blocks of different kinds or of different jobs are different.            *)
LEMMA Distinct ==
  /\ MainStk # MainSeg /\ MainStk # MainTab /\ MainSeg # MainTab
  /\ \A b \in {MainSeg, MainTab, MainStk} : b # Document /\ b # ThreadContexts
  /\ Document # ThreadContexts
  /\ \A t \in Preparsers, s \in Scenarios :
       \A b \in {Seg(t, s), Tab(t, s), Stk(t, s)} :
         b \notin {Document, ThreadContexts, MainSeg, MainTab, MainStk}
  /\ \A t \in Preparsers, s \in Scenarios, u \in Preparsers, r \in Scenarios :
       /\ Seg(t, s) # Tab(u, r) /\ Seg(t, s) # Stk(u, r) /\ Tab(t, s) # Stk(u, r)
       /\ Seg(t, s) = Seg(u, r) => t = u /\ s = r
       /\ Tab(t, s) = Tab(u, r) => t = u /\ s = r
  <1>1. 0 \notin Preparsers
    BY DEF Preparsers
  <1> QED BY <1>1
          DEF MainStk, MainSeg, MainTab, Document, ThreadContexts, Seg, Tab, Stk, Block,
              MainJob

(* There are no other blocks.                                               *)
LEMMA BlockCases ==
  ASSUME NEW b \in Blocks
  PROVE  \/ b \in {Document, ThreadContexts, MainSeg, MainTab, MainStk}
         \/ \E t \in Preparsers, s \in Scenarios : b \in {Seg(t, s), Tab(t, s), Stk(t, s)}
  <1>1. CASE b \in {Document, ThreadContexts}
    BY <1>1
  <1>2. CASE \E kind \in {"segment", "table", "stack"}, job \in Jobs \cup {MainJob} :
               b = Block(kind, job)
    <2>1. PICK kind \in {"segment", "table", "stack"}, job \in Jobs \cup {MainJob} :
            b = Block(kind, job)
      BY <1>2
    <2>2. CASE job = MainJob
      BY <2>1, <2>2 DEF MainSeg, MainTab, MainStk
    <2>3. CASE job \in Jobs
      <3>1. PICK t \in Preparsers, s \in Scenarios : job = <<t, s>>
        BY <2>3 DEF Jobs
      <3> QED BY <2>1, <3>1 DEF Seg, Tab, Stk
    <2> QED BY <2>2, <2>3
  <1> QED BY <1>1, <1>2 DEF Blocks

(* Nothing is allocated initially.                                          *)
LEMMA MemoryInit == Init => Memory
  BY JobRange DEF Init, Memory, MainLoop, OfCaller, OfJob

(* A thread that was not created shows no result.                           *)
LEMMA Unstarted ==
  ASSUME TypeInv, Stages, Results,
         NEW t \in Preparsers, NEW s \in Scenarios, t > threads_created
  PROVE  segment[<<t, s>>] = {} /\ pp_table[<<t, s>>] = {}
  <1>1. thread_pc[t] = "absent"
    BY DEF Stages
  <1> QED BY <1>1 DEF Results, ResultsOf, Written

(* A completed job shows both of its blocks or none.                        *)
LEMMA Finished ==
  ASSUME Results, NEW t \in Preparsers, NEW s \in Scenarios,
         Stages, <<t, s>> \in completed
  PROVE  \/ segment[<<t, s>>] = {Seg(t, s)} /\ pp_table[<<t, s>>] = {Tab(t, s)}
         \/ segment[<<t, s>>] = {} /\ pp_table[<<t, s>>] = {}
  <1>1. Written(t, s)
    BY DEF Stages, Written, Scenarios
  <1> QED BY <1>1 DEF Results, ResultsOf

(* The caller disposes of no job whose thread is still at work.             *)
LEMMA NotReleased ==
  ASSUME Phases, NEW t \in Preparsers, NEW s \in Scenarios, Preparse(t, s), TypeInv
  PROVE  ~Released(t, s)
  <1>1. thread_pc[t] \notin {"absent", "exited"}
    BY DEF Preparse, PreparseStage
  <1> QED BY <1>1 DEF Released, Phases, Exited

(* The segments thsn_document_free finds are the caller's and the kept one  *)
(* of every thread.                                                         *)
LEMMA DocumentSegments ==
  ASSUME TypeInv, Phases, SegmentsInv, result = "success"
  PROVE  \A b : b \in SegmentBlocks <=>
                  \/ b = MainSeg
                  \/ \E t \in Preparsers : b \in segment[<<t, pp_scenario[t]>>]
  <1>1. segment_count = EffectiveThreads /\ EffectiveThreads \in Nat \ {0}
    BY Threads DEF Phases
  <1>2. \A t : t \in Contexts /\ t < segment_count <=> t = 0 \/ t \in Preparsers
    BY <1>1 DEF Contexts, Preparsers
  <1>3. /\ segments[0] = {MainSeg}
        /\ \A t \in Preparsers : segments[t] = segment[<<t, pp_scenario[t]>>]
    BY DEF SegmentsInv
  <1> QED BY <1>2, <1>3 DEF SegmentBlocks

(* In case of an error thsn_document_free finds no segment.                 *)
LEMMA NoSegments ==
  ASSUME TypeInv, SegmentsInv, pc # "collect", result # "success"
  PROVE  SegmentBlocks = {}
  <1>1. \A t \in Contexts : segments[t] = {}
    BY ContextRange DEF SegmentsInv
  <1> QED BY <1>1 DEF SegmentBlocks

(* The memory while the threads are being created,                          *)
LEMMA SetupMemory ==
  ASSUME NothingLost, TypeInv, Stages, Phases, Results, Memory, Setup
  PROVE  Memory'
  <1>0. /\ OfCaller /\ \A t \in Preparsers, s \in Scenarios : OfJob(t, s)
        /\ pc \in {"call", "create"} /\ result = "none"
        /\ \A t \in Preparsers, s \in Scenarios : ~Released(t, s) /\ ~Kept(t, s)
    BY DEF Memory, Setup, Call, AllocateFails, CreateThread, CreateFails, DetachFails,
           StartMain, MainInitFails, FillContext, AllThreadsCreated, Phases, Released,
           Kept
  <1>1. CASE Call
    <2>1. /\ live' = live \cup {Document, ThreadContexts} /\ misused' = misused
          /\ pc = "call" /\ pc' = "create" /\ UNCHANGED <<result, segment, pp_table>>
      BY <1>1 DEF Call, Allocate, jobVars
    <2>2. OfCaller'
      BY <1>0, <2>1, Distinct DEF OfCaller, MainLoop
    <2>3. \A t \in Preparsers, s \in Scenarios : OfJob(t, s)'
      BY <1>0, <2>1, Distinct DEF OfJob, Released
    <2> QED BY <2>2, <2>3 DEF Memory, OfCaller, OfJob
  <1>2. CASE AllocateFails
    <2>1. /\ pc' = "returned" /\ result' = "error" /\ pc = "call"
          /\ UNCHANGED <<live, misused, segment, pp_table>>
      BY <1>2 DEF AllocateFails, jobVars, heapVars
    <2>2. \A t \in Preparsers, s \in Scenarios :
            segment[<<t, s>>] = {} /\ pp_table[<<t, s>>] = {}
      <3>1. \A t \in Preparsers : t > threads_created
        BY <2>1, ContextRange DEF TypeInv, Control
      <3> QED BY <3>1, Unstarted
    <2>3. OfCaller'
      BY <1>0, <2>1 DEF OfCaller, MainLoop
    <2>4. \A t \in Preparsers, s \in Scenarios : OfJob(t, s)'
      BY <1>0, <2>1, <2>2 DEF OfJob
    <2> QED BY <2>3, <2>4 DEF Memory, OfCaller, OfJob
  <1>3. ASSUME UNCHANGED <<live, misused, segment, pp_table, result>>, pc = "create",
               pc' = "create" \/ (pc' = "cleanup_not" /\ i' = 1)
        PROVE  Memory'
    <2>1. OfCaller'
      BY <1>0, <1>3 DEF OfCaller, MainLoop
    <2>2. \A t \in Preparsers, s \in Scenarios : ~Released(t, s)'
      BY <1>3, ContextRange DEF Released
    <2>3. \A t \in Preparsers, s \in Scenarios : OfJob(t, s)'
      BY <1>0, <1>3, <2>2 DEF OfJob
    <2> QED BY <2>1, <2>3 DEF Memory, OfCaller, OfJob
  <1>4. CASE CreateThread \/ CreateFails \/ DetachFails
    BY <1>3, <1>4
    DEF CreateThread, CreateFails, DetachFails, FillContext, StartThread, jobVars,
        heapVars
  <1>5. CASE StartMain
    <2>1. /\ live' = live \cup {MainSeg, MainStk} /\ misused' = misused /\ pc = "create"
          /\ pc' = "token" /\ UNCHANGED <<result, segment, pp_table>>
      BY <1>5 DEF StartMain, AllThreadsCreated, Allocate, jobVars, MainSeg, MainStk
    <2>2. OfCaller'
      BY <1>0, <2>1, Distinct DEF OfCaller, MainLoop
    <2>3. \A t \in Preparsers, s \in Scenarios : OfJob(t, s)'
      BY <1>0, <2>1, Distinct DEF OfJob, Released
    <2> QED BY <2>2, <2>3 DEF Memory, OfCaller, OfJob
  <1>6. CASE MainInitFails
    <2>1. "no_segment" \notin PreparseOutcomes
      BY DEF NothingLost, LeftAllocated, Published
    <2>2. live' = live /\ misused' = misused
      BY <1>6, <2>1 DEF MainInitFails, Allocate
    <2> QED BY <1>3, <1>6, <2>2 DEF MainInitFails, AllThreadsCreated, jobVars
  <1> QED BY <1>1, <1>2, <1>4, <1>5, <1>6 DEF Setup

(* while the caller parses,                                                 *)
LEMMA LoopMemory ==
  ASSUME Phases, Memory, Tokens \/ Cursor \/ Parse
  PROVE  Memory'
  <1>0. /\ OfCaller /\ \A t \in Preparsers, s \in Scenarios : OfJob(t, s)
        /\ pc \in MainLoop /\ result = "none" /\ result' = result
        /\ UNCHANGED <<segment, pp_table>>
        /\ \A t \in Preparsers, s \in Scenarios : ~Released(t, s) /\ ~Kept(t, s)
    BY LoopStep DEF Memory, Released, Kept, MainLoop, Phases, jobVars
  <1>1. CASE pc' \in MainLoop /\ UNCHANGED heapVars
    <2>1. OfCaller'
      BY <1>0, <1>1 DEF OfCaller, MainLoop, heapVars
    <2>2. \A t \in Preparsers, s \in Scenarios : OfJob(t, s)'
      BY <1>0, <1>1 DEF OfJob, Released, MainLoop, heapVars
    <2> QED BY <2>1, <2>2 DEF Memory, OfCaller, OfJob
  <1>2. CASE MainFails
    <2>1. /\ live' = live \ {MainSeg, MainStk} /\ misused' = misused
          /\ pc' = "cleanup_not" /\ i' = 1
      <3>1. {MainSeg, MainStk} \subseteq live
        BY <1>0 DEF OfCaller
      <3> QED BY <1>2, <3>1 DEF MainFails, Free, MainSeg, MainStk
    <2>2. OfCaller'
      BY <1>0, <2>1, Distinct DEF OfCaller, MainLoop
    <2>3. \A t \in Preparsers, s \in Scenarios : ~Released(t, s)'
      BY <2>1, ContextRange DEF Released
    <2>4. \A t \in Preparsers, s \in Scenarios : OfJob(t, s)'
      BY <1>0, <2>1, <2>3, Distinct DEF OfJob
    <2> QED BY <2>2, <2>4 DEF Memory, OfCaller, OfJob
  <1>3. CASE ParseFinishes
    <2>1. /\ live' = live \ {MainStk} /\ misused' = misused
          /\ pc' = "collect" /\ i' = 1
      <3>1. {MainStk} \subseteq live
        BY <1>0 DEF OfCaller
      <3> QED BY <1>3, <3>1 DEF ParseFinishes, Free, MainStk
    <2>2. OfCaller'
      BY <1>0, <2>1, Distinct DEF OfCaller, MainLoop
    <2>3. \A t \in Preparsers, s \in Scenarios : ~Released(t, s)'
      BY <2>1, ContextRange DEF Released
    <2>4. \A t \in Preparsers, s \in Scenarios : OfJob(t, s)'
      BY <1>0, <2>1, <2>3, Distinct DEF OfJob
    <2> QED BY <2>2, <2>4 DEF Memory, OfCaller, OfJob
  <1> QED BY <1>1, <1>2, <1>3, LoopStep

(* while it collects the results of a chunk: exactly the segment of the     *)
(* other scenario and both tables are freed,                                *)
LEMMA CollectMemory ==
  ASSUME TypeInv, Stages, Phases, Results, Memory, Collect
  PROVE  Memory'
  <1> DEFINE s == pp_scenario[i]
  <1>0. /\ OfCaller /\ \A t \in Preparsers, r \in Scenarios : OfJob(t, r)
        /\ result = "none" /\ pc = "collect" /\ pc' = "collect" /\ i' = i + 1
        /\ UNCHANGED <<result, segment, pp_table, pp_scenario>>
    BY DEF Memory, Collect, Phases, jobVars, cursorVars
  <1>1. /\ i \in Preparsers /\ s \in Scenarios /\ Other(s) \in Scenarios
        /\ \A r \in Scenarios : r = s \/ r = Other(s)
        /\ s # Other(s) /\ Scenarios = {NotInString, InString}
    <2>1. i \in Preparsers
      BY ContextRange DEF Collect, Phases, TypeInv, TypeOK, CallerTypes, Preparsers
    <2>2. s \in Scenarios
      BY <2>1, ContextRange DEF TypeInv, TypeOK, CursorTypes
    <2> QED BY <2>1, <2>2 DEF Other, Scenarios, InString, NotInString
  <1>2. \A t \in Preparsers : /\ i # t => (t < i' <=> t < i)
                              /\ i < i' /\ ~(i < i)
    BY <1>0, <1>1, ContextRange
  <1>3. \A r \in Scenarios :
          \/ segment[<<i, r>>] = {Seg(i, r)} /\ pp_table[<<i, r>>] = {Tab(i, r)}
          \/ segment[<<i, r>>] = {} /\ pp_table[<<i, r>>] = {}
    <2>1. \A r \in Scenarios : <<i, r>> \in completed
      BY <1>1 DEF Collect, Scenarios
    <2> QED BY <1>1, <2>1, Finished
  <1>4. /\ live' = live \ Discarded(i, s)
        /\ misused' = misused \cup (Discarded(i, s) \ live)
    BY DEF Collect, CollectScenario, Free
  <1>5. Discarded(i, s) = segment[<<i, Other(s)>>]
                            \cup pp_table[<<i, s>>] \cup pp_table[<<i, Other(s)>>]
    BY <1>1 DEF Discarded, Scenarios
  <1>6. Discarded(i, s) \subseteq live
    <2>1. \A r \in Scenarios :
            segment[<<i, r>>] \subseteq live /\ pp_table[<<i, r>>] \subseteq live
      <3>1. \A r \in Scenarios : ~Released(i, r)
        BY <1>0, <1>2, <1>1 DEF Released
      <3> QED BY <1>0, <1>1, <1>3, <3>1 DEF OfJob
    <2> QED BY <1>1, <1>5, <2>1
  <1>7. OfCaller'
    <2>1. \A b \in {Document, ThreadContexts, MainSeg, MainTab, MainStk} :
            b \notin Discarded(i, s)
      BY <1>1, <1>3, <1>5, Distinct
    <2> QED BY <1>0, <1>4, <1>6, <2>1 DEF OfCaller
  <1>8. ASSUME NEW t \in Preparsers, NEW r \in Scenarios
        PROVE  OfJob(t, r)'
    <2>1. CASE t = i
      <3>1. ~Released(t, r) /\ Released(t, r)' /\ (Kept(t, r)' <=> r = pp_scenario[t])
        BY <1>0, <1>2, <2>1 DEF Released, Kept
      <3>2. Tab(t, r) \notin live' /\ Stk(t, r) \notin live'
        <4>1. Tab(t, r) \in live => pp_table[<<t, r>>] = {Tab(t, r)}
          BY <1>0, <1>3, <2>1 DEF OfJob
        <4>2. pp_table[<<t, r>>] \subseteq Discarded(i, s)
          BY <1>1, <1>5, <2>1
        <4> QED BY <1>0, <1>4, <4>1, <4>2 DEF OfJob
      <3>3. CASE r = s
        <4>1. Seg(t, r) \notin Discarded(i, s)
          BY <1>1, <1>3, <1>5, <3>3, Distinct
        <4> QED BY <1>0, <1>4, <2>1, <3>1, <3>2, <3>3, <4>1 DEF OfJob
      <3>4. CASE r # s
        <4>1. Seg(t, r) \in live => segment[<<t, r>>] = {Seg(t, r)}
          BY <1>0, <1>3, <2>1 DEF OfJob
        <4>2. segment[<<t, r>>] \subseteq Discarded(i, s)
          BY <1>1, <1>5, <2>1, <3>4
        <4>3. Seg(t, r) \notin live'
          BY <1>4, <4>1, <4>2
        <4> QED BY <2>1, <3>1, <3>2, <3>4, <4>3 DEF OfJob
      <3> QED BY <3>3, <3>4
    <2>2. CASE t # i
      <3>1. (Released(t, r)' <=> Released(t, r)) /\ (Kept(t, r)' <=> Kept(t, r))
        BY <1>0, <1>2, <2>2 DEF Released, Kept
      <3>2. Seg(t, r) \notin Discarded(i, s) /\ Tab(t, r) \notin Discarded(i, s)
        BY <1>1, <1>3, <1>5, <2>2, Distinct
      <3> QED BY <1>0, <1>4, <3>1, <3>2 DEF OfJob
    <2> QED BY <2>1, <2>2
  <1> QED BY <1>7, <1>8 DEF Memory, OfCaller, OfJob

(* while it frees what a job has published on an error,                     *)
LEMMA CleanupMemory ==
  ASSUME TypeInv, Stages, Phases, Results, Memory,
         CleanupNotInString \/ CleanupInString
  PROVE  Memory'
  <1> DEFINE s == IF pc = "cleanup_not" THEN NotInString ELSE InString
  <1>0. /\ OfCaller /\ \A t \in Preparsers, r \in Scenarios : OfJob(t, r)
        /\ result = "none" /\ UNCHANGED <<result, segment, pp_table>>
        /\ \/ pc = "cleanup_not" /\ pc' = "cleanup_in" /\ i' = i
           \/ pc = "cleanup_in" /\ pc' = "cleanup_not" /\ i' = i + 1
        /\ <<i, s>> \in completed /\ i <= threads_created
        /\ live' = live \ (segment[<<i, s>>] \cup pp_table[<<i, s>>])
        /\ misused' = misused \cup ((segment[<<i, s>>] \cup pp_table[<<i, s>>]) \ live)
    BY DEF Memory, CleanupNotInString, CleanupInString, CleanupJob, LastCleanedUp, Free,
           Phases, jobVars
  <1>1. i \in Preparsers /\ s \in Scenarios
    <2>1. /\ i \in Int /\ i >= 1
          /\ threads_created \in Int /\ threads_created <= EffectiveThreads - 1
      BY ContextRange DEF TypeInv, TypeOK, CallerTypes, LayoutTypes
    <2> QED BY <1>0, <2>1, ContextRange DEF Preparsers, Scenarios
  <1>2. \A t \in Preparsers, r \in Scenarios :
          /\ ~Kept(t, r) /\ ~Kept(t, r)'
          /\ Released(t, r)' <=> Released(t, r) \/ (t = i /\ r = s)
    <2>1. \A t \in Preparsers : t < i + 1 <=> t < i \/ t = i
      BY <1>1, ContextRange
    <2> QED BY <1>0, <2>1 DEF Released, Kept, Scenarios
  <1>3. ~Released(i, s)
    BY <1>0, <1>1, ContextRange DEF Released, InString, NotInString
  <1>4. \/ segment[<<i, s>>] = {Seg(i, s)} /\ pp_table[<<i, s>>] = {Tab(i, s)}
        \/ segment[<<i, s>>] = {} /\ pp_table[<<i, s>>] = {}
    BY <1>0, <1>1, Finished
  <1>5. segment[<<i, s>>] \cup pp_table[<<i, s>>] \subseteq live
    BY <1>0, <1>1, <1>3, <1>4 DEF OfJob
  <1>6. OfCaller'
    <2>1. \A b \in {Document, ThreadContexts, MainSeg, MainTab, MainStk} :
            b \notin segment[<<i, s>>] \cup pp_table[<<i, s>>]
      BY <1>1, <1>4, Distinct
    <2> QED BY <1>0, <1>5, <2>1 DEF OfCaller, MainLoop
  <1>7. ASSUME NEW t \in Preparsers, NEW r \in Scenarios
        PROVE  OfJob(t, r)'
    <2>1. CASE t = i /\ r = s
      BY <1>0, <1>2, <1>4, <2>1 DEF OfJob
    <2>2. CASE ~(t = i /\ r = s)
      <3>1. /\ Seg(t, r) \notin segment[<<i, s>>] \cup pp_table[<<i, s>>]
            /\ Tab(t, r) \notin segment[<<i, s>>] \cup pp_table[<<i, s>>]
        BY <1>1, <1>4, <2>2, Distinct
      <3>2. Released(t, r)' <=> Released(t, r)
        BY <1>2, <2>2
      <3> QED BY <1>0, <1>2, <3>1, <3>2 DEF OfJob
    <2> QED BY <2>1, <2>2
  <1> QED BY <1>6, <1>7 DEF Memory, OfCaller, OfJob

(* and when it returns.                                                     *)
LEMMA ReturnMemory ==
  ASSUME TypeInv, Stages, Phases, Results, SegmentsInv, Memory,
         ReturnSuccess \/ ReturnError
  PROVE  Memory'
  <1>0. /\ OfCaller /\ \A t \in Preparsers, r \in Scenarios : OfJob(t, r)
        /\ result = "none" /\ UNCHANGED <<segment, pp_table, pp_scenario>>
    BY DEF Memory, ReturnSuccess, ReturnError, Phases, jobVars, cursorVars
  <1>1. CASE ReturnSuccess
    <2>1. /\ pc = "collect" /\ pc' = "returned" /\ result' = "success"
          /\ live' = live \ {ThreadContexts} /\ misused' = misused
      BY <1>0, <1>1 DEF ReturnSuccess, Free, OfCaller
    <2>2. \A t \in Preparsers : t < i
      BY <1>1, ContextRange DEF ReturnSuccess, Phases, TypeInv, TypeOK, CallerTypes
    <2>3. \A t \in Preparsers, s \in Scenarios : /\ Released(t, s) /\ Released(t, s)'
                                                 /\ Kept(t, s) <=> Kept(t, s)'
      BY <1>0, <2>1, <2>2 DEF Released, Kept
    <2>4. OfCaller'
      BY <1>0, <2>1, Distinct DEF OfCaller, MainLoop
    <2>5. \A t \in Preparsers, s \in Scenarios : OfJob(t, s)'
      BY <1>0, <2>1, <2>3, Distinct DEF OfJob
    <2> QED BY <2>4, <2>5 DEF Memory, OfCaller, OfJob
  <1>2. CASE ReturnError
    <2>1. /\ pc = "cleanup_not" /\ pc' = "returned" /\ result' = "error"
          /\ i > threads_created
          /\ live' = live \ {ThreadContexts, Document} /\ misused' = misused
      <3>1. SegmentBlocks = {}
        BY <1>0, <1>2, NoSegments DEF ReturnError
      <3> QED BY <1>0, <1>2, <3>1 DEF ReturnError, Free, OfCaller, LastCleanedUp
    <2>2. \A t \in Preparsers, s \in Scenarios :
            \/ Released(t, s)
            \/ segment[<<t, s>>] = {} /\ pp_table[<<t, s>>] = {}
      <3>1. i \in Int /\ threads_created \in Int
        BY ContextRange DEF TypeInv, TypeOK, CallerTypes, LayoutTypes
      <3>2. \A t \in Preparsers : t < i \/ t > threads_created
        BY <2>1, <3>1, ContextRange
      <3> QED BY <2>1, <3>2, Unstarted DEF Released
    <2>3. OfCaller'
      BY <1>0, <2>1, Distinct DEF OfCaller, MainLoop
    <2>4. \A t \in Preparsers, s \in Scenarios :
            Released(t, s)' /\ ~Kept(t, s) /\ ~Kept(t, s)'
      BY <2>1 DEF Released, Kept
    <2>5. \A t \in Preparsers, s \in Scenarios : OfJob(t, s)'
      BY <1>0, <2>1, <2>2, <2>4 DEF OfJob
    <2> QED BY <2>3, <2>5 DEF Memory, OfCaller, OfJob
  <1> QED BY <1>1, <1>2

(* The segment kept for a thread is allocated when the call has succeeded.  *)
LEMMA KeptLive ==
  ASSUME TypeInv, Stages, Phases, Results, Memory, pc = "returned", result = "success",
         NEW t \in Preparsers
  PROVE  /\ pp_scenario[t] \in Scenarios
         /\ \/ segment[<<t, pp_scenario[t]>>] = {Seg(t, pp_scenario[t])}
            \/ segment[<<t, pp_scenario[t]>>] = {}
         /\ segment[<<t, pp_scenario[t]>>] \subseteq live
  <1>1. pp_scenario[t] \in Scenarios
    BY ContextRange DEF TypeInv, TypeOK, CursorTypes
  <1>2. <<t, pp_scenario[t]>> \in completed
    BY <1>1 DEF Phases, Exited, Stages, Scenarios
  <1>3. \/ segment[<<t, pp_scenario[t]>>] = {Seg(t, pp_scenario[t])}
        \/ segment[<<t, pp_scenario[t]>>] = {}
    BY <1>1, <1>2, Finished
  <1> QED BY <1>1, <1>3 DEF Memory, Kept, OfJob

(* The memory when the client frees the document,                           *)
LEMMA FreeMemory ==
  ASSUME TypeInv, Stages, Phases, Results, SegmentsInv, Memory, DocumentFree
  PROVE  Memory'
  <1>0. /\ OfCaller /\ \A t \in Preparsers, r \in Scenarios : OfJob(t, r)
        /\ UNCHANGED <<segment, pp_table, pp_scenario, result>>
        /\ pc = "returned" /\ result = "success" /\ pc' = "freed"
        /\ live' = live \ ({Document} \cup SegmentBlocks)
        /\ misused' = misused \cup (({Document} \cup SegmentBlocks) \ live)
    BY DEF Memory, DocumentFree, Free, jobVars, cursorVars
  <1>1. \A b : b \in SegmentBlocks <=>
                 \/ b = MainSeg
                 \/ \E t \in Preparsers : b \in segment[<<t, pp_scenario[t]>>]
    BY <1>0, DocumentSegments
  <1>2. {Document} \cup SegmentBlocks \subseteq live
    BY <1>0, <1>1, KeptLive DEF OfCaller
  <1>3. \A b \in live : b \notin {Document} \cup SegmentBlocks => b \in live'
    BY <1>0
  <1>4. OfCaller'
    BY <1>0, <1>1, <1>2 DEF OfCaller, MainLoop
  <1>5. ASSUME NEW t \in Preparsers, NEW r \in Scenarios
        PROVE  OfJob(t, r)'
    <2>1. Released(t, r)' /\ ~Kept(t, r)' /\ Released(t, r)
      BY <1>0 DEF Released, Kept
    <2>2. Seg(t, r) \notin live'
      <3>1. CASE Seg(t, r) \in live
        <4>1. segment[<<t, r>>] # {} /\ r = pp_scenario[t]
          BY <1>0, <2>1, <3>1 DEF OfJob, Kept
        <4> QED BY <1>0, <1>1, <4>1, KeptLive
      <3> QED BY <1>0, <3>1
    <2> QED BY <1>0, <2>1, <2>2 DEF OfJob
  <1> QED BY <1>4, <1>5 DEF Memory, OfCaller, OfJob

(* and when a preparsing thread works.                                      *)
LEMMA ThreadMemory ==
  ASSUME NothingLost, TypeInv, Stages, Phases, Results, Memory,
         NEW u \in Preparsers, Thread(u)
  PROVE  Memory'
  <1>0. /\ OfCaller /\ \A t \in Preparsers, r \in Scenarios : OfJob(t, r)
        /\ UNCHANGED <<callerVars, cursorVars>>
    BY DEF Memory, Thread, Preparse, Publish
  <1>1. \A t \in Preparsers, r \in Scenarios : /\ Released(t, r)' <=> Released(t, r)
                                               /\ Kept(t, r)' <=> Kept(t, r)
    BY <1>0 DEF Released, Kept, callerVars, cursorVars
  <1>2. ASSUME NEW s \in Scenarios, Publish(u, s) PROVE Memory'
    BY <1>1, <1>2 DEF Publish, Memory, heapVars, callerVars, OfCaller, OfJob
  <1>3. ASSUME NEW s \in Scenarios, Preparse(u, s) PROVE Memory'
    <2>1. ~Released(u, s) /\ segment[<<u, s>>] = {} /\ pp_table[<<u, s>>] = {}
      BY <1>3, NotReleased, PreparseEffect DEF Results, ResultsOf
    <2>2. misused' = misused
          /\ \/ /\ segment'[<<u, s>>] = {} /\ pp_table'[<<u, s>>] = {} /\ live' = live
             \/ /\ segment'[<<u, s>>] = {Seg(u, s)} /\ pp_table'[<<u, s>>] = {Tab(u, s)}
                /\ live' = live \cup {Seg(u, s), Tab(u, s)}
      BY <1>3, PreparseEffect
    <2>6. \A t \in Preparsers, r \in Scenarios : <<t, r>> # <<u, s>> =>
            /\ Written(t, r)' = Written(t, r)
            /\ segment'[<<t, r>>] = segment[<<t, r>>]
            /\ pp_table'[<<t, r>>] = pp_table[<<t, r>>]
            /\ entries'[<<t, r>>] = entries[<<t, r>>]
            /\ <<t, r>> \in failed' <=> <<t, r>> \in failed
      BY <1>3, PreparseEffect, Zenon
    <2>3. OfCaller'
      BY <1>0, <2>2, Distinct DEF OfCaller, callerVars
    <2>4. OfJob(u, s)'
      BY <1>0, <1>1, <2>1, <2>2, Distinct DEF OfJob
    <2>5. ASSUME NEW t \in Preparsers, NEW r \in Scenarios, <<t, r>> # <<u, s>>
          PROVE  OfJob(t, r)'
      <3>1. /\ segment'[<<t, r>>] = segment[<<t, r>>]
            /\ pp_table'[<<t, r>>] = pp_table[<<t, r>>]
        BY <2>5, <2>6
      <3>2. Seg(t, r) \in live' <=> Seg(t, r) \in live
        BY <2>2, <2>5, Distinct
      <3>3. Tab(t, r) \in live' <=> Tab(t, r) \in live
        BY <2>2, <2>5, Distinct
      <3>4. Stk(t, r) \notin live'
        <4>1. Stk(t, r) \notin live
          BY <1>0 DEF OfJob
        <4> QED BY <2>2, <4>1, Distinct
      <3> QED BY <1>0, <1>1, <3>1, <3>2, <3>3, <3>4 DEF OfJob
    <2> QED BY <2>3, <2>4, <2>5 DEF Memory
  <1> QED BY <1>2, <1>3 DEF Thread

(* Every step keeps the memory as the invariant says.                       *)
LEMMA MemoryStep ==
  /\ NothingLost /\ TypeInv /\ Stages /\ Phases /\ Results /\ SegmentsInv /\ Memory
  /\ [Next]_vars
  => Memory'
  <1> SUFFICES ASSUME NothingLost, TypeInv, Stages, Phases, Results, SegmentsInv, Memory,
                      [Next]_vars
               PROVE  Memory'
    OBVIOUS
  <1>1. CASE Terminated \/ UNCHANGED vars
    BY <1>1
    DEF Terminated, vars, callerVars, heapVars, cursorVars, jobVars, Memory, Released,
        Kept, OfCaller, OfJob
  <1>2. CASE Caller
    BY <1>2, SetupMemory, LoopMemory, CollectMemory, CleanupMemory, ReturnMemory
    DEF Caller, Finish
  <1>3. ASSUME NEW t \in Preparsers, Thread(t) PROVE Memory'
    BY <1>3, ThreadMemory
  <1> QED BY <1>1, <1>2, <1>3, FreeMemory DEF Next

----------------------------------------------------------------------------
(* The theorems.                                                            *)

(* The inductive invariant of the memory theorems.                          *)
MemoryInv == /\ TypeInv /\ Layout /\ Stages /\ Phases /\ Results
             /\ Skipping /\ CursorInv /\ SegmentsInv /\ Memory

(* It holds in every reachable state.                                       *)
LEMMA MemoryAlways ==
  ASSUME FewChunks, NothingLost
  PROVE  Spec => []MemoryInv
  <1>1. Init => MemoryInv
    BY TypeInit, LayoutInit, StagesInit, PhasesInit, ResultsInit, SkippingInit,
       CursorInit, SegmentsInit, MemoryInit
    DEF MemoryInv
  <1>2. MemoryInv /\ [Next]_vars => MemoryInv'
    BY TypeStep, LayoutStep, StagesStep, PhasesStep, ResultsStep, SkippingStep,
       CursorStep, SegmentsStep, MemoryStep
    DEF MemoryInv
  <1> QED BY <1>1, <1>2, PTL DEF Spec

(* No block is ever freed twice, or without having been allocated, by the   *)
(* caller, by the error cleanup or by thsn_document_free.                   *)
THEOREM NothingFreedTwice ==
  ASSUME FewChunks, NothingLost
  PROVE  Spec => []NoDoubleFree
  <1>1. MemoryInv => NoDoubleFree
    BY DEF MemoryInv, Memory, NoDoubleFree, OfCaller, OfJob
  <1> QED BY <1>1, MemoryAlways, PTL

(* The contexts stay allocated until every thread has made its last access  *)
(* to its own, and a table until the cursor has left it.                    *)
THEOREM NothingUsedAfterFree ==
  ASSUME FewChunks, NothingLost
  PROVE  Spec => []NoUseAfterFree
  <1>1. MemoryInv => NoUseAfterFree
    <2> SUFFICES ASSUME MemoryInv PROVE NoUseAfterFree
      OBVIOUS
    <2>1. ASSUME NEW t \in Preparsers, thread_pc[t] \notin {"absent", "exited"}
          PROVE  pc \notin {"call", "returned", "freed"}
      <3>1. pc \notin {"returned", "freed"}
        BY <2>1 DEF MemoryInv, Phases
      <3>2. t <= threads_created /\ threads_created \in Int /\ t >= 1
        <4>1. threads_created \in Int
          BY ContextRange DEF MemoryInv, TypeInv, TypeOK, LayoutTypes
        <4>2. ~(t > threads_created)
          BY <2>1 DEF MemoryInv, Stages
        <4> QED BY <4>1, <4>2, ContextRange
      <3>3. pc # "call"
        BY <3>2, ContextRange DEF MemoryInv, TypeInv, Control
      <3> QED BY <3>1, <3>3
    <2>2. ASSUME unread # {}, pc \in {"advance", "find", "token", "parse", "handle"}
          PROVE  pp_table[CursorJob] # {} /\ pp_table[CursorJob] \subseteq live
      <3>1. current > 0 /\ CursorJob \in completed
        BY <2>2 DEF MemoryInv, CursorInv, MainLoop
      <3>2. CursorJob \notin failed
        BY <2>2 DEF MemoryInv, CursorInv, MainLoop
      <3>3. current \in Preparsers /\ pp_scenario[current] \in Scenarios
        BY <3>1, ContextRange DEF MemoryInv, TypeInv, TypeOK, CursorTypes
      <3>4. Written(current, pp_scenario[current])
        BY <3>1, <3>3 DEF MemoryInv, Stages, Written, CursorJob, Scenarios
      <3>5. pp_table[CursorJob] = {Tab(current, pp_scenario[current])}
        BY <3>2, <3>3, <3>4 DEF MemoryInv, Results, ResultsOf, CursorJob
      <3>6. ~Released(current, pp_scenario[current])
        BY <2>2 DEF Released
      <3> QED BY <3>3, <3>5, <3>6 DEF MemoryInv, Memory, CursorJob, OfJob
    <2> QED BY <2>1, <2>2 DEF NoUseAfterFree, MemoryInv, Memory, CursorJob, OfCaller
  <1> QED BY <1>1, MemoryAlways, PTL

(* A successful call leaves the document and its segments allocated and     *)
(* nothing else; nothing is left once the document has been freed, or the   *)
(* call has failed.                                                         *)
THEOREM NothingLeaked ==
  ASSUME FewChunks, NothingLost
  PROVE  Spec => []NoLeak
  <1>1. MemoryInv => NoLeak
    <2> SUFFICES ASSUME MemoryInv PROVE NoLeak
      OBVIOUS
    <2>0. live \subseteq Blocks
      BY DEF MemoryInv, TypeInv, TypeOK, HeapTypes
    <2>1. ASSUME pc = "returned", result = "success"
          PROVE  live = {Document} \cup SegmentBlocks
      <3>1. \A b : b \in SegmentBlocks <=>
                     \/ b = MainSeg
                     \/ \E t \in Preparsers : b \in segment[<<t, pp_scenario[t]>>]
        BY <2>1, DocumentSegments DEF MemoryInv
      <3>2. {Document} \cup SegmentBlocks \subseteq live
        BY <2>1, <3>1, KeptLive DEF MemoryInv, Memory, OfCaller
      <3>3. ASSUME NEW b \in live PROVE b = Document \/ b \in SegmentBlocks
        <4>1. CASE b \in {Document, ThreadContexts, MainSeg, MainTab, MainStk}
          BY <2>1, <3>1, <4>1 DEF MemoryInv, Memory, MainLoop, OfCaller
        <4>2. ASSUME NEW t \in Preparsers, NEW s \in Scenarios,
                     b \in {Seg(t, s), Tab(t, s), Stk(t, s)}
              PROVE  b \in SegmentBlocks
          <5>1. Released(t, s)
            BY <2>1 DEF Released
          <5>2. b = Seg(t, s) /\ segment[<<t, s>>] # {} /\ s = pp_scenario[t]
            BY <4>2, <5>1 DEF MemoryInv, Memory, Kept, OfJob
          <5>3. segment[<<t, s>>] = {Seg(t, s)}
            BY <2>1, <5>2, KeptLive DEF MemoryInv
          <5> QED BY <3>1, <5>2, <5>3
        <4> QED BY <2>0, <4>1, <4>2, BlockCases
      <3> QED BY <3>2, <3>3
    <2>2. ASSUME Done, NEW b \in live PROVE FALSE
      <3>1. /\ pc = "freed" \/ (pc = "returned" /\ result = "error")
            /\ pc = "freed" => result = "success"
        BY <2>2 DEF Done, MemoryInv, Phases
      <3>2. b \notin {Document, ThreadContexts, MainSeg, MainTab, MainStk}
        BY <3>1 DEF MemoryInv, Memory, MainLoop, OfCaller
      <3>3. ASSUME NEW t \in Preparsers, NEW s \in Scenarios
            PROVE  b \notin {Seg(t, s), Tab(t, s), Stk(t, s)}
        BY <3>1 DEF MemoryInv, Memory, Released, Kept, OfJob
      <3> QED BY <2>0, <2>2, <3>2, <3>3, BlockCases
    <2> QED BY <2>1, <2>2 DEF NoLeak
  <1> QED BY <1>1, MemoryAlways, PTL

(* After a successful call every handle leads to the segment of the very    *)
(* preparsing its value comes from, and that segment is still allocated.    *)
THEOREM EveryHandleResolves ==
  ASSUME FewChunks, NothingLost
  PROVE  Spec => []HandlesResolve
  <1>1. MemoryInv => HandlesResolve
    <2> SUFFICES ASSUME MemoryInv, pc = "returned", result = "success", NEW h \in handles
                 PROVE  /\ h.segment_no \in Contexts /\ h.segment_no < segment_count
                        /\ segments[h.segment_no] = {Block("segment", h.job)}
                        /\ segments[h.segment_no] \subseteq live
      BY DEF HandlesResolve
    <2> DEFINE t == h.job[1]
    <2>1. /\ t \in Preparsers /\ h.job = <<t, pp_scenario[t]>>
          /\ h.segment_no = t /\ h.job \in completed /\ h.job \notin failed
      BY DEF MemoryInv, Skipping, HandleOK, CursorInv
    <2>2. t \in Contexts /\ t < segment_count
      BY <2>1, ContextRange DEF MemoryInv, Phases
    <2>3. pp_scenario[t] \in Scenarios
      BY <2>1, ContextRange DEF MemoryInv, TypeInv, TypeOK, CursorTypes
    <2>4. Written(t, pp_scenario[t])
      BY <2>1, <2>3 DEF MemoryInv, Stages, Written, Scenarios
    <2>5. segment[<<t, pp_scenario[t]>>] = {Seg(t, pp_scenario[t])}
      BY <2>1, <2>3, <2>4 DEF MemoryInv, Results, ResultsOf
    <2>6. segments[t] = segment[<<t, pp_scenario[t]>>]
      BY <2>1 DEF MemoryInv, SegmentsInv
    <2>7. segment[<<t, pp_scenario[t]>>] \subseteq live
      BY <2>1, KeptLive DEF MemoryInv
    <2> QED BY <2>1, <2>2, <2>5, <2>6, <2>7 DEF Seg
  <1> QED BY <1>1, MemoryAlways, PTL

----------------------------------------------------------------------------
(* The call of thsn_document_parse_multithreaded keeps the promise of        *)
(* module ParseCall, for every size of the input and number of threads.      *)
(*                                                                          *)
(* The argument: only the caller's own steps end the call, and after that    *)
(* only the client's DocumentFree changes what it sees; that a thread that   *)
(* still runs then changes no memory follows from NoLeak before and after    *)
(* its step, since it changes none of what NoLeak says is allocated.         *)

(* The call returns with a result, and only a document is freed.            *)
ResultKnown ==
  /\ pc = "returned" => result \in {"success", "error"}
  /\ pc = "freed" => result = "success"

(* The caller does nothing when it has returned, and ends with a result.    *)
LEMMA CallerEnds ==
  ASSUME Caller
  PROVE  /\ pc \notin {"returned", "freed"} /\ pc' # "freed"
         /\ pc' = "returned" => result' \in {"success", "error"}
  <1>1. CASE Setup
    BY <1>1 DEF Setup, Call, AllocateFails, CreateThread, CreateFails, DetachFails,
         FillContext, StartMain, MainInitFails, AllThreadsCreated
  <1>2. CASE Tokens
    BY <1>2 DEF Tokens, TokenString, TokenOpen, TokenOther, TokenEof, TokenError,
         NextToken, MainFails
  <1>3. CASE Cursor
    BY <1>3 DEF Cursor, AdvanceHere, AdvanceOut, AdvanceTo, AwaitFailed, LoadTable,
         FindNothing, FindEntry, Awaited, AfterAdvance, AfterFind, MainFails
  <1>4. CASE Parse
    BY <1>4 DEF Parse, ParseContinues, ParseFinishes, ParseFails, AddHandle,
         HandleFails, MainFails
  <1>5. CASE Finish
    BY <1>5 DEF Finish, Collect, ReturnSuccess, CleanupNotInString, CleanupInString,
         CleanupJob, ReturnError
  <1> QED BY <1>1, <1>2, <1>3, <1>4, <1>5 DEF Caller

(* A preparsing thread changes nothing of the caller's.                     *)
LEMMA ThreadsApart ==
  ASSUME NEW t \in Preparsers, Thread(t)
  PROVE  UNCHANGED <<callerVars, docVars>>
  BY DEF Thread, Preparse, Publish

(* The caller has its result when it has returned, at all times.           *)
LEMMA ResultAlways == Spec => []ResultKnown
  <1>1. Init => ResultKnown
    BY DEF Init, ResultKnown
  <1>2. ResultKnown /\ [Next]_vars => ResultKnown'
    <2> SUFFICES ASSUME ResultKnown, [Next]_vars PROVE ResultKnown'
      OBVIOUS
    <2>1. CASE Caller
      BY <2>1, CallerEnds DEF ResultKnown
    <2>2. CASE DocumentFree
      BY <2>2 DEF DocumentFree, ResultKnown
    <2>3. CASE UNCHANGED vars
      BY <2>3 DEF vars, callerVars, ResultKnown
    <2>4. ASSUME NEW t \in Preparsers, Thread(t) PROVE ResultKnown'
      BY <2>4, ThreadsApart DEF callerVars, ResultKnown
    <2> QED BY <2>1, <2>2, <2>3, <2>4 DEF Next, Terminated
  <1> QED BY <1>1, <1>2, PTL DEF Spec

----------------------------------------------------------------------------
(* What NoLeak and HandlesResolve say of the document.                      *)
Complete  == /\ live = DocumentReturned.blocks
             /\ Promise!HandlesResolve(DocumentReturned)

Succeeded == pc = "returned" /\ result = "success" /\ NoLeak /\ HandlesResolve

(* A call that succeeded without a leak returns a complete document.       *)
LEMMA CompleteWhenReturned == Succeeded => Complete
  <1> SUFFICES ASSUME Succeeded PROVE Complete
    OBVIOUS
  <1> USE DEF Succeeded
  <1>1. /\ live = {Document} \cup SegmentBlocks
        /\ DocumentReturned.blocks = {Document} \cup SegmentBlocks
        /\ DocumentReturned.handles =
             {[leads_to |-> segments[h.segment_no],
               value_in |-> Block("segment", h.job)] : h \in handles}
    BY DEF NoLeak, DocumentReturned
  <1>2. ASSUME NEW h \in handles
        PROVE  /\ segments[h.segment_no] = {Block("segment", h.job)}
               /\ Block("segment", h.job) \in SegmentBlocks
    BY DEF HandlesResolve, SegmentBlocks
  <1> QED BY <1>1, <1>2 DEF Complete, Promise!HandlesResolve

(* The same of the state after a step.                                     *)
LEMMA CompleteAfterStep == Succeeded' => Complete'
  BY CompleteWhenReturned, PTL

(* A step that ends the call succeeds or fails.                             *)
LEMMA EndsAsPromised ==
  ASSUME Caller, NoLeak', HandlesResolve', ResultKnown'
  PROVE  Promise!Next
  <1> USE DEF Promise!Next
  <1>0. /\ Status = "running" /\ DocumentReturned = Promise!NoDocument
        /\ pc' # "freed"
    BY CallerEnds DEF Status, DocumentReturned, Promise!NoDocument
  <1>1. CASE pc' # "returned"
    <2>1. Status' = "running" /\ DocumentReturned' = Promise!NoDocument
      BY <1>0, <1>1 DEF Status, DocumentReturned, Promise!NoDocument
    <2> QED BY <1>0, <2>1 DEF Promise!Run
  <1>2. CASE pc' = "returned" /\ result' = "success"
    <2>1. Status' = "success"
      BY <1>2 DEF Status
    <2>2. Complete'
      BY <1>2, CompleteAfterStep DEF Succeeded
    <2> QED BY <1>0, <2>1, <2>2 DEF Complete, Promise!Succeed, Promise!HandlesResolve
  <1>3. CASE pc' = "returned" /\ result' = "error"
    <2>1. Status' = "error" /\ DocumentReturned' = Promise!NoDocument
      BY <1>3 DEF Status, DocumentReturned, Promise!NoDocument
    <2>2. live' = {}
      BY <1>3 DEF NoLeak, Done
    <2> QED BY <1>0, <2>1, <2>2 DEF Promise!Fail
  <1> QED BY <1>1, <1>2, <1>3 DEF ResultKnown

(* A thread that still runs when the call has ended is not noticed.         *)
LEMMA ThreadsUnnoticed ==
  ASSUME NEW t \in Preparsers, Thread(t), NoLeak, NoLeak', ResultKnown
  PROVE  [Promise!Next]_<<Status, live, DocumentReturned>>
  <1>1. UNCHANGED <<pc, result, segments, segment_count, handles>>
    BY ThreadsApart DEF callerVars, docVars
  <1>2. SegmentBlocks' = SegmentBlocks
    BY <1>1 DEF SegmentBlocks
  <1>3. UNCHANGED <<Status, DocumentReturned>>
    BY <1>1, <1>2 DEF Status, DocumentReturned
  <1>4. CASE pc \notin {"returned", "freed"}
    BY <1>3, <1>4 DEF Status, Promise!Next, Promise!Run
  <1>5. CASE pc \in {"returned", "freed"}
    <2>1. live' = live
      BY <1>1, <1>2, <1>5 DEF NoLeak, Done, ResultKnown
    <2> QED BY <1>3, <2>1
  <1> QED BY <1>4, <1>5

(* The promise: whatever the interleaving of the threads, the caller of     *)
(* thsn_document_parse_multithreaded sees one call that allocates what it   *)
(* returns and nothing else, and a document whose handles lead to the       *)
(* segments of their values.                                               *)
THEOREM KeepsPromise ==
  ASSUME FewChunks, NothingLost
  PROVE  Spec => ImplementsParseCall
  <1>1. Init => Promise!Init
    BY DEF Init, Promise!Init, Promise!NoDocument, Status, DocumentReturned
  <1>2. NoLeak /\ NoLeak' /\ HandlesResolve' /\ ResultKnown /\ ResultKnown' /\ [Next]_vars
          => [Promise!Next]_<<Status, live, DocumentReturned>>
    <2> SUFFICES ASSUME NoLeak, NoLeak', HandlesResolve', ResultKnown, ResultKnown',
                        [Next]_vars
                 PROVE  [Promise!Next]_<<Status, live, DocumentReturned>>
      OBVIOUS
    <2>1. CASE Caller
      BY <2>1, EndsAsPromised
    <2>2. CASE DocumentFree
      <3>1. Status = "success" /\ Status' = "freed"
        BY <2>2 DEF DocumentFree, Status
      <3>2. live' = {} /\ DocumentReturned' = Promise!NoDocument
        BY <2>2 DEF DocumentFree, NoLeak, Done, DocumentReturned, Promise!NoDocument
      <3> QED BY <3>1, <3>2 DEF Promise!Next, Promise!Free
    <2>3. CASE UNCHANGED vars
      BY <2>3 DEF vars, callerVars, docVars, heapVars, Status, DocumentReturned,
           SegmentBlocks
    <2>4. ASSUME NEW t \in Preparsers, Thread(t)
          PROVE  [Promise!Next]_<<Status, live, DocumentReturned>>
      BY <2>4, ThreadsUnnoticed
    <2> QED BY <2>1, <2>2, <2>3, <2>4 DEF Next, Terminated
  <1> QED BY <1>1, <1>2, NothingLeaked, EveryHandleResolves, ResultAlways, PTL
        DEF Spec, ImplementsParseCall, Promise!Spec, Promise!vars
=============================================================================
