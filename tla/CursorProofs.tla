---------------------------- MODULE CursorProofs ----------------------------
(***************************************************************************)
(* The cursor over the preparsed tables (thsn_pp_iter_advance_to_char and   *)
(* thsn_pp_iter_find_value_at), for every input and number of threads: it   *)
(* passes no value that the parse may still reach, and finds exactly those  *)
(* that are listed where the parse stands.                                 *)
(*                                                                         *)
(* The argument: the read position only grows; what the cursor's job lists  *)
(* from there on is pending, or the read position has left the chunk, whose *)
(* tables list nothing behind its end.                                     *)
(***************************************************************************)
EXTENDS ParserThreadsProofs

(* Where the parse will read next: at the token that moves the cursor, or   *)
(* behind the one that it is handling.                                     *)
ReadPosition == IF pc \in {"advance", "find"} THEN point ELSE buffer_pos

(* A job lists values that begin in its chunk, and none before its thread   *)
(* was created.                                                            *)
TablesFit ==
  \A t \in Preparsers, s \in Scenarios :
    /\ thread_pc[t] = "absent" => entries[<<t, s>>] = {}
    /\ \A e \in entries[<<t, s>>] : e.size > 0 /\ e.data < SliceEnd(slice[t])

(* The cursor stands on an entry of the table of a completed job, with what *)
(* is unread of it, or on none.                                            *)
OnTable ==
  /\ pp_value.size = 0 => unread = {}
  /\ pp_value.size # 0 =>
       /\ current > 0 /\ CursorJob \in completed
       /\ {pp_value} \cup unread \subseteq entries[CursorJob]

(* What that table lists from the read position on is ahead of the cursor,  *)
(* unless the parse has left the chunk.                                    *)
KeepsRest ==
  current > 0 =>
    \/ SliceEnd(slice[current]) <= ReadPosition
    \/ /\ CursorJob \in completed
       /\ \A e \in entries[CursorJob] :
            e.data >= ReadPosition => e \in {pp_value} \cup unread

(* The inductive invariant of the cursor.                                  *)
CursorRests ==
  /\ pc \in {"call", "create"} => current = 0
  /\ pc \in {"advance", "await", "find", "handle"} => point <= buffer_pos
  /\ pc = "handle" => pp_value.size # 0
  /\ pc \in MainLoop \ {"await"} => OnTable /\ KeepsRest

CursorState == TypeInv /\ Stages /\ TablesFit /\ CursorRests

----------------------------------------------------------------------------
(* The tables.                                                             *)

(* Nothing is listed initially, and the cursor is on the first chunk.       *)
LEMMA CursorStateInit == Init => TablesFit /\ CursorRests
  BY DEF Init, TablesFit, CursorRests, MainLoop, Jobs

(* The ends of chunks and the offsets of entries are numbers.              *)
LEMMA Offsets ==
  ASSUME TypeInv
  PROVE  /\ \A t \in Contexts : slice[t] \in Slices /\ SliceEnd(slice[t]) \in Int
         /\ \A j \in Jobs : \A e \in entries[j] : e \in Slices /\ e.data \in Int
         /\ current \in Contexts /\ current \in Int /\ EmptySlice \in Slices
         /\ current > 0 => current \in Preparsers /\ CursorJob \in Jobs
         /\ point \in Int /\ buffer_pos \in Int /\ ReadPosition \in Int
         /\ pp_value \in Slices /\ unread \subseteq Slices
  <1>1. /\ slice \in [Contexts -> Slices] /\ entries \in [Jobs -> SUBSET Slices]
        /\ current \in Contexts /\ pp_scenario \in [Contexts -> Scenarios]
        /\ point \in 0 .. JsonSize /\ buffer_pos \in 0 .. JsonSize
        /\ pp_value \in Slices /\ unread \subseteq Slices
    BY DEF TypeInv, TypeOK, LayoutTypes, JobTypes, CursorTypes, CallerTypes
  <1>2. \A e \in Slices : e.data \in Int /\ SliceEnd(e) \in Int
    BY SizesAssumption DEF Slices, SliceEnd
  <1>3. EmptySlice \in Slices
    BY SizesAssumption DEF Slices, EmptySlice
  <1>4. current \in Int /\ (current > 0 => current \in Preparsers)
    BY <1>1, Threads DEF Contexts, Preparsers
  <1>5. current > 0 => CursorJob \in Jobs
    BY <1>1, <1>4 DEF CursorJob, Jobs
  <1> QED BY <1>1, <1>2, <1>3, <1>4, <1>5, SizesAssumption DEF ReadPosition

(* Every step keeps the tables in their chunks: a chunk is cut before its   *)
(* thread is created, and a preparsing lists what lies in it.               *)
LEMMA TablesStep == TypeInv /\ Stages /\ TablesFit /\ [Next]_vars => TablesFit'
  <1> SUFFICES ASSUME TypeInv, Stages, TablesFit, [Next]_vars PROVE TablesFit'
    OBVIOUS
  <1>0. /\ \A t \in Preparsers : t \in Int /\ t > 0 /\ t \in Contexts
        /\ slice \in [Contexts -> Slices] /\ thread_pc \in [Preparsers -> ThreadPcs]
        /\ entries \in [Jobs -> SUBSET Slices]
    BY DEF TypeInv, TypeOK, LayoutTypes, JobTypes, ThreadPcs, Preparsers, Contexts
  <1>1. CASE CreateThread \/ CreateFails \/ DetachFails
    <2>1. /\ i \in Preparsers /\ threads_created = i - 1
          /\ slice' = [slice EXCEPT ![i] = [data |-> current_offset, size |-> NextSize]]
          /\ entries' = entries
          /\ thread_pc' = [thread_pc EXCEPT ![i] = "preparse_in"] \/ thread_pc' = thread_pc
      <3>1. FillContext /\ (StartThread \/ UNCHANGED jobVars)
        BY <1>1 DEF CreateThread, CreateFails, DetachFails
      <3> QED BY <3>1, FillContextTypes
              DEF FillContext, StartThread, TypeInv, TypeOK, Control, jobVars
    <2>2. \A s \in Scenarios : entries[<<i, s>>] = {}
      <3>1. i > threads_created
        BY <1>0, <2>1
      <3> QED BY <2>1, <3>1 DEF Stages, TablesFit
    <2>3. ASSUME NEW t \in Preparsers \ {i}
          PROVE  slice'[t] = slice[t] /\ thread_pc'[t] = thread_pc[t]
      BY <1>0, <2>1
    <2> QED BY <2>1, <2>2, <2>3 DEF TablesFit
  <1>2. CASE Call
    <2>1. \A t \in Preparsers : slice'[t] = slice[t]
      BY <1>0, <1>2 DEF Call
    <2> QED BY <1>2, <2>1 DEF Call, TablesFit, jobVars
  <1>3. ASSUME NEW t \in Preparsers, NEW s \in Scenarios, Preparse(t, s)
        PROVE  TablesFit'
    <2>1. PICK E \in SUBSET Preparsable(t, s) :
            entries' = [entries EXCEPT ![<<t, s>>] = E]
      BY <1>3 DEF Preparse, ResultOf, Tables
    <2>2. \A e \in E : e.size > 0 /\ e.data < SliceEnd(slice[t])
      <3>1. \A e \in E : /\ e \in Slices /\ e.size >= 2
                         /\ SliceEnd(e) <= SliceEnd(slice[t])
        BY DEF Preparsable
      <3> QED BY <1>0, <3>1, SizesAssumption DEF Slices, SliceEnd
    <2>3. /\ slice' = slice
          /\ thread_pc' = [thread_pc EXCEPT ![t] = PublishStage(s)]
          /\ PublishStage(s) # "absent"
      BY <1>3 DEF Preparse, layoutVars, PublishStage
    <2>4. ASSUME NEW u \in Preparsers, NEW r \in Scenarios
          PROVE  /\ thread_pc'[u] = "absent" => entries'[<<u, r>>] = {}
                 /\ \A e \in entries'[<<u, r>>] :
                      e.size > 0 /\ e.data < SliceEnd(slice'[u])
      <3>1. CASE u = t /\ r = s
        BY <1>0, <2>1, <2>2, <2>3, <3>1, JobRange
      <3>2. CASE ~(u = t /\ r = s)
        <4>1. entries'[<<u, r>>] = entries[<<u, r>>]
          BY <1>0, <2>1, <3>2, JobRange
        <4>2. thread_pc'[u] = "absent" => thread_pc[u] = "absent"
          BY <1>0, <2>3
        <4> QED BY <2>3, <4>1, <4>2 DEF TablesFit
      <3> QED BY <3>1, <3>2
    <2> QED BY <2>4 DEF TablesFit
  <1>4. ASSUME NEW t \in Preparsers, NEW s \in Scenarios, Publish(t, s)
        PROVE  TablesFit'
    <2>1. /\ slice' = slice /\ entries' = entries
          /\ thread_pc' = [thread_pc EXCEPT ![t] = StageAfter(s)]
          /\ StageAfter(s) # "absent"
      BY <1>4 DEF Publish, layoutVars, StageAfter
    <2> QED BY <1>0, <2>1 DEF TablesFit
  <1>5. CASE UNCHANGED <<layoutVars, jobVars>>
    BY <1>5 DEF TablesFit, layoutVars, jobVars
  <1>6. DocumentFree \/ Terminated \/ UNCHANGED vars => UNCHANGED <<layoutVars, jobVars>>
    BY DEF DocumentFree, Terminated, vars
  <1> QED BY <1>1, <1>2, <1>3, <1>4, <1>5, <1>6, CallerFrame DEF Next, Thread

----------------------------------------------------------------------------
(* The cursor.                                                             *)

(* What was listed for a completed job stays listed, and its flag stays set. *)
LEMMA CompletedKept ==
  TypeInv /\ Stages /\ (\E t \in Preparsers : Thread(t)) =>
    /\ completed \subseteq completed'
    /\ \A j \in completed : entries'[j] = entries[j]
    /\ UNCHANGED <<callerVars, layoutVars, cursorVars>>
  <1> SUFFICES ASSUME TypeInv, Stages, NEW t \in Preparsers, NEW s \in Scenarios,
                      Preparse(t, s) \/ Publish(t, s)
               PROVE  /\ completed \subseteq completed'
                      /\ \A j \in completed : entries'[j] = entries[j]
                      /\ UNCHANGED <<callerVars, layoutVars, cursorVars>>
    BY DEF Thread
  <1>1. CASE Preparse(t, s)
    <2>1. <<t, s>> \notin completed
      BY <1>1 DEF Preparse, Stages, PreparseStage, Scenarios
    <2>2. \A j \in Jobs \ {<<t, s>>} : entries'[j] = entries[j]
      BY <1>1 DEF Preparse, ResultOf
    <2>3. completed \subseteq Jobs
      BY DEF TypeInv, TypeOK, JobTypes
    <2> QED BY <1>1, <2>1, <2>2, <2>3 DEF Preparse
  <1>2. CASE Publish(t, s)
    BY <1>2 DEF Publish
  <1> QED BY <1>1, <1>2

(* The cursor may rest while the read position grows.                      *)
LEMMA Resting ==
  ASSUME TypeInv, OnTable, KeepsRest,
         UNCHANGED <<layoutVars, jobVars, cursorVars>>,
         ReadPosition' \in Int, ReadPosition <= ReadPosition'
  PROVE  OnTable' /\ KeepsRest'
  <1>1. UNCHANGED <<slice, completed, entries, current, pp_value, unread, pp_scenario>>
    BY DEF layoutVars, jobVars, cursorVars
  <1>2. OnTable'
    BY <1>1 DEF OnTable, CursorJob
  <1>3. ASSUME current > 0 PROVE KeepsRest'
    <2>1. /\ SliceEnd(slice[current]) \in Int /\ ReadPosition \in Int
          /\ \A e \in entries[CursorJob] : e.data \in Int
      BY <1>3, Offsets
    <2>2. CASE SliceEnd(slice[current]) <= ReadPosition
      <3>1. SliceEnd(slice[current]) <= ReadPosition'
        BY <2>1, <2>2
      <3> QED BY <1>1, <3>1 DEF KeepsRest
    <2>3. CASE ~(SliceEnd(slice[current]) <= ReadPosition)
      <3>1. /\ CursorJob \in completed
            /\ \A e \in entries[CursorJob] :
                 e.data >= ReadPosition => e \in {pp_value} \cup unread
        BY <1>3, <2>3 DEF KeepsRest
      <3>2. \A e \in entries[CursorJob] :
              e.data >= ReadPosition' => e \in {pp_value} \cup unread
        BY <2>1, <3>1
      <3> QED BY <1>1, <3>1, <3>2 DEF KeepsRest, CursorJob
    <2> QED BY <2>2, <2>3
  <1>4. ASSUME ~(current > 0) PROVE KeepsRest'
    BY <1>1, <1>4 DEF KeepsRest
  <1> QED BY <1>2, <1>3, <1>4

(* The pending entries are those that the table lists from the read         *)
(* position on, and some that it has passed.                               *)
LEMMA PendingFacts ==
  ASSUME TypeInv, TablesFit, OnTable
  PROVE  /\ Pending = {} \/ Pending = {pp_value} \cup unread
         /\ Pending # {} => current > 0 /\ CursorJob \in completed
         /\ \A e \in Pending : /\ e \in entries[CursorJob] /\ e \in Slices
                               /\ e.size # 0 /\ e.data \in Int
         /\ \A e \in {pp_value} \cup unread : e.size # 0 => e \in Pending
  <1>1. CASE pp_value.size = 0
    BY <1>1 DEF OnTable, Pending
  <1>2. CASE pp_value.size # 0
    <2>1. /\ current > 0 /\ CursorJob \in completed
          /\ {pp_value} \cup unread \subseteq entries[CursorJob]
      BY <1>2 DEF OnTable
    <2>2. \A e \in entries[CursorJob] : e \in Slices /\ e.data \in Int /\ e.size # 0
      <3>1. current \in Preparsers /\ pp_scenario[current] \in Scenarios
        BY <2>1, Offsets DEF TypeInv, TypeOK, CursorTypes
      <3>2. \A e \in entries[CursorJob] : e.size > 0
        BY <3>1 DEF TablesFit, CursorJob
      <3> QED BY <2>1, <3>2, Offsets
    <2> QED BY <1>2, <2>1, <2>2 DEF Pending
  <1> QED BY <1>1, <1>2

(* A listed value at or behind the read position is pending, unless the     *)
(* parse has left the chunk, where nothing is listed.                       *)
LEMMA Ahead ==
  ASSUME TypeInv, TablesFit, OnTable, KeepsRest, current > 0,
         NEW e \in entries[CursorJob], e.data >= ReadPosition
  PROVE  e \in Pending /\ CursorJob \in completed
  <1>1. current \in Preparsers /\ pp_scenario[current] \in Scenarios
    BY Offsets DEF TypeInv, TypeOK, CursorTypes
  <1>2. e.size > 0 /\ e.data < SliceEnd(slice[current])
    BY <1>1 DEF TablesFit, CursorJob
  <1>3. /\ SliceEnd(slice[current]) \in Int /\ ReadPosition \in Int /\ e.data \in Int
        /\ e.size # 0
    <2>1. e \in Slices /\ SliceEnd(slice[current]) \in Int /\ ReadPosition \in Int
          /\ e.data \in Int
      BY Offsets
    <2> QED BY <1>2, <2>1
  <1>4. ~(SliceEnd(slice[current]) <= ReadPosition)
    BY <1>2, <1>3
  <1>5. CursorJob \in completed /\ e \in {pp_value} \cup unread
    BY <1>4 DEF KeepsRest
  <1> QED BY <1>3, <1>5, PendingFacts

(* Every step keeps the cursor on its table, and what is ahead of the read  *)
(* position ahead of the cursor.                                           *)
LEMMA CursorStep == CursorState /\ [Next]_vars => CursorRests'
  <1> SUFFICES ASSUME TypeInv, Stages, TablesFit, CursorRests, TypeInv', [Next]_vars
               PROVE  CursorRests'
    BY TypeStep DEF CursorState
  <1>0. /\ point \in Int /\ buffer_pos \in Int /\ ReadPosition \in Int
        /\ point' \in Int /\ buffer_pos' \in Int /\ ReadPosition' \in Int
    BY Offsets DEF TypeInv, TypeOK, CallerTypes, ReadPosition
  <1>1. CASE Setup
    <2>1. /\ UNCHANGED <<current, pp_value, unread>>
          /\ pc \in {"call", "create"}
          /\ pc' \in {"create", "token", "returned", "cleanup_not"}
      BY <1>1 DEF Setup, Call, AllocateFails, CreateThread, CreateFails, DetachFails,
                  FillContext, StartMain, MainInitFails, AllThreadsCreated, cursorVars
    <2>2. current' = 0
      BY <2>1 DEF CursorRests
    <2>3. OnTable' /\ KeepsRest'
      BY <2>2, <1>0 DEF OnTable, KeepsRest, TypeInv, Control, EmptySlice
    <2> QED BY <2>1, <2>2, <2>3 DEF CursorRests
  <1>2. CASE Tokens
    <2>1. pc = "token" /\ UNCHANGED <<layoutVars, jobVars, cursorVars>>
      BY <1>2 DEF Tokens, TokenString, TokenOpen, TokenOther, TokenEof, TokenError, NextToken
    <2>2. CASE TokenError
      BY <2>1, <2>2 DEF TokenError, MainFails, CursorRests, MainLoop
    <2>3. CASE TokenString \/ TokenOpen \/ TokenOther \/ TokenEof
      <3>1. /\ pc' \in {"advance", "parse"}
            /\ pc' = "advance" => buffer_pos <= point' /\ point' <= buffer_pos'
            /\ buffer_pos <= buffer_pos'
        BY <2>3, <1>0, SizesAssumption
        DEF TokenString, TokenOpen, TokenOther, TokenEof, NextToken, TypeInv, TypeOK,
            CallerTypes
      <3>2. ReadPosition <= ReadPosition'
        BY <2>1, <3>1 DEF ReadPosition
      <3>3. OnTable /\ KeepsRest
        BY <2>1 DEF CursorRests, MainLoop
      <3>4. OnTable' /\ KeepsRest'
        BY <1>0, <2>1, <3>2, <3>3, Resting
      <3> QED BY <3>1, <3>4 DEF CursorRests
    <2> QED BY <1>2, <2>2, <2>3 DEF Tokens
  <1>3. CASE Cursor
    <2>1. CASE AdvanceHere
      <3>1. /\ pc = "advance" /\ pc' \in {"parse", "find"}
            /\ UNCHANGED <<layoutVars, jobVars, cursorVars, point, buffer_pos>>
        BY <2>1 DEF AdvanceHere, AfterAdvance, cursorUnchanged
      <3>2. OnTable /\ KeepsRest /\ point <= buffer_pos
        BY <3>1 DEF CursorRests, MainLoop
      <3>3. ReadPosition <= ReadPosition'
        BY <1>0, <3>1, <3>2 DEF ReadPosition
      <3>4. OnTable' /\ KeepsRest'
        BY <1>0, <3>1, <3>2, <3>3, Resting
      <3> QED BY <3>1, <3>2, <3>4 DEF CursorRests
    <2>2. CASE AdvanceOut
      <3>1. /\ pc = "advance" /\ pc' \in {"parse", "find"}
            /\ UNCHANGED <<slice, point, buffer_pos>>
            /\ unread' = {} /\ pp_value' = EmptySlice
            /\ current' = EffectiveThreads - 1
            /\ \A t \in current .. EffectiveThreads - 1 : point >= SliceEnd(slice[t])
        BY <2>2 DEF AdvanceOut, AfterAdvance, cursorUnchanged, layoutVars
      <3>2. point <= buffer_pos
        BY <3>1 DEF CursorRests
      <3>3. point <= ReadPosition'
        BY <1>0, <3>1, <3>2 DEF ReadPosition
      <3>4. OnTable'
        BY <3>1 DEF OnTable, EmptySlice
      <3>5. SliceEnd(slice[current']) <= ReadPosition'
        <4>1. /\ current' \in current .. EffectiveThreads - 1
              /\ SliceEnd(slice[current']) \in Int
          <5>1. current \in Contexts /\ current' \in Contexts
            BY DEF TypeInv, TypeOK, CursorTypes
          <5>2. SliceEnd(slice[current']) \in Int
            BY <5>1, Offsets
          <5>3. current' \in current .. EffectiveThreads - 1
            BY <3>1, <5>1, Threads DEF Contexts
          <5> QED BY <5>2, <5>3
        <4>2. point >= SliceEnd(slice[current'])
          BY <3>1, <4>1
        <4> QED BY <1>0, <3>3, <4>1, <4>2
      <3> QED BY <3>1, <3>2, <3>4, <3>5 DEF CursorRests, KeepsRest
    <2>3. CASE AdvanceTo
      <3>1. pc = "advance" /\ pc' = "await" /\ UNCHANGED <<point, buffer_pos>>
        BY <2>3 DEF AdvanceTo, cursorUnchanged
      <3> QED BY <3>1 DEF CursorRests, MainLoop
    <2>4. CASE AwaitFailed
      BY <2>4 DEF AwaitFailed, MainFails, CursorRests, MainLoop
    <2>5. CASE LoadTable
      <3>1. /\ pc = "await" /\ pc' \in {"parse", "find"}
            /\ UNCHANGED <<point, buffer_pos, completed, entries, current>>
            /\ CurrentJob \in completed
        BY <2>5 DEF LoadTable, Awaited, AfterAdvance, cursorUnchanged, jobVars
      <3>2. PICK e \in entries[CurrentJob] \cup {EmptySlice} :
              /\ IF entries[CurrentJob] = {} THEN e = EmptySlice
                 ELSE IsFirst(e, entries[CurrentJob])
              /\ pp_value' = e /\ unread' = entries[CurrentJob] \ {e}
        BY <2>5 DEF LoadTable
      <3>3. CursorJob' = CurrentJob /\ current > 0
        <4>1. pp_scenario' = [pp_scenario EXCEPT ![current] = EnteredAs]
          BY <2>5 DEF LoadTable, ChooseScenario
        <4>2. pp_scenario'[current] = EnteredAs
          BY <4>1 DEF TypeInv, TypeOK, CursorTypes
        <4> QED BY <3>1, <4>2 DEF CursorJob, CurrentJob, TypeInv, Control
      <3>4. \A f \in entries[CurrentJob] : f \in {pp_value'} \cup unread'
        BY <3>2
      <3>5. OnTable'
        <4>1. CASE entries[CurrentJob] = {}
          BY <3>2, <4>1 DEF OnTable, EmptySlice
        <4>2. CASE entries[CurrentJob] # {}
          <5>1. {pp_value'} \cup unread' \subseteq entries[CurrentJob]
            BY <3>2, <4>2 DEF IsFirst
          <5>2. pp_value'.size # 0
            <6>1. current \in Preparsers /\ EnteredAs \in Scenarios
              BY <3>3, Offsets DEF EnteredAs, Scenarios
            <6>2. pp_value'.size > 0
              BY <5>1, <6>1 DEF TablesFit, CurrentJob
            <6>3. pp_value' \in Slices
              BY DEF TypeInv, TypeOK, CursorTypes
            <6> QED BY <6>2
          <5> QED BY <3>1, <3>3, <5>1, <5>2 DEF OnTable
        <4> QED BY <4>1, <4>2
      <3>6. KeepsRest'
        BY <3>1, <3>3, <3>4 DEF KeepsRest
      <3> QED BY <3>1, <3>5, <3>6 DEF CursorRests
    <2>6. CASE FindNothing
      <3>1. /\ pc = "find" /\ pc' = "parse" /\ unread' = {}
            /\ UNCHANGED <<slice, point, buffer_pos, completed, entries, current,
                           pp_scenario>>
            /\ \A e \in Pending : e.data < point
        BY <2>6 DEF FindNothing, cursorUnchanged, layoutVars, jobVars
      <3>2. \/ Pending = {} /\ pp_value' = EmptySlice
            \/ Pending # {} /\ pp_value' \in Pending
        BY <2>6 DEF FindNothing, IsLast
      <3>3. OnTable /\ KeepsRest /\ point <= buffer_pos
        BY <3>1 DEF CursorRests, MainLoop
      <3>4. /\ Pending # {} => current > 0 /\ CursorJob \in completed
            /\ \A e \in Pending : e \in entries[CursorJob] /\ e.size # 0 /\ e.data \in Int
        BY <3>3, PendingFacts
      <3>5. OnTable'
        BY <3>1, <3>2, <3>4 DEF OnTable, CursorJob, EmptySlice
      <3>6. ReadPosition = point /\ ReadPosition' = buffer_pos
        BY <3>1 DEF ReadPosition
      <3>7. current > 0 => \A e \in entries[CursorJob] : ~(e.data >= ReadPosition)
        <4> SUFFICES ASSUME current > 0, NEW e \in entries[CursorJob], e.data >= ReadPosition
                     PROVE  FALSE
          OBVIOUS
        <4>1. e \in Pending
          BY <3>3, Ahead
        <4> QED BY <1>0, <3>1, <3>4, <3>6, <4>1
      <3>8. KeepsRest'
        <4> SUFFICES ASSUME current > 0, KeepsRest, ReadPosition' >= ReadPosition
                     PROVE  KeepsRest'
          BY <1>0, <3>1, <3>3, <3>6 DEF KeepsRest
        <4>1. CASE SliceEnd(slice[current]) <= ReadPosition
          <5>1. SliceEnd(slice[current]) <= ReadPosition'
            BY <1>0, <4>1, Offsets
          <5> QED BY <3>1, <5>1 DEF KeepsRest
        <4>2. CASE CursorJob \in completed
          <5>1. \A e \in entries[CursorJob] : ~(e.data >= ReadPosition')
            BY <1>0, <3>7, Offsets
          <5> QED BY <3>1, <4>2, <5>1 DEF KeepsRest, CursorJob
        <4> QED BY <4>1, <4>2 DEF KeepsRest
      <3> QED BY <3>1, <3>5, <3>8 DEF CursorRests
    <2>7. CASE FindEntry
      <3>1. /\ pc = "find" /\ pc' \in {"parse", "handle"}
            /\ UNCHANGED <<slice, point, buffer_pos, completed, entries, current,
                           pp_scenario>>
        BY <2>7 DEF FindEntry, AfterFind, cursorUnchanged, layoutVars, jobVars
      <3>2. PICK e \in Pending :
              /\ IsFirst(e, {f \in Pending : f.data >= point})
              /\ pp_value' = e /\ unread' = {f \in Pending : f.data >= point} \ {e}
        BY <2>7 DEF FindEntry
      <3>3. OnTable /\ KeepsRest /\ point <= buffer_pos
        BY <3>1 DEF CursorRests, MainLoop
      <3>4. /\ current > 0 /\ CursorJob \in completed
            /\ \A f \in Pending : f \in entries[CursorJob] /\ f.size # 0
        BY <3>2, <3>3, PendingFacts
      <3>5. OnTable' /\ pp_value'.size # 0
        BY <3>1, <3>2, <3>4 DEF OnTable, CursorJob
      <3>6. ReadPosition = point /\ ReadPosition' = buffer_pos
        BY <3>1 DEF ReadPosition
      <3>7. ASSUME NEW f \in entries[CursorJob], f.data >= ReadPosition'
            PROVE  f \in {pp_value'} \cup unread'
        <4>1. f.data \in Int
          BY <3>4, Offsets
        <4>2. f.data >= point
          BY <1>0, <3>3, <3>6, <3>7, <4>1
        <4>3. f \in Pending
          BY <3>3, <3>4, <3>6, <4>2, Ahead
        <4> QED BY <3>2, <4>2, <4>3
      <3>8. KeepsRest'
        BY <3>1, <3>4, <3>7 DEF KeepsRest, CursorJob
      <3> QED BY <3>1, <3>3, <3>5, <3>8 DEF CursorRests
    <2> QED BY <1>3, <2>1, <2>2, <2>3, <2>4, <2>5, <2>6, <2>7 DEF Cursor
  <1>4. CASE Parse
    <2>1. CASE ParseContinues
      <3>1. /\ pc = "parse" /\ pc' = "token" /\ buffer_pos' = buffer_pos
            /\ UNCHANGED <<layoutVars, jobVars, cursorVars>>
        BY <2>1 DEF ParseContinues, cursorUnchanged
      <3>2. OnTable' /\ KeepsRest'
        <4>1. OnTable /\ KeepsRest /\ ReadPosition = buffer_pos /\ ReadPosition' = buffer_pos
          BY <3>1 DEF CursorRests, MainLoop, ReadPosition
        <4> QED BY <1>0, <3>1, <4>1, Resting
      <3> QED BY <3>1, <3>2 DEF CursorRests
    <2>2. CASE ParseFinishes \/ ParseFails \/ HandleFails
      <3>1. pc' \in {"collect", "cleanup_not"}
        BY <2>2 DEF ParseFinishes, ParseFails, HandleFails, MainFails
      <3> QED BY <3>1 DEF CursorRests, MainLoop
    <2>3. CASE AddHandle
      <3>1. /\ pc = "handle" /\ pc' = "token"
            /\ buffer_pos' = buffer_pos - 1 + pp_value.size
            /\ UNCHANGED <<layoutVars, jobVars, cursorVars>>
        BY <2>3 DEF AddHandle
      <3>2. OnTable /\ KeepsRest /\ pp_value.size # 0
        BY <3>1 DEF CursorRests, MainLoop
      <3>3. ReadPosition <= ReadPosition'
        <4>1. pp_value.size \in Nat /\ pp_value.size > 0
          BY <3>2, SizesAssumption DEF TypeInv, TypeOK, CursorTypes, Slices
        <4>2. ReadPosition = buffer_pos /\ ReadPosition' = buffer_pos'
          BY <3>1 DEF ReadPosition
        <4> QED BY <1>0, <3>1, <4>1, <4>2
      <3>4. OnTable' /\ KeepsRest'
        BY <1>0, <3>1, <3>2, <3>3, Resting
      <3> QED BY <3>1, <3>4 DEF CursorRests
    <2> QED BY <1>4, <2>1, <2>2, <2>3 DEF Parse
  <1>5. CASE Finish \/ DocumentFree
    <2>1. pc' \notin {"call", "create"} \cup MainLoop
      BY <1>5 DEF Finish, Collect, ReturnSuccess, CleanupNotInString, CleanupInString,
                  CleanupJob, ReturnError, DocumentFree, MainLoop
    <2> QED BY <2>1 DEF CursorRests, MainLoop
  <1>6. CASE \E t \in Preparsers : Thread(t)
    <2>1. /\ completed \subseteq completed'
          /\ \A j \in completed : entries'[j] = entries[j]
          /\ UNCHANGED <<pc, point, buffer_pos, slice, current, pp_value, unread, pp_scenario>>
      BY <1>6, CompletedKept DEF callerVars, layoutVars, cursorVars
    <2>2. ReadPosition' = ReadPosition /\ CursorJob' = CursorJob
      BY <2>1 DEF ReadPosition, CursorJob
    <2>3. OnTable => OnTable'
      BY <2>1, <2>2 DEF OnTable
    <2>4. KeepsRest => KeepsRest'
      BY <2>1, <2>2 DEF KeepsRest
    <2> QED BY <2>1, <2>3, <2>4 DEF CursorRests
  <1>7. CASE Terminated \/ UNCHANGED vars
    BY <1>7 DEF Terminated, vars, callerVars, layoutVars, jobVars, cursorVars, CursorRests,
                OnTable, KeepsRest, ReadPosition, CursorJob, MainLoop
  <1> QED BY <1>1, <1>2, <1>3, <1>4, <1>5, <1>6, <1>7 DEF Next, Caller

(* The inductive invariant of the cursor holds in every reachable state.    *)
LEMMA CursorInvariant == Spec => []CursorState
  BY TypeInit, TypeStep, StagesInit, StagesStep, CursorStateInit, TablesStep, CursorStep,
     PTL DEF Spec, CursorState

(* Whatever the table of the current chunk lists from the read position on  *)
(* is the current entry or unread: the iterator, which only goes forwards,  *)
(* has passed no value that the parse may still reach.                     *)
THEOREM CursorPassesNothing == Spec => []CursorKeepsRest
  <1>1. CursorState => CursorKeepsRest
    <2> SUFFICES ASSUME CursorState, pc \in {"token", "advance", "find"}, current > 0,
                        NEW e \in entries[CursorJob], e.data >= ReadPosition
                 PROVE  e \in {pp_value} \cup unread
      BY DEF CursorKeepsRest, CursorJob, ReadPosition
    <2>1. OnTable /\ KeepsRest
      BY DEF CursorState, CursorRests, MainLoop
    <2>2. e \in Pending
      BY <2>1, Ahead DEF CursorState
    <2> QED BY <2>2 DEF Pending
  <1> QED BY <1>1, CursorInvariant, PTL

(* thsn_pp_iter_find_value_at finds the value listed where the parse stands *)
(* if there is one, and no other.                                          *)
THEOREM ListedValuesAreFound == Spec => FindsListedValue
  <1>1. CursorState /\ [Next]_vars =>
          [pc = "find" /\ pc' # pc =>
             (pc' = "handle" <=>
                /\ current > 0 /\ chunk_no[current] # NotFound
                /\ \E e \in entries[CursorJob] : e.data = point)]_vars
    <2> SUFFICES ASSUME CursorState, Next, pc = "find", pc' # pc
                 PROVE  pc' = "handle" <=>
                          /\ current > 0 /\ chunk_no[current] # NotFound
                          /\ \E e \in entries[CursorJob] : e.data = point
      BY DEF vars, callerVars
    <2>1. TypeInv /\ TablesFit /\ OnTable /\ KeepsRest /\ ReadPosition = point
      BY DEF CursorState, CursorRests, MainLoop, ReadPosition
    <2>2. FindNothing \/ FindEntry
      <3>1. ~DocumentFree /\ ~Terminated
        BY DEF DocumentFree, Terminated, Done
      <3>2. ~\E t \in Preparsers : Thread(t)
        BY DEF Thread, Preparse, Publish, callerVars
      <3>3. ~Setup /\ ~Tokens /\ ~Parse /\ ~Finish
        BY DEF Setup, Call, AllocateFails, CreateThread, CreateFails, DetachFails,
               FillContext, StartMain, MainInitFails, AllThreadsCreated, Tokens,
               TokenString, TokenOpen, TokenOther, TokenEof, TokenError, NextToken, Parse,
               ParseContinues, ParseFinishes, ParseFails, AddHandle, HandleFails, Finish,
               Collect, ReturnSuccess, CleanupNotInString, CleanupInString, CleanupJob,
               ReturnError
      <3>4. ~AdvanceHere /\ ~AdvanceOut /\ ~AdvanceTo /\ ~AwaitFailed /\ ~LoadTable
        BY DEF AdvanceHere, AdvanceOut, AdvanceTo, AwaitFailed, LoadTable, Awaited
      <3> QED BY <3>1, <3>2, <3>3, <3>4 DEF Next, Caller, Cursor
    <2>3. /\ Pending # {} => current > 0
          /\ \A e \in Pending : e \in entries[CursorJob] /\ e.data \in Int
      BY <2>1, PendingFacts
    <2>4. point \in Int
      BY <2>1, Offsets
    <2>5. ASSUME current > 0, NEW e \in entries[CursorJob], e.data = point
          PROVE  e \in Pending
      BY <2>1, <2>4, <2>5, Ahead
    <2>6. CASE FindNothing
      <3>1. pc' = "parse" /\ \A e \in Pending : e.data < point
        BY <2>6 DEF FindNothing
      <3> QED BY <2>4, <2>5, <3>1
    <2>7. CASE FindEntry
      <3>1. PICK e \in Pending : /\ e.data >= point
                                /\ \A f \in Pending : f.data >= point => e.data <= f.data
                                /\ pc' = AfterFind(e)
        BY <2>7 DEF FindEntry, IsFirst
      <3>2. pc' = "handle" <=> e.data = point /\ chunk_no[current] # NotFound
        BY <3>1 DEF AfterFind
      <3>3. current > 0 /\ e \in entries[CursorJob] /\ e.data \in Int
        BY <2>3
      <3>4. ASSUME NEW f \in entries[CursorJob], f.data = point
            PROVE  e.data = point
        BY <2>4, <2>5, <3>1, <3>3, <3>4
      <3> QED BY <3>2, <3>3, <3>4
    <2> QED BY <2>2, <2>6, <2>7
  <1> QED BY <1>1, CursorInvariant, PTL DEF Spec, FindsListedValue, CursorJob

=============================================================================
