----------------------- MODULE ParserThreadsProofs ------------------------
(*************************************************************************)
(* Proofs about ParserThreads: type correctness, the tiling of the input *)
(* by the chunks, the order in which a preparsing thread works, and the  *)
(* settling of a scenario. They hold for every size of the input, every  *)
(* number of threads, every minimal chunk and every behaviour of the     *)
(* threads and of malloc.                                                *)
(*                                                                       *)
(* TypeOK is not inductive by itself. The caller's loop counter, the     *)
(* chunks cut so far, the threads' positions, the flags and the handles  *)
(* are tied together by Control, Layout, Stages and Skipping, each of    *)
(* them proved inductive by one step per action.                         *)
(*************************************************************************)
EXTENDS ParserThreads, TLAPS

----------------------------------------------------------------------------
(* Arithmetic.                                                              *)

(* Division and remainder of natural numbers, as the division of the input  *)
(* into chunks uses them.                                                   *)
LEMMA DivFacts == ASSUME NEW a \in Nat, NEW b \in Nat \ {0}
  PROVE /\ a \div b \in Nat /\ b * (a \div b) <= a
        /\ a % b \in Nat /\ a % b < b /\ a % b <= a
        /\ a < b => a % b = a
  OBVIOUS

(* The number of chunks and their sizes are in range; a number cut to a     *)
(* uint8_t too.                                                             *)
LEMMA Threads == /\ EffectiveThreads \in Nat \ {0}
                 /\ SubbufferSize \in 0 .. JsonSize
                 /\ SubbufferSize * EffectiveThreads <= JsonSize
                 /\ FirstChunkSize \in 0 .. JsonSize
                 /\ EffectiveThreads % Uint8Values \in 0 .. Uint8Values - 1
                 /\ EffectiveThreads % Uint8Values <= EffectiveThreads
                 /\ \A t \in Nat : t % Uint8Values \in 0 .. Uint8Values - 1
  <1>1. EffectiveThreads \in Nat \ {0}
     BY DivFacts, SizesAssumption DEF EffectiveThreads
  <1>2. /\ SubbufferSize \in Nat
        /\ SubbufferSize * EffectiveThreads <= JsonSize
     BY <1>1, DivFacts, SizesAssumption DEF SubbufferSize
  <1>3. SubbufferSize * (EffectiveThreads - 1) \in 0 .. JsonSize
     BY <1>1, <1>2, SizesAssumption
  <1>4. SubbufferSize <= JsonSize
     BY <1>1, <1>2, SizesAssumption
  <1>5. \A t \in Nat : t % Uint8Values \in 0 .. Uint8Values - 1 /\ t % Uint8Values <= t
     BY SizesAssumption, DivFacts
  <1> QED BY <1>1, <1>2, SizesAssumption DEF FirstChunkSize

----------------------------------------------------------------------------
(* Types.                                                                   *)

(* What the position of the caller says about its variables: the number of  *)
(* threads it has created, whether the cursor has left the first chunk      *)
(* (which has no table), which token it is handling, and where the text of  *)
(* that token is. TypeOK alone is not inductive: that buffer_pos - 1 + size *)
(* stays in the input, that i is a context and that a handle names a job    *)
(* all rest on this.                                                        *)
Control ==
  /\ segment_count <= EffectiveThreads
  /\ pc = "call" => threads_created = 0
  /\ pc = "create" => threads_created = i - 1
  /\ pc = "cleanup_in" => i <= threads_created
  /\ pc = "await" => current > 0
  /\ current = 0 => pp_value = EmptySlice /\ unread = {}
  /\ pc = "handle" => current > 0
  /\ pc \in {"advance", "await"} => token \in {"string", "open"}
  /\ pc \in {"find", "handle"} => token = "open"
  /\ pc \in {"advance", "await", "find", "handle"} /\ token = "open" =>
       buffer_pos = point + 1

(* The inductive strengthening of TypeOK.                                   *)
TypeInv == TypeOK /\ Control

(* A part of the state that a step leaves alone keeps its type.             *)
LEMMA Frame ==
  /\ CallerTypes /\ UNCHANGED callerVars => CallerTypes'
  /\ LayoutTypes /\ UNCHANGED layoutVars => LayoutTypes'
  /\ JobTypes /\ UNCHANGED jobVars => JobTypes'
  /\ HeapTypes /\ UNCHANGED heapVars => HeapTypes'
  /\ CursorTypes /\ UNCHANGED cursorVars => CursorTypes'
  /\ DocTypes /\ UNCHANGED docVars => DocTypes'
  BY DEF CallerTypes, LayoutTypes, JobTypes, HeapTypes, CursorTypes, DocTypes,
         callerVars, layoutVars, jobVars, heapVars, cursorVars, docVars

(* Both scenarios of a preparsing thread are jobs.                          *)
LEMMA JobRange == \A t \in Preparsers, s \in Scenarios : <<t, s>> \in Jobs
  BY DEF Jobs

(* The blocks the caller and the jobs allocate are blocks.                  *)
LEMMA BlockTypes ==
  /\ Document \in Blocks /\ ThreadContexts \in Blocks
  /\ \A kind \in {"segment", "table", "stack"}, j \in Jobs \cup {MainJob} :
       Block(kind, j) \in Blocks
  /\ MainJob \in Jobs \cup {MainJob}
  BY DEF Blocks

(* free() keeps the types of the heap.                                      *)
LEMMA FreeTypes ==
  ASSUME HeapTypes, NEW pointer \in SUBSET Blocks, Free(pointer)
  PROVE  HeapTypes'
  BY DEF HeapTypes, Free

(* What the caller frees by itself are blocks.                              *)
LEMMA MainBlocks ==
  /\ {Block("segment", MainJob), Block("stack", MainJob)} \in SUBSET Blocks
  /\ {ThreadContexts} \in SUBSET Blocks
  /\ {Block("stack", MainJob)} \in SUBSET Blocks
  BY BlockTypes

(* What a job publishes are blocks, and its table lists slices.             *)
LEMMA PublishedTypes ==
  ASSUME JobTypes, NEW t \in Preparsers, NEW s \in Scenarios
  PROVE  /\ segment[<<t, s>>] \in SUBSET Blocks
         /\ pp_table[<<t, s>>] \in SUBSET Blocks
         /\ entries[<<t, s>>] \in SUBSET Slices
  BY JobRange DEF JobTypes

(* The document's segments are blocks.                                      *)
LEMMA SegmentBlocksTypes ==
  ASSUME DocTypes PROVE SegmentBlocks \in SUBSET Blocks
  BY DEF DocTypes, SegmentBlocks

(* The next chunk lies within the input.                                    *)
LEMMA NextSizeTypes ==
  ASSUME LayoutTypes
  PROVE  NextSize \in 0 .. JsonSize /\ current_offset + NextSize \in 0 .. JsonSize
  BY SizesAssumption DEF LayoutTypes, NextSize, BufferLeft

(* Filling in a thread context keeps its types; it is the context of a      *)
(* preparsing thread.                                                       *)
LEMMA FillContextTypes ==
  ASSUME LayoutTypes, CallerTypes, FillContext
  PROVE  /\ i \in Preparsers
         /\ subbuffer_size' \in 0 .. JsonSize
         /\ slice' \in [Contexts -> Slices]
         /\ chunk_no' \in [Contexts -> 0 .. Uint8Values - 1]
  <1>1. i \in Contexts /\ i \in Preparsers /\ i \in Nat
    BY Threads DEF CallerTypes, FillContext, Contexts, Preparsers
  <1>2. [data |-> current_offset, size |-> NextSize] \in Slices
    BY NextSizeTypes DEF LayoutTypes, Slices
  <1>3. i % Uint8Values \in 0 .. Uint8Values - 1
    BY <1>1, Threads
  <1> QED BY <1>1, <1>2, <1>3, NextSizeTypes DEF LayoutTypes, FillContext

(* Every step of the caller, of the client and of a preparsing thread keeps *)
(* the types: one case per action, and in each one step per group of        *)
(* variables that the action can change.                                    *)
LEMMA TypeStep == TypeInv /\ [Next]_vars => TypeInv'
  <1> SUFFICES ASSUME TypeInv, [Next]_vars PROVE TypeInv'
    OBVIOUS
  <1>1. CASE Call
    <2>1. CallerTypes'
      BY <1>1, Threads DEF Call, TypeInv, TypeOK, CallerTypes
    <2>2. LayoutTypes'
      <3>1. [data |-> 0, size |-> FirstChunkSize] \in Slices
        BY SizesAssumption, Threads DEF Slices
      <3>2. 0 \in Contexts
        BY Threads DEF Contexts
      <3> QED BY <1>1, <3>1, Threads DEF Call, TypeInv, TypeOK, LayoutTypes
    <2>3. HeapTypes'
      BY <1>1, BlockTypes DEF Call, TypeInv, TypeOK, HeapTypes, Allocate
    <2>4. DocTypes'
      BY <1>1, Threads DEF Call, TypeInv, TypeOK, DocTypes
    <2>5. JobTypes' /\ CursorTypes'
      BY <1>1, Frame DEF Call, TypeInv, TypeOK
    <2>6. Control'
      BY <1>1, Threads DEF Call, TypeInv, Control, cursorVars
    <2> QED BY <2>1, <2>2, <2>3, <2>4, <2>5, <2>6 DEF TypeInv, TypeOK
  <1>2. CASE AllocateFails
    <2>1. CallerTypes'
      BY <1>2 DEF AllocateFails, TypeInv, TypeOK, CallerTypes
    <2>2. LayoutTypes' /\ JobTypes' /\ HeapTypes' /\ CursorTypes' /\ DocTypes'
      BY <1>2, Frame DEF AllocateFails, TypeInv, TypeOK
    <2>3. Control'
      BY <1>2 DEF AllocateFails, TypeInv, Control, cursorVars, docVars
    <2> QED BY <2>1, <2>2, <2>3 DEF TypeInv, TypeOK
  <1>3. CASE CreateThread
    <2>1. CallerTypes'
      BY <1>3, Threads DEF CreateThread, TypeInv, TypeOK, CallerTypes, FillContext
    <2>2. LayoutTypes'
      <3>1. threads_created + 1 \in 0 .. EffectiveThreads - 1
        BY <1>3, Threads
        DEF CreateThread, FillContext, TypeInv, TypeOK, Control, CallerTypes
      <3> QED BY <1>3, <3>1, FillContextTypes, NextSizeTypes
              DEF CreateThread, StartThread, TypeInv, TypeOK, LayoutTypes
    <2>3. JobTypes'
      BY <1>3 DEF CreateThread, TypeInv, TypeOK, JobTypes, StartThread
    <2>4. HeapTypes' /\ CursorTypes' /\ DocTypes'
      BY <1>3, Frame DEF CreateThread, TypeInv, TypeOK
    <2>5. Control'
      BY <1>3
      DEF CreateThread, TypeInv, TypeOK, Control, CallerTypes, cursorVars, docVars,
          FillContext, StartThread
    <2> QED BY <2>1, <2>2, <2>3, <2>4, <2>5 DEF TypeInv, TypeOK
  <1>4. CASE CreateFails
    <2>1. CallerTypes'
      BY <1>4, Threads DEF CreateFails, TypeInv, TypeOK, CallerTypes
    <2>2. LayoutTypes'
      BY <1>4, FillContextTypes DEF CreateFails, TypeInv, TypeOK, LayoutTypes
    <2>3. JobTypes' /\ HeapTypes' /\ CursorTypes' /\ DocTypes'
      BY <1>4, Frame DEF CreateFails, TypeInv, TypeOK
    <2>4. Control'
      BY <1>4 DEF CreateFails, TypeInv, Control, cursorVars, docVars
    <2> QED BY <2>1, <2>2, <2>3, <2>4 DEF TypeInv, TypeOK
  <1>5. CASE DetachFails
    <2>1. CallerTypes'
      BY <1>5, Threads DEF DetachFails, TypeInv, TypeOK, CallerTypes
    <2>2. LayoutTypes'
      <3>1. threads_created + 1 \in 0 .. EffectiveThreads - 1
        BY <1>5, Threads
        DEF DetachFails, FillContext, TypeInv, TypeOK, Control, CallerTypes
      <3> QED BY <1>5, <3>1, FillContextTypes
              DEF DetachFails, StartThread, TypeInv, TypeOK, LayoutTypes
    <2>3. JobTypes'
      BY <1>5 DEF DetachFails, TypeInv, TypeOK, JobTypes, StartThread
    <2>4. HeapTypes' /\ CursorTypes' /\ DocTypes'
      BY <1>5, Frame DEF DetachFails, TypeInv, TypeOK
    <2>5. Control'
      BY <1>5 DEF DetachFails, TypeInv, Control, cursorVars, docVars
    <2> QED BY <2>1, <2>2, <2>3, <2>4, <2>5 DEF TypeInv, TypeOK
  <1>6. CASE StartMain
    <2>1. CallerTypes'
      BY <1>6 DEF StartMain, TypeInv, TypeOK, CallerTypes
    <2>2. HeapTypes'
      BY <1>6, BlockTypes DEF StartMain, TypeInv, TypeOK, HeapTypes, Allocate
    <2>3. LayoutTypes' /\ JobTypes' /\ CursorTypes' /\ DocTypes'
      BY <1>6, Frame DEF StartMain, TypeInv, TypeOK
    <2>4. Control'
      BY <1>6 DEF StartMain, TypeInv, Control, cursorVars, docVars
    <2> QED BY <2>1, <2>2, <2>3, <2>4 DEF TypeInv, TypeOK
  <1>7. CASE MainInitFails
    <2>1. CallerTypes'
      BY <1>7, Threads DEF MainInitFails, TypeInv, TypeOK, CallerTypes
    <2>2. HeapTypes'
      BY <1>7, BlockTypes DEF MainInitFails, TypeInv, TypeOK, HeapTypes, Allocate
    <2>3. LayoutTypes' /\ JobTypes' /\ CursorTypes' /\ DocTypes'
      BY <1>7, Frame DEF MainInitFails, TypeInv, TypeOK
    <2>4. Control'
      BY <1>7 DEF MainInitFails, TypeInv, Control, cursorVars, docVars
    <2> QED BY <2>1, <2>2, <2>3, <2>4 DEF TypeInv, TypeOK
  <1>8. CASE TokenString
    <2>1. CallerTypes'
      BY <1>8 DEF TokenString, TypeInv, TypeOK, CallerTypes, NextToken
    <2>2. LayoutTypes' /\ JobTypes' /\ HeapTypes' /\ CursorTypes' /\ DocTypes'
      BY <1>8, Frame DEF TokenString, TypeInv, TypeOK, NextToken
    <2>3. Control'
      BY <1>8 DEF TokenString, TypeInv, Control, cursorVars, docVars, NextToken
    <2> QED BY <2>1, <2>2, <2>3 DEF TypeInv, TypeOK
  <1>9. CASE TokenOpen
    <2>1. CallerTypes'
      BY <1>9, SizesAssumption DEF TokenOpen, TypeInv, TypeOK, CallerTypes, NextToken
    <2>2. LayoutTypes' /\ JobTypes' /\ HeapTypes' /\ CursorTypes' /\ DocTypes'
      BY <1>9, Frame DEF TokenOpen, TypeInv, TypeOK, NextToken
    <2>3. Control'
      BY <1>9 DEF TokenOpen, TypeInv, Control, cursorVars, docVars, NextToken
    <2> QED BY <2>1, <2>2, <2>3 DEF TypeInv, TypeOK
  <1>10. CASE TokenOther
    <2>1. CallerTypes'
      BY <1>10, SizesAssumption DEF TokenOther, TypeInv, TypeOK, CallerTypes, NextToken
    <2>2. LayoutTypes' /\ JobTypes' /\ HeapTypes' /\ CursorTypes' /\ DocTypes'
      BY <1>10, Frame DEF TokenOther, TypeInv, TypeOK, NextToken
    <2>3. Control'
      BY <1>10 DEF TokenOther, TypeInv, Control, cursorVars, docVars, NextToken
    <2> QED BY <2>1, <2>2, <2>3 DEF TypeInv, TypeOK
  <1>11. CASE TokenEof
    <2>1. CallerTypes'
      BY <1>11, SizesAssumption DEF TokenEof, TypeInv, TypeOK, CallerTypes, NextToken
    <2>2. LayoutTypes' /\ JobTypes' /\ HeapTypes' /\ CursorTypes' /\ DocTypes'
      BY <1>11, Frame DEF TokenEof, TypeInv, TypeOK, NextToken
    <2>3. Control'
      BY <1>11 DEF TokenEof, TypeInv, Control, cursorVars, docVars, NextToken
    <2> QED BY <2>1, <2>2, <2>3 DEF TypeInv, TypeOK
  <1>12. CASE TokenError
    <2>1. CallerTypes'
      BY <1>12, Threads DEF TokenError, TypeInv, TypeOK, CallerTypes, MainFails
    <2>2. HeapTypes'
      BY <1>12, BlockTypes DEF TokenError, TypeInv, TypeOK, HeapTypes, Free, MainFails
    <2>3. LayoutTypes' /\ JobTypes' /\ CursorTypes' /\ DocTypes'
      BY <1>12, Frame DEF TokenError, TypeInv, TypeOK
    <2>4. Control'
      BY <1>12 DEF TokenError, TypeInv, Control, cursorVars, docVars, MainFails
    <2> QED BY <2>1, <2>2, <2>3, <2>4 DEF TypeInv, TypeOK
  <1>13. CASE AdvanceHere
    <2>1. CallerTypes'
      BY <1>13
      DEF AdvanceHere, TypeInv, TypeOK, CallerTypes, AfterAdvance, cursorUnchanged
    <2>2. LayoutTypes' /\ JobTypes' /\ HeapTypes' /\ CursorTypes' /\ DocTypes'
      BY <1>13, Frame DEF AdvanceHere, TypeInv, TypeOK, cursorUnchanged
    <2>3. Control'
      BY <1>13
      DEF AdvanceHere, TypeInv, Control, cursorVars, docVars, cursorUnchanged,
          AfterAdvance
    <2> QED BY <2>1, <2>2, <2>3 DEF TypeInv, TypeOK
  <1>14. CASE AdvanceOut
    <2>1. CallerTypes'
      BY <1>14
      DEF AdvanceOut, TypeInv, TypeOK, CallerTypes, AfterAdvance, cursorUnchanged
    <2>2. CursorTypes'
      BY <1>14, SizesAssumption
      DEF AdvanceOut, TypeInv, TypeOK, CursorTypes, EmptySlice, Slices, Contexts
    <2>3. LayoutTypes' /\ JobTypes' /\ HeapTypes' /\ DocTypes'
      BY <1>14, Frame DEF AdvanceOut, TypeInv, TypeOK, cursorUnchanged
    <2>4. Control'
      BY <1>14 DEF AdvanceOut, TypeInv, Control, docVars, cursorUnchanged, AfterAdvance
    <2> QED BY <2>1, <2>2, <2>3, <2>4 DEF TypeInv, TypeOK
  <1>15. CASE AdvanceTo
    <2>1. CallerTypes'
      BY <1>15 DEF AdvanceTo, TypeInv, TypeOK, CallerTypes, cursorUnchanged
    <2>2. CursorTypes'
      <3>1. current' \in Contexts
        BY <1>15 DEF AdvanceTo, TypeInv, TypeOK, CursorTypes, Contexts
      <3> QED BY <1>15, <3>1 DEF AdvanceTo, TypeInv, TypeOK, CursorTypes
    <2>3. LayoutTypes' /\ JobTypes' /\ HeapTypes' /\ DocTypes'
      BY <1>15, Frame DEF AdvanceTo, TypeInv, TypeOK, cursorUnchanged
    <2>4. Control'
      BY <1>15
      DEF AdvanceTo, TypeInv, TypeOK, Control, CursorTypes, docVars, cursorUnchanged,
          Contexts
    <2> QED BY <2>1, <2>2, <2>3, <2>4 DEF TypeInv, TypeOK
  <1>16. CASE AwaitFailed
    <2>1. CallerTypes'
      BY <1>16, Threads DEF AwaitFailed, TypeInv, TypeOK, CallerTypes, MainFails
    <2>2. HeapTypes'
      BY <1>16, BlockTypes DEF AwaitFailed, TypeInv, TypeOK, HeapTypes, Free, MainFails
    <2>3. CursorTypes'
      BY <1>16
      DEF AwaitFailed, TypeInv, TypeOK, CursorTypes, ChooseScenario, EnteredAs,
          Scenarios
    <2>4. LayoutTypes' /\ JobTypes' /\ DocTypes'
      BY <1>16, Frame DEF AwaitFailed, TypeInv, TypeOK
    <2>5. Control'
      BY <1>16 DEF AwaitFailed, TypeInv, Control, docVars, MainFails
    <2> QED BY <2>1, <2>2, <2>3, <2>4, <2>5 DEF TypeInv, TypeOK
  <1>17. CASE LoadTable
    <2>1. CallerTypes'
      BY <1>17
      DEF LoadTable, TypeInv, TypeOK, CallerTypes, AfterAdvance, cursorUnchanged
    <2>2. CursorTypes'
      <3>1. current \in Preparsers /\ EnteredAs \in Scenarios
        BY <1>17
        DEF LoadTable, Awaited, TypeInv, TypeOK, Control, CursorTypes, Contexts,
            Preparsers, EnteredAs, Scenarios
      <3>2. entries[CurrentJob] \subseteq Slices
        BY <3>1, PublishedTypes DEF TypeInv, TypeOK, CurrentJob
      <3>3. EmptySlice \in Slices
        BY SizesAssumption DEF EmptySlice, Slices
      <3>4. pp_value' \in Slices /\ unread' \subseteq Slices
        BY <1>17, <3>2, <3>3 DEF LoadTable
      <3> QED BY <1>17, <3>1, <3>4
              DEF LoadTable, ChooseScenario, TypeInv, TypeOK, CursorTypes
    <2>3. LayoutTypes' /\ JobTypes' /\ HeapTypes' /\ DocTypes'
      BY <1>17, Frame DEF LoadTable, TypeInv, TypeOK, cursorUnchanged
    <2>4. Control'
      BY <1>17
      DEF LoadTable, Awaited, cursorUnchanged, docVars, AfterAdvance, TypeInv, Control
    <2> QED BY <2>1, <2>2, <2>3, <2>4 DEF TypeInv, TypeOK
  <1>18. CASE FindNothing
    <2>1. CallerTypes'
      BY <1>18 DEF FindNothing, TypeInv, TypeOK, CallerTypes, cursorUnchanged
    <2>2. CursorTypes'
      <3>1. Pending \subseteq Slices /\ EmptySlice \in Slices
        BY SizesAssumption DEF TypeInv, TypeOK, CursorTypes, Pending, EmptySlice, Slices
      <3> QED BY <1>18, <3>1 DEF FindNothing, TypeInv, TypeOK, CursorTypes
    <2>3. LayoutTypes' /\ JobTypes' /\ HeapTypes' /\ DocTypes'
      BY <1>18, Frame DEF FindNothing, TypeInv, TypeOK, cursorUnchanged
    <2>4. Control'
      BY <1>18 DEF FindNothing, TypeInv, Control, docVars, cursorUnchanged, Pending
    <2> QED BY <2>1, <2>2, <2>3, <2>4 DEF TypeInv, TypeOK
  <1>19. CASE FindEntry
    <2>1. CallerTypes'
      BY <1>19 DEF FindEntry, TypeInv, TypeOK, CallerTypes, AfterFind, cursorUnchanged
    <2>2. CursorTypes'
      BY <1>19 DEF FindEntry, TypeInv, TypeOK, CursorTypes, Pending
    <2>3. LayoutTypes' /\ JobTypes' /\ HeapTypes' /\ DocTypes'
      BY <1>19, Frame DEF FindEntry, TypeInv, TypeOK, cursorUnchanged
    <2>4. Control'
      BY <1>19
      DEF FindEntry, TypeInv, TypeOK, Control, CursorTypes, docVars, EmptySlice,
          cursorUnchanged, AfterFind, Pending, Contexts
    <2> QED BY <2>1, <2>2, <2>3, <2>4 DEF TypeInv, TypeOK
  <1>20. CASE ParseContinues
    <2>1. CallerTypes'
      BY <1>20 DEF ParseContinues, TypeInv, TypeOK, CallerTypes, cursorUnchanged
    <2>2. LayoutTypes' /\ JobTypes' /\ HeapTypes' /\ CursorTypes' /\ DocTypes'
      BY <1>20, Frame DEF ParseContinues, TypeInv, TypeOK, cursorUnchanged
    <2>3. Control'
      BY <1>20
      DEF ParseContinues, TypeInv, Control, cursorVars, docVars, cursorUnchanged
    <2> QED BY <2>1, <2>2, <2>3 DEF TypeInv, TypeOK
  <1>21. CASE ParseFinishes
    <2>1. CallerTypes'
      BY <1>21, Threads DEF ParseFinishes, TypeInv, TypeOK, CallerTypes
    <2>2. HeapTypes'
      BY <1>21, BlockTypes DEF ParseFinishes, TypeInv, TypeOK, HeapTypes, Free
    <2>3. DocTypes'
      BY <1>21, SizesAssumption, Threads, BlockTypes
      DEF ParseFinishes, TypeInv, TypeOK, DocTypes
    <2>4. LayoutTypes' /\ JobTypes' /\ CursorTypes'
      BY <1>21, Frame DEF ParseFinishes, TypeInv, TypeOK
    <2>5. Control'
      BY <1>21 DEF ParseFinishes, TypeInv, Control, cursorVars
    <2> QED BY <2>1, <2>2, <2>3, <2>4, <2>5 DEF TypeInv, TypeOK
  <1>22. CASE ParseFails
    <2>1. CallerTypes'
      BY <1>22, Threads DEF ParseFails, TypeInv, TypeOK, CallerTypes, MainFails
    <2>2. HeapTypes'
      BY <1>22, BlockTypes DEF ParseFails, TypeInv, TypeOK, HeapTypes, Free, MainFails
    <2>3. LayoutTypes' /\ JobTypes' /\ CursorTypes' /\ DocTypes'
      BY <1>22, Frame DEF ParseFails, TypeInv, TypeOK
    <2>4. Control'
      BY <1>22 DEF ParseFails, TypeInv, Control, cursorVars, docVars, MainFails
    <2> QED BY <2>1, <2>2, <2>3, <2>4 DEF TypeInv, TypeOK
  <1>23. CASE AddHandle
    <2>1. CallerTypes'
      <3>1. pp_value.size \in Nat /\ buffer_pos - 1 \in Nat
        BY <1>23
        DEF AddHandle, TypeInv, TypeOK, Control, CallerTypes, CursorTypes, Slices
      <3> QED BY <1>23, <3>1 DEF AddHandle, TypeInv, TypeOK, CallerTypes
    <2>2. DocTypes'
      <3>1. /\ current \in Preparsers /\ pp_scenario[current] \in Scenarios
            /\ chunk_no[current] \in 0 .. Uint8Values - 1
        BY <1>23
        DEF AddHandle, TypeInv, TypeOK, Control, CursorTypes, LayoutTypes, Contexts,
            Preparsers
      <3>2. <<current, pp_scenario[current]>> \in Jobs
        BY <3>1, JobRange
      <3> QED BY <1>23, <3>1, <3>2 DEF AddHandle, TypeInv, TypeOK, DocTypes
    <2>3. LayoutTypes' /\ JobTypes' /\ HeapTypes' /\ CursorTypes'
      BY <1>23, Frame DEF AddHandle, TypeInv, TypeOK
    <2>4. Control'
      BY <1>23 DEF AddHandle, TypeInv, Control, cursorVars
    <2> QED BY <2>1, <2>2, <2>3, <2>4 DEF TypeInv, TypeOK
  <1>24. CASE HandleFails
    <2>1. CallerTypes'
      BY <1>24, Threads DEF HandleFails, TypeInv, TypeOK, CallerTypes, MainFails
    <2>2. HeapTypes'
      BY <1>24, BlockTypes DEF HandleFails, TypeInv, TypeOK, HeapTypes, Free, MainFails
    <2>3. LayoutTypes' /\ JobTypes' /\ CursorTypes' /\ DocTypes'
      BY <1>24, Frame DEF HandleFails, TypeInv, TypeOK
    <2>4. Control'
      BY <1>24 DEF HandleFails, TypeInv, Control, cursorVars, docVars, MainFails
    <2> QED BY <2>1, <2>2, <2>3, <2>4 DEF TypeInv, TypeOK
  <1>25. CASE Collect
    <2>1. CallerTypes'
      BY <1>25, Threads DEF Collect, TypeInv, TypeOK, Control, CallerTypes, DocTypes
    <2>2. HeapTypes'
      <3>0. i \in Preparsers
        BY <1>25, Threads
        DEF Collect, TypeInv, TypeOK, Control, CallerTypes, DocTypes, Preparsers
      <3>1. i \in Preparsers /\ CollectScenario(i) \in Scenarios
        BY <3>0 DEF TypeInv, TypeOK, CursorTypes, Preparsers, Contexts, CollectScenario
      <3>2. Other(CollectScenario(i)) \in Scenarios
        BY DEF Other, Scenarios
      <3>3. Discarded(i, CollectScenario(i)) \in SUBSET Blocks
        BY <3>1, <3>2, PublishedTypes DEF TypeInv, TypeOK, Discarded, Scenarios
      <3> QED BY <1>25, <3>3, FreeTypes DEF Collect, TypeInv, TypeOK
    <2>3. DocTypes'
      BY <1>25
      DEF Collect, TypeInv, TypeOK, DocTypes, JobTypes, Jobs, CursorTypes,
          CollectScenario
    <2>4. LayoutTypes' /\ JobTypes' /\ CursorTypes'
      BY <1>25, Frame DEF Collect, TypeInv, TypeOK
    <2>5. Control'
      BY <1>25 DEF Collect, TypeInv, Control, cursorVars
    <2> QED BY <2>1, <2>2, <2>3, <2>4, <2>5 DEF TypeInv, TypeOK
  <1>26. CASE ReturnSuccess
    <2>1. CallerTypes'
      BY <1>26 DEF ReturnSuccess, TypeInv, TypeOK, CallerTypes
    <2>2. HeapTypes'
      BY <1>26, BlockTypes DEF ReturnSuccess, TypeInv, TypeOK, HeapTypes, Free
    <2>3. LayoutTypes' /\ JobTypes' /\ CursorTypes' /\ DocTypes'
      BY <1>26, Frame DEF ReturnSuccess, TypeInv, TypeOK
    <2>4. Control'
      BY <1>26 DEF ReturnSuccess, TypeInv, Control, cursorVars, docVars
    <2> QED BY <2>1, <2>2, <2>3, <2>4 DEF TypeInv, TypeOK
  <1>27. CASE CleanupNotInString
    <2>1. CallerTypes'
      BY <1>27 DEF CleanupNotInString, TypeInv, TypeOK, CallerTypes, CleanupJob
    <2>2. HeapTypes'
      <3>1. i \in Preparsers
        BY <1>27, Threads
        DEF CleanupNotInString, CleanupJob, LastCleanedUp, TypeInv, TypeOK, CallerTypes,
            LayoutTypes, Preparsers
      <3>2. segment[<<i, NotInString>>] \cup pp_table[<<i, NotInString>>]
              \in SUBSET Blocks
        BY <3>1, PublishedTypes DEF TypeInv, TypeOK, Scenarios
      <3> QED BY <1>27, <3>2, FreeTypes
              DEF CleanupNotInString, CleanupJob, TypeInv, TypeOK
    <2>3. LayoutTypes' /\ JobTypes' /\ CursorTypes' /\ DocTypes'
      BY <1>27, Frame DEF CleanupNotInString, TypeInv, TypeOK, CleanupJob
    <2>4. Control'
      BY <1>27
      DEF CleanupNotInString, TypeInv, Control, layoutVars, cursorVars, docVars,
          CleanupJob, LastCleanedUp
    <2> QED BY <2>1, <2>2, <2>3, <2>4 DEF TypeInv, TypeOK
  <1>28. CASE CleanupInString
    <2>1. CallerTypes'
      BY <1>28, Threads
      DEF CleanupInString, CleanupJob, LastCleanedUp, TypeInv, TypeOK, CallerTypes,
          LayoutTypes
    <2>2. HeapTypes'
      <3>1. i \in Preparsers
        BY <1>28, Threads
        DEF CleanupInString, CleanupJob, LastCleanedUp, TypeInv, TypeOK, CallerTypes,
            LayoutTypes, Preparsers
      <3>2. segment[<<i, InString>>] \cup pp_table[<<i, InString>>] \in SUBSET Blocks
        BY <3>1, PublishedTypes DEF TypeInv, TypeOK, Scenarios
      <3> QED BY <1>28, <3>2, FreeTypes DEF CleanupInString, CleanupJob, TypeInv, TypeOK
    <2>3. LayoutTypes' /\ JobTypes' /\ CursorTypes' /\ DocTypes'
      BY <1>28, Frame DEF CleanupInString, TypeInv, TypeOK, CleanupJob
    <2>4. Control'
      BY <1>28 DEF CleanupInString, TypeInv, Control, cursorVars, docVars, CleanupJob
    <2> QED BY <2>1, <2>2, <2>3, <2>4 DEF TypeInv, TypeOK
  <1>29. CASE ReturnError
    <2>1. CallerTypes'
      BY <1>29 DEF ReturnError, TypeInv, TypeOK, CallerTypes
    <2>2. HeapTypes'
      BY <1>29, FreeTypes, BlockTypes, SegmentBlocksTypes
      DEF ReturnError, TypeInv, TypeOK
    <2>3. LayoutTypes' /\ JobTypes' /\ CursorTypes' /\ DocTypes'
      BY <1>29, Frame DEF ReturnError, TypeInv, TypeOK
    <2>4. Control'
      BY <1>29 DEF ReturnError, TypeInv, Control, cursorVars, docVars
    <2> QED BY <2>1, <2>2, <2>3, <2>4 DEF TypeInv, TypeOK
  <1>30. CASE DocumentFree
    <2>1. CallerTypes'
      BY <1>30 DEF DocumentFree, TypeInv, TypeOK, CallerTypes
    <2>2. HeapTypes'
      BY <1>30, FreeTypes, BlockTypes, SegmentBlocksTypes
      DEF DocumentFree, TypeInv, TypeOK
    <2>3. LayoutTypes' /\ JobTypes' /\ CursorTypes' /\ DocTypes'
      BY <1>30, Frame DEF DocumentFree, TypeInv, TypeOK
    <2>4. Control'
      BY <1>30 DEF DocumentFree, TypeInv, Control, cursorVars, docVars
    <2> QED BY <2>1, <2>2, <2>3, <2>4 DEF TypeInv, TypeOK
  <1>31. ASSUME NEW t \in Preparsers, NEW s \in Scenarios, Preparse(t, s)
         PROVE  TypeInv'
    <2> DEFINE job == <<t, s>>
    <2>1. job \in Jobs /\ PublishStage(s) \in {"publish_in", "publish_not"}
      BY JobRange DEF PublishStage
    <2>2. PICK o \in PreparseOutcomes :
            /\ Allocate({Block(kind, job) : kind \in LeftAllocated[o]})
            /\ segment' = [segment EXCEPT ![job] = PublishedBlocks("segment", o, job)]
            /\ pp_table' = [pp_table EXCEPT ![job] = PublishedBlocks("table", o, job)]
            /\ \E E \in IF "table" \in Published[o] THEN Tables(t, s) ELSE {{}} :
                 entries' = [entries EXCEPT ![job] = E]
      BY <1>31 DEF Preparse, ResultOf
    <2>3. LeftAllocated[o] \subseteq {"segment", "table", "stack"}
      BY OutcomesAssumption DEF LeftAllocated, Published
    <2>4. HeapTypes'
      BY <2>1, <2>2, <2>3, BlockTypes DEF TypeInv, TypeOK, HeapTypes, Allocate
    <2>5. /\ PublishedBlocks("segment", o, job) \in SUBSET Blocks
          /\ PublishedBlocks("table", o, job) \in SUBSET Blocks
      BY <2>1, BlockTypes DEF PublishedBlocks
    <2>6. \A E \in Tables(t, s) : E \subseteq Slices
      BY DEF Tables, Preparsable
    <2>7. entries' \in [Jobs -> SUBSET Slices]
      BY <2>1, <2>2, <2>6 DEF TypeInv, TypeOK, JobTypes
    <2>8. thread_pc' = [thread_pc EXCEPT ![t] = PublishStage(s)] /\ failed' \subseteq Jobs
          /\ completed' = completed
      BY <1>31, <2>1 DEF Preparse, ResultOf, TypeInv, TypeOK, JobTypes
    <2>9. JobTypes'
      BY <2>1, <2>2, <2>5, <2>7, <2>8 DEF TypeInv, TypeOK, JobTypes
    <2>10. CallerTypes' /\ LayoutTypes' /\ CursorTypes' /\ DocTypes'
      BY <1>31, Frame DEF Preparse, TypeInv, TypeOK
    <2>11. Control'
      BY <1>31
      DEF Preparse, TypeInv, Control, callerVars, layoutVars, cursorVars, docVars
    <2> QED BY <2>4, <2>9, <2>10, <2>11 DEF TypeInv, TypeOK
  <1>32. ASSUME NEW t \in Preparsers, NEW s \in Scenarios, Publish(t, s)
         PROVE  TypeInv'
    <2>1. JobTypes'
      BY <1>32, JobRange DEF Publish, Completes, StageAfter, TypeInv, TypeOK, JobTypes
    <2>2. CallerTypes' /\ LayoutTypes' /\ HeapTypes' /\ CursorTypes' /\ DocTypes'
      BY <1>32, Frame DEF Publish, TypeInv, TypeOK
    <2>3. Control'
      BY <1>32
      DEF Publish, TypeInv, Control, callerVars, layoutVars, cursorVars, docVars
    <2> QED BY <2>1, <2>2, <2>3 DEF TypeInv, TypeOK
  <1>33. CASE UNCHANGED vars
    <2>1. TypeOK'
      BY <1>33, Frame DEF TypeInv, TypeOK, vars
    <2>2. Control'
      BY <1>33 DEF TypeInv, Control, vars, callerVars, layoutVars, cursorVars, docVars
    <2> QED BY <2>1, <2>2 DEF TypeInv
  <1> QED
    BY <1>1, <1>2, <1>3, <1>4, <1>5, <1>6, <1>7, <1>8, <1>9, <1>10, <1>11, <1>12, <1>13,
       <1>14, <1>15, <1>16, <1>17, <1>18, <1>19, <1>20, <1>21, <1>22, <1>23, <1>24,
       <1>25, <1>26, <1>27, <1>28, <1>29, <1>30, <1>31, <1>32, <1>33
    DEF Next, Caller, Setup, Tokens, Cursor, Parse, Finish, Thread, Terminated

(* The initial state has the types.                                         *)
THEOREM TypeInit == Init => TypeInv
  <1> SUFFICES ASSUME Init PROVE TypeInv
    OBVIOUS
  <1>1. EmptySlice \in Slices /\ 0 \in 0 .. JsonSize /\ 0 \in Contexts
    BY SizesAssumption, Threads DEF EmptySlice, Slices, Contexts
  <1>2. CallerTypes /\ HeapTypes
    BY <1>1, Threads DEF Init, CallerTypes, HeapTypes
  <1>3. LayoutTypes
    BY <1>1, SizesAssumption, Threads DEF Init, LayoutTypes
  <1>4. JobTypes
    BY DEF Init, JobTypes
  <1>5. CursorTypes /\ DocTypes
    BY <1>1, SizesAssumption DEF Init, CursorTypes, DocTypes, Scenarios
  <1>6. Control
    BY Threads DEF Init, Control
  <1> QED BY <1>2, <1>3, <1>4, <1>5, <1>6 DEF TypeInv, TypeOK

(* No offset of the caller's parse, of a chunk or of a table entry ever     *)
(* leaves the input, no counter its range, and a handle is only made for a  *)
(* job of a preparsing thread (TypeOK), for every input size and number of  *)
(* threads.                                                                 *)
THEOREM TypeCorrect == Spec => []TypeOK
  <1>1. TypeInv => TypeOK
    BY DEF TypeInv
  <1> QED BY <1>1, TypeInit, TypeStep, PTL DEF Spec

----------------------------------------------------------------------------
(* The layout of the chunks.                                                *)

(* Where the caller is while it parses the input (the loop of               *)
(* thsn_main_thread).                                                       *)
MainLoop == {"token", "advance", "await", "find", "parse", "handle"}

(* The chunk of thread t, counted from the end of the input: chunks have    *)
(* all the same size but for the first one.                                 *)
ChunkOf(t) == [data |-> JsonSize - SubbufferSize * (EffectiveThreads - t),
               size |-> SubbufferSize]

(* The contexts filled in so far hold their chunks, the next chunk begins   *)
(* where they end, and the loop has created every thread before the caller  *)
(* parses.                                                                  *)
Layout ==
  /\ pc \in {"create", "collect"} \cup MainLoop =>
       /\ slice[0] = [data |-> 0, size |-> FirstChunkSize]
       /\ \A t \in 1 .. threads_created : slice[t] = ChunkOf(t)
  /\ pc = "create" => /\ subbuffer_size = SubbufferSize
                      /\ current_offset = ChunkOf(i).data
  /\ pc \in {"collect"} \cup MainLoop => threads_created = EffectiveThreads - 1

(* c chunks of b bytes fit in a bytes only if c is at most the quotient.    *)
LEMMA Quotient ==
  ASSUME NEW a \in Nat, NEW b \in Nat \ {0}, NEW c \in Nat, c * b <= a
  PROVE  c <= a \div b
  OBVIOUS

(* If there is more than one chunk, none is shorter than                    *)
(* MIN_THREAD_SLICE_SIZE: the number of threads was cut down to the         *)
(* quotient.                                                                *)
LEMMA ChunksLongEnough ==
  EffectiveThreads > 1 => SubbufferSize >= MinThreadSliceSize
  <1> SUFFICES ASSUME EffectiveThreads > 1 PROVE SubbufferSize >= MinThreadSliceSize
    OBVIOUS
  <1> DEFINE most == JsonSize \div MinThreadSliceSize
  <1>1. most \in Nat /\ MinThreadSliceSize * most <= JsonSize
    BY DivFacts, SizesAssumption
  <1>2. EffectiveThreads \in Nat \ {0} /\ EffectiveThreads <= most
    BY <1>1, Threads, SizesAssumption DEF EffectiveThreads
  <1>3. MinThreadSliceSize * EffectiveThreads <= MinThreadSliceSize * most
    BY <1>1, <1>2, SizesAssumption
  <1>4. MinThreadSliceSize * EffectiveThreads \in Nat
    BY <1>2, SizesAssumption
  <1>5. MinThreadSliceSize * EffectiveThreads <= JsonSize
    BY <1>1, <1>3, <1>4, SizesAssumption
  <1> QED BY <1>2, SizesAssumption DEF SubbufferSize

(* A chunk is not empty (so that the loop never ends by running out of      *)
(* input), the next one begins where it ends, the last one ends with the    *)
(* input, and the first one is the largest.                                 *)
LEMMA NextChunk ==
  ASSUME NEW t \in 1 .. EffectiveThreads - 1
  PROVE  /\ JsonSize - ChunkOf(t).data >= SubbufferSize
         /\ JsonSize - ChunkOf(t).data \in Int
         /\ SubbufferSize > 0
         /\ ChunkOf(t + 1).data = ChunkOf(t).data + SubbufferSize
         /\ ChunkOf(EffectiveThreads).data = JsonSize
         /\ FirstChunkSize = ChunkOf(1).data
         /\ FirstChunkSize >= SubbufferSize
  <1>1. SubbufferSize \in Nat /\ EffectiveThreads \in Nat \ {0} /\ t \in Nat
        /\ EffectiveThreads - t \in Nat \ {0} /\ SubbufferSize > 0
    BY Threads, ChunksLongEnough, SizesAssumption
  <1>2. /\ SubbufferSize * (EffectiveThreads - t) >= SubbufferSize
        /\ SubbufferSize * (EffectiveThreads - t) \in Nat
        /\ SubbufferSize * (EffectiveThreads - (t + 1))
             = SubbufferSize * (EffectiveThreads - t) - SubbufferSize
        /\ SubbufferSize * (EffectiveThreads - 1)
             = SubbufferSize * EffectiveThreads - SubbufferSize
        /\ SubbufferSize * (EffectiveThreads - EffectiveThreads) = 0
    BY <1>1
  <1> QED BY <1>1, Threads, SizesAssumption DEF ChunkOf, FirstChunkSize

(* Nothing is laid out initially.                                           *)
LEMMA LayoutInit == Init => Layout
  BY DEF Init, Layout, MainLoop

(* Every step keeps the layout; only filling in the next context extends    *)
(* it.                                                                      *)
LEMMA LayoutStep == TypeInv /\ Layout /\ [Next]_vars => Layout'
  <1> SUFFICES ASSUME TypeInv, Layout, [Next]_vars PROVE Layout'
    OBVIOUS
  <1>1. CASE Call
    <2>1. 0 \in Contexts
      BY Threads DEF Contexts
    <2>2. slice'[0] = [data |-> 0, size |-> FirstChunkSize]
      BY <1>1, <2>1 DEF Call, TypeInv, TypeOK, LayoutTypes
    <2>3. threads_created' = 0 /\ pc' = "create" /\ i' = 1
          /\ subbuffer_size' = SubbufferSize /\ current_offset' = FirstChunkSize
      BY <1>1 DEF Call, TypeInv, Control
    <2>4. ChunkOf(1).data = FirstChunkSize
      BY DEF ChunkOf, FirstChunkSize
    <2> QED BY <2>2, <2>3, <2>4 DEF Layout, MainLoop
  <1>2. CASE CreateThread
    <2>1. /\ pc = "create" /\ i \in 1 .. EffectiveThreads - 1
          /\ pc' = "create" /\ i' = i + 1
          /\ i \in Contexts /\ i # 0 /\ 0 \in Contexts
          /\ threads_created = i - 1 /\ threads_created' = i
      BY <1>2, Threads
      DEF CreateThread, FillContext, StartThread, TypeInv, TypeOK, Control, CallerTypes,
          Contexts
    <2>2. BufferLeft >= SubbufferSize /\ BufferLeft \in Int
      BY <2>1, NextChunk DEF Layout, BufferLeft
    <2>3. NextSize = SubbufferSize
      BY <2>1, <2>2, Threads DEF Layout, NextSize
    <2>4. slice' = [slice EXCEPT ![i] = ChunkOf(i)]
      BY <1>2, <2>3 DEF CreateThread, FillContext, ChunkOf, Layout
    <2>5. slice'[0] = slice[0] /\ \A t \in 1 .. threads_created' : slice'[t] = ChunkOf(t)
      <3>1. DOMAIN slice = Contexts
        BY DEF TypeInv, TypeOK, LayoutTypes
      <3>2. slice'[0] = slice[0] /\ slice'[i] = ChunkOf(i)
            /\ \A t \in Contexts \ {i} : slice'[t] = slice[t]
        BY <2>1, <2>4, <3>1
      <3>3. \A t \in 1 .. i :
              t = i \/ (t \in 1 .. threads_created /\ t \in Contexts \ {i})
        BY <2>1, Threads DEF Contexts
      <3>4. \A t \in 1 .. threads_created : slice[t] = ChunkOf(t)
        BY <2>1 DEF Layout
      <3> QED BY <2>1, <3>2, <3>3, <3>4
    <2>6. subbuffer_size' = SubbufferSize /\ current_offset' = ChunkOf(i').data
      BY <1>2, <2>1, <2>3, NextChunk DEF CreateThread, FillContext, Layout
    <2> QED BY <2>1, <2>5, <2>6 DEF Layout
  <1>3. CASE StartMain
    <2>1. pc = "create" /\ pc' = "token" /\ UNCHANGED layoutVars
          /\ i \in 1 .. EffectiveThreads /\ threads_created = i - 1
      BY <1>3 DEF StartMain, AllThreadsCreated, TypeInv, TypeOK, Control, CallerTypes
    <2>2. i \notin 1 .. EffectiveThreads - 1
      <3> SUFFICES ASSUME i \in 1 .. EffectiveThreads - 1 PROVE FALSE
        OBVIOUS
      <3>1. BufferLeft > 0
        BY <2>1, NextChunk, Threads DEF Layout, BufferLeft
      <3> QED BY <1>3, <3>1, Threads DEF StartMain, AllThreadsCreated
    <2>3. threads_created = EffectiveThreads - 1
      BY <2>1, <2>2, Threads
    <2> QED BY <2>1, <2>3 DEF Layout, layoutVars
  <1>4. CASE Tokens \/ Cursor \/ Parse \/ Collect
    <2>1. /\ UNCHANGED layoutVars
          /\ pc \in MainLoop \cup {"collect"}
          /\ pc' # "create"
      BY <1>4
      DEF Tokens, Cursor, Parse, Collect, TokenString, TokenOpen, TokenOther, TokenEof,
          TokenError, NextToken, AdvanceHere, AdvanceOut, AdvanceTo, AwaitFailed,
          LoadTable, FindNothing, FindEntry, Awaited, cursorUnchanged, ParseContinues,
          ParseFinishes, ParseFails, AddHandle, HandleFails, MainFails, MainLoop,
          AfterAdvance, AfterFind
    <2> QED BY <2>1 DEF Layout, layoutVars, MainLoop
  <1>5. CASE AllocateFails \/ CreateFails \/ DetachFails \/ MainInitFails \/ ReturnSuccess
             \/ CleanupNotInString \/ CleanupInString \/ ReturnError \/ DocumentFree
    <2>1. pc' \in {"cleanup_not", "cleanup_in", "returned", "freed"}
      BY <1>5
      DEF AllocateFails, CreateFails, DetachFails, MainInitFails, ReturnSuccess,
          CleanupNotInString, CleanupInString, ReturnError, DocumentFree
    <2> QED BY <2>1 DEF Layout, MainLoop
  <1>6. CASE UNCHANGED <<callerVars, layoutVars>>
    BY <1>6 DEF Layout, callerVars, layoutVars
  <1>7. ASSUME NEW t \in Preparsers, Thread(t) PROVE UNCHANGED <<callerVars, layoutVars>>
    BY <1>7 DEF Thread, Preparse, Publish
  <1>8. (Terminated \/ UNCHANGED vars) => UNCHANGED <<callerVars, layoutVars>>
    BY DEF Terminated, vars
  <1> QED BY <1>1, <1>2, <1>3, <1>4, <1>5, <1>6, <1>7, <1>8
          DEF Next, Caller, Setup, Finish

(* When the caller starts to parse, the chunks tile the input without a gap *)
(* or an overlap, and none but a single one is shorter than                 *)
(* MIN_THREAD_SLICE_SIZE, whatever the division of the input by the number  *)
(* of threads leaves over.                                                  *)
THEOREM ChunksTile == Spec => []ChunksTileInput
  <1>1. TypeInv /\ Layout => ChunksTileInput
    <2> SUFFICES ASSUME TypeInv, Layout, pc \in {"collect"} \cup MainLoop
                 PROVE  /\ slice[0].data = 0
                        /\ \A t \in Preparsers : slice[t].data = SliceEnd(slice[t - 1])
                        /\ SliceEnd(slice[EffectiveThreads - 1]) = JsonSize
                        /\ \A t \in Preparsers : slice[t].size >= MinThreadSliceSize
                        /\ slice[0].size >= slice[EffectiveThreads - 1].size
      BY DEF TypeInv, TypeOK, CallerTypes, ChunksTileInput, MainLoop
    <2>1. slice[0] = [data |-> 0, size |-> FirstChunkSize]
          /\ \A t \in Preparsers : slice[t] = ChunkOf(t)
      BY DEF Layout, Preparsers
    <2>2. ASSUME NEW t \in Preparsers PROVE slice[t].data = SliceEnd(slice[t - 1])
      <3>1. CASE t = 1
        BY <2>1, <3>1, NextChunk, Threads DEF SliceEnd, Preparsers
      <3>2. CASE t # 1
        <4>1. t - 1 \in Preparsers /\ t - 1 \in 1 .. EffectiveThreads - 1
          BY <3>2, Threads DEF Preparsers
        <4>2. ChunkOf((t - 1) + 1).data = ChunkOf(t - 1).data + SubbufferSize
          BY <4>1, NextChunk
        <4>3. ChunkOf(t - 1).size = SubbufferSize /\ (t - 1) + 1 = t
          BY <4>1 DEF ChunkOf, Preparsers
        <4> QED BY <2>1, <4>1, <4>2, <4>3 DEF SliceEnd
      <3> QED BY <3>1, <3>2
    <2>3. SliceEnd(slice[EffectiveThreads - 1]) = JsonSize
          /\ slice[0].size >= slice[EffectiveThreads - 1].size
      <3>1. CASE EffectiveThreads = 1
        BY <2>1, <3>1, Threads, SizesAssumption DEF SliceEnd, FirstChunkSize
      <3>2. CASE EffectiveThreads # 1
        <4>1. EffectiveThreads - 1 \in 1 .. EffectiveThreads - 1
          BY <3>2, Threads
        <4>2. /\ ChunkOf((EffectiveThreads - 1) + 1).data
                   = ChunkOf(EffectiveThreads - 1).data + SubbufferSize
              /\ ChunkOf(EffectiveThreads).data = JsonSize
              /\ FirstChunkSize >= SubbufferSize
          BY <4>1, NextChunk
        <4>3. slice[EffectiveThreads - 1] = ChunkOf(EffectiveThreads - 1)
          BY <2>1, <4>1 DEF Preparsers
        <4> QED BY <2>1, <4>2, <4>3, Threads DEF SliceEnd, ChunkOf
      <3> QED BY <3>1, <3>2
    <2>4. \A t \in Preparsers : slice[t].size >= MinThreadSliceSize
      <3>1. \A t \in Preparsers : ChunkOf(t).size = SubbufferSize /\ EffectiveThreads > 1
        BY Threads DEF ChunkOf, Preparsers
      <3> QED BY <2>1, <3>1, ChunksLongEnough
    <2> QED BY <2>1, <2>2, <2>3, <2>4
  <1> QED BY <1>1, TypeInit, TypeStep, LayoutInit, LayoutStep, PTL DEF Spec

----------------------------------------------------------------------------
(* The stages of a preparsing thread.                                       *)

(* The positions of a preparsing thread.                                    *)
ThreadPcs ==
  {"absent", "preparse_in", "publish_in", "preparse_not", "publish_not", "exited"}

(* A thread that was created works through its two jobs in one order,       *)
(* IN_STRING first, and its flags are set exactly behind the stores: the    *)
(* completion flag of NOT_IN_STRING says that the thread is over, which is  *)
(* why the caller may free the contexts once it has seen both.              *)
Stages ==
  \A t \in Preparsers :
    /\ thread_pc[t] = "absent" <=> t > threads_created
    /\ <<t, InString>> \in completed
         <=> thread_pc[t] \in {"preparse_not", "publish_not", "exited"}
    /\ <<t, NotInString>> \in completed <=> thread_pc[t] = "exited"

(* No thread exists initially.                                              *)
LEMMA StagesInit == Init => Stages
  BY Threads DEF Init, Stages, Preparsers

(* Apart from the loop that creates the threads, no step of the caller      *)
(* changes the contexts or the jobs.                                        *)
LEMMA CallerFrame ==
  Caller /\ ~(Call \/ CreateThread \/ CreateFails \/ DetachFails)
    => UNCHANGED <<layoutVars, jobVars>>
  <1>1. Setup /\ ~(Call \/ CreateThread \/ CreateFails \/ DetachFails)
        => UNCHANGED <<layoutVars, jobVars>>
    BY DEF Setup, AllocateFails, StartMain, MainInitFails
  <1>2. Tokens \/ Cursor => UNCHANGED <<layoutVars, jobVars>>
    BY DEF Tokens, Cursor, TokenString, TokenOpen, TokenOther, TokenEof, TokenError,
           NextToken, AdvanceHere, AdvanceOut, AdvanceTo, AwaitFailed, LoadTable,
           FindNothing, FindEntry, cursorUnchanged
  <1>3. Parse \/ Finish => UNCHANGED <<layoutVars, jobVars>>
    BY DEF Parse, Finish, ParseContinues, ParseFinishes, ParseFails, AddHandle,
           HandleFails, cursorUnchanged, Collect, ReturnSuccess, CleanupNotInString,
           CleanupInString, CleanupJob, ReturnError
  <1> QED BY <1>1, <1>2, <1>3 DEF Caller

(* Every step keeps the stages.                                             *)
LEMMA StagesStep == TypeInv /\ Stages /\ [Next]_vars => Stages'
  <1> SUFFICES ASSUME TypeInv, Stages, [Next]_vars PROVE Stages'
    OBVIOUS
  <1>1. CASE CreateThread \/ DetachFails
    <2>1. /\ i \in Preparsers /\ threads_created = i - 1 /\ threads_created' = i
          /\ thread_pc' = [thread_pc EXCEPT ![i] = "preparse_in"]
          /\ completed' = completed
          /\ thread_pc \in [Preparsers -> ThreadPcs]
      BY <1>1, FillContextTypes
      DEF CreateThread, DetachFails, FillContext, StartThread, TypeInv, TypeOK, Control,
          CallerTypes, JobTypes, ThreadPcs
    <2>2. /\ \A t \in Preparsers : t \in Int
          /\ \A t \in Preparsers \ {i} : t > threads_created <=> t > threads_created'
          /\ i > threads_created /\ ~(i > threads_created')
      <3>1. \A t \in Preparsers : t \in Int
        BY DEF Preparsers
      <3> QED BY <2>1, <3>1
    <2>3. ASSUME NEW t \in Preparsers
          PROVE  /\ thread_pc'[t] = "absent" <=> t > threads_created'
                 /\ <<t, InString>> \in completed'
                      <=> thread_pc'[t] \in {"preparse_not", "publish_not", "exited"}
                 /\ <<t, NotInString>> \in completed' <=> thread_pc'[t] = "exited"
      <3>1. CASE t = i
        BY <2>1, <2>2, <3>1 DEF Stages
      <3>2. CASE t # i
        BY <2>1, <2>2, <3>2 DEF Stages
      <3> QED BY <3>1, <3>2
    <2> QED BY <2>3 DEF Stages
  <1>2. ASSUME NEW t \in Preparsers, NEW s \in Scenarios, Preparse(t, s)
        PROVE  Stages'
    BY <1>2
    DEF Preparse, Stages, TypeInv, TypeOK, JobTypes, PreparseStage, PublishStage,
        layoutVars
  <1>3. ASSUME NEW t \in Preparsers, NEW s \in Scenarios, Publish(t, s)
        PROVE  Stages'
    BY <1>3
    DEF Publish, Stages, TypeInv, TypeOK, JobTypes, StageAfter, PublishStage, Completes,
        layoutVars, NotInString, InString, Scenarios
  <1>4. CASE Call \/ CreateFails
    BY <1>4 DEF Call, CreateFails, Stages, jobVars
  <1>5. CASE UNCHANGED <<layoutVars, jobVars>>
    BY <1>5 DEF Stages, layoutVars, jobVars
  <1>7. DocumentFree \/ Terminated \/ UNCHANGED vars => UNCHANGED <<layoutVars, jobVars>>
    BY DEF DocumentFree, Terminated, vars
  <1> QED BY <1>1, <1>2, <1>3, <1>4, <1>5, <1>7, CallerFrame DEF Next, Thread

(* Once the completion flag of a job is set no step of any thread changes   *)
(* its segment, its table, its entries or its failed flag: what the caller  *)
(* reads after the acquire load is what was there at the release store.     *)
THEOREM PublishedFrozen == Spec => PublishedIsFrozen
  <1>1. TypeInv /\ Stages /\ [Next]_vars =>
          [/\ completed \subseteq completed'
           /\ \A j \in completed : /\ segment'[j] = segment[j] /\ pp_table'[j] = pp_table[j]
                                   /\ entries'[j] = entries[j]
                                   /\ j \in failed' <=> j \in failed]_vars
    <2> SUFFICES ASSUME TypeInv, Stages, [Next]_vars
                 PROVE  /\ completed \subseteq completed'
                        /\ \A j \in completed :
                             /\ segment'[j] = segment[j] /\ pp_table'[j] = pp_table[j]
                             /\ entries'[j] = entries[j]
                             /\ j \in failed' <=> j \in failed
      OBVIOUS
    <2>1. CASE UNCHANGED <<completed, failed, segment, pp_table, entries>>
      BY <2>1
    <2>2. ASSUME NEW t \in Preparsers, NEW s \in Scenarios, Preparse(t, s)
          PROVE  /\ completed' = completed /\ <<t, s>> \notin completed
                 /\ \A j \in Jobs \ {<<t, s>>} :
                      /\ segment'[j] = segment[j] /\ pp_table'[j] = pp_table[j]
                      /\ entries'[j] = entries[j]
                      /\ j \in failed' <=> j \in failed
      <3>1. <<t, s>> \notin completed /\ completed' = completed
        BY <2>2 DEF Preparse, Stages, PreparseStage, Scenarios
      <3>2. ASSUME NEW j \in Jobs \ {<<t, s>>}
            PROVE  /\ segment'[j] = segment[j] /\ pp_table'[j] = pp_table[j]
                   /\ entries'[j] = entries[j]
                   /\ j \in failed' <=> j \in failed
        BY <2>2 DEF Preparse, ResultOf
      <3> QED BY <3>1, <3>2
    <2>3. ASSUME NEW t \in Preparsers, NEW s \in Scenarios, Publish(t, s)
          PROVE  /\ completed \subseteq completed'
                 /\ UNCHANGED <<failed, segment, pp_table, entries>>
      BY <2>3 DEF Publish
    <2>4. Caller \/ DocumentFree \/ Terminated \/ UNCHANGED vars
            => UNCHANGED <<completed, failed, segment, pp_table, entries>>
      <3>1. Caller => UNCHANGED <<completed, failed, segment, pp_table, entries>>
        BY CallerFrame
        DEF Call, CreateThread, CreateFails, DetachFails, StartThread, jobVars
      <3>4. DocumentFree \/ Terminated \/ UNCHANGED vars => UNCHANGED jobVars
        BY DEF DocumentFree, Terminated, vars
      <3> QED BY <3>1, <3>4 DEF jobVars
    <2>5. completed \subseteq Jobs
      BY DEF TypeInv, TypeOK, JobTypes
    <2> QED BY <2>2, <2>3, <2>4, <2>5 DEF Next, Thread
  <1> QED BY <1>1, TypeInit, TypeStep, StagesInit, StagesStep, PTL
          DEF Spec, PublishedIsFrozen

----------------------------------------------------------------------------
(* The scenario of a chunk.                                                 *)

(* The job whose table the cursor reads.                                    *)
CursorJob == <<current, pp_scenario[current]>>

(* A handle stored in the document was made in a chunk that the cursor has  *)
(* reached, under the scenario that is chosen for that chunk.               *)
HandleOK(h) ==
  /\ h.job[1] \in Preparsers /\ h.job = <<h.job[1], pp_scenario[h.job[1]]>>
  /\ h.job[1] <= current /\ (pc = "await" => h.job[1] < current)

(* Every handle is one of those.                                            *)
Skipping ==
  /\ pc \in {"call", "create"} => handles = {}
  /\ \A h \in handles : HandleOK(h)

(* There are no handles initially.                                          *)
LEMMA SkippingInit == Init => Skipping
  BY DEF Init, Skipping

(* Every step keeps it: a scenario is only chosen on entering a chunk,      *)
(* ahead of every handle, and the cursor only goes forwards.                *)
LEMMA SkippingStep == TypeInv /\ Skipping /\ [Next]_vars => Skipping'
  <1> SUFFICES ASSUME TypeInv, Skipping, [Next]_vars PROVE Skipping'
    OBVIOUS
  <1>0. current \in Int /\ current \in Contexts /\ \A t \in Contexts : t \in Int
        /\ pp_scenario \in [Contexts -> Scenarios]
    BY DEF TypeInv, TypeOK, CursorTypes, Contexts
  <1>1. CASE AdvanceOut
    <2>1. \A h \in handles : h.job[1] \in Preparsers /\ h.job[1] <= EffectiveThreads - 1
      BY Threads DEF Skipping, HandleOK, Preparsers
    <2> QED BY <1>1, <2>1
            DEF AdvanceOut, cursorUnchanged, docVars, Skipping, HandleOK, AfterAdvance
  <1>2. CASE AdvanceTo
    <2>1. current' \in Int /\ current' > current
      BY <1>0, <1>2 DEF AdvanceTo
    <2>2. \A h \in handles : h.job[1] \in Int
      BY DEF Skipping, HandleOK, Preparsers
    <2> QED BY <1>0, <1>2, <2>2
            DEF AdvanceTo, cursorUnchanged, docVars, Skipping, HandleOK
  <1>3. CASE AwaitFailed \/ LoadTable
    <2>1. /\ pc = "await" /\ pc' \notin {"await", "create", "call"} /\ current' = current
          /\ handles' = handles
          /\ pp_scenario' = [pp_scenario EXCEPT ![current] = EnteredAs]
      BY <1>3
      DEF AwaitFailed, LoadTable, Awaited, ChooseScenario, MainFails, cursorUnchanged,
          docVars, AfterAdvance
    <2>2. ASSUME NEW h \in handles
          PROVE  h.job[1] # current /\ h.job[1] \in Contexts
      BY <2>1 DEF Skipping, HandleOK, Preparsers, Contexts
    <2>3. ASSUME NEW h \in handles
          PROVE  pp_scenario'[h.job[1]] = pp_scenario[h.job[1]]
      BY <1>0, <2>1, <2>2
    <2> QED BY <2>1, <2>3 DEF Skipping, HandleOK
  <1>4. CASE AddHandle
    <2>1. current \in Preparsers
      BY <1>0, <1>4 DEF AddHandle, TypeInv, Control, Contexts, Preparsers
    <2> QED BY <1>0, <1>4, <2>1 DEF AddHandle, Skipping, HandleOK, cursorVars
  <1>5. ASSUME UNCHANGED <<handles, current, pp_scenario>>,
               pc' \in {"await", "call", "create"} => pc = pc' \/ handles = {}
        PROVE  Skipping'
    BY <1>5 DEF Skipping, HandleOK
  <1>6. Setup \/ Tokens \/ AdvanceHere \/ FindNothing \/ FindEntry \/ ParseContinues
          \/ ParseFinishes \/ ParseFails \/ HandleFails \/ Finish \/ DocumentFree
          => /\ UNCHANGED <<handles, current, pp_scenario>>
             /\ pc' \in {"await", "call", "create"} => pc = pc' \/ handles = {}
    <2>1. Setup => /\ UNCHANGED <<handles, current, pp_scenario>>
                   /\ pc' \in {"await", "call", "create"} => handles = {}
      BY DEF Setup, Call, AllocateFails, CreateThread, CreateFails, DetachFails,
             StartMain, MainInitFails, FillContext, Skipping, cursorVars, docVars
    <2>2. Tokens => /\ UNCHANGED <<handles, current, pp_scenario>>
                    /\ pc' \notin {"await", "call", "create"}
      BY DEF Tokens, TokenString, TokenOpen, TokenOther, TokenEof, TokenError,
             NextToken, MainFails, cursorVars, docVars
    <2>3. AdvanceHere \/ FindNothing \/ FindEntry \/ ParseContinues \/ ParseFinishes
          \/ ParseFails \/ HandleFails => /\ UNCHANGED <<handles, current, pp_scenario>>
                                          /\ pc' \notin {"await", "call", "create"}
      BY DEF AdvanceHere, FindNothing, FindEntry, ParseContinues, ParseFinishes,
             ParseFails, HandleFails, MainFails, cursorUnchanged, cursorVars, docVars,
             AfterAdvance, AfterFind
    <2>4. Finish \/ DocumentFree => /\ UNCHANGED <<handles, current, pp_scenario>>
                                    /\ pc' \notin {"await", "call", "create"}
      BY DEF Finish, Collect, ReturnSuccess, CleanupNotInString, CleanupInString,
             CleanupJob, ReturnError, DocumentFree, cursorVars, docVars
    <2> QED BY <2>1, <2>2, <2>3, <2>4
  <1>7. (\E t \in Preparsers : Thread(t)) \/ Terminated \/ UNCHANGED vars
          => UNCHANGED <<handles, current, pp_scenario, pc>>
    BY DEF Thread, Preparse, Publish, Terminated, vars, callerVars, cursorVars, docVars
  <1> QED BY <1>1, <1>2, <1>3, <1>4, <1>5, <1>6, <1>7 DEF Next, Caller, Cursor, Parse

(* The scenario of a chunk is never chosen again once a value of the chunk  *)
(* has been replaced by a handle: the segment collected for the chunk is    *)
(* the one the handle points into.                                          *)
THEOREM ScenarioStaysSettled == Spec => ScenarioSettled
  <1>1. TypeInv /\ Skipping /\ Skipping' /\ [Next]_vars
          => [\A h \in handles : pp_scenario'[h.job[1]] = h.job[2]]_vars
    <2> SUFFICES ASSUME TypeInv, Skipping, Skipping', [Next]_vars
                 PROVE  \A h \in handles : pp_scenario'[h.job[1]] = h.job[2]
      OBVIOUS
    <2>1. handles \subseteq handles'
      BY DEF Next, Caller, Setup, Tokens, Cursor, Parse, Finish, Thread, Call,
             AllocateFails, CreateThread, CreateFails, DetachFails, StartMain,
             MainInitFails, TokenString, TokenOpen, TokenOther, TokenEof, TokenError,
             NextToken, AdvanceHere, AdvanceOut, AdvanceTo, AwaitFailed, LoadTable,
             FindNothing, FindEntry, cursorUnchanged, ParseContinues, ParseFinishes,
             ParseFails, AddHandle, HandleFails, Collect, ReturnSuccess,
             CleanupNotInString, CleanupInString, CleanupJob, ReturnError, DocumentFree,
             Preparse, Publish, Terminated, vars, docVars
    <2>2. \A h \in handles' : h.job = <<h.job[1], pp_scenario'[h.job[1]]>>
      BY DEF Skipping, HandleOK
    <2> QED BY <2>1, <2>2
  <1> QED BY <1>1, TypeInit, TypeStep, SkippingInit, SkippingStep, PTL
          DEF Spec, ScenarioSettled
=============================================================================
