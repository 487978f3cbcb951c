------------------------------ MODULE Visitor ------------------------------
(***************************************************************************)
(* thsn_document_visit (src/lib/visitor.c): a walk through a document that  *)
(* calls back for every value, with a stack of the composites it is in.     *)
(*                                                                         *)
(* The stack is a vector of bytes in the code (module Vector), from which   *)
(* table, context and tag are popped the way they were pushed; here it is a *)
(* sequence of pairs, and the tag is the type of the table.  Allocations do *)
(* not fail.                                                               *)
(***************************************************************************)
EXTENDS Document

CONSTANTS Visitors,  \* what clients visit with: callbacks, and their answers
          MaxCalls   \* bound of the callbacks in one visit

VARIABLES pc,       \* visit: at the top of the outer loop, ascend: of the inner
          current,  \* current_value_handle
          context,  \* of the value
          stack,    \* the composites on the way to it
          visitor,  \* the client's vtable, and what its callbacks answer
          calls     \* not in the code: the callbacks that were made

visitVars == <<pc, current, context, stack, visitor, calls>>

Callbacks == {"null", "bool", "number", "string",
              "array_start", "array_end", "object_start", "object_end"}
Answers   == {"CONTINUE", "SKIP", "ABORT_SUCCESS", "ABORT_ERROR"}

StartOf == [array |-> "array_start", object |-> "object_start"]
EndOf   == [array |-> "array_end", object |-> "object_end"]
Starts  == {"array_start", "object_start"}

Outside == [key |-> <<>>, in_array |-> FALSE, in_object |-> FALSE, last |-> FALSE]

----------------------------------------------------------------------------
VisitInit ==
  /\ pc = "visit" /\ current = First
  /\ context = Outside /\ stack = <<>>
  /\ calls = <<>>

(* CALL_VISITOR2 and 3: a callback that is missing is like one that answers *)
(* CONTINUE.                                                               *)
Call(call, at, answer) ==
  /\ Len(calls) < MaxCalls
  /\ answer \in IF call[1] \in visitor.vtable THEN visitor.answers ELSE {"CONTINUE"}
  /\ calls' = IF call[1] \notin visitor.vtable THEN calls
              ELSE Append(calls, [call |-> call, context |-> at,
                                  skip |-> answer = "SKIP" /\ call[1] \in Starts])
  /\ pc' = CASE answer = "ABORT_SUCCESS" -> "aborted"
             [] answer = "ABORT_ERROR"   -> "failed"
             [] OTHER                    -> "ascend"

VisitScalar ==
  /\ pc = "visit" /\ ValueType(current) \in Scalars
  /\ \E answer \in Answers :
       Call(<<ValueType(current), ReadScalar(current)>>, context, answer)
  /\ UNCHANGED <<current, context, stack>>

VisitComposite ==
  /\ pc = "visit" /\ ValueType(current) \in {"array", "object"}
  /\ \E answer \in Answers :
       /\ Call(<<StartOf[ValueType(current)]>>, context, answer)
       /\ stack' = IF answer # "CONTINUE" THEN stack
                   ELSE Append(stack, [table |-> ReadComposite(current),
                                       context |-> context])
  /\ UNCHANGED <<current, context>>

(* There is no value, for instance in the document of an empty text.       *)
VisitFails ==
  /\ pc = "visit" /\ ValueType(current) = "error"
  /\ pc' = "failed"
  /\ UNCHANGED <<current, context, stack, calls>>

(* No element is left: the composite ends in the context that it began in.  *)
Ascend ==
  /\ pc = "ascend" /\ stack # <<>> /\ Last(stack).table.count = 0
  /\ \E answer \in Answers :
       Call(<<EndOf[Last(stack).table.type]>>, Last(stack).context, answer)
  /\ context' = Last(stack).context
  /\ stack' = Front(stack)
  /\ UNCHANGED current

(* The length is asked for after the element was consumed, not before.     *)
WasEmpty(t) == t.count = 0
IsLast(t)   == t.count = 1

ContextOf(t) ==
  [key       |-> KeyOf(t, OffsetAt(t, 0)),
   in_array  |-> t.type = "array",
   in_object |-> t.type = "object",
   last      |-> IsLast(t)]

(* The next element, with what is left of its table kept for later.        *)
Descend ==
  /\ pc = "ascend" /\ stack # <<>> /\ Last(stack).table.count > 0
  /\ LET t == Last(stack).table
     IN  /\ current' = ValueOf(t, OffsetAt(t, 0))
         /\ stack' = [stack EXCEPT ![Len(stack)].table = Rest(t)]
         /\ context' = ContextOf(t)
  /\ pc' = "visit"
  /\ UNCHANGED calls

EndVisit ==
  /\ pc = "ascend" /\ stack = <<>>
  /\ pc' = "done"
  /\ UNCHANGED <<current, context, stack, calls>>

Visit ==
  /\ VisitScalar \/ VisitComposite \/ VisitFails \/ Ascend \/ Descend \/ EndVisit
  /\ UNCHANGED visitor

(* A callback may use the document it is called for, and sort any object of *)
(* it: one that was visited, is yet to be, or is being visited.            *)
CallbackSorts ==
  /\ pc \in {"visit", "ascend"} /\ calls # <<>>
  /\ \E h \in Handles : Sort(h)

=============================================================================
