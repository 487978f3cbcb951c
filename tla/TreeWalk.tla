------------------------------ MODULE TreeWalk ------------------------------
(***************************************************************************)
(* What a visit promises its client, without tables, handles or a stack: it *)
(* goes through a tree that never changes (a value as in module JsonTree),  *)
(* calls back for every value in document order, for a composite before and *)
(* after its elements, leaves out the elements of those that are skipped,   *)
(* and ends with the last value unless a callback aborts it before.  A      *)
(* program that prints the tree writes a line for each callback.           *)
(***************************************************************************)
EXTENDS Integers, Sequences

VARIABLES document,
          vtable,    \* the callbacks that there are
          printing,  \* whether it is the program that visits
          todo,      \* what is to be called back for, in order
          calls,     \* that were made
          lines,     \* that are printed
          status     \* walking, done, aborted or failed

vars == <<document, vtable, printing, todo, calls, lines, status>>

Missing == <<"missing">>

StartOf == [array |-> "array_start", object |-> "object_start"]
EndOf   == [array |-> "array_end", object |-> "object_end"]

Composite(value) == value[1] \in {"array", "object"}
Start(value)     == <<StartOf[value[1]]>>
End(value)       == <<EndOf[value[1]]>>

Item(value, context, depth) == [value |-> value, context |-> context, depth |-> depth]

Outside == [key |-> <<>>, in_array |-> FALSE, in_object |-> FALSE, last |-> FALSE]

(* The elements of a composite.                                            *)
Items(value, depth) ==
  [k \in DOMAIN value[2] |->
     Item(value[2][k].value,
          [key       |-> value[2][k].key,
           in_array  |-> value[1] = "array",
           in_object |-> value[1] = "object",
           last      |-> k = Len(value[2])],
          depth)]

(* What has to follow the callback for an item: after the elements there is *)
(* the end, in the context of the whole.                                   *)
Inside(item) ==
  IF Composite(item.value)
  THEN Items(item.value, item.depth + 1)
         \o <<Item(End(item.value), item.context, item.depth)>>
  ELSE <<>>

Callback(item) == IF Composite(item.value) THEN Start(item.value) ELSE item.value

IsEnd(value) == value[1] \in {"array_end", "object_end"}

(* A member begins with its key, a comma follows all elements but the last. *)
Line(item) ==
  [offset |-> item.depth,
   key    |-> IF item.context.in_object /\ ~IsEnd(item.value) THEN <<item.context.key>> ELSE <<>>,
   item   |-> Callback(item),
   comma  |-> /\ item.context.in_array \/ item.context.in_object
              /\ ~item.context.last /\ ~Composite(item.value)]

----------------------------------------------------------------------------
Init ==
  /\ todo = <<Item(document, Outside, 0)>>
  /\ calls = <<>> /\ lines = <<>> /\ status = "walking"

Known == Callback(Head(todo))[1] \in vtable

(* A callback that is missing is passed over.                              *)
Call(skip) ==
  LET item == Head(todo)
  IN  /\ status = "walking" /\ todo # <<>> /\ item.value # Missing
      /\ calls' = IF Known THEN Append(calls, [call |-> Callback(item),
                                               context |-> item.context, skip |-> skip])
                  ELSE calls
      /\ lines' = IF printing THEN Append(lines, Line(item)) ELSE lines

Continue ==
  /\ Call(FALSE)
  /\ todo' = Inside(Head(todo)) \o Tail(todo)
  /\ UNCHANGED status

(* Only the callback for the start of a composite can skip what is inside.  *)
Skip ==
  /\ Call(TRUE)
  /\ Known /\ Composite(Head(todo).value)
  /\ todo' = Tail(todo)
  /\ UNCHANGED status

Abort ==
  /\ Call(FALSE)
  /\ Known
  /\ todo' = <<>>
  /\ status' \in {"aborted", "failed"}

(* There is no document.                                                   *)
Fail ==
  /\ status = "walking" /\ todo # <<>> /\ Head(todo).value = Missing
  /\ todo' = <<>> /\ status' = "failed"
  /\ UNCHANGED <<calls, lines>>

Finish ==
  /\ status = "walking" /\ todo = <<>>
  /\ status' = "done"
  /\ UNCHANGED <<todo, calls, lines>>

Next ==
  /\ UNCHANGED <<document, vtable, printing>>
  /\ Continue \/ Skip \/ Abort \/ Fail \/ Finish

Spec == Init /\ [][Next]_vars
=============================================================================
