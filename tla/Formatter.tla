----------------------------- MODULE Formatter -----------------------------
(***************************************************************************)
(* The clients of a document, each with its own copy of it: one navigates   *)
(* it, one visits it with any callbacks, and one is the program             *)
(* src/bin/formater.c, which parses a text, visits the document to print it *)
(* and releases both.                                                      *)
(*                                                                         *)
(* What is printed is a sequence of lines, each for one callback.  Left out: *)
(* how it is spelled ("%g" keeps six digits), and how main reads the text.  *)
(***************************************************************************)
EXTENDS Visitor

CONSTANT Clients

VARIABLES client,
          main,    \* where the program is
          owned,   \* what it has to free: json_str, document
          offset,  \* the indentation
          lines    \* that are printed

mainVars == <<client, main, owned, offset, lines>>

vars == <<docVars, visitVars, mainVars>>

PrintedLine(depth, key, item, comma) ==
  [offset |-> depth, key |-> key, item |-> item, comma |-> comma]

NoKey == <<>>

(* print_prefix, print_postfix                                             *)
Prefix(at) == IF at.in_object THEN <<at.key>> ELSE NoKey

Comma(at) == (at.in_array \/ at.in_object) /\ ~at.last

(* The callbacks visit_number, ..., visit_object_end.                      *)
Printed(called) ==
  LET at == called.context
      print(depth, key, comma) ==
        lines' = Append(lines, PrintedLine(depth, key, called.call, comma))
  IN  CASE called.call[1] \in Scalars ->
             /\ print(offset, Prefix(at), Comma(at))
             /\ UNCHANGED offset
        [] called.call[1] \in Starts ->
             /\ print(offset, Prefix(at), FALSE)
             /\ offset' = offset + 1
        [] OTHER ->
             /\ print(offset - 1, NoKey, Comma(at))
             /\ offset' = offset - 1

FormatterVisitor == [vtable |-> Callbacks, answers |-> {"CONTINUE"}]

----------------------------------------------------------------------------
(* thsn_document_parse leaves NULL in the pointer to the document if it     *)
(* fails.                                                                  *)
Init ==
  /\ DocumentInit /\ VisitInit
  /\ client \in Clients
  /\ visitor \in IF client = "visitor" THEN Visitors ELSE {FormatterVisitor}
  /\ main = "parsed"
  /\ owned = {"json_str"} \cup IF segments = <<>> THEN {} ELSE {"document"}
  /\ offset = 0 /\ lines = <<>>

MainGoesOn ==
  /\ main = "parsed"
  /\ main' = IF "document" \in owned THEN "visiting" ELSE "error_cleanup"
  /\ UNCHANGED <<docVars, visitVars, client, owned, offset, lines>>

Format ==
  /\ main = "visiting"
  /\ Visit
  /\ IF calls' # calls THEN Printed(Last(calls')) ELSE UNCHANGED <<offset, lines>>
  /\ UNCHANGED <<docVars, client, main, owned>>

VisitReturns ==
  /\ main = "visiting"
  /\ \/ pc = "done"   /\ main' = "exited_0" /\ owned' = {}
     \/ pc = "failed" /\ main' = "error_cleanup" /\ UNCHANGED owned
  /\ UNCHANGED <<docVars, visitVars, client, offset, lines>>

(* The label error_cleanup: thsn_document_free looks at the document's      *)
(* segments whatever the pointer to it is.                                 *)
ErrorCleanup ==
  /\ main = "error_cleanup"
  /\ IF "document" \in owned THEN main' = "exited_1" /\ owned' = {}
                             ELSE main' = "crashed" /\ UNCHANGED owned
  /\ UNCHANGED <<docVars, visitVars, client, offset, lines>>

FormatterSteps ==
  client = "formatter" /\ (MainGoesOn \/ Format \/ VisitReturns \/ ErrorCleanup)

VisitorSteps ==
  /\ client = "visitor" /\ "document" \in owned
  /\ Visit
  /\ UNCHANGED <<docVars, mainVars>>

Next ==
  \/ client = "navigator" /\ Navigate /\ UNCHANGED <<visitVars, mainVars>>
  \/ VisitorSteps
  \/ /\ client = "visitor" /\ "document" \in owned
     /\ CallbackSorts
     /\ UNCHANGED <<handle, tables, tree, visitVars, mainVars>>
  \/ FormatterSteps

(* The visit and the program are sequential code: they go on.              *)
Spec == Init /\ [][Next]_vars /\ WF_vars(VisitorSteps) /\ WF_vars(FormatterSteps)

----------------------------------------------------------------------------
(* Properties.                                                             *)

(* A table is a slice of a table cell and ends where that ends.            *)
IsTable(t) ==
  /\ t \in Tables
  /\ t.count > 0 =>
       /\ TableCell(t).tag = "table"
       /\ t.first + t.count - 1 = Len(TableCell(t).offsets)

(* Every variable has its type: all tables that somebody holds are slices   *)
(* of table cells, and what is marked as sorted are objects.               *)
TypeOK ==
  /\ sorted \subseteq {h \in Handles : ValueType(h) = "object"}
  /\ handle = NotFound \/ "document" \notin owned \/ tree = Missing \/ Readable(handle)
  /\ \A s \in DOMAIN tables : IsTable(tables[s])
  /\ pc \in {"visit", "ascend", "done", "aborted", "failed"}
  /\ \A k \in DOMAIN stack : IsTable(stack[k].table)
  /\ client \in Clients
  /\ main \in {"parsed", "visiting", "error_cleanup", "exited_0", "exited_1", "crashed"}
  /\ owned \subseteq {"json_str", "document"}
  /\ offset \in Nat

(* What is left to be called back for: the value at hand; then, from the    *)
(* innermost composite outwards, the elements that its table has left and   *)
(* its end.                                                                *)
Due(value, at, depth) == [value |-> value, context |-> at, depth |-> depth]

ElementsDue(t, depth) ==
  [k \in 1 .. t.count |->
     Due(TreeAt[ValueOf(t, OffsetAt(t, k - 1))], ContextOf(AtOffset(t, k - 1)), depth)]

DueIn[n \in 0 .. Len(stack)] ==
  IF n = 0 THEN <<>>
  ELSE ElementsDue(stack[n].table, n)
         \o <<Due(<<EndOf[stack[n].table.type]>>, stack[n].context, n - 1)>>
         \o DueIn[n - 1]

Todo ==
  CASE pc = "visit"  -> <<Due(TreeAt[current], context, Len(stack))>> \o DueIn[Len(stack)]
    [] pc = "ascend" -> DueIn[Len(stack)]
    [] OTHER         -> <<>>

Status == IF pc \in {"visit", "ascend"} THEN "walking" ELSE pc

(* A visit is a walk through the tree of the text: all callbacks come in    *)
(* the order of the text, each in the context of its value, whatever they   *)
(* answer and sort meanwhile, and the program prints each on a line of its  *)
(* own, as deep as the value lies.                                         *)
TreeWalk == INSTANCE TreeWalk WITH
  document <- tree, vtable <- visitor.vtable, printing <- client = "formatter",
  todo <- Todo, status <- Status

ImplementsTreeWalk == TreeWalk!Spec

(* A visit comes to an end, and the program to an exit.                    *)
VisitsEnd ==
  <>(\/ client = "navigator"
     \/ client = "visitor" /\ (pc \in {"done", "aborted", "failed"} \/ segments = <<>>)
     \/ client = "formatter" /\ main \in {"exited_0", "exited_1", "crashed"})

(* test_document.h: the type of a value that was found by its key can be    *)
(* read.                                                                   *)
FoundValuesHaveTypes ==
  handle # NotFound /\ tree # Missing => ValueType(handle) # "error"
=============================================================================
