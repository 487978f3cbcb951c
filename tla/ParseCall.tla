----------------------------- MODULE ParseCall -----------------------------
(***************************************************************************)
(* What a call of thsn_document_parse_multithreaded promises its caller,    *)
(* without threads: while it runs, memory comes and goes; when it returns,  *)
(* what is allocated is the document it returns or nothing, and stays that  *)
(* until the caller frees the document.  Every handle in the document leads *)
(* to the segment that its value was stored in, and that segment is there.  *)
(***************************************************************************)

VARIABLES status,    \* running, success, error or freed
          memory,    \* the allocated blocks
          document   \* that the caller holds: its blocks, and its handles

vars == <<status, memory, document>>

NoDocument == [blocks |-> {}, handles |-> {}]

HandlesResolve(d) ==
  \A h \in d.handles : h.leads_to = {h.value_in} /\ h.value_in \in d.blocks

Init == status = "running" /\ memory = {} /\ document = NoDocument

Run == status = "running" /\ UNCHANGED <<status, document>>

Succeed ==
  /\ status = "running" /\ status' = "success"
  /\ HandlesResolve(document')
  /\ memory' = document'.blocks

Fail ==
  /\ status = "running" /\ status' = "error"
  /\ memory' = {}
  /\ UNCHANGED document

Free ==
  /\ status = "success" /\ status' = "freed"
  /\ memory' = {} /\ document' = NoDocument

Next == Run \/ Succeed \/ Fail \/ Free

Spec == Init /\ [][Next]_vars
=============================================================================
