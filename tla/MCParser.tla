------------------------------ MODULE MCParser ------------------------------
(***************************************************************************)
(* Checks the parser against its references on all sequences of up to       *)
(* MaxTokens tokens.                                                       *)
(***************************************************************************)
EXTENDS Parser

J == INSTANCE Json WITH MaxLength <- MaxTokens

KindsRead == [k \in DOMAIN read |-> read[k].kind]

(* The parser finishes exactly on the JSON documents (and the empty input), *)
(* and rejects no token that one goes on with.                             *)
AcceptsDocuments ==
  /\ context.result = "finished" <=> KindsRead \in J!Documents
  /\ context.result = "input_error" => KindsRead \notin J!Beginnings

(* A finished segment says what was read: following the offsets of its      *)
(* headers and tables from the root gives back all tokens, in their order,  *)
(* by the plain tables and by those reserved for sorting.                  *)
SegmentSaysWhatWasRead ==
  context.result = "finished" /\ ~AtEnd =>
    \A copy \in {0, 1} :
      J!TokensAt(context.segment, 0, copy, LAMBDA handle : <<<<"handle", handle.data>>>>)
        = [k \in DOMAIN read |-> IF read[k].kind \in Punctuation
                                 THEN <<read[k].kind, 0>>
                                 ELSE <<read[k].kind, read[k].data>>]
=============================================================================
