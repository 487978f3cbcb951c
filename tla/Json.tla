-------------------------------- MODULE Json --------------------------------
(***************************************************************************)
(* The references that the parser is checked against: which sequences of    *)
(* tokens are JSON documents, and which tokens a segment stands for.        *)
(***************************************************************************)
EXTENDS Integers, Sequences, SequencesExt

CONSTANT MaxLength   \* of the documents considered, in tokens

(* The sequences of exactly n kinds of tokens that are a value, the rest of *)
(* an array after its first element, and the members of an object.  A       *)
(* "handle" is a value but for the root and the first element of an array:  *)
(* there the parser is in no state to take one.                            *)
Phrases[n \in -1 .. MaxLength] ==
  LET value(m) == IF m < 1 THEN {} ELSE Phrases[m].value
      any(m)   == IF m = 1 THEN value(m) \cup {<<"handle">>} ELSE value(m)
      arrays   == UNION {{<<"[">> \o v \o r \o <<"]">> :
                            v \in value(m), r \in Phrases[n - 2 - m].rest} :
                         m \in 1 .. n - 2}
      objects  == {<<"{">> \o m \o <<"}">> : m \in Phrases[n - 2].members}
  IN  [value |-> CASE n = 1 -> {<<"word">>, <<"string">>}
                   [] n = 2 -> {<<"[", "]">>, <<"{", "}">>}
                   [] n > 2 -> arrays \cup objects
                   [] OTHER -> {},
       rest |-> IF n = 0 THEN {<<>>}
                ELSE UNION {{<<",">> \o v \o r :
                               v \in any(m), r \in Phrases[n - 1 - m].rest} :
                            m \in 1 .. n - 1},
       members |-> IF n < 3 THEN {}
                   ELSE {<<"string", ":">> \o v : v \in any(n - 2)} \cup
                        UNION {{<<"string", ":">> \o v \o <<",">> \o ms :
                                  v \in any(m), ms \in Phrases[n - 3 - m].members} :
                               m \in 1 .. n - 4}]

(* The empty input is a document as well (test_document.h).                *)
Documents == {<<"eof">>} \cup UNION {Phrases[n].value : n \in 1 .. MaxLength}

Beginnings == UNION {{SubSeq(d, 1, n) : n \in 0 .. Len(d)} : d \in Documents}

----------------------------------------------------------------------------
(* The tokens of the value at an offset of a segment, each with where it    *)
(* was read unless it is punctuation.  A composite lists its elements by    *)
(* one table, or for an object by a second one, `copy` tables further on; a *)
(* member's value comes right after its key.  What a handle stands for is   *)
(* told by Follow.                                                         *)
Mark(kind)   == <<<<kind, 0>>>>

TokensAt(segment, offset, copy, Follow(_)) ==
  LET at[o \in 0 .. Len(segment) - 1] ==
        LET cell == segment[o + 1]
            object == cell.tag = "object"
            elements == IF cell.count = 0 THEN <<>>
                        ELSE segment[cell.table + 1 + (IF object THEN copy ELSE 0)].offsets
            element(k) == (IF k = 1 THEN <<>> ELSE Mark(","))
                            \o at[elements[k]]
                            \o (IF object THEN Mark(":") \o at[elements[k] + 1] ELSE <<>>)
            all == FlattenSeq([k \in 1 .. Len(elements) |-> element(k)])
        IN  CASE cell.tag = "leaf"   -> <<<<cell.token.kind, cell.token.data>>>>
              [] cell.tag = "handle" -> Follow(cell.value)
              [] cell.tag = "array"  -> Mark("[") \o all \o Mark("]")
              [] cell.tag = "object" -> Mark("{") \o all \o Mark("}")
  IN  at[offset]
=============================================================================
