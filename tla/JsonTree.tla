------------------------------ MODULE JsonTree ------------------------------
(***************************************************************************)
(* What the navigation of a document promises its client, without segments, *)
(* offsets or handles: the document is a tree that never changes, the       *)
(* client stands on one of its values, and holds tables of the elements of  *)
(* composites, in document order or sorted by key.                         *)
(*                                                                         *)
(* A scalar is <<type, value>>, a composite <<type, elements>>; an element  *)
(* has a key, which is empty in an array.                                  *)
(***************************************************************************)
EXTENDS Integers, Sequences

CONSTANT Keys  \* that the client looks up: sequences of bytes

VARIABLES document,
          at,     \* the value that the client stands on
          rests   \* of the elements: where it keeps tables, what is left of each

vars == <<document, at, rests>>

Missing == <<"missing">>

Composite(value) == value[1] \in {"array", "object"}

(* Lexicographic order: at the first difference, or s is a prefix of t.     *)
Precedes(s, t) ==
  \/ Len(s) <= Len(t) /\ SubSeq(t, 1, Len(s)) = s
  \/ \E k \in DOMAIN s \cap DOMAIN t :
       s[k] < t[k] /\ SubSeq(s, 1, k - 1) = SubSeq(t, 1, k - 1)

Occurrences(e, elements) == {k \in DOMAIN elements : elements[k] = e}

IsSorting(ordered, elements) ==
  /\ Len(ordered) = Len(elements)
  /\ \A k \in DOMAIN elements :
       \E f \in [Occurrences(elements[k], elements) ->
                   Occurrences(elements[k], ordered)] :
         \A i, j \in DOMAIN f : f[i] = f[j] => i = j
  /\ \A k \in 2 .. Len(ordered) : Precedes(ordered[k - 1].key, ordered[k].key)

ValuesOf(key, elements) ==
  {elements[k].value : k \in {l \in DOMAIN elements : elements[l].key = key}}

----------------------------------------------------------------------------
Init == at = document /\ rests = [s \in DOMAIN rests |-> <<>>]

GoToRoot == at' = document /\ UNCHANGED rests

ReadElements(s) ==
  /\ UNCHANGED at
  /\ Composite(at)
  /\ rests' = [rests EXCEPT ![s] = at[2]]

ReadSorted(s) ==
  /\ UNCHANGED at
  /\ at[1] = "object"
  /\ rests' = [rests EXCEPT ![s] = rests'[s]]
  /\ IsSorting(rests'[s], at[2])

Index(s) ==
  /\ \E k \in DOMAIN rests[s] : at' = rests[s][k].value
  /\ UNCHANGED rests

Consume(s) ==
  /\ rests[s] # <<>>
  /\ at' = Head(rests[s]).value
  /\ rests' = [rests EXCEPT ![s] = Tail(@)]

(* Of several members with the key it may be any.                          *)
LookUp(s, key) ==
  /\ at' \in IF ValuesOf(key, rests[s]) = {} THEN {Missing} ELSE ValuesOf(key, rests[s])
  /\ UNCHANGED rests

Next ==
  /\ UNCHANGED document
  /\ \/ GoToRoot
     \/ \E s \in DOMAIN rests : ReadElements(s) \/ ReadSorted(s) \/ Index(s) \/ Consume(s)
     \/ \E s \in DOMAIN rests, key \in Keys : LookUp(s, key)

Spec == Init /\ [][Next]_vars
=============================================================================
