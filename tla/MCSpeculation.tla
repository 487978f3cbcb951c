--------------------------- MODULE MCSpeculation ---------------------------
(***************************************************************************)
(* Module Speculation with the texts it is checked with: arrays whose       *)
(* strings may have escapes, objects whose key may run into the second      *)
(* chunk, the values of objects, and objects in arrays.                    *)
(***************************************************************************)
EXTENDS Speculation

Beginning(characters, alphabet) == [text |-> characters, alphabet |-> alphabet]

Arrays == Beginning(<<"[">>, {"quote", "backslash", "[", "]", ","})

ArraysAndObjects ==
  {Arrays,
   Beginning(<<"{", "quote">>, {"quote", "{", "}", ":"}),
   Beginning(<<"{", "quote", "quote", ":">>, {"quote", "{", "}", ":", "[", "]", ","}),
   Beginning(<<"[", "{", "quote">>, {"quote", "{", "}", ":", "[", "]"})}

PlainArrays == {[Arrays EXCEPT !.alphabet = {"[", "]"}]}
=============================================================================
