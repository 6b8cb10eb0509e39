--------------------------------- MODULE Filter ---------------------------------
(***************************************************************************)
(* Array.filter and the loop over an array, as recursive functions: of       *)
(* SelectSeq, a recursive operator of the standard modules, and of folds     *)
(* over the domain of a sequence the provers know nothing.                   *)
(***************************************************************************)
EXTENDS Naturals, Sequences

\* The elements of s that are among the items, in the order of s.
Among(s, items) ==
  LET kept[n \in 0..Len(s)] == IF n = 0 THEN <<>>
                               ELSE IF s[n] \in items THEN Append(kept[n - 1], s[n]) ELSE kept[n - 1]
  IN  kept[Len(s)]

\* What the elements of s make of base, one after the other.
Folded(Op(_, _), base, s) ==
  LET at[n \in 0..Len(s)] == IF n = 0 THEN base ELSE Op(at[n - 1], s[n])
  IN  at[Len(s)]
================================================================================
