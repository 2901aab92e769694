-------------------------------- MODULE Arrange --------------------------------
(***************************************************************************)
(* Filtering and sorting of sequences, as Python's comprehensions and      *)
(* sorted do it, said without recursion.                                   *)
(***************************************************************************)
EXTENDS Integers, Sequences, FiniteSets

\* The elements that s has at the places I, in the order before of the places:
\* the p-th place is the one up to which, itself included, p places come.
Arranged(s, I, before) ==
    LET place(i) == Cardinality({j \in I : <<j, i>> \in before})
    IN  [p \in 1 .. Cardinality(I) |-> s[CHOOSE i \in I : place(i) = p]]

\* The elements that s has at the places I, as they come.
Selected(s, I) == Arranged(s, I, {e \in I \X I : e[1] <= e[2]})
=============================================================================
