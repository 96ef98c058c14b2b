-------------------------------- MODULE Lists --------------------------------
(* Sums and sorted lists for the surface of a planet, in a form that can be   *)
(* reasoned about.                                                            *)
EXTENDS Integers, Sequences, FiniteSets

\* The sum of a list of numbers.
Total(s) ==
    LET upTo[i \in 0..Len(s)] == IF i = 0 THEN 0 ELSE upTo[i - 1] + s[i]
    IN  upTo[Len(s)]

\* The list of a set in the order of its elements that the pairs R are.
Listed(S, R) ==
    [i \in 1..Cardinality(S) |-> CHOOSE x \in S : Cardinality({y \in S : <<y, x>> \in R}) = i - 1]
==============================================================================
