--------------------------------- MODULE Lists ---------------------------------
(***************************************************************************)
(* What the specifications say about lists that the community modules do   *)
(* not have in a form one can reason about.                                *)
(***************************************************************************)
EXTENDS Naturals, FiniteSets

\* The elements of s at the positions in P, in the order of s.
ElementsAt(s, P) ==
  [k \in 1 .. Cardinality(P) |->
     s[CHOOSE i \in P : Cardinality({j \in P : j <= i}) = k]]
==============================================================================
