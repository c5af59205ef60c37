--------------------------- MODULE MCPublication ---------------------------
(* Instances of Publication for TLC: all documents are revisions of one      *)
(* variant, the only case in which publications meet, or all but one, whose  *)
(* publications pass the others'.                                            *)
EXTENDS Publication, TLC

OneSlot == [d \in Docs |-> CHOOSE s \in Slots : TRUE]

OneApart ==
  [d \in Docs |-> IF d = (CHOOSE e \in Docs \ LiveAtStart : TRUE)
                       THEN NoSlot
                       ELSE CHOOSE s \in Slots : TRUE]

\* Documents that begin alike, and requests, are interchangeable.
Symmetry == Permutations({d \in Docs \ LiveAtStart : Slot[d] # NoSlot})
=============================================================================
