------------------------- MODULE PublicationContract -------------------------
(* What publishing a set of files promises: the directory goes from empty to *)
(* one writer's complete set in a single step, and never changes again.      *)
CONSTANTS Writers, Nobody

VARIABLE published   \* whose set the directory offers to readers

Init == published = Nobody

Publish(w) == published = Nobody /\ published' = w

Next == \E w \in Writers : Publish(w)

Spec == Init /\ [][Next]_published
=============================================================================
