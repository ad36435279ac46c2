----------------------------- MODULE MCCatalogue -----------------------------
(* Instances of Catalogue for TLC. *)
EXTENDS Catalogue

Menu == {1, 2, 3}

MenuLists == {<<3, 2>>, <<1>>}

\* A cinema nobody has ordered yet, one where staff have ordered 1 and 2 and
\* 2 was deactivated since, and one where every category has its link.
NeverOrdered == [c \in Menu |-> None]

PartlyLinked == [NeverOrdered EXCEPT ![1] = [sequence |-> 1, isActive |-> TRUE],
                                     ![2] = [sequence |-> 2, isActive |-> FALSE]]

FullyLinked == [PartlyLinked EXCEPT ![3] = [sequence |-> 0, isActive |-> TRUE]]

AnyCinema == {NeverOrdered, PartlyLinked, FullyLinked}
=============================================================================
