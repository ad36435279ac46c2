------------------------------ MODULE MCShowSync ------------------------------
(* An instance of ShowSync for TLC. *)
EXTENDS ShowSync

CONSTANTS c1, c2, h1

DeadOneFirst == <<c1, c2>>

BothToday == [h \in Shows |-> [startsAt |-> 0, cancelled |-> FALSE]]

Empty == [c \in Cinemas |-> Nowhere]

\* Nothing yet, or what the client has loaded for c2: a show the POS sells at
\* another time, and one that is neither open nor closed.
EmptyOrLoaded ==
    {Empty,
     [Empty EXCEPT ![c2] = [h \in Shows |->
         IF h = h1 THEN [startsAt |-> 3, status |-> "O"]
         ELSE [startsAt |-> 0, status |-> "other"]]]}
=============================================================================
