------------------------------ MODULE MCSelling ------------------------------
(* An instance of Selling for TLC: two days of four slots. *)
EXTENDS Selling

CONSTANTS corn, cola

Costs(n) == [price |-> n, discount |-> None]

Off(n, type, value, seat) ==
    [price |-> n, discount |->
        [type |-> type, value |-> value,
         on |-> [s \in Sources |-> IF s = "seat_qr" THEN seat ELSE None]]]

\* Corn is half price on the first day, and free at a seat.  Cola is for the
\* evening of the first day, which ends on the second.
Usual ==
    [rates |-> [p \in Products |->
        IF p = corn THEN <<Off(5, "P", 50, 100), Costs(8)>>
        ELSE <<Off(4, "F", None, 1), Costs(4)>>],
     hours |-> [p \in Products |->
        IF p = corn THEN {} ELSE {[day |-> 1, start |-> 3, end |-> 1]}]]

\* Corn has hours, and no price on the second day.  Cola is not carried.
Changed ==
    [rates |-> [p \in Products |->
        IF p = corn THEN <<Off(6, "F", 9, None), None>> ELSE <<Costs(3), Costs(3)>>],
     hours |-> [p \in Products |->
        IF p = cola THEN None
        ELSE {[day |-> 0, start |-> 2, end |-> 0], [day |-> 1, start |-> 0, end |-> 2]}]]

TwoShops == {Usual, Changed}

\* Half of what is between 6 and 16, and 6 at most.
Half == [percentage |-> TRUE, amount |-> 50, most |-> 6, from |-> 6, upTo |-> 16]

OneOffer == {Half}

TwoVisits == {[claim |-> "seat_qr", seat |-> TRUE], [claim |-> "seat_qr", seat |-> FALSE]}
=============================================================================
