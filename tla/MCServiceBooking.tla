-------------------------- MODULE MCServiceBooking --------------------------
(* A bath house of two rooms and two masters: a steam bath takes a room that *)
(* seats everybody and a master, a massage a master a person, a transfer nothing. *)
EXTENDS ServiceBooking

CONSTANTS house, masters, steam, massage, transfer, r1, k1, k2, h1, h2

MCGroupOf == [u \in Resources |-> house]
MCSeats == [u \in Resources |-> u]
MCCapacity == [g \in {masters} |-> 2]
MCIdOf == [g \in {house, masters} |-> IF g = house THEN 1 ELSE 2]
MCRequires == [i \in Items |->
  IF i = transfer THEN {} ELSE {house, masters}]
MCPerPerson == {<<massage, masters>>}
MCBySeats == {<<steam, house>>}
Evenings == {<<0, 2>>, <<1, 3>>}

Ask(i, slot, n, r, e) == [item |-> i, slot |-> slot, size |-> n, stay |-> r, entitled |-> e, pick |-> None]
MCAsks == {Ask(steam, <<0, 2>>, 1, r1, FALSE), Ask(massage, <<1, 3>>, 2, None, FALSE),
           Ask(transfer, <<0, 2>>, 1, r1, TRUE)}
MCMoves == {[slot |-> <<0, 2>>, pick |-> None], [slot |-> <<1, 3>>, pick |-> 1]}

Interchangeable == Permutations({k1, k2}) \cup Permutations({h1, h2})
=============================================================================
