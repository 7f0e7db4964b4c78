---------------------------- MODULE RoomCalendar ----------------------------
(***************************************************************************)
(* What the front desk promises, without reservations' statuses, stays,    *)
(* cleaning or money: a calendar of cabins and a key board.                *)
(*                                                                         *)
(* slot[p][rm] is the interval party p has of cabin rm, <<>> when it has   *)
(* none; key[rm] is the party that lives there.  A step is one party's: it *)
(* may give up, take, exchange or stretch its own slots and take or return *)
(* its own key, but it never touches what another party has, never takes   *)
(* time that another party holds, and no key is out for a cabin in which   *)
(* its party has no slot.                                                  *)
(***************************************************************************)
EXTENDS Integers

CONSTANTS Parties, Rooms, Nobody

VARIABLES slot, key

Clash(s, t) == s # <<>> /\ t # <<>> /\ s[1] < t[2] /\ t[1] < s[2]

ConflictFree(board) == \A p, q \in Parties, rm \in Rooms :
  p # q => ~Clash(board[p][rm], board[q][rm])

Init ==
  /\ slot = [p \in Parties |-> [rm \in Rooms |-> <<>>]]
  /\ key = [rm \in Rooms |-> Nobody]

\* The keys other parties hold, before and after, are the same.
OthersKeep(p) == \A rm \in Rooms :
  key[rm] \notin {p, Nobody} \/ key'[rm] \notin {p, Nobody} => key'[rm] = key[rm]

Step(p) ==
  /\ \A q \in Parties \ {p} : slot'[q] = slot[q]
  /\ OthersKeep(p)
  /\ ConflictFree(slot')
  /\ \A rm \in Rooms : key'[rm] = p => slot'[p][rm] # <<>>
  /\ \A rm, other \in Rooms : key'[rm] = p /\ key'[other] = p => rm = other

Next == \E p \in Parties : Step(p)

Spec == Init /\ [][Next]_<<slot, key>>
=============================================================================
