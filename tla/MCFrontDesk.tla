---------------------------- MODULE MCFrontDesk ----------------------------
(* Small front desks for TLC. *)
EXTENDS FrontDesk, TLC

CONSTANTS r1, r2, h1, h2

\* Two stays that share a night, and a request whose dates are the wrong way round.
SharedNight == {<<0, 2>>, <<1, 2>>, <<2, 1>>}

\* A stay over one midnight, with a departure in the morning or in the evening, and
\* one that begins when it ends.
HalfDays == {<<0, 2>>, <<2, 3>>}

Tonight == {<<0, 1>>}

Guestbook == Permutations(Reservations)
Colleagues == Permutations(Handlers)
=============================================================================
