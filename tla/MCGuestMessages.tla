-------------------------- MODULE MCGuestMessages --------------------------
(* One reservation, with one worker or two. *)
EXTENDS GuestMessages, TLC

CONSTANTS w1, w2

Colleagues == Permutations(Workers)
=============================================================================
