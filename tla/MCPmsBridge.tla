---------------------------- MODULE MCPmsBridge -----------------------------
(* Two proposals for one lead, and a stay PMS booked itself. *)
EXTENDS PmsBridge

CONSTANTS a, b, lead, n1, w1, w2

OneLead == [c \in {a, b} |-> lead]

\* The two proposals are interchangeable: a names the one that was confirmed first.
InOrder == operation[a] = "none" => operation[b] = "none" /\ b \notin confirming

=============================================================================
