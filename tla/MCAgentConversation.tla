------------------------ MODULE MCAgentConversation ------------------------
(* Two messages of the assistant and two of the guest, two requests at a time. *)
EXTENDS AgentConversation, TLC

CONSTANTS m1, m2, a1, a2, u1, u2, h1, h2

Interchangeable == Permutations(Messages) \cup Permutations(Answers)
  \cup Permutations(Updates) \cup Permutations(Handlers)
=============================================================================
