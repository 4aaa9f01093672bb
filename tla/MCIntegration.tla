----------------------------- MODULE MCIntegration -----------------------------
(* Small instances of Integration for TLC. *)
EXTENDS Integration, TLC

CONSTANT Conversation   \* the one session of these instances

MCConversationOf == [t \in Tasks |-> Conversation]

Interchangeable == Permutations(Handlers) \cup Permutations(Messages) \cup Permutations(Tasks)
===============================================================================
