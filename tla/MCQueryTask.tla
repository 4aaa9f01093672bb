------------------------------ MODULE MCQueryTask ------------------------------
(* Small instances of QueryTask for TLC. *)
EXTENDS QueryTaskLifecycle, TLC

CONSTANT Conversation   \* the one conversation of these instances

MCConversationOf == [t \in Tasks |-> Conversation]

Interchangeable == Permutations(Handlers) \cup Permutations(Requests)
===============================================================================
