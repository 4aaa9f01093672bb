---------------------------- MODULE MCConversations ----------------------------
(* Small instances of Conversations for TLC. *)
EXTENDS Conversations, TLC

CONSTANTS c1, c2, c3, u1, k1

MCIdRank == [c \in ConversationIds |-> IF c = c1 THEN 1 ELSE IF c = c2 THEN 2 ELSE 3]

\* Besides u1 everybody asks in one conversation, under one key.
MCAsked ==
  {s \in Submission : s.user = u1 \/ (s.conversation = c1 /\ s.key = k1)}

Interchangeable == Permutations(Handlers) \cup Permutations(Questions)
===============================================================================
