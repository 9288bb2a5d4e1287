-------------------------- MODULE MCConversations --------------------------
(***************************************************************************)
(* Instances of Conversations.  Objects and workers are interchangeable.   *)
(* LiveView leaves out what unreachable objects hold: no guard and no      *)
(* update reads it, and CacheThread or JoinResolved overwrites it.         *)
(***************************************************************************)
EXTENDS Conversations, TLC

Symmetry == Permutations(Objects) \cup Permutations(Workers)

LiveView ==
  <<mails, [o \in Objects |-> IF o \in Free THEN NewThread(1) ELSE heap[o]],
    known, index, gmail, work, send, stores, mishaps>>
=============================================================================
