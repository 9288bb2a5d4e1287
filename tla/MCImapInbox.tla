---------------------------- MODULE MCImapInbox ----------------------------
(***************************************************************************)
(* Instances of ImapInbox.  The loop slots are interchangeable, and a      *)
(* goroutine's locals are part of the state only while it may still read   *)
(* them: LiveView drops the others, which no guard or property looks at.   *)
(***************************************************************************)
EXTENDS ImapInbox, TLC

Symmetry == Permutations(Loops)

LiveSeen(g) == IF pc[g] \in {"rebase", "search", "primeSet", "primeSearch"} THEN seen[g] ELSE 0

LiveFresh == {g \in fresh : pc[g] \in {"status", "search", "primeStatus", "primeSet",
                                       "primeSearch", "backfill", "probe"}}

LiveAfter(g) ==
  IF pc[g] \in {"free", "done", "check", "stop", "loop", "idle", "exit", "recover"}
  THEN "direct" ELSE after[g]

LiveView ==
  <<mail, connected, idling, stopClosed, waits, reconnect, connecting, LiveFresh, pc, todo, high,
    [g \in Goroutines |-> <<LiveSeen(g), LiveAfter(g)>>]>>
=============================================================================
