--------------------------- MODULE MCGmailInbound ---------------------------
(***************************************************************************)
(* Instances of GmailInbound.  The poller slots are interchangeable, and   *)
(* LiveView drops the locals a Run goroutine will not read again before it *)
(* sets them; no guard or property looks at those.                         *)
(***************************************************************************)
EXTENDS GmailInbound, TLC

Symmetry == Permutations(Pollers)

LiveRun(p) ==
  [pc |-> pc[p],
   run |-> IF pc[p] = "off" THEN <<>> ELSE <<cancelled[p], token[p], stored[p]>>,
   cursor |-> IF pc[p] \in {"off", "boot", "exited"} THEN 0 ELSE cursor[p],
   next |-> IF pc[p] \in {"fetch", "save"} THEN next[p] ELSE 0,
   batch |-> batch[p]]

LiveView == <<google, account, user, registered, settled, [p \in Pollers |-> LiveRun(p)]>>
=============================================================================
