------------------------------ MODULE ImapInbox ------------------------------
(***************************************************************************)
(* pkg/imap/client.go: the INBOX connection of one account.  Idle loops,   *)
(* !sync commands, the periodic sync and the watchdog all call into one    *)
(* Client.  They share, under c.mu, the UID watermark (lastInboxUID), the  *)
(* in-flight set and the flags `connected' and `idling', and, guarded by   *)
(* nothing, the channel c.stopIdle that StartIDLE replaces.                *)
(*                                                                         *)
(* A goroutine holds the connection it read from c.client: `fresh' is the  *)
(* set of those whose handle is still the client's.  Any command may fail; *)
(* one on an old handle always does.                                       *)
(***************************************************************************)
EXTENDS Integers, FiniteSets, FiniteSetsExt

CONSTANTS Loops,        \* slots for idleLoop goroutines (a bound)
          Commands,     \* goroutines of commands, periodic sync and watchdog
          MaxUID,       \* how many mails arrive (a bound)
          BackfillMax   \* c.startupBackfillMax

ASSUME BoundsAreNaturals == MaxUID \in Nat \ {0} /\ BackfillMax \in Nat

ASSUME FinitelyMany == IsFiniteSet(Loops) /\ IsFiniteSet(Commands)

VARIABLES
  uidNext,     \* the server's UIDNEXT of INBOX
  lastUID,     \* c.lastInboxUID
  inFlight,    \* c.inFlightInbox
  connected,   \* c.connected, and c.client # nil with it
  idling,      \* c.idling
  stopClosed,  \* the current c.stopIdle has been closed
  waits,       \* the channel each loop's runIDLE selects on: current, closed or old
  reconnect,   \* c.reconnect holds a signal
  connecting,  \* the goroutine that holds c.connectingMu
  fresh,       \* goroutines whose local handle is c.client
  pc, seen, todo, high, after, \* where each goroutine is, and its locals
  checked,     \* mails processMessageWith was given by a check
  backfilled,  \* mails processMessageWith was given by a backfill
  passedOver   \* mails a baseline or the backfill limit stepped over

vars == <<uidNext, lastUID, inFlight, connected, idling, stopClosed, waits, reconnect,
          connecting, fresh, pc, seen, todo, high, after, checked, backfilled, passedOver>>

conn == <<connected, idling, stopClosed, waits, reconnect, connecting, fresh>>
mail == <<uidNext, lastUID, inFlight, checked, backfilled, passedOver>>
locals == <<seen, todo, high, after>>

Goroutines == Loops \cup Commands
NoOne == "none"

Mailbox == 1..(uidNext - 1)

\* UID SEARCH n:*, where * is the newest mail even when it is older than n.
SearchFrom(n) == {u \in Mailbox : u >= n \/ u = uidNext - 1}

Goto(g, s) == pc' = [pc EXCEPT ![g] = s]

\* A loop's CheckNewMessages returns into idleLoop, a command's ends it.
Home(g) == IF g \in Loops THEN "loop" ELSE "done"

\* The end of checkNewMessagesFor: IDLE is restarted if it was stopped for it.
AfterCheck(g) == IF after[g] = "restart" THEN "restart" ELSE Home(g)

Lock(g) == connecting = NoOne /\ connecting' = g
Unlock(g) == connecting' = IF connecting = g THEN NoOne ELSE connecting

\* close(c.stopIdle)
CloseStop ==
  /\ stopClosed' = TRUE
  /\ waits' = [l \in Loops |-> IF waits[l] = "current" THEN "closed" ELSE waits[l]]

Fetching == {g \in Goroutines : pc[g] = "fetch"}

Processed == checked \cup backfilled

\* Found by some goroutine's search and still on its list.
Pending == UNION {todo[g] : g \in Goroutines}
-----------------------------------------------------------------------------
Init ==
  /\ uidNext \in {1, 2}
  /\ lastUID = 0 /\ inFlight = {} /\ checked = {} /\ backfilled = {} /\ passedOver = {}
  /\ connected = FALSE /\ idling = FALSE /\ stopClosed = FALSE /\ reconnect = FALSE
  /\ waits = [l \in Loops |-> "old"]
  /\ connecting = NoOne /\ fresh = {}
  /\ pc = [g \in Goroutines |-> "free"]
  /\ seen = [g \in Goroutines |-> 0]
  /\ todo = [g \in Goroutines |-> {}]
  /\ high = [g \in Goroutines |-> 0]
  /\ after = [g \in Goroutines |-> "direct"]

Arrive ==
  /\ uidNext <= MaxUID
  /\ uidNext' = uidNext + 1
  /\ UNCHANGED <<lastUID, inFlight, checked, backfilled, passedOver, conn, pc, locals>>

\* c.client.Close(); c.client = nil; connected = idling = false.  The stop
\* channel stays open.
HardError ==
  /\ connected' = FALSE /\ idling' = FALSE /\ fresh' = {}
  /\ UNCHANGED <<stopClosed, waits, connecting>>

\* A command of checkNewMessagesFor or runIDLE fails; hard errors drop c.client,
\* whether or not it is the one that failed.
CommandFails(g) ==
  /\ \/ HardError
     \/ g \in fresh /\ UNCHANGED <<connected, idling, fresh, stopClosed, waits, connecting>>
-----------------------------------------------------------------------------
(* The watermark.  Steps of checkNewMessagesFor. *)

\* The baseline b steps over every mail up to it that no one has taken up.
SetBaseline(b) ==
  /\ lastUID' = b
  /\ passedOver' = passedOver \cup (((lastUID + 1)..b) \ (Processed \cup Pending))

ReadLast(g) ==
  /\ pc[g] = "read"
  /\ IF connected
     THEN /\ fresh' = fresh \cup {g}
          /\ seen' = [seen EXCEPT ![g] = lastUID]
          /\ Goto(g, IF lastUID = 0 THEN "status" ELSE "search")
     ELSE /\ Goto(g, AfterCheck(g))
          /\ UNCHANGED <<fresh, seen>>
  /\ UNCHANGED <<mail, connected, idling, stopClosed, waits, reconnect, connecting, todo,
                 high, after>>

\* Mutant: the baseline is UIDNEXT itself.
StatusOffByOne(g) ==
  /\ pc[g] = "status"
  /\ \/ /\ g \in fresh
        /\ seen' = [seen EXCEPT ![g] = uidNext]
        /\ Goto(g, "rebase")
        /\ UNCHANGED conn
     \/ /\ CommandFails(g)
        /\ Goto(g, AfterCheck(g))
        /\ UNCHANGED <<seen, reconnect>>
  /\ UNCHANGED <<mail, todo, high, after>>

Status(g) ==
  /\ pc[g] = "status"
  /\ \/ /\ g \in fresh
        /\ seen' = [seen EXCEPT ![g] = uidNext - 1]
        /\ Goto(g, "rebase")
        /\ UNCHANGED conn
     \/ /\ CommandFails(g)
        /\ Goto(g, AfterCheck(g))
        /\ UNCHANGED <<seen, reconnect>>
  /\ UNCHANGED <<mail, todo, high, after>>

\* First sync: only mail after this baseline will be synced.
Rebase(g) ==
  /\ pc[g] = "rebase"
  /\ SetBaseline(seen[g])
  /\ Goto(g, AfterCheck(g))
  /\ UNCHANGED <<uidNext, inFlight, checked, backfilled, conn, locals>>

Search(g) ==
  /\ pc[g] = "search"
  /\ \/ /\ g \in fresh
        /\ todo' = [todo EXCEPT ![g] = {u \in SearchFrom(seen[g] + 1) : u > seen[g]}]
        /\ Goto(g, IF todo'[g] = {} THEN AfterCheck(g) ELSE "advance")
        /\ UNCHANGED conn
     \/ /\ CommandFails(g)
        /\ Goto(g, AfterCheck(g))
        /\ UNCHANGED <<todo, reconnect>>
  /\ UNCHANGED <<mail, seen, high, after>>

\* Mutant: the watermark is raised to the mailbox's end, past mails that came
\* after the search.
AdvanceToEnd(g) ==
  /\ pc[g] = "advance"
  /\ lastUID' = uidNext - 1
  /\ Goto(g, "process")
  /\ UNCHANGED <<uidNext, inFlight, checked, backfilled, passedOver, conn, locals>>

\* The watermark is raised before the mails are processed.
Advance(g) ==
  /\ pc[g] = "advance"
  /\ lastUID' = Max(todo[g])
  /\ Goto(g, "process")
  /\ UNCHANGED <<uidNext, inFlight, checked, backfilled, passedOver, conn, locals>>

\* Mutant: no test of the in-flight set.
StartUIDUnchecked(g) ==
  /\ pc[g] = "process"
  /\ IF todo[g] = {}
     THEN Goto(g, AfterCheck(g)) /\ UNCHANGED inFlight
     ELSE inFlight' = inFlight \cup {Min(todo[g])} /\ Goto(g, "fetch")
  /\ UNCHANGED <<uidNext, lastUID, checked, backfilled, passedOver, conn, locals>>

\* Mutant: the loop ends at the first mail another check has in flight.
StartUIDGivesUp(g) ==
  /\ pc[g] = "process"
  /\ IF todo[g] = {} \/ Min(todo[g]) \in inFlight
     THEN /\ Goto(g, AfterCheck(g))
          /\ todo' = [todo EXCEPT ![g] = {}]
          /\ UNCHANGED inFlight
     ELSE inFlight' = inFlight \cup {Min(todo[g])} /\ Goto(g, "fetch") /\ UNCHANGED todo
  /\ UNCHANGED <<uidNext, lastUID, checked, backfilled, passedOver, conn, seen, high, after>>

StartUID(g) ==
  /\ pc[g] = "process"
  /\ IF todo[g] = {}
     THEN Goto(g, AfterCheck(g)) /\ UNCHANGED <<inFlight, todo>>
     ELSE LET u == Min(todo[g]) IN
          IF u \in inFlight
          THEN todo' = [todo EXCEPT ![g] = @ \ {u}] /\ UNCHANGED <<inFlight, pc>>
          ELSE inFlight' = inFlight \cup {u} /\ Goto(g, "fetch") /\ UNCHANGED todo
  /\ UNCHANGED <<uidNext, lastUID, checked, backfilled, passedOver, conn, seen, high, after>>

\* processMessageWith has queued the mail, suppressed it or failed (it is not
\* tried again either way), and endUID.
EndUID(g) ==
  /\ pc[g] = "fetch"
  /\ LET u == Min(todo[g]) IN
     /\ checked' = checked \cup {u}
     /\ inFlight' = inFlight \ {u}
     /\ todo' = [todo EXCEPT ![g] = @ \ {u}]
  /\ Goto(g, "process")
  /\ UNCHANGED <<uidNext, lastUID, backfilled, passedOver, conn, seen, high, after>>

Check(g) == \/ ReadLast(g) \/ Status(g) \/ Rebase(g) \/ Search(g) \/ Advance(g)
            \/ StartUID(g) \/ EndUID(g)
-----------------------------------------------------------------------------
(* CheckNewMessages and safeStartIDLE around it. *)

BeginCheck(g) ==
  /\ pc[g] = "check"
  /\ Goto(g, IF ~connected THEN Home(g) ELSE IF idling THEN "stop" ELSE "read")
  /\ after' = [after EXCEPT ![g] = "direct"]
  /\ UNCHANGED <<mail, conn, seen, todo, high>>

\* StopIDLE; the wait for c.idling to fall that follows gives up after 2 s, so
\* it constrains nothing.
StopIDLE(g) ==
  /\ pc[g] = "stop"
  /\ IF idling THEN CloseStop /\ idling' = FALSE ELSE UNCHANGED <<idling, stopClosed, waits>>
  /\ Goto(g, "read")
  /\ after' = [after EXCEPT ![g] = "restart"]
  /\ UNCHANGED <<mail, connected, reconnect, connecting, fresh, seen, todo, high>>

\* safeStartIDLE: NOOP, and a full reconnect if it fails.  The caller waits for it: that
\* it gives up after a timeout is left out.
Restart(g) ==
  /\ pc[g] = "restart"
  /\ \/ connected /\ Goto(g, "start")
     \/ Goto(g, "reconnect")
  /\ UNCHANGED <<mail, conn, locals>>
-----------------------------------------------------------------------------
(* StartIDLE.  It runs inside resetConnection when g holds connectingMu. *)

\* StartIDLE returns err to its caller; `already' says the text of the error
\* has "already running".
StartFails(g, already) ==
  /\ Unlock(g)
  /\ \/ /\ after[g] = "recover"
        /\ Goto(g, "recover") /\ UNCHANGED after
     \/ /\ after[g] = "restart" /\ already
        /\ Goto(g, "reset") /\ after' = [after EXCEPT ![g] = "redo"]
     \/ /\ after[g] \in {"command", "redo"} \/ (after[g] = "restart" /\ ~already)
        /\ Goto(g, Home(g)) /\ UNCHANGED after

\* The deferred reset of c.idling, and the return.
StartAborts(g) ==
  /\ idling' = FALSE
  /\ StartFails(g, FALSE)
  /\ UNCHANGED <<connected, stopClosed, waits, reconnect, fresh>>

\* Mutant: the stop channel is not replaced.
StartKeepsChannel(g) ==
  /\ pc[g] = "start"
  /\ IF ~idling /\ connected
     THEN /\ idling' = TRUE
          /\ fresh' = fresh \cup {g}
          /\ Goto(g, "primeStatus")
          /\ UNCHANGED <<stopClosed, waits, connecting, after>>
     ELSE /\ StartFails(g, idling)
          /\ idling' = (idling /\ (connecting # g \/ after[g] = "redo"))
          /\ UNCHANGED <<stopClosed, waits, fresh>>
  /\ UNCHANGED <<mail, connected, reconnect, seen, todo, high>>

Start(g) ==
  /\ pc[g] = "start"
  /\ IF ~idling /\ connected
     THEN /\ idling' = TRUE /\ stopClosed' = FALSE
          /\ waits' = [l \in Loops |-> IF waits[l] = "current" THEN "old" ELSE waits[l]]
          /\ fresh' = fresh \cup {g}
          /\ Goto(g, "primeStatus")
          /\ UNCHANGED <<connecting, after>>
     ELSE /\ StartFails(g, idling)
          /\ idling' = (idling /\ (connecting # g \/ after[g] = "redo"))
          /\ UNCHANGED <<stopClosed, waits, fresh>>
  /\ UNCHANGED <<mail, connected, reconnect, seen, todo, high>>

PrimeStatus(g) ==
  /\ pc[g] = "primeStatus"
  /\ \/ /\ g \in fresh
        /\ seen' = [seen EXCEPT ![g] = uidNext - 1]
        /\ Goto(g, "primeSet")
        /\ UNCHANGED <<conn, after>>
     \/ StartAborts(g) /\ UNCHANGED seen
  /\ UNCHANGED <<mail, todo, high>>

PrimeSet(g) ==
  /\ pc[g] = "primeSet"
  /\ SetBaseline(seen[g])
  /\ Goto(g, IF BackfillMax = 0 THEN "probe" ELSE "primeSearch")
  /\ UNCHANGED <<uidNext, inFlight, checked, backfilled, conn, locals>>

\* The backfill asks for the mails after the baseline and keeps the newest.
PrimeSearch(g) ==
  /\ pc[g] = "primeSearch"
  /\ \/ LET found == {u \in SearchFrom(seen[g] + 1) : u > seen[g]}
            taken == {u \in found : Cardinality({v \in found : v > u}) < BackfillMax}
        IN /\ g \in fresh
           /\ todo' = [todo EXCEPT ![g] = taken]
           /\ passedOver' = passedOver \cup (found \ (taken \cup Processed \cup Pending))
           /\ Goto(g, "backfill")
           /\ UNCHANGED <<conn, after>>
     \/ StartAborts(g) /\ UNCHANGED <<todo, passedOver>>
  /\ UNCHANGED <<uidNext, lastUID, inFlight, checked, backfilled, seen, high>>

\* One mail of the backfill; it does not enter the in-flight set.
Backfill(g, ok) ==
  /\ pc[g] = "backfill" /\ todo[g] # {}
  /\ LET u == Min(todo[g]) IN
     /\ backfilled' = backfilled \cup {u}
     /\ todo' = [todo EXCEPT ![g] = @ \ {u}]
     /\ high' = [high EXCEPT ![g] = IF ok THEN u ELSE @]
  /\ UNCHANGED <<uidNext, lastUID, inFlight, checked, passedOver, conn, pc, seen, after>>

PrimeDone(g) ==
  /\ pc[g] = "backfill" /\ todo[g] = {}
  /\ lastUID' = IF high[g] > 0 THEN high[g] ELSE lastUID
  /\ high' = [high EXCEPT ![g] = 0]
  /\ Goto(g, "probe")
  /\ UNCHANGED <<uidNext, inFlight, checked, backfilled, passedOver, conn, seen, todo, after>>

\* The test IDLE.  On success a new idleLoop goroutine l is spawned; when the
\* server says "already running" the connection is reset.
Probe(g) ==
  /\ pc[g] = "probe"
  /\ \/ \E l \in Loops \ {g} :
          /\ pc[l] = "free" /\ g \in fresh
          /\ pc' = [pc EXCEPT ![l] = "loop", ![g] = Home(g)]
          /\ Unlock(g)
          /\ UNCHANGED <<connected, idling, stopClosed, waits, reconnect, fresh, after>>
     \/ g \in fresh /\ Goto(g, "reset") /\ UNCHANGED <<conn, after>>
     \/ StartAborts(g)
  /\ UNCHANGED <<mail, seen, todo, high>>

StartIDLE(g) == \/ Start(g) \/ PrimeStatus(g) \/ PrimeSet(g) \/ PrimeSearch(g)
                \/ \E ok \in BOOLEAN : Backfill(g, ok)
                \/ PrimeDone(g) \/ Probe(g)
-----------------------------------------------------------------------------
(* reconnectClient and resetConnection.  The retries and the breaker inside *)
(* the first decide only how often Connect is tried.                        *)

\* reconnectClient takes connectingMu and calls Disconnect.
Disconnect(g) ==
  /\ pc[g] = "reconnect"
  /\ Lock(g)
  /\ IF connected /\ idling THEN CloseStop /\ idling' = FALSE
     ELSE UNCHANGED <<idling, stopClosed, waits>>
  /\ connected' = FALSE /\ fresh' = {}
  /\ Goto(g, "connect")
  /\ UNCHANGED <<mail, reconnect, locals>>

Connect(g) ==
  /\ pc[g] = "connect"
  /\ connecting' = NoOne
  /\ \/ /\ connected' = TRUE
        /\ \/ after[g] # "signal" /\ Goto(g, "start")
           \/ after[g] = "signal" /\ Goto(g, "loop")
           \/ after[g] = "command" /\ idling /\ Goto(g, "done")  \* the watchdog's IsIDLERunning
     \/ /\ UNCHANGED connected
        /\ Goto(g, IF after[g] = "recover" THEN "recover" ELSE Home(g))
  /\ UNCHANGED <<mail, idling, stopClosed, waits, reconnect, fresh, locals>>

\* resetConnection takes connectingMu and closes the connection.
ForceClose(g) ==
  /\ pc[g] = "reset"
  /\ Lock(g)
  /\ connected' = FALSE /\ idling' = FALSE /\ fresh' = {}
  /\ Goto(g, "reconnectReset")
  /\ UNCHANGED <<mail, stopClosed, waits, reconnect, locals>>

\* It keeps connectingMu through its StartIDLE.
ConnectReset(g) ==
  /\ pc[g] = "reconnectReset"
  /\ \/ /\ connected' = TRUE
        /\ Goto(g, "start")
        /\ UNCHANGED <<idling, stopClosed, waits, reconnect, connecting, fresh, after>>
     \/ StartAborts(g)
  /\ UNCHANGED <<mail, seen, todo, high>>
-----------------------------------------------------------------------------
(* idleLoop and runIDLE. *)

HearStopInLoop(g) ==
  /\ pc[g] = "loop" /\ stopClosed
  /\ Goto(g, "exit")
  /\ UNCHANGED <<mail, conn, locals>>

\* The deferred function of idleLoop.
Exit(g) ==
  /\ pc[g] = "exit"
  /\ idling' = FALSE
  /\ Goto(g, "free")
  /\ UNCHANGED <<mail, connected, stopClosed, waits, reconnect, connecting, fresh, locals>>

TakeSignal(g) ==
  /\ pc[g] = "loop" /\ reconnect
  /\ reconnect' = FALSE
  /\ after' = [after EXCEPT ![g] = "signal"]
  /\ Goto(g, "reconnect")
  /\ UNCHANGED <<mail, connected, idling, stopClosed, waits, connecting, fresh, seen, todo, high>>

\* The default branch: runIDLE issues IDLE.
EnterIdle(g) ==
  /\ pc[g] = "loop" /\ ~stopClosed /\ ~reconnect
  /\ \/ /\ connected
        /\ waits' = [waits EXCEPT ![g] = "current"]
        /\ Goto(g, "idle")
        /\ UNCHANGED <<connected, idling, stopClosed, reconnect, connecting, fresh>>
     \/ /\ Goto(g, "recover")
        /\ \/ connected /\ HardError /\ UNCHANGED reconnect
           \/ connected /\ reconnect' = TRUE   \* triggerReconnect
                        /\ UNCHANGED <<connected, idling, stopClosed, waits, connecting, fresh>>
           \/ UNCHANGED conn
  /\ UNCHANGED <<mail, locals>>

HearStopInIdle(g) ==
  /\ pc[g] = "idle" /\ waits[g] = "closed"
  /\ waits' = [waits EXCEPT ![g] = "old"]
  /\ Goto(g, "loop")
  /\ UNCHANGED <<mail, connected, idling, stopClosed, reconnect, connecting, fresh, locals>>

TimerFires(g) ==
  /\ pc[g] = "idle"
  /\ waits' = [waits EXCEPT ![g] = "old"]
  /\ Goto(g, "check")
  /\ UNCHANGED <<mail, connected, idling, stopClosed, reconnect, connecting, fresh, locals>>

\* performIDLERecovery makes another attempt, or has used them up.
Recover(g) ==
  /\ pc[g] = "recover"
  /\ \/ Goto(g, "reconnect") /\ after' = [after EXCEPT ![g] = "recover"]
     \/ Goto(g, "loop") /\ UNCHANGED after
  /\ UNCHANGED <<mail, conn, seen, todo, high>>

IdleLoop(g) == \/ HearStopInLoop(g) \/ Exit(g) \/ TakeSignal(g) \/ EnterIdle(g)
               \/ HearStopInIdle(g) \/ TimerFires(g) \/ Recover(g)

\* A !sync, a periodic sync, a reconnect command, the watchdog or the first Connect.
RunCommand(g) ==
  /\ pc[g] = "free"
  /\ \/ connected /\ Goto(g, "check") /\ UNCHANGED after
     \/ Goto(g, "reconnect") /\ after' = [after EXCEPT ![g] = "command"]
  /\ UNCHANGED <<mail, conn, seen, todo, high>>
-----------------------------------------------------------------------------
Next ==
  \/ Arrive
  \/ \E g \in Goroutines : \/ BeginCheck(g) \/ StopIDLE(g) \/ Check(g) \/ Restart(g)
                           \/ StartIDLE(g)
                           \/ Disconnect(g) \/ Connect(g) \/ ForceClose(g) \/ ConnectReset(g)
  \/ \E l \in Loops : IdleLoop(l)
  \/ \E g \in Commands : RunCommand(g)

Spec == Init /\ [][Next]_vars
-----------------------------------------------------------------------------
Steps == {"free", "done", "check", "stop", "read", "status", "rebase", "search", "advance", "process",
          "fetch", "restart", "start", "primeStatus", "primeSet", "primeSearch", "backfill",
          "probe", "reconnect", "connect", "reset", "reconnectReset", "loop", "idle", "exit",
          "recover"}

UIDs == 1..MaxUID

\* Every field has its type.
TypeOK ==
  /\ uidNext \in 1..(MaxUID + 1) /\ lastUID \in 0..MaxUID
  /\ inFlight \subseteq UIDs /\ checked \subseteq UIDs /\ backfilled \subseteq UIDs /\ passedOver \subseteq UIDs
  /\ connected \in BOOLEAN /\ idling \in BOOLEAN /\ stopClosed \in BOOLEAN
  /\ reconnect \in BOOLEAN
  /\ waits \in [Loops -> {"current", "closed", "old"}]
  /\ connecting \in Goroutines \cup {NoOne} /\ fresh \subseteq Goroutines
  /\ pc \in [Goroutines -> Steps]
  /\ seen \in [Goroutines -> 0..MaxUID]
  /\ todo \in [Goroutines -> SUBSET UIDs]
  /\ high \in [Goroutines -> 0..MaxUID]
  /\ after \in [Goroutines -> {"direct", "restart", "redo", "recover", "command", "signal"}]

\* The watermark never covers a mail nobody took up: every mail at or below
\* lastInboxUID was processed, is on some goroutine's list, or was stepped over
\* by a baseline.  Checks overlap, lower each other's watermark, fail half way
\* and skip what another has in flight; none of it may lose a mail.
MailAccounted == 1..lastUID \subseteq Processed \cup passedOver \cup Pending

\* The in-flight set is exactly what the checks are fetching, and no two checks
\* fetch the same mail at once.
InFlightExclusive ==
  /\ inFlight = {Min(todo[g]) : g \in Fetching}
  /\ Cardinality(inFlight) = Cardinality(Fetching)

\* While c.idling is set the current stop channel is open: StopIDLE and
\* Disconnect never close a closed channel, and a stop they send is heard.
IdlingCanBeStopped == idling => ~stopClosed

Delivery == INSTANCE InboundDelivery
              WITH mails <- Mailbox, settled <- Processed \cup passedOver,
                   hand <- Pending \ (Processed \cup passedOver), covered <- 1..lastUID

\* Checks, primes and backfills that overlap, fail half way, lower the
\* watermark and drop each other's connection still treat every mail as
\* InboundDelivery promises: one at or below lastInboxUID does not leave the
\* list of the goroutine that took it up before it has been processed.
DeliversAsPromised == Delivery!Spec
=============================================================================
