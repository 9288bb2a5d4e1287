------------------------------ MODULE ImapSent ------------------------------
(***************************************************************************)
(* pkg/imap/client.go: the second connection of an account, which watches  *)
(* the Sent folder, beside the INBOX connection.  Under c.sentMu are the   *)
(* handle sentClient, the flag sentConnected and the channel sentStop;     *)
(* under c.mu the INBOX flags connected and idling.                        *)
(*                                                                         *)
(* ensureSentConnectionAndLoop looks, unlocks, dials and then installs what*)
(* it got.  Dials are numbered; d also names the channel made for dial d,  *)
(* the connection it opens and the idle loop started on it.                *)
(***************************************************************************)
EXTENDS Integers

CONSTANTS Starters,   \* goroutines that call StartIDLE
          MaxDials,   \* how often a Sent connection is dialled (a bound)
          MaxPending  \* ensure goroutines spawned and not yet running (a bound)

ASSUME SentBounds == MaxDials \in Nat \ {0} /\ MaxPending \in Nat \ {0}

VARIABLES
  connected, idling,  \* c.connected (and c.client # nil with it), c.idling
  starting,           \* goroutines inside StartIDLE
  pending,            \* `go c.ensureSentConnectionAndLoop()' not yet running
  sentClient,         \* the dial whose connection c.sentClient is, or None
  sentConnected,
  sentStop,           \* the dial whose channel c.sentStop is, or None
  closed,             \* channels that have been closed
  open,               \* Sent connections neither closed nor cut by the network
  reported,           \* what the coordinator last heard of "sent"
  dial,               \* where each ensure is
  loop,               \* where each sentIdleLoop is
  stopOf,             \* the channel dial d's two loops were given
  rebuild             \* a goroutine is on its way to rebuild (at most one: a bound)

vars == <<connected, idling, starting, pending, sentClient, sentConnected, sentStop, closed, open,
          reported, dial, loop, stopOf, rebuild>>

inbox == <<connected, idling, starting>>
sent == <<sentClient, sentConnected, open>>
stops == <<sentStop, closed>>
loops == <<loop, stopOf, rebuild>>

Dials == 1..MaxDials
None == 0

Unused == {d \in Dials : dial[d] = "unused"}

\* `go c.ensureSentConnectionAndLoop()'
Spawn == pending < MaxPending /\ pending' = pending + 1

\* Mutant: sentConnected stays set.
CloseSentKeepsFlag == sentClient' = None /\ open' = open \ {sentClient} /\ UNCHANGED sentConnected

\* Under sentMu: close c.sentClient if there is one.
CloseSent == sentClient' = None /\ sentConnected' = FALSE /\ open' = open \ {sentClient}

\* c.client.Close(); c.client = nil; connected = idling = false.
DropInbox ==
  /\ connected' = FALSE /\ idling' = FALSE
  /\ UNCHANGED starting
-----------------------------------------------------------------------------
Init ==
  /\ connected = FALSE /\ idling = FALSE
  /\ starting = {}
  /\ pending = 0
  /\ sentClient = None /\ sentConnected = FALSE /\ sentStop = None
  /\ closed = {} /\ open = {} /\ reported = FALSE
  /\ dial = [d \in Dials |-> "unused"]
  /\ loop = [d \in Dials |-> "none"]
  /\ stopOf = [d \in Dials |-> None]
  /\ rebuild = FALSE
-----------------------------------------------------------------------------
(* The INBOX side, as far as it starts and stops the Sent connection. *)

\* Connect, from the first start, a recovery or the watchdog.
Connect ==
  /\ ~connected
  /\ connected' = TRUE
  /\ UNCHANGED <<idling, starting, pending, sent, stops, reported, dial, loops>>

\* A command of the INBOX loop hits a broken connection.
InboxHardError ==
  /\ connected
  /\ DropInbox
  /\ UNCHANGED <<pending, sent, stops, reported, dial, loops>>

StopIDLE ==
  /\ idling
  /\ idling' = FALSE
  /\ UNCHANGED <<connected, starting, pending, sent, stops, reported, dial, loops>>

StartIDLE(s) ==
  /\ s \notin starting /\ connected /\ ~idling
  /\ idling' = TRUE
  /\ starting' = starting \cup {s}
  /\ UNCHANGED <<connected, pending, sent, stops, reported, dial, loops>>

\* The INBOX loop and the ensure goroutine are spawned, be the handle it has used
\* current or old, or the start failed.  A resetConnection in it is a failed start,
\* a hard error, a Connect and the next start.
FinishStart(s) ==
  /\ s \in starting
  /\ starting' = starting \ {s}
  /\ \/ Spawn /\ UNCHANGED idling
     \/ idling' = FALSE /\ UNCHANGED pending
  /\ UNCHANGED <<connected, sent, stops, reported, dial, loops>>

\* It returns at once when the INBOX connection is gone already: the Sent
\* connection is then left as it is.
Disconnect ==
  /\ connected
  /\ DropInbox
  /\ IF sentClient # None
     THEN CloseSent /\ reported' = FALSE /\ closed' = closed \cup {sentStop}
     ELSE UNCHANGED <<sent, closed, reported>>
  /\ UNCHANGED <<pending, sentStop, dial, loops>>
-----------------------------------------------------------------------------
(* ensureSentConnectionAndLoop. *)

\* The look, and a fresh stop channel; the lock is given up for the dial.
BeginEnsure ==
  /\ pending > 0
  /\ pending' = pending - 1
  /\ IF sentClient # None
     THEN UNCHANGED <<sentStop, dial>>
     ELSE \E d \in Unused :
            /\ \A e \in Unused : d <= e
            /\ sentStop' = d
            /\ dial' = [dial EXCEPT ![d] = "dialing"]
  /\ UNCHANGED <<inbox, sent, closed, reported, loops>>

\* Dialling, signing in or selecting the folder failed: nobody tries again here.
DialFails(d) ==
  /\ dial[d] = "dialing"
  /\ dial' = [dial EXCEPT ![d] = "failed"]
  /\ UNCHANGED <<inbox, pending, sent, stops, reported, loops>>

\* Mutant: the loops are given the channel made before the dial.
InstallWithOwnChannel(d) ==
  /\ dial[d] = "dialing"
  /\ dial' = [dial EXCEPT ![d] = "up"]
  /\ open' = open \cup {d}
  /\ sentClient' = d /\ sentConnected' = TRUE
  /\ stopOf' = [stopOf EXCEPT ![d] = d]
  /\ UNCHANGED <<inbox, pending, stops, reported, loop, rebuild>>

\* The connection is installed over whatever is there; stopCh is read only now.
Install(d) ==
  /\ dial[d] = "dialing"
  /\ dial' = [dial EXCEPT ![d] = "up"]
  /\ open' = open \cup {d}
  /\ sentClient' = d /\ sentConnected' = TRUE
  /\ stopOf' = [stopOf EXCEPT ![d] = sentStop]
  /\ UNCHANGED <<inbox, pending, stops, reported, loop, rebuild>>

\* Out of the lock: the report, then the two loops.
StartLoops(d) ==
  /\ dial[d] = "up"
  /\ dial' = [dial EXCEPT ![d] = "done"]
  /\ reported' = TRUE
  /\ loop' = [loop EXCEPT ![d] = "idle"]
  /\ UNCHANGED <<inbox, pending, sent, stops, stopOf, rebuild>>
-----------------------------------------------------------------------------
(* sentIdleLoop.  A check that finds nothing wrong changes nothing here. *)

At(d, s) == loop' = [loop EXCEPT ![d] = s]

\* IDLE fails hard: the connection is gone, or the server takes it for already
\* running.  Other errors are retried.
IdleFails(d) ==
  /\ loop[d] = "idle"
  /\ At(d, "lost")
  /\ UNCHANGED <<inbox, pending, sent, stops, reported, dial, stopOf, rebuild>>

HearStop(d) ==
  /\ loop[d] = "idle" /\ stopOf[d] \in closed
  /\ At(d, "ended")
  /\ UNCHANGED <<inbox, pending, sent, stops, reported, dial, stopOf, rebuild>>

\* The timer has fired and checkNewMessagesFor on the Sent folder fails hard: it
\* closes c.client, which is the INBOX connection.
CheckFails(d) ==
  /\ loop[d] = "idle"
  /\ DropInbox
  /\ At(d, "lost")
  /\ UNCHANGED <<pending, sent, stops, reported, dial, stopOf, rebuild>>

\* Mutant: the coordinator is told outside the lock, after the back-off.
ReconnectSentReportsLate(d) ==
  /\ \/ /\ loop[d] = "lost"
        /\ CloseSent
        /\ At(d, "backoff")
        /\ UNCHANGED <<pending, reported>>
     \/ /\ loop[d] = "backoff"
        /\ Spawn /\ At(d, "ended")
        /\ reported' = FALSE
        /\ UNCHANGED sent
  /\ UNCHANGED <<inbox, stops, dial, stopOf, rebuild>>

\* Mutant: the loop waits for its back-off for ever.
ReconnectSentHangs(d) ==
  /\ loop[d] = "lost"
  /\ CloseSent /\ reported' = FALSE
  /\ At(d, "backoff")
  /\ UNCHANGED <<inbox, pending, stops, dial, stopOf, rebuild>>

\* reconnectSent: whatever is c.sentClient by now is closed; after a back-off
\* that no stop shortens, ensure is called again and the loop returns.
ReconnectSent(d) ==
  /\ \/ /\ loop[d] = "lost"
        /\ CloseSent /\ reported' = FALSE
        /\ At(d, "backoff")
        /\ UNCHANGED pending
     \/ /\ loop[d] = "backoff"
        /\ Spawn /\ At(d, "ended")
        /\ UNCHANGED <<sent, reported>>
  /\ UNCHANGED <<inbox, stops, dial, stopOf, rebuild>>

SentIdleLoop(d) == IdleFails(d) \/ HearStop(d) \/ CheckFails(d) \/ ReconnectSent(d)
-----------------------------------------------------------------------------
(* sentHealthLoop.  It ends when its channel is closed. *)

\* A NOOP on the current connection, whichever that is, fails hard under the
\* read lock, and a goroutine is spawned to take the write lock.
Probe(d) ==
  /\ dial[d] = "done" /\ stopOf[d] \notin closed
  /\ sentClient # None /\ sentClient \notin open
  /\ rebuild' = TRUE
  /\ UNCHANGED <<inbox, pending, sent, stops, reported, dial, loop, stopOf>>

\* Mutant: nobody is asked to dial again.
RebuildOnlyCloses ==
  /\ rebuild
  /\ rebuild' = FALSE
  /\ IF sentClient # None THEN CloseSent /\ reported' = FALSE ELSE UNCHANGED <<sent, reported>>
  /\ UNCHANGED <<inbox, pending, stops, dial, loop, stopOf>>

\* It closes the current connection, be it the one that failed or a newer one.
Rebuild ==
  /\ rebuild
  /\ rebuild' = FALSE
  /\ IF sentClient # None THEN CloseSent /\ reported' = FALSE /\ Spawn
     ELSE UNCHANGED <<sent, reported, pending>>
  /\ UNCHANGED <<inbox, stops, dial, loop, stopOf>>

\* The network cuts a Sent connection.
Cut(d) ==
  /\ d \in open
  /\ open' = open \ {d}
  /\ UNCHANGED <<inbox, pending, sentClient, sentConnected, stops, reported, dial, loops>>
-----------------------------------------------------------------------------
Ensure == BeginEnsure \/ \E d \in Dials : DialFails(d) \/ Install(d) \/ StartLoops(d)

Next ==
  \/ Connect \/ InboxHardError \/ StopIDLE \/ Disconnect
  \/ \E s \in Starters : StartIDLE(s) \/ FinishStart(s)
  \/ Ensure \/ Rebuild
  \/ \E d \in Dials : SentIdleLoop(d) \/ Probe(d) \/ Cut(d)

Spec == Init /\ [][Next]_vars

\* Goroutines go on, and a back-off ends.
FairSpec ==
  /\ Spec
  /\ WF_vars(Ensure)
  /\ \A d \in Dials : WF_vars(ReconnectSent(d))
-----------------------------------------------------------------------------
\* Every field has its type.
TypeOK ==
  /\ connected \in BOOLEAN /\ idling \in BOOLEAN
  /\ starting \subseteq Starters
  /\ pending \in 0..MaxPending
  /\ sentClient \in Dials \cup {None} /\ sentStop \in Dials \cup {None}
  /\ sentConnected \in BOOLEAN /\ (sentConnected => sentClient # None) /\ reported \in BOOLEAN
  /\ closed \subseteq Dials /\ open \subseteq Dials /\ rebuild \in BOOLEAN
  /\ dial \in [Dials -> {"unused", "dialing", "failed", "up", "done"}]
  /\ loop \in [Dials -> {"none", "idle", "lost", "backoff", "ended"}]
  /\ stopOf \in [Dials -> Dials \cup {None}]

\* The loops of the current Sent connection select on the very channel that
\* Disconnect closes, however many ensures were dialling when it was installed.
CurrentHearsDisconnect == sentClient # None => stopOf[sentClient] = sentStop

\* Someone is on the way to bring the Sent connection up.
Underway ==
  \/ pending > 0
  \/ starting # {}
  \/ \E d \in Dials : dial[d] = "dialing" \/ loop[d] \in {"lost", "backoff"}

\* While INBOX is idling, a missing Sent connection has someone on the way to
\* bring it up, or the last dial failed: a loss, whoever notices it and whoever
\* closes the connection, is never just dropped.
SentNotForgotten ==
  sentClient = None /\ idling => Underway \/ (sentStop # None /\ dial[sentStop] = "failed")

\* Once its ensure has finished, the current Sent connection is never shown as
\* lost: loss reports of older connections are made under the lock that
\* installs new ones.
LiveSentReported ==
  /\ sentConnected <=> sentClient # None
  /\ sentClient # None /\ (\A d \in Dials : dial[d] # "up") => reported

\* A Sent connection that a loop has given up, in its back-off, or the health check,
\* with an ensure spawned, is dialled again, as long as the bound on dials allows.
LostIsRetried ==
  (sentClient = None /\ (pending > 0 \/ \E d \in Dials : loop[d] = "backoff"))
    ~> (sentClient # None \/ (\E d \in Dials : dial[d] = "dialing") \/ Unused = {})
=============================================================================
