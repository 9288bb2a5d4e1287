---------------------------- MODULE ImapRecovery ----------------------------
(***************************************************************************)
(* How an IMAP connection comes up and how a lost one comes back: the      *)
(* first Connect, the idle loop with its checks and performIDLERecovery,   *)
(* safeStartIDLE and resetConnection, the watchdog of the manager,         *)
(* reconnectClient with its retries (pkg/imap/client.go,                   *)
(* pkg/imap/manager.go, pkg/connector/client.go, pkg/reliability/retry.go),*)
(* the circuit breaker all of them share, and the status the state         *)
(* coordinator derives (pkg/coordinator/state_coordinator.go).             *)
(*                                                                         *)
(* The breaker is an instance of CircuitBreaker whose callers are frames:  *)
(* the idle loop calls Execute around reconnectClient, and reconnectClient *)
(* calls it again around connectInternal.  Mail, and the steps inside a    *)
(* StartIDLE or a check, are the subject of ImapInbox.  The length of a    *)
(* back-off is abstracted away.                                            *)
(***************************************************************************)
EXTENDS Integers, FiniteSets

CONSTANTS Loops,        \* slots for idleLoop goroutines (a bound)
          Watchdogs,    \* watchdogs of this client: at most one, none if never registered
          Starters,     \* slots for Connect, safeStartIDLE and the periodic sync (a bound)
          MaxAttempts,  \* retryConfig.MaxAttempts
          MaxMishaps,   \* how often the network fails, the server says "already
                        \* running" or a periodic sync interrupts IDLE (a bound)
          MaxFailures, MaxHalfOpenRequests

Goroutines == Loops \cup Watchdogs \cup Starters

ASSUME AttemptsPositive == MaxAttempts \in Nat \ {0}
ASSUME MishapsBounded == MaxMishaps \in Nat
ASSUME GoroutinesFinite == IsFiniteSet(Loops) /\ IsFiniteSet(Watchdogs) /\ IsFiniteSet(Starters)
ASSUME GoroutinesDistinct ==
  /\ Loops \cap Watchdogs = {} /\ Loops \cap Starters = {} /\ Watchdogs \cap Starters = {}
  /\ "none" \notin Goroutines
ASSUME BreakerLimits == MaxFailures \in Nat \ {0} /\ MaxHalfOpenRequests \in Nat \ {0}

VARIABLES
  state, failures, cooled, halfOpenRequests, pc, counted, toReport, reported,  \* the breaker
  up,         \* the network and the server work
  mishaps,    \* how many there have been
  link,       \* c.client: none, live, or dead without c noticing
  idling,     \* c.idling
  stopClosed, \* the current c.stopIdle has been closed
  listening,  \* loops inside runIDLE that wait on the current c.stopIdle, still open
  stopped,    \* loops inside runIDLE whose channel has been closed
  signal,     \* c.reconnect holds a signal
  mu,         \* the goroutine that holds connectingMu
  ph,         \* where each goroutine is
  mode,       \* what each goroutine is about
  tries,      \* failed attempts of the RetryWithBackoff around each frame
  result,     \* what each frame's Execute will return: rejected until fn has run
  inbox       \* the coordinator's inbox: Connected and IdleRunning

Outer(l) == <<l, "outer">>
Inner(g) == <<g, "inner">>
Frames == {Outer(l) : l \in Loops} \cup {Inner(g) : g \in Goroutines}

Places == {"free",                                       \* not running
           "top", "idle", "execute", "outer",            \* a loop
           "watch",                                      \* the watchdog between its ticks
           "connect", "test", "retry", "started",        \* a starter
           "reconnect", "attempt", "inner",              \* Connect and reconnectClient
           "startIDLE", "reset", "redial"}               \* StartIDLE and resetConnection

Modes == {"recover",  \* a reconnect followed by StartIDLE
          "signal",   \* a loop that reconnects on c.reconnect, without StartIDLE
          "connect",  \* the first Connect
          "restart",  \* safeStartIDLE
          "redo"}     \* safeStartIDLE after its StartIDLE: the last resetConnection

B == INSTANCE CircuitBreaker WITH Callers <- Frames

breaker == <<state, failures, cooled, halfOpenRequests, pc, counted, toReport, reported>>
socket == <<up, mishaps, link, idling, stopClosed, listening, stopped, signal>>
vars == <<breaker, socket, mu, ph, mode, tries, result, inbox>>

NoOne == "none"
Closed == link = "none"

Goto(g, s) == ph' = [ph EXCEPT ![g] = s]

\* Mutant: the INBOX connection is looked at before the breaker.
StatusInboxFirst ==
  IF inbox.connected /\ inbox.idle THEN "connected"
  ELSE IF reported = "open" \/ ~inbox.connected THEN "unreachable"
  ELSE "transient"

\* computeBridgeState, without the error codes; circuitState is what the
\* breaker's callback said last.
Status ==
  IF reported = "open" \/ ~inbox.connected THEN "unreachable"
  ELSE IF ~inbox.idle THEN "transient"
  ELSE "connected"
-----------------------------------------------------------------------------
\* NewClient has made the client, and a goroutine is about to call Connect.
Init ==
  /\ B!Init
  /\ up = TRUE /\ mishaps = 0 /\ link = "none" /\ idling = FALSE
  /\ stopClosed = FALSE /\ listening = {} /\ stopped = {} /\ signal = FALSE
  /\ mu = NoOne
  /\ \E s \in Starters :
       /\ ph = [g \in Goroutines |-> IF g = s THEN "connect" ELSE "free"]
       /\ mode = [g \in Goroutines |-> IF g = s THEN "connect"
                                       ELSE IF g \in Starters THEN "restart" ELSE "recover"]
  /\ tries = [f \in Frames |-> 0]
  /\ result = [f \in Frames |-> "rejected"]
  /\ inbox = [connected |-> FALSE, idle |-> FALSE]

Mishap == mishaps < MaxMishaps /\ mishaps' = mishaps + 1

NetworkFails ==
  /\ up /\ Mishap
  /\ up' = FALSE
  /\ link' = IF Closed THEN link ELSE "dead"
  /\ UNCHANGED <<breaker, idling, stopClosed, listening, stopped, signal, mu, ph, mode, tries,
                 result, inbox>>

NetworkReturns ==
  /\ ~up
  /\ up' = TRUE
  /\ UNCHANGED <<breaker, mishaps, link, idling, stopClosed, listening, stopped, signal, mu, ph,
                 mode, tries, result, inbox>>

\* It is asked for only while the breaker is open, and a failure starts it anew.
TimeoutElapses ==
  /\ state = "open" /\ B!TimeoutElapses
  /\ UNCHANGED <<socket, mu, ph, mode, tries, result, inbox>>
-----------------------------------------------------------------------------
(* The breaker around both calls. *)

\* Mutant: one attempt too many.
MayRetryAgain(f) == tries[f] < MaxAttempts

\* RetryWithBackoff has attempts left.
MayRetry(f) == tries[f] < MaxAttempts - 1

\* The caller of frame f has its result and has forgotten it.
Forget(f) == result' = [result EXCEPT ![f] = "rejected"]

\* Mutant: a call that fails leaves Execute past its deferred decrement.
RecordSkipsDefer(f, ok) ==
  /\ IF ok THEN B!RecordResult(f, ok)
     ELSE /\ pc[f] = "running" /\ pc' = [pc EXCEPT ![f] = "idle"]
          /\ UNCHANGED <<state, failures, cooled, halfOpenRequests, counted, toReport, reported>>
  /\ result' = [result EXCEPT ![f] = IF ok THEN "ok" ELSE "failed"]

\* fn has returned.
Record(f, ok) ==
  /\ B!RecordResult(f, ok)
  /\ result' = [result EXCEPT ![f] = IF ok THEN "ok" ELSE "failed"]

\* A step inside Execute; a callback of it reaches the coordinator.
Proceed(f) ==
  /\ B!Proceed(f)
  /\ UNCHANGED <<socket, mu, ph, mode, tries, result, inbox>>
-----------------------------------------------------------------------------
(* The connection and its stop channel. *)

\* A command on a connection that is gone may end in a hard error, which makes
\* the client drop it.
Command == link' \in IF link = "live" THEN {"live"} ELSE {link, "none"}

\* The current stop channel is closed, if it was not yet.
CloseStop ==
  /\ stopClosed' = TRUE
  /\ stopped' = stopped \cup listening
  /\ listening' = {}

\* A fresh stop channel; who waits on the old one waits for good.
NewStop == stopClosed' = FALSE /\ listening' = {}

\* Disconnect, its report aside.
Disconnect ==
  /\ link' = "none" /\ idling' = FALSE
  /\ IF ~Closed /\ idling THEN CloseStop ELSE UNCHANGED <<stopClosed, listening, stopped>>

\* Its report: none from a client that was not connected.
Reported == IF Closed THEN inbox ELSE [inbox EXCEPT !.connected = FALSE]
-----------------------------------------------------------------------------
(* The idle loop. *)

\* runIDLE returns an error: a hard one closes the client, "already running"
\* signals a reconnect, any other changes nothing.
IdleFails ==
  \/ link = "dead" /\ link' = "none" /\ idling' = FALSE /\ UNCHANGED <<mishaps, signal>>
  \/ link = "live" /\ Mishap /\ signal' = TRUE /\ UNCHANGED <<link, idling>>
  \/ link # "live" /\ UNCHANGED <<mishaps, link, idling, signal>>

\* One pass of the select in idleLoop.
Top(l) ==
  /\ ph[l] = "top"
  /\ \/ /\ stopClosed
        /\ Goto(l, "free") /\ idling' = FALSE
        /\ UNCHANGED <<mishaps, link, listening, signal, mode, inbox>>
     \/ /\ signal
        /\ signal' = FALSE
        /\ mode' = [mode EXCEPT ![l] = "signal"]
        /\ Goto(l, "execute")
        /\ UNCHANGED <<mishaps, link, idling, listening, inbox>>
     \/ /\ ~stopClosed /\ ~signal
        /\ \/ /\ link = "live"
              /\ Goto(l, "idle") /\ listening' = listening \cup {l}
              /\ UNCHANGED <<mishaps, link, idling, signal, mode, inbox>>
           \/ /\ IdleFails
              /\ inbox' = [inbox EXCEPT !.idle = FALSE]
              /\ Goto(l, "execute")
              /\ UNCHANGED <<listening, mode>>
  /\ UNCHANGED <<breaker, up, stopClosed, stopped, mu, tries, result>>

\* The select in runIDLE finds its channel closed.
HearStop(l) ==
  /\ ph[l] = "idle" /\ l \in stopped
  /\ stopped' = stopped \ {l}
  /\ Goto(l, "top")
  /\ UNCHANGED <<breaker, up, mishaps, link, idling, stopClosed, listening, signal, mu, mode,
                 tries, result, inbox>>

\* The timer fires in runIDLE: CheckNewMessages.  While idling it stops IDLE,
\* checks, and leaves the restart to a goroutine of safeStartIDLE.  The loop waits
\* for that one only until a timeout, so that it may be back at any time.
TimerFires(l) ==
  /\ ph[l] = "idle"
  /\ Command
  /\ idling' = FALSE
  /\ IF idling
     THEN /\ \E s \in Starters :
               ph[s] = "free" /\ ph' = [ph EXCEPT ![l] = "top", ![s] = "test"]
          /\ stopClosed' = TRUE /\ listening' = {}
          /\ stopped' = (stopped \cup listening) \ {l}
     ELSE /\ Goto(l, "top")
          /\ listening' = listening \ {l} /\ stopped' = stopped \ {l}
          /\ UNCHANGED stopClosed
  /\ UNCHANGED <<breaker, up, mishaps, signal, mu, mode, tries, result, inbox>>

CallOuter(l) ==
  /\ ph[l] = "execute"
  /\ B!CheckState(Outer(l))
  /\ Goto(l, "outer")
  /\ UNCHANGED <<socket, mu, mode, tries, result, inbox>>

BackToTop(l) ==
  /\ Goto(l, "top")
  /\ tries' = [tries EXCEPT ![Outer(l)] = 0]
  /\ mode' = [mode EXCEPT ![l] = "recover"]

\* Execute has returned to performIDLERecovery, or to the signal case.
OuterReturns(l) ==
  /\ ph[l] = "outer" /\ pc[Outer(l)] = "idle"
  /\ IF result[Outer(l)] = "ok" \/ mode[l] = "signal"
     THEN /\ inbox' = IF mode[l] = "recover" THEN [inbox EXCEPT !.idle = TRUE] ELSE inbox
          /\ BackToTop(l)
     ELSE /\ UNCHANGED inbox
          /\ \/ /\ MayRetry(Outer(l))
                /\ tries' = [tries EXCEPT ![Outer(l)] = @ + 1]
                /\ Goto(l, "execute")
                /\ UNCHANGED mode
             \/ /\ ~MayRetry(Outer(l)) \/ result[Outer(l)] = "failed"
                /\ BackToTop(l)
  /\ Forget(Outer(l))
  /\ UNCHANGED <<breaker, socket, mu>>
-----------------------------------------------------------------------------
(* Connect, and reconnectClient for a loop inside its Execute, for the      *)
(* watchdog and for safeStartIDLE.                                          *)

\* The first Connect takes connectingMu.
BeginConnect(s) ==
  /\ ph[s] = "connect"
  /\ mu = NoOne /\ mu' = s
  /\ Goto(s, "attempt")
  /\ UNCHANGED <<breaker, socket, mode, tries, result, inbox>>

\* reconnectClient takes connectingMu and calls Disconnect.
BeginReconnect(g) ==
  /\ \/ g \notin Loops /\ ph[g] = "reconnect"
     \/ g \in Loops /\ ph[g] = "outer" /\ pc[Outer(g)] = "running"
  /\ mu = NoOne /\ mu' = g
  /\ Disconnect /\ inbox' = Reported
  /\ Goto(g, "attempt")
  /\ UNCHANGED <<breaker, up, mishaps, signal, mode, tries, result>>

\* Mutant: connectingMu is given up before the first attempt.
CallInnerUnlocked(g) ==
  /\ ph[g] = "attempt"
  /\ B!CheckState(Inner(g))
  /\ Goto(g, "inner")
  /\ mu' = NoOne
  /\ UNCHANGED <<socket, mode, tries, result, inbox>>

CallInner(g) ==
  /\ ph[g] = "attempt"
  /\ B!CheckState(Inner(g))
  /\ Goto(g, "inner")
  /\ UNCHANGED <<socket, mu, mode, tries, result, inbox>>

\* connectInternal.
Dial(g) ==
  /\ pc[Inner(g)] = "running"
  /\ Record(Inner(g), up)
  /\ link' = IF up THEN "live" ELSE "none"
  /\ idling' = FALSE
  /\ inbox' = IF up THEN [inbox EXCEPT !.connected = TRUE] ELSE inbox
  /\ UNCHANGED <<up, mishaps, stopClosed, listening, stopped, signal, mu, ph, mode, tries>>

\* Mutant: an attempt that fails returns without the deferred unlock.
ReleaseOnSuccess(ok) == mu' = IF ok THEN NoOne ELSE mu

\* The deferred unlock of connectingMu.
Release(ok) == mu' = NoOne

\* Where Connect or reconnectClient leaves its caller.
AfterReconnect(g, ok) ==
  IF ok /\ mode[g] \in {"recover", "restart"} THEN "startIDLE"
  ELSE IF g \in Loops THEN "outer"
  ELSE IF g \in Watchdogs THEN "watch"
  ELSE IF ok THEN "test" ELSE "free"

\* Connect or reconnectClient returns, in a loop to the Execute around it.
ReconnectReturns(g, ok) ==
  /\ Release(ok)
  /\ Goto(g, AfterReconnect(g, ok))
  /\ IF AfterReconnect(g, ok) = "outer" THEN B!RecordResult(Outer(g), ok) ELSE UNCHANGED breaker
  /\ mode' = IF AfterReconnect(g, ok) = "free" THEN [mode EXCEPT ![g] = "restart"] ELSE mode
  /\ result' = [f \in Frames |->
       IF f = Inner(g) THEN "rejected"
       ELSE IF AfterReconnect(g, ok) = "outer" /\ f = Outer(g)
       THEN IF ok THEN "ok" ELSE "failed" ELSE result[f]]

\* Execute has returned to reconnectClient, or to Connect, which does not retry.
InnerReturns(g) ==
  /\ ph[g] = "inner" /\ pc[Inner(g)] = "idle"
  /\ \/ /\ result[Inner(g)] # "ok" /\ mode[g] # "connect" /\ MayRetry(Inner(g))
        /\ tries' = [tries EXCEPT ![Inner(g)] = @ + 1]
        /\ Goto(g, "attempt")
        /\ Forget(Inner(g))
        /\ UNCHANGED <<breaker, mu, mode>>
     \/ /\ \/ result[Inner(g)] \in {"ok", "failed"}   \* not every failure is retried
           \/ mode[g] = "connect" \/ ~MayRetry(Inner(g))
        /\ ReconnectReturns(g, result[Inner(g)] = "ok")
        /\ tries' = [tries EXCEPT ![Inner(g)] = 0]
  /\ UNCHANGED <<socket, inbox>>
-----------------------------------------------------------------------------
(* StartIDLE and resetConnection. *)

\* Where StartIDLE leaves its caller.
AfterStart(g, ok) ==
  IF g \in Loops THEN "outer"
  ELSE IF g \in Watchdogs THEN "watch"
  ELSE IF mode[g] # "connect" THEN "free"
  ELSE IF ok THEN "started" ELSE "retry"

\* StartIDLE returns, out of the resetConnection it has called if there is one.
StartReturns(g, ok) ==
  /\ mu' = IF mu = g THEN NoOne ELSE mu
  /\ IF g \in Loops THEN Record(Outer(g), ok) ELSE UNCHANGED <<breaker, result>>
  /\ mode' = IF AfterStart(g, ok) = "free" THEN [mode EXCEPT ![g] = "restart"] ELSE mode

\* It spawns the next idle loop.
StartIDLE(g) ==
  /\ ph[g] = "startIDLE" /\ link = "live" /\ ~idling
  /\ idling' = TRUE /\ NewStop
  /\ LET free == {l \in Loops : ph[l] = "free"}
     IN IF free = {} THEN Goto(g, AfterStart(g, TRUE))
        ELSE \E l \in free : ph' = [ph EXCEPT ![g] = AfterStart(g, TRUE), ![l] = "top"]
  /\ StartReturns(g, TRUE)
  /\ UNCHANGED <<up, mishaps, link, stopped, signal, tries, inbox>>

\* Not connected, or Select fails on a connection that is gone.
StartFails(g) ==
  /\ ph[g] = "startIDLE" /\ link # "live" /\ ~idling
  /\ IF Closed THEN UNCHANGED <<stopClosed, listening>> ELSE NewStop
  /\ Goto(g, AfterStart(g, FALSE))
  /\ StartReturns(g, FALSE)
  /\ UNCHANGED <<up, mishaps, link, idling, stopped, signal, tries, inbox>>

\* "IDLE already running".  Inside the resetConnection of another StartIDLE, that
\* one's deferred function resets idling.  safeStartIDLE answers with a
\* resetConnection of its own.
StartRefused(g) ==
  /\ ph[g] = "startIDLE" /\ idling
  /\ idling' = ~(mu = g /\ mode[g] # "redo")
  /\ IF mode[g] = "restart"
     THEN /\ Goto(g, "reset")
          /\ mode' = [mode EXCEPT ![g] = "redo"]
          /\ mu' = IF mu = g THEN NoOne ELSE mu
          /\ UNCHANGED <<breaker, result>>
     ELSE Goto(g, AfterStart(g, FALSE)) /\ StartReturns(g, FALSE)
  /\ UNCHANGED <<up, mishaps, link, stopClosed, listening, stopped, signal, tries, inbox>>

\* The server refuses the test IDLE as already running: on to resetConnection,
\* with the mutex in hand when this is the StartIDLE of a resetConnection.
ServerRefuses(g) ==
  /\ ph[g] = "startIDLE" /\ link = "live" /\ ~idling /\ Mishap
  /\ idling' = TRUE /\ NewStop
  /\ Goto(g, "reset")
  /\ UNCHANGED <<breaker, up, link, stopped, signal, mu, mode, tries, result, inbox>>

\* resetConnection takes connectingMu and drops the connection, without closing
\* the stop channel and without a report.
ForceClose(g) ==
  /\ ph[g] = "reset"
  /\ mu = NoOne /\ mu' = g
  /\ link' = "none" /\ idling' = FALSE
  /\ Goto(g, "redial")
  /\ UNCHANGED <<breaker, up, mishaps, stopClosed, listening, stopped, signal, mode, tries,
                 result, inbox>>

\* Its connectInternal, outside of the breaker, and on to StartIDLE.
Redial(g) ==
  /\ ph[g] = "redial"
  /\ IF up
     THEN /\ link' = "live" /\ inbox' = [inbox EXCEPT !.connected = TRUE]
          /\ Goto(g, "startIDLE")
          /\ UNCHANGED <<breaker, result, mu, mode>>
     ELSE /\ link' = "none" /\ UNCHANGED inbox
          /\ Goto(g, AfterStart(g, FALSE))
          /\ StartReturns(g, FALSE)
  /\ idling' = FALSE
  /\ UNCHANGED <<up, mishaps, stopClosed, listening, stopped, signal, tries>>

\* A goroutine that waits for the mutex it holds itself.
SelfLocked(g) == ph[g] = "reset" /\ mu = g
-----------------------------------------------------------------------------
(* Connect of the connector, safeStartIDLE and the periodic sync. *)

\* TestConnection.
Test(s) ==
  /\ ph[s] = "test"
  /\ Command /\ idling' = (idling /\ link' = link)
  /\ Goto(s, IF link = "live" THEN "startIDLE"
             ELSE IF mode[s] = "connect" THEN "retry" ELSE "reconnect")
  /\ UNCHANGED <<breaker, up, mishaps, stopClosed, listening, stopped, signal, mu, mode, tries,
                 result, inbox>>

\* startIDLEWithRetry tries again, or Connect gives up.
Retry(s) ==
  /\ ph[s] = "retry"
  /\ \/ /\ MayRetry(Inner(s))
        /\ tries' = [tries EXCEPT ![Inner(s)] = @ + 1]
        /\ Goto(s, "test")
        /\ UNCHANGED <<link, idling, stopClosed, listening, stopped, mode, inbox>>
     \/ /\ Disconnect /\ inbox' = [Reported EXCEPT !.idle = FALSE]
        /\ tries' = [tries EXCEPT ![Inner(s)] = 0]
        /\ mode' = [mode EXCEPT ![s] = "restart"]
        /\ Goto(s, "free")
  /\ UNCHANGED <<breaker, up, mishaps, signal, mu, result>>

\* Connect reports idle_started.  Its watchdog is registered if the client is
\* connected when RegistrationWaitTime is over, and never otherwise.
Started(s) ==
  /\ ph[s] = "started"
  /\ inbox' = [inbox EXCEPT !.idle = TRUE]
  /\ \E place \in {"watch", "free"} :
       ph' = [g \in Goroutines |-> IF g \in Watchdogs /\ ph[g] = "free" THEN place
                                  ELSE IF g = s THEN "free" ELSE ph[g]]
  /\ mode' = [mode EXCEPT ![s] = "restart"]
  /\ tries' = [tries EXCEPT ![Inner(s)] = 0]
  /\ UNCHANGED <<breaker, socket, mu, result>>

\* A periodic sync interrupts IDLE for its check, and restarts it.
Sync(s) ==
  /\ ph[s] = "free" /\ (\A t \in Starters : mode[t] # "connect")
  /\ idling /\ Mishap /\ Command
  /\ idling' = FALSE /\ CloseStop
  /\ Goto(s, "test")
  /\ UNCHANGED <<breaker, up, signal, mu, mode, tries, result, inbox>>
-----------------------------------------------------------------------------
(* The watchdog. *)

\* Mutant: the watchdog does not probe a client that says it is connected.
WatchUnprobed(d) ==
  /\ ph[d] = "watch" /\ Closed
  /\ Goto(d, "reconnect")
  /\ UNCHANGED <<breaker, socket, mu, mode, tries, result, inbox>>

\* A tick of the watchdog that finds the connection gone or dead.
Watch(d) ==
  /\ ph[d] = "watch" /\ link # "live"
  /\ Command /\ idling' = (idling /\ link' = link)
  /\ Goto(d, "reconnect")
  /\ UNCHANGED <<breaker, up, mishaps, stopClosed, listening, stopped, signal, mu, mode, tries,
                 result, inbox>>
-----------------------------------------------------------------------------
LoopStep(l) == \/ Top(l) \/ HearStop(l) \/ TimerFires(l)
               \/ CallOuter(l) \/ Proceed(Outer(l)) \/ OuterReturns(l)

StarterStep(s) == Test(s) \/ Retry(s) \/ Started(s)

ReconnectStep(g) == CallInner(g) \/ Proceed(Inner(g)) \/ Dial(g) \/ InnerReturns(g)

StartStep(g) == StartIDLE(g) \/ StartFails(g) \/ StartRefused(g) \/ ServerRefuses(g) \/ Redial(g)

\* A goroutine locks connectingMu.
Lock(g) == (g \in Starters /\ BeginConnect(g)) \/ BeginReconnect(g) \/ ForceClose(g)

\* What a goroutine does next; it can always, but where it has to wait for the mutex.
Step(g) == \/ g \in Loops /\ LoopStep(g)
           \/ g \in Starters /\ StarterStep(g)
           \/ Lock(g) \/ ReconnectStep(g) \/ StartStep(g)

Next ==
  \/ NetworkFails \/ NetworkReturns \/ TimeoutElapses
  \/ \E s \in Starters : Sync(s)
  \/ \E d \in Watchdogs : Watch(d)
  \/ \E g \in Goroutines : Step(g)

\* The scheduler runs every goroutine, sync.Mutex starves no one, timers fire.
\* How often the periodic sync interrupts is left open.
Fairness ==
  /\ WF_vars(TimeoutElapses)
  /\ \A d \in Watchdogs : WF_vars(Watch(d))
  /\ \A g \in Goroutines : SF_vars(Step(g))

Spec == Init /\ [][Next]_vars /\ Fairness
-----------------------------------------------------------------------------
\* Every field has its type.
TypeOK ==
  /\ B!TypeOK
  /\ up \in BOOLEAN /\ mishaps \in 0..MaxMishaps
  /\ link \in {"none", "live", "dead"} /\ idling \in BOOLEAN
  /\ stopClosed \in BOOLEAN /\ listening \subseteq Loops /\ stopped \subseteq Loops
  /\ signal \in BOOLEAN
  /\ mu \in Goroutines \cup {NoOne}
  /\ ph \in [Goroutines -> Places] /\ mode \in [Goroutines -> Modes]
  /\ tries \in [Frames -> 0..(MaxAttempts - 1)]
  /\ result \in [Frames -> {"ok", "failed", "rejected"}]
  /\ inbox \in [connected : BOOLEAN, idle : BOOLEAN]

\* The breaker keeps what it promises although reconnects call Execute within
\* Execute and leave it in any order: no slot is lost for good, and once every
\* frame is out of Execute the next reconnect is admitted as a probe.
BreakerNotWedged == B!CounterTracksHolders /\ B!HalfOpenAdmits

\* Whoever dials, for Connect, reconnectClient or resetConnection, or waits for the
\* breaker to dial, holds connectingMu: a connection is never dialled twice at once
\* ("prevent concurrent reconnect attempts").  Who holds it is inside one of the
\* three, StartIDLE called by resetConnection included: it is never left locked
\* behind.  A loop in there is inside the Execute its result has to be reported to.
OneReconnectAtATime ==
  /\ \A g \in Goroutines :
       /\ ph[g] \in {"attempt", "inner", "redial"} => mu = g
       /\ mu = g => ph[g] \in {"attempt", "inner", "redial", "startIDLE", "reset"}
       /\ pc[Inner(g)] # "idle" => ph[g] = "inner"
  /\ \A l \in Loops : ph[l] \in {"attempt", "inner", "redial", "startIDLE", "reset"}
                      => pc[Outer(l)] = "running"

\* connectingMu comes free again, but for one case: a resetConnection whose own
\* StartIDLE is refused by the server once more locks it twice.  A loop keeps its
\* half-open slot while it waits for the mutex, and the mutex while it waits for
\* the breaker, and nobody waits for ever for that.
ConnectingReleased == []<>(mu = NoOne \/ \E g \in Goroutines : SelfLocked(g))

\* The watchdog is registered and nobody has locked connectingMu twice.
Watched == /\ \E d \in Watchdogs : ph[d] # "free"
           /\ ~\E g \in Goroutines : SelfLocked(g)

\* While the breaker stays closed, a working network brings a watched connection back.
ReconnectsWhileClosed == <>[](Watched /\ up /\ state = "closed") => []<>(link = "live")

\* A watched connection that stays down is not reported as connected for ever.
\* (One without a watchdog is: its loop may exit on a closed stop channel.)
DownIsReported == <>[](Watched /\ Closed) => []<>(Status # "connected")

\* "circuit breaker auto-recovery after network failures": while an idle loop
\* lives to try, and can lock connectingMu, a working network brings the connection back.
LoopReconnects ==
  <>[](/\ up /\ \E l \in Loops : ph[l] # "free"
       /\ ~\E g \in Goroutines : SelfLocked(g)) => []<>(link = "live")
=============================================================================
