--------------------------- MODULE CircuitBreaker ---------------------------
(***************************************************************************)
(* pkg/reliability/circuit_breaker.go: the breaker that guards every IMAP  *)
(* (re)connect.  Goroutines call Execute concurrently; Execute takes and   *)
(* drops cb.mu several times and touches the half-open counter with        *)
(* atomics, so every stretch of code between two of those points is one    *)
(* action here.                                                            *)
(*                                                                         *)
(* Time is abstracted to one bit: `cooled' says that                       *)
(* time.Since(cb.lastFailureTime) > cb.timeout.  The read-only check and   *)
(* the first time.Since test of checkStateAndIncrement are one step: the   *)
(* test is repeated under the write lock, so a later test of an older      *)
(* snapshot admits nothing that an equally late snapshot would not.        *)
(***************************************************************************)
EXTENDS Integers, FiniteSets

CONSTANTS Callers,              \* the goroutines that call Execute
          MaxFailures,          \* cb.maxFailures
          MaxHalfOpenRequests   \* cb.maxHalfOpenRequests

ASSUME CallersFinite == IsFiniteSet(Callers)
ASSUME LimitsPositive == /\ MaxFailures \in Nat \ {0}
                         /\ MaxHalfOpenRequests \in Nat \ {0}

VARIABLES
  state,             \* cb.state
  failures,          \* cb.failures; only compared with MaxFailures, so it saturates there
  cooled,            \* time.Since(cb.lastFailureTime) > cb.timeout
  halfOpenRequests,  \* the atomic counter
  pc,                \* where each caller is in Execute
  counted,           \* shouldDecrement: the caller's deferred function will decrement
  toReport,          \* the state a caller is about to hand to the callback, or "none"
  reported           \* the state the callback was last given

breakerVars == <<state, failures, cooled, halfOpenRequests, pc, counted,
                 toReport, reported>>

States == {"closed", "half_open", "open"}

Steps == {"idle",        \* not in Execute
          "transition",  \* saw Open past its timeout, about to take the write lock
          "tellHalf",    \* made it HalfOpen, unlocked, about to call the callback
          "relock",      \* callback done, about to re-acquire the write lock
          "admit",       \* about to increment the half-open counter
          "overLimit",   \* incremented past the limit, about to decrement back
          "running",     \* inside fn()
          "tell",        \* recorded the result, unlocked, about to call the callback
          "leave"}       \* about to run the deferred decrement

\* Callers that have incremented the half-open counter and not yet undone it.
Holders == {c \in Callers : counted[c] \/ pc[c] = "overLimit"}

N == Cardinality(Callers)
-----------------------------------------------------------------------------
Init ==
  /\ state = "closed" /\ failures = 0 /\ cooled = TRUE
  /\ halfOpenRequests = 0
  /\ pc = [c \in Callers |-> "idle"]
  /\ counted = [c \in Callers |-> FALSE]
  /\ toReport = [c \in Callers |-> "none"]
  /\ reported = "closed"

Goto(c, s) == pc' = [pc EXCEPT ![c] = s]

\* Execute returns its error without having run fn.
Reject(c) == Goto(c, "idle")

\* Execute starts: the quick read-only check of checkStateAndIncrement.
CheckState(c) ==
  /\ pc[c] = "idle"
  /\ \/ state = "closed" /\ Goto(c, "running")
     \/ state = "half_open" /\ Goto(c, "admit")
     \/ state = "open" /\ cooled /\ Goto(c, "transition")
     \/ state = "open" /\ ~cooled /\ Reject(c)
  /\ UNCHANGED <<state, failures, cooled, halfOpenRequests, counted, toReport, reported>>

\* What follows `currentState = cb.state' under the write lock: still Open is
\* an error, HalfOpen and Closed alike fall through to the counter.
UseCurrentState(c) ==
  IF state = "open" THEN Reject(c) ELSE Goto(c, "admit")

\* Mutant: the transition counts its own probe, which then increments again.
TryHalfOpenCountsItself(c) ==
  /\ pc[c] = "transition"
  /\ IF state = "open" /\ cooled
     THEN /\ state' = "half_open"
          /\ halfOpenRequests' = 1
          /\ toReport' = [toReport EXCEPT ![c] = "half_open"]
          /\ Goto(c, "tellHalf")
     ELSE /\ UseCurrentState(c)
          /\ UNCHANGED <<state, halfOpenRequests, toReport>>
  /\ UNCHANGED <<failures, cooled, counted, reported>>

\* The double-check under the write lock.
TryHalfOpen(c) ==
  /\ pc[c] = "transition"
  /\ IF state = "open" /\ cooled
     THEN /\ state' = "half_open"
          /\ halfOpenRequests' = 0
          /\ toReport' = [toReport EXCEPT ![c] = "half_open"]
          /\ Goto(c, "tellHalf")
     ELSE /\ UseCurrentState(c)
          /\ UNCHANGED <<state, halfOpenRequests, toReport>>
  /\ UNCHANGED <<failures, cooled, counted, reported>>

\* Mutant: every notification after a result runs although no state is to be told.
NotifyAfterResult(c) ==
  /\ \/ pc[c] = "tellHalf" /\ Goto(c, "relock")
     \/ pc[c] \in {"tell", "leave"} /\ Goto(c, "leave")
  /\ reported' = toReport[c]
  /\ toReport' = [toReport EXCEPT ![c] = "none"]
  /\ UNCHANGED <<state, failures, cooled, halfOpenRequests, counted>>

\* The callback, called between the unlock and whatever comes next.
Notify(c) ==
  /\ \/ pc[c] = "tellHalf" /\ Goto(c, "relock")
     \/ pc[c] = "tell" /\ Goto(c, "leave")
  /\ reported' = toReport[c]
  /\ toReport' = [toReport EXCEPT ![c] = "none"]
  /\ UNCHANGED <<state, failures, cooled, halfOpenRequests, counted>>

Relock(c) ==
  /\ pc[c] = "relock"
  /\ UseCurrentState(c)
  /\ UNCHANGED <<state, failures, cooled, halfOpenRequests, counted, toReport, reported>>

\* atomic.AddInt32(&cb.halfOpenRequests, 1) and the test of its result.
Increment(c) ==
  /\ pc[c] = "admit"
  /\ halfOpenRequests' = halfOpenRequests + 1
  /\ IF halfOpenRequests + 1 > MaxHalfOpenRequests
     THEN Goto(c, "overLimit") /\ UNCHANGED counted
     ELSE Goto(c, "running") /\ counted' = [counted EXCEPT ![c] = TRUE]
  /\ UNCHANGED <<state, failures, cooled, toReport, reported>>

\* Over the limit: decrement back and reject.
UndoIncrement(c) ==
  /\ pc[c] = "overLimit"
  /\ halfOpenRequests' = halfOpenRequests - 1
  /\ Reject(c)
  /\ UNCHANGED <<state, failures, cooled, counted, toReport, reported>>

\* Mutant: a success closes the breaker and leaves the count.
FailuresNotCleared(ok) ==
  IF ~ok /\ failures < MaxFailures THEN failures + 1 ELSE failures

\* cb.failures after a result.
FailuresAfter(ok) ==
  IF ok THEN 0 ELSE IF failures < MaxFailures THEN failures + 1 ELSE failures

\* cb.state after a result.
StateAfter(ok) ==
  IF ok THEN "closed" ELSE IF failures + 1 >= MaxFailures THEN "open" ELSE state

\* fn() returned ok or an error: recordResult, up to its unlock.
RecordResult(c, ok) ==
  /\ pc[c] = "running"
  /\ failures' = FailuresAfter(ok)
  /\ state' = StateAfter(ok)
  /\ cooled' = (ok /\ cooled)
  /\ halfOpenRequests' = IF state = "half_open" /\ state' # "half_open"
                         THEN 0 ELSE halfOpenRequests
  /\ toReport' = [toReport EXCEPT ![c] = IF state' # state THEN state' ELSE "none"]
  /\ Goto(c, IF state' # state THEN "tell" ELSE "leave")
  /\ UNCHANGED <<counted, reported>>

\* Mutant: it decrements whether or not this call has incremented.
LeaveAlwaysDecrements(c) ==
  /\ pc[c] = "leave"
  /\ halfOpenRequests' = halfOpenRequests - 1
  /\ counted' = [counted EXCEPT ![c] = FALSE]
  /\ Goto(c, "idle")
  /\ UNCHANGED <<state, failures, cooled, toReport, reported>>

\* Execute's deferred function, and its return.
Leave(c) ==
  /\ pc[c] = "leave"
  /\ halfOpenRequests' = IF counted[c] THEN halfOpenRequests - 1 ELSE halfOpenRequests
  /\ counted' = [counted EXCEPT ![c] = FALSE]
  /\ Goto(c, "idle")
  /\ UNCHANGED <<state, failures, cooled, toReport, reported>>

\* cb.timeout has passed since the last failure.
TimeoutElapses ==
  /\ ~cooled
  /\ cooled' = TRUE
  /\ UNCHANGED <<state, failures, halfOpenRequests, pc, counted, toReport, reported>>

\* The manual Reset; it calls no callback.
Reset ==
  /\ state' = "closed" /\ failures' = 0 /\ halfOpenRequests' = 0
  /\ UNCHANGED <<cooled, pc, counted, toReport, reported>>

\* One step of an Execute call after it has been made, the result of fn aside.
Proceed(c) == \/ TryHalfOpen(c) \/ Notify(c) \/ Relock(c)
              \/ Increment(c) \/ UndoIncrement(c) \/ Leave(c)

ExecuteNext ==
  \/ \E c \in Callers : \/ CheckState(c)
                        \/ Proceed(c)
                        \/ \E ok \in BOOLEAN : RecordResult(c, ok)
  \/ TimeoutElapses

Next == ExecuteNext \/ Reset

Spec == Init /\ [][Next]_breakerVars

\* The scheduler runs every goroutine, fn always returns (every dial and
\* command in it has a deadline), callers come back (the retry loops) and
\* the clock advances.
Fairness ==
  /\ \A c \in Callers : /\ WF_breakerVars(CheckState(c))
                        /\ WF_breakerVars(Proceed(c))
                        /\ WF_breakerVars(\E ok \in BOOLEAN : RecordResult(c, ok))
  /\ WF_breakerVars(TimeoutElapses)

FairSpec == Spec /\ Fairness

\* The calls the bridge makes: Reset has no caller outside the tests.
BridgeSpec == Init /\ [][ExecuteNext]_breakerVars
-----------------------------------------------------------------------------
\* Every field has its type; the counter is a signed integer and does go negative.
TypeOK ==
  /\ state \in States
  /\ failures \in 0..MaxFailures
  /\ cooled \in BOOLEAN
  /\ halfOpenRequests \in Int
  /\ pc \in [Callers -> Steps]
  /\ counted \in [Callers -> BOOLEAN]
  /\ toReport \in [Callers -> States \cup {"none"}]
  /\ reported \in States

\* The breaker leaves Closed exactly when the failure count is at its limit:
\* recordResult never clears the count without closing and never opens below
\* the limit, whatever results arrive late from calls admitted earlier.  It
\* is why one failed probe re-opens at once.
ClosedIffBelowLimit == state = "closed" <=> failures < MaxFailures

\* A caller that is to decrement is inside fn or on its way out of Execute.
CountedInside ==
  \A c \in Callers : counted[c] => pc[c] \in {"running", "tell", "leave"}

\* A caller about to call the callback has a state to give it.
ReportReady ==
  \A c \in Callers : pc[c] \in {"tellHalf", "tell"} => toReport[c] # "none"

\* The atomic counter and the callers that hold a slot.  The counter is
\* zeroed while slots are held (leaving HalfOpen, entering it, Reset), so it
\* may fall short of the holders, but never by more than there are callers,
\* and it never exceeds them.
CounterTracksHolders ==
  /\ halfOpenRequests <= Cardinality(Holders)
  /\ halfOpenRequests >= Cardinality(Holders) - N

\* The breaker cannot wedge in HalfOpen: when no call is inside Execute the
\* next one is admitted as a probe.
HalfOpenAdmits ==
  (state = "half_open" /\ \A c \in Callers : pc[c] = "idle")
     => halfOpenRequests < MaxHalfOpenRequests

\* Recovery: if from some moment on no call fails, the breaker closes for good.
AutoRecovery ==
  <>[][\A c \in Callers : ~RecordResult(c, FALSE)]_breakerVars => <>[](state = "closed")
=============================================================================
