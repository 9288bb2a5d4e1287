------------------------- MODULE ImapRecoveryProofs -------------------------
(***************************************************************************)
(* Proofs about ImapRecovery, for any finite sets of idle loops, watchdogs *)
(* and starters, any number of attempts and mishaps, and any limits of the *)
(* breaker.  The goroutines drive the breaker only by its own steps, so    *)
(* that ImapRecovery implements CircuitBreaker with their call frames as   *)
(* callers, and what CircuitBreakerProofs proves holds here too: Execute   *)
(* nested in Execute may starve a probe but cannot corrupt the breaker.    *)
(***************************************************************************)
EXTENDS ImapRecovery, FiniteSetTheorems, TLAPS

P == INSTANCE CircuitBreakerProofs WITH Callers <- Frames

\* The types of what is not the breaker's.
OwnTypes ==
  /\ up \in BOOLEAN /\ mishaps \in 0..MaxMishaps
  /\ link \in {"none", "live", "dead"} /\ idling \in BOOLEAN
  /\ stopClosed \in BOOLEAN /\ listening \subseteq Loops /\ stopped \subseteq Loops
  /\ signal \in BOOLEAN
  /\ mu \in Goroutines \cup {NoOne}
  /\ ph \in [Goroutines -> Places] /\ mode \in [Goroutines -> Modes]
  /\ tries \in [Frames -> 0..(MaxAttempts - 1)]
  /\ result \in [Frames -> {"ok", "failed", "rejected"}]
  /\ inbox \in [connected : BOOLEAN, idle : BOOLEAN]
-----------------------------------------------------------------------------
(* The frames are callers of the breaker. *)

\* Every loop has two frames, every watchdog and every starter one.
LEMMA FramesOf ==
  /\ \A l \in Loops : l \in Goroutines /\ Outer(l) \in Frames
  /\ \A g \in Goroutines : Inner(g) \in Frames
  /\ Watchdogs \subseteq Goroutines /\ Starters \subseteq Goroutines
BY DEF Frames, Goroutines

\* There are finitely many of them.
LEMMA FramesFinite == IsFiniteSet(Frames)
<1>1. IsFiniteSet(Goroutines)
  <2>1. IsFiniteSet(Loops \cup Watchdogs)  BY GoroutinesFinite, FS_Union
  <2>2. QED  BY <2>1, GoroutinesFinite, FS_Union DEF Goroutines
<1>2. IsFiniteSet({"outer", "inner"})
  <2>1. IsFiniteSet({"outer"}) /\ IsFiniteSet({"inner"})  BY FS_Singleton
  <2>2. {"outer", "inner"} = {"outer"} \cup {"inner"}  OBVIOUS
  <2>3. QED  BY <2>1, <2>2, FS_Union
<1>3. IsFiniteSet(Goroutines \X {"outer", "inner"})  BY <1>1, <1>2, FS_Product
<1>4. Frames \subseteq Goroutines \X {"outer", "inner"}
  BY DEF Frames, Outer, Inner, Goroutines
<1>5. QED  BY <1>3, <1>4, FS_Subset

\* So the breaker's assumptions hold of them.
LEMMA BreakerAssumptions == P!CallersFinite /\ P!LimitsPositive
<1>1. P!CallersFinite  BY FramesFinite DEF P!CallersFinite, P!IsFiniteSet, IsFiniteSet
<1>2. P!LimitsPositive  BY BreakerLimits DEF P!LimitsPositive
<1>3. QED  BY <1>1, <1>2

\* The steps of the instance the model drives are those the proofs are about.
LEMMA SameBreaker ==
  /\ B!Init = P!Init /\ B!TimeoutElapses = P!TimeoutElapses
  /\ \A f \in Frames : /\ B!CheckState(f) = P!CheckState(f)
                       /\ B!Proceed(f) = P!Proceed(f)
                       /\ \A ok \in BOOLEAN : B!RecordResult(f, ok) = P!RecordResult(f, ok)
<1>1. B!Init = P!Init  BY DEF B!Init, P!Init
<1>2. B!TimeoutElapses = P!TimeoutElapses  BY DEF B!TimeoutElapses, P!TimeoutElapses
<1>3. ASSUME NEW f \in Frames
      PROVE  /\ B!CheckState(f) = P!CheckState(f)
             /\ B!Proceed(f) = P!Proceed(f)
             /\ \A ok \in BOOLEAN : B!RecordResult(f, ok) = P!RecordResult(f, ok)
  <2>1. B!CheckState(f) = P!CheckState(f)
    BY DEF B!CheckState, P!CheckState, B!Goto, P!Goto, B!Reject, P!Reject
  <2>2. B!Proceed(f) = P!Proceed(f)
    BY DEF B!Proceed, P!Proceed, B!TryHalfOpen, P!TryHalfOpen, B!Notify, P!Notify,
           B!Relock, P!Relock, B!Increment, P!Increment, B!UndoIncrement, P!UndoIncrement,
           B!Leave, P!Leave, B!UseCurrentState, P!UseCurrentState,
           B!Goto, P!Goto, B!Reject, P!Reject
  <2>3. \A ok \in BOOLEAN : B!RecordResult(f, ok) = P!RecordResult(f, ok)
    BY DEF B!RecordResult, P!RecordResult, B!FailuresAfter, P!FailuresAfter,
           B!StateAfter, P!StateAfter, B!Goto, P!Goto
  <2>4. QED  BY <2>1, <2>2, <2>3
<1>4. QED  BY <1>1, <1>2, <1>3
-----------------------------------------------------------------------------
(* Types. *)

\* Release always frees the mutex, and what a frame returned is known.
LEMMA ReturnTypes ==
  ASSUME OwnTypes, NEW g \in Goroutines, NEW ok \in BOOLEAN, ReconnectReturns(g, ok)
  PROVE  /\ mu' = NoOne
         /\ \E s \in {"startIDLE", "outer", "watch", "test", "free"} : ph' = [ph EXCEPT ![g] = s]
         /\ mode' \in [Goroutines -> Modes]
         /\ result' \in [Frames -> {"ok", "failed", "rejected"}]
<1>1. mu' = NoOne  BY DEF ReconnectReturns, Release
<1>2. \E s \in {"startIDLE", "outer", "watch", "test", "free"} : ph' = [ph EXCEPT ![g] = s]
  BY DEF ReconnectReturns, Goto, AfterReconnect
<1>3. mode' \in [Goroutines -> Modes]
  <2>1. mode' = mode \/ mode' = [mode EXCEPT ![g] = "restart"]  BY DEF ReconnectReturns
  <2>2. QED  BY <2>1 DEF OwnTypes, Modes
<1>4. result' \in [Frames -> {"ok", "failed", "rejected"}]
  BY DEF ReconnectReturns, OwnTypes
<1>5. QED  BY <1>1, <1>2, <1>3, <1>4

\* StartIDLE lets go of the mutex, and leaves a place, a mode and a result.
LEMMA StartTypes ==
  ASSUME OwnTypes, NEW g \in Goroutines, NEW ok \in BOOLEAN, StartReturns(g, ok)
  PROVE  /\ AfterStart(g, ok) \in {"outer", "watch", "free", "started", "retry"}
         /\ mu' = IF mu = g THEN NoOne ELSE mu
         /\ mode' \in [Goroutines -> Modes]
         /\ result' \in [Frames -> {"ok", "failed", "rejected"}]
<1>1. AfterStart(g, ok) \in {"outer", "watch", "free", "started", "retry"}  BY DEF AfterStart
<1>2. mode' \in [Goroutines -> Modes]
  <2>1. mode' = mode \/ mode' = [mode EXCEPT ![g] = "restart"]  BY DEF StartReturns
  <2>2. QED  BY <2>1 DEF OwnTypes, Modes
<1>3. result' \in [Frames -> {"ok", "failed", "rejected"}]
  BY DEF StartReturns, Record, OwnTypes
<1>4. QED  BY <1>1, <1>2, <1>3 DEF StartReturns

\* Every step keeps the types of what is not the breaker's.
LEMMA OwnStep ==
  ASSUME OwnTypes, [Next]_vars
  PROVE  OwnTypes'
<1> USE AttemptsPositive, MishapsBounded, FramesOf DEF OwnTypes, Goto, socket
<1>0. ASSUME Mishap  PROVE mishaps' \in 0..MaxMishaps  BY <1>0 DEF Mishap
<1>1. ASSUME NetworkFails  PROVE OwnTypes'
  <2>1. up' = FALSE /\ mishaps' \in 0..MaxMishaps  BY <1>0, <1>1 DEF NetworkFails
  <2>2. link' = link \/ link' = "dead"  BY <1>1 DEF NetworkFails
  <2>3. UNCHANGED <<idling, stopClosed, listening, stopped, signal, mu, ph, mode, tries,
                    result, inbox>>
    BY <1>1 DEF NetworkFails
  <2>4. QED  BY <2>1, <2>2, <2>3
<1>2. ASSUME NetworkReturns  PROVE OwnTypes'
  BY <1>2 DEF NetworkReturns
<1>3. ASSUME TimeoutElapses  PROVE OwnTypes'
  BY <1>3 DEF TimeoutElapses
<1>4. ASSUME NEW l \in Loops, Top(l)  PROVE OwnTypes'
  <2>1. UNCHANGED <<up, stopClosed, stopped, mu, tries, result>>  BY <1>4 DEF Top
  <2>2. mishaps' \in 0..MaxMishaps /\ idling' \in BOOLEAN /\ signal' \in BOOLEAN
        /\ link' \in {"none", "live", "dead"}
    BY <1>0, <1>4 DEF Top, IdleFails
  <2>3. listening' \subseteq Loops /\ inbox' \in [connected : BOOLEAN, idle : BOOLEAN]
    BY <1>4 DEF Top
  <2>4. \E s \in {"free", "execute", "idle"} : ph' = [ph EXCEPT ![l] = s]  BY <1>4 DEF Top
  <2>5. mode' = mode \/ mode' = [mode EXCEPT ![l] = "signal"]  BY <1>4 DEF Top
  <2>6. ph' \in [Goroutines -> Places] /\ mode' \in [Goroutines -> Modes]
    BY <2>4, <2>5 DEF Places, Modes
  <2>7. QED  BY <2>1, <2>2, <2>3, <2>6
<1>5. ASSUME NEW l \in Loops, HearStop(l)  PROVE OwnTypes'
  BY <1>5 DEF HearStop, Places
<1>6. ASSUME NEW l \in Loops, TimerFires(l)  PROVE OwnTypes'
  <2>1. UNCHANGED <<up, mishaps, signal, mu, mode, tries, result, inbox>> /\ idling' = FALSE
    BY <1>6 DEF TimerFires
  <2>2. link' \in {"none", "live", "dead"}  BY <1>6 DEF TimerFires, Command
  <2>3. stopClosed' \in BOOLEAN /\ listening' \subseteq Loops /\ stopped' \subseteq Loops
    BY <1>6 DEF TimerFires
  <2>4. \/ ph' = [ph EXCEPT ![l] = "top"]
        \/ \E s \in Starters : ph' = [ph EXCEPT ![l] = "top", ![s] = "test"]
    BY <1>6 DEF TimerFires
  <2>5. ph' \in [Goroutines -> Places]  BY <2>4 DEF Places
  <2>6. QED  BY <2>1, <2>2, <2>3, <2>5
<1>7. ASSUME NEW l \in Loops, CallOuter(l)  PROVE OwnTypes'
  BY <1>7 DEF CallOuter, Places
<1>8. ASSUME NEW f \in Frames, Proceed(f)  PROVE OwnTypes'
  BY <1>8 DEF Proceed
<1>9. ASSUME NEW l \in Loops, OuterReturns(l)  PROVE OwnTypes'
  <2>1. result' = [result EXCEPT ![Outer(l)] = "rejected"] /\ UNCHANGED <<socket, mu>>
    BY <1>9 DEF OuterReturns, Forget
  <2>2. inbox' = inbox \/ inbox' = [inbox EXCEPT !.idle = TRUE]  BY <1>9 DEF OuterReturns
  <2>3. \/ ph' = [ph EXCEPT ![l] = "top"] /\ mode' = [mode EXCEPT ![l] = "recover"]
        \/ ph' = [ph EXCEPT ![l] = "execute"] /\ mode' = mode
    BY <1>9 DEF OuterReturns, BackToTop
  <2>4. \/ tries' = [tries EXCEPT ![Outer(l)] = 0]
        \/ tries' = [tries EXCEPT ![Outer(l)] = @ + 1] /\ tries[Outer(l)] < MaxAttempts - 1
    BY <1>9 DEF OuterReturns, BackToTop, MayRetry
  <2>5. tries' \in [Frames -> 0..(MaxAttempts - 1)]  BY <2>4
  <2>6. ph' \in [Goroutines -> Places] /\ mode' \in [Goroutines -> Modes]
    BY <2>3 DEF Places, Modes
  <2>7. QED  BY <2>1, <2>2, <2>5, <2>6
<1>10. ASSUME NEW g \in Goroutines, BeginReconnect(g)  PROVE OwnTypes'
  <2>1. /\ mu' = g /\ ph' = [ph EXCEPT ![g] = "attempt"]
        /\ UNCHANGED <<up, mishaps, signal, mode, tries, result>>
    BY <1>10 DEF BeginReconnect
  <2>2. /\ link' \in {"none", "live", "dead"} /\ idling' \in BOOLEAN
        /\ stopClosed' \in BOOLEAN /\ listening' \subseteq Loops /\ stopped' \subseteq Loops
    BY <1>10 DEF BeginReconnect, Disconnect, CloseStop
  <2>3. inbox' \in [connected : BOOLEAN, idle : BOOLEAN]  BY <1>10 DEF BeginReconnect, Reported
  <2>4. QED  BY <2>1, <2>2, <2>3 DEF Places
<1>11. ASSUME NEW g \in Goroutines, BeginConnect(g) \/ CallInner(g)  PROVE OwnTypes'
  BY <1>11 DEF BeginConnect, CallInner, Places
<1>12. ASSUME NEW g \in Goroutines, Dial(g)  PROVE OwnTypes'
  BY <1>12 DEF Dial, Record
<1>13. ASSUME NEW g \in Goroutines, InnerReturns(g)  PROVE OwnTypes'
  <2>1. UNCHANGED <<socket, inbox>>  BY <1>13 DEF InnerReturns
  <2>2. CASE /\ MayRetry(Inner(g))
             /\ tries' = [tries EXCEPT ![Inner(g)] = @ + 1]
             /\ Goto(g, "attempt")
             /\ Forget(Inner(g))
             /\ UNCHANGED <<breaker, mu, mode>>
    BY <2>1, <2>2 DEF MayRetry, Forget, Places
  <2>3. CASE /\ ReconnectReturns(g, result[Inner(g)] = "ok")
             /\ tries' = [tries EXCEPT ![Inner(g)] = 0]
    <3>1. (result[Inner(g)] = "ok") \in BOOLEAN  OBVIOUS
    <3>2. /\ mu' = NoOne
          /\ \E s \in {"startIDLE", "outer", "watch", "test", "free"} :
               ph' = [ph EXCEPT ![g] = s]
          /\ mode' \in [Goroutines -> Modes]
          /\ result' \in [Frames -> {"ok", "failed", "rejected"}]
      BY <2>3, <3>1, ReturnTypes
    <3>3. ph' \in [Goroutines -> Places]  BY <3>2 DEF Places
    <3>4. tries' \in [Frames -> 0..(MaxAttempts - 1)]  BY <2>3
    <3>5. QED  BY <2>1, <3>2, <3>3, <3>4
  <2>4. QED  BY <1>13, <2>2, <2>3 DEF InnerReturns
<1>14. ASSUME NEW g \in Goroutines, StartIDLE(g)  PROVE OwnTypes'
  <2>1. UNCHANGED <<up, mishaps, link, stopped, signal, tries, inbox>> /\ idling' = TRUE
        /\ stopClosed' = FALSE /\ listening' = {}
    BY <1>14 DEF StartIDLE, NewStop
  <2>2. /\ AfterStart(g, TRUE) \in {"outer", "watch", "free", "started", "retry"}
        /\ mu' \in Goroutines \cup {NoOne} /\ mode' \in [Goroutines -> Modes]
        /\ result' \in [Frames -> {"ok", "failed", "rejected"}]
    BY <1>14, StartTypes DEF StartIDLE
  <2>3. \/ ph' = [ph EXCEPT ![g] = AfterStart(g, TRUE)]
        \/ \E l \in Loops : ph' = [ph EXCEPT ![g] = AfterStart(g, TRUE), ![l] = "top"]
    BY <1>14 DEF StartIDLE
  <2>4. ph' \in [Goroutines -> Places]  BY <2>2, <2>3 DEF Places
  <2>5. QED  BY <2>1, <2>2, <2>4
<1>15. ASSUME NEW g \in Goroutines, StartFails(g)  PROVE OwnTypes'
  <2>1. UNCHANGED <<up, mishaps, link, idling, stopped, signal, tries, inbox>>
        /\ stopClosed' \in BOOLEAN /\ listening' \subseteq Loops
    BY <1>15 DEF StartFails, NewStop
  <2>2. /\ AfterStart(g, FALSE) \in {"outer", "watch", "free", "started", "retry"}
        /\ mu' \in Goroutines \cup {NoOne} /\ mode' \in [Goroutines -> Modes]
        /\ result' \in [Frames -> {"ok", "failed", "rejected"}]
    BY <1>15, StartTypes DEF StartFails
  <2>3. ph' \in [Goroutines -> Places]  BY <1>15, <2>2 DEF StartFails, Places
  <2>4. QED  BY <2>1, <2>2, <2>3
<1>16. ASSUME NEW g \in Goroutines, StartRefused(g)  PROVE OwnTypes'
  <2>1. UNCHANGED <<up, mishaps, link, stopClosed, listening, stopped, signal, tries, inbox>>
        /\ idling' \in BOOLEAN
    BY <1>16 DEF StartRefused
  <2>2. CASE mode[g] = "restart"
    BY <1>16, <2>1, <2>2 DEF StartRefused, Places, Modes
  <2>3. CASE Goto(g, AfterStart(g, FALSE)) /\ StartReturns(g, FALSE)
    <3>1. /\ AfterStart(g, FALSE) \in {"outer", "watch", "free", "started", "retry"}
          /\ mu' \in Goroutines \cup {NoOne} /\ mode' \in [Goroutines -> Modes]
          /\ result' \in [Frames -> {"ok", "failed", "rejected"}]
      BY <2>3, StartTypes
    <3>2. ph' \in [Goroutines -> Places]  BY <2>3, <3>1 DEF Places
    <3>3. QED  BY <2>1, <3>1, <3>2
  <2>4. QED  BY <1>16, <2>2, <2>3 DEF StartRefused
<1>17. ASSUME NEW g \in Goroutines, ServerRefuses(g)  PROVE OwnTypes'
  BY <1>0, <1>17 DEF ServerRefuses, NewStop, Places
<1>18. ASSUME NEW g \in Goroutines, ForceClose(g)  PROVE OwnTypes'
  BY <1>18 DEF ForceClose, Places
<1>19. ASSUME NEW g \in Goroutines, Redial(g)  PROVE OwnTypes'
  <2>1. UNCHANGED <<up, mishaps, stopClosed, listening, stopped, signal, tries>>
        /\ idling' = FALSE /\ link' \in {"none", "live"}
        /\ inbox' \in [connected : BOOLEAN, idle : BOOLEAN]
    BY <1>19 DEF Redial
  <2>2. CASE Goto(g, "startIDLE") /\ UNCHANGED <<breaker, result, mu, mode>>
    BY <2>1, <2>2 DEF Places
  <2>3. CASE Goto(g, AfterStart(g, FALSE)) /\ StartReturns(g, FALSE)
    <3>1. /\ AfterStart(g, FALSE) \in {"outer", "watch", "free", "started", "retry"}
          /\ mu' \in Goroutines \cup {NoOne} /\ mode' \in [Goroutines -> Modes]
          /\ result' \in [Frames -> {"ok", "failed", "rejected"}]
      BY <2>3, StartTypes
    <3>2. ph' \in [Goroutines -> Places]  BY <2>3, <3>1 DEF Places
    <3>3. QED  BY <2>1, <3>1, <3>2
  <2>4. QED  BY <1>19, <2>2, <2>3 DEF Redial
<1>20. ASSUME NEW s \in Starters, Test(s)  PROVE OwnTypes'
  <2>1. UNCHANGED <<up, mishaps, stopClosed, listening, stopped, signal, mu, mode, tries,
                    result, inbox>> /\ idling' \in BOOLEAN
    BY <1>20 DEF Test
  <2>2. link' \in {"none", "live", "dead"}  BY <1>20 DEF Test, Command
  <2>3. ph' \in [Goroutines -> Places]  BY <1>20 DEF Test, Places
  <2>4. QED  BY <2>1, <2>2, <2>3
<1>21. ASSUME NEW s \in Starters, Retry(s)  PROVE OwnTypes'
  <2>1. UNCHANGED <<up, mishaps, signal, mu, result>>  BY <1>21 DEF Retry
  <2>2. CASE /\ MayRetry(Inner(s))
             /\ tries' = [tries EXCEPT ![Inner(s)] = @ + 1]
             /\ Goto(s, "test")
             /\ UNCHANGED <<link, idling, stopClosed, listening, stopped, mode, inbox>>
    BY <2>1, <2>2 DEF MayRetry, Places
  <2>3. CASE /\ Disconnect /\ inbox' = [Reported EXCEPT !.idle = FALSE]
             /\ tries' = [tries EXCEPT ![Inner(s)] = 0]
             /\ mode' = [mode EXCEPT ![s] = "restart"]
             /\ Goto(s, "free")
    <3>1. /\ link' \in {"none", "live", "dead"} /\ idling' \in BOOLEAN
          /\ stopClosed' \in BOOLEAN /\ listening' \subseteq Loops /\ stopped' \subseteq Loops
      BY <2>3 DEF Disconnect, CloseStop
    <3>2. inbox' \in [connected : BOOLEAN, idle : BOOLEAN]  BY <2>3 DEF Reported
    <3>3. ph' \in [Goroutines -> Places] /\ mode' \in [Goroutines -> Modes]
          /\ tries' \in [Frames -> 0..(MaxAttempts - 1)]
      BY <2>3 DEF Places, Modes
    <3>4. QED  BY <2>1, <3>1, <3>2, <3>3
  <2>4. QED  BY <1>21, <2>2, <2>3 DEF Retry
<1>22. ASSUME NEW s \in Starters, Started(s)  PROVE OwnTypes'
  <2>1. UNCHANGED <<socket, mu, result>>
        /\ inbox' = [inbox EXCEPT !.idle = TRUE]
        /\ mode' = [mode EXCEPT ![s] = "restart"] /\ tries' = [tries EXCEPT ![Inner(s)] = 0]
    BY <1>22 DEF Started
  <2>2. ph' \in [Goroutines -> Places]  BY <1>22 DEF Started, Places
  <2>3. mode' \in [Goroutines -> Modes]  BY <2>1 DEF Modes
  <2>4. tries' \in [Frames -> 0..(MaxAttempts - 1)]  BY <2>1
  <2>5. inbox' \in [connected : BOOLEAN, idle : BOOLEAN]  BY <2>1
  <2>6. QED  BY <2>1, <2>2, <2>3, <2>4, <2>5
<1>23. ASSUME NEW s \in Starters, Sync(s)  PROVE OwnTypes'
  <2>1. UNCHANGED <<up, signal, mu, mode, tries, result, inbox>> /\ idling' = FALSE
        /\ mishaps' \in 0..MaxMishaps
    BY <1>0, <1>23 DEF Sync
  <2>2. link' \in {"none", "live", "dead"}  BY <1>23 DEF Sync, Command
  <2>3. stopClosed' = TRUE /\ listening' = {} /\ stopped' \subseteq Loops
    BY <1>23 DEF Sync, CloseStop
  <2>4. ph' \in [Goroutines -> Places]  BY <1>23 DEF Sync, Places
  <2>5. QED  BY <2>1, <2>2, <2>3, <2>4
<1>24. ASSUME NEW d \in Watchdogs, Watch(d)  PROVE OwnTypes'
  <2>1. UNCHANGED <<up, mishaps, stopClosed, listening, stopped, signal, mu, mode, tries,
                    result, inbox>> /\ idling' \in BOOLEAN
    BY <1>24 DEF Watch
  <2>2. link' \in {"none", "live", "dead"}  BY <1>24 DEF Watch, Command
  <2>3. ph' \in [Goroutines -> Places]  BY <1>24 DEF Watch, Places
  <2>4. QED  BY <2>1, <2>2, <2>3
<1>25. ASSUME UNCHANGED vars  PROVE OwnTypes'
  BY <1>25 DEF vars
<1>26. QED
  <2>1. ASSUME NEW l \in Loops, LoopStep(l)  PROVE OwnTypes'
    BY <2>1, <1>4, <1>5, <1>6, <1>7, <1>8, <1>9 DEF LoopStep
  <2>2. ASSUME NEW g \in Goroutines, Lock(g) \/ ReconnectStep(g)  PROVE OwnTypes'
    BY <2>2, <1>8, <1>10, <1>11, <1>12, <1>13, <1>18 DEF Lock, ReconnectStep
  <2>3. ASSUME NEW g \in Goroutines, StartStep(g)  PROVE OwnTypes'
    BY <2>3, <1>14, <1>15, <1>16, <1>17, <1>19 DEF StartStep
  <2>4. ASSUME NEW s \in Starters, StarterStep(s)  PROVE OwnTypes'
    BY <2>4, <1>20, <1>21, <1>22 DEF StarterStep
  <2>5. QED
    BY <2>1, <2>2, <2>3, <2>4, <1>1, <1>2, <1>3, <1>23, <1>24, <1>25 DEF Next, Step

\* The client starts with them.
LEMMA OwnInit == Init => OwnTypes
<1> SUFFICES ASSUME Init PROVE OwnTypes  OBVIOUS
<1>1. PICK s \in Starters :
        /\ ph = [g \in Goroutines |-> IF g = s THEN "connect" ELSE "free"]
        /\ mode = [g \in Goroutines |-> IF g = s THEN "connect"
                                        ELSE IF g \in Starters THEN "restart" ELSE "recover"]
  BY DEF Init
<1>2. tries \in [Frames -> 0..(MaxAttempts - 1)]  BY AttemptsPositive DEF Init
<1>3. ph \in [Goroutines -> Places] /\ mode \in [Goroutines -> Modes]
  BY <1>1 DEF Places, Modes
<1>4. /\ up \in BOOLEAN /\ mishaps \in 0..MaxMishaps /\ link \in {"none", "live", "dead"}
      /\ idling \in BOOLEAN /\ stopClosed \in BOOLEAN /\ listening \subseteq Loops
      /\ stopped \subseteq Loops /\ signal \in BOOLEAN /\ mu \in Goroutines \cup {NoOne}
  <2>1. /\ up = TRUE /\ mishaps = 0 /\ link = "none" /\ idling = FALSE
        /\ stopClosed = FALSE /\ listening = {} /\ stopped = {} /\ signal = FALSE /\ mu = NoOne
    BY DEF Init
  <2>2. mishaps \in 0..MaxMishaps  BY <2>1, MishapsBounded
  <2>3. QED  BY <2>1, <2>2
<1>5. /\ result \in [Frames -> {"ok", "failed", "rejected"}]
      /\ inbox \in [connected : BOOLEAN, idle : BOOLEAN]
  BY DEF Init
<1>6. QED  BY <1>2, <1>3, <1>4, <1>5 DEF OwnTypes
-----------------------------------------------------------------------------
(* The breaker. *)

\* Connect and reconnectClient return with a step of the breaker or none.
LEMMA ReturnDrivesBreaker ==
  ASSUME NEW g \in Goroutines, NEW ok \in BOOLEAN, ReconnectReturns(g, ok)
  PROVE  [P!Next]_(P!breakerVars)
<1>1. \/ g \in Loops /\ B!RecordResult(Outer(g), ok)
      \/ UNCHANGED breaker
  BY DEF ReconnectReturns, AfterReconnect
<1>2. QED
  BY <1>1, SameBreaker, FramesOf DEF P!Next, P!ExecuteNext, breaker, P!breakerVars

\* So does StartIDLE.
LEMMA StartDrivesBreaker ==
  ASSUME NEW g \in Goroutines, NEW ok \in BOOLEAN, StartReturns(g, ok)
  PROVE  [P!Next]_(P!breakerVars)
<1>1. \/ g \in Loops /\ B!RecordResult(Outer(g), ok)
      \/ UNCHANGED breaker
  BY DEF StartReturns, Record
<1>2. QED
  BY <1>1, SameBreaker, FramesOf DEF P!Next, P!ExecuteNext, breaker, P!breakerVars

\* Every step is one of the breaker or leaves it alone.
LEMMA DrivesBreaker ==
  ASSUME OwnTypes, [Next]_vars
  PROVE  [P!Next]_(P!breakerVars)
<1> DEFINE Driven == [P!Next]_(P!breakerVars)
<1>1. ASSUME UNCHANGED breaker  PROVE Driven
  BY <1>1 DEF breaker, P!breakerVars
<1>2. ASSUME NEW f \in Frames, B!CheckState(f)  PROVE Driven
  BY <1>2, SameBreaker DEF P!Next, P!ExecuteNext
<1>3. ASSUME NEW f \in Frames, Proceed(f)  PROVE Driven
  BY <1>3, SameBreaker DEF Proceed, P!Next, P!ExecuteNext
<1>4. ASSUME NEW f \in Frames, NEW ok \in BOOLEAN, Record(f, ok)  PROVE Driven
  BY <1>4, SameBreaker DEF Record, P!Next, P!ExecuteNext
<1>5. ASSUME TimeoutElapses  PROVE Driven
  BY <1>5, SameBreaker DEF TimeoutElapses, P!Next, P!ExecuteNext
<1>6. ASSUME NEW g \in Goroutines, NEW ok \in BOOLEAN,
             StartReturns(g, ok) \/ ReconnectReturns(g, ok)
      PROVE  Driven
  BY <1>6, StartDrivesBreaker, ReturnDrivesBreaker
<1> HIDE DEF Driven
<1>7. ASSUME NEW l \in Loops, LoopStep(l)  PROVE Driven
  <2>1. CASE CallOuter(l)  BY <2>1, <1>2, FramesOf DEF CallOuter
  <2>2. CASE Proceed(Outer(l))  BY <2>2, <1>3, FramesOf
  <2>3. CASE Top(l) \/ HearStop(l) \/ TimerFires(l) \/ OuterReturns(l)
    BY <2>3, <1>1 DEF Top, HearStop, TimerFires, OuterReturns
  <2>4. QED  BY <1>7, <2>1, <2>2, <2>3 DEF LoopStep
<1>8. ASSUME NEW g \in Goroutines, ReconnectStep(g)  PROVE Driven
  <2>1. CASE CallInner(g)  BY <2>1, <1>2, FramesOf DEF CallInner
  <2>2. CASE Proceed(Inner(g))  BY <2>2, <1>3, FramesOf
  <2>3. CASE Dial(g)  BY <2>3, <1>4, FramesOf DEF Dial, OwnTypes
  <2>4. CASE InnerReturns(g)
    <3>1. UNCHANGED breaker \/ ReconnectReturns(g, result[Inner(g)] = "ok")
      BY <2>4 DEF InnerReturns
    <3>2. (result[Inner(g)] = "ok") \in BOOLEAN  OBVIOUS
    <3>3. QED  BY <3>1, <3>2, <1>1, <1>6
  <2>5. QED  BY <1>8, <2>1, <2>2, <2>3, <2>4 DEF ReconnectStep
<1>9. ASSUME NEW g \in Goroutines, StartStep(g)  PROVE Driven
  <2>1. UNCHANGED breaker \/ \E ok \in BOOLEAN : StartReturns(g, ok)
    BY <1>9 DEF StartStep, StartIDLE, StartFails, StartRefused, ServerRefuses, Redial
  <2>2. QED  BY <2>1, <1>1, <1>6
<1>10. ASSUME \/ NetworkFails \/ NetworkReturns \/ UNCHANGED vars
              \/ \E g \in Goroutines : Lock(g)
              \/ \E s \in Starters : StarterStep(s) \/ Sync(s)
              \/ \E d \in Watchdogs : Watch(d)
       PROVE  Driven
  <2>1. UNCHANGED breaker
    BY <1>10 DEF NetworkFails, NetworkReturns, vars, Lock, BeginConnect, BeginReconnect,
                 ForceClose, StarterStep, Test, Retry, Started, Sync, Watch
  <2>2. QED  BY <2>1, <1>1
<1>11. QED  BY <1>5, <1>7, <1>8, <1>9, <1>10 DEF Next, Step, Driven
-----------------------------------------------------------------------------
\* What is not the breaker's keeps its types.
LEMMA OwnInvariant == Spec => []OwnTypes
<1>1. Init => OwnTypes  BY OwnInit
<1>2. OwnTypes /\ [Next]_vars => OwnTypes'  BY OwnStep
<1>3. QED  BY <1>1, <1>2, PTL DEF Spec

\* However many goroutines recover, retry and call Execute within Execute, the
\* breaker they share goes through steps of a CircuitBreaker only.
THEOREM RecoveryImplementsBreaker == Spec => P!Spec
<1>1. Init => P!Init  BY SameBreaker DEF Init
<1>2. OwnTypes /\ [Next]_vars => [P!Next]_(P!breakerVars)  BY DrivesBreaker
<1>3. QED  BY <1>1, <1>2, OwnInvariant, PTL DEF Spec, P!Spec

\* Type correctness of the recovery and of the breaker inside it.
THEOREM RecoveryTypes == Spec => []TypeOK
<1>1. P!Spec => []P!TypeOK
  <2>1. P!CallersFinite /\ P!LimitsPositive  BY BreakerAssumptions
  <2>2. QED  BY <2>1, P!BreakerTypes
<1>2. OwnTypes /\ P!TypeOK => TypeOK
  BY DEF OwnTypes, TypeOK, P!TypeOK, B!TypeOK, P!States, B!States, P!Steps, B!Steps
<1>3. QED  BY <1>1, <1>2, OwnInvariant, RecoveryImplementsBreaker, PTL

\* Nested calls of Execute lose no half-open slot, so that the breaker never
\* refuses reconnects for good, for any number of loops and any limits.
THEOREM RecoveryBreakerNotWedged == Spec => []BreakerNotWedged
<1>1. P!CallersFinite /\ P!LimitsPositive  BY BreakerAssumptions
<1>2. P!Spec => []P!CounterTracksHolders  BY <1>1, P!BreakerCounter
<1>3. P!Spec => []P!HalfOpenAdmits  BY <1>1, P!BreakerNeverWedged
<1>4. P!CounterTracksHolders /\ P!HalfOpenAdmits => BreakerNotWedged
  BY DEF BreakerNotWedged, P!CounterTracksHolders, B!CounterTracksHolders, P!Holders,
         B!Holders, P!N, B!N, P!Cardinality, B!Cardinality, P!HalfOpenAdmits, B!HalfOpenAdmits
<1>5. QED  BY <1>2, <1>3, <1>4, RecoveryImplementsBreaker, PTL
-----------------------------------------------------------------------------
(* The mutex. *)

\* A frame is one loop's outer or one goroutine's inner call, never two of them.
LEMMA FramesDistinct ==
  /\ \A l, k \in Loops : Outer(l) = Outer(k) => l = k
  /\ \A g, h \in Goroutines : Inner(g) = Inner(h) => g = h
  /\ \A l \in Loops, g \in Goroutines : Outer(l) # Inner(g)
BY DEF Outer, Inner

\* Where the breaker may take a call from, and that it moves no other call.
LEMMA BreakerMoves ==
  ASSUME TypeOK, NEW f \in Frames
  PROVE  /\ B!CheckState(f) => pc[f] = "idle" /\ \A e \in Frames \ {f} : pc'[e] = pc[e]
         /\ B!Proceed(f) => /\ pc[f] \notin {"idle", "running"}
                            /\ \A e \in Frames \ {f} : pc'[e] = pc[e]
         /\ \A ok : B!RecordResult(f, ok) => /\ pc[f] = "running"
                                             /\ \A e \in Frames \ {f} : pc'[e] = pc[e]
<1>1. pc \in [Frames -> B!Steps]  BY DEF TypeOK, B!TypeOK
<1>2. ASSUME NEW s, B!Goto(f, s)  PROVE \A e \in Frames \ {f} : pc'[e] = pc[e]
  BY <1>1, <1>2 DEF B!Goto
<1>3. B!CheckState(f) => pc[f] = "idle" /\ \A e \in Frames \ {f} : pc'[e] = pc[e]
  BY <1>2 DEF B!CheckState, B!Reject
<1>4. B!Proceed(f) => /\ pc[f] \notin {"idle", "running"}
                      /\ \A e \in Frames \ {f} : pc'[e] = pc[e]
  BY <1>2 DEF B!Proceed, B!TryHalfOpen, B!Notify, B!Relock, B!Increment, B!UndoIncrement,
              B!Leave, B!UseCurrentState, B!Reject
<1>5. \A ok : B!RecordResult(f, ok) => /\ pc[f] = "running"
                                       /\ \A e \in Frames \ {f} : pc'[e] = pc[e]
  BY <1>2 DEF B!RecordResult
<1>6. QED  BY <1>3, <1>4, <1>5

\* A step inside Execute leaves what is known of the frames.
LEMMA ProceedKeepsFrames ==
  ASSUME TypeOK, NEW f \in Frames, B!Proceed(f)
  PROVE  /\ \A g \in Goroutines : pc'[Inner(g)] # "idle" => pc[Inner(g)] # "idle"
         /\ \A l \in Loops : pc[Outer(l)] = "running" => pc'[Outer(l)] = "running"
<1>1. pc[f] \notin {"idle", "running"} /\ \A e \in Frames \ {f} : pc'[e] = pc[e]
  BY BreakerMoves
<1>2. QED  BY <1>1, FramesOf

\* The places where connectingMu may be held: whoever dials is at the first three.
Dialling == {"attempt", "inner", "redial"}
Holding == Dialling \cup {"startIDLE", "reset"}

\* Outside of these places a goroutine moves as it likes, and a starter or the
\* watchdog to a StartIDLE that is not resetConnection's.
LEMMA MoveOutside ==
  ASSUME TypeOK, OneReconnectAtATime, UNCHANGED <<mu, pc>>, ph' \in [Goroutines -> Places],
         \A g \in Goroutines :
           \/ ph'[g] = ph[g]
           \/ ph[g] \notin Holding /\ ph'[g] \notin Holding
           \/ ph[g] \notin Holding /\ g \notin Loops /\ ph'[g] = "startIDLE"
  PROVE  OneReconnectAtATime'
<1> USE DEF Dialling, Holding
<1>1. ASSUME NEW g \in Goroutines
      PROVE  /\ ph'[g] \in {"attempt", "inner", "redial"} => mu' = g
             /\ mu' = g => ph'[g] \in {"attempt", "inner", "redial", "startIDLE", "reset"}
             /\ pc'[Inner(g)] # "idle" => ph'[g] = "inner"
  <2>1. ph[g] \notin Holding => mu # g /\ pc[Inner(g)] = "idle"  BY DEF OneReconnectAtATime
  <2>2. QED  BY <2>1 DEF OneReconnectAtATime
<1>2. ASSUME NEW l \in Loops, ph'[l] \in {"attempt", "inner", "redial", "startIDLE", "reset"}
      PROVE  pc'[Outer(l)] = "running"
  BY <1>2, FramesOf DEF OneReconnectAtATime
<1>3. QED  BY <1>1, <1>2 DEF OneReconnectAtATime

\* Who comes out of StartIDLE, or fails to dial in resetConnection, is out of these
\* places without the mutex.
LEMMA LeaveStart ==
  ASSUME TypeOK, OneReconnectAtATime, NEW g \in Goroutines, NEW ok \in BOOLEAN,
         ph[g] \in {"startIDLE", "redial"}, StartReturns(g, ok),
         ph'[g] = AfterStart(g, ok),
         \A h \in Goroutines \ {g} : ph'[h] = ph[h] \/ (ph[h] = "free" /\ ph'[h] = "top")
  PROVE  OneReconnectAtATime'
<1> USE DEF Dialling, Holding
<1>1. mu' = IF mu = g THEN NoOne ELSE mu  BY DEF StartReturns
<1>2. ph'[g] \notin Holding  BY DEF AfterStart
<1>3. NoOne \notin Goroutines  BY GoroutinesDistinct DEF NoOne
<1>4. \/ pc' = pc
      \/ g \in Loops /\ \A e \in Frames \ {Outer(g)} : pc'[e] = pc[e]
  BY BreakerMoves, FramesOf DEF StartReturns, Record, breaker
<1>5. \A h \in Goroutines : pc'[Inner(h)] = pc[Inner(h)]  BY <1>4, FramesOf, FramesDistinct
<1>6. \A l \in Loops \ {g} : pc'[Outer(l)] = pc[Outer(l)]  BY <1>4, FramesOf, FramesDistinct
<1>7. ASSUME NEW h \in Goroutines
      PROVE  /\ ph'[h] \in {"attempt", "inner", "redial"} => mu' = h
             /\ mu' = h => ph'[h] \in {"attempt", "inner", "redial", "startIDLE", "reset"}
             /\ pc'[Inner(h)] # "idle" => ph'[h] = "inner"
  <2>1. CASE h = g  BY <1>1, <1>2, <1>3, <1>5, <2>1 DEF OneReconnectAtATime
  <2>2. CASE h # g  BY <1>1, <1>3, <1>5, <2>2 DEF OneReconnectAtATime
  <2>3. QED  BY <2>1, <2>2
<1>8. ASSUME NEW l \in Loops, ph'[l] \in {"attempt", "inner", "redial", "startIDLE", "reset"}
      PROVE  pc'[Outer(l)] = "running"
  <2>1. l # g  BY <1>2, <1>8
  <2>2. QED  BY <1>6, <1>8, <2>1, FramesOf DEF OneReconnectAtATime
<1>9. QED  BY <1>7, <1>8 DEF OneReconnectAtATime

\* Only its holder enters and leaves the places where somebody dials, and a loop
\* leaves its outer call only from outside of all of them.
LEMMA HeldStep ==
  ASSUME TypeOK, TypeOK', OneReconnectAtATime, [Next]_vars
  PROVE  OneReconnectAtATime'
<1> USE FramesOf DEF Dialling, Holding
<1>1. /\ ph \in [Goroutines -> Places] /\ ph' \in [Goroutines -> Places]
      /\ mu \in Goroutines \cup {NoOne} /\ NoOne \notin Goroutines
  BY GoroutinesDistinct DEF TypeOK, NoOne
<1>2. Loops \cap Watchdogs = {} /\ Loops \cap Starters = {} /\ Watchdogs \cap Starters = {}
  BY GoroutinesDistinct
<1>3. ASSUME UNCHANGED <<mu, ph, pc>>  PROVE OneReconnectAtATime'
  BY <1>3 DEF OneReconnectAtATime
<1>4. ASSUME NEW f \in Frames, Proceed(f)  PROVE OneReconnectAtATime'
  <2>1. UNCHANGED <<mu, ph>> /\ B!Proceed(f)  BY <1>4 DEF Proceed
  <2>2. QED  BY <2>1, ProceedKeepsFrames DEF OneReconnectAtATime
<1>5. ASSUME NetworkFails \/ NetworkReturns \/ TimeoutElapses \/ UNCHANGED vars
      PROVE  OneReconnectAtATime'
  BY <1>3, <1>5 DEF NetworkFails, NetworkReturns, TimeoutElapses, B!TimeoutElapses, vars, breaker
<1>6. ASSUME NEW l \in Loops, Top(l) \/ HearStop(l) \/ TimerFires(l) \/ OuterReturns(l)
      PROVE  OneReconnectAtATime'
  <2>1. UNCHANGED <<mu, pc>> /\ ph[l] \notin Holding
    BY <1>6 DEF Top, HearStop, TimerFires, OuterReturns, breaker
  <2>2. \/ \E s \in {"free", "execute", "idle", "top"} : ph' = [ph EXCEPT ![l] = s]
        \/ \E s \in Starters : ph[s] = "free" /\ ph' = [ph EXCEPT ![l] = "top", ![s] = "test"]
    BY <1>6 DEF Top, HearStop, TimerFires, OuterReturns, BackToTop, Goto
  <2>3. \A g \in Goroutines : \/ ph'[g] = ph[g]
                              \/ ph[g] \notin Holding /\ ph'[g] \notin Holding
    BY <1>1, <2>1, <2>2
  <2>4. QED  BY <1>1, <2>1, <2>3, MoveOutside
<1>7. ASSUME NEW l \in Loops, CallOuter(l)  PROVE OneReconnectAtATime'
  <2>1. /\ pc[Outer(l)] = "idle" /\ \A e \in Frames \ {Outer(l)} : pc'[e] = pc[e]
        /\ mu' = mu /\ ph[l] = "execute" /\ ph' = [ph EXCEPT ![l] = "outer"]
    BY <1>7, BreakerMoves DEF CallOuter, Goto
  <2>2. QED  BY <1>1, <2>1, FramesDistinct DEF OneReconnectAtATime
<1>8. ASSUME NEW s \in Starters, StarterStep(s) \/ Sync(s)  PROVE OneReconnectAtATime'
  <2>1. UNCHANGED <<mu, pc>> /\ ph[s] \notin Holding
    BY <1>8 DEF StarterStep, Test, Retry, Started, Sync, breaker
  <2>2. \A g \in Goroutines \ {s} : \/ ph'[g] = ph[g]
                                    \/ Started(s)
    BY <1>1, <1>8 DEF StarterStep, Test, Retry, Started, Sync, Goto
  <2>3. ph'[s] \in {"startIDLE", "retry", "reconnect", "test", "free"}
    BY <1>1, <1>2, <1>8 DEF StarterStep, Test, Retry, Started, Sync, Goto
  <2>4. CASE ~Started(s)
    BY <1>1, <1>2, <2>1, <2>2, <2>3, <2>4, MoveOutside
  <2>5. CASE Started(s)
    <3>1. PICK place \in {"watch", "free"} :
            ph' = [g \in Goroutines |-> IF g \in Watchdogs /\ ph[g] = "free" THEN place
                                       ELSE IF g = s THEN "free" ELSE ph[g]]
      BY <2>5 DEF Started
    <3>2. QED  BY <1>1, <2>1, <3>1, MoveOutside
  <2>6. QED  BY <2>4, <2>5
<1>9. ASSUME NEW g \in Goroutines, Lock(g)  PROVE OneReconnectAtATime'
  <2>1. /\ mu = NoOne /\ mu' = g /\ pc' = pc
        /\ \E s \in {"attempt", "redial"} : ph' = [ph EXCEPT ![g] = s]
    BY <1>9 DEF Lock, BeginConnect, BeginReconnect, ForceClose, Goto, breaker
  <2>2. g \in Loops => pc[Outer(g)] = "running"
    BY <1>2, <1>9 DEF Lock, BeginConnect, BeginReconnect, ForceClose, OneReconnectAtATime
  <2>3. QED  BY <1>1, <2>1, <2>2 DEF OneReconnectAtATime
<1>10. ASSUME NEW g \in Goroutines, CallInner(g)  PROVE OneReconnectAtATime'
  <2>1. /\ \A e \in Frames \ {Inner(g)} : pc'[e] = pc[e]
        /\ mu' = mu /\ ph[g] = "attempt" /\ ph' = [ph EXCEPT ![g] = "inner"]
    BY <1>10, BreakerMoves DEF CallInner, Goto
  <2>2. mu = g  BY <2>1 DEF OneReconnectAtATime
  <2>3. QED  BY <1>1, <2>1, <2>2, FramesDistinct DEF OneReconnectAtATime
<1>11. ASSUME NEW g \in Goroutines, Dial(g)  PROVE OneReconnectAtATime'
  <2>1. /\ pc[Inner(g)] = "running" /\ \A e \in Frames \ {Inner(g)} : pc'[e] = pc[e]
        /\ UNCHANGED <<mu, ph>>
    BY <1>11, BreakerMoves DEF Dial, Record
  <2>2. QED  BY <2>1, FramesDistinct DEF OneReconnectAtATime
<1>12. ASSUME NEW g \in Goroutines, InnerReturns(g)  PROVE OneReconnectAtATime'
  <2>1. ph[g] = "inner" /\ pc[Inner(g)] = "idle" /\ mu = g
    BY <1>12 DEF InnerReturns, OneReconnectAtATime
  <2>2. CASE Goto(g, "attempt") /\ UNCHANGED <<breaker, mu>>
    BY <1>1, <2>1, <2>2 DEF Goto, breaker, OneReconnectAtATime
  <2>3. CASE ReconnectReturns(g, result[Inner(g)] = "ok")
    <3> DEFINE ok == result[Inner(g)] = "ok"
               to == AfterReconnect(g, ok)
    <3>1. mu' = NoOne /\ ph' = [ph EXCEPT ![g] = to]
      BY <2>3 DEF ReconnectReturns, Release, Goto
    <3>2. \A h \in Goroutines \ {g} : pc[Inner(h)] = "idle" /\ ph[h] \notin Dialling
      BY <2>1 DEF OneReconnectAtATime
    <3>3. to \in {"startIDLE", "outer", "watch", "test", "free"}  BY DEF AfterReconnect
    <3>4. CASE to = "outer" /\ B!RecordResult(Outer(g), ok) /\ g \in Loops
      <4>1. \A e \in Frames \ {Outer(g)} : pc'[e] = pc[e]  BY <3>4, BreakerMoves
      <4>2. QED
        BY <1>1, <2>1, <3>1, <3>2, <3>4, <4>1, FramesDistinct DEF OneReconnectAtATime
    <3>5. CASE UNCHANGED breaker
      <4>1. pc' = pc  BY <3>5 DEF breaker
      <4>2. QED
        BY <1>1, <2>1, <3>1, <3>2, <3>3, <4>1 DEF OneReconnectAtATime
    <3>6. QED
      <4>1. to = "outer" => g \in Loops  BY DEF AfterReconnect
      <4>2. IF to = "outer" THEN B!RecordResult(Outer(g), ok) ELSE UNCHANGED breaker
        BY <2>3 DEF ReconnectReturns
      <4>3. QED  BY <3>4, <3>5, <4>1, <4>2
  <2>4. QED  BY <1>12, <2>2, <2>3 DEF InnerReturns
<1>13. ASSUME NEW g \in Goroutines, NEW ok \in BOOLEAN, ph[g] \in {"startIDLE", "redial"},
              StartReturns(g, ok), Goto(g, AfterStart(g, ok))
       PROVE  OneReconnectAtATime'
  BY <1>1, <1>13, LeaveStart DEF Goto
<1>14. ASSUME NEW g \in Goroutines, StartIDLE(g)  PROVE OneReconnectAtATime'
  <2>1. ph[g] = "startIDLE" /\ StartReturns(g, TRUE)  BY <1>14 DEF StartIDLE
  <2>2. CASE Goto(g, AfterStart(g, TRUE))  BY <1>13, <2>1, <2>2
  <2>3. CASE \E l \in Loops : /\ ph[l] = "free"
                              /\ ph' = [ph EXCEPT ![g] = AfterStart(g, TRUE), ![l] = "top"]
    <3>1. ph'[g] = AfterStart(g, TRUE)  BY <1>1, <2>1, <2>3
    <3>2. \A h \in Goroutines \ {g} : ph'[h] = ph[h] \/ (ph[h] = "free" /\ ph'[h] = "top")
      BY <1>1, <2>3
    <3>3. QED  BY <2>1, <3>1, <3>2, LeaveStart
  <2>4. QED  BY <1>14, <2>2, <2>3 DEF StartIDLE
<1>15. ASSUME NEW g \in Goroutines, StartFails(g)  PROVE OneReconnectAtATime'
  BY <1>13, <1>15 DEF StartFails
<1>16. ASSUME NEW g \in Goroutines, StartRefused(g)  PROVE OneReconnectAtATime'
  <2>1. ph[g] = "startIDLE"  BY <1>16 DEF StartRefused
  <2>2. CASE /\ Goto(g, "reset") /\ mu' = (IF mu = g THEN NoOne ELSE mu)
             /\ UNCHANGED <<breaker, result>>
    <3>1. pc' = pc /\ ph' = [ph EXCEPT ![g] = "reset"]  BY <2>2 DEF breaker, Goto
    <3>2. QED  BY <1>1, <2>1, <2>2, <3>1 DEF OneReconnectAtATime
  <2>3. CASE Goto(g, AfterStart(g, FALSE)) /\ StartReturns(g, FALSE)
    BY <1>13, <2>1, <2>3
  <2>4. QED  BY <1>16, <2>2, <2>3 DEF StartRefused
<1>17. ASSUME NEW g \in Goroutines, ServerRefuses(g)  PROVE OneReconnectAtATime'
  <2>1. /\ ph[g] = "startIDLE" /\ ph' = [ph EXCEPT ![g] = "reset"] /\ UNCHANGED <<mu, pc>>
    BY <1>17 DEF ServerRefuses, Goto, breaker
  <2>2. QED  BY <1>1, <2>1 DEF OneReconnectAtATime
<1>18. ASSUME NEW g \in Goroutines, Redial(g)  PROVE OneReconnectAtATime'
  <2>1. ph[g] = "redial" /\ mu = g  BY <1>18 DEF Redial, OneReconnectAtATime
  <2>2. CASE Goto(g, "startIDLE") /\ UNCHANGED <<breaker, result, mu, mode>>
    <3>1. ph' = [ph EXCEPT ![g] = "startIDLE"] /\ UNCHANGED <<mu, pc>>
      BY <2>2 DEF Goto, breaker
    <3>2. QED  BY <1>1, <2>1, <3>1 DEF OneReconnectAtATime
  <2>3. CASE Goto(g, AfterStart(g, FALSE)) /\ StartReturns(g, FALSE)
    BY <1>13, <2>1, <2>3
  <2>4. QED  BY <1>18, <2>2, <2>3 DEF Redial
<1>19. ASSUME NEW d \in Watchdogs, Watch(d)  PROVE OneReconnectAtATime'
  <2>1. ph[d] = "watch" /\ ph' = [ph EXCEPT ![d] = "reconnect"] /\ UNCHANGED <<mu, pc>>
    BY <1>19 DEF Watch, Goto, breaker
  <2>2. \A g \in Goroutines : \/ ph'[g] = ph[g]
                              \/ ph[g] \notin Holding /\ ph'[g] \notin Holding
    BY <1>1, <2>1
  <2>3. QED  BY <1>1, <2>1, <2>2, MoveOutside
<1>20. QED
  <2>1. ASSUME NEW l \in Loops, LoopStep(l)  PROVE OneReconnectAtATime'
    BY <2>1, <1>4, <1>6, <1>7 DEF LoopStep
  <2>2. ASSUME NEW g \in Goroutines, ReconnectStep(g)  PROVE OneReconnectAtATime'
    BY <2>2, <1>4, <1>10, <1>11, <1>12 DEF ReconnectStep
  <2>3. ASSUME NEW g \in Goroutines, StartStep(g)  PROVE OneReconnectAtATime'
    BY <2>3, <1>14, <1>15, <1>16, <1>17, <1>18 DEF StartStep
  <2>4. QED  BY <1>5, <1>8, <1>9, <1>19, <2>1, <2>2, <2>3 DEF Next, Step

\* OneReconnectAtATime holds for any loops, watchdogs and starters: connectingMu keeps
\* Connect, reconnectClient and resetConnection to one goroutine, through all retries,
\* the breaker's refusals and the StartIDLE that resetConnection calls with the mutex.
THEOREM RecoveryExclusive == Spec => []OneReconnectAtATime
<1>1. Init => OneReconnectAtATime
  <2>1. ASSUME Init  PROVE OneReconnectAtATime
    <3>1. mu = NoOne /\ NoOne \notin Goroutines
      BY <2>1, GoroutinesDistinct DEF Init, NoOne
    <3>2. \A g \in Goroutines : ph[g] \in {"connect", "free"}  BY <2>1 DEF Init
    <3>3. \A f \in Frames : pc[f] = "idle"  BY <2>1 DEF Init, B!Init
    <3>4. QED  BY <3>1, <3>2, <3>3, FramesOf DEF OneReconnectAtATime
  <2>2. QED  BY <2>1
<1>2. TypeOK /\ TypeOK' /\ OneReconnectAtATime /\ [Next]_vars => OneReconnectAtATime'
  BY HeldStep
<1>3. QED  BY <1>1, <1>2, RecoveryTypes, PTL DEF Spec
=============================================================================
