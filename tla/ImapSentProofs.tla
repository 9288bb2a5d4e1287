--------------------------- MODULE ImapSentProofs ---------------------------
(***************************************************************************)
(* Proofs about ImapSent, for any goroutines that start IDLE and any       *)
(* number of dials.  A dial installs its connection some time after it     *)
(* made the channel, so that what is known of the current connection is    *)
(* tied to where its own dial is; and the dial that made the current       *)
(* channel, not just any, accounts for a Sent connection that is missing.  *)
(***************************************************************************)
EXTENDS ImapSent, TLAPS

\* A dial that has begun has made a channel; loops run on finished dials; the
\* current connection is of a dial that was installed.
DialsBegun ==
  /\ \A d \in Dials : /\ dial[d] # "unused" => sentStop # None
                      /\ dial[d] # "done" => loop[d] = "none"
  /\ sentClient # None => dial[sentClient] \in {"up", "done"}

\* The coordinator knows of the current connection, or will hear of it.
ReportDue ==
  /\ sentConnected <=> sentClient # None
  /\ sentClient # None => reported \/ dial[sentClient] = "up"

\* Who accounts for a missing Sent connection while INBOX is idling.
Accounted ==
  \/ pending > 0
  \/ starting # {}
  \/ \E d \in Dials : loop[d] \in {"lost", "backoff"}
  \/ sentStop # None /\ dial[sentStop] \in {"dialing", "failed"}

NotForgotten == sentClient = None /\ idling => Accounted

\* The inductive invariant of the Sent connection.
SentInv == TypeOK /\ DialsBegun /\ CurrentHearsDisconnect /\ ReportDue /\ NotForgotten
-----------------------------------------------------------------------------
\* There is room for the ensure that is spawned.
LEMMA SpawnStep ==
  ASSUME TypeOK, Spawn
  PROVE  pending' \in 0..MaxPending
BY SentBounds DEF TypeOK, Spawn

\* Closing the Sent connection clears the handle and the flag together.
LEMMA CloseSentTypes ==
  ASSUME TypeOK, CloseSent \/ UNCHANGED sent
  PROVE  /\ sentClient' \in Dials \cup {None} /\ sentConnected' \in BOOLEAN
         /\ sentConnected' => sentClient' # None
         /\ open' \subseteq Dials
<1>1. CASE CloseSent  BY <1>1 DEF TypeOK, CloseSent
<1>2. CASE UNCHANGED sent  BY <1>2 DEF TypeOK, sent
<1>3. QED  BY <1>1, <1>2

\* Every step keeps the types.
LEMMA TypeStep ==
  ASSUME TypeOK, DialsBegun, [Next]_vars
  PROVE  TypeOK'
<1> USE SentBounds DEF TypeOK, Dials, None, DialsBegun, inbox, sent, stops, loops, At
<1>1. ASSUME Connect  PROVE TypeOK'
  BY <1>1 DEF Connect
<1>2. ASSUME InboxHardError  PROVE TypeOK'
  BY <1>2 DEF InboxHardError, DropInbox
<1>3. ASSUME StopIDLE  PROVE TypeOK'
  BY <1>3 DEF StopIDLE
<1>4. ASSUME Disconnect  PROVE TypeOK'
  BY <1>4 DEF Disconnect, DropInbox, CloseSent
<1>5. ASSUME NEW s \in Starters, StartIDLE(s)  PROVE TypeOK'
  BY <1>5 DEF StartIDLE
<1>6. ASSUME NEW s \in Starters, FinishStart(s)  PROVE TypeOK'
  <2>1. pending' = pending \/ pending' \in 0..MaxPending  BY <1>6, SpawnStep DEF FinishStart
  <2>2. idling' = idling \/ idling' = FALSE  BY <1>6 DEF FinishStart
  <2>3. QED  BY <1>6, <2>1, <2>2 DEF FinishStart
<1>7. ASSUME BeginEnsure  PROVE TypeOK'
  BY <1>7 DEF BeginEnsure, Unused
<1>8. ASSUME NEW d \in Dials, DialFails(d)  PROVE TypeOK'
  BY <1>8 DEF DialFails
<1>9. ASSUME NEW d \in Dials, Install(d)  PROVE TypeOK'
  BY <1>9 DEF Install
<1>10. ASSUME NEW d \in Dials, StartLoops(d)  PROVE TypeOK'
  BY <1>10 DEF StartLoops
<1>11. ASSUME NEW d \in Dials, IdleFails(d)  PROVE TypeOK'
  BY <1>11 DEF IdleFails
<1>12. ASSUME NEW d \in Dials, HearStop(d)  PROVE TypeOK'
  BY <1>12 DEF HearStop
<1>13. ASSUME NEW d \in Dials, CheckFails(d)  PROVE TypeOK'
  BY <1>13 DEF CheckFails, DropInbox
<1>14. ASSUME NEW d \in Dials, ReconnectSent(d)  PROVE TypeOK'
  <2>1. pending' = pending \/ pending' \in 0..MaxPending  BY <1>14, SpawnStep DEF ReconnectSent
  <2>2. \/ CloseSent /\ reported' = FALSE
        \/ UNCHANGED <<sentClient, sentConnected, open, reported>>
    BY <1>14 DEF ReconnectSent
  <2>3. loop' = [loop EXCEPT ![d] = "backoff"] \/ loop' = [loop EXCEPT ![d] = "ended"]
    BY <1>14 DEF ReconnectSent
  <2>4. UNCHANGED <<connected, idling, starting, sentStop, closed, dial, stopOf, rebuild>>
    BY <1>14 DEF ReconnectSent
  <2>5. reported' \in BOOLEAN /\ loop' \in [Dials -> {"none", "idle", "lost", "backoff", "ended"}]
    BY <2>2, <2>3, ZenonT(40)
  <2>6. CloseSent \/ UNCHANGED sent  BY <2>2
  <2>7. QED  BY <2>1, <2>4, <2>5, <2>6, CloseSentTypes
<1>15. ASSUME Rebuild  PROVE TypeOK'
  <2>1. pending' = pending \/ pending' \in 0..MaxPending  BY <1>15, SpawnStep DEF Rebuild
  <2>2. \/ CloseSent /\ reported' = FALSE
        \/ UNCHANGED <<sentClient, sentConnected, open, reported>>
    BY <1>15 DEF Rebuild
  <2>3. /\ rebuild' = FALSE
        /\ UNCHANGED <<connected, idling, starting, sentStop, closed, dial, loop, stopOf>>
    BY <1>15 DEF Rebuild
  <2>4. reported' \in BOOLEAN /\ (CloseSent \/ UNCHANGED sent)  BY <2>2
  <2>5. QED  BY <2>1, <2>3, <2>4, CloseSentTypes
<1>16. ASSUME NEW d \in Dials, Probe(d)  PROVE TypeOK'
  BY <1>16 DEF Probe
<1>17. ASSUME NEW d \in Dials, Cut(d)  PROVE TypeOK'
  BY <1>17 DEF Cut
<1>18. ASSUME UNCHANGED vars  PROVE TypeOK'
  BY <1>18 DEF vars
<1>19. QED
  BY <1>1, <1>2, <1>3, <1>4, <1>5, <1>6, <1>7, <1>8, <1>9, <1>10, <1>11, <1>12, <1>13,
     <1>14, <1>15, <1>16, <1>17, <1>18
     DEF Next, Ensure, SentIdleLoop

\* Every step keeps dials, channels and loops together.
LEMMA BegunStep ==
  ASSUME TypeOK, DialsBegun, [Next]_vars
  PROVE  DialsBegun'
<1> USE SentBounds DEF TypeOK, Dials, None, DialsBegun, inbox, sent, stops, loops, At
<1>1. ASSUME Connect  PROVE DialsBegun'
  BY <1>1 DEF Connect
<1>2. ASSUME InboxHardError  PROVE DialsBegun'
  BY <1>2 DEF InboxHardError, DropInbox
<1>3. ASSUME StopIDLE  PROVE DialsBegun'
  BY <1>3 DEF StopIDLE
<1>4. ASSUME Disconnect  PROVE DialsBegun'
  BY <1>4 DEF Disconnect, DropInbox, CloseSent
<1>5. ASSUME NEW s \in Starters, StartIDLE(s)  PROVE DialsBegun'
  BY <1>5 DEF StartIDLE
<1>6. ASSUME NEW s \in Starters, FinishStart(s)  PROVE DialsBegun'
  BY <1>6 DEF FinishStart, Spawn
<1>7. ASSUME BeginEnsure  PROVE DialsBegun'
  BY <1>7 DEF BeginEnsure, Unused
<1>8. ASSUME NEW d \in Dials, DialFails(d)  PROVE DialsBegun'
  BY <1>8 DEF DialFails
<1>9. ASSUME NEW d \in Dials, Install(d)  PROVE DialsBegun'
  BY <1>9 DEF Install
<1>10. ASSUME NEW d \in Dials, StartLoops(d)  PROVE DialsBegun'
  BY <1>10 DEF StartLoops
<1>11. ASSUME NEW d \in Dials, IdleFails(d)  PROVE DialsBegun'
  BY <1>11 DEF IdleFails
<1>12. ASSUME NEW d \in Dials, HearStop(d)  PROVE DialsBegun'
  BY <1>12 DEF HearStop
<1>13. ASSUME NEW d \in Dials, CheckFails(d)  PROVE DialsBegun'
  BY <1>13 DEF CheckFails, DropInbox
<1>14. ASSUME NEW d \in Dials, ReconnectSent(d)  PROVE DialsBegun'
  BY <1>14 DEF ReconnectSent, CloseSent, Spawn
<1>15. ASSUME Rebuild  PROVE DialsBegun'
  BY <1>15 DEF Rebuild, CloseSent, Spawn
<1>16. ASSUME NEW d \in Dials, Probe(d)  PROVE DialsBegun'
  BY <1>16 DEF Probe
<1>17. ASSUME NEW d \in Dials, Cut(d)  PROVE DialsBegun'
  BY <1>17 DEF Cut
<1>18. ASSUME UNCHANGED vars  PROVE DialsBegun'
  BY <1>18 DEF vars
<1>19. QED
  BY <1>1, <1>2, <1>3, <1>4, <1>5, <1>6, <1>7, <1>8, <1>9, <1>10, <1>11, <1>12, <1>13,
     <1>14, <1>15, <1>16, <1>17, <1>18
     DEF Next, Ensure, SentIdleLoop

\* The current connection keeps the current channel.
LEMMA HearsStep ==
  ASSUME TypeOK, CurrentHearsDisconnect, [Next]_vars
  PROVE  CurrentHearsDisconnect'
<1> USE SentBounds DEF TypeOK, Dials, None, CurrentHearsDisconnect, inbox, sent, stops, loops, At
<1>1. ASSUME Connect  PROVE CurrentHearsDisconnect'
  BY <1>1 DEF Connect
<1>2. ASSUME InboxHardError  PROVE CurrentHearsDisconnect'
  BY <1>2 DEF InboxHardError, DropInbox
<1>3. ASSUME StopIDLE  PROVE CurrentHearsDisconnect'
  BY <1>3 DEF StopIDLE
<1>4. ASSUME Disconnect  PROVE CurrentHearsDisconnect'
  BY <1>4 DEF Disconnect, DropInbox, CloseSent
<1>5. ASSUME NEW s \in Starters, StartIDLE(s)  PROVE CurrentHearsDisconnect'
  BY <1>5 DEF StartIDLE
<1>6. ASSUME NEW s \in Starters, FinishStart(s)  PROVE CurrentHearsDisconnect'
  BY <1>6 DEF FinishStart, Spawn
<1>7. ASSUME BeginEnsure  PROVE CurrentHearsDisconnect'
  BY <1>7 DEF BeginEnsure, Unused
<1>8. ASSUME NEW d \in Dials, DialFails(d)  PROVE CurrentHearsDisconnect'
  BY <1>8 DEF DialFails
<1>9. ASSUME NEW d \in Dials, Install(d)  PROVE CurrentHearsDisconnect'
  BY <1>9 DEF Install
<1>10. ASSUME NEW d \in Dials, StartLoops(d)  PROVE CurrentHearsDisconnect'
  BY <1>10 DEF StartLoops
<1>11. ASSUME NEW d \in Dials, IdleFails(d)  PROVE CurrentHearsDisconnect'
  BY <1>11 DEF IdleFails
<1>12. ASSUME NEW d \in Dials, HearStop(d)  PROVE CurrentHearsDisconnect'
  BY <1>12 DEF HearStop
<1>13. ASSUME NEW d \in Dials, CheckFails(d)  PROVE CurrentHearsDisconnect'
  BY <1>13 DEF CheckFails, DropInbox
<1>14. ASSUME NEW d \in Dials, ReconnectSent(d)  PROVE CurrentHearsDisconnect'
  BY <1>14 DEF ReconnectSent, CloseSent, Spawn
<1>15. ASSUME Rebuild  PROVE CurrentHearsDisconnect'
  BY <1>15 DEF Rebuild, CloseSent, Spawn
<1>16. ASSUME NEW d \in Dials, Probe(d)  PROVE CurrentHearsDisconnect'
  BY <1>16 DEF Probe
<1>17. ASSUME NEW d \in Dials, Cut(d)  PROVE CurrentHearsDisconnect'
  BY <1>17 DEF Cut
<1>18. ASSUME UNCHANGED vars  PROVE CurrentHearsDisconnect'
  BY <1>18 DEF vars
<1>19. QED
  BY <1>1, <1>2, <1>3, <1>4, <1>5, <1>6, <1>7, <1>8, <1>9, <1>10, <1>11, <1>12, <1>13,
     <1>14, <1>15, <1>16, <1>17, <1>18
     DEF Next, Ensure, SentIdleLoop

\* A report of a loss is made only when the connection is closed.
LEMMA ReportStep ==
  ASSUME TypeOK, DialsBegun, ReportDue, [Next]_vars
  PROVE  ReportDue'
<1> USE SentBounds DEF TypeOK, Dials, None, DialsBegun, ReportDue, inbox, sent, stops, loops, At
<1>1. ASSUME Connect  PROVE ReportDue'
  BY <1>1 DEF Connect
<1>2. ASSUME InboxHardError  PROVE ReportDue'
  BY <1>2 DEF InboxHardError, DropInbox
<1>3. ASSUME StopIDLE  PROVE ReportDue'
  BY <1>3 DEF StopIDLE
<1>4. ASSUME Disconnect  PROVE ReportDue'
  BY <1>4 DEF Disconnect, DropInbox, CloseSent
<1>5. ASSUME NEW s \in Starters, StartIDLE(s)  PROVE ReportDue'
  BY <1>5 DEF StartIDLE
<1>6. ASSUME NEW s \in Starters, FinishStart(s)  PROVE ReportDue'
  BY <1>6 DEF FinishStart, Spawn
<1>7. ASSUME BeginEnsure  PROVE ReportDue'
  BY <1>7 DEF BeginEnsure, Unused
<1>8. ASSUME NEW d \in Dials, DialFails(d)  PROVE ReportDue'
  BY <1>8 DEF DialFails
<1>9. ASSUME NEW d \in Dials, Install(d)  PROVE ReportDue'
  BY <1>9 DEF Install
<1>10. ASSUME NEW d \in Dials, StartLoops(d)  PROVE ReportDue'
  BY <1>10 DEF StartLoops
<1>11. ASSUME NEW d \in Dials, IdleFails(d)  PROVE ReportDue'
  BY <1>11 DEF IdleFails
<1>12. ASSUME NEW d \in Dials, HearStop(d)  PROVE ReportDue'
  BY <1>12 DEF HearStop
<1>13. ASSUME NEW d \in Dials, CheckFails(d)  PROVE ReportDue'
  BY <1>13 DEF CheckFails, DropInbox
<1>14. ASSUME NEW d \in Dials, ReconnectSent(d)  PROVE ReportDue'
  BY <1>14 DEF ReconnectSent, CloseSent, Spawn
<1>15. ASSUME Rebuild  PROVE ReportDue'
  BY <1>15 DEF Rebuild, CloseSent, Spawn
<1>16. ASSUME NEW d \in Dials, Probe(d)  PROVE ReportDue'
  BY <1>16 DEF Probe
<1>17. ASSUME NEW d \in Dials, Cut(d)  PROVE ReportDue'
  BY <1>17 DEF Cut
<1>18. ASSUME UNCHANGED vars  PROVE ReportDue'
  BY <1>18 DEF vars
<1>19. QED
  BY <1>1, <1>2, <1>3, <1>4, <1>5, <1>6, <1>7, <1>8, <1>9, <1>10, <1>11, <1>12, <1>13,
     <1>14, <1>15, <1>16, <1>17, <1>18
     DEF Next, Ensure, SentIdleLoop

\* Whoever closes the connection, or ends, hands over to somebody.
LEMMA ForgottenStep ==
  ASSUME TypeOK, DialsBegun, NotForgotten, [Next]_vars
  PROVE  NotForgotten'
<1> USE SentBounds
        DEF TypeOK, Dials, None, DialsBegun, NotForgotten, Accounted, inbox, sent, stops,
            loops, At
<1>1. ASSUME Connect  PROVE NotForgotten'
  BY <1>1 DEF Connect
<1>2. ASSUME InboxHardError  PROVE NotForgotten'
  BY <1>2 DEF InboxHardError, DropInbox
<1>3. ASSUME StopIDLE  PROVE NotForgotten'
  BY <1>3 DEF StopIDLE
<1>4. ASSUME Disconnect  PROVE NotForgotten'
  BY <1>4 DEF Disconnect, DropInbox, CloseSent
<1>5. ASSUME NEW s \in Starters, StartIDLE(s)  PROVE NotForgotten'
  BY <1>5 DEF StartIDLE
<1>6. ASSUME NEW s \in Starters, FinishStart(s)  PROVE NotForgotten'
  BY <1>6 DEF FinishStart, Spawn
<1>7. ASSUME BeginEnsure  PROVE NotForgotten'
  BY <1>7 DEF BeginEnsure, Unused
<1>8. ASSUME NEW d \in Dials, DialFails(d)  PROVE NotForgotten'
  BY <1>8 DEF DialFails
<1>9. ASSUME NEW d \in Dials, Install(d)  PROVE NotForgotten'
  BY <1>9 DEF Install
<1>10. ASSUME NEW d \in Dials, StartLoops(d)  PROVE NotForgotten'
  BY <1>10 DEF StartLoops
<1>11. ASSUME NEW d \in Dials, IdleFails(d)  PROVE NotForgotten'
  BY <1>11 DEF IdleFails
<1>12. ASSUME NEW d \in Dials, HearStop(d)  PROVE NotForgotten'
  BY <1>12 DEF HearStop
<1>13. ASSUME NEW d \in Dials, CheckFails(d)  PROVE NotForgotten'
  BY <1>13 DEF CheckFails, DropInbox
<1>14. ASSUME NEW d \in Dials, ReconnectSent(d)  PROVE NotForgotten'
  BY <1>14 DEF ReconnectSent, CloseSent, Spawn
<1>15. ASSUME Rebuild  PROVE NotForgotten'
  BY <1>15 DEF Rebuild, CloseSent, Spawn
<1>16. ASSUME NEW d \in Dials, Probe(d)  PROVE NotForgotten'
  BY <1>16 DEF Probe
<1>17. ASSUME NEW d \in Dials, Cut(d)  PROVE NotForgotten'
  BY <1>17 DEF Cut
<1>18. ASSUME UNCHANGED vars  PROVE NotForgotten'
  BY <1>18 DEF vars
<1>19. QED
  BY <1>1, <1>2, <1>3, <1>4, <1>5, <1>6, <1>7, <1>8, <1>9, <1>10, <1>11, <1>12, <1>13,
     <1>14, <1>15, <1>16, <1>17, <1>18
     DEF Next, Ensure, SentIdleLoop

-----------------------------------------------------------------------------
\* SentInv is an invariant: the current connection has the channel, and is or
\* will be reported, and a missing one is accounted for.
THEOREM SentInvariant == Spec => []SentInv
<1>1. Init => SentInv
  <2> SUFFICES ASSUME Init PROVE SentInv  OBVIOUS
  <2>1. TypeOK
    <3>1. 0 \in 0..MaxPending  BY SentBounds
    <3>2. /\ starting \subseteq Starters
          /\ dial \in [Dials -> {"unused", "dialing", "failed", "up", "done"}]
          /\ loop \in [Dials -> {"none", "idle", "lost", "backoff", "ended"}]
          /\ stopOf \in [Dials -> Dials \cup {None}]
      BY DEF Init
    <3>3. QED  BY <3>1, <3>2 DEF Init, TypeOK
  <2>2. DialsBegun /\ CurrentHearsDisconnect /\ ReportDue /\ NotForgotten
    BY DEF Init, DialsBegun, CurrentHearsDisconnect, ReportDue, NotForgotten
  <2>3. QED  BY <2>1, <2>2 DEF SentInv
<1>2. SentInv /\ [Next]_vars => SentInv'
  BY TypeStep, BegunStep, HearsStep, ReportStep, ForgottenStep DEF SentInv
<1>3. QED  BY <1>1, <1>2, PTL DEF Spec

\* Every field of the Client's Sent half, and every dial and loop, keeps its type.
THEOREM SentTypes == Spec => []TypeOK
<1>1. SentInv => TypeOK  BY DEF SentInv
<1>2. QED  BY <1>1, SentInvariant, PTL

\* Disconnect reaches the loops of the current Sent connection.
THEOREM SentHearsDisconnect == Spec => []CurrentHearsDisconnect
<1>1. SentInv => CurrentHearsDisconnect  BY DEF SentInv
<1>2. QED  BY <1>1, SentInvariant, PTL

\* A live Sent connection is not shown as lost.
THEOREM SentLiveReported == Spec => []LiveSentReported
<1>1. SentInv => LiveSentReported
  BY DEF SentInv, LiveSentReported, ReportDue, DialsBegun, TypeOK
<1>2. QED  BY <1>1, SentInvariant, PTL

\* A lost Sent connection is never just dropped.
THEOREM SentNeverForgotten == Spec => []SentNotForgotten
<1>1. SentInv => SentNotForgotten
  BY DEF SentInv, SentNotForgotten, NotForgotten, Accounted, Underway, TypeOK
<1>2. QED  BY <1>1, SentInvariant, PTL
=============================================================================
