------------------------- MODULE GmailInboundProofs -------------------------
(***************************************************************************)
(* Proofs about GmailInbound, for any set of poller slots, any history and *)
(* any number of grants.  A poller saves only what it has seen through, so *)
(* that this must be known at each place in Run (RunInv).  It speaks of    *)
(* pollers that are not cancelled, and there is at most one of them.       *)
(***************************************************************************)
EXTENDS GmailInbound, TLAPS

\* Messages the cursor c covers.
Below(c) == {i \in WantedFrom(1) : i < c}

\* Only messages are fetched or settled.
OnlyMessages ==
  /\ settled \subseteq WantedFrom(1)
  /\ \A p \in Pollers : batch[p] \subseteq WantedFrom(1)

\* A poller has a list only while it fetches.
ListsInFetch == \A p \in Pollers : pc[p] # "fetch" => batch[p] = {}

\* What a poller has seen through, and how its cursors stand to the saved one.
RunOf(p) ==
  /\ pc[p] \in {"bootSave", "tick", "fetch", "save"} =>
       cursor[p] # 0 /\ saved <= cursor[p] /\ Below(cursor[p]) \subseteq settled
  /\ pc[p] \in {"fetch", "save"} => cursor[p] <= next[p]
  /\ pc[p] = "fetch" => Below(next[p]) \subseteq settled \cup batch[p]
  /\ pc[p] = "save" => Below(next[p]) \subseteq settled

\* It holds of every poller that is not cancelled.
RunInv == \A p \in Active : RunOf(p)

\* The inductive invariant of the poller.
GmailInv ==
  /\ TypeOK /\ OnlyMessages /\ ListsInFetch /\ OnlyRegisteredActive /\ CursorCoversOnlySettled
  /\ RunInv
-----------------------------------------------------------------------------
\* A token refresh leaves the row with a token that was granted.
LEMMA TokenWorksTypes ==
  ASSUME TypeOK, NEW p \in Pollers, TokenWorks(p)
  PROVE  /\ row' \in {"absent", "password", "oauth", "needs_reauth"}
         /\ rowToken' \in 0..grants
         /\ stored' \in [Pollers -> BOOLEAN]
         /\ saved' = saved
<1>1. stored' \in [Pollers -> BOOLEAN]
  <2>1. stored' = [stored EXCEPT ![p] = TRUE] \/ stored' = stored  BY DEF TokenWorks
  <2>2. QED  BY <2>1 DEF TypeOK
<1>2. row' \in {"absent", "password", "oauth", "needs_reauth"} /\ rowToken' \in 0..grants
  <2>1. token[p] \in 0..grants  BY DEF TypeOK
  <2>2. QED  BY <2>1 DEF TypeOK, TokenWorks
<1>3. QED  BY <1>1, <1>2 DEF TokenWorks

\* A fetch may write the row, and leaves the saved cursor alone.
LEMMA FetchRow ==
  ASSUME TypeOK, NEW p \in Pollers, NEW i \in 1..MaxRecords, Fetch(p, i)
  PROVE  /\ row' \in {"absent", "password", "oauth", "needs_reauth"}
         /\ rowToken' \in 0..grants
         /\ stored' \in [Pollers -> BOOLEAN]
         /\ saved' = saved
<1>1. CASE UNCHANGED <<account, stored>>  BY <1>1 DEF TypeOK, account
<1>2. CASE TokenWorks(p)  BY <1>2, TokenWorksTypes
<1>3. CASE RefreshFails(p)  BY <1>3 DEF RefreshFails, TypeOK
<1>4. QED  BY <1>1, <1>2, <1>3 DEF Fetch

\* The messages of the history are among its records.
LEMMA MessagesBounded ==
  ASSUME TypeOK, NEW c \in Nat, c # 0
  PROVE  WantedFrom(c) \subseteq WantedFrom(1) /\ WantedFrom(c) \subseteq 1..MaxRecords
BY MailboxBounds DEF TypeOK, WantedFrom

\* Every step keeps the types.
LEMMA TypeStep ==
  ASSUME TypeOK, OnlyMessages, RunInv, [Next]_vars
  PROVE  TypeOK'
<1> USE MailboxBounds DEF TypeOK, HistoryId, WantedFrom, google, account, user, run
<1>1. ASSUME NEW k \in Kinds, NewRecord(k)  PROVE TypeOK'
  BY <1>1 DEF NewRecord
<1>2. ASSUME ForgetRecord  PROVE TypeOK'
  BY <1>2 DEF ForgetRecord
<1>3. ASSUME NEW t \in 1..MaxGrants, TokenRevoked(t)  PROVE TypeOK'
  BY <1>3 DEF TokenRevoked
<1>4. ASSUME NEW p \in Pollers, LoadCursor(p)  PROVE TypeOK'
  BY <1>4 DEF LoadCursor
<1>5. ASSUME NEW p \in Pollers, FreshCursor(p)  PROVE TypeOK'
  <2>1. /\ row' \in {"absent", "password", "oauth", "needs_reauth"} /\ rowToken' \in 0..grants
        /\ stored' \in [Pollers -> BOOLEAN] /\ saved' = saved
    <3>1. TokenWorks(p)  BY <1>5 DEF FreshCursor
    <3>2. QED  BY <3>1, TokenWorksTypes
  <2>2. WantedFrom(1) \subseteq 1..MaxRecords  BY MessagesBounded
  <2>3. cursor' \in [Pollers -> 0..HistoryId]  BY <1>5 DEF FreshCursor
  <2>4. settled' \subseteq 1..MaxRecords  BY <1>5, <2>2 DEF FreshCursor
  <2>5. QED  BY <1>5, <2>1, <2>3, <2>4 DEF FreshCursor
<1>6. ASSUME NEW p \in Pollers, SaveFreshCursor(p)  PROVE TypeOK'
  BY <1>6 DEF SaveFreshCursor
<1>7. ASSUME NEW p \in Pollers, List(p)  PROVE TypeOK'
  <2>1. /\ row' \in {"absent", "password", "oauth", "needs_reauth"} /\ rowToken' \in 0..grants
        /\ stored' \in [Pollers -> BOOLEAN] /\ saved' = saved
    <3>1. TokenWorks(p)  BY <1>7 DEF List
    <3>2. QED  BY <3>1, TokenWorksTypes
  <2>2. next' \in [Pollers -> 0..HistoryId]  BY <1>7 DEF List
  <2>3. batch' \in [Pollers -> SUBSET (1..MaxRecords)] /\ settled' \subseteq 1..MaxRecords
    <3>1. WantedFrom(cursor[p]) \subseteq 1..MaxRecords
      <4>1. p \in Active /\ pc[p] = "tick"  BY <1>7 DEF List, Active
      <4>2. cursor[p] \in Nat /\ cursor[p] # 0  BY <4>1 DEF RunInv, RunOf
      <4>3. QED  BY <4>2, MessagesBounded
    <3>2. QED  BY <1>7, <3>1 DEF List
  <2>4. pc' \in [Pollers -> {"off", "boot", "bootSave", "tick", "fetch", "save", "exited"}]
    BY <1>7 DEF List
  <2>5. QED  BY <1>7, <2>1, <2>2, <2>3, <2>4 DEF List
<1>8. ASSUME NEW p \in Pollers, NEW i \in 1..MaxRecords, Fetch(p, i)  PROVE TypeOK'
  <2>1. /\ row' \in {"absent", "password", "oauth", "needs_reauth"}
        /\ rowToken' \in 0..grants /\ stored' \in [Pollers -> BOOLEAN] /\ saved' = saved
    BY <1>8, FetchRow
  <2>2. batch' \in [Pollers -> SUBSET (1..MaxRecords)] /\ settled' \subseteq 1..MaxRecords
    BY <1>8 DEF Fetch
  <2>3. UNCHANGED <<google, user, registered, pc, cancelled, token, cursor, next>>
    BY <1>8 DEF Fetch
  <2>4. QED  BY <2>1, <2>2, <2>3
<1>9. ASSUME NEW p \in Pollers, Fetched(p)  PROVE TypeOK'
  BY <1>9 DEF Fetched
<1>10. ASSUME NEW p \in Pollers, SaveCursor(p)  PROVE TypeOK'
  <2>1. saved' \in 0..HistoryId  BY <1>10 DEF SaveCursor
  <2>2. cursor' \in [Pollers -> 0..HistoryId]  BY <1>10 DEF SaveCursor
  <2>3. QED  BY <1>10, <2>1, <2>2 DEF SaveCursor
<1>11. ASSUME NEW p \in Pollers, Exit(p)  PROVE TypeOK'
  BY <1>11 DEF Exit
<1>12. ASSUME NEW p \in Pollers, TokenDies(p)  PROVE TypeOK'
  BY <1>12 DEF TokenDies, RefreshFails
<1>13. ASSUME NEW p \in Pollers, BootFails(p)  PROVE TypeOK'
  BY <1>13 DEF BootFails
<1>14. ASSUME NEW i \in 1..MaxRecords, Backlog(i)  PROVE TypeOK'
  BY <1>14 DEF Backlog
<1>15. ASSUME BeginSignIn  PROVE TypeOK'
  BY <1>15 DEF BeginSignIn
<1>16. ASSUME ExchangeCode  PROVE TypeOK'
  BY <1>16 DEF ExchangeCode
<1>17. ASSUME CompleteLogin  PROVE TypeOK'
  BY <1>17 DEF CompleteLogin, LoadUserLogin, Start
<1>18. ASSUME AbandonSignIn  PROVE TypeOK'
  BY <1>18 DEF AbandonSignIn
<1>19. ASSUME DeleteAccount  PROVE TypeOK'
  BY <1>19 DEF DeleteAccount
<1>20. ASSUME DeleteLogin  PROVE TypeOK'
  BY <1>20 DEF DeleteLogin
<1>21. ASSUME RevokeAtGoogle  PROVE TypeOK'
  BY <1>21 DEF RevokeAtGoogle
<1>22. ASSUME RevokeMark  PROVE TypeOK'
  BY <1>22 DEF RevokeMark
<1>23. ASSUME RevokeStop  PROVE TypeOK'
  BY <1>23 DEF RevokeStop, Stop
<1>24. ASSUME Crash  PROVE TypeOK'
  BY <1>24 DEF Crash
<1>25. ASSUME Restart  PROVE TypeOK'
  BY <1>25, ZenonT(40) DEF Restart, LoadUserLogin, Start
<1>26. ASSUME UNCHANGED vars  PROVE TypeOK'
  BY <1>26 DEF vars
<1>27. QED
  BY <1>1, <1>2, <1>3, <1>4, <1>5, <1>6, <1>7, <1>8, <1>9, <1>10, <1>11, <1>12, <1>13,
     <1>14, <1>15, <1>16, <1>17, <1>18, <1>19, <1>20, <1>21, <1>22, <1>23, <1>24, <1>25, <1>26
     DEF Next, Poll
-----------------------------------------------------------------------------
\* A step leaves the history alone or appends one record.
LEMMA HistoryStep ==
  ASSUME [Next]_vars
  PROVE  history' = history \/ \E k \in Kinds : NewRecord(k)
<1> USE DEF google
<1>1. ASSUME NEW p \in Pollers, Poll(p) \/ TokenDies(p) \/ BootFails(p)
      PROVE  history' = history
  BY <1>1 DEF Poll, LoadCursor, FreshCursor, SaveFreshCursor, List, Fetch, Fetched,
              SaveCursor, Exit, TokenDies, BootFails
<1>2. ASSUME NEW i \in 1..MaxRecords, Backlog(i)  PROVE history' = history
  BY <1>2 DEF Backlog
<1>3. ASSUME NEW t \in 1..MaxGrants, TokenRevoked(t)  PROVE history' = history
  BY <1>3 DEF TokenRevoked
<1>4. CASE \/ ForgetRecord \/ BeginSignIn \/ ExchangeCode \/ CompleteLogin \/ AbandonSignIn
           \/ DeleteAccount \/ DeleteLogin \/ RevokeAtGoogle \/ RevokeMark \/ RevokeStop
           \/ Crash \/ Restart
  BY <1>4 DEF ForgetRecord, BeginSignIn, ExchangeCode, CompleteLogin, AbandonSignIn,
              DeleteAccount, DeleteLogin, RevokeAtGoogle, RevokeMark, RevokeStop, Crash, Restart
<1>5. CASE UNCHANGED vars  BY <1>5 DEF vars
<1>6. QED  BY <1>1, <1>2, <1>3, <1>4, <1>5 DEF Next

\* New messages come behind every cursor.
LEMMA MessagesGrow ==
  ASSUME TypeOK, [Next]_vars
  PROVE  /\ WantedFrom(1) \subseteq WantedFrom(1)'
         /\ \A i \in WantedFrom(1)' : i \in WantedFrom(1) \/ i >= HistoryId
<1>1. CASE history' = history  BY <1>1 DEF WantedFrom
<1>2. ASSUME NEW k \in Kinds, NewRecord(k)
      PROVE  /\ WantedFrom(1) \subseteq WantedFrom(1)'
             /\ \A i \in WantedFrom(1)' : i \in WantedFrom(1) \/ i >= HistoryId
  BY <1>2 DEF NewRecord, WantedFrom, HistoryId, TypeOK
<1>3. QED  BY <1>1, <1>2, HistoryStep

\* What a cursor covers does not change.
LEMMA BelowKept ==
  ASSUME TypeOK, [Next]_vars, NEW c \in 0..HistoryId
  PROVE  {i \in WantedFrom(1)' : i < c} = Below(c)
<1>1. HistoryId \in Nat /\ WantedFrom(1)' \subseteq Int
  <2>1. Len(history) \in Nat  BY DEF TypeOK
  <2>2. Len(history)' \in Nat
    <3>1. CASE history' = history  BY <3>1, <2>1
    <3>2. ASSUME NEW k \in Kinds, NewRecord(k)  PROVE Len(history)' \in Nat
      BY <3>2 DEF NewRecord, TypeOK
    <3>3. QED  BY <3>1, <3>2, HistoryStep
  <2>3. QED  BY <2>1, <2>2 DEF HistoryId, WantedFrom
<1>2. QED  BY <1>1, MessagesGrow DEF Below

-----------------------------------------------------------------------------
\* Steps that touch neither the mailbox, nor a poller, nor the saved cursor.
Quiet ==
  \/ ForgetRecord \/ BeginSignIn \/ ExchangeCode \/ AbandonSignIn \/ DeleteLogin
  \/ RevokeAtGoogle \/ RevokeMark \/ UNCHANGED vars
  \/ \E t \in 1..MaxGrants : TokenRevoked(t)

\* They leave the poller and the mailbox as they are.
LEMMA QuietStep ==
  ASSUME Quiet
  PROVE  UNCHANGED <<history, saved, registered, pc, run, settled>>
BY DEF Quiet, ForgetRecord, BeginSignIn, ExchangeCode, AbandonSignIn, DeleteLogin,
       RevokeAtGoogle, RevokeMark, TokenRevoked, vars, account, google, user, run

\* What is left of LoadUserLogin for the other variables: at most a poller is
\* registered, in a slot that was free, while none was.
LEMMA LoadStep ==
  ASSUME TypeOK, CompleteLogin \/ Restart
  PROVE  /\ UNCHANGED <<history, saved, cursor, next, batch, settled>>
         /\ \/ UNCHANGED <<registered, pc, cancelled>>
            \/ \E p \in Pollers :
                 /\ registered = NoPoller /\ registered' = p /\ pc[p] = "off"
                 /\ pc' = [pc EXCEPT ![p] = "boot"]
                 /\ cancelled' = [cancelled EXCEPT ![p] = FALSE]
<1>1. /\ UNCHANGED <<google, account, settled>>
      /\ LoadUserLogin
  BY DEF CompleteLogin, Restart
<1>2. Start(rowToken) \/ UNCHANGED <<registered, pc, run, stored>>  BY <1>1 DEF LoadUserLogin
<1>3. QED  BY <1>1, <1>2 DEF Start, google, account, run

\* Stop cancels the poller it takes out.
LEMMA StopStep ==
  ASSUME RevokeStop
  PROVE  /\ UNCHANGED <<history, saved, cursor, next, batch, settled>>
         /\ registered' = NoPoller
         /\ \/ registered = NoPoller /\ UNCHANGED <<pc, cancelled>>
            \/ /\ registered # NoPoller
               /\ cancelled' = [cancelled EXCEPT ![registered] = TRUE]
               /\ pc' = [pc EXCEPT ![registered] = IF @ = "exited" THEN "off" ELSE @]
BY DEF RevokeStop, Stop, google, account

-----------------------------------------------------------------------------
\* Only messages are put on a list or settled.
LEMMA MessagesStep ==
  ASSUME TypeOK, OnlyMessages, RunInv, [Next]_vars
  PROVE  OnlyMessages'
<1> DEFINE M == WantedFrom(1)
<1>1. M \subseteq M'  BY MessagesGrow
<1>2. CASE UNCHANGED <<batch, settled>>  BY <1>1, <1>2 DEF OnlyMessages
<1>3. ASSUME NEW p \in Pollers, FreshCursor(p)  PROVE OnlyMessages'
  <2>1. settled' = settled \cup M /\ batch' = batch  BY <1>3 DEF FreshCursor
  <2>2. QED  BY <1>1, <2>1 DEF OnlyMessages
<1>4. ASSUME NEW p \in Pollers, List(p)  PROVE OnlyMessages'
  <2>1. p \in Active /\ pc[p] = "tick"  BY <1>4 DEF List, Active
  <2>2. cursor[p] \in Nat /\ cursor[p] # 0  BY <2>1 DEF RunInv, RunOf, TypeOK, HistoryId
  <2>3. WantedFrom(cursor[p]) \subseteq M  BY <2>2, MessagesBounded
  <2>4. \/ settled' = settled /\ batch' = [batch EXCEPT ![p] = WantedFrom(cursor[p])]
        \/ settled' = settled \cup WantedFrom(cursor[p]) /\ batch' = batch
    BY <1>4 DEF List
  <2>5. QED  BY <1>1, <2>3, <2>4 DEF OnlyMessages, TypeOK
<1>5. ASSUME NEW p \in Pollers, NEW i \in 1..MaxRecords, Fetch(p, i)  PROVE OnlyMessages'
  <2>1. i \in batch[p] /\ batch' = [batch EXCEPT ![p] = @ \ {i}]  BY <1>5 DEF Fetch
  <2>2. settled' \subseteq settled \cup {i}  BY <1>5 DEF Fetch
  <2>3. QED  BY <1>1, <2>1, <2>2 DEF OnlyMessages, TypeOK
<1>6. ASSUME NEW i \in 1..MaxRecords, Backlog(i)  PROVE OnlyMessages'
  <2>1. i \in M /\ settled' = settled \cup {i} /\ batch' = batch  BY <1>6 DEF Backlog, run
  <2>2. QED  BY <1>1, <2>1 DEF OnlyMessages
<1>7. CASE Crash
  <2>1. batch' = [p \in Pollers |-> {}] /\ settled' = settled  BY <1>7 DEF Crash
  <2>2. QED  BY <1>1, <2>1 DEF OnlyMessages
<1>8. ASSUME NEW p \in Pollers,
             \/ LoadCursor(p) \/ SaveFreshCursor(p) \/ Fetched(p) \/ SaveCursor(p)
             \/ Exit(p) \/ TokenDies(p) \/ BootFails(p)
      PROVE  UNCHANGED <<batch, settled>>
  BY <1>8 DEF LoadCursor, SaveFreshCursor, Fetched, SaveCursor, Exit, TokenDies, BootFails, run
<1>9. ASSUME Quiet \/ CompleteLogin \/ Restart \/ RevokeStop  PROVE UNCHANGED <<batch, settled>>
  BY <1>9, QuietStep, LoadStep, StopStep DEF run
<1>10. ASSUME DeleteAccount \/ \E k \in Kinds : NewRecord(k)  PROVE UNCHANGED <<batch, settled>>
  BY <1>10 DEF DeleteAccount, NewRecord, run
<1>11. QED
  BY <1>2, <1>3, <1>4, <1>5, <1>6, <1>7, <1>8, <1>9, <1>10 DEF Next, Poll, Quiet

\* A list that is taken up is worked off before the poller leaves the fetch.
LEMMA ListsStep ==
  ASSUME TypeOK, ListsInFetch, [Next]_vars
  PROVE  ListsInFetch'
<1> USE DEF ListsInFetch, TypeOK
<1>1. CASE UNCHANGED <<pc, batch>>  BY <1>1
<1>2. ASSUME NEW p \in Pollers,
             LoadCursor(p) \/ FreshCursor(p) \/ SaveFreshCursor(p) \/ SaveCursor(p) \/ Exit(p)
      PROVE  ListsInFetch'
  <2>1. batch' = batch /\ pc[p] # "fetch" /\ \A q \in Pollers \ {p} : pc'[q] = pc[q]
    BY <1>2 DEF LoadCursor, FreshCursor, SaveFreshCursor, SaveCursor, Exit, run
  <2>2. QED  BY <2>1
<1>3. ASSUME NEW p \in Pollers, TokenDies(p) \/ BootFails(p)  PROVE ListsInFetch'
  <2>1. batch' = batch /\ pc[p] # "fetch" /\ \A q \in Pollers \ {p} : pc'[q] = pc[q]
    BY <1>3 DEF TokenDies, BootFails, run
  <2>2. QED  BY <2>1
<1>4. ASSUME NEW p \in Pollers, List(p)  PROVE ListsInFetch'
  <2>1. \/ pc' = [pc EXCEPT ![p] = "fetch"]
           /\ batch' = [batch EXCEPT ![p] = WantedFrom(cursor[p])]
        \/ pc' = [pc EXCEPT ![p] = "save"] /\ batch' = batch
    BY <1>4 DEF List
  <2>2. pc[p] = "tick"  BY <1>4 DEF List
  <2>3. QED  BY <2>1, <2>2
<1>5. ASSUME NEW p \in Pollers, NEW i \in 1..MaxRecords, Fetch(p, i)  PROVE ListsInFetch'
  <2>1. pc' = pc /\ batch' = [batch EXCEPT ![p] = @ \ {i}]  BY <1>5 DEF Fetch
  <2>2. QED  BY <2>1
<1>6. ASSUME NEW p \in Pollers, Fetched(p)  PROVE ListsInFetch'
  <2>1. batch' = batch /\ batch[p] = {} /\ \A q \in Pollers \ {p} : pc'[q] = pc[q]
    BY <1>6 DEF Fetched, run
  <2>2. QED  BY <2>1
<1>7. CASE CompleteLogin \/ Restart  BY <1>7, LoadStep
<1>8. CASE RevokeStop
  <2>1. batch' = batch /\ \A q \in Pollers : pc'[q] = pc[q] \/ pc[q] = "exited"
    BY <1>8, StopStep
  <2>2. QED  BY <2>1
<1>9. CASE Crash  BY <1>9 DEF Crash
<1>10. ASSUME Quiet  PROVE UNCHANGED <<pc, batch>>  BY <1>10, QuietStep DEF run
<1>11. ASSUME \/ DeleteAccount \/ \E k \in Kinds : NewRecord(k)
              \/ \E i \in 1..MaxRecords : Backlog(i)
       PROVE  UNCHANGED <<pc, batch>>
  BY <1>11 DEF DeleteAccount, NewRecord, Backlog, run
<1>12. QED
  BY <1>1, <1>2, <1>3, <1>4, <1>5, <1>6, <1>7, <1>8, <1>9, <1>10, <1>11 DEF Next, Poll, Quiet

\* A poller that works is the registered one.
LEMMA OwnerStep ==
  ASSUME TypeOK, OnlyRegisteredActive, [Next]_vars
  PROVE  OnlyRegisteredActive'
<1> USE DEF OnlyRegisteredActive, Active, TypeOK
<1>1. CASE UNCHANGED <<registered, pc, cancelled>>  BY <1>1
<1>2. ASSUME NEW p \in Pollers, Poll(p) \/ TokenDies(p) \/ BootFails(p)
      PROVE  OnlyRegisteredActive'
  <2>1. cancelled' = cancelled /\ registered' = registered
    BY <1>2 DEF Poll, LoadCursor, FreshCursor, SaveFreshCursor, List, Fetch, Fetched,
                SaveCursor, Exit, TokenDies, BootFails, run
  <2>2. \A q \in Pollers \ {p} : pc'[q] = pc[q]
    BY <1>2 DEF Poll, LoadCursor, FreshCursor, SaveFreshCursor, List, Fetch, Fetched,
                SaveCursor, Exit, TokenDies, BootFails
  <2>3. pc[p] \notin {"off", "exited"}
    BY <1>2 DEF Poll, LoadCursor, FreshCursor, SaveFreshCursor, List, Fetch, Fetched,
                SaveCursor, Exit, TokenDies, BootFails
  <2>4. QED  BY <2>1, <2>2, <2>3
<1>3. CASE CompleteLogin \/ Restart  BY <1>3, LoadStep, NoPollerIsNoSlot
<1>4. CASE RevokeStop  BY <1>4, StopStep
<1>5. CASE Crash  BY <1>5 DEF Crash
<1>6. ASSUME Quiet  PROVE UNCHANGED <<registered, pc, cancelled>>  BY <1>6, QuietStep DEF run
<1>7. ASSUME \/ DeleteAccount \/ \E k \in Kinds : NewRecord(k)
             \/ \E i \in 1..MaxRecords : Backlog(i)
      PROVE  UNCHANGED <<registered, pc, cancelled>>
  BY <1>7 DEF DeleteAccount, NewRecord, Backlog, run
<1>8. QED  BY <1>1, <1>2, <1>3, <1>4, <1>5, <1>6, <1>7 DEF Next, Quiet

-----------------------------------------------------------------------------
\* A poller whose own state stays as it is keeps what it has seen through,
\* as long as the saved cursor is not raised and nothing settled is lost.
LEMMA RunKept ==
  ASSUME TypeOK, [Next]_vars, NEW q \in Pollers, RunOf(q),
         pc'[q] = pc[q], cursor'[q] = cursor[q], next'[q] = next[q], batch'[q] = batch[q],
         settled \subseteq settled', saved' \in Nat, saved' <= saved
  PROVE  RunOf(q)'
<1>1. cursor[q] \in 0..HistoryId /\ next[q] \in 0..HistoryId /\ saved \in Nat
  <2>1. HistoryId \in Nat  BY DEF TypeOK, HistoryId
  <2>2. QED  BY <2>1 DEF TypeOK
<1>2. /\ {i \in WantedFrom(1)' : i < cursor[q]} = Below(cursor[q])
      /\ {i \in WantedFrom(1)' : i < next[q]} = Below(next[q])
  BY <1>1, BelowKept
<1>3. Below(cursor[q])' = Below(cursor[q]) /\ Below(next[q])' = Below(next[q])
  BY <1>2 DEF Below
<1>4. HistoryId \in Nat  BY DEF TypeOK, HistoryId
<1>5. QED  BY <1>1, <1>3, <1>4 DEF RunOf

\* Every step leaves a poller that is not cancelled with what it has seen through.
LEMMA RunStep ==
  ASSUME GmailInv, [Next]_vars
  PROVE  RunInv'
<1> SUFFICES ASSUME NEW q \in Active' PROVE RunOf(q)'  BY DEF RunInv, RunOf
<1> USE DEF GmailInv
<1>q. q \in Pollers /\ pc'[q] \notin {"off", "exited"} /\ ~cancelled'[q]  BY DEF Active
<1>n. HistoryId \in Nat /\ saved \in Nat  BY DEF TypeOK, HistoryId
<1>a. ASSUME q \in Active  PROVE RunOf(q)  BY <1>a DEF RunInv, RunOf
<1>0. ASSUME /\ pc'[q] = pc[q] /\ cancelled'[q] = cancelled[q]
             /\ cursor'[q] = cursor[q] /\ next'[q] = next[q] /\ batch'[q] = batch[q]
             /\ settled \subseteq settled' /\ saved' \in Nat /\ saved' <= saved
      PROVE  RunOf(q)'
  <2>1. q \in Active  BY <1>0, <1>q DEF Active
  <2>2. QED  BY <1>0, <1>q, <1>a, <2>1, RunKept
<1>1. ASSUME NEW p \in Pollers, LoadCursor(p)  PROVE RunOf(q)'
  <2>1. CASE q # p  BY <1>1, <2>1, <1>0, <1>n, <1>q DEF LoadCursor, account
  <2>2. CASE q = p
    <3>1. /\ pc'[q] = "tick" /\ cursor'[q] = saved /\ saved # 0
          /\ saved' = saved /\ settled' = settled /\ history' = history
      BY <1>1, <2>2 DEF LoadCursor, TypeOK, account, google
    <3>2. {i \in WantedFrom(1) : i < saved} \subseteq settled  BY DEF CursorCoversOnlySettled
    <3>3. WantedFrom(1)' = WantedFrom(1)  BY <3>1 DEF WantedFrom
    <3>4. QED  BY <3>1, <3>2, <3>3, <1>n DEF RunOf, Below
  <2>3. QED  BY <2>1, <2>2
<1>2. ASSUME NEW p \in Pollers, FreshCursor(p)  PROVE RunOf(q)'
  <2>0. /\ saved' = saved /\ saved = 0 /\ settled' = settled \cup WantedFrom(1)
        /\ history' = history /\ cancelled' = cancelled
        /\ next' = next /\ batch' = batch
    BY <1>2 DEF FreshCursor, TokenWorks, google
  <2>1. CASE q # p  BY <1>2, <2>0, <2>1, <1>0, <1>n, <1>q DEF FreshCursor
  <2>2. CASE q = p
    <3>1. pc'[q] = "bootSave" /\ cursor'[q] = HistoryId
      BY <1>2, <2>2 DEF FreshCursor, TypeOK
    <3>2. HistoryId # 0  BY DEF HistoryId, TypeOK
    <3>3. WantedFrom(1)' = WantedFrom(1)  BY <2>0 DEF WantedFrom
    <3>4. QED  BY <2>0, <3>1, <3>2, <3>3, <1>n DEF RunOf, Below
  <2>3. QED  BY <2>1, <2>2
<1>3. ASSUME NEW p \in Pollers, SaveFreshCursor(p)  PROVE RunOf(q)'
  <2>0. p \in Active  BY <1>3 DEF SaveFreshCursor, Active
  <2>1. /\ UNCHANGED <<history, cancelled, cursor, next, batch, settled>>
        /\ saved' = saved \/ saved' = cursor[p]
        /\ pc' = [pc EXCEPT ![p] = "tick"]
    BY <1>3 DEF SaveFreshCursor, google, run
  <2>2. q = p
    <3>1. SUFFICES ASSUME q # p PROVE FALSE  OBVIOUS
    <3>2. q \in Active  BY <2>1, <3>1, <1>q DEF Active
    <3>3. QED  BY <2>0, <3>1, <3>2 DEF OnlyRegisteredActive
  <2>3. cursor[p] # 0 /\ saved <= cursor[p] /\ Below(cursor[p]) \subseteq settled
    BY <1>3, <2>0 DEF RunInv, RunOf, SaveFreshCursor
  <2>4. pc'[q] = "tick" /\ cursor'[q] = cursor[p] /\ cursor[p] \in Nat
    BY <2>1, <2>2, <1>n DEF TypeOK
  <2>5. WantedFrom(1)' = WantedFrom(1)  BY <2>1 DEF WantedFrom
  <2>6. QED  BY <2>1, <2>3, <2>4, <2>5, <1>n DEF RunOf, Below
<1>4. ASSUME NEW p \in Pollers, List(p)  PROVE RunOf(q)'
  <2>0. p \in Active /\ pc[p] = "tick"  BY <1>4 DEF List, Active
  <2>1. /\ UNCHANGED <<history, cancelled, cursor, saved>>
        /\ next' = [next EXCEPT ![p] = HistoryId]
    BY <1>4 DEF List, TokenWorks, google
  <2>2. CASE q # p
    <3>1. pc'[q] = pc[q] /\ batch'[q] = batch[q]  BY <1>4, <2>2, <1>q DEF List, TypeOK
    <3>2. next'[q] = next[q]  BY <2>1, <2>2, <1>q DEF TypeOK
    <3>3. settled \subseteq settled'  BY <1>4 DEF List
    <3>4. QED  BY <2>1, <3>1, <3>2, <3>3, <1>0, <1>n
  <2>3. CASE q = p
    <3>1. cursor[p] # 0 /\ saved <= cursor[p] /\ Below(cursor[p]) \subseteq settled
      BY <2>0 DEF RunInv, RunOf
    <3>2. cursor[p] \in 0..HistoryId /\ next'[p] = HistoryId /\ cursor'[p] = cursor[p]
      BY <2>1, <1>n DEF TypeOK
    <3>3. WantedFrom(1) \subseteq Below(cursor[p]) \cup WantedFrom(cursor[p])
      BY <3>1, <3>2 DEF Below, WantedFrom, HistoryId, TypeOK
    <3>4. \/ pc'[p] = "fetch" /\ batch'[p] = WantedFrom(cursor[p]) /\ settled' = settled
          \/ pc'[p] = "save" /\ settled' = settled \cup WantedFrom(cursor[p])
      BY <1>4 DEF List, TypeOK
    <3>5. WantedFrom(1)' = WantedFrom(1)  BY <2>1 DEF WantedFrom
    <3>6. QED  BY <2>1, <2>3, <3>1, <3>2, <3>3, <3>4, <3>5, <1>n DEF RunOf, Below
  <2>4. QED  BY <2>2, <2>3
<1>5. ASSUME NEW p \in Pollers, NEW i \in 1..MaxRecords, Fetch(p, i)  PROVE RunOf(q)'
  <2>1. /\ UNCHANGED <<history, cancelled, cursor, next, saved, pc>>
        /\ batch' = [batch EXCEPT ![p] = @ \ {i}]
        /\ settled \subseteq settled'
        /\ ~cancelled[p] => settled' = settled \cup {i}
    BY <1>5, FetchRow DEF Fetch, google
  <2>2. CASE q # p  BY <2>1, <2>2, <1>0, <1>n, <1>q DEF TypeOK
  <2>3. CASE q = p
    <3>1. q \in Active /\ RunOf(q)  BY <2>1, <1>q, <1>a DEF Active
    <3>2. batch'[q] = batch[q] \ {i} /\ settled' = settled \cup {i}
      BY <2>1, <2>3, <1>q DEF TypeOK
    <3>3. WantedFrom(1)' = WantedFrom(1)  BY <2>1 DEF WantedFrom
    <3>4. QED  BY <2>1, <3>1, <3>2, <3>3 DEF RunOf, Below
  <2>4. QED  BY <2>2, <2>3
<1>6. ASSUME NEW p \in Pollers, Fetched(p)  PROVE RunOf(q)'
  <2>1. /\ UNCHANGED <<history, cancelled, cursor, next, saved, batch, settled>>
        /\ pc' = [pc EXCEPT ![p] = IF next[p] = cursor[p] THEN "tick" ELSE "save"]
        /\ pc[p] = "fetch" /\ batch[p] = {}
    BY <1>6 DEF Fetched, google, account, run
  <2>2. CASE q # p  BY <2>1, <2>2, <1>0, <1>n, <1>q DEF TypeOK
  <2>3. CASE q = p
    <3>1. q \in Active /\ RunOf(q)  BY <2>1, <2>3, <1>q, <1>a DEF Active
    <3>2. pc'[q] \in {"tick", "save"}  BY <2>1, <2>3 DEF TypeOK
    <3>3. WantedFrom(1)' = WantedFrom(1)  BY <2>1 DEF WantedFrom
    <3>4. QED  BY <2>1, <2>3, <3>1, <3>2, <3>3 DEF RunOf, Below
  <2>4. QED  BY <2>2, <2>3
<1>7. ASSUME NEW p \in Pollers, SaveCursor(p)  PROVE RunOf(q)'
  <2>1. /\ UNCHANGED <<history, cancelled, next, batch, settled>>
        /\ pc' = [pc EXCEPT ![p] = "tick"] /\ pc[p] = "save"
        /\ \/ /\ ~cancelled[p] /\ saved' \in {saved, next[p]}
              /\ cursor' = [cursor EXCEPT ![p] = next[p]]
           \/ UNCHANGED <<saved, cursor>>
    BY <1>7 DEF SaveCursor, google
  <2>2. CASE UNCHANGED <<saved, cursor>>
    <3>1. CASE q # p  BY <2>1, <2>2, <3>1, <1>0, <1>n, <1>q DEF TypeOK
    <3>2. CASE q = p
      <4>1. q \in Active /\ RunOf(q)  BY <2>1, <3>2, <1>q, <1>a DEF Active
      <4>2. pc'[q] = "tick"  BY <2>1, <3>2 DEF TypeOK
      <4>3. WantedFrom(1)' = WantedFrom(1)  BY <2>1 DEF WantedFrom
      <4>4. QED  BY <2>1, <2>2, <3>2, <4>1, <4>2, <4>3 DEF RunOf, Below
    <3>3. QED  BY <3>1, <3>2
  <2>3. CASE /\ ~cancelled[p] /\ saved' \in {saved, next[p]}
             /\ cursor' = [cursor EXCEPT ![p] = next[p]]
    <3>1. p \in Active  BY <2>1, <2>3 DEF Active
    <3>2. q = p
      <4>1. SUFFICES ASSUME q # p PROVE FALSE  OBVIOUS
      <4>2. q \in Active  BY <2>1, <4>1, <1>q DEF Active, TypeOK
      <4>3. QED  BY <3>1, <4>1, <4>2 DEF OnlyRegisteredActive
    <3>3. /\ cursor[p] # 0 /\ saved <= cursor[p] /\ cursor[p] <= next[p]
          /\ Below(next[p]) \subseteq settled
      BY <2>1, <3>1 DEF RunInv, RunOf
    <3>4. cursor[p] \in Nat /\ next[p] \in Nat  BY <1>n DEF TypeOK
    <3>5. pc'[q] = "tick" /\ cursor'[q] = next[p]  BY <2>1, <2>3, <3>2 DEF TypeOK
    <3>6. WantedFrom(1)' = WantedFrom(1)  BY <2>1 DEF WantedFrom
    <3>7. QED  BY <2>1, <2>3, <3>3, <3>4, <3>5, <3>6, <1>n DEF RunOf, Below
  <2>4. QED  BY <2>1, <2>2, <2>3
<1>8. ASSUME NEW p \in Pollers, Exit(p) \/ TokenDies(p) \/ BootFails(p)  PROVE RunOf(q)'
  <2>1. /\ UNCHANGED <<saved, cancelled, cursor, next, batch, settled>>
        /\ \/ UNCHANGED pc
           \/ pc' = [pc EXCEPT ![p] = "off"] \/ pc' = [pc EXCEPT ![p] = "exited"]
    <3>1. CASE Exit(p)  BY <3>1 DEF Exit, run, account
    <3>2. CASE TokenDies(p)
      <4>1. pc' = [pc EXCEPT ![p] = "exited"] \/ pc' = pc  BY <3>2 DEF TokenDies, TypeOK
      <4>2. QED  BY <3>2, <4>1 DEF TokenDies, RefreshFails, run
    <3>3. CASE BootFails(p)  BY <3>3 DEF BootFails, run, account
    <3>4. QED  BY <1>8, <3>1, <3>2, <3>3
  <2>2. pc'[q] = pc[q]  BY <2>1, <1>q DEF TypeOK
  <2>3. QED  BY <2>1, <2>2, <1>0, <1>n
<1>9. ASSUME NEW i \in 1..MaxRecords, Backlog(i)  PROVE RunOf(q)'
  BY <1>9, <1>0, <1>n DEF Backlog, account, run
<1>10. CASE Crash  BY <1>10, <1>q DEF Crash
<1>11. CASE Quiet  BY <1>11, <1>0, <1>n, QuietStep DEF run
<1>12. CASE CompleteLogin \/ Restart
  <2>1. /\ UNCHANGED <<saved, cursor, next, batch, settled>>
        /\ \/ pc'[q] = pc[q] /\ cancelled'[q] = cancelled[q]
           \/ pc'[q] = "boot"
    BY <1>12, <1>q, LoadStep DEF TypeOK
  <2>2. CASE pc'[q] = "boot"  BY <2>2 DEF RunOf
  <2>3. QED  BY <2>1, <2>2, <1>0, <1>n
<1>13. CASE RevokeStop
  <2>1. pc'[q] = pc[q] /\ cancelled'[q] = cancelled[q]
    BY <1>13, <1>q, StopStep DEF TypeOK
  <2>2. QED  BY <1>13, <2>1, <1>0, <1>n, StopStep
<1>14. CASE DeleteAccount  BY <1>14, <1>0, <1>n DEF DeleteAccount, run
<1>15. ASSUME NEW k \in Kinds, NewRecord(k)  PROVE RunOf(q)'
  BY <1>15, <1>0, <1>n DEF NewRecord, account, run
<1>16. QED
  BY <1>1, <1>2, <1>3, <1>4, <1>5, <1>6, <1>7, <1>8, <1>9, <1>10, <1>11, <1>12, <1>13,
     <1>14, <1>15 DEF Next, Poll, Quiet

-----------------------------------------------------------------------------
\* The saved cursor covers settled messages only, whoever saves it.
LEMMA CoverStep ==
  ASSUME GmailInv, [Next]_vars
  PROVE  CursorCoversOnlySettled'
<1> USE DEF GmailInv
<1>n. HistoryId \in Nat /\ saved \in 0..HistoryId  BY DEF TypeOK, HistoryId
<1>1. ASSUME saved' = saved \/ saved' = 0, settled \subseteq settled'
      PROVE  CursorCoversOnlySettled'
  <2>1. \A i \in WantedFrom(1)' : i \in Nat /\ i # 0
    <3>1. Len(history)' \in Nat
      <4>1. CASE history' = history  BY <4>1 DEF TypeOK
      <4>2. ASSUME NEW k \in Kinds, NewRecord(k)  PROVE Len(history)' \in Nat
        BY <4>2 DEF NewRecord, TypeOK
      <4>3. QED  BY <4>1, <4>2, HistoryStep
    <3>2. QED  BY <3>1 DEF WantedFrom
  <2>2. CASE saved' = 0  BY <2>1, <2>2 DEF CursorCoversOnlySettled
  <2>3. CASE saved' = saved
    <3>1. {i \in WantedFrom(1)' : i < saved} = Below(saved)  BY <1>n, BelowKept
    <3>2. QED  BY <1>1, <2>3, <3>1 DEF CursorCoversOnlySettled, Below
  <2>4. QED  BY <1>1, <2>2, <2>3
<1>2. ASSUME NEW p \in Pollers, SaveFreshCursor(p)  PROVE CursorCoversOnlySettled'
  <2>1. p \in Active /\ pc[p] = "bootSave"  BY <1>2 DEF SaveFreshCursor, Active
  <2>2. Below(cursor[p]) \subseteq settled  BY <2>1 DEF RunInv, RunOf
  <2>3. /\ saved' \in {saved, cursor[p]} /\ UNCHANGED <<history, settled>>
    BY <1>2 DEF SaveFreshCursor, google
  <2>4. WantedFrom(1)' = WantedFrom(1)  BY <2>3 DEF WantedFrom
  <2>5. QED  BY <2>2, <2>3, <2>4 DEF CursorCoversOnlySettled, Below
<1>3. ASSUME NEW p \in Pollers, SaveCursor(p)  PROVE CursorCoversOnlySettled'
  <2>1. UNCHANGED <<history, settled>> /\ pc[p] = "save"  BY <1>3 DEF SaveCursor, google
  <2>2. saved' = saved \/ (~cancelled[p] /\ saved' = next[p])  BY <1>3 DEF SaveCursor
  <2>3. WantedFrom(1)' = WantedFrom(1)  BY <2>1 DEF WantedFrom
  <2>4. ~cancelled[p] => Below(next[p]) \subseteq settled  BY <2>1 DEF RunInv, RunOf, Active
  <2>5. QED  BY <2>1, <2>2, <2>3, <2>4 DEF CursorCoversOnlySettled, Below
<1>4. ASSUME NEW p \in Pollers,
             \/ LoadCursor(p) \/ FreshCursor(p) \/ List(p) \/ Fetched(p) \/ Exit(p)
             \/ TokenDies(p) \/ BootFails(p) \/ \E i \in 1..MaxRecords : Fetch(p, i)
      PROVE  saved' = saved /\ settled \subseteq settled'
  BY <1>4 DEF LoadCursor, FreshCursor, List, Fetched, Exit, TokenDies, BootFails, Fetch,
              TokenWorks, RefreshFails, account
<1>5. ASSUME \/ Quiet \/ CompleteLogin \/ Restart \/ RevokeStop
      PROVE  saved' = saved /\ settled \subseteq settled'
  BY <1>5, QuietStep, LoadStep, StopStep
<1>6. ASSUME \/ Crash \/ DeleteAccount \/ \E k \in Kinds : NewRecord(k)
             \/ \E i \in 1..MaxRecords : Backlog(i)
      PROVE  (saved' = saved \/ saved' = 0) /\ settled \subseteq settled'
  BY <1>6 DEF Crash, DeleteAccount, NewRecord, Backlog, account
<1>7. QED  BY <1>1, <1>2, <1>3, <1>4, <1>5, <1>6 DEF Next, Poll, Quiet

-----------------------------------------------------------------------------
\* The bridge starts without a row, a poller or a mail.
LEMMA GmailInit == Init => GmailInv
<1> SUFFICES ASSUME Init PROVE GmailInv  OBVIOUS
<1>1. TypeOK
  <2>1. history \in Seq(Kinds) /\ Len(history) = 0  BY DEF Init
  <2>2. oldest \in 1..(MaxRecords + 1)  BY MailboxBounds DEF Init
  <2>3. cancelled \in [Pollers -> BOOLEAN] /\ stored \in [Pollers -> BOOLEAN]  BY DEF Init
  <2>4. pc \in [Pollers -> {"off", "boot", "bootSave", "tick", "fetch", "save", "exited"}]
    BY DEF Init
  <2>5. /\ token \in [Pollers -> 0..grants] /\ cursor \in [Pollers -> 0..HistoryId]
        /\ next \in [Pollers -> 0..HistoryId] /\ batch \in [Pollers -> SUBSET (1..MaxRecords)]
    BY <2>1 DEF Init, HistoryId
  <2>6. /\ grants \in 0..MaxGrants /\ good \subseteq 1..grants /\ rowToken \in 0..grants
        /\ saved \in 0..HistoryId /\ Len(history) <= MaxRecords
    BY <2>1, MailboxBounds DEF Init, HistoryId
  <2>7. QED  BY <2>1, <2>2, <2>3, <2>4, <2>5, <2>6 DEF Init, TypeOK
<1>2. Active = {}  BY DEF Init, Active
<1>3. WantedFrom(1) = {}  BY DEF Init, WantedFrom
<1>4. OnlyMessages /\ ListsInFetch  BY DEF Init, OnlyMessages, ListsInFetch
<1>5. QED
  BY <1>1, <1>2, <1>3, <1>4 DEF GmailInv, OnlyRegisteredActive, CursorCoversOnlySettled, RunInv

\* GmailInv is an invariant: at each place in Run, a poller that is not
\* cancelled is the registered one and has seen its cursor's messages through.
THEOREM GmailInvariant == Spec => []GmailInv
<1>1. GmailInv /\ [Next]_vars => GmailInv'
  BY TypeStep, MessagesStep, ListsStep, OwnerStep, CoverStep, RunStep DEF GmailInv
<1>2. QED  BY <1>1, GmailInit, PTL DEF Spec

\* Every field of the poller, the manager and the account keeps its type.
THEOREM GmailTypes == Spec => []TypeOK
<1>1. GmailInv => TypeOK  BY DEF GmailInv
<1>2. QED  BY <1>1, GmailInvariant, PTL

\* The persisted cursor covers only settled messages, whatever crashes, failed saves,
\* stops half way and overlapping pollers do; a settled one may have been given up.
THEOREM GmailCoversOnlySettled == Spec => []CursorCoversOnlySettled
<1>1. GmailInv => CursorCoversOnlySettled  BY DEF GmailInv
<1>2. QED  BY <1>1, GmailInvariant, PTL

\* At most one poller works on the account, and Stop reaches it.
THEOREM GmailOnePoller == Spec => []OnlyRegisteredActive
<1>1. GmailInv => OnlyRegisteredActive  BY DEF GmailInv
<1>2. QED  BY <1>1, GmailInvariant, PTL

\* The persisted cursor never goes back while the account's row lives.
THEOREM GmailCursorAdvances == Spec => CursorOnlyAdvances
<1>1. ASSUME GmailInv, [Next]_vars, row # "absent", row' # "absent"
      PROVE  saved' >= saved
  <2> USE <1>1 DEF GmailInv
  <2>n. saved \in Int  BY DEF TypeOK, HistoryId
  <2>1. CASE saved' = saved  BY <2>1, <2>n
  <2>2. ASSUME NEW p \in Pollers, SaveFreshCursor(p)  PROVE saved' >= saved
    <3>1. p \in Active /\ pc[p] = "bootSave"  BY <2>2 DEF SaveFreshCursor, Active
    <3>2. saved <= cursor[p] /\ cursor[p] \in Int
      BY <3>1, SMTT(30) DEF RunInv, RunOf, TypeOK, Active, HistoryId
    <3>3. QED  BY <2>2, <2>n, <3>2 DEF SaveFreshCursor
  <2>3. ASSUME NEW p \in Pollers, SaveCursor(p)  PROVE saved' >= saved
    <3>1. CASE ~cancelled[p]
      <4>1. p \in Active /\ pc[p] = "save"  BY <2>3, <3>1 DEF SaveCursor, Active
      <4>2. saved <= cursor[p] /\ cursor[p] <= next[p]  BY <4>1 DEF RunInv, RunOf
      <4>3. cursor[p] \in Int /\ next[p] \in Int  BY DEF TypeOK, HistoryId
      <4>4. saved' = saved \/ saved' = next[p]  BY <2>3 DEF SaveCursor
      <4>5. QED  BY <2>n, <4>2, <4>3, <4>4
    <3>2. CASE cancelled[p]  BY <2>3, <3>2, <2>n DEF SaveCursor
    <3>3. QED  BY <3>1, <3>2
  <2>4. ~DeleteAccount  BY <1>1 DEF DeleteAccount
  <2>5. ASSUME NEW p \in Pollers,
               \/ LoadCursor(p) \/ FreshCursor(p) \/ List(p) \/ Fetched(p) \/ Exit(p)
               \/ TokenDies(p) \/ BootFails(p) \/ \E i \in 1..MaxRecords : Fetch(p, i)
        PROVE  saved' = saved
    BY <2>5 DEF LoadCursor, FreshCursor, List, Fetched, Exit, TokenDies, BootFails, Fetch,
                TokenWorks, RefreshFails, account
  <2>6. ASSUME \/ Quiet \/ CompleteLogin \/ Restart \/ RevokeStop
        PROVE  saved' = saved
    BY <2>6, QuietStep, LoadStep, StopStep
  <2>7. ASSUME \/ Crash \/ \E k \in Kinds : NewRecord(k)
               \/ \E i \in 1..MaxRecords : Backlog(i)
        PROVE  saved' = saved
    BY <2>7 DEF Crash, NewRecord, Backlog, account
  <2>8. QED  BY <1>1, <2>1, <2>2, <2>3, <2>4, <2>5, <2>6, <2>7 DEF Next, Poll, Quiet
<1>2. GmailInv /\ [Next]_vars => [row # "absent" /\ row' # "absent" => saved' >= saved]_vars
  BY <1>1
<1>3. QED  BY <1>2, GmailInvariant, PTL DEF Spec, CursorOnlyAdvances

-----------------------------------------------------------------------------
\* Listed by some poller and not settled; what the saved cursor covers.
Hand == (UNION {batch[p] : p \in Pollers}) \ settled
Covered == {i \in WantedFrom(1) : i < saved}

\* A step that keeps the lists, up to what it settles, is one of
\* InboundDelivery, whatever it does to the saved cursor.
LEMMA SettleMaps ==
  ASSUME GmailInv, [Next]_vars, history' = history, settled \subseteq settled', batch' = batch
  PROVE  Delivery!Next
<1>1. WantedFrom(1)' = WantedFrom(1)  BY DEF WantedFrom
<1>2. settled' \subseteq WantedFrom(1)  BY <1>1, MessagesStep DEF GmailInv, OnlyMessages
<1>3. Hand' = Hand \ settled'  BY DEF Hand
<1>4. Covered' \subseteq settled'  BY CoverStep DEF CursorCoversOnlySettled, Covered
<1>5. Delivery!Cover  BY <1>1, <1>2, <1>3, <1>4 DEF Delivery!Cover, Hand, Covered
<1>6. QED  BY <1>5 DEF Delivery!Next

\* Every step is one of InboundDelivery.
LEMMA DeliveryStep ==
  ASSUME GmailInv, [Next]_vars
  PROVE  Delivery!Next \/ UNCHANGED Delivery!vars
<1> USE DEF GmailInv
<1>1. ASSUME NEW k \in Kinds, NewRecord(k)  PROVE Delivery!Next
  <2>1. UNCHANGED <<batch, settled, saved>>  BY <1>1 DEF NewRecord, account, run
  <2>2. WantedFrom(1) \subseteq WantedFrom(1)'  BY MessagesGrow
  <2>3. saved \in 0..HistoryId  BY DEF TypeOK
  <2>4. Covered' = Covered  BY <2>1, <2>3, BelowKept DEF Covered, Below
  <2>5. Delivery!Arrive  BY <2>1, <2>2, <2>4 DEF Delivery!Arrive, Covered
  <2>6. QED  BY <2>5 DEF Delivery!Next
<1>2. ASSUME NEW p \in Pollers, List(p)  PROVE Delivery!Next
  <2>1. history' = history /\ saved' = saved /\ settled \subseteq settled'
    BY <1>2 DEF List, google, TokenWorks
  <2>2. CASE batch' = batch  BY <2>1, <2>2, SettleMaps
  <2>3. CASE batch' = [batch EXCEPT ![p] = WantedFrom(cursor[p])] /\ settled' = settled
    <3>1. WantedFrom(1)' = WantedFrom(1)  BY <2>1 DEF WantedFrom
    <3>2. batch[p] = {}  BY <1>2 DEF List, ListsInFetch
    <3>3. Hand \subseteq Hand'  BY <2>3, <3>2 DEF Hand, TypeOK
    <3>4. Hand' \subseteq WantedFrom(1) /\ Hand' \cap settled' = {}
      BY <3>1, MessagesStep DEF Hand, OnlyMessages
    <3>5. Covered' = Covered  BY <2>1, <3>1 DEF Covered
    <3>6. Delivery!TakeUp
      BY <2>3, <3>1, <3>3, <3>4, <3>5 DEF Delivery!TakeUp, Hand, Covered, OnlyMessages
    <3>7. QED  BY <3>6 DEF Delivery!Next
  <2>4. QED  BY <1>2, <2>2, <2>3 DEF List
<1>3. ASSUME UNCHANGED <<history, saved, settled>>, Hand' \subseteq Hand
      PROVE  Delivery!Next
  <2>1. WantedFrom(1)' = WantedFrom(1)  BY <1>3 DEF WantedFrom
  <2>2. Covered' = Covered  BY <1>3, <2>1 DEF Covered
  <2>3. Hand \cap Covered = {}  BY DEF CursorCoversOnlySettled, Covered, Hand
  <2>4. Delivery!GiveBack
    BY <1>3, <2>1, <2>2, <2>3 DEF Delivery!GiveBack, Hand, Covered
  <2>5. QED  BY <2>4 DEF Delivery!Next
<1>4. ASSUME NEW p \in Pollers, NEW i \in 1..MaxRecords, Fetch(p, i)  PROVE Delivery!Next
  <2>1. /\ UNCHANGED <<history, saved>> /\ i \in batch[p]
        /\ batch' = [batch EXCEPT ![p] = @ \ {i}]
    BY <1>4, FetchRow DEF Fetch, google
  <2>2. CASE settled' = settled
    <3>1. Hand' \subseteq Hand  BY <2>1, <2>2 DEF Hand, TypeOK
    <3>2. QED  BY <2>1, <2>2, <3>1, <1>3
  <2>3. CASE settled' = settled \cup {i}
    <3>1. WantedFrom(1)' = WantedFrom(1)  BY <2>1 DEF WantedFrom
    <3>2. Hand' = Hand \ settled'
      <4>1. \A q \in Pollers :
              batch'[q] \subseteq batch[q] /\ batch[q] \subseteq batch'[q] \cup {i}
        BY <2>1 DEF TypeOK
      <4>2. QED  BY <2>3, <4>1 DEF Hand
    <3>3. settled' \subseteq WantedFrom(1)  BY <3>1, MessagesStep DEF OnlyMessages
    <3>4. Covered' = Covered  BY <2>1, <3>1 DEF Covered
    <3>5. Delivery!Settle
      BY <2>3, <3>1, <3>2, <3>3, <3>4 DEF Delivery!Settle, Hand, Covered
    <3>6. QED  BY <3>5 DEF Delivery!Next
  <2>4. QED  BY <1>4, <2>2, <2>3 DEF Fetch
<1>5. CASE Crash
  <2>1. UNCHANGED <<history, saved, settled>> /\ batch' = [p \in Pollers |-> {}]
    BY <1>5 DEF Crash, google, account
  <2>2. Hand' \subseteq Hand  BY <2>1 DEF Hand
  <2>3. QED  BY <2>1, <2>2, <1>3
<1>6. ASSUME NEW p \in Pollers,
             \/ LoadCursor(p) \/ FreshCursor(p) \/ SaveFreshCursor(p) \/ Fetched(p)
             \/ SaveCursor(p) \/ Exit(p) \/ TokenDies(p) \/ BootFails(p)
      PROVE  history' = history /\ settled \subseteq settled' /\ batch' = batch
  BY <1>6 DEF LoadCursor, FreshCursor, SaveFreshCursor, Fetched, SaveCursor, Exit, TokenDies,
              BootFails, google, run
<1>7. ASSUME Quiet \/ CompleteLogin \/ Restart \/ RevokeStop
      PROVE  history' = history /\ settled \subseteq settled' /\ batch' = batch
  BY <1>7, QuietStep, LoadStep, StopStep DEF run
<1>8. ASSUME DeleteAccount \/ \E i \in 1..MaxRecords : Backlog(i)
      PROVE  history' = history /\ settled \subseteq settled' /\ batch' = batch
  BY <1>8 DEF DeleteAccount, Backlog, google, run
<1>9. QED
  BY <1>1, <1>2, <1>4, <1>5, <1>6, <1>7, <1>8, SettleMaps DEF Next, Poll, Quiet

\* The poller implements InboundDelivery: a message it drops, cancelled or
\* killed half way, is one the persisted cursor does not cover.
THEOREM GmailDelivers == Spec => DeliversAsPromised
<1>1. Init => Delivery!Init
  BY DEF Init, Delivery!Init, WantedFrom
<1>2. GmailInv /\ [Next]_vars => [Delivery!Next]_(Delivery!vars)  BY DeliveryStep
<1>3. QED  BY <1>1, <1>2, GmailInvariant, PTL DEF Spec, DeliversAsPromised, Delivery!Spec
=============================================================================
