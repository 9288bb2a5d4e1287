-------------------------- MODULE ImapInboxProofs --------------------------
(***************************************************************************)
(* Proofs about ImapInbox, for any finite set of goroutines, any number of *)
(* mails and any backfill limit.  A goroutine raises the watermark to what *)
(* it read some steps ago, so that this must be known to be taken up at    *)
(* each place in between (TakenInv); and a mail it drops because another   *)
(* has it in flight must be on the other's list (FlightInv).               *)
(***************************************************************************)
EXTENDS ImapInbox, WellFoundedInduction, FiniteSetTheorems, TLAPS

\* A nonempty set of naturals has a least element, and Min is it.
LEMMA MinIsLeast ==
  ASSUME NEW S \in SUBSET Nat, S # {}
  PROVE  Min(S) \in S /\ \A y \in S : Min(S) <= y
<1> DEFINE R == {ss \in Nat \X Nat : ss[1] < ss[2]}
<1>1. IsWellFoundedOn(R, Nat)  BY NatLessThanWellFounded DEF OpToRel
<1> HIDE DEF R
<1>2. PICK x \in S : \A y \in S : ~ (<<y, x>> \in R)  BY <1>1, WFMin
<1>3. ASSUME NEW y \in S  PROVE x <= y
  <2>1. x \in Nat /\ y \in Nat  OBVIOUS
  <2>2. ~ (y < x)
    <3>1. SUFFICES ASSUME y < x PROVE FALSE  OBVIOUS
    <3>2. <<y, x>> \in Nat \X Nat  BY <2>1
    <3>3. <<y, x>> \in R  BY <3>1, <3>2 DEF R
    <3>4. QED  BY <1>2, <3>3
  <2>3. QED  BY <2>1, <2>2
<1>4. QED  BY <1>3 DEF Min

\* A nonempty set of naturals with an upper bound has a greatest element, and
\* Max is it.
LEMMA MaxIsGreatest ==
  ASSUME NEW n \in Nat, NEW S \in SUBSET (0..n), S # {}
  PROVE  Max(S) \in S /\ \A y \in S : Max(S) >= y
<1> DEFINE T == {n - x : x \in S}
<1>1. T \in SUBSET Nat
  <2>1. \A x \in S : n - x \in Nat  OBVIOUS
  <2>2. QED  BY <2>1
<1>0. T # {}  OBVIOUS
<1>2. Min(T) \in T /\ \A y \in T : Min(T) <= y  BY <1>0, <1>1, MinIsLeast
<1>3. PICK x \in S : Min(T) = n - x  BY <1>2
<1>4. \A y \in S : x >= y
  <2>1. ASSUME NEW y \in S  PROVE x >= y
    <3>1. n - y \in T  OBVIOUS
    <3>2. n - x <= n - y  BY <1>2, <1>3, <3>1
    <3>3. QED  BY <3>2
  <2>2. QED  BY <2>1
<1>5. QED  BY <1>4 DEF Max
-----------------------------------------------------------------------------
\* The types of the connection, of the goroutines, and of the mail.
ConnTypes ==
  /\ connected \in BOOLEAN /\ idling \in BOOLEAN /\ stopClosed \in BOOLEAN
  /\ reconnect \in BOOLEAN
  /\ waits \in [Loops -> {"current", "closed", "old"}]
  /\ connecting \in Goroutines \cup {NoOne} /\ fresh \subseteq Goroutines
  /\ pc \in [Goroutines -> Steps]
  /\ after \in [Goroutines -> {"direct", "restart", "redo", "recover", "command", "signal"}]

MailTypes ==
  /\ uidNext \in 1..(MaxUID + 1) /\ lastUID \in 0..MaxUID
  /\ inFlight \subseteq UIDs /\ checked \subseteq UIDs /\ backfilled \subseteq UIDs
  /\ passedOver \subseteq UIDs
  /\ seen \in [Goroutines -> 0..MaxUID]
  /\ todo \in [Goroutines -> SUBSET UIDs]
  /\ high \in [Goroutines -> 0..MaxUID]

\* Together they are TypeOK.
LEMMA TypesTogether == TypeOK <=> ConnTypes /\ MailTypes
BY DEF TypeOK, ConnTypes, MailTypes

\* The connection and the places keep their types, whatever happens to the mail.
LEMMA ConnStep ==
  ASSUME ConnTypes, [Next]_vars
  PROVE  ConnTypes'
<1> USE DEF ConnTypes, Steps, Goto, Goroutines, conn, mail, locals
<1>1. ASSUME Arrive  PROVE ConnTypes'
  BY <1>1 DEF Arrive
<1>2. ASSUME NEW g \in Goroutines, BeginCheck(g)  PROVE ConnTypes'
  BY <1>2 DEF BeginCheck, Home
<1>3. ASSUME NEW g \in Goroutines, StopIDLE(g)  PROVE ConnTypes'
  BY <1>3 DEF StopIDLE, CloseStop
<1>4. ASSUME NEW g \in Goroutines, ReadLast(g)  PROVE ConnTypes'
  BY <1>4 DEF ReadLast, AfterCheck, Home
<1>5. ASSUME NEW g \in Goroutines, Status(g)  PROVE ConnTypes'
  BY <1>5 DEF Status, AfterCheck, Home, CommandFails, HardError
<1>6. ASSUME NEW g \in Goroutines, Rebase(g)  PROVE ConnTypes'
  BY <1>6 DEF Rebase, AfterCheck, Home
<1>7. ASSUME NEW g \in Goroutines, Search(g)  PROVE ConnTypes'
  BY <1>7 DEF Search, AfterCheck, Home, CommandFails, HardError
<1>8. ASSUME NEW g \in Goroutines, Advance(g)  PROVE ConnTypes'
  BY <1>8 DEF Advance
<1>9. ASSUME NEW g \in Goroutines, StartUID(g)  PROVE ConnTypes'
  BY <1>9 DEF StartUID, AfterCheck, Home
<1>10. ASSUME NEW g \in Goroutines, EndUID(g)  PROVE ConnTypes'
  BY <1>10 DEF EndUID
<1>11. ASSUME NEW g \in Goroutines, Restart(g)  PROVE ConnTypes'
  BY <1>11 DEF Restart
<1>12. ASSUME NEW g \in Goroutines, Start(g)  PROVE ConnTypes'
  <2>1. CASE ~idling /\ connected
    <3>1. idling' = TRUE /\ stopClosed' = FALSE  BY <1>12, <2>1 DEF Start
    <3>2. waits' \in [Loops -> {"current", "closed", "old"}]  BY <1>12, <2>1 DEF Start
    <3>3. fresh' \subseteq Goroutines /\ pc' \in [Goroutines -> Steps]
      BY <1>12, <2>1 DEF Start
    <3>4. UNCHANGED <<connected, reconnect, connecting, after>>  BY <1>12, <2>1 DEF Start
    <3>5. QED  BY <3>1, <3>2, <3>3, <3>4
  <2>2. CASE ~(~idling /\ connected)
    <3>1. /\ idling' = (idling /\ (connecting # g \/ after[g] = "redo"))
          /\ UNCHANGED <<connected, reconnect, stopClosed, waits, fresh>>
      BY <1>12, <2>2 DEF Start
    <3>2. idling' \in BOOLEAN  BY <3>1
    <3>3. /\ connecting' \in Goroutines \cup {NoOne} /\ pc' \in [Goroutines -> Steps]
          /\ after' \in [Goroutines -> {"direct", "restart", "redo", "recover", "command",
                                        "signal"}]
      BY <1>12, <2>2 DEF Start, StartFails, Unlock, Home
    <3>4. QED  BY <3>1, <3>2, <3>3
  <2>3. QED  BY <2>1, <2>2
<1>13. ASSUME NEW g \in Goroutines, PrimeStatus(g)  PROVE ConnTypes'
  BY <1>13 DEF PrimeStatus, StartAborts, StartFails, Unlock, Home
<1>14. ASSUME NEW g \in Goroutines, PrimeSet(g)  PROVE ConnTypes'
  BY <1>14 DEF PrimeSet
<1>15. ASSUME NEW g \in Goroutines, PrimeSearch(g)  PROVE ConnTypes'
  BY <1>15 DEF PrimeSearch, StartAborts, StartFails, Unlock, Home
<1>16. ASSUME NEW g \in Goroutines, NEW ok \in BOOLEAN, Backfill(g, ok)  PROVE ConnTypes'
  BY <1>16 DEF Backfill
<1>17. ASSUME NEW g \in Goroutines, PrimeDone(g)  PROVE ConnTypes'
  BY <1>17 DEF PrimeDone
<1>18. ASSUME NEW g \in Goroutines, Probe(g)  PROVE ConnTypes'
  BY <1>18 DEF Probe, StartAborts, StartFails, Unlock, Home
<1>19. ASSUME NEW g \in Goroutines, Disconnect(g)  PROVE ConnTypes'
  BY <1>19 DEF Disconnect, Lock, CloseStop
<1>20. ASSUME NEW g \in Goroutines, Connect(g)  PROVE ConnTypes'
  BY <1>20 DEF Connect, Home
<1>21. ASSUME NEW g \in Goroutines, ForceClose(g)  PROVE ConnTypes'
  BY <1>21 DEF ForceClose, Lock
<1>22. ASSUME NEW g \in Goroutines, ConnectReset(g)  PROVE ConnTypes'
  BY <1>22 DEF ConnectReset, StartAborts, StartFails, Unlock, Home
<1>23. ASSUME NEW g \in Loops, HearStopInLoop(g)  PROVE ConnTypes'
  BY <1>23 DEF HearStopInLoop
<1>24. ASSUME NEW g \in Loops, Exit(g)  PROVE ConnTypes'
  BY <1>24 DEF Exit
<1>25. ASSUME NEW g \in Loops, TakeSignal(g)  PROVE ConnTypes'
  BY <1>25 DEF TakeSignal
<1>26. ASSUME NEW g \in Loops, EnterIdle(g)  PROVE ConnTypes'
  BY <1>26 DEF EnterIdle, HardError
<1>27. ASSUME NEW g \in Loops, HearStopInIdle(g)  PROVE ConnTypes'
  BY <1>27 DEF HearStopInIdle
<1>28. ASSUME NEW g \in Loops, TimerFires(g)  PROVE ConnTypes'
  BY <1>28 DEF TimerFires
<1>29. ASSUME NEW g \in Loops, Recover(g)  PROVE ConnTypes'
  BY <1>29 DEF Recover
<1>30. ASSUME NEW g \in Commands, RunCommand(g)  PROVE ConnTypes'
  BY <1>30 DEF RunCommand
<1>31. ASSUME UNCHANGED vars  PROVE ConnTypes'
  BY <1>31 DEF vars
<1>32. QED
  BY <1>1, <1>2, <1>3, <1>4, <1>5, <1>6, <1>7, <1>8, <1>9, <1>10, <1>11, <1>12, <1>13,
     <1>14, <1>15, <1>16, <1>17, <1>18, <1>19, <1>20, <1>21, <1>22, <1>23, <1>24, <1>25, <1>26,
     <1>27, <1>28, <1>29, <1>30, <1>31
     DEF Next, Check, StartIDLE, IdleLoop

-----------------------------------------------------------------------------
\* Places at which a goroutine may hold a list of mails.
Listing == {"advance", "process", "fetch", "backfill"}

\* Taken up, or stepped over.
Taken == Processed \cup passedOver \cup Pending

\* Nothing is known of a mail that has not arrived.
InMailbox ==
  /\ lastUID < uidNext
  /\ checked \subseteq Mailbox /\ backfilled \subseteq Mailbox /\ passedOver \subseteq Mailbox
  /\ \A g \in Goroutines : todo[g] \subseteq Mailbox /\ seen[g] < uidNext /\ high[g] < uidNext

\* Who holds a list, and when it is not empty.
ListsHeld ==
  \A g \in Goroutines : /\ pc[g] \notin Listing => todo[g] = {}
                        /\ pc[g] \in {"advance", "fetch"} => todo[g] # {}

\* What a goroutine is about to raise the watermark to covers mails taken up.
TakenOf(g) ==
  /\ pc[g] \in {"search", "primeSearch"} => 1..seen[g] \subseteq Taken
  /\ pc[g] \in {"advance", "backfill"} => \A u \in todo[g] : 1..u \subseteq Taken
  /\ 1..high[g] \subseteq Taken

TakenInv == \A g \in Goroutines : TakenOf(g)

\* The in-flight set is what the fetching goroutines have at the head of their
\* lists, and no two have the same.
FlightInv ==
  /\ inFlight = {Min(todo[g]) : g \in Fetching}
  /\ \A g, h \in Fetching : Min(todo[g]) = Min(todo[h]) => g = h

\* The inductive invariant of the INBOX connection.
InboxInv ==
  /\ TypeOK /\ InMailbox /\ ListsHeld /\ FlightInv /\ TakenInv /\ MailAccounted
  /\ IdlingCanBeStopped

\* Steps that leave the mail alone: a goroutine moves, perhaps after reading
\* the mailbox's end, between places where it holds no list.
Aside ==
  /\ UNCHANGED <<mail, todo, high>>
  /\ \A g \in Goroutines :
       \/ pc'[g] = pc[g] /\ seen'[g] = seen[g]
       \/ /\ pc[g] \notin Listing
          /\ pc'[g] \notin Listing \cup {"search", "primeSearch"}
          /\ seen'[g] \in 0..(uidNext - 1)
  /\ seen' \in [Goroutines -> 0..MaxUID]

\* A goroutine's step on the mail.
MailStep(g) ==
  \/ ReadLast(g) /\ connected /\ lastUID # 0
  \/ Rebase(g) \/ Search(g) \/ Advance(g) \/ StartUID(g) \/ EndUID(g)
  \/ PrimeSet(g) \/ PrimeSearch(g) \/ PrimeDone(g) \/ \E ok \in BOOLEAN : Backfill(g, ok)

\* Every step is of one of these kinds.
LEMMA StepKinds ==
  ASSUME TypeOK, InMailbox, [Next]_vars
  PROVE  Aside \/ Arrive \/ \E g \in Goroutines : MailStep(g)
<1> USE DEF Listing
<1>m. MailTypes /\ ConnTypes  BY TypesTogether
<1>u. uidNext - 1 \in 0..MaxUID /\ lastUID \in 0..(uidNext - 1)
  BY <1>m, BoundsAreNaturals DEF MailTypes, InMailbox
<1>s. \A g \in Goroutines : seen[g] \in 0..(uidNext - 1)
  BY <1>m, <1>u DEF InMailbox, MailTypes
<1>1. ASSUME NEW g \in Goroutines, NEW s \in Steps, pc[g] \notin Listing,
             s \notin Listing \cup {"search", "primeSearch"}, pc' = [pc EXCEPT ![g] = s],
             UNCHANGED <<mail, todo, high>>,
             seen' = seen \/ \E n \in 0..(uidNext - 1) : seen' = [seen EXCEPT ![g] = n]
      PROVE  Aside
  <2>1. \A h \in Goroutines \ {g} : pc'[h] = pc[h] /\ seen'[h] = seen[h]
    BY <1>1, <1>m DEF MailTypes, ConnTypes
  <2>2. pc'[g] = s /\ seen'[g] \in 0..(uidNext - 1)  BY <1>1, <1>m, <1>s DEF MailTypes, ConnTypes
  <2>3. seen' \in [Goroutines -> 0..MaxUID]
    <3>1. seen \in [Goroutines -> 0..MaxUID] /\ 0..(uidNext - 1) \subseteq 0..MaxUID
      BY <1>m, <1>u, BoundsAreNaturals DEF MailTypes
    <3>2. CASE seen' = seen  BY <3>1, <3>2
    <3>3. ASSUME NEW n \in 0..(uidNext - 1), seen' = [seen EXCEPT ![g] = n]
          PROVE  seen' \in [Goroutines -> 0..MaxUID]
      BY <3>1, <3>3
    <3>4. QED  BY <1>1, <3>2, <3>3
  <2>4. QED  BY <1>1, <2>1, <2>2, <2>3 DEF Aside
<1>2. ASSUME NEW g \in Goroutines, BeginCheck(g) \/ StopIDLE(g) \/ Restart(g)  PROVE Aside
  BY <1>2, <1>1 DEF BeginCheck, StopIDLE, Restart, Goto, Home, Steps, locals
<1>3. ASSUME NEW g \in Goroutines, ReadLast(g), ~(connected /\ lastUID # 0)  PROVE Aside
  BY <1>3, <1>1, <1>u DEF ReadLast, Goto, AfterCheck, Home, Steps
<1>e. uidNext - 1 \in 0..(uidNext - 1)  BY <1>m DEF MailTypes
<1>4. ASSUME NEW g \in Goroutines, Status(g)  PROVE Aside
  <2>1. pc[g] = "status" /\ UNCHANGED <<mail, todo, high>>  BY <1>4 DEF Status
  <2>2. seen' = seen \/ seen' = [seen EXCEPT ![g] = uidNext - 1]  BY <1>4 DEF Status
  <2>3. \E s \in {"rebase", "restart", "loop", "done"} : pc' = [pc EXCEPT ![g] = s]
    BY <1>4 DEF Status, Goto, AfterCheck, Home
  <2>4. QED  BY <2>1, <2>2, <2>3, <1>1, <1>e DEF Steps
<1>5. ASSUME NEW g \in Goroutines, Start(g)  PROVE Aside
  BY <1>5, <1>1 DEF Start, StartFails, Goto, Home, Steps
<1>6. ASSUME NEW g \in Goroutines, PrimeStatus(g)  PROVE Aside
  <2>1. pc[g] = "primeStatus" /\ UNCHANGED <<mail, todo, high>>  BY <1>6 DEF PrimeStatus
  <2>2. seen' = seen \/ seen' = [seen EXCEPT ![g] = uidNext - 1]  BY <1>6 DEF PrimeStatus
  <2>3. \E s \in {"primeSet", "recover", "reset", "loop", "done"} : pc' = [pc EXCEPT ![g] = s]
    BY <1>6 DEF PrimeStatus, StartAborts, StartFails, Goto, Home
  <2>4. QED  BY <2>1, <2>2, <2>3, <1>1, <1>e DEF Steps
<1>7. ASSUME NEW g \in Goroutines, Probe(g)  PROVE Aside
  <2>1. CASE \E l \in Loops \ {g} :
               pc[l] = "free" /\ pc' = [pc EXCEPT ![l] = "loop", ![g] = Home(g)]
             /\ UNCHANGED <<mail, seen, todo, high>>
    <3>1. PICK l \in Loops \ {g} :
               pc[l] = "free" /\ pc' = [pc EXCEPT ![l] = "loop", ![g] = Home(g)]
      BY <2>1
    <3>2. \A h \in Goroutines : \/ pc'[h] = pc[h]
                                \/ pc[h] \notin Listing /\ pc'[h] \in {"loop", "done"}
      BY <1>7, <3>1, <1>m DEF Probe, Home, ConnTypes, Goroutines
    <3>3. QED  BY <2>1, <3>2, <1>s, <1>m DEF Aside, MailTypes
  <2>2. CASE Goto(g, "reset") /\ UNCHANGED <<mail, seen, todo, high>>
    BY <1>7, <2>2, <1>1 DEF Probe, Goto, Steps
  <2>3. CASE StartAborts(g) /\ UNCHANGED <<mail, seen, todo, high>>
    BY <1>7, <2>3, <1>1 DEF Probe, StartAborts, StartFails, Goto, Home, Steps
  <2>4. QED  BY <1>7, <2>1, <2>2, <2>3 DEF Probe
<1>8. ASSUME NEW g \in Goroutines, Disconnect(g) \/ Connect(g) \/ ForceClose(g)  PROVE Aside
  BY <1>8, <1>1 DEF Disconnect, Connect, ForceClose, Goto, Home, Steps, locals
<1>9. ASSUME NEW g \in Goroutines, ConnectReset(g)  PROVE Aside
  BY <1>9, <1>1 DEF ConnectReset, StartAborts, StartFails, Goto, Home, Steps
<1>10. ASSUME NEW g \in Loops, IdleLoop(g)  PROVE Aside
  BY <1>10, <1>1 DEF IdleLoop, HearStopInLoop, Exit, TakeSignal, EnterIdle, HearStopInIdle,
                     TimerFires, Recover, Goto, Steps, locals, Goroutines
<1>11. ASSUME NEW g \in Commands, RunCommand(g)  PROVE Aside
  BY <1>11, <1>1 DEF RunCommand, Goto, Steps, Goroutines
<1>12. CASE UNCHANGED vars  BY <1>12, <1>m DEF vars, Aside, mail, MailTypes
<1>13. QED
  BY <1>2, <1>3, <1>4, <1>5, <1>6, <1>7, <1>8, <1>9, <1>10, <1>11, <1>12
     DEF Next, Check, StartIDLE, MailStep

-----------------------------------------------------------------------------
\* A step on the mail is one goroutine's: the others stay where they are.
LEMMA OthersStay ==
  ASSUME TypeOK, NEW g \in Goroutines, MailStep(g)
  PROVE  /\ uidNext' = uidNext
         /\ \A h \in Goroutines \ {g} :
              pc'[h] = pc[h] /\ seen'[h] = seen[h] /\ todo'[h] = todo[h] /\ high'[h] = high[h]
<1> USE DEF TypeOK, Goto, mail, locals
<1>1. CASE ReadLast(g) \/ Rebase(g) \/ Advance(g) \/ PrimeSet(g) \/ PrimeDone(g)
  BY <1>1 DEF ReadLast, Rebase, Advance, PrimeSet, PrimeDone
<1>2. CASE Search(g)  BY <1>2 DEF Search
<1>3. CASE StartUID(g) \/ EndUID(g)  BY <1>3 DEF StartUID, EndUID
<1>4. CASE PrimeSearch(g)  BY <1>4 DEF PrimeSearch, StartAborts, StartFails
<1>5. ASSUME NEW ok \in BOOLEAN, Backfill(g, ok)
      PROVE  /\ uidNext' = uidNext
             /\ \A h \in Goroutines \ {g} :
                  /\ pc'[h] = pc[h] /\ seen'[h] = seen[h]
                  /\ todo'[h] = todo[h] /\ high'[h] = high[h]
  BY <1>5 DEF Backfill
<1>6. QED  BY <1>1, <1>2, <1>3, <1>4, <1>5 DEF MailStep

\* A list that is not empty has a head, and the greatest of its mails.
LEMMA HeadOfList ==
  ASSUME TypeOK, NEW g \in Goroutines, todo[g] # {}
  PROVE  /\ Min(todo[g]) \in todo[g]
         /\ Max(todo[g]) \in todo[g] /\ \A u \in todo[g] : u <= Max(todo[g])
<1>1. todo[g] \in SUBSET (0..MaxUID) /\ MaxUID \in Nat
  BY BoundsAreNaturals DEF TypeOK, UIDs
<1>2. todo[g] \in SUBSET Nat  BY <1>1
<1>3. Min(todo[g]) \in todo[g]  BY <1>2, MinIsLeast
<1>4. Max(todo[g]) \in todo[g] /\ \A u \in todo[g] : Max(todo[g]) >= u
  BY <1>1, MaxIsGreatest
<1>5. QED
  <2>1. \A u \in todo[g] : u \in Nat /\ Max(todo[g]) \in Nat  BY <1>2, <1>4
  <2>2. QED  BY <1>3, <1>4, <2>1

\* A mail found in flight is at the head of another goroutine's list.
LEMMA InFlightElsewhere ==
  ASSUME TypeOK, ListsHeld, FlightInv, NEW g \in Goroutines, pc[g] = "process",
         NEW u \in inFlight
  PROVE  \E h \in Goroutines \ {g} : u \in todo[h]
<1>1. PICK h \in Fetching : u = Min(todo[h])  BY DEF FlightInv
<1>2. h \in Goroutines \ {g} /\ todo[h] # {}  BY <1>1 DEF Fetching, ListsHeld, Listing
<1>3. QED  BY <1>1, <1>2, HeadOfList

\* What a step on the mail does to what is listed, and to what is settled.
LEMMA PendingStep ==
  ASSUME TypeOK, ListsHeld, FlightInv, NEW g \in Goroutines, MailStep(g)
  PROVE  /\ Processed \subseteq Processed' /\ passedOver \subseteq passedOver'
         /\ \/ Pending' = Pending
            \/ /\ Pending \subseteq Pending' /\ lastUID' = lastUID
               /\ (Processed' \cup passedOver') \cap Pending
                    \subseteq Processed \cup passedOver
            \/ /\ Pending \subseteq Pending' \cup Processed' /\ Pending' \subseteq Pending
               /\ lastUID' = lastUID
<1>o. \A h \in Goroutines \ {g} : todo'[h] = todo[h]  BY OthersStay
<1>g. todo \in [Goroutines -> SUBSET UIDs]  BY DEF TypeOK
<1>1. CASE ReadLast(g) \/ Rebase(g) \/ Advance(g) \/ PrimeSet(g) \/ PrimeDone(g)
  <2>1. todo' = todo /\ checked' = checked /\ backfilled' = backfilled
    BY <1>1 DEF ReadLast, Rebase, Advance, PrimeSet, PrimeDone, locals, mail
  <2>2. passedOver \subseteq passedOver'
    BY <1>1 DEF ReadLast, Rebase, Advance, PrimeSet, PrimeDone, SetBaseline, locals, mail
  <2>3. QED  BY <2>1, <2>2 DEF Pending, Processed
<1>2. CASE Search(g)
  <2>1. UNCHANGED mail /\ todo[g] = {}  BY <1>2 DEF Search, ListsHeld, Listing
  <2>2. Pending \subseteq Pending'  BY <1>o, <2>1 DEF Pending
  <2>3. QED  BY <2>1, <2>2 DEF Processed, mail
<1>3. CASE StartUID(g)
  <2>1. UNCHANGED <<lastUID, checked, backfilled, passedOver>>  BY <1>3 DEF StartUID
  <2>2. CASE todo' = todo  BY <2>1, <2>2 DEF Pending, Processed
  <2>3. CASE todo' # todo
    <3>1. Min(todo[g]) \in inFlight /\ pc[g] = "process"
          /\ todo' = [todo EXCEPT ![g] = @ \ {Min(todo[g])}]
      BY <1>3, <2>3 DEF StartUID
    <3>2. PICK h \in Goroutines \ {g} : Min(todo[g]) \in todo[h]  BY <3>1, InFlightElsewhere
    <3>3. todo'[g] = todo[g] \ {Min(todo[g])}  BY <3>1, <1>g
    <3>4. Pending' = Pending  BY <3>2, <3>3, <1>o DEF Pending
    <3>5. QED  BY <2>1, <3>4 DEF Processed
  <2>4. QED  BY <2>2, <2>3
<1>4. ASSUME NEW u, todo'[g] = todo[g] \ {u}, u \in Processed',
             Processed \subseteq Processed', UNCHANGED <<passedOver, lastUID>>
      PROVE  /\ Processed \subseteq Processed' /\ passedOver \subseteq passedOver'
             /\ Pending \subseteq Pending' \cup Processed' /\ Pending' \subseteq Pending
             /\ lastUID' = lastUID
  <2>1. \A h \in Goroutines : todo'[h] \subseteq todo[h] /\ todo[h] \subseteq todo'[h] \cup {u}
    BY <1>4, <1>o
  <2>2. Pending' \subseteq Pending /\ Pending \subseteq Pending' \cup {u}  BY <2>1 DEF Pending
  <2>3. QED  BY <1>4, <2>2
<1>5. CASE EndUID(g)
  <2>1. /\ todo'[g] = todo[g] \ {Min(todo[g])} /\ checked' = checked \cup {Min(todo[g])}
        /\ UNCHANGED <<backfilled, passedOver, lastUID>>
    BY <1>5, <1>g DEF EndUID
  <2>2. QED  BY <2>1, <1>4 DEF Processed
<1>6. ASSUME NEW ok \in BOOLEAN, Backfill(g, ok)
      PROVE  /\ Processed \subseteq Processed' /\ passedOver \subseteq passedOver'
             /\ Pending \subseteq Pending' \cup Processed' /\ Pending' \subseteq Pending
             /\ lastUID' = lastUID
  <2>1. /\ todo'[g] = todo[g] \ {Min(todo[g])} /\ backfilled' = backfilled \cup {Min(todo[g])}
        /\ UNCHANGED <<checked, passedOver, lastUID>>
    BY <1>6, <1>g DEF Backfill
  <2>2. QED  BY <2>1, <1>4 DEF Processed
<1>7. CASE PrimeSearch(g)
  <2>1. UNCHANGED <<checked, backfilled, lastUID>> /\ todo[g] = {}
    BY <1>7 DEF PrimeSearch, ListsHeld, Listing
  <2>2. Pending \subseteq Pending'  BY <1>o, <2>1 DEF Pending
  <2>3. passedOver \subseteq passedOver'
        /\ passedOver' \cap Pending \subseteq Processed \cup passedOver
    BY <1>7 DEF PrimeSearch
  <2>4. QED  BY <2>1, <2>2, <2>3 DEF Processed
<1>8. QED  BY <1>1, <1>2, <1>3, <1>5, <1>6, <1>7 DEF MailStep

\* What was taken up stays so.
LEMMA TakenGrows ==
  ASSUME TypeOK, ListsHeld, FlightInv, NEW g \in Goroutines, MailStep(g)
  PROVE  Taken \subseteq Taken'
BY PendingStep DEF Taken

-----------------------------------------------------------------------------
\* A step on the mail keeps the types and stays in the mailbox.
LEMMA MailStepTypes ==
  ASSUME TypeOK, InMailbox, ListsHeld, NEW g \in Goroutines, MailStep(g)
  PROVE  MailTypes' /\ InMailbox'
<1> DEFINE Ok == MailTypes' /\ InMailbox'
<1>a. MailTypes  BY TypesTogether
<1>b. UIDs = 1..MaxUID /\ MaxUID \in Nat  BY BoundsAreNaturals DEF UIDs
<1>c. uidNext' = uidNext /\ Mailbox' = Mailbox  BY OthersStay DEF Mailbox
<1>d. Mailbox \subseteq UIDs /\ \A u \in Mailbox : u \in 1..MaxUID /\ u < uidNext
  BY <1>a, <1>b DEF MailTypes, Mailbox
<1>e. seen[g] \in 0..MaxUID /\ seen[g] < uidNext /\ high[g] \in 0..MaxUID
  BY <1>a DEF MailTypes, InMailbox
<1>f. todo[g] \subseteq Mailbox  BY DEF InMailbox
<1>0. SUFFICES Ok  OBVIOUS
<1> USE <1>c, <1>d DEF MailTypes, InMailbox
<1>1. CASE ReadLast(g) /\ connected /\ lastUID # 0
  <2>1. seen' = [seen EXCEPT ![g] = lastUID] /\ UNCHANGED <<mail, todo, high>>
    BY <1>1 DEF ReadLast
  <2>2. seen' \in [Goroutines -> 0..MaxUID]
        /\ \A h \in Goroutines : seen'[h] = seen[h] \/ seen'[h] = lastUID
    BY <2>1, <1>a
  <2>3. QED  BY <1>a, <2>1, <2>2 DEF mail
<1>2. CASE Rebase(g) \/ PrimeSet(g)
  <2>1. /\ lastUID' = seen[g] /\ UNCHANGED <<inFlight, checked, backfilled, seen, todo, high>>
        /\ passedOver' \subseteq passedOver \cup ((lastUID + 1)..seen[g])
    BY <1>2 DEF Rebase, PrimeSet, SetBaseline, locals
  <2>2. (lastUID + 1)..seen[g] \subseteq Mailbox  BY <1>a, <1>e DEF Mailbox
  <2>3. QED  BY <1>a, <1>e, <2>1, <2>2
<1>3. CASE Search(g)
  <2>1. UNCHANGED <<mail, seen, high>>
        /\ (todo' = todo \/ \E s \in SUBSET Mailbox : todo' = [todo EXCEPT ![g] = s])
    BY <1>3 DEF Search, SearchFrom
  <2>2. todo' \in [Goroutines -> SUBSET UIDs] /\ \A h \in Goroutines : todo'[h] \subseteq Mailbox
    BY <1>a, <2>1
  <2>3. QED  BY <1>a, <2>1, <2>2 DEF mail
<1>4. CASE Advance(g)
  <2>1. lastUID' = Max(todo[g])
        /\ UNCHANGED <<inFlight, checked, backfilled, passedOver, seen, todo, high>>
    BY <1>4 DEF Advance, locals
  <2>2. todo[g] # {}  BY <1>4 DEF Advance, ListsHeld
  <2>3. lastUID' \in Mailbox  BY <1>f, <2>1, <2>2, HeadOfList
  <2>4. QED  BY <1>a, <2>1, <2>3
<1>5. CASE StartUID(g)
  <2>1. /\ UNCHANGED <<lastUID, checked, backfilled, passedOver, seen, high>>
        /\ \/ inFlight' = inFlight
           \/ todo[g] # {} /\ inFlight' = inFlight \cup {Min(todo[g])}
        /\ todo' = todo \/ todo' = [todo EXCEPT ![g] = @ \ {Min(todo[g])}]
    BY <1>5 DEF StartUID
  <2>2. todo' \in [Goroutines -> SUBSET UIDs] /\ \A h \in Goroutines : todo'[h] \subseteq todo[h]
    BY <1>a, <2>1
  <2>3. inFlight' \subseteq UIDs  BY <1>a, <1>f, <2>1, HeadOfList
  <2>4. QED  BY <1>a, <2>1, <2>2, <2>3
<1>6. CASE EndUID(g)
  <2>1. /\ UNCHANGED <<lastUID, backfilled, passedOver, seen, high>>
        /\ inFlight' \subseteq inFlight /\ checked' = checked \cup {Min(todo[g])}
        /\ todo' = [todo EXCEPT ![g] = @ \ {Min(todo[g])}]
    BY <1>6 DEF EndUID
  <2>2. Min(todo[g]) \in Mailbox
    <3>1. todo[g] # {}  BY <1>6 DEF EndUID, ListsHeld
    <3>2. QED  BY <3>1, <1>f, HeadOfList
  <2>3. todo' \in [Goroutines -> SUBSET UIDs] /\ \A h \in Goroutines : todo'[h] \subseteq todo[h]
    BY <1>a, <2>1
  <2>4. QED  BY <1>a, <2>1, <2>2, <2>3
<1>7. CASE PrimeSearch(g)
  <2>1. UNCHANGED <<lastUID, inFlight, checked, backfilled, seen, high>>  BY <1>7 DEF PrimeSearch
  <2>2. /\ todo' = todo \/ \E s \in SUBSET Mailbox : todo' = [todo EXCEPT ![g] = s]
        /\ passedOver' \subseteq passedOver \cup Mailbox
    <3>1. CASE todo' = todo /\ passedOver' = passedOver  BY <3>1
    <3>2. CASE ~(todo' = todo /\ passedOver' = passedOver)
      BY <1>7, <3>2 DEF PrimeSearch, SearchFrom
    <3>3. QED  BY <3>1, <3>2
  <2>3. todo' \in [Goroutines -> SUBSET UIDs] /\ \A h \in Goroutines : todo'[h] \subseteq Mailbox
    BY <1>a, <2>2
  <2>4. QED  BY <1>a, <2>1, <2>2, <2>3
<1>8. ASSUME NEW ok \in BOOLEAN, Backfill(g, ok)  PROVE Ok
  <2>1. /\ UNCHANGED <<lastUID, inFlight, checked, passedOver, seen>>
        /\ backfilled' = backfilled \cup {Min(todo[g])}
        /\ todo' = [todo EXCEPT ![g] = @ \ {Min(todo[g])}]
        /\ high' = high \/ high' = [high EXCEPT ![g] = Min(todo[g])]
    <3>1. high' = high \/ high' = [high EXCEPT ![g] = Min(todo[g])]
      BY <1>8, <1>a DEF Backfill
    <3>2. QED  BY <1>8, <3>1 DEF Backfill
  <2>2. Min(todo[g]) \in Mailbox
    <3>1. todo[g] # {}  BY <1>8 DEF Backfill
    <3>2. QED  BY <3>1, <1>f, HeadOfList
  <2>3. todo' \in [Goroutines -> SUBSET UIDs] /\ \A h \in Goroutines : todo'[h] \subseteq todo[h]
    BY <1>a, <2>1
  <2>4. high' \in [Goroutines -> 0..MaxUID] /\ \A h \in Goroutines : high'[h] < uidNext
    BY <1>a, <2>1, <2>2
  <2>5. QED  BY <1>a, <2>1, <2>2, <2>3, <2>4
<1>9. CASE PrimeDone(g)
  <2>1. /\ UNCHANGED <<inFlight, checked, backfilled, passedOver, seen, todo>>
        /\ lastUID' \in {lastUID, high[g]} /\ high' = [high EXCEPT ![g] = 0]
    BY <1>9 DEF PrimeDone
  <2>2. high' \in [Goroutines -> 0..MaxUID] /\ \A h \in Goroutines : high'[h] < uidNext
    BY <1>a, <1>b, <2>1
  <2>3. QED  BY <1>a, <2>1, <2>2
<1>10. QED  BY <1>1, <1>2, <1>3, <1>4, <1>5, <1>6, <1>7, <1>8, <1>9 DEF MailStep

\* A goroutine that has a list is at a place where it may.
LEMMA ListsStep ==
  ASSUME TypeOK, ListsHeld, NEW g \in Goroutines, MailStep(g)
  PROVE  ListsHeld'
<1> DEFINE Holds == /\ pc'[g] \notin Listing => todo'[g] = {}
                    /\ pc'[g] \in {"advance", "fetch"} => todo'[g] # {}
<1>a. pc \in [Goroutines -> Steps] /\ todo \in [Goroutines -> SUBSET UIDs]  BY DEF TypeOK
<1>b. /\ pc[g] \notin Listing => todo[g] = {}
      /\ pc[g] \in {"advance", "fetch"} => todo[g] # {}
  BY DEF ListsHeld
<1>0. SUFFICES Holds
  BY OthersStay DEF ListsHeld
<1> USE <1>a, <1>b DEF Listing, Goto, locals, AfterCheck, Home
<1>1. CASE ReadLast(g) /\ connected /\ lastUID # 0  BY <1>1 DEF ReadLast
<1>2. CASE Rebase(g) \/ PrimeSet(g)  BY <1>2 DEF Rebase, PrimeSet
<1>3. CASE Search(g)  BY <1>3 DEF Search
<1>4. CASE Advance(g) \/ PrimeDone(g)  BY <1>4 DEF Advance, PrimeDone
<1>5. CASE StartUID(g)
  <2>1. CASE todo[g] = {}  BY <1>5, <2>1 DEF StartUID
  <2>2. CASE todo[g] # {}
    <3>1. pc'[g] = "process" \/ (pc'[g] = "fetch" /\ todo' = todo)  BY <1>5, <2>2 DEF StartUID
    <3>2. QED  BY <2>2, <3>1
  <2>3. QED  BY <2>1, <2>2
<1>6. CASE EndUID(g)  BY <1>6 DEF EndUID
<1>7. CASE PrimeSearch(g)  BY <1>7 DEF PrimeSearch, StartAborts, StartFails
<1>8. ASSUME NEW ok \in BOOLEAN, Backfill(g, ok)  PROVE Holds
  BY <1>8 DEF Backfill
<1>9. QED  BY <1>1, <1>2, <1>3, <1>4, <1>5, <1>6, <1>7, <1>8 DEF MailStep

\* A step that moves no goroutine into or out of the fetch, and leaves the lists
\* of those in it alone, leaves the in-flight set right.
LEMMA FlightKept ==
  ASSUME FlightInv, inFlight' = inFlight, Fetching' = Fetching,
         \A h \in Fetching : todo'[h] = todo[h]
  PROVE  FlightInv'
<1>1. \A h \in Fetching : Min(todo'[h]) = Min(todo[h])  OBVIOUS
<1>2. inFlight' = {Min(todo'[h]) : h \in Fetching'}
  <2>1. {Min(todo'[h]) : h \in Fetching} = {Min(todo[h]) : h \in Fetching}  BY <1>1
  <2>2. QED  BY <2>1 DEF FlightInv
<1>3. \A h, k \in Fetching' : Min(todo'[h]) = Min(todo'[k]) => h = k  BY <1>1 DEF FlightInv
<1>4. QED  BY <1>2, <1>3 DEF FlightInv

\* No two goroutines fetch the same mail.
LEMMA FlightStep ==
  ASSUME TypeOK, ListsHeld, FlightInv, NEW g \in Goroutines, MailStep(g)
  PROVE  FlightInv'
<1>a. pc \in [Goroutines -> Steps] /\ todo \in [Goroutines -> SUBSET UIDs]  BY DEF TypeOK
<1>o. \A h \in Goroutines \ {g} : pc'[h] = pc[h] /\ todo'[h] = todo[h]  BY OthersStay
<1>f. Fetching \subseteq Goroutines  BY DEF Fetching
<1>1. ASSUME pc[g] # "fetch", pc'[g] # "fetch", inFlight' = inFlight  PROVE FlightInv'
  <2>1. Fetching' = Fetching /\ \A h \in Fetching : todo'[h] = todo[h]
    BY <1>o, <1>1 DEF Fetching
  <2>2. QED  BY <1>1, <2>1, FlightKept
<1>2. ASSUME \/ ReadLast(g) \/ Rebase(g) \/ Search(g) \/ Advance(g) \/ PrimeSet(g)
             \/ PrimeSearch(g) \/ PrimeDone(g) \/ \E ok \in BOOLEAN : Backfill(g, ok)
      PROVE  pc[g] # "fetch" /\ pc'[g] # "fetch" /\ inFlight' = inFlight
  BY <1>2, <1>a DEF ReadLast, Rebase, Search, Advance, PrimeSet, PrimeSearch, StartAborts,
                    StartFails, PrimeDone, Backfill, Goto, AfterCheck, Home, mail
<1>3. CASE StartUID(g)
  <2>1. pc[g] = "process"  BY <1>3 DEF StartUID
  <2>2. CASE pc'[g] # "fetch"
    <3>1. inFlight' = inFlight  BY <1>3, <1>a, <2>2 DEF StartUID, Goto
    <3>2. QED  BY <1>1, <2>1, <2>2, <3>1
  <2>3. CASE pc'[g] = "fetch"
    <3> DEFINE u == Min(todo[g])
    <3>1. u \notin inFlight /\ inFlight' = inFlight \cup {u} /\ todo' = todo
      BY <1>3, <1>a, <2>1, <2>3 DEF StartUID, Goto, AfterCheck, Home
    <3> HIDE DEF u
    <3>2. Fetching' = Fetching \cup {g} /\ g \notin Fetching
      BY <1>o, <2>1, <2>3 DEF Fetching
    <3>3. Min(todo[g]) = u  BY DEF u
    <3>4. \A h \in Fetching : Min(todo[h]) # u  BY <3>1 DEF FlightInv
    <3>5. inFlight' = {Min(todo'[h]) : h \in Fetching'}  BY <3>1, <3>2, <3>3 DEF FlightInv
    <3>6. \A h, k \in Fetching' : Min(todo'[h]) = Min(todo'[k]) => h = k
      BY <3>1, <3>2, <3>3, <3>4 DEF FlightInv
    <3>7. QED  BY <3>5, <3>6 DEF FlightInv
  <2>4. QED  BY <2>2, <2>3
<1>4. CASE EndUID(g)
  <2> DEFINE u == Min(todo[g])
  <2>1. pc[g] = "fetch" /\ pc'[g] = "process" /\ inFlight' = inFlight \ {u}
    BY <1>4, <1>a DEF EndUID, Goto
  <2> HIDE DEF u
  <2>2. Fetching' = Fetching \ {g} /\ g \in Fetching  BY <1>o, <2>1 DEF Fetching
  <2>3. \A h \in Fetching' : todo'[h] = todo[h]  BY <1>o, <1>f, <2>2
  <2>4. \A h \in Fetching' : Min(todo'[h]) = Min(todo[h])  BY <2>3
  <2>5. Min(todo[g]) = u  BY DEF u
  <2>6. \A h \in Fetching' : Min(todo[h]) # u  BY <2>2, <2>5 DEF FlightInv
  <2>7. inFlight' = {Min(todo[h]) : h \in Fetching'}  BY <2>1, <2>2, <2>5, <2>6 DEF FlightInv
  <2>8. {Min(todo[h]) : h \in Fetching'} = {Min(todo'[h]) : h \in Fetching'}  BY <2>4
  <2>9. \A h, k \in Fetching' : Min(todo'[h]) = Min(todo'[k]) => h = k
    BY <2>2, <2>4 DEF FlightInv
  <2>10. QED  BY <2>7, <2>8, <2>9 DEF FlightInv
<1>5. QED  BY <1>1, <1>2, <1>3, <1>4 DEF MailStep

\* Of what UID SEARCH returns, the filter keeps the mails after the baseline.
LEMMA FoundAreNewer ==
  ASSUME TypeOK, NEW g \in Goroutines
  PROVE  {u \in SearchFrom(seen[g] + 1) : u > seen[g]} = {u \in Mailbox : u > seen[g]}
<1>1. seen[g] \in Int /\ Mailbox \subseteq Int
  BY BoundsAreNaturals DEF TypeOK, Mailbox
<1>2. \A u \in Mailbox : u > seen[g] => u >= seen[g] + 1  BY <1>1
<1>3. QED  BY <1>2 DEF SearchFrom

\* What a goroutine is about to raise the watermark to stays covered.
LEMMA TakenStep ==
  ASSUME TypeOK, InMailbox, ListsHeld, FlightInv, TakenInv, MailAccounted,
         NEW g \in Goroutines, MailStep(g)
  PROVE  TakenInv' /\ MailAccounted'
<1> DEFINE Watermark == MailAccounted'
           Own == TakenOf(g)'
<1>a. /\ pc \in [Goroutines -> Steps] /\ todo \in [Goroutines -> SUBSET UIDs]
      /\ seen \in [Goroutines -> 0..MaxUID] /\ high \in [Goroutines -> 0..MaxUID]
      /\ lastUID \in 0..MaxUID /\ uidNext \in 1..(MaxUID + 1)
  BY DEF TypeOK
<1>b. MaxUID \in Nat /\ UIDs \subseteq Nat  BY BoundsAreNaturals DEF UIDs
<1>o. \A h \in Goroutines \ {g} :
        pc'[h] = pc[h] /\ seen'[h] = seen[h] /\ todo'[h] = todo[h] /\ high'[h] = high[h]
  BY OthersStay
<1>t. Taken \subseteq Taken'  BY TakenGrows
<1>i. TakenOf(g)  BY DEF TakenInv
<1>m. 1..lastUID \subseteq Taken /\ (MailAccounted' <=> 1..lastUID' \subseteq Taken')
  BY DEF MailAccounted, Taken
<1>p. ASSUME Own  PROVE TakenInv'
  <2>1. \A h \in Goroutines \ {g} : TakenOf(h)  BY DEF TakenInv
  <2>2. \A h \in Goroutines \ {g} : TakenOf(h)'  BY <2>1, <1>o, <1>t DEF TakenOf
  <2>3. QED  BY <1>p, <2>2 DEF TakenInv
<1>0. SUFFICES Own /\ Watermark  BY <1>p
<1> USE <1>t, <1>i, <1>m
<1>1. CASE ReadLast(g) /\ connected /\ lastUID # 0
  <2>1. /\ lastUID' = lastUID /\ high' = high /\ pc'[g] = "search" /\ seen'[g] = lastUID
    BY <1>1, <1>a DEF ReadLast, Goto, mail
  <2>2. QED  BY <2>1 DEF TakenOf
<1>2. CASE Rebase(g) \/ PrimeSet(g)
  <2>1. /\ lastUID' = seen[g] /\ UNCHANGED <<seen, high, todo, checked, backfilled>>
        /\ passedOver' = passedOver \cup (((lastUID + 1)..seen[g]) \ (Processed \cup Pending))
    BY <1>2 DEF Rebase, PrimeSet, SetBaseline, locals
  <2>2. pc'[g] \notin {"search", "advance", "backfill"}
    BY <1>2, <1>a DEF Rebase, PrimeSet, Goto, AfterCheck, Home
  <2>3. (lastUID + 1)..seen[g] \subseteq Taken'  BY <2>1 DEF Taken, Processed, Pending
  <2>4. 1..seen[g] \subseteq 1..lastUID \cup (lastUID + 1)..seen[g]  BY <1>a, <1>b
  <2>5. 1..seen[g] \subseteq Taken'  BY <2>3, <2>4
  <2>6. QED  BY <2>1, <2>2, <2>5 DEF TakenOf
<1>s. Mailbox \subseteq Nat /\ \A u \in Mailbox : \A v \in 1..u : v \in Mailbox
  BY <1>a, <1>b DEF Mailbox
<1>3. CASE Search(g)
  <2>1. lastUID' = lastUID /\ high' = high /\ seen' = seen /\ pc[g] = "search"
    BY <1>3 DEF Search, mail
  <2>2. CASE pc'[g] = "advance"
    <3>1. todo'[g] = {u \in SearchFrom(seen[g] + 1) : u > seen[g]}
      BY <1>3, <1>a, <2>2 DEF Search, Goto, AfterCheck, Home
    <3>2. todo'[g] = {u \in Mailbox : u > seen[g]}  BY <3>1, FoundAreNewer
    <3>3. todo'[g] \subseteq Taken'
      <4>1. todo'[g] \subseteq Pending'  BY DEF Pending
      <4>2. QED  BY <4>1 DEF Taken
    <3>4. 1..seen[g] \subseteq Taken'  BY <2>1 DEF TakenOf
    <3>5. \A u \in todo'[g] : 1..u \subseteq Taken'
      <4>1. ASSUME NEW u \in todo'[g], NEW v \in 1..u  PROVE v \in Taken'
        <5>1. v \in Mailbox /\ v \in Nat  BY <3>2, <1>s
        <5>2. v \in 1..seen[g] \/ v > seen[g]  BY <5>1, <1>a, <1>b
        <5>3. QED  BY <3>2, <3>3, <3>4, <5>1, <5>2
      <4>2. QED  BY <4>1
    <3>6. QED  BY <2>1, <2>2, <3>5 DEF TakenOf
  <2>3. CASE pc'[g] # "advance"
    <3>1. pc'[g] \notin {"search", "primeSearch", "backfill"}
      BY <1>3, <1>a, <2>3 DEF Search, Goto, AfterCheck, Home
    <3>2. QED  BY <2>1, <2>3, <3>1 DEF TakenOf
  <2>4. QED  BY <2>2, <2>3
<1>4. CASE Advance(g)
  <2>1. lastUID' = Max(todo[g]) /\ high' = high /\ pc[g] = "advance" /\ pc'[g] = "process"
    BY <1>4, <1>a DEF Advance, Goto, locals
  <2>2. Max(todo[g]) \in todo[g]  BY <2>1, HeadOfList DEF ListsHeld
  <2>3. QED  BY <2>1, <2>2 DEF TakenOf
<1>5. CASE StartUID(g) \/ EndUID(g)
  <2>1. lastUID' = lastUID /\ high' = high  BY <1>5 DEF StartUID, EndUID
  <2>2. pc'[g] \notin {"search", "primeSearch", "advance", "backfill"}
    BY <1>5, <1>a DEF StartUID, EndUID, Goto, AfterCheck, Home
  <2>3. QED  BY <2>1, <2>2 DEF TakenOf
<1>6. CASE PrimeSearch(g)
  <2>1. lastUID' = lastUID /\ high' = high /\ seen' = seen /\ pc[g] = "primeSearch"
        /\ UNCHANGED <<checked, backfilled>>
    BY <1>6 DEF PrimeSearch
  <2>2. CASE pc'[g] = "backfill"
    <3> DEFINE found == {u \in SearchFrom(seen[g] + 1) : u > seen[g]}
               taken == {u \in found : Cardinality({v \in found : v > u}) < BackfillMax}
    <3>1. /\ todo'[g] = taken
          /\ passedOver' = passedOver \cup (found \ (taken \cup Processed \cup Pending))
      BY <1>6, <1>a, <2>2 DEF PrimeSearch, StartAborts, StartFails, Goto, Home
    <3>2. found = {u \in Mailbox : u > seen[g]}  BY FoundAreNewer
    <3>3. taken \subseteq found  OBVIOUS
    <3> HIDE DEF found, taken
    <3>4. todo'[g] \subseteq Pending'  BY DEF Pending
    <3>5. found \subseteq Taken'
      <4>1. found \subseteq passedOver' \cup taken \cup Taken  BY <3>1 DEF Taken
      <4>2. QED  BY <4>1, <3>1, <3>4 DEF Taken
    <3>6. 1..seen[g] \subseteq Taken'  BY <2>1 DEF TakenOf
    <3>7. \A u \in todo'[g] : 1..u \subseteq Taken'
      <4>1. ASSUME NEW u \in todo'[g], NEW v \in 1..u  PROVE v \in Taken'
        <5>1. v \in Mailbox /\ v \in Nat  BY <3>1, <3>2, <3>3, <1>s
        <5>2. v \in 1..seen[g] \/ v > seen[g]  BY <5>1, <1>a, <1>b
        <5>3. QED  BY <3>2, <3>5, <3>6, <5>1, <5>2
      <4>2. QED  BY <4>1
    <3>8. QED  BY <2>1, <2>2, <3>7 DEF TakenOf
  <2>3. CASE pc'[g] # "backfill"
    <3>1. pc'[g] \notin {"search", "primeSearch", "advance"}
      BY <1>6, <1>a, <2>3 DEF PrimeSearch, StartAborts, StartFails, Goto, Home
    <3>2. QED  BY <2>1, <2>3, <3>1 DEF TakenOf
  <2>4. QED  BY <2>2, <2>3
<1>7. ASSUME NEW ok \in BOOLEAN, Backfill(g, ok)  PROVE Own /\ Watermark
  <2>1. /\ lastUID' = lastUID /\ pc[g] = "backfill" /\ pc'[g] = "backfill" /\ todo[g] # {}
        /\ todo'[g] \subseteq todo[g] /\ high'[g] \in {high[g], Min(todo[g])}
    BY <1>7, <1>a DEF Backfill
  <2>2. Min(todo[g]) \in todo[g]  BY <2>1, HeadOfList
  <2>3. QED  BY <2>1, <2>2 DEF TakenOf
<1>8. CASE PrimeDone(g)
  <2>1. lastUID' \in {lastUID, high[g]} /\ pc'[g] = "probe" /\ high'[g] = 0
    BY <1>8, <1>a DEF PrimeDone, Goto
  <2>2. 1..high'[g] = {}  BY <2>1
  <2>3. QED  BY <2>1, <2>2 DEF TakenOf
<1>9. QED  BY <1>1, <1>2, <1>3, <1>4, <1>5, <1>6, <1>7, <1>8 DEF MailStep

-----------------------------------------------------------------------------
\* Steps that leave the mail alone keep all that is known of it.
LEMMA AsideStep ==
  ASSUME TypeOK, InMailbox, ListsHeld, FlightInv, TakenInv, MailAccounted, Aside
  PROVE  MailTypes' /\ InMailbox' /\ ListsHeld' /\ FlightInv' /\ TakenInv' /\ MailAccounted'
<1>a. MailTypes  BY TypesTogether
<1>1. UNCHANGED <<uidNext, lastUID, inFlight, checked, backfilled, passedOver, todo, high>>
  BY DEF Aside, mail
<1>2. Mailbox' = Mailbox /\ Pending' = Pending /\ Processed' = Processed /\ Taken' = Taken
  BY <1>1 DEF Mailbox, Pending, Processed, Taken
<1>3. MailTypes'  BY <1>a, <1>1 DEF MailTypes, Aside
<1>4. InMailbox'
  <2>1. \A g \in Goroutines : seen'[g] < uidNext  BY <1>a DEF Aside, InMailbox, MailTypes
  <2>2. QED  BY <1>1, <1>2, <2>1 DEF InMailbox
<1>5. ListsHeld'  BY <1>1 DEF ListsHeld, Aside, Listing
<1>6. FlightInv'
  <2>1. Fetching' = Fetching  BY DEF Fetching, Aside, Listing
  <2>2. QED  BY <1>1, <2>1, FlightKept
<1>7. TakenInv'
  <2>1. ASSUME NEW g \in Goroutines  PROVE TakenOf(g)'
    <3>1. TakenOf(g)  BY DEF TakenInv
    <3>2. CASE pc'[g] = pc[g] /\ seen'[g] = seen[g]  BY <1>1, <1>2, <3>1, <3>2 DEF TakenOf
    <3>3. CASE pc'[g] \notin Listing \cup {"search", "primeSearch"}
      BY <1>1, <1>2, <3>1, <3>3 DEF TakenOf, Listing
    <3>4. QED  BY <3>2, <3>3 DEF Aside
  <2>2. QED  BY <2>1 DEF TakenInv
<1>8. MailAccounted'  BY <1>1, <1>2 DEF MailAccounted
<1>9. QED  BY <1>3, <1>4, <1>5, <1>6, <1>7, <1>8

\* So does a mail that arrives.
LEMMA ArriveStep ==
  ASSUME TypeOK, InMailbox, ListsHeld, FlightInv, TakenInv, MailAccounted, Arrive
  PROVE  MailTypes' /\ InMailbox' /\ ListsHeld' /\ FlightInv' /\ TakenInv' /\ MailAccounted'
<1>a. MailTypes /\ MaxUID \in Nat  BY TypesTogether, BoundsAreNaturals
<1>1. UNCHANGED <<lastUID, inFlight, checked, backfilled, passedOver, seen, todo, high, pc>>
  BY DEF Arrive, locals
<1>2. /\ uidNext' = uidNext + 1 /\ uidNext' \in 1..(MaxUID + 1)
      /\ Mailbox \subseteq Mailbox'
  BY <1>a DEF Arrive, MailTypes, Mailbox
<1>3. MailTypes'  BY <1>a, <1>1, <1>2 DEF MailTypes
<1>4. InMailbox'
  <2>1. \A n \in 0..MaxUID : n < uidNext => n < uidNext'  BY <1>a, <1>2 DEF MailTypes
  <2>2. QED  BY <1>a, <1>1, <1>2, <2>1 DEF InMailbox, MailTypes
<1>5. ListsHeld'  BY <1>1 DEF ListsHeld
<1>6. FlightInv'
  <2>1. Fetching' = Fetching  BY <1>1 DEF Fetching
  <2>2. QED  BY <1>1, <2>1, FlightKept
<1>7. Pending' = Pending /\ Processed' = Processed /\ Taken' = Taken
  BY <1>1 DEF Pending, Processed, Taken
<1>8. TakenInv'  BY <1>1, <1>7 DEF TakenInv, TakenOf
<1>9. MailAccounted'  BY <1>1, <1>7 DEF MailAccounted
<1>10. QED  BY <1>3, <1>4, <1>5, <1>6, <1>8, <1>9

\* The stop channel is closed only while c.idling falls, and set anew when it rises.
LEMMA StopChannelStep ==
  ASSUME IdlingCanBeStopped, [Next]_vars
  PROVE  IdlingCanBeStopped'
<1> USE DEF IdlingCanBeStopped, conn
<1>1. ASSUME Arrive  PROVE IdlingCanBeStopped'
  BY <1>1 DEF Arrive
<1>2. ASSUME NEW g \in Goroutines, BeginCheck(g)  PROVE IdlingCanBeStopped'
  BY <1>2 DEF BeginCheck, Home
<1>3. ASSUME NEW g \in Goroutines, StopIDLE(g)  PROVE IdlingCanBeStopped'
  BY <1>3 DEF StopIDLE, CloseStop
<1>4. ASSUME NEW g \in Goroutines, ReadLast(g)  PROVE IdlingCanBeStopped'
  BY <1>4 DEF ReadLast, AfterCheck, Home
<1>5. ASSUME NEW g \in Goroutines, Status(g)  PROVE IdlingCanBeStopped'
  BY <1>5 DEF Status, AfterCheck, Home, CommandFails, HardError
<1>6. ASSUME NEW g \in Goroutines, Rebase(g)  PROVE IdlingCanBeStopped'
  BY <1>6 DEF Rebase, AfterCheck, Home
<1>7. ASSUME NEW g \in Goroutines, Search(g)  PROVE IdlingCanBeStopped'
  BY <1>7 DEF Search, AfterCheck, Home, CommandFails, HardError
<1>8. ASSUME NEW g \in Goroutines, Advance(g)  PROVE IdlingCanBeStopped'
  BY <1>8 DEF Advance
<1>9. ASSUME NEW g \in Goroutines, StartUID(g)  PROVE IdlingCanBeStopped'
  BY <1>9 DEF StartUID, AfterCheck, Home
<1>10. ASSUME NEW g \in Goroutines, EndUID(g)  PROVE IdlingCanBeStopped'
  BY <1>10 DEF EndUID
<1>11. ASSUME NEW g \in Goroutines, Restart(g)  PROVE IdlingCanBeStopped'
  BY <1>11 DEF Restart
<1>12. ASSUME NEW g \in Goroutines, Start(g)  PROVE IdlingCanBeStopped'
  BY <1>12 DEF Start, StartFails, Unlock, Home
<1>13. ASSUME NEW g \in Goroutines, PrimeStatus(g)  PROVE IdlingCanBeStopped'
  BY <1>13 DEF PrimeStatus, StartAborts, StartFails, Unlock, Home
<1>14. ASSUME NEW g \in Goroutines, PrimeSet(g)  PROVE IdlingCanBeStopped'
  BY <1>14 DEF PrimeSet
<1>15. ASSUME NEW g \in Goroutines, PrimeSearch(g)  PROVE IdlingCanBeStopped'
  BY <1>15 DEF PrimeSearch, StartAborts, StartFails, Unlock, Home
<1>16. ASSUME NEW g \in Goroutines, NEW ok \in BOOLEAN, Backfill(g, ok)  PROVE IdlingCanBeStopped'
  BY <1>16 DEF Backfill
<1>17. ASSUME NEW g \in Goroutines, PrimeDone(g)  PROVE IdlingCanBeStopped'
  BY <1>17 DEF PrimeDone
<1>18. ASSUME NEW g \in Goroutines, Probe(g)  PROVE IdlingCanBeStopped'
  BY <1>18 DEF Probe, StartAborts, StartFails, Unlock, Home
<1>19. ASSUME NEW g \in Goroutines, Disconnect(g)  PROVE IdlingCanBeStopped'
  BY <1>19 DEF Disconnect, Lock, CloseStop
<1>20. ASSUME NEW g \in Goroutines, Connect(g)  PROVE IdlingCanBeStopped'
  BY <1>20 DEF Connect, Home
<1>21. ASSUME NEW g \in Goroutines, ForceClose(g)  PROVE IdlingCanBeStopped'
  BY <1>21 DEF ForceClose, Lock
<1>22. ASSUME NEW g \in Goroutines, ConnectReset(g)  PROVE IdlingCanBeStopped'
  BY <1>22 DEF ConnectReset, StartAborts, StartFails, Unlock, Home
<1>23. ASSUME NEW g \in Loops, HearStopInLoop(g)  PROVE IdlingCanBeStopped'
  BY <1>23 DEF HearStopInLoop
<1>24. ASSUME NEW g \in Loops, Exit(g)  PROVE IdlingCanBeStopped'
  BY <1>24 DEF Exit
<1>25. ASSUME NEW g \in Loops, TakeSignal(g)  PROVE IdlingCanBeStopped'
  BY <1>25 DEF TakeSignal
<1>26. ASSUME NEW g \in Loops, EnterIdle(g)  PROVE IdlingCanBeStopped'
  BY <1>26 DEF EnterIdle, HardError
<1>27. ASSUME NEW g \in Loops, HearStopInIdle(g)  PROVE IdlingCanBeStopped'
  BY <1>27 DEF HearStopInIdle
<1>28. ASSUME NEW g \in Loops, TimerFires(g)  PROVE IdlingCanBeStopped'
  BY <1>28 DEF TimerFires
<1>29. ASSUME NEW g \in Loops, Recover(g)  PROVE IdlingCanBeStopped'
  BY <1>29 DEF Recover
<1>30. ASSUME NEW g \in Commands, RunCommand(g)  PROVE IdlingCanBeStopped'
  BY <1>30 DEF RunCommand
<1>31. ASSUME UNCHANGED vars  PROVE IdlingCanBeStopped'
  BY <1>31 DEF vars
<1>32. QED
  BY <1>1, <1>2, <1>3, <1>4, <1>5, <1>6, <1>7, <1>8, <1>9, <1>10, <1>11, <1>12, <1>13,
     <1>14, <1>15, <1>16, <1>17, <1>18, <1>19, <1>20, <1>21, <1>22, <1>23, <1>24, <1>25, <1>26,
     <1>27, <1>28, <1>29, <1>30, <1>31
     DEF Next, Check, StartIDLE, IdleLoop

-----------------------------------------------------------------------------
\* No goroutine has begun.
LEMMA InboxInit == Init => InboxInv
<1> SUFFICES ASSUME Init PROVE InboxInv  OBVIOUS
<1>1. ConnTypes  BY DEF Init, ConnTypes, Steps
<1>2. MailTypes
  <2>1. uidNext \in 1..(MaxUID + 1)  BY BoundsAreNaturals DEF Init
  <2>2. QED  BY <2>1, BoundsAreNaturals DEF Init, MailTypes, UIDs
<1>3. InMailbox  BY DEF Init, InMailbox
<1>4. ListsHeld /\ Fetching = {}  BY DEF Init, ListsHeld, Fetching
<1>5. FlightInv  BY <1>4 DEF Init, FlightInv
<1>6. TakenInv
  <2>1. 1..0 = {}  OBVIOUS
  <2>2. QED  BY <2>1 DEF Init, TakenInv, TakenOf
<1>7. MailAccounted /\ IdlingCanBeStopped  BY DEF Init, MailAccounted, IdlingCanBeStopped
<1>8. QED  BY <1>1, <1>2, <1>3, <1>4, <1>5, <1>6, <1>7, TypesTogether DEF InboxInv

\* InboxInv is an invariant: what each goroutine is about to raise the watermark
\* to is taken up, whatever the others do meanwhile.
THEOREM InboxInvariant == Spec => []InboxInv
<1>1. ASSUME InboxInv, [Next]_vars  PROVE InboxInv'
  <2> USE <1>1 DEF InboxInv
  <2>1. ConnTypes' /\ IdlingCanBeStopped'  BY ConnStep, StopChannelStep, TypesTogether
  <2>2. MailTypes' /\ InMailbox' /\ ListsHeld' /\ FlightInv' /\ TakenInv' /\ MailAccounted'
    <3>1. CASE Aside  BY <3>1, AsideStep
    <3>2. CASE Arrive  BY <3>2, ArriveStep
    <3>3. ASSUME NEW g \in Goroutines, MailStep(g)
          PROVE  /\ MailTypes' /\ InMailbox' /\ ListsHeld' /\ FlightInv' /\ TakenInv'
                 /\ MailAccounted'
      BY <3>3, MailStepTypes, ListsStep, FlightStep, TakenStep
    <3>4. QED  BY <3>1, <3>2, <3>3, StepKinds
  <2>3. TypeOK'  BY <2>1, <2>2 DEF TypeOK, ConnTypes, MailTypes
  <2>4. QED  BY <2>1, <2>2, <2>3
<1>2. QED  BY <1>1, InboxInit, PTL DEF Spec

\* Every field of the Client and every goroutine's locals keep their type.
THEOREM InboxTypes == Spec => []TypeOK
<1>1. InboxInv => TypeOK  BY DEF InboxInv
<1>2. QED  BY <1>1, InboxInvariant, PTL

\* The watermark loses no mail: not by checks that overlap or fail half way, nor
\* by a prime or a backfill under way at the same time.
THEOREM InboxMailAccounted == Spec => []MailAccounted
<1>1. InboxInv => MailAccounted  BY DEF InboxInv
<1>2. QED  BY <1>1, InboxInvariant, PTL

\* While c.idling is set the stop channel is open: closing it never panics.
THEOREM InboxIdlingCanBeStopped == Spec => []IdlingCanBeStopped
<1>1. InboxInv => IdlingCanBeStopped  BY DEF InboxInv
<1>2. QED  BY <1>1, InboxInvariant, PTL

\* The in-flight set is what the checks fetch, and no two fetch the same mail.
THEOREM InboxInFlightExclusive == Spec => []InFlightExclusive
<1>1. ASSUME InboxInv  PROVE InFlightExclusive
  <2> DEFINE F == [g \in Fetching |-> Min(todo[g])]
  <2>1. FlightInv  BY <1>1 DEF InboxInv
  <2>2. IsFiniteSet(Fetching)
    <3>1. IsFiniteSet(Goroutines)  BY FinitelyMany, FS_Union DEF Goroutines
    <3>2. Fetching \subseteq Goroutines  BY DEF Fetching
    <3>3. QED  BY <3>1, <3>2, FS_Subset
  <2>3. F \in Bijection(Fetching, inFlight)
    <3>1. F \in [Fetching -> inFlight]  BY <2>1 DEF FlightInv
    <3>2. \A g, h \in Fetching : F[g] = F[h] => g = h  BY <2>1 DEF FlightInv
    <3>3. \A u \in inFlight : \E g \in Fetching : F[g] = u  BY <2>1 DEF FlightInv
    <3>4. QED  BY <3>1, <3>2, <3>3 DEF Bijection, Injection, Surjection, IsInjective
  <2>4. Cardinality(inFlight) = Cardinality(Fetching)
    <3>1. ExistsBijection(Fetching, inFlight)  BY <2>3 DEF ExistsBijection
    <3>2. QED  BY <2>2, <3>1, FS_Bijection
  <2>5. QED  BY <2>1, <2>4 DEF InFlightExclusive, FlightInv
<1>2. QED  BY <1>1, InboxInvariant, PTL

-----------------------------------------------------------------------------
\* Processed or stepped over; listed by some goroutine and not settled.
Settled == Processed \cup passedOver
Hand == Pending \ Settled

\* Every step is one of InboundDelivery, or none.
LEMMA DeliveryStep ==
  ASSUME InboxInv, InboxInv', [Next]_vars
  PROVE  Delivery!Next \/ UNCHANGED Delivery!vars
<1> USE DEF InboxInv
<1>m. Settled' \subseteq Mailbox' /\ Pending' \subseteq Mailbox'
  BY DEF InMailbox, Settled, Processed, Pending
<1>c. 1..lastUID' \subseteq Settled' \cup Hand'  BY DEF MailAccounted, Settled, Hand
<1>1. CASE Aside
  <2>1. UNCHANGED <<mail, todo>>  BY <1>1 DEF Aside
  <2>2. UNCHANGED Delivery!vars
    BY <2>1 DEF Delivery!vars, mail, Mailbox, Processed, Pending
  <2>3. QED  BY <2>2
<1>2. CASE Arrive
  <2>1. uidNext' = uidNext + 1 /\ UNCHANGED <<lastUID, checked, backfilled, passedOver, todo>>
    BY <1>2 DEF Arrive, locals
  <2>2. Mailbox \subseteq Mailbox'  BY <2>1, BoundsAreNaturals DEF Mailbox, TypeOK
  <2>3. Delivery!Arrive  BY <2>1, <2>2 DEF Delivery!Arrive, Processed, Pending
  <2>4. QED  BY <2>3 DEF Delivery!Next
<1>3. ASSUME NEW g \in Goroutines, MailStep(g)  PROVE Delivery!Next
  <2>1. Mailbox' = Mailbox  BY <1>3, OthersStay DEF Mailbox
  <2>2. Settled \subseteq Settled'  BY <1>3, PendingStep DEF Settled
  <2>3. CASE Pending' = Pending
    <3>1. Hand' = Hand \ Settled'  BY <2>2, <2>3 DEF Hand
    <3>2. Delivery!Cover
      BY <1>m, <1>c, <2>1, <2>2, <3>1 DEF Delivery!Cover, Hand, Settled
    <3>3. QED  BY <3>2 DEF Delivery!Next
  <2>4. CASE Pending \subseteq Pending' /\ lastUID' = lastUID
             /\ Settled' \cap Pending \subseteq Settled
    <3>1. Hand \subseteq Hand' /\ Hand' \cap Settled' = {} /\ Hand' \subseteq Mailbox
      BY <1>m, <2>1, <2>4 DEF Hand
    <3>2. Delivery!TakeUp
      BY <1>m, <2>1, <2>2, <2>4, <3>1 DEF Delivery!TakeUp, Hand, Settled
    <3>3. QED  BY <3>2 DEF Delivery!Next
  <2>5. CASE Pending \subseteq Pending' \cup Processed' /\ Pending' \subseteq Pending
             /\ lastUID' = lastUID
    <3>1. Hand' = Hand \ Settled'  BY <2>2, <2>5 DEF Hand, Settled
    <3>2. Delivery!Settle
      BY <1>m, <2>1, <2>2, <2>5, <3>1 DEF Delivery!Settle, Hand, Settled
    <3>3. QED  BY <3>2 DEF Delivery!Next
  <2>6. QED  BY <1>3, <2>3, <2>4, <2>5, PendingStep DEF Settled
<1>4. QED  BY <1>1, <1>2, <1>3, StepKinds

\* The INBOX connection implements InboundDelivery: a mail the watermark covers
\* stays on the list of the goroutine that took it up until it is processed.
THEOREM InboxDelivers == Spec => DeliversAsPromised
<1>1. Init => Delivery!Init
  <2>1. 1..0 = {}  OBVIOUS
  <2>2. QED  BY <2>1 DEF Init, Delivery!Init, Processed, Pending
<1>2. InboxInv /\ InboxInv' /\ [Next]_vars => [Delivery!Next]_(Delivery!vars)
  BY DeliveryStep
<1>3. QED  BY <1>1, <1>2, InboxInvariant, PTL DEF Spec, DeliversAsPromised, Delivery!Spec
=============================================================================
