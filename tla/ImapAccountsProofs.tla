-------------------------- MODULE ImapAccountsProofs --------------------------
(***************************************************************************)
(* Proofs about ImapAccounts, for any number of EmailClients and outages.  *)
(* A client that says it is connected has passed through Connect, and      *)
(* Connect says so just before it starts the loops; a logout that is over  *)
(* has ended its client.                                                   *)
(***************************************************************************)
EXTENDS ImapAccounts, TLAPS

\* Up to MarkConnected a client does not say it is connected, and only a client
\* that was loaded connects.
Connecting ==
  \A c \in Clients :
    /\ life[c] = "unborn" => connect[c] = "none" /\ c \notin isConnected
    /\ connect[c] \notin {"none", "loops"} => c \notin isConnected

\* A logout past ec.cancel has ended its client.
LogoutEnds ==
  \A c \in Clients :
    logout.of = c /\ logout.step \in {"remove", "clear", "login"} => life[c] = "ended"

\* The inductive invariant of the account's clients.
AccountsInv == TypeOK /\ Connecting /\ LogoutEnds /\ ConnectedAccountsSync
-----------------------------------------------------------------------------
\* The end of the process leaves a well-typed state.
LEMMA EndTypes ==
  ASSUME TypeOK, End
  PROVE  TypeOK'
BY AccountBounds DEF TypeOK, End, Nowhere, NoLogout, None

\* An idle loop listens only on a connection, whatever StartIDLE comes to.
LEMMA StartTypes ==
  ASSUME TypeOK, NEW c \in Clients, StartIDLE(c) \/ ReconnectAndStart(c)
  PROVE  up' \subseteq Clients /\ idling' \subseteq up'
<1>1. CASE StartIDLE(c)
  <2>1. CASE UNCHANGED <<up, idling>>  BY <2>1 DEF TypeOK
  <2>2. CASE /\ c \in up \ idling
             /\ up' \in {up, up \ {c}}
             /\ idling' \in {idling, idling \cup ({c} \cap up')}
    BY <2>2 DEF TypeOK
  <2>3. QED  BY <1>1, <2>1, <2>2 DEF StartIDLE
<1>2. CASE ReconnectAndStart(c)
  BY <1>2 DEF ReconnectAndStart, TypeOK
<1>3. QED  BY <1>1, <1>2

\* Every step keeps the types.
LEMMA TypeStep ==
  ASSUME TypeOK, [Next]_vars
  PROVE  TypeOK'
<1> USE AccountBounds DEF TypeOK, Clients, account, client, socket, loops, manager, None
<1>1. ASSUME Exit  PROVE TypeOK'
  BY <1>1, EndTypes DEF Exit
<1>2. ASSUME Logout  PROVE TypeOK'
  BY <1>2 DEF Logout, NoLogout, Clients
<1>3. ASSUME DeleteAccount  PROVE TypeOK'
  BY <1>3 DEF DeleteAccount, Then
<1>4. ASSUME StopClientLoops  PROVE TypeOK'
  BY <1>4 DEF StopClientLoops, Then
<1>5. ASSUME DisconnectIMAPClient  PROVE TypeOK'
  <2>1. /\ (up' \cup idling' \cup recovering') \subseteq Clients /\ idling' \subseteq up'
        /\ outages' = outages
    BY <1>5 DEF DisconnectIMAPClient, Disconnect
  <2>2. logout' = [logout EXCEPT !.step = "cancel"]  BY <1>5 DEF DisconnectIMAPClient, Then
  <2>3. UNCHANGED <<row, current, client, connect, register, loops, manager, down>>
    BY <1>5 DEF DisconnectIMAPClient
  <2>4. QED  BY <2>1, <2>2, <2>3
<1>6. ASSUME CancelClient  PROVE TypeOK'
  BY <1>6 DEF CancelClient, Then
<1>7. ASSUME RemoveAccount  PROVE TypeOK'
  BY <1>7, ZenonT(40) DEF RemoveAccount, Then, Disconnect
<1>8. ASSUME ClearCredentials  PROVE TypeOK'
  BY <1>8 DEF ClearCredentials, Then
<1>9. ASSUME DeleteUserLogin  PROVE TypeOK'
  BY <1>9 DEF DeleteUserLogin, NoLogout
<1>10. ASSUME StopAll  PROVE TypeOK'
  BY <1>10 DEF StopAll, Disconnect
<1>11. ASSUME NEW c \in Clients, SignIn(c)  PROVE TypeOK'
  BY <1>11 DEF SignIn, Unborn, Goto
<1>12. ASSUME NEW c \in Clients, Restart(c)  PROVE TypeOK'
  <2>1. /\ current' \in Clients \cup {None}
        /\ life' \in [Clients -> {"unborn", "live", "ended"}]
    <3>1. CASE current = None  BY <1>12, <3>1 DEF Restart
    <3>2. CASE current # None  BY <1>12, <3>2 DEF Restart
    <3>3. QED  BY <3>1, <3>2
  <2>2. handle' \subseteq Clients  BY <1>12 DEF Restart
  <2>3. connect' \in [Clients -> {"none", "enter", "dial", "test", "start", "reconnect", "retry", "mark", "loops"}]
    <3>1. connect' = connect \/ connect' = [connect EXCEPT ![c] = "enter"]  BY <1>12 DEF Restart, Goto
    <3>2. QED  BY <3>1
  <2>4. register' \in [Clients -> {"none", "wait", "register"}]
    <3>1. register' = register \/ register' = [register EXCEPT ![c] = "wait"]  BY <1>12 DEF Restart
    <3>2. QED  BY <3>1
  <2>5. /\ down' = FALSE
        /\ UNCHANGED <<row, logout, isConnected, socket, loops, manager>>
    BY <1>12 DEF Restart
  <2>6. QED  BY <2>1, <2>2, <2>3, <2>4, <2>5, ZenonT(40)
<1>13. ASSUME NEW c \in Clients, Dial(c)  PROVE TypeOK'
  <2>1. CASE c \in handle /\ ~End
    <3>1. connect' = [connect EXCEPT ![c] = "test"] \/ connect' = [connect EXCEPT ![c] = "none"]
      BY <1>13, <2>1 DEF Dial, Goto, Panic
    <3>2. (up' \cup idling') \subseteq Clients /\ idling' \subseteq up'
      BY <1>13, <2>1 DEF Dial, Panic
    <3>3. UNCHANGED <<account, client, recovering, outages, register, loops, manager, down>>
      BY <1>13, <2>1 DEF Dial, Panic
    <3>4. QED  BY <3>1, <3>2, <3>3
  <2>2. CASE End  BY <2>2, EndTypes
  <2>3. QED  BY <1>13, <2>1, <2>2 DEF Dial, Panic
<1>14. ASSUME NEW c \in Clients, Test(c)  PROVE TypeOK'
  <2>1. CASE c \in handle /\ ~End
    <3>1. connect' = [connect EXCEPT ![c] = "retry"] \/ connect' = [connect EXCEPT ![c] = "start"]
      BY <1>14, <2>1 DEF Test, Goto, Panic
    <3>2. (up' \cup idling') \subseteq Clients /\ idling' \subseteq up'
      BY <1>14, <2>1 DEF Test, Panic
    <3>3. UNCHANGED <<account, client, recovering, outages, register, loops, manager, down>>
      BY <1>14, <2>1 DEF Test, Panic
    <3>4. QED  BY <3>1, <3>2, <3>3
  <2>2. CASE End  BY <2>2, EndTypes
  <2>3. QED  BY <1>14, <2>1, <2>2 DEF Test, Panic
<1>15. ASSUME NEW c \in Clients, Start(c)  PROVE TypeOK'
  <2>1. CASE c \in handle /\ ~End
    <3>1. \E s \in {"mark", "retry", "reconnect"} : connect' = [connect EXCEPT ![c] = s]
      BY <1>15, <2>1 DEF Start, Goto, Panic
    <3>2. up' \subseteq Clients /\ idling' \subseteq up'
      <4>1. CASE StartIDLE(c)  BY <4>1, StartTypes
      <4>2. CASE Disconnect(c)  BY <4>2 DEF Disconnect
      <4>3. QED  BY <1>15, <2>1, <4>1, <4>2 DEF Start, Panic
    <3>3. UNCHANGED <<account, client, recovering, outages, register, loops, manager, down>>
      BY <1>15, <2>1 DEF Start, Panic
    <3>4. connect' \in [Clients -> {"none", "enter", "dial", "test", "start", "reconnect", "retry",
                                    "mark", "loops"}]
      BY <3>1
    <3>5. QED  BY <3>2, <3>3, <3>4
  <2>2. CASE End  BY <2>2, EndTypes
  <2>3. QED  BY <1>15, <2>1, <2>2 DEF Start, Panic
<1>16. ASSUME NEW c \in Clients, ReconnectIMAPClient(c)  PROVE TypeOK'
  <2>1. CASE c \in handle /\ ~End
    <3>1. connect' = [connect EXCEPT ![c] = "retry"]
      BY <1>16, <2>1 DEF ReconnectIMAPClient, Goto, Panic
    <3>2. (up' \cup idling') \subseteq Clients /\ idling' \subseteq up'
      BY <1>16, <2>1 DEF ReconnectIMAPClient, Reconnect, Panic
    <3>3. UNCHANGED <<account, client, recovering, outages, register, loops, manager, down>>
      BY <1>16, <2>1 DEF ReconnectIMAPClient, Panic
    <3>4. QED  BY <3>1, <3>2, <3>3
  <2>2. CASE End  BY <2>2, EndTypes
  <2>3. QED  BY <1>16, <2>1, <2>2 DEF ReconnectIMAPClient, Panic
<1>17. ASSUME NEW c \in Clients, Retry(c)  PROVE TypeOK'
  <2>1. connect' = [connect EXCEPT ![c] = "test"] \/ connect' = [connect EXCEPT ![c] = "none"]
    BY <1>17 DEF Retry, Goto
  <2>2. /\ (up' \cup idling' \cup isConnected') \subseteq Clients /\ idling' \subseteq up'
        /\ UNCHANGED <<recovering, outages>>
    BY <1>17 DEF Retry, Disconnect
  <2>3. UNCHANGED <<account, life, handle, register, loops, manager, down>>  BY <1>17 DEF Retry
  <2>4. QED  BY <2>1, <2>2, <2>3
<1>18. ASSUME NEW c \in Clients, MarkConnected(c)  PROVE TypeOK'
  BY <1>18 DEF MarkConnected, Goto
<1>19. ASSUME NEW c \in Clients, StartLoops(c)  PROVE TypeOK'
  BY <1>19 DEF StartLoops, Goto
<1>20. ASSUME NEW c \in Clients, Waited(c)  PROVE TypeOK'
  BY <1>20 DEF Waited
<1>21. ASSUME NEW c \in Clients, RegistrationCancelled(c)  PROVE TypeOK'
  BY <1>21 DEF RegistrationCancelled
<1>22. ASSUME NEW c \in Clients, RegisterClient(c)  PROVE TypeOK'
  <2>1. CASE c \in handle /\ ~End
    <3>1. /\ register' = [register EXCEPT ![c] = "none"] /\ registered' = c
          /\ watchdog' = [watchdog EXCEPT ![c] = "tick"]
      BY <1>22, <2>1 DEF RegisterClient, Panic
    <3>2. UNCHANGED <<account, client, socket, connect, loops, down>>
      BY <1>22, <2>1 DEF RegisterClient, Panic
    <3>3. QED  BY <3>1, <3>2
  <2>2. CASE End  BY <2>2, EndTypes
  <2>3. QED  BY <1>22, <2>1, <2>2 DEF RegisterClient, Panic
<1>23. ASSUME NEW c \in Clients, SyncTick(c)  PROVE TypeOK'
  BY <1>23 DEF SyncTick
<1>24. ASSUME NEW c \in Clients, SyncDone(c)  PROVE TypeOK'
  <2>1. up' \subseteq Clients /\ idling' \subseteq up'  BY <1>24, StartTypes DEF SyncDone
  <2>2. sync' \in [Clients -> {"none", "wait", "check"}]  BY <1>24 DEF SyncDone
  <2>3. QED  BY <1>24, <2>1, <2>2 DEF SyncDone
<1>25. ASSUME NEW c \in Clients, SyncEnds(c)  PROVE TypeOK'
  BY <1>25 DEF SyncEnds, Cancelled
<1>26. ASSUME NEW c \in Clients, LoopFails(c)  PROVE TypeOK'
  BY <1>26 DEF LoopFails, Lose
<1>27. ASSUME NEW c \in Clients, LoopRecovers(c)  PROVE TypeOK'
  <2>1. up' \subseteq Clients /\ idling' \subseteq up'  BY <1>27, StartTypes DEF LoopRecovers
  <2>2. QED  BY <1>27, <2>1 DEF LoopRecovers
<1>28. ASSUME NEW c \in Clients, WatchdogReconnects(c)  PROVE TypeOK'
  BY <1>28 DEF WatchdogReconnects, Lose, Reconnect
<1>29. ASSUME NEW c \in Clients, WatchdogStartsIDLE(c)  PROVE TypeOK'
  <2>1. up' \subseteq Clients /\ idling' \subseteq up'  BY <1>29, StartTypes DEF WatchdogStartsIDLE
  <2>2. watchdog' \in [Clients -> {"none", "tick", "start"}]  BY <1>29 DEF WatchdogStartsIDLE
  <2>3. QED  BY <1>29, <2>1, <2>2 DEF WatchdogStartsIDLE
<1>30. ASSUME UNCHANGED vars  PROVE TypeOK'
  BY <1>30 DEF vars
<1>31. ASSUME NEW c \in Clients, Enter(c)  PROVE TypeOK'
  BY <1>31 DEF Enter, Goto
<1>32. QED
  BY <1>1, <1>2, <1>3, <1>4, <1>5, <1>6, <1>7, <1>8, <1>9, <1>10, <1>11,
     <1>12, <1>13, <1>14, <1>15, <1>16, <1>17, <1>18, <1>19, <1>20, <1>21, <1>22,
     <1>23, <1>24, <1>25, <1>26, <1>27, <1>28, <1>29, <1>30, <1>31
     DEF Next, LogoutStep, ConnectStep, RegisterStep, SyncStep, SocketStep

\* Every step keeps what is known of a client that is connecting.
LEMMA ConnectingStep ==
  ASSUME TypeOK, Connecting, [Next]_vars
  PROVE  Connecting'
<1> USE DEF TypeOK, Connecting, account, client, socket, loops, manager, None
<1>1. ASSUME Exit  PROVE Connecting'
  BY <1>1 DEF Exit, End, Nowhere, NoLogout
<1>2. ASSUME Logout  PROVE Connecting'
  BY <1>2 DEF Logout, NoLogout, Clients
<1>3. ASSUME DeleteAccount  PROVE Connecting'
  BY <1>3 DEF DeleteAccount, Then
<1>4. ASSUME StopClientLoops  PROVE Connecting'
  BY <1>4 DEF StopClientLoops, Then
<1>5. ASSUME DisconnectIMAPClient  PROVE Connecting'
  BY <1>5 DEF DisconnectIMAPClient, Then, Disconnect
<1>6. ASSUME CancelClient  PROVE Connecting'
  BY <1>6 DEF CancelClient, Then
<1>7. ASSUME RemoveAccount  PROVE Connecting'
  BY <1>7 DEF RemoveAccount, Then, Disconnect
<1>8. ASSUME ClearCredentials  PROVE Connecting'
  BY <1>8 DEF ClearCredentials, Then
<1>9. ASSUME DeleteUserLogin  PROVE Connecting'
  BY <1>9 DEF DeleteUserLogin, NoLogout
<1>10. ASSUME StopAll  PROVE Connecting'
  BY <1>10 DEF StopAll, Disconnect
<1>11. ASSUME NEW c \in Clients, SignIn(c)  PROVE Connecting'
  BY <1>11 DEF SignIn, Unborn, Goto
<1>12. ASSUME NEW c \in Clients, Restart(c)  PROVE Connecting'
  BY <1>12 DEF Restart, Unborn, Goto
<1>13. ASSUME NEW c \in Clients, Dial(c)  PROVE Connecting'
  BY <1>13 DEF Dial, Goto, Panic, End, Nowhere, NoLogout
<1>14. ASSUME NEW c \in Clients, Test(c)  PROVE Connecting'
  BY <1>14 DEF Test, Goto, Panic, End, Nowhere, NoLogout
<1>15. ASSUME NEW c \in Clients, Start(c)  PROVE Connecting'
  BY <1>15 DEF Start, Goto, Disconnect, Panic, End, Nowhere, NoLogout
<1>16. ASSUME NEW c \in Clients, ReconnectIMAPClient(c)  PROVE Connecting'
  BY <1>16 DEF ReconnectIMAPClient, Reconnect, Goto, Panic, End, Nowhere, NoLogout
<1>17. ASSUME NEW c \in Clients, Retry(c)  PROVE Connecting'
  BY <1>17 DEF Retry, Goto, Disconnect
<1>18. ASSUME NEW c \in Clients, MarkConnected(c)  PROVE Connecting'
  BY <1>18 DEF MarkConnected, Goto
<1>19. ASSUME NEW c \in Clients, StartLoops(c)  PROVE Connecting'
  BY <1>19 DEF StartLoops, Goto
<1>20. ASSUME NEW c \in Clients, Waited(c)  PROVE Connecting'
  BY <1>20 DEF Waited
<1>21. ASSUME NEW c \in Clients, RegistrationCancelled(c)  PROVE Connecting'
  BY <1>21 DEF RegistrationCancelled
<1>22. ASSUME NEW c \in Clients, RegisterClient(c)  PROVE Connecting'
  BY <1>22 DEF RegisterClient, Panic, End, Nowhere, NoLogout
<1>23. ASSUME NEW c \in Clients, SyncTick(c)  PROVE Connecting'
  BY <1>23 DEF SyncTick
<1>24. ASSUME NEW c \in Clients, SyncDone(c)  PROVE Connecting'
  BY <1>24 DEF SyncDone
<1>25. ASSUME NEW c \in Clients, SyncEnds(c)  PROVE Connecting'
  BY <1>25 DEF SyncEnds, Cancelled
<1>26. ASSUME NEW c \in Clients, LoopFails(c)  PROVE Connecting'
  BY <1>26 DEF LoopFails, Lose
<1>27. ASSUME NEW c \in Clients, LoopRecovers(c)  PROVE Connecting'
  BY <1>27 DEF LoopRecovers
<1>28. ASSUME NEW c \in Clients, WatchdogReconnects(c)  PROVE Connecting'
  BY <1>28 DEF WatchdogReconnects, Lose, Reconnect
<1>29. ASSUME NEW c \in Clients, WatchdogStartsIDLE(c)  PROVE Connecting'
  BY <1>29 DEF WatchdogStartsIDLE
<1>30. ASSUME UNCHANGED vars  PROVE Connecting'
  BY <1>30 DEF vars
<1>31. ASSUME NEW c \in Clients, Enter(c)  PROVE Connecting'
  BY <1>31 DEF Enter, Goto
<1>32. QED
  BY <1>1, <1>2, <1>3, <1>4, <1>5, <1>6, <1>7, <1>8, <1>9, <1>10, <1>11,
     <1>12, <1>13, <1>14, <1>15, <1>16, <1>17, <1>18, <1>19, <1>20, <1>21, <1>22,
     <1>23, <1>24, <1>25, <1>26, <1>27, <1>28, <1>29, <1>30, <1>31
     DEF Next, LogoutStep, ConnectStep, RegisterStep, SyncStep, SocketStep

\* A client that has ended stays so while its logout goes on.
LEMMA LogoutEndsStep ==
  ASSUME TypeOK, LogoutEnds, [Next]_vars
  PROVE  LogoutEnds'
<1> USE DEF TypeOK, LogoutEnds, account, client, socket, loops, manager, None
<1>1. ASSUME Exit  PROVE LogoutEnds'
  BY <1>1 DEF Exit, End, Nowhere, NoLogout
<1>2. ASSUME Logout  PROVE LogoutEnds'
  BY <1>2 DEF Logout, NoLogout, Clients
<1>3. ASSUME DeleteAccount  PROVE LogoutEnds'
  BY <1>3 DEF DeleteAccount, Then
<1>4. ASSUME StopClientLoops  PROVE LogoutEnds'
  BY <1>4 DEF StopClientLoops, Then
<1>5. ASSUME DisconnectIMAPClient  PROVE LogoutEnds'
  BY <1>5 DEF DisconnectIMAPClient, Then, Disconnect
<1>6. ASSUME CancelClient  PROVE LogoutEnds'
  BY <1>6 DEF CancelClient, Then
<1>7. ASSUME RemoveAccount  PROVE LogoutEnds'
  BY <1>7 DEF RemoveAccount, Then, Disconnect
<1>8. ASSUME ClearCredentials  PROVE LogoutEnds'
  BY <1>8 DEF ClearCredentials, Then
<1>9. ASSUME DeleteUserLogin  PROVE LogoutEnds'
  BY <1>9 DEF DeleteUserLogin, NoLogout
<1>10. ASSUME StopAll  PROVE LogoutEnds'
  BY <1>10 DEF StopAll, Disconnect
<1>11. ASSUME NEW c \in Clients, SignIn(c)  PROVE LogoutEnds'
  BY <1>11 DEF SignIn, Unborn, Goto
<1>12. ASSUME NEW c \in Clients, Restart(c)  PROVE LogoutEnds'
  BY <1>12 DEF Restart, Unborn, Goto
<1>13. ASSUME NEW c \in Clients, Dial(c)  PROVE LogoutEnds'
  BY <1>13 DEF Dial, Goto, Panic, End, Nowhere, NoLogout
<1>14. ASSUME NEW c \in Clients, Test(c)  PROVE LogoutEnds'
  BY <1>14 DEF Test, Goto, Panic, End, Nowhere, NoLogout
<1>15. ASSUME NEW c \in Clients, Start(c)  PROVE LogoutEnds'
  BY <1>15 DEF Start, Goto, Disconnect, Panic, End, Nowhere, NoLogout
<1>16. ASSUME NEW c \in Clients, ReconnectIMAPClient(c)  PROVE LogoutEnds'
  BY <1>16 DEF ReconnectIMAPClient, Reconnect, Goto, Panic, End, Nowhere, NoLogout
<1>17. ASSUME NEW c \in Clients, Retry(c)  PROVE LogoutEnds'
  BY <1>17 DEF Retry, Goto, Disconnect
<1>18. ASSUME NEW c \in Clients, MarkConnected(c)  PROVE LogoutEnds'
  BY <1>18 DEF MarkConnected, Goto
<1>19. ASSUME NEW c \in Clients, StartLoops(c)  PROVE LogoutEnds'
  BY <1>19 DEF StartLoops, Goto
<1>20. ASSUME NEW c \in Clients, Waited(c)  PROVE LogoutEnds'
  BY <1>20 DEF Waited
<1>21. ASSUME NEW c \in Clients, RegistrationCancelled(c)  PROVE LogoutEnds'
  BY <1>21 DEF RegistrationCancelled
<1>22. ASSUME NEW c \in Clients, RegisterClient(c)  PROVE LogoutEnds'
  BY <1>22 DEF RegisterClient, Panic, End, Nowhere, NoLogout
<1>23. ASSUME NEW c \in Clients, SyncTick(c)  PROVE LogoutEnds'
  BY <1>23 DEF SyncTick
<1>24. ASSUME NEW c \in Clients, SyncDone(c)  PROVE LogoutEnds'
  BY <1>24 DEF SyncDone
<1>25. ASSUME NEW c \in Clients, SyncEnds(c)  PROVE LogoutEnds'
  BY <1>25 DEF SyncEnds, Cancelled
<1>26. ASSUME NEW c \in Clients, LoopFails(c)  PROVE LogoutEnds'
  BY <1>26 DEF LoopFails, Lose
<1>27. ASSUME NEW c \in Clients, LoopRecovers(c)  PROVE LogoutEnds'
  BY <1>27 DEF LoopRecovers
<1>28. ASSUME NEW c \in Clients, WatchdogReconnects(c)  PROVE LogoutEnds'
  BY <1>28 DEF WatchdogReconnects, Lose, Reconnect
<1>29. ASSUME NEW c \in Clients, WatchdogStartsIDLE(c)  PROVE LogoutEnds'
  BY <1>29 DEF WatchdogStartsIDLE
<1>30. ASSUME UNCHANGED vars  PROVE LogoutEnds'
  BY <1>30 DEF vars
<1>31. ASSUME NEW c \in Clients, Enter(c)  PROVE LogoutEnds'
  BY <1>31 DEF Enter, Goto
<1>32. QED
  BY <1>1, <1>2, <1>3, <1>4, <1>5, <1>6, <1>7, <1>8, <1>9, <1>10, <1>11,
     <1>12, <1>13, <1>14, <1>15, <1>16, <1>17, <1>18, <1>19, <1>20, <1>21, <1>22,
     <1>23, <1>24, <1>25, <1>26, <1>27, <1>28, <1>29, <1>30, <1>31
     DEF Next, LogoutStep, ConnectStep, RegisterStep, SyncStep, SocketStep

\* Whoever takes the loop, or the means to stop it, from a client takes its flag or
\* its life first.
LEMMA SyncStepKept ==
  ASSUME TypeOK, Connecting, LogoutEnds, ConnectedAccountsSync, [Next]_vars
  PROVE  ConnectedAccountsSync'
<1> USE DEF TypeOK, Connecting, LogoutEnds, ConnectedAccountsSync,
            account, client, socket, loops, manager, None
<1>1. ASSUME Exit  PROVE ConnectedAccountsSync'
  BY <1>1 DEF Exit, End, Nowhere, NoLogout
<1>2. ASSUME Logout  PROVE ConnectedAccountsSync'
  BY <1>2 DEF Logout, NoLogout, Clients
<1>3. ASSUME DeleteAccount  PROVE ConnectedAccountsSync'
  BY <1>3 DEF DeleteAccount, Then
<1>4. ASSUME StopClientLoops  PROVE ConnectedAccountsSync'
  BY <1>4 DEF StopClientLoops, Then
<1>5. ASSUME DisconnectIMAPClient  PROVE ConnectedAccountsSync'
  BY <1>5 DEF DisconnectIMAPClient, Then, Disconnect
<1>6. ASSUME CancelClient  PROVE ConnectedAccountsSync'
  BY <1>6 DEF CancelClient, Then
<1>7. ASSUME RemoveAccount  PROVE ConnectedAccountsSync'
  BY <1>7 DEF RemoveAccount, Then, Disconnect
<1>8. ASSUME ClearCredentials  PROVE ConnectedAccountsSync'
  BY <1>8 DEF ClearCredentials, Then
<1>9. ASSUME DeleteUserLogin  PROVE ConnectedAccountsSync'
  BY <1>9 DEF DeleteUserLogin, NoLogout
<1>10. ASSUME StopAll  PROVE ConnectedAccountsSync'
  BY <1>10 DEF StopAll, Disconnect
<1>11. ASSUME NEW c \in Clients, SignIn(c)  PROVE ConnectedAccountsSync'
  BY <1>11 DEF SignIn, Unborn, Goto
<1>12. ASSUME NEW c \in Clients, Restart(c)  PROVE ConnectedAccountsSync'
  BY <1>12 DEF Restart, Unborn, Goto
<1>13. ASSUME NEW c \in Clients, Dial(c)  PROVE ConnectedAccountsSync'
  BY <1>13 DEF Dial, Goto, Panic, End, Nowhere, NoLogout
<1>14. ASSUME NEW c \in Clients, Test(c)  PROVE ConnectedAccountsSync'
  BY <1>14 DEF Test, Goto, Panic, End, Nowhere, NoLogout
<1>15. ASSUME NEW c \in Clients, Start(c)  PROVE ConnectedAccountsSync'
  BY <1>15 DEF Start, Goto, Disconnect, Panic, End, Nowhere, NoLogout
<1>16. ASSUME NEW c \in Clients, ReconnectIMAPClient(c)  PROVE ConnectedAccountsSync'
  BY <1>16 DEF ReconnectIMAPClient, Reconnect, Goto, Panic, End, Nowhere, NoLogout
<1>17. ASSUME NEW c \in Clients, Retry(c)  PROVE ConnectedAccountsSync'
  BY <1>17 DEF Retry, Goto, Disconnect
<1>18. ASSUME NEW c \in Clients, MarkConnected(c)  PROVE ConnectedAccountsSync'
  BY <1>18 DEF MarkConnected, Goto
<1>19. ASSUME NEW c \in Clients, StartLoops(c)  PROVE ConnectedAccountsSync'
  BY <1>19 DEF StartLoops, Goto
<1>20. ASSUME NEW c \in Clients, Waited(c)  PROVE ConnectedAccountsSync'
  BY <1>20 DEF Waited
<1>21. ASSUME NEW c \in Clients, RegistrationCancelled(c)  PROVE ConnectedAccountsSync'
  BY <1>21 DEF RegistrationCancelled
<1>22. ASSUME NEW c \in Clients, RegisterClient(c)  PROVE ConnectedAccountsSync'
  BY <1>22 DEF RegisterClient, Panic, End, Nowhere, NoLogout
<1>23. ASSUME NEW c \in Clients, SyncTick(c)  PROVE ConnectedAccountsSync'
  BY <1>23 DEF SyncTick
<1>24. ASSUME NEW c \in Clients, SyncDone(c)  PROVE ConnectedAccountsSync'
  BY <1>24 DEF SyncDone
<1>25. ASSUME NEW c \in Clients, SyncEnds(c)  PROVE ConnectedAccountsSync'
  BY <1>25 DEF SyncEnds, Cancelled
<1>26. ASSUME NEW c \in Clients, LoopFails(c)  PROVE ConnectedAccountsSync'
  BY <1>26 DEF LoopFails, Lose
<1>27. ASSUME NEW c \in Clients, LoopRecovers(c)  PROVE ConnectedAccountsSync'
  BY <1>27 DEF LoopRecovers
<1>28. ASSUME NEW c \in Clients, WatchdogReconnects(c)  PROVE ConnectedAccountsSync'
  BY <1>28 DEF WatchdogReconnects, Lose, Reconnect
<1>29. ASSUME NEW c \in Clients, WatchdogStartsIDLE(c)  PROVE ConnectedAccountsSync'
  BY <1>29 DEF WatchdogStartsIDLE
<1>30. ASSUME UNCHANGED vars  PROVE ConnectedAccountsSync'
  BY <1>30 DEF vars
<1>31. ASSUME NEW c \in Clients, Enter(c)  PROVE ConnectedAccountsSync'
  BY <1>31 DEF Enter, Goto
<1>32. QED
  BY <1>1, <1>2, <1>3, <1>4, <1>5, <1>6, <1>7, <1>8, <1>9, <1>10, <1>11,
     <1>12, <1>13, <1>14, <1>15, <1>16, <1>17, <1>18, <1>19, <1>20, <1>21, <1>22,
     <1>23, <1>24, <1>25, <1>26, <1>27, <1>28, <1>29, <1>30, <1>31
     DEF Next, LogoutStep, ConnectStep, RegisterStep, SyncStep, SocketStep

\* A client is started by a goroutine that is still connecting or registering it.
Starting(c) == connect[c] # "none" \/ register[c] # "none"

\* No goroutine outlives the process.
DownIsQuiet == down => \A c \in Clients : ~Starting(c)

\* Every step keeps the handle of a client that is starting and not cancelled.
LEMMA NilStep ==
  ASSUME TypeOK, LogoutEnds, DownIsQuiet, NilOnlyAfterCancel, [Next]_vars
  PROVE  DownIsQuiet' /\ NilOnlyAfterCancel'
<1> USE DEF TypeOK, DownIsQuiet, NilOnlyAfterCancel, Starting
<1> DEFINE Goal == DownIsQuiet' /\ NilOnlyAfterCancel'
           Kept == /\ UNCHANGED <<handle, life, down>>
                   /\ \A c \in Clients : /\ connect'[c] # "none" => connect[c] # "none"
                                         /\ register'[c] # "none" => register[c] # "none"
<1>1. ASSUME Kept  PROVE Goal
  BY <1>1
<1>2. ASSUME End  PROVE Goal
  BY <1>2 DEF End, Nowhere
<1> HIDE DEF Goal
<1>3. ASSUME Exit  PROVE Goal
  BY <1>2, <1>3 DEF Exit
<1>4. ASSUME LogoutStep \/ StopAll  PROVE Goal
  <2>1. CASE CancelClient
    <3>1. /\ life' = [life EXCEPT ![logout.of] = "ended"]
          /\ UNCHANGED <<handle, connect, register, down>>
      BY <2>1 DEF CancelClient
    <3>2. QED  BY <3>1 DEF Goal
  <2>2. CASE ClearCredentials
    <3>1. /\ handle' = handle \ {logout.of} /\ UNCHANGED <<life, connect, register, down>>
      BY <2>2 DEF ClearCredentials
    <3>2. logout.of \in Clients => life[logout.of] = "ended"
      BY <2>2 DEF ClearCredentials, LogoutEnds
    <3>3. QED  BY <3>1, <3>2 DEF Goal
  <2>3. CASE Logout \/ DeleteAccount \/ StopClientLoops \/ DisconnectIMAPClient
               \/ RemoveAccount \/ DeleteUserLogin \/ StopAll
    <3>1. UNCHANGED <<handle, life, down, connect, register>>
      BY <2>3 DEF Logout, DeleteAccount, StopClientLoops, DisconnectIMAPClient,
                  RemoveAccount, DeleteUserLogin, StopAll, client
    <3>2. QED  BY <1>1, <3>1
  <2>4. QED  BY <1>4, <2>1, <2>2, <2>3 DEF LogoutStep
<1>5. ASSUME NEW c \in Clients, SignIn(c) \/ Restart(c)  PROVE Goal
  <2>1. CASE SignIn(c)
    BY <2>1 DEF SignIn, Goto, Goal
  <2>2. CASE Restart(c)
    <3>1. down /\ ~down' /\ \A b \in Clients : connect[b] = "none" /\ register[b] = "none"
      BY <2>2 DEF Restart
    <3>2. \/ UNCHANGED <<handle, connect, register>>
          \/ /\ handle' = {c}
             /\ connect' = [connect EXCEPT ![c] = "enter"]
             /\ register' = [register EXCEPT ![c] = "wait"]
      BY <2>2 DEF Restart, Goto
    <3>3. QED  BY <3>1, <3>2 DEF Goal
  <2>3. QED  BY <1>5, <2>1, <2>2
<1>6. ASSUME NEW c \in Clients, ConnectStep(c) \/ RegisterStep(c)  PROVE Goal
  <2>1. CASE End  BY <2>1, <1>2
  <2>2. CASE ~End
    <3>1. ~Panic(c)  BY <2>2 DEF Panic
    <3>2. \/ /\ connect[c] # "none" /\ UNCHANGED register
             /\ \E s : connect' = [connect EXCEPT ![c] = s]
          \/ /\ register[c] # "none" /\ UNCHANGED connect
             /\ \E s : register' = [register EXCEPT ![c] = s]
      BY <1>6, <3>1 DEF ConnectStep, RegisterStep, Goto, Enter, Dial, Test, Start, ReconnectIMAPClient,
                        Retry, MarkConnected, StartLoops, Waited, RegistrationCancelled,
                        RegisterClient
    <3>3. UNCHANGED <<handle, life, down>>
      BY <1>6, <3>1 DEF ConnectStep, RegisterStep, Enter, Dial, Test, Start, ReconnectIMAPClient,
                        Retry, MarkConnected, StartLoops, Waited, RegistrationCancelled,
                        RegisterClient, client
    <3>4. QED  BY <1>1, <3>2, <3>3
  <2>3. QED  BY <2>1, <2>2
<1>7. ASSUME NEW c \in Clients, SyncStep(c) \/ SocketStep(c)  PROVE Goal
  <2>1. UNCHANGED <<handle, life, down, connect, register>>
    BY <1>7 DEF SyncStep, SocketStep, SyncTick, SyncDone, SyncEnds, LoopFails, LoopRecovers,
                WatchdogReconnects, WatchdogStartsIDLE, client
  <2>2. QED  BY <1>1, <2>1
<1>8. ASSUME UNCHANGED vars  PROVE Goal
  BY <1>1, <1>8 DEF vars, client
<1>9. QED  BY <1>3, <1>4, <1>5, <1>6, <1>7, <1>8 DEF Next, Goal
-----------------------------------------------------------------------------
\* AccountsInv is an invariant of the account's clients.
THEOREM AccountsInvariant == Spec => []AccountsInv
<1>1. Init => AccountsInv
  <2>1. Init => TypeOK
    <3>1. Init => outages \in 0..MaxOutages  BY AccountBounds DEF Init
    <3>2. Init => logout \in [step : {"none", "row", "flag", "imap", "cancel", "remove", "clear", "login"},
                               of : Clients \cup {None}]
      BY DEF Init, NoLogout
    <3>3. Init => /\ life \in [Clients -> {"unborn", "live", "ended"}]
                  /\ connect \in [Clients -> {"none", "enter", "dial", "test", "start", "reconnect", "retry",
                                           "mark", "loops"}]
      BY DEF Init
    <3>4. Init => /\ register \in [Clients -> {"none", "wait", "register"}]
                  /\ sync \in [Clients -> {"none", "wait", "check"}]
                  /\ watchdog \in [Clients -> {"none", "tick", "start"}]
      BY DEF Init
    <3>5. QED  BY <3>1, <3>2, <3>3, <3>4 DEF Init, TypeOK
  <2>2. Init => Connecting /\ LogoutEnds /\ ConnectedAccountsSync
    BY DEF Init, NoLogout, Connecting, LogoutEnds, ConnectedAccountsSync
  <2>3. QED  BY <2>1, <2>2 DEF AccountsInv
<1>2. AccountsInv /\ [Next]_vars => AccountsInv'
  BY TypeStep, ConnectingStep, LogoutEndsStep, SyncStepKept DEF AccountsInv
<1>3. QED  BY <1>1, <1>2, PTL DEF Spec

\* For any number of clients and outages every field keeps its type.
THEOREM AccountsTypes == Spec => []TypeOK
<1>1. AccountsInv => TypeOK  BY DEF AccountsInv
<1>2. QED  BY <1>1, AccountsInvariant, PTL

\* ConnectedAccountsSync holds for any number of clients: a connected client that
\* nobody logs out has its periodic sync, and Disconnect finds what stops it
\* (Connect and Disconnect of the EmailClient).
THEOREM AccountsSync == Spec => []ConnectedAccountsSync
<1>1. AccountsInv => ConnectedAccountsSync  BY DEF AccountsInv
<1>2. QED  BY <1>1, AccountsInvariant, PTL

\* NilOnlyAfterCancel holds for any number of clients: LogoutRemote clears
\* ec.IMAPClient behind goroutines that still run only once ec.cancel has told them.
THEOREM AccountsNil == Spec => []NilOnlyAfterCancel
<1>1. Init => DownIsQuiet /\ NilOnlyAfterCancel
  BY DEF Init, DownIsQuiet, NilOnlyAfterCancel, Starting
<1>2. /\ AccountsInv /\ DownIsQuiet /\ NilOnlyAfterCancel /\ [Next]_vars
      => DownIsQuiet' /\ NilOnlyAfterCancel'
  BY NilStep DEF AccountsInv
<1>3. QED  BY <1>1, <1>2, AccountsInvariant, PTL DEF Spec
=============================================================================
