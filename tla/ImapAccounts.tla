---------------------------- MODULE ImapAccounts ----------------------------
(***************************************************************************)
(* One mail account from sign-in to logout: its EmailClients with the      *)
(* goroutines each starts (pkg/connector/client.go), the imap.Client each  *)
(* of them owns, and the registry and watchdogs of the manager             *)
(* (pkg/imap/manager.go).                                                  *)
(*                                                                         *)
(* Every LoadUserLogin makes a new EmailClient; they are numbered in that  *)
(* order.  A second sign-in leaves the client of the first one running.    *)
(* What happens inside the imap.Client is the subject of ImapInbox and     *)
(* ImapRecovery: here it is connected or not, has an idle loop listening   *)
(* or not, and may have one that is recovering.                            *)
(***************************************************************************)
EXTENDS Integers

CONSTANTS MaxLoads,   \* how often LoadUserLogin runs (a bound)
          MaxOutages  \* how often an open connection is lost (a bound)

ASSUME AccountBounds == MaxLoads \in Nat \ {0} /\ MaxOutages \in Nat

VARIABLES
  row,          \* email_accounts has the account
  current,      \* the EmailClient in UserLogin.Client, or None without a login
  life,         \* of each EmailClient: unborn, live, or ended (ec.cancel called)
  handle,       \* clients with ec.IMAPClient # nil
  isConnected,  \* clients with ec.isConnected
  up,           \* clients whose imap.Client has connected = true
  idling,       \* clients with an idle loop listening (idling = true)
  recovering,   \* clients with an idle loop in performIDLERecovery
  outages,      \* connections lost so far
  connect,      \* where the goroutine of ec.Connect is
  register,     \* where the goroutine that registers the client is
  sync,         \* periodicSyncLoop: none, wait, or checking with IDLE stopped
  stopLoops,    \* clients with ec.stopLoops set
  told,         \* clients whose loop's own context is cancelled
  registered,   \* the client m.clients has, or None
  watchdog,     \* where the watchdog of each client is
  logout,       \* the LogoutRemote under way: its next step and its client
  down          \* the process has ended and not been started again

account == <<row, current, logout>>
client == <<life, handle, isConnected>>
socket == <<up, idling, recovering, outages>>
loops == <<sync, stopLoops, told>>
manager == <<registered, watchdog>>
vars == <<account, client, socket, connect, register, loops, manager, down>>

Clients == 1..MaxLoads
None == 0
Nowhere == [c \in Clients |-> "none"]
NoLogout == [step |-> "none", of |-> None]

Goto(c, s) == connect' = [connect EXCEPT ![c] = s]

\* Mutant: idling stays set.
DisconnectKeepsIdling(c) == up' = up \ {c} /\ UNCHANGED <<idling, recovering, outages>>

\* imap.Client.StopIDLE and Disconnect: an idle loop that listens hears them.
Disconnect(c) == up' = up \ {c} /\ idling' = idling \ {c} /\ UNCHANGED <<recovering, outages>>

\* reconnectClient: Disconnect, then connectInternal once more.
Reconnect(c) ==
  /\ up' \in {up \cup {c}, up \ {c}}
  /\ idling' = idling \ {c}

\* StartIDLE: it starts a loop or not; a hard error, or a resetConnection that cannot
\* dial, costs the connection.
StartIDLE(c) ==
  \/ UNCHANGED <<up, idling>>
  \/ /\ c \in up \ idling
     /\ up' \in {up, up \ {c}}
     /\ idling' \in {idling, idling \cup ({c} \cap up')}

\* A test, or an IDLE that has failed, with reconnectClient where it must, and
\* StartIDLE, each of which may fail.
ReconnectAndStart(c) ==
  /\ up' \in {up \cup {c}, up \ {c}}
  /\ idling' \in {idling \ {c}, (idling \ {c}) \cup ({c} \cap up')}

Lose == outages < MaxOutages /\ outages' = outages + 1

\* The process ends, and every goroutine with it.
End ==
  /\ down' = TRUE /\ logout' = NoLogout
  /\ life' = [c \in Clients |-> IF life[c] = "unborn" THEN "unborn" ELSE "ended"]
  /\ handle' = {} /\ isConnected' = {}
  /\ up' = {} /\ idling' = {} /\ recovering' = {}
  /\ connect' = Nowhere /\ register' = Nowhere /\ sync' = Nowhere /\ watchdog' = Nowhere
  /\ stopLoops' = {} /\ told' = {} /\ registered' = None
  /\ UNCHANGED <<row, current, outages>>

\* A goroutine calls a method of the nil pointer LogoutRemote has left in
\* ec.IMAPClient.  Nothing recovers.
Panic(c) == c \notin handle /\ End
-----------------------------------------------------------------------------
Init ==
  /\ row = FALSE /\ current = None /\ logout = NoLogout
  /\ life = [c \in Clients |-> "unborn"] /\ handle = {} /\ isConnected = {}
  /\ up = {} /\ idling = {} /\ recovering = {} /\ outages = 0
  /\ connect = [c \in Clients |-> "none"]
  /\ register = [c \in Clients |-> "none"]
  /\ sync = [c \in Clients |-> "none"] /\ stopLoops = {} /\ told = {}
  /\ registered = None /\ watchdog = [c \in Clients |-> "none"]
  /\ down = FALSE
-----------------------------------------------------------------------------
Unborn(c) == life[c] = "unborn" /\ \A b \in 1..(c - 1) : life[b] # "unborn"

\* completeLogin: the account is saved first, then NewLogin runs
\* LoadUserLogin, whose client replaces the one UserLogin.Client had.  (Bounds:
\* no logout is under way, and no client is still connecting or registering.)
SignIn(c) ==
  /\ ~down /\ Unborn(c) /\ logout = NoLogout
  /\ \A b \in Clients : connect[b] = "none" /\ register[b] = "none"
  /\ row' = TRUE /\ current' = c
  /\ life' = [life EXCEPT ![c] = "live"]
  /\ handle' = handle \cup {c}
  /\ Goto(c, "enter")
  /\ register' = [register EXCEPT ![c] = "wait"]
  /\ UNCHANGED <<logout, isConnected, socket, loops, manager, down>>

\* Stopped or killed.
Exit == ~down /\ End

\* The process starts again and the framework loads the login it has.  Without
\* its row LoadUserLogin fails, and the client it leaves in UserLogin.Client
\* has no imap.Client and no goroutine.
Restart(c) ==
  /\ down /\ down' = FALSE
  /\ Unborn(c)
  /\ IF current = None THEN UNCHANGED <<current, life>>
     ELSE current' = c /\ life' = [life EXCEPT ![c] = "live"]
  /\ IF current = None \/ ~row THEN UNCHANGED <<handle, connect, register>>
     ELSE /\ handle' = {c} /\ Goto(c, "enter")
          /\ register' = [register EXCEPT ![c] = "wait"]
  /\ UNCHANGED <<row, logout, isConnected, socket, loops, manager>>
-----------------------------------------------------------------------------
(* ec.Connect, started by startClientConnections. *)

\* Connect asks whether there is an IMAP client, and uses it later.
Enter(c) ==
  /\ connect[c] = "enter" /\ Goto(c, IF c \in handle THEN "dial" ELSE "none")
  /\ UNCHANGED <<account, client, socket, register, loops, manager, down>>

\* ec.IMAPClient.Connect(); nobody tries again when it fails.
Dial(c) ==
  /\ connect[c] = "dial"
  /\ \/ /\ c \in handle
        /\ \/ up' = up \cup {c} /\ idling' = idling \ {c} /\ Goto(c, "test")
           \/ Goto(c, "none") /\ UNCHANGED <<up, idling>>
        /\ UNCHANGED <<account, client, recovering, outages, register, loops, manager, down>>
     \/ Panic(c)

\* startIDLEWithRetry, one attempt: TestConnection, which drops the connection
\* after a hard error, then StartIDLE.
Test(c) ==
  /\ connect[c] = "test"
  /\ \/ /\ c \in handle
        /\ \/ c \in up /\ Goto(c, "start") /\ UNCHANGED <<up, idling>>
           \/ /\ Goto(c, "retry")
              /\ \/ UNCHANGED <<up, idling>>
                 \/ up' = up \ {c} /\ idling' = idling \ {c}
        /\ UNCHANGED <<account, client, recovering, outages, register, loops, manager, down>>
     \/ Panic(c)

Start(c) ==
  /\ connect[c] = "start"
  /\ \/ /\ c \in handle
        /\ \/ StartIDLE(c) /\ Goto(c, IF c \in idling' \ idling THEN "mark" ELSE "retry")
           \/ Disconnect(c) /\ Goto(c, "reconnect")
        /\ UNCHANGED <<account, client, recovering, outages, register, loops, manager, down>>
     \/ Panic(c)

\* reconnectIMAPClient after an IDLE conflict, past its Disconnect.
ReconnectIMAPClient(c) ==
  /\ connect[c] = "reconnect"
  /\ \/ /\ c \in handle /\ Reconnect(c) /\ Goto(c, "retry")
        /\ UNCHANGED <<account, client, recovering, outages, register, loops, manager, down>>
     \/ Panic(c)

\* Once the client's context has ended there is no further attempt.
Retry(c) ==
  /\ connect[c] = "retry"
  /\ \/ /\ life[c] = "live" /\ Goto(c, "test")
        /\ UNCHANGED <<isConnected, socket>>
     \/ /\ Goto(c, "none") /\ isConnected' = isConnected \ {c}
        /\ IF c \in handle THEN Disconnect(c) ELSE UNCHANGED socket
  /\ UNCHANGED <<account, life, handle, register, loops, manager, down>>

MarkConnected(c) ==
  /\ connect[c] = "mark" /\ Goto(c, "loops")
  /\ isConnected' = isConnected \cup {c}
  /\ UNCHANGED <<account, life, handle, socket, register, loops, manager, down>>

\* Mutant: the cancel function is not stored.
StartLoopsWithoutStore(c) ==
  /\ connect[c] = "loops" /\ Goto(c, "none")
  /\ sync' = [sync EXCEPT ![c] = "wait"] /\ told' = told \ {c}
  /\ UNCHANGED <<account, client, socket, register, stopLoops, manager, down>>

StartLoops(c) ==
  /\ connect[c] = "loops" /\ Goto(c, "none")
  /\ stopLoops' = stopLoops \cup {c}
  /\ sync' = [sync EXCEPT ![c] = "wait"] /\ told' = told \ {c}
  /\ UNCHANGED <<account, client, socket, register, manager, down>>
-----------------------------------------------------------------------------
(* The goroutine that registers the client with the manager. *)

\* The timer has fired.
Waited(c) ==
  /\ register[c] = "wait"
  /\ register' = [register EXCEPT ![c] = IF c \in isConnected THEN "register" ELSE "none"]
  /\ UNCHANGED <<account, client, socket, connect, loops, manager, down>>

RegistrationCancelled(c) ==
  /\ register[c] = "wait" /\ life[c] = "ended"
  /\ register' = [register EXCEPT ![c] = "none"]
  /\ UNCHANGED <<account, client, socket, connect, loops, manager, down>>

\* RegisterClient.  (The watchdog of a nil client panics at its first tick.)
RegisterClient(c) ==
  /\ register[c] = "register"
  /\ \/ /\ c \in handle
        /\ register' = [register EXCEPT ![c] = "none"]
        /\ registered' = c
        /\ watchdog' = [watchdog EXCEPT ![c] = "tick"]
        /\ UNCHANGED <<account, client, socket, connect, loops, down>>
     \/ Panic(c)
-----------------------------------------------------------------------------
(* periodicSyncLoop. *)

\* Mutant: the context startLoops makes is no child of the client's.
CancelledOnlyByStop(c) == c \in told

\* The loop's context is a child of the client's.
Cancelled(c) == c \in told \/ life[c] = "ended"

\* The tick, when the client is connected and idles: CheckNewMessages stops
\* IDLE.  Otherwise the check changes nothing here.
SyncTick(c) ==
  /\ sync[c] = "wait" /\ ~Cancelled(c) /\ c \in handle \cap up \cap idling
  /\ sync' = [sync EXCEPT ![c] = "check"]
  /\ idling' = idling \ {c}
  /\ UNCHANGED <<account, client, up, recovering, outages, connect, register, stopLoops, told, manager, down>>

\* The end of the check, and safeStartIDLE.
SyncDone(c) ==
  /\ sync[c] = "check"
  /\ sync' = [sync EXCEPT ![c] = "wait"]
  /\ ReconnectAndStart(c)
  /\ UNCHANGED <<account, client, recovering, outages, connect, register, stopLoops, told, manager, down>>

SyncEnds(c) ==
  /\ sync[c] = "wait" /\ Cancelled(c)
  /\ sync' = [sync EXCEPT ![c] = "none"]
  /\ UNCHANGED <<account, client, socket, connect, register, stopLoops, told, manager, down>>
-----------------------------------------------------------------------------
(* The imap.Client on its own. *)

\* IDLE fails: the connection is dropped and the loop goes to recover it.
LoopFails(c) ==
  /\ c \in idling /\ Lose
  /\ up' = up \ {c} /\ idling' = idling \ {c} /\ recovering' = recovering \cup {c}
  /\ UNCHANGED <<account, client, connect, register, loops, manager, down>>

\* performIDLERecovery; a failed reconnect may end the loop (ImapRecovery).
LoopRecovers(c) ==
  /\ c \in recovering /\ recovering' = recovering \ {c}
  /\ ReconnectAndStart(c)
  /\ UNCHANGED <<account, client, outages, connect, register, loops, manager, down>>

\* The watchdog's tick: not connected, or the health probe failed.
WatchdogReconnects(c) ==
  /\ watchdog[c] = "tick"
  /\ IF c \in up THEN Lose ELSE UNCHANGED outages
  /\ Reconnect(c)
  /\ watchdog' = [watchdog EXCEPT ![c] = IF c \in up' THEN "start" ELSE "tick"]
  /\ UNCHANGED <<account, client, recovering, connect, register, loops, registered, down>>

WatchdogStartsIDLE(c) ==
  /\ watchdog[c] = "start"
  /\ watchdog' = [watchdog EXCEPT ![c] = "tick"]
  /\ StartIDLE(c)
  /\ UNCHANGED <<account, client, recovering, outages, connect, register, loops, registered, down>>
-----------------------------------------------------------------------------
(* LogoutRemote and StopAll. *)

Then(s) == logout' = [logout EXCEPT !.step = s]

Logout ==
  /\ ~down /\ current # None /\ logout = NoLogout
  /\ logout' = [step |-> "row", of |-> current]
  /\ UNCHANGED <<row, current, client, socket, connect, register, loops, manager, down>>

\* An error is only logged.
DeleteAccount ==
  /\ logout.step = "row" /\ Then("flag")
  /\ row' \in {row, FALSE}
  /\ UNCHANGED <<current, client, socket, connect, register, loops, manager, down>>

\* ec.Disconnect: the flag, the loops, the connection, the context.
StopClientLoops ==
  LET c == logout.of IN
  /\ logout.step = "flag" /\ Then("imap")
  /\ isConnected' = isConnected \ {c}
  /\ stopLoops' = stopLoops \ {c} /\ told' = told \cup ({c} \cap stopLoops)
  /\ UNCHANGED <<row, current, life, handle, socket, connect, register, sync, manager, down>>

DisconnectIMAPClient ==
  LET c == logout.of IN
  /\ logout.step = "imap" /\ Then("cancel")
  /\ IF c \in handle THEN Disconnect(c) ELSE UNCHANGED socket
  /\ UNCHANGED <<row, current, client, connect, register, loops, manager, down>>

\* Mutant: ec.Disconnect returns without ec.cancel.
CancelClientForgotten ==
  /\ logout.step = "cancel" /\ Then("remove")
  /\ UNCHANGED <<row, current, client, socket, connect, register, loops, manager, down>>

CancelClient ==
  /\ logout.step = "cancel" /\ Then("remove")
  /\ life' = [life EXCEPT ![logout.of] = "ended"]
  /\ UNCHANGED <<row, current, handle, isConnected, socket, connect, register, loops, manager, down>>

RemoveAccount ==
  /\ logout.step = "remove" /\ Then("clear")
  /\ IF registered = None THEN UNCHANGED socket ELSE Disconnect(registered)
  /\ registered' = None
  /\ UNCHANGED <<row, current, client, connect, register, loops, watchdog, down>>

ClearCredentials ==
  /\ logout.step = "clear" /\ Then("login")
  /\ handle' = handle \ {logout.of}
  /\ UNCHANGED <<row, current, life, isConnected, socket, connect, register, loops, manager, down>>

DeleteUserLogin ==
  /\ logout.step = "login" /\ logout' = NoLogout
  /\ current' = None
  /\ UNCHANGED <<row, client, socket, connect, register, loops, manager, down>>

\* StopAll: the registry is emptied under m.mu and the client stopped outside;
\* a client registered in between is as one registered afterwards.
StopAll ==
  /\ registered # None /\ registered' = None
  /\ Disconnect(registered)
  /\ UNCHANGED <<account, client, connect, register, loops, watchdog, down>>
-----------------------------------------------------------------------------
LogoutStep ==
  \/ Logout \/ DeleteAccount \/ StopClientLoops \/ DisconnectIMAPClient \/ CancelClient
  \/ RemoveAccount \/ ClearCredentials \/ DeleteUserLogin

ConnectStep(c) ==
  \/ Enter(c) \/ Dial(c) \/ Test(c) \/ Start(c) \/ ReconnectIMAPClient(c) \/ Retry(c)
  \/ MarkConnected(c) \/ StartLoops(c)

RegisterStep(c) == Waited(c) \/ RegistrationCancelled(c) \/ RegisterClient(c)

SyncStep(c) == SyncTick(c) \/ SyncDone(c) \/ SyncEnds(c)

SocketStep(c) ==
  LoopFails(c) \/ LoopRecovers(c) \/ WatchdogReconnects(c) \/ WatchdogStartsIDLE(c)

Next ==
  \/ Exit \/ LogoutStep \/ StopAll
  \/ \E c \in Clients :
       \/ SignIn(c) \/ Restart(c)
       \/ ConnectStep(c) \/ RegisterStep(c) \/ SyncStep(c) \/ SocketStep(c)

Spec == Init /\ [][Next]_vars

\* A goroutine runs, and a check ends.
FairSpec == Spec /\ \A c \in Clients : WF_vars(SyncDone(c) \/ SyncEnds(c))
-----------------------------------------------------------------------------
\* The shape of the state.
TypeOK ==
  /\ row \in BOOLEAN /\ down \in BOOLEAN
  /\ outages \in 0..MaxOutages
  /\ {current, registered} \subseteq Clients \cup {None}
  /\ life \in [Clients -> {"unborn", "live", "ended"}]
  /\ (handle \cup isConnected \cup up \cup idling \cup recovering) \subseteq Clients
  /\ idling \subseteq up
  /\ (stopLoops \cup told) \subseteq Clients
  /\ connect \in [Clients -> {"none", "enter", "dial", "test", "start", "reconnect", "retry", "mark", "loops"}]
  /\ register \in [Clients -> {"none", "wait", "register"}]
  /\ sync \in [Clients -> {"none", "wait", "check"}]
  /\ watchdog \in [Clients -> {"none", "tick", "start"}]
  /\ logout \in [step : {"none", "row", "flag", "imap", "cancel", "remove", "clear", "login"},
                 of : Clients \cup {None}]

\* A client that reports itself connected, and that nobody is logging out,
\* has its periodic sync running, and a logout will find the means to stop it
\* (Connect sets isConnected before startLoops, Disconnect clears them in
\* the same order).
ConnectedAccountsSync ==
  \A c \in isConnected :
    connect[c] = "none" /\ life[c] = "live" /\ logout.of # c =>
      sync[c] # "none" /\ c \in stopLoops /\ c \notin told

\* The periodic sync of a client that is gone ends, even when startLoops ran
\* after Disconnect had looked for the loops to stop: their context is a child
\* of the client's.
SyncEndsWithClient ==
  \A c \in Clients : life[c] = "ended" /\ connect[c] = "none" ~> sync[c] = "none"

\* A goroutine of Connect or of the registration finds ec.IMAPClient nil only
\* when its client's context has been cancelled: not in a second sign-in, not
\* after a restart, and while a logout is under way not before ec.cancel
\* ("safe after Disconnect() has cancelled all operations").
NilOnlyAfterCancel ==
  \A c \in Clients :
    (connect[c] # "none" \/ register[c] # "none") /\ c \notin handle => life[c] = "ended"

\* Once the logout has ended and no login is left, no connection of the account comes back,
\* unless a connect, a recovery or a check was already under way (LogoutRemote; README.md
\* says it disconnects the account).
LogoutSticks ==
  [][\A c \in Clients :
       current = None /\ connect[c] = "none" /\ c \notin recovering /\ sync[c] # "check" =>
         (c \in up' => c \in up)]_vars
=============================================================================
