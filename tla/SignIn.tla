------------------------------- MODULE SignIn -------------------------------
(***************************************************************************)
(* Signing in to one email account of one Matrix user: the login processes *)
(* (pkg/connector/login.go), the loopback listener that receives Google's  *)
(* redirect (oauth_listener.go), the registry `oauth paste-code' looks it  *)
(* up in (connector.go) and the bot's dispatch of login steps              *)
(* (commands.go).                                                          *)
(*                                                                         *)
(* A login is driven by the bot, by a client of the framework's            *)
(* provisioning API, or by `login email:... password:...'.  Of the         *)
(* framework the module has what this code relies on: one CommandState per *)
(* user, a cancel command that calls its Cancel and clears it, and NewLogin *)
(* creating the UserLogin only if LoadUserLogin accepts it.                *)
(*                                                                         *)
(* The channels of a listener, and the context of Wait, are read once; what *)
(* is sent to them afterwards stays in the code's buffers, and nobody      *)
(* looks: here they are empty as soon as one of them has been read.        *)
(***************************************************************************)
EXTENDS Integers

CONSTANTS MaxLogins,       \* how many login processes there are (a bound)
          OAuthConfigured  \* gmail_oauth has credentials

ASSUME LoginBounds == MaxLogins \in Nat /\ OAuthConfigured \in BOOLEAN

Logins == 1..MaxLogins  \* in the order they are begun
NoLogin == 0
NoState == [login |-> NoLogin, kind |-> "none"]
Asking(l) == [login |-> l, kind |-> "input"]
Waiting(l) == [login |-> l, kind |-> "wait"]

VARIABLES
  step,       \* currentStep; the first prompt is named, "unused" before CreateLogin
  driver,     \* who drives the process
  pc,         \* what the goroutine that serves it is about to do
  outcome,    \* the step it returns
  cancelled,  \* the context of Wait is done
  port,       \* its listener's port
  code, err,  \* how many values codeCh and errCh hold
  registered, \* the login whose listener is in oauthListeners
  state,      \* the user's CommandState
  row,        \* the account's row: absent, with a password, with an empty one, or with
              \* an OAuth token, which auth_type prefers to the password
  userLogin   \* the UserLogin exists

listener == <<port, code, err>>
account == <<row, userLogin>>
vars == <<step, driver, pc, outcome, cancelled, listener, registered, state, account>>

Goto(l, place) == pc' = [pc EXCEPT ![l] = place]
Return(l, result) == outcome' = [outcome EXCEPT ![l] = result]
CurrentStep(l, s) == step' = [step EXCEPT ![l] = s]

\* UpsertAccount leaves auth_type and the tokens of an existing row alone.
UpsertAccount(pass) == row' = IF row = "oauth" THEN row ELSE pass

Close(l) == port' = [port EXCEPT ![l] = "closed"]

\* registerOAuthListener.
Register(l) == registered' = l

\* A change that forgets the identity check: another login's entry goes too.
UnregisterWhatever(l) == registered' = NoLogin

\* unregisterOAuthListener removes the entry only if it is still l's.
Unregister(l) == registered' = IF registered = l THEN NoLogin ELSE registered

\* Somebody will still read the channels of l.
Read(l) == pc[l] \in {"wait", "poll"}

\* The answer to a prompt reaches the login whose CommandState the bot has, or
\* comes from its client.
MaySubmit(l) ==
  /\ pc[l] = "idle"
  /\ state = Asking(l) \/ driver[l] = "client"
-----------------------------------------------------------------------------
Init ==
  /\ step = [l \in Logins |-> "unused"]
  /\ driver = [l \in Logins |-> "bot"]
  /\ pc = [l \in Logins |-> "idle"]
  /\ outcome = [l \in Logins |-> "none"]
  /\ cancelled = [l \in Logins |-> FALSE]
  /\ port = [l \in Logins |-> "unbound"]
  /\ code = [l \in Logins |-> 0] /\ err = [l \in Logins |-> 0]
  /\ registered = NoLogin
  /\ state = NoState
  /\ row = "absent" /\ userLogin = FALSE
-----------------------------------------------------------------------------
(* The steps of a login process. *)

FirstStep(d) ==
  CASE d = "bot" -> {IF OAuthConfigured THEN "oauth_email" ELSE "credentials"}
    [] d = "client" -> {"credentials"} \cup (IF OAuthConfigured THEN {"oauth_email"} ELSE {})
    [] d = "text" -> {"credentials"}

\* CreateLogin and Start.  The bot asks for input in place of whatever it asked
\* for before; the text command submits its credentials at once.
Begin(l, d) ==
  /\ step[l] = "unused" /\ \A k \in 1..(l - 1) : step[k] # "unused"
  /\ \E s \in FirstStep(d) : CurrentStep(l, s)
  /\ driver' = [driver EXCEPT ![l] = d]
  /\ Goto(l, IF d = "text" THEN "connect" ELSE "idle")
  /\ state' = IF d = "bot" THEN Asking(l) ELSE state
  /\ UNCHANGED <<outcome, cancelled, listener, registered, account>>

\* handleOAuthEmail up to UpsertAccount, which empties the password.
SubmitEmail(l) ==
  /\ step[l] = "oauth_email" /\ MaySubmit(l)
  /\ UpsertAccount("empty")
  /\ Goto(l, "bind")
  /\ UNCHANGED <<step, driver, outcome, cancelled, listener, registered, state, userLogin>>

\* StartOAuthListener and registerOAuthListener.  The bot then runs Wait; a client
\* calls Wait or asks again and again.
StartListener(l) ==
  /\ pc[l] = "bind"
  /\ port' = [port EXCEPT ![l] = "open"]
  /\ Register(l)
  /\ CurrentStep(l, "oauth_wait")
  /\ \/ driver[l] = "bot" /\ Goto(l, "wait") /\ state' = Waiting(l)
     \/ driver[l] = "client" /\ (Goto(l, "wait") \/ Goto(l, "poll")) /\ UNCHANGED state
  /\ UNCHANGED <<driver, outcome, cancelled, code, err, account>>

\* The port is taken: the prompt stays and may be answered again.
BindFails(l) ==
  /\ pc[l] = "bind"
  /\ Goto(l, "idle")
  /\ UNCHANGED <<step, driver, outcome, cancelled, listener, registered, state, account>>

SubmitCredentials(l) ==
  /\ step[l] = "credentials" /\ MaySubmit(l)
  /\ Goto(l, "connect")
  /\ UNCHANGED <<step, driver, outcome, cancelled, listener, registered, state, account>>

\* handleCredentials: the test connection fails, lists folders, or lists none.
TestConnection(l) ==
  /\ pc[l] = "connect"
  /\ \/ Goto(l, "dispatch") /\ Return(l, "failed") /\ UNCHANGED step
     \/ Goto(l, "dispatch") /\ Return(l, "prompt") /\ CurrentStep(l, "folder_selection")
     \/ Goto(l, "complete") /\ UNCHANGED <<outcome, step>>
  /\ UNCHANGED <<driver, cancelled, listener, registered, state, account>>

\* handleFolderSelection with a valid answer, handleConfirmation with a no or a
\* yes; other answers change nothing.
SubmitFolders(l) ==
  /\ step[l] = "folder_selection" /\ MaySubmit(l)
  /\ CurrentStep(l, "confirmation")
  /\ UNCHANGED <<driver, pc, outcome, cancelled, listener, registered, state, account>>

SubmitConfirmation(l) ==
  /\ step[l] = "confirmation" /\ MaySubmit(l)
  /\ \/ CurrentStep(l, "folder_selection") /\ UNCHANGED pc
     \/ Goto(l, "complete") /\ UNCHANGED step
  /\ UNCHANGED <<driver, outcome, cancelled, listener, registered, state, account>>

\* completeLogin's write.  The OAuth flow, which has bound a port, only updates the
\* folders of the row; the password flow upserts it.
CompleteRow(l) ==
  /\ pc[l] = "complete"
  /\ Goto(l, "newlogin")
  /\ IF port[l] # "unbound" THEN UNCHANGED row ELSE UpsertAccount("password")
  /\ UNCHANGED <<step, driver, outcome, cancelled, listener, registered, state, userLogin>>

\* completeLogin's NewLogin: LoadUserLogin wants the row.  Wait has its cleanup
\* still to do.
NewLogin(l) ==
  /\ pc[l] = "newlogin"
  /\ userLogin' = (userLogin \/ row # "absent")
  /\ Return(l, IF row = "absent" THEN "failed" ELSE "complete")
  /\ Goto(l, IF step[l] = "oauth_wait" THEN "cleanup" ELSE "dispatch")
  /\ UNCHANGED <<step, driver, cancelled, listener, registered, state, row>>

\* dispatchLoginStep after a submission or after Wait.  A failed submission leaves
\* the prompt; the end of Wait clears the CommandState, whosever it is.  Only
\* the bot's own logins store the next one.
Dispatch(l) ==
  /\ pc[l] = "dispatch"
  /\ Goto(l, "idle")
  /\ Return(l, "none")
  /\ state' = IF driver[l] # "bot" THEN state
              ELSE CASE outcome[l] = "prompt" -> Asking(l)
                     [] outcome[l] = "failed" /\ step[l] # "oauth_wait" -> state
                     [] OTHER -> NoState
  /\ step' = [step EXCEPT ![l] = IF outcome[l] = "complete" \/ @ = "oauth_wait" THEN "over" ELSE @]
  /\ UNCHANGED <<driver, cancelled, listener, registered, account>>
-----------------------------------------------------------------------------
(* The listener. *)

\* A request at /callback: with the right state and a code it fills codeCh, with an
\* error or without a code errCh; a full channel drops it.
Callback(l) ==
  /\ port[l] = "open" /\ Read(l)
  /\ \/ code[l] < 1 /\ code' = [code EXCEPT ![l] = @ + 1] /\ UNCHANGED err
     \/ err[l] < 1 /\ err' = [err EXCEPT ![l] = @ + 1] /\ UNCHANGED code
  /\ UNCHANGED <<step, driver, pc, outcome, cancelled, port, registered, state, account>>

\* A change that closes the listener without telling Wait.
TimeOutSilently(l) ==
  /\ port[l] = "open"
  /\ Close(l)
  /\ UNCHANGED <<step, driver, pc, outcome, cancelled, code, err, registered, state, account>>

\* A change that tells Wait and leaves the port to it.
TimeOutWithoutClose(l) ==
  /\ port[l] = "open" /\ err[l] < 1
  /\ err' = [err EXCEPT ![l] = @ + 1]
  /\ UNCHANGED <<step, driver, pc, outcome, cancelled, port, code, registered, state, account>>

\* The callback timeout: an error for Wait if errCh has room, and Close.
TimeOut(l) ==
  /\ port[l] = "open"
  /\ err' = [err EXCEPT ![l] = IF @ < 1 /\ Read(l) THEN @ + 1 ELSE @]
  /\ Close(l)
  /\ UNCHANGED <<step, driver, pc, outcome, cancelled, code, registered, state, account>>

\* A change that pushes the code whatever the channel holds.
InjectAnyway(l) ==
  /\ registered = l /\ Read(l)
  /\ code' = [code EXCEPT ![l] = @ + 1]
  /\ UNCHANGED <<step, driver, pc, outcome, cancelled, port, err, registered, state, account>>

\* fnOAuthPasteCode looks the listener up, open or closed, and Inject refuses a code
\* while one is delivered.
Inject(l) ==
  /\ registered = l /\ Read(l)
  /\ code[l] < 1
  /\ code' = [code EXCEPT ![l] = @ + 1]
  /\ UNCHANGED <<step, driver, pc, outcome, cancelled, port, err, registered, state, account>>
-----------------------------------------------------------------------------
(* Wait, and handleOAuthWait for a client that polls. *)

Received(l, place, result) ==
  /\ code' = [code EXCEPT ![l] = 0] /\ err' = [err EXCEPT ![l] = 0]
  /\ cancelled' = [cancelled EXCEPT ![l] = FALSE]
  /\ Goto(l, place) /\ Return(l, result)
  /\ UNCHANGED <<step, driver, port, registered, state, account>>

\* Wait's select takes any case that is ready.
Wait(l) ==
  /\ pc[l] = "wait"
  /\ \/ code[l] > 0 /\ Received(l, "exchange", "none")
     \/ (err[l] > 0 \/ cancelled[l]) /\ Received(l, "cleanup", "failed")

\* A client that asks with nothing to read gets the same step once more.
Poll(l) ==
  /\ pc[l] = "poll"
  /\ \/ code[l] > 0 /\ Received(l, "exchange", "none")
     \/ err[l] > 0 /\ Received(l, "cleanup", "failed")

\* finishOAuthExchange.  ExchangeCode or the profile check fails; or the token is
\* saved into the row, if it is still there, and the folders are listed: none, or an
\* error, complete the login on the spot.
FinishOAuthExchange(l) ==
  /\ pc[l] = "exchange"
  /\ \/ Goto(l, "cleanup") /\ Return(l, "failed") /\ UNCHANGED <<step, row>>
     \/ /\ row # "absent"
        /\ row' = "oauth"
        /\ \/ CurrentStep(l, "folder_selection") /\ Return(l, "prompt") /\ Goto(l, "cleanup")
           \/ Goto(l, "complete") /\ UNCHANGED <<step, outcome>>
  /\ UNCHANGED <<driver, cancelled, listener, registered, state, userLogin>>

\* A change that releases the port only when the login goes on.
CloseOnSuccess(l) ==
  /\ pc[l] = "cleanup"
  /\ Unregister(l)
  /\ IF outcome[l] = "failed" THEN UNCHANGED port ELSE Close(l)
  /\ Goto(l, "dispatch")
  /\ UNCHANGED <<step, driver, outcome, cancelled, code, err, state, account>>

\* What Wait and handleOAuthWait have deferred: unregister and Close.
CleanUp(l) ==
  /\ pc[l] = "cleanup"
  /\ Unregister(l)
  /\ Close(l)
  /\ Goto(l, "dispatch")
  /\ UNCHANGED <<step, driver, outcome, cancelled, code, err, state, account>>
-----------------------------------------------------------------------------
(* Giving up, signing out and restarting. *)

\* The cancel command: a login that asks for input is forgotten, one that waits has
\* its context cancelled.
CancelCommand ==
  /\ state # NoState
  /\ state' = NoState
  /\ IF state.kind = "wait"
     THEN cancelled' = [cancelled EXCEPT ![state.login] = Read(state.login)]
     ELSE UNCHANGED cancelled
  /\ UNCHANGED <<step, driver, pc, outcome, listener, registered, account>>

\* The client hangs up while its call to Wait is running.
ClientGone(l) ==
  /\ driver[l] = "client" /\ pc[l] = "wait" /\ ~cancelled[l]
  /\ cancelled' = [cancelled EXCEPT ![l] = TRUE]
  /\ UNCHANGED <<step, driver, pc, outcome, listener, registered, state, account>>

\* Cancel, called by the framework for a client.
CancelLogin(l) ==
  /\ driver[l] = "client" /\ step[l] # "over"
  /\ port[l] = "open" \/ registered = l
  /\ Unregister(l)
  /\ Close(l)
  /\ UNCHANGED <<step, driver, pc, outcome, cancelled, code, err, state, account>>

\* LogoutRemote, in its two database steps.
DeleteAccount ==
  /\ userLogin /\ row # "absent"
  /\ row' = "absent"
  /\ UNCHANGED <<step, driver, pc, outcome, cancelled, listener, registered, state, userLogin>>

DeleteLogin ==
  /\ userLogin /\ row = "absent"
  /\ userLogin' = FALSE
  /\ UNCHANGED <<step, driver, pc, outcome, cancelled, listener, registered, state, row>>

\* fnOAuthPasteToken registers the account with a refresh token of the user's: the
\* row is upserted with an empty password, then the token saved, unless that fails.
\* No UserLogin is created.
PasteToken ==
  /\ OAuthConfigured
  /\ row' = "oauth" \/ UpsertAccount("empty")
  /\ UNCHANGED <<step, driver, pc, outcome, cancelled, listener, registered, state, userLogin>>

\* The bridge restarts: logins live in memory only.
Restart ==
  /\ \E l \in Logins : step[l] \notin {"unused", "over"}
  /\ step' = [l \in Logins |-> IF step[l] = "unused" THEN "unused" ELSE "over"]
  /\ pc' = [l \in Logins |-> "idle"]
  /\ outcome' = [l \in Logins |-> "none"]
  /\ port' = [l \in Logins |-> IF port[l] = "unbound" THEN "unbound" ELSE "closed"]
  /\ code' = [l \in Logins |-> 0] /\ err' = [l \in Logins |-> 0]
  /\ registered' = NoLogin
  /\ state' = NoState
  /\ cancelled' = [l \in Logins |-> FALSE]
  /\ UNCHANGED <<driver, account>>
-----------------------------------------------------------------------------
Submit(l) == \/ SubmitEmail(l) \/ SubmitCredentials(l) \/ SubmitFolders(l) \/ SubmitConfirmation(l)

Serve(l) ==
  \/ StartListener(l) \/ BindFails(l) \/ TestConnection(l)
  \/ Wait(l) \/ Poll(l) \/ FinishOAuthExchange(l)
  \/ CleanUp(l) \/ CompleteRow(l) \/ NewLogin(l) \/ Dispatch(l)

Next ==
  \/ \E l \in Logins :
       \/ \E d \in {"bot", "client", "text"} : Begin(l, d)
       \/ Submit(l) \/ Serve(l)
       \/ Callback(l) \/ TimeOut(l) \/ Inject(l)
       \/ ClientGone(l) \/ CancelLogin(l)
  \/ CancelCommand
  \/ DeleteAccount \/ DeleteLogin \/ PasteToken \/ Restart

Spec == Init /\ [][Next]_vars

\* The timer of each listener fires, and a goroutine whose select has a case ready
\* goes on.  Nothing is assumed of the user, of clients or of Google.
FairSpec ==
  /\ Spec
  /\ \A l \in Logins : WF_vars(TimeOut(l)) /\ WF_vars(Wait(l))
-----------------------------------------------------------------------------
\* Every field has its type; no channel holds more than its buffer.
TypeOK ==
  /\ step \in [Logins -> {"unused", "oauth_email", "oauth_wait", "credentials", "folder_selection",
                          "confirmation", "over"}]
  /\ driver \in [Logins -> {"bot", "client", "text"}]
  /\ pc \in [Logins -> {"idle", "bind", "connect", "wait", "poll", "exchange", "complete",
                        "newlogin", "cleanup", "dispatch"}]
  /\ outcome \in [Logins -> {"none", "prompt", "failed", "complete"}]
  /\ cancelled \in [Logins -> BOOLEAN]
  /\ port \in [Logins -> {"unbound", "open", "closed"}]
  /\ code \in [Logins -> 0..1] /\ err \in [Logins -> 0..1]
  /\ registered \in Logins \cup {NoLogin}
  /\ state \in {NoState} \cup {Asking(l) : l \in Logins} \cup {Waiting(l) : l \in Logins}
  /\ row \in {"absent", "empty", "password", "oauth"} /\ userLogin \in BOOLEAN

\* The goroutine that serves a login is past its listener.
Past(l) == port[l] # "unbound" /\ pc[l] \in {"dispatch", "idle"}

\* "Always release the port and drop the registry entry": once Wait has
\* returned, by whatever way, with whoever else logging in, cancelling or
\* pasting meanwhile, the port is free and paste-code no longer finds the login.
NothingLeftBehind ==
  \A l \in Logins : Past(l) => port[l] = "closed" /\ registered # l

\* The account a user is logging in to can be finished by paste-code for as long
\* as its listener is open: no other login's cleanup or Cancel takes its entry out
\* of the registry, only a newer login takes its place.
EntryKept ==
  [][\A l \in Logins :
       registered = l /\ registered' = NoLogin => pc[l] # pc'[l] \/ port'[l] = "closed"]_vars

\* "a re-issued login doesn't leak a port": every port that is bound comes
\* free again, even if the user never authorizes and no client waits.
PortReleased == \A l \in Logins : port[l] = "open" ~> port[l] # "open"

\* Wait gets its answer for every login the bot drives, whatever fills or closes
\* its listener first.  A client's Cancel closes the listener, and with it the
\* timer, and wakes nobody: there it is up to the client to hang up.
WaitReturns ==
  \A l \in Logins : pc[l] = "wait" /\ driver[l] = "bot" ~> pc[l] # "wait"
=============================================================================
