---------------------------- MODULE GmailInbound ----------------------------
(***************************************************************************)
(* The Gmail-API inbound path of one modify-mode account: the poller       *)
(* (pkg/email/inbound_gmail_api.go), the manager that owns one poller per  *)
(* account (pkg/connector/gmail_inbound.go), the token source that         *)
(* persists refreshed tokens and flags dead ones (reauth*.go), and the     *)
(* login, logout, revoke and restart paths that start and stop it.         *)
(*                                                                         *)
(* The mailbox history is a sequence of kinds of record.  Gmail's          *)
(* historyId is one more than the number of records, so that it is never   *)
(* zero; cursor c covers the records below c.  A refresh token is the      *)
(* number of the grant it came from.                                       *)
(***************************************************************************)
EXTENDS Integers, Sequences, FiniteSets

CONSTANTS Pollers,     \* slots for Run goroutines (a bound)
          Kinds,       \* the kinds of history records that occur
          MaxRecords,  \* how many occur (a bound)
          MaxGrants    \* OAuth grants (a bound)

\* A record is wanted when a message was added, or a monitored label put on one.
\* Filtered are drafts, labelsAdded records of other labels, and what Gmail does not
\* list: each call of LabelId overwrites the one before, so that of several monitored
\* labels only the last is asked for.
ASSUME KnownKinds == Kinds \subseteq {"wanted", "filtered"}
ASSUME MailboxBounds == MaxRecords \in Nat /\ MaxGrants \in Nat

NoPoller == "none"

ASSUME NoPollerIsNoSlot == NoPoller \notin Pollers

VARIABLES
  history,     \* the mailbox's history records
  oldest,      \* records below this one are no longer served
  grants, good,\* how many refresh tokens were granted; those Google honours
  row,         \* auth_type of the account's row, or "absent"
  rowToken,    \* its oauth_refresh_token
  saved,       \* its oauth_history_id, 0 for none
  login,       \* the UserLogin exists
  signIn,      \* a login process: none, started, exchanged
  revoke,      \* an `oauth revoke' command: none, mark, stop
  registered,  \* the poller in GmailInboundManager.runners
  pc,          \* where each Run goroutine is
  cancelled,   \* its context has been cancelled
  token, stored, \* the grant its token source refreshes; whether it has persisted it
  cursor, next,  \* Run's cursor and newCursor
  batch,       \* records pollOnce has still to fetch
  settled      \* records whose message was forwarded or deduplicated, or given up
               \* after an error, or stepped over by a fresh or an expired cursor

vars == <<history, oldest, grants, good, row, rowToken, saved, login, signIn, revoke, registered,
          pc, cancelled, token, stored, cursor, next, batch, settled>>

google == <<history, oldest, grants, good>>
account == <<row, rowToken, saved>>
user == <<login, signIn, revoke>>
run == <<cancelled, token, cursor, next, batch>>

HistoryId == Len(history) + 1

\* Records c does not cover yet whose message pollOnce forwards.
WantedFrom(c) == {i \in c..Len(history) : history[i] = "wanted"}

Active == {p \in Pollers : pc[p] \notin {"off", "exited"} /\ ~cancelled[p]}
-----------------------------------------------------------------------------
Init ==
  /\ history = <<>> /\ oldest = 1 /\ grants = 0 /\ good = {}
  /\ row = "absent" /\ rowToken = 0 /\ saved = 0
  /\ login = FALSE /\ signIn = "none" /\ revoke = "none"
  /\ registered = NoPoller
  /\ pc = [p \in Pollers |-> "off"]
  /\ cancelled = [p \in Pollers |-> FALSE]
  /\ token = [p \in Pollers |-> 0]
  /\ stored = [p \in Pollers |-> FALSE]
  /\ cursor = [p \in Pollers |-> 0]
  /\ next = [p \in Pollers |-> 0]
  /\ batch = [p \in Pollers |-> {}]
  /\ settled = {}
-----------------------------------------------------------------------------
(* Google. *)

NewRecord(k) ==
  /\ Len(history) < MaxRecords
  /\ history' = Append(history, k)
  /\ UNCHANGED <<oldest, grants, good, account, user, registered, pc, run, stored, settled>>

\* Records fall out of the 7-30 days that are kept.
ForgetRecord ==
  /\ oldest <= Len(history)
  /\ oldest' = oldest + 1
  /\ UNCHANGED <<history, grants, good, account, user, registered, pc, run, stored, settled>>

\* The user withdraws the app's access, or changes the password.
TokenRevoked(t) ==
  /\ t \in good
  /\ good' = good \ {t}
  /\ UNCHANGED <<history, oldest, grants, account, user, registered, pc, run, stored, settled>>
-----------------------------------------------------------------------------
(* The manager. *)

\* Mutant: a runner is started even when the account has one.
StartAgain(t) ==
  \E p \in Pollers :
    /\ pc[p] = "off"
    /\ registered' = p
    /\ pc' = [pc EXCEPT ![p] = "boot"]
    /\ cancelled' = [cancelled EXCEPT ![p] = FALSE]
    /\ token' = [token EXCEPT ![p] = t]
    /\ stored' = [stored EXCEPT ![p] = FALSE]
    /\ UNCHANGED <<cursor, next, batch>>

\* Start, from LoadUserLogin: a no-op when the account has a runner, whatever
\* has become of it.
Start(t) ==
  IF registered # NoPoller THEN UNCHANGED <<registered, pc, run, stored>>
  ELSE \E p \in Pollers :
         /\ pc[p] = "off"
         /\ registered' = p
         /\ pc' = [pc EXCEPT ![p] = "boot"]
         /\ cancelled' = [cancelled EXCEPT ![p] = FALSE]
         /\ token' = [token EXCEPT ![p] = t]
         /\ stored' = [stored EXCEPT ![p] = FALSE]
         /\ UNCHANGED <<cursor, next, batch>>

\* Mutant: the runner is forgotten and never cancelled.
StopWithoutCancel ==
  /\ registered' = NoPoller
  /\ UNCHANGED <<pc, cancelled>>

\* Stop: unregister, cancel the context, close stopCh.
Stop ==
  /\ registered' = NoPoller
  /\ IF registered = NoPoller THEN UNCHANGED <<pc, cancelled>>
     ELSE /\ cancelled' = [cancelled EXCEPT ![registered] = TRUE]
          /\ pc' = [pc EXCEPT ![registered] = IF @ = "exited" THEN "off" ELSE @]

\* The poller's part of LoadUserLogin: accounts that are not OAuth, or are
\* flagged for re-auth, get none.
LoadUserLogin ==
  IF row = "oauth" THEN Start(rowToken)
  ELSE UNCHANGED <<registered, pc, run, stored>>
-----------------------------------------------------------------------------
(* The token source: Token() for poller p. *)

\* Success.  The token is persisted when the access token has changed since the
\* last time it was; SaveOAuthToken also sets auth_type back.
TokenWorks(p) ==
  /\ token[p] \in good
  /\ \/ /\ row # "absent"
        /\ row' = "oauth" /\ rowToken' = token[p]
        /\ stored' = [stored EXCEPT ![p] = TRUE]
     \/ /\ stored[p] \/ row = "absent"
        /\ UNCHANGED <<row, rowToken, stored>>
  /\ UNCHANGED saved

\* A permanent refresh failure: HandleRefreshError flags the account.
RefreshFails(p) ==
  /\ token[p] \notin good
  /\ row' = IF row = "absent" THEN row ELSE "needs_reauth"
  /\ UNCHANGED <<rowToken, saved, stored>>

\* It is the first call of bootstrapCursor, or of a tick, that fails.
TokenDies(p) ==
  /\ pc[p] \in {"boot", "tick"} /\ ~cancelled[p]
  /\ pc[p] = "boot" => saved = 0
  /\ RefreshFails(p)
  /\ pc' = [pc EXCEPT ![p] = IF @ = "boot" THEN "exited" ELSE @]
  /\ UNCHANGED <<google, user, registered, run, settled>>
-----------------------------------------------------------------------------
(* The poller. *)

\* bootstrapCursor with a persisted cursor.
LoadCursor(p) ==
  /\ pc[p] = "boot" /\ saved # 0
  /\ cursor' = [cursor EXCEPT ![p] = saved]
  /\ pc' = [pc EXCEPT ![p] = "tick"]
  /\ UNCHANGED <<google, account, user, registered, cancelled, token, next, batch, stored, settled>>

\* bootstrapCursor without one: ingest only what comes after now.
FreshCursor(p) ==
  /\ pc[p] = "boot" /\ saved = 0 /\ ~cancelled[p]
  /\ TokenWorks(p)
  /\ cursor' = [cursor EXCEPT ![p] = HistoryId]
  /\ pc' = [pc EXCEPT ![p] = "bootSave"]
  /\ settled' = settled \cup WantedFrom(1)
  /\ UNCHANGED <<google, user, registered, cancelled, token, next, batch>>

SaveFreshCursor(p) ==
  /\ pc[p] = "bootSave" /\ ~cancelled[p]
  /\ saved' = IF row = "absent" THEN saved ELSE cursor[p]
  /\ pc' = [pc EXCEPT ![p] = "tick"]
  /\ UNCHANGED <<google, row, rowToken, user, registered, run, stored, settled>>

\* Run returns the error of bootstrapCursor; the runner stays registered.
BootFails(p) ==
  /\ pc[p] \in {"boot", "bootSave"}
  /\ pc' = [pc EXCEPT ![p] = IF registered = p THEN "exited" ELSE "off"]
  /\ UNCHANGED <<google, account, user, registered, run, stored, settled>>

\* Mutant: the new cursor is one past the mailbox's historyId.
ListOffByOne(p) ==
  /\ pc[p] = "tick" /\ ~cancelled[p]
  /\ TokenWorks(p)
  /\ next' = [next EXCEPT ![p] = HistoryId + 1]
  /\ batch' = [batch EXCEPT ![p] = WantedFrom(cursor[p])]
  /\ pc' = [pc EXCEPT ![p] = "fetch"]
  /\ UNCHANGED <<google, user, registered, cancelled, token, cursor, settled>>

\* One tick: history.list, with its pages, from the cursor.
List(p) ==
  /\ pc[p] = "tick" /\ ~cancelled[p]
  /\ TokenWorks(p)
  /\ next' = [next EXCEPT ![p] = HistoryId]
  /\ IF cursor[p] >= oldest
     THEN /\ batch' = [batch EXCEPT ![p] = WantedFrom(cursor[p])]
          /\ pc' = [pc EXCEPT ![p] = "fetch"]
          /\ UNCHANGED settled
     ELSE \* historyId expired: skip the gap
          /\ pc' = [pc EXCEPT ![p] = "save"]
          /\ settled' = settled \cup WantedFrom(cursor[p])
          /\ UNCHANGED batch
  /\ UNCHANGED <<google, user, registered, cancelled, token, cursor>>

\* messages.get, which may need a new access token, and OnMessage for one message.  A
\* failure, a dead token included, is logged and the message given up.  Once
\* cancelled every call fails.
Fetch(p, i) ==
  /\ pc[p] = "fetch" /\ i \in batch[p]
  /\ batch' = [batch EXCEPT ![p] = @ \ {i}]
  /\ settled' = IF cancelled[p] THEN settled ELSE settled \cup {i}
  /\ \/ UNCHANGED <<account, stored>>
     \/ ~cancelled[p] /\ (TokenWorks(p) \/ RefreshFails(p))
  /\ UNCHANGED <<google, user, registered, pc, cancelled, token, cursor, next>>

\* Mutant: the cursor is saved while messages are still being fetched.
FetchedEarly(p) ==
  /\ pc[p] = "fetch"
  /\ pc' = [pc EXCEPT ![p] = IF next[p] = cursor[p] THEN "tick" ELSE "save"]
  /\ UNCHANGED <<google, account, user, registered, run, stored, settled>>

Fetched(p) ==
  /\ pc[p] = "fetch" /\ batch[p] = {}
  /\ pc' = [pc EXCEPT ![p] = IF next[p] = cursor[p] THEN "tick" ELSE "save"]
  /\ UNCHANGED <<google, account, user, registered, run, stored, settled>>

\* Mutant: CursorSave is called with a context that Stop does not cancel.
SaveCursorDetached(p) ==
  /\ pc[p] = "save"
  /\ saved' = IF row = "absent" THEN saved ELSE next[p]
  /\ cursor' = [cursor EXCEPT ![p] = next[p]]
  /\ pc' = [pc EXCEPT ![p] = "tick"]
  /\ UNCHANGED <<google, row, rowToken, user, registered, cancelled, token, next, batch, stored, settled>>

\* CursorSave.  It succeeds on a row that is gone, and fails once cancelled.
SaveCursor(p) ==
  /\ pc[p] = "save"
  /\ \/ /\ ~cancelled[p]
        /\ saved' = IF row = "absent" THEN saved ELSE next[p]
        /\ cursor' = [cursor EXCEPT ![p] = next[p]]
     \/ UNCHANGED <<saved, cursor>>
  /\ pc' = [pc EXCEPT ![p] = "tick"]
  /\ UNCHANGED <<google, row, rowToken, user, registered, cancelled, token, next, batch, stored, settled>>

\* Run sees its context cancelled and returns.
Exit(p) ==
  /\ pc[p] \in {"tick", "boot", "bootSave"} /\ cancelled[p]
  /\ pc' = [pc EXCEPT ![p] = "off"]
  /\ UNCHANGED <<google, account, user, registered, run, stored, settled>>

\* `backlog': a message of the look-back window goes through OnMessage again.
Backlog(i) ==
  /\ registered # NoPoller
  /\ token[registered] \in good
  /\ i \in WantedFrom(1)
  /\ settled' = settled \cup {i}
  /\ UNCHANGED <<google, account, user, registered, pc, run, stored>>
-----------------------------------------------------------------------------
(* Sign-in, sign-out, revocation and restarts. *)

\* handleOAuthEmail pre-creates the row; an existing one keeps its auth_type.
BeginSignIn ==
  /\ signIn = "none" /\ grants < MaxGrants
  /\ signIn' = "started"
  /\ row' = IF row = "absent" THEN "password" ELSE row
  /\ UNCHANGED <<google, rowToken, saved, login, revoke, registered, pc, run, stored, settled>>

\* finishOAuthExchange: SaveOAuthTokenWithScope.
ExchangeCode ==
  /\ signIn = "started" /\ grants < MaxGrants
  /\ grants' = grants + 1
  /\ good' = good \cup {grants + 1}
  /\ IF row = "absent"
     THEN signIn' = "none" /\ UNCHANGED <<row, rowToken>>
     ELSE signIn' = "exchanged" /\ row' = "oauth" /\ rowToken' = grants + 1
  /\ UNCHANGED <<history, oldest, saved, login, revoke, registered, pc, run, stored, settled>>

\* completeLogin: NewLogin, which calls LoadUserLogin.
CompleteLogin ==
  /\ signIn = "exchanged"
  /\ signIn' = "none"
  /\ login' = TRUE
  /\ LoadUserLogin
  /\ UNCHANGED <<google, account, revoke, settled>>

AbandonSignIn ==
  /\ signIn # "none"
  /\ signIn' = "none"
  /\ UNCHANGED <<google, account, login, revoke, registered, pc, run, stored, settled>>

\* LogoutRemote, in its two database steps.
DeleteAccount ==
  /\ login /\ row # "absent"
  /\ row' = "absent" /\ rowToken' = 0 /\ saved' = 0
  /\ UNCHANGED <<google, user, registered, pc, run, stored, settled>>

DeleteLogin ==
  /\ login /\ row = "absent"
  /\ login' = FALSE
  /\ UNCHANGED <<google, account, signIn, revoke, registered, pc, run, stored, settled>>

\* fnOAuthRevoke: RevokeToken at Google (best effort), mark, stop.
RevokeAtGoogle ==
  /\ revoke = "none" /\ row \in {"oauth", "needs_reauth"}
  /\ revoke' = "mark"
  /\ good' \in {good, good \ {rowToken}}
  /\ UNCHANGED <<history, oldest, grants, account, login, signIn, registered, pc, run, stored, settled>>

RevokeMark ==
  /\ revoke = "mark"
  /\ \/ revoke' = "stop" /\ row' = IF row = "absent" THEN row ELSE "needs_reauth"
     \/ revoke' = "none" /\ UNCHANGED row
  /\ UNCHANGED <<google, rowToken, saved, login, signIn, registered, pc, run, stored, settled>>

RevokeStop ==
  /\ revoke = "stop"
  /\ revoke' = "none"
  /\ Stop
  /\ UNCHANGED <<google, account, login, signIn, token, cursor, next, batch, stored, settled>>

\* The process dies, or EmailConnector.Stop runs StopAll and it exits.
Crash ==
  /\ registered # NoPoller \/ signIn # "none" \/ revoke # "none"
  /\ registered' = NoPoller
  /\ pc' = [p \in Pollers |-> "off"]
  /\ batch' = [p \in Pollers |-> {}]
  /\ signIn' = "none" /\ revoke' = "none"
  /\ UNCHANGED <<google, account, login, cancelled, token, cursor, next, stored, settled>>

\* The framework loads the logins it has when the bridge comes back.
Restart ==
  /\ login /\ registered = NoPoller /\ row = "oauth" /\ signIn = "none"
  /\ LoadUserLogin
  /\ UNCHANGED <<google, account, user, settled>>
-----------------------------------------------------------------------------
Poll(p) == \/ LoadCursor(p) \/ FreshCursor(p) \/ SaveFreshCursor(p) \/ List(p)
           \/ Fetched(p) \/ SaveCursor(p) \/ Exit(p)
           \/ \E i \in 1..MaxRecords : Fetch(p, i)

Next ==
  \/ \E k \in Kinds : NewRecord(k)
  \/ ForgetRecord
  \/ \E t \in 1..MaxGrants : TokenRevoked(t)
  \/ \E p \in Pollers : Poll(p) \/ TokenDies(p) \/ BootFails(p)
  \/ \E i \in 1..MaxRecords : Backlog(i)
  \/ BeginSignIn \/ ExchangeCode \/ CompleteLogin \/ AbandonSignIn
  \/ DeleteAccount \/ DeleteLogin
  \/ RevokeAtGoogle \/ RevokeMark \/ RevokeStop
  \/ Crash \/ Restart

Spec == Init /\ [][Next]_vars
-----------------------------------------------------------------------------
\* Every field has its type.
TypeOK ==
  /\ history \in Seq(Kinds) /\ Len(history) <= MaxRecords
  /\ oldest \in 1..(MaxRecords + 1)
  /\ grants \in 0..MaxGrants /\ good \subseteq 1..grants
  /\ row \in {"absent", "password", "oauth", "needs_reauth"}
  /\ rowToken \in 0..grants
  /\ saved \in 0..HistoryId
  /\ login \in BOOLEAN
  /\ signIn \in {"none", "started", "exchanged"} /\ revoke \in {"none", "mark", "stop"}
  /\ registered \in Pollers \cup {NoPoller}
  /\ pc \in [Pollers -> {"off", "boot", "bootSave", "tick", "fetch", "save", "exited"}]
  /\ cancelled \in [Pollers -> BOOLEAN] /\ stored \in [Pollers -> BOOLEAN]
  /\ token \in [Pollers -> 0..grants]
  /\ cursor \in [Pollers -> 0..HistoryId] /\ next \in [Pollers -> 0..HistoryId]
  /\ batch \in [Pollers -> SUBSET (1..MaxRecords)]
  /\ settled \subseteq 1..MaxRecords

\* The persisted cursor covers only messages that are settled: a tick has forwarded
\* them or given them up after an error, or a fresh or expired cursor has stepped over
\* them.  So a crash between the fetches and CursorSave, a CursorSave that fails, a stop
\* in the middle of a batch, or a second poller started while the first winds down
\* makes no cursor cover a message nobody has tried.  A message given up is lost all
\* the same, although pollOnce's comment promises that the next tick retries.
CursorCoversOnlySettled ==
  {i \in WantedFrom(1) : i < saved} \subseteq settled

Delivery == INSTANCE InboundDelivery
              WITH mails <- WantedFrom(1), covered <- {i \in WantedFrom(1) : i < saved},
                   hand <- (UNION {batch[p] : p \in Pollers}) \ settled

\* Ticks that overlap, are cancelled or die half way treat every message as
\* InboundDelivery promises: one a poller drops unsettled is one its saved cursor
\* does not cover, so that a later tick lists it again.
DeliversAsPromised == Delivery!Spec

\* At most one poller works on the account, and the manager can stop it.
OnlyRegisteredActive == Active \subseteq {registered}

\* The cursor of an account never goes back while its row lives, so that a
\* restart does not replay history that was already forwarded.
CursorOnlyAdvances ==
  [][row # "absent" /\ row' # "absent" => saved' >= saved]_vars

\* "Run `!matrimail login` to reconnect this account": once the user has
\* signed in again, the account is not flagged while its new token is good.
SignInSticks ==
  [][\A p \in Pollers : TokenDies(p) => row # "oauth" \/ rowToken \notin good]_vars
=============================================================================
