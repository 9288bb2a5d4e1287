# Specifications of matrimail

matrimail is a Matrix–email bridge written in Go on the mautrix bridgev2
framework. It keeps an IMAP connection (or a Gmail-API poller) per account,
puts each email thread into a Matrix room, and sends what is written in a room
as a mail. This directory holds TLA+ models of its core logic, the TLC
configurations that check them, and TLAPS proofs. Source paths are relative to
`src/`.

## 1. The system

| Part | State it keeps | Operations | Hard behaviour | Correct when |
|---|---|---|---|---|
| Circuit breaker (`pkg/reliability/circuit_breaker.go`) | state, failure count, time of the last failure, atomic half-open counter | `Execute`, `Reset`, a callback on a transition | three critical sections per call, a callback between unlock and relock, a counter zeroed while others hold it | state and count agree, the counter loses no decrement, it admits a probe again |
| IMAP INBOX connection (`pkg/imap/client.go`) | client handle, `connected`, `idling`, stop channel, UID watermark, in-flight set | idle loop, `CheckNewMessages`, `StartIDLE` with priming and backfill, `StopIDLE`, `Disconnect`, reconnect, reset | idle loops, commands, periodic sync and watchdog share one client; handles go stale; checks overlap | no mail lost by the watermark, none fetched twice at once, idling can be stopped |
| IMAP recovery (`client.go`, `pkg/imap/manager.go`, `pkg/reliability/retry.go`) | connectingMu, reconnect signal, retries | `Connect`, `performIDLERecovery`, `reconnectClient`, `safeStartIDLE`, `resetConnection`, `RetryWithBackoff`, watchdog ticks | `Execute` nested in `Execute`, a mutex held across retries and across a `StartIDLE`, several recoverers | one goroutine dials at a time, the mutex comes free wherever its holder does not lock it twice, a watched connection returns |
| State coordinator (`pkg/coordinator/state_coordinator.go`) | last event flags per connection, last circuit state | `ReportEvent`, `computeBridgeState` | callbacks in any order | a lasting outage is reported |
| Gmail poller and manager (`pkg/email/inbound_gmail_api.go`, `pkg/connector/gmail_inbound.go`, `reauth*.go`) | history cursor in memory and in the account row, registered runner, tokens | bootstrap, tick, `Start`, `Stop`, token refresh, re-auth flag | crash between fetch and save, stopped runner still in a tick, tokens that die | the cursor covers only what was forwarded or given up and never goes back, one poller per account |
| Threading and processor (`pkg/email/threading.go`, `processor.go`, `pkg/connector/thread_resolver_db.go`) | thread objects, three maps that share them | `DetermineThread`, `CacheForReceiver`, eviction, resolver | shared pointers written without the lock, two keys per thread, eviction, restart | a room shows one conversation |
| Outbound, compose, dedup (`client_send.go`, `client_compose.go`, `sent_dedup.go`, `portal_metadata.go`, `sender_*.go`) | dedup table, `Portal.Metadata` | send, record, update thread, save; compose | a failure after the mail is out, an echo before the record | replies stay in their conversation, threading is not lost |
| Login and OAuth listener (`login.go`, `oauth_listener.go`, `oauth_authcode.go`) | login step, listener registry, one-shot channels | form steps, callback, paste, cancel, timeout | callback, timeout, pasted code and cancel race for one result; two logins share the registry and the CommandState | the port is released, the registry never dangles, `Wait` gets an answer |
| IMAP Sent connection (`client.go` 1788–2087) | second client, its stop channel, loop and health check | ensure, idle, health, rebuild, close | check-then-dial from several places; a handle replaced while another goroutine closes it | `Disconnect` reaches the current loops, a loss is never just dropped, the report is right |
| Account clients and registry (`connector/client.go`, `pkg/imap/manager.go`) | an EmailClient per `LoadUserLogin` with its goroutines, the registry of imap.Clients, a watchdog per registration | sign-in, connect, register, periodic sync, logout, `StopAll` | a logout at any point of a client's start; goroutines that outlive their account | a connected client syncs and can be stopped, its sync ends with it |
| Account database, commands, config, ids, labels, folders, hygiene, rooms, sanitizing, webhook, main | rows of accounts; nothing else | SQL, formatting, calls into the framework | – | – |

How they interact. The idle loop and the Gmail poller hand mails to the
processor, which asks the thread manager for a thread and queues an event for
the room. A message in a room goes through the sender, which writes to the same
thread objects, to the dedup table and to the portal's metadata. The breaker is
shared by everything that dials IMAP; its callback and the client's events reach
the coordinator, which tells the framework. Sign-in and commands start and stop
pollers and clients; each EmailClient starts goroutines that connect, register
and sync it, and a watchdog that reconnects it. Everything runs as goroutines in one process; only the
database survives it.

`PROJECT.json` lists every component with what is modelled of it, every mapped
definition with its source lines, and the hazards, each at its line.

## 2. Modules

| Module | Models | State in the module and in the code |
|---|---|---|
| `CircuitBreaker` | every statement of the breaker | `state`, `failures`, `halfOpenRequests` are the fields; `cooled` is "the timeout has passed since `lastFailureTime`"; `pc` cuts `Execute` at each lock, unlock and atomic; `counted` is the local `shouldDecrement` |
| `ImapInbox` | one Client's INBOX half | `lastUID`, `inFlight`, `connected`, `idling`, `stopClosed` (the channel behind `c.stopIdle`), `waits` (the channel each loop selects on), `connecting` (`connectingMu`), `fresh` (whose local handle is still `c.client`) |
| `ImapRecovery` | how the connection comes up and how a lost one comes back | an instance of `CircuitBreaker` whose callers are call frames; `mu` is `connectingMu`; `ph`, `mode`, `tries`, `result` per goroutine or frame (idle loops, the watchdog, and starters: `Connect`, `safeStartIDLE`, the periodic sync); `link`, `idling`, `stopClosed` the Client's fields, `listening` and `stopped` the loops by the channel they wait on; `inbox`, `reported` are what the coordinator last heard |
| `GmailInbound` | one account's poller, its manager, tokens, and the paths that start and stop it | `saved`, `row`, `rowToken` are the account's row; `registered` the manager's map entry; `pc`, `cursor`, `next`, `batch` the Run goroutine |
| `Conversations` | from a mail to its room and back | `heap` the EmailThread objects, `known`, `index`, `gmail` the manager's maps as references into it; `work` and `send` the locals of a processing goroutine and of a send; `meta` and `rows` the metadata in memory and saved; `dedup`, `posted` the database |
| `SignIn` | logging in to one account of one user | `step` is `currentStep`, `pc` the goroutine serving it, `code`, `err`, `cancelled` what `OAuthListener.Wait` selects on, `registered` the user's entry in `oauthListeners`, `state` the user's `CommandState`, `row` the account's row |
| `ImapSent` | the Sent connection beside the INBOX one | dials are numbered: number d is the connection of dial d, the channel made for it and the loops started on it. `sentClient`, `sentConnected`, `sentStop` are the fields under `sentMu`, `closed` the channels closed, `open` the connections up, `pending` the spawned ensures, `rebuild` the health check's goroutine |
| `ImapAccounts` | one account from sign-in to logout | EmailClients numbered per `LoadUserLogin`; `handle` is `ec.IMAPClient # nil`, `up`, `idling`, `recovering` its imap.Client, `connect`, `register`, `sync`, `watchdog` its goroutines, `registered` the entry of `m.clients`, `logout` the step LogoutRemote is at |
| `InboundDelivery` | nothing of the code: what both inbound paths promise | `mails`, `hand`, `settled`, and `covered`, what the mark (`lastInboxUID`, `oauth_history_id`) covers |
| `*Proofs` | one per module above, but `InboundDelivery`: its theorems | the strengthenings the proofs need |
| `MC*` | instances | symmetry sets and views |

One action is one stretch of code between two points where another goroutine can
act: a lock or unlock, an atomic operation, a channel operation, a call over the
network or to the database. `ImapRecovery` composes `CircuitBreaker` by
`B == INSTANCE CircuitBreaker WITH Callers <- Frames` and drives its actions. `ImapInbox` and `GmailInbound` each instantiate
`InboundDelivery` with a refinement mapping: `covered` is `1..lastUID` in one and the
wanted records below `saved` in the other, `hand` what goroutines have listed and not
processed, `settled` what was processed, given up or stepped over.
Definitions whose comment starts with "Mutant" or "A change that" are not part of
the models: each is a plausible bug in the definition below it, kept to show that
the property named in `PROJECT.json` notices it.

### What is abstracted

* Time: the breaker's timeout is the bit `cooled`; back-off lengths, tickers and
  IDLE timers are actions that may happen.
* Counts: breaker failures saturate at `MaxFailures` (they are only compared).
* Data: a mail is its UID, its place in the Gmail history, or a number that is
  also its Message-ID; what a thread remembers for replies (last sender, recipients,
  date, bodies) is the number of the mail it was taken from.
* `ImapInbox`: the breaker and the retries inside `reconnectClient` only decide how
  often `Connect` is tried, so an attempt succeeds or fails freely. The go-imap
  client serialises commands on one connection; commands here are atomic. That the
  caller of `safeStartIDLE` gives up after the command timeout (1766-1772) while the
  goroutine it started goes on is left out: the caller of a check waits for its restart.
  `ImapRecovery` has the loop go on without waiting. A goroutine of `Commands` makes one
  call and ends.
* `ImapRecovery`: a check is one step, and so is each outcome of `StartIDLE` (it spawns
  a loop, fails, finds IDLE running, or is refused by the server and calls
  `resetConnection`), since `ImapInbox` has them in detail. Which errors are retryable is
  a free choice. A spawned loop that finds no free slot merges with a loop that exists,
  and a check that finds no free starter waits for one. `reconnectIMAPClient` of the
  connector (`connector/client.go:763`), which `Connect` would call if its `StartIDLE`
  found IDLE running, is left out: at that time no other goroutine starts it.
* `GmailInbound`: one account; a page of history and its token refresh are one step.
  Which records are wanted is given with the record: the label the poller asks for is
  the last monitored one (`inbound_gmail_api.go:204` overwrites it), and mail under the
  others only is a record it filters.
* `SignIn`: one user and one account, which is where two logins meet. The test
  connection, PKCE and the requests to Google are steps that succeed or fail. Once a
  listener has been read its channels count as empty, as nobody reads them again.
  A cleanup's unregister and Close are one step, and so are paste-code's lookup and
  Inject: between them only values nobody reads, or the same ones, can arrive. The
  `BuildAuthURL` does not fail (`login.go:922`): its inputs are checked before. The
  framework is external: one CommandState per user, a cancel command, a provisioning
  client that waits, polls, cancels or hangs up.
* `ImapSent`: the Sent watermark and priming are left out, so that a mail is not
  followed there. At most one rebuild goroutine at a time; the health loop is part of
  its dial and ends when its channel closes; an IDLE error that is retried changes
  nothing; `failureCount` only sets the back-off.
* `ImapAccounts`: an imap.Client is connected or not, idling or not, recovering or not;
  `ImapInbox` and `ImapRecovery` have the detail. An idle loop hears a stop at once and
  `StopAll` is one step. No sign-in begins while a logout runs or another client still
  connects or registers, and one logout runs at a time (bounds). After a panic the
  process is down, as nothing recovers. The framework is external; `nuke`'s later steps
  and `AddAccount`, which nothing calls, are left out.
* `Conversations`: participants, subjects, attachments, the direct-message toggle,
  fallback IDs for mails without a Message-ID, and the 30-day purge of the dedup
  table are left out. The resolver may find nothing, as its query names tables and
  columns a schema may lack. A forward is what its subject says;
  `isForwardedMessage` also goes by markers in the body (`threading.go:269`), which make
  an ordinary reply that quotes them a room of its own. Gmail's thread ID is taken to be
  the conversation, and the same in every mailbox. `GetChatInfo` looks into the cache and
  puts the thread there in one step, and the date and the bodies it does not restore are
  part of the mail the thread remembers. A send that answers with an error has not sent.

## 3. Runs

All runs finish; the passing ones take between seconds and about four minutes with
two workers.

### Passing

| Run | Instance | What it shows |
|---|---|---|
| `breaker` | 3 callers, limit 2, 1 probe | `ClosedIffBelowLimit`, `CounterTracksHolders`, `HalfOpenAdmits`: late results of calls admitted in another state and a counter zeroed under its holders never desynchronise or wedge the breaker. `AutoRecovery`: if calls stop failing it closes for good |
| `inbox` | 2 idle loops, 1 command, 3 mails, backfill of 1 | `MailAccounted`: every mail at or below the watermark was processed, is on some list, or was stepped over by a baseline. `InFlightExclusive`: two checks never fetch one mail at once. `DeliversAsPromised`: `ImapInbox` implements `InboundDelivery`. `IdlingCanBeStopped`: `idling` implies the current stop channel is open, so a close never panics and a stop is heard |
| `recovery` | 1 loop, 1 watchdog, 1 starter, 2 attempts, 2 mishaps | `BreakerNotWedged`: with `Execute` nested in `Execute` no half-open slot is lost, and a breaker nobody is inside admits the next reconnect. `OneReconnectAtATime`: whoever dials, or waits for the breaker to dial, holds `connectingMu`, and its holder is inside `Connect`, `reconnectClient` or `resetConnection`, with the `StartIDLE` the last one calls. `ConnectingReleased`: the mutex comes free again, unless a `resetConnection` has called itself and waits for the mutex it holds. `ReconnectsWhileClosed`: with the breaker closed a working network brings a connection back that has a watchdog and no such goroutine. `DownIsReported`: one that stays down, with a watchdog and no such goroutine, is not shown as connected for good |
| `gmail` | 2 poller slots, 2 records, 2 grants | `CursorCoversOnlySettled`: the saved cursor covers only messages that were forwarded or deduplicated, given up after one failed attempt, or skipped with an expired cursor, across crashes, failed saves and overlapping pollers; it does not say that no message is lost (see below). `OnlyRegisteredActive`: at most one poller works and the manager can stop it. `CursorOnlyAdvances`: it never goes back. `DeliversAsPromised`: `GmailInbound` implements `InboundDelivery`, so a message that a tick drops unsettled is one a later tick lists |
| `sent` | 1 caller of `StartIDLE`, 3 dials, 2 pending ensures | `CurrentHearsDisconnect`: the channel `Disconnect` closes is the one the current connection's loops listen to. `SentNotForgotten`: while INBOX idles, a missing Sent connection has someone on the way to bring it up, or its last dial failed. `LiveSentReported`: a live one is never shown as lost. `LostIsRetried`: one that a loop gives up in its back-off, or the health check with its spawned ensure, is dialled again |
| `accounts` | 2 clients, 1 outage | `ConnectedAccountsSync`: a connected client has its sync loop, and `Disconnect` can stop it. `NilOnlyAfterCancel`: a goroutine of `Connect` or of the registration finds `ec.IMAPClient` nil only when its context is cancelled. `SyncEndsWithClient`: the loop of an ended client ends |
| `signin` | 2 logins of one account | `NothingLeftBehind`: once `Wait` has returned, its port is closed and its entry is gone. `EntryKept`: only the login itself or a newer one takes an entry out. `PortReleased`, `WaitReturns`: the timer frees every port, and `Wait` of a login the bot drives is answered |
| `conversations` | 1 Gmail account, 1 processing goroutine, 1 sender, 3 mails, 1 compose room, 3 thread objects, 1 mishap | `RoomsUnmixed`: a room shows one conversation. `RepliesUnmixed`: a mail answers and quotes only its own conversation. `RepliesThreaded`: only a room the user has composed ever sends a mail without threading headers. `ThreadingNotLost`: once saved metadata names a mail, no mail leaves the room without threading headers |

In `recovery` a mishap is a failure of the network, an IDLE the server refuses as already
running, or a periodic sync that interrupts IDLE. In `conversations` it is an eviction, a restart, a failed event, dedup record, save or Gmail
re-fetch, or a mail processed again.

### Counterexamples

| Run | Property | What happens |
|---|---|---|
| `gmail_signin` | `SignInSticks` | `Start` is a no-op while a runner is registered; after a new sign-in the old runner's dead token flags the account again |
| `recovery_livelock` | `LoopReconnects` | in half-open the loop's outer `Execute` holds the only slot and its inner `Execute` is refused, on every probe |
| `accounts_logout` | `LogoutSticks` | a watchdog has no way to end: after `RemoveAccount` it finds its client disconnected, reconnects it with the password it still has, and idles |
| `conversations_forward` | `RoomsUnmixed` | a forward that carries References re-points the index entries of the conversation it forwards; the next reply goes to the forward's room |

`PROJECT.json` ("findings") gives for each the line of code and the comment or
document it disagrees with.

### Seen while modelling, stated by no run

* `StartIDLE` that the server refuses as already running calls `resetConnection`
  (`client.go:804`), which dials and calls `StartIDLE` with `connectingMu` in hand (2135,
  2167). Refused a second time, the goroutine waits for ever for its own lock, and so
  do every reconnect and the watchdog, in `IsReconnecting` (1559, `manager.go:241`).
  `ConnectingReleased`, `ReconnectsWhileClosed` and `DownIsReported` exempt exactly this
  state (`SelfLocked`), which the run `recovery` reaches. `resetConnection` also dials outside
  the breaker and reports neither that it drops the connection nor that its dial fails.
* A check in `runIDLE` that fails to reconnect (1583, 1741) leaves the stop channel closed,
  and the loop exits at 859 without an event. Only the watchdog notices; a client
  that never got one (`connector/client.go:342`) goes on being shown as connected and idling.
* A Gmail message whose `messages.get` or `OnMessage` fails once is given up, as the cursor
  moves past it (`inbound_gmail_api.go:310-319`), and a cursor that has expired is reset and
  the gap skipped (213). The comment at 37 says that the cursor stays put and the next
  tick retries, and `reauth.go:152` and `docs/gmail-oauth-setup.md:131` that a pause loses
  no message. `CursorCoversOnlySettled` and `DeliversAsPromised` count both as settled.
* With several monitored labels only the last one is asked for (`inbound_gmail_api.go:204`).
* An INBOX mail whose processing fails counts as done, since the watermark has passed it
  (`client.go:1241`); `MailAccounted` does not see that loss, nor a mail that two checks
  process one after the other.
* A hard error of a check on the Sent connection closes `c.client`, the INBOX
  connection (`client.go:1174`); the comment at 126 says the two never pause each other.
* A Sent dial that fails is never tried again, though the log line at 1847 speaks of
  falling back to polling via INBOX. Two ensures that overlap leave a connection nobody
  holds any more. The rebuild of the health check closes whatever Sent client is
  current (2071), although it means to check that it is still the same one.
* `Disconnect` returns early when INBOX is down and leaves the Sent loops running.
* `LogoutRemote` clears `ec.IMAPClient` while `Connect` or the registration may be about
  to use it (`connector/client.go:648`): a nil pointer ends the process (`Panic`). The
  comment at 646 counts on the cancel before it; `NilOnlyAfterCancel` shows that the cancel
  does come first, in every sign-in, restart and logout, but a goroutine that is cancelled
  has not stopped, and it may still take `Panic`.
* A second sign-in leaves the first EmailClient running beside the new one. Without a
  watchdog an idle loop stops itself after a failed reconnect (`client.go:859`) for good, and a
  first `Connect` that fails is never tried again (`connector/client.go:577`).
* The Message-ID index has no receiver in its key (`threading.go:346`), so that two
  accounts of one bridge share thread objects.
* With three mishaps, one of them a save that fails at the end of a send,
  `ThreadingNotLost` does not hold. In a compose room the first send goes out and its save fails; a restart brings the draft back. A reply finds the
  rebuilt draft object by its Message-ID, and before its worker goes on that object is
  evicted, and another send, from a copy built anew, succeeds and is saved. Then the
  worker caches the stale draft again (`processor.go:270`), and the next mail leaves the room
  without threading headers although the saved row names a mail. Any one of the mishaps
  alone does no harm.
* The end of an older login's `Wait` clears the CommandState of a newer one
  (`commands.go:366`); `Cancel` leaves a blocked `Wait` as it is (`login.go:198`).

### Why the bounds are enough

The invariants of every module, the action properties and both refinements are proved
for every size (section 4); the one bound a proof keeps is that of the mishaps in
`ThreadingNotLost`. The bounds below matter for the liveness properties, and for finding a
mistake before proving.

* `breaker`: the interesting races need a holder, a late result and a new probe;
  three callers give all of them at once, and `MaxFailures` 2 distinguishes counting
  from opening.
* `inbox`: loops come in pairs (the one exiting and the one `StartIDLE` spawned), and
  a command makes the third party. Three mails allow a search, a mail after it, and a
  mail in flight at the same time.
* `recovery`: one loop, the watchdog and one starter give every pair of goroutines that
  reconnect one client; two mishaps allow a failure during a recovery, an IDLE refused
  twice, and a sync in the middle of an outage.
* `gmail`: two slots let a stopped runner wind down while the next starts; two records
  let the second arrive between list and save; two grants allow signing in again.
* `sent`: two dials overlap and a third replaces one of them; two pending ensures let a
  stale one run after a newer.
* `accounts`: two clients are a first sign-in and a second one, or one and a restart; one
  outage lets a loop recover or a watchdog reconnect while a logout or an exit is under way.
* `signin`: an older and a newer login are all that ever disagree about the registry
  or the CommandState; each may be of any kind.
* `conversations`: three mails give two conversations and a reply; three objects hold
  a thread for each of them. One mishap reaches every single loss; `ThreadingNotLost`
  fails with three of them (see above).

Deadlock is checked for `breaker`. It is off elsewhere: the mails, records,
commands and objects of an instance run out, and in `recovery` a watchdog has
nothing to do while the link is live and all loops have ended.

Symmetry is used for interchangeable goroutine slots and thread objects; never in a run with a liveness property. The views
`LiveView` drop locals that are overwritten before they are read again, and what
unreachable thread objects hold; no guard and no property reads them.

### Fairness

`CircuitBreaker`'s `FairSpec` assumes that a caller inside `Execute` keeps running,
that time passes, and that someone goes on calling. `ImapRecovery` assumes strong
fairness of each goroutine's next step: the Go scheduler is preemptive, and a goroutine
is held up only by `connectingMu`, which `sync.Mutex` hands over to a waiter that has
waited a millisecond. It assumes weak fairness of the watchdog's ticker and of the
breaker's timeout, and nothing of the periodic sync. `SignIn` assumes that a listener's timer
fires and that a goroutine whose `select` has a case ready goes on; nothing of the
user, of a client or of Google. `ImapSent` assumes that a spawned ensure runs and that
the reconnect of a loop that gave up follows its back-off; `ImapAccounts` that a sync
loop goes on, whose `select` has its client's `Done` or `stopLoops` ready. Nothing is assumed of the network: the
liveness properties have "the network stays up" or "the breaker stays closed" as
premises.

## 4. Proofs

Each `*Proofs` module defines an inductive invariant, proves that every action keeps it,
one step per action, and derives the properties the runs check. `PROJECT.json`
("theorems") lists the results with the property each one states. All of them hold for
every value of the constants that the assumptions named below admit; the assumptions are
those the modules state of their own constants, with the premises of
`ConversationsProofs` that its paragraph below names.

| Module | Proved | Assumed |
|---|---|---|
| `CircuitBreakerProofs` | `TypeOK`, `ClosedIffBelowLimit`, `CounterTracksHolders`, `HalfOpenAdmits` | finitely many callers, positive limits |
| `ImapRecoveryProofs` | that `ImapRecovery` implements `CircuitBreaker`; `TypeOK`, `BreakerNotWedged`, `OneReconnectAtATime` | finitely many loops, watchdogs and starters, no goroutine two of them and none named as nobody, at least one attempt, a natural number of mishaps, positive limits |
| `ImapInboxProofs` | `TypeOK`, `MailAccounted`, `InFlightExclusive`, `IdlingCanBeStopped`, `DeliversAsPromised` | finitely many goroutines, at least one mail |
| `GmailInboundProofs` | `TypeOK`, `CursorCoversOnlySettled`, `OnlyRegisteredActive`, `CursorOnlyAdvances`, `DeliversAsPromised` | that "no poller" is not a poller, natural bounds |
| `SignInProofs` | `TypeOK`, `NothingLeftBehind`, `EntryKept`, `WaitIsWoken` | a natural number of logins |
| `ImapSentProofs` | `TypeOK`, `CurrentHearsDisconnect`, `LiveSentReported`, `SentNotForgotten` | positive bounds |
| `ImapAccountsProofs` | `TypeOK`, `ConnectedAccountsSync`, `NilOnlyAfterCancel` | at least one client |
| `ConversationsProofs` | `TypeOK`, `RoomsUnmixed`, `RepliesUnmixed`, `RepliesThreaded`; `ThreadingNotLost` for at most one mishap, and for any number where no save at the end of a send fails | natural bounds, that nil is no object, and forwards that carry no References |

None of the properties is inductive alone. What each proof adds, and why:

* `CircuitBreaker`. `CounterTracksHolders` speaks of the callers that hold a slot, so a
  step of a caller must say where it can be while it holds one (`CountedInside`), and
  `TypeOK` needs that a caller about to report has something to report (`ReportReady`).
  `BasicStep` covers types, threshold and the two place implications; `CounterStep`
  shows that the counter and the cardinality of the holders move together.
  `HalfOpenAdmits` follows because with nobody inside `Execute` there are no holders.
* `ImapRecovery`. The goroutines touch the breaker only by its own steps, whatever frame
  they are in (`DrivesBreaker`), so `Spec` implies the breaker's specification with the
  frames as callers, which are finitely many (`FramesFinite`); the theorems of
  `CircuitBreakerProofs` then hold of the instance. `OneReconnectAtATime` is inductive with
  the types, once it says where a loop's outer frame is while the loop reconnects: the
  report of the inner frame must not be taken for that of the outer one. It names the
  places where the mutex is held, `resetConnection` and the `StartIDLE` inside it among
  them; a return from `StartIDLE` gives it up just where its goroutine holds it (`LeaveStart`). Each step of the
  breaker moves one frame (`BreakerMoves`), and the frames of different goroutines are
  different (`FramesDistinct`).
* `ImapInbox`. A goroutine raises the watermark to what it read some steps earlier, so
  what it read must be known to be taken up at each place in between (`TakenInv`). What
  it drops because it is in flight must be on another's list: the in-flight set is
  the heads of the lists of those that fetch, and no two are the same (`FlightInv`).
  `PendingStep` says what a step may do to what is listed, and with `TakenInv` it gives
  both `MailAccounted` and the refinement (`DeliveryStep`). That `Min` and `Max` of
  `FiniteSetsExt` pick an extreme element is proved from the well-foundedness of the
  naturals.
* `GmailInbound`. A poller saves a cursor only over what it has seen through, which is
  said for each place in `Run` (`RunInv`), and only of pollers that are not cancelled:
  a stopped one may be behind, but its context is cancelled and its save fails. There is at most
  one that is not cancelled, the registered one, so no other can overtake its cursor.
  `DeliveryStep` maps each step to one of `InboundDelivery` or a stutter.
* `SignIn`. Whoever has a listener is on the way to its cleanup or has been there
  (`ReleaseInv`); that the completion of an OAuth login still has the cleanup ahead of it
  shows in its `currentStep` (`Places`). `WaitIsWoken` is the safety half of the liveness
  property `WaitReturns`: a bot's login that waits has its listener open, whose timer will
  answer, or an answer to read, or a cancelled context; whoever closes the listener has
  put something there first.
* `ImapSent`. A dial makes its channel first and installs its connection later, so
  what is known of the current connection is tied to where its own dial is
  (`DialsBegun`, `ReportDue`); and the dial that made the current channel, not just
  any, accounts for a connection that is missing (`NotForgotten`).
* `ImapAccounts`. A client says it is connected only after `Connect` has marked it, just
  before the loops start (`Connecting`), and a logout past `ec.cancel` has ended its
  client (`LogoutEnds`). With that `NilOnlyAfterCancel` needs only what a restart leaves
  behind: no goroutine of a process that is down is on its way (`DownIsQuiet`).
* `Conversations`. Every ID in existence belongs to one conversation, for good. The
  invariant says of all that names IDs (a thread object, an entry of the three maps, a
  room's metadata in memory and saved, the locals of a processing goroutine and of a
  send, a mail's headers) that its IDs belong to the same one. Objects are written by
  several goroutines without the lock and updates get lost; what survives every
  interleaving is the thread ID (`Kept`) and the conversation of what is named. The
  premise `~ForwardsKeepReferences` cannot be dropped: the run `conversations_forward`
  is the counterexample.

  `RepliesThreaded` and `ThreadingNotLost` are about threads that name nothing, and need
  two layers on top of that. `ThreadedInv` says that every thread a map leads to, or a row
  or a room's metadata holds, is a draft or names a mail, that a draft's ID is never among
  the headers, and that a send without headers is one of a draft; it survives any
  mishap. `DraftsInv` follows a compose room through its one life: until its first
  message only the room knows its draft, and the end of its first send closes it, in the
  object and in the room's metadata. The saved row may contradict this only after the
  save at the end of a send has failed (`NoSaveLost`), and only a restart reads it back,
  so two mishaps are needed: with at most one the property is proved, and so it is for
  any number of mishaps if those saves work (`SavesWork`). What the premise leaves out
  is real: the three mishaps of section 3 violate it.

Only model-checked is liveness, which needs fairness and ENABLED: `AutoRecovery`,
`ConnectingReleased`, `ReconnectsWhileClosed`, `DownIsReported`, `PortReleased`,
`WaitReturns`, `LostIsRetried`, `SyncEndsWithClient`.

## 5. Not modelled, and why

* `Shutdown` with the timeout helper it uses, `AppendToSentFolder`, `AddAccount` and the
  other operations nothing calls, the Sent watermark.
* Rendering, MIME, quoting, hygiene, sanitizing, ids, labels, folder names,
  configuration: pure functions of text that keep nothing.
* Matrix rooms, the draft webhook, `main`: single calls into the framework or HTTP.
* Encryption and migrations of the account database: sequential.

## 6. Plan

In order of importance:

1. done: `CircuitBreaker` and its proofs, `ImapInbox`, `GmailInbound`,
   `ImapRecovery`, `Conversations`.
2. done: `SignIn`. Left: that a sign-in begun for a password account empties its
   password (`login.go:882`), and that a client's `Cancel` leaves its `Wait` blocked
   (`login.go:198`), as properties.
3. done: `ImapSent`, `ImapAccounts`, and `InboundDelivery` with its two refinements.
   Left: the Sent watermark, `Shutdown` with the timeout helper, a composition of
   `ImapAccounts` with `ImapRecovery`.
4. done: the proofs of section 4, `ThreadingNotLost` among them. Left: the premise its
   proof needs if an object that was evicted could not be cached again; the safety halves
   of `PortReleased` and `LostIsRetried`, as `WaitIsWoken` is of `WaitReturns`.
5. As properties: two overlapping checks of `ImapInbox` process a mail one after the
   other when the second lowers the watermark (`client.go:1228`); the echo of an own
   mail in `Conversations` arrives before its dedup record.
