---------------------------- MODULE Conversations ----------------------------
(***************************************************************************)
(* Which Matrix room a mail goes to, and which headers a mail written in a *)
(* room carries: ThreadManager (pkg/email/threading.go), the threading and *)
(* dedup part of ProcessParsedEmail (pkg/email/processor.go), outbound     *)
(* sends (pkg/connector/client_send.go, sent_dedup.go), compose threads    *)
(* (client_compose.go, commands.go) and what Portal.Metadata keeps.        *)
(*                                                                         *)
(* Threads are pointers: two maps, an index and the goroutines share the   *)
(* EmailThread objects of `heap', and addToExistingThread and the end of a *)
(* send write to them without tm.mu.  A room is named by its receiver and  *)
(* thread ID.  A Message-ID is the number of its mail.  What a mail's text *)
(* and addresses leave in a thread for the next reply (LastFrom, LastTo,   *)
(* bodies ...) is abstracted to the number of that mail.                   *)
(***************************************************************************)
EXTENDS Integers, Sequences

CONSTANTS Receivers,      \* logins, each an email account
          GmailAccounts,  \* those read and sent through the Gmail API
          Workers,        \* goroutines that process incoming mail
          Senders,        \* portals that can be sending at once
          Objects,        \* EmailThread allocations alive at once (a bound)
          MaxMails,       \* mails there ever are (a bound)
          MaxDrafts,      \* compose threads there ever are (a bound)
          MaxMishaps,     \* mishaps there ever are (a bound)
          ForwardsKeepReferences  \* mail programs put References into forwards

ASSUME GmailAreReceivers == GmailAccounts \subseteq Receivers
ASSUME BoundsAreNaturals == MaxMails \in Nat \ {0} /\ MaxDrafts \in Nat /\ MaxMishaps \in Nat
ASSUME ForwardsBoolean == ForwardsKeepReferences \in BOOLEAN
ASSUME NilIsNoThread == "nil" \notin Objects

VARIABLES
  mails,     \* every mail written so far, by anyone
  heap,      \* the EmailThread objects
  known,     \* tm.knownThreads, with the receiver's keys and the legacy ones
  index,     \* tm.messageIDIndex
  gmail,     \* tm.gmailThreadIDIndex
  work,      \* what each worker is doing
  send,      \* what each sender is doing
  posted,    \* <<receiver, thread ID, Message-ID>> of the messages in rooms
  composed,  \* rooms made by a compose
  meta,      \* Portal.Metadata of each room; an empty one names no thread
  rows,      \* the same, as last saved
  dedup,     \* matrimail_sent_dedup
  mishaps    \* evictions, restarts, failed writes, repeated deliveries

cache == <<heap, known, index, gmail>>
stores == <<posted, composed, meta, rows, dedup>>
vars == <<mails, cache, work, send, stores, mishaps>>

None == 0              \* an absent ID
NoThread == "nil"
NoOne == "other"
Legacy == "legacy"     \* knownThreads keys without a receiver

(* IDs: mails, compose threads, and the IDs we wrote into mails whose *)
(* Message-ID Gmail replaced.                                          *)
Drafts == (MaxMails + 1)..(MaxMails + MaxDrafts)
Rewritten(m) == m + MaxMails + MaxDrafts
Ids == 1..(2 * MaxMails + MaxDrafts)
Written == 1..Len(mails)

Tids == 1..(MaxMails + MaxDrafts)
Keys == (Receivers \cup {Legacy}) \X Tids
Rooms == {<<p[1], p[2]>> : p \in posted} \cup composed

\* The conversation an ID belongs to, in truth.
Conv(i) == IF i \in Drafts THEN i
           ELSE mails[IF i > MaxMails THEN i - MaxMails - MaxDrafts ELSE i].conv

Thread == [tid : Tids \cup {None}, mid : Ids \cup {None}, refs : SUBSET Ids, draft : BOOLEAN,
           gtid : Tids \cup {None}, last : Ids \cup {None}]

NewThread(t) == [tid |-> t, mid |-> None, refs |-> {}, draft |-> FALSE,
                 gtid |-> None, last |-> None]

\* The IDs updateMessageIDIndex enters and removeFromMessageIDIndex deletes.
IdsOf(th) == ({th.tid, th.mid} \cup th.refs) \ {None}

Named(mail) == (mail.refs \cup {mail.irt}) \ {None}

Referenced ==
  {known[k] : k \in Keys} \cup {index[i] : i \in Ids}
    \cup {gmail[k] : k \in Receivers \X Tids}
    \cup {work[w].obj : w \in Workers} \cup {send[s].obj : s \in Senders}

Free == Objects \ Referenced

IdleWork == [step |-> "idle", receiver |-> NoOne, mail |-> None, obj |-> NoThread, refs |-> {}]
IdleSend == [step |-> "idle", room |-> <<>>, obj |-> NoThread, draft |-> FALSE, irt |-> None,
             refs |-> {}, quote |-> None, key |-> None]
-----------------------------------------------------------------------------
Init ==
  /\ mails = <<>>
  /\ heap = [o \in Objects |-> NewThread(1)]
  /\ known = [k \in Keys |-> NoThread]
  /\ index = [i \in Ids |-> NoThread]
  /\ gmail = [k \in Receivers \X Tids |-> NoThread]
  /\ work = [w \in Workers |-> IdleWork]
  /\ send = [s \in Senders |-> IdleSend]
  /\ posted = {} /\ composed = {} /\ dedup = {} /\ mishaps = 0
  /\ meta = [k \in Receivers \X Tids |-> NewThread(None)] /\ rows = meta
-----------------------------------------------------------------------------
(* Correspondents.  `to' are the accounts of this bridge that get the mail. *)

WriteMail(mail) ==
  /\ Len(mails) < MaxMails
  /\ mails' = Append(mails, mail)
  /\ UNCHANGED <<cache, work, send, stores>>

Received(conv, irt, refs, to, forward) ==
  [conv |-> conv, irt |-> irt, refs |-> refs, quote |-> None, to |-> to, by |-> NoOne,
   forward |-> forward]

NewTopic(to) == WriteMail(Received(Len(mails) + 1, None, {}, to, FALSE))

\* Some mail programs reply without References.
Reply(i, to) ==
  \E refs \in {mails[i].refs \cup {i}, {}} :
    WriteMail(Received(mails[i].conv, i, refs, to, FALSE))

\* A forward starts a conversation of its own; some mail programs give it the
\* threading headers of the mail it forwards.
Forward(i, to) ==
  \E keep \in {FALSE, ForwardsKeepReferences} :
    WriteMail(Received(Len(mails) + 1, IF keep THEN i ELSE None,
                       IF keep THEN mails[i].refs \cup {i} ELSE {}, to, TRUE))
-----------------------------------------------------------------------------
(* ThreadManager. *)

\* GetThreadByID: the receiver's key, then the legacy one.
Cached(r, t) == IF known[<<r, t>>] # NoThread THEN known[<<r, t>>] ELSE known[<<Legacy, t>>]

\* cacheThread of object o, which holds th.
CacheThread(r, o, th) ==
  /\ heap' = [heap EXCEPT ![o] = th]
  /\ known' = [known EXCEPT ![<<r, th.tid>>] = o]
  /\ index' = [i \in Ids |-> IF i \in IdsOf(th) THEN o ELSE index[i]]
  /\ gmail' = IF th.gtid = None THEN gmail ELSE [gmail EXCEPT ![<<r, th.gtid>>] = o]

\* cleanupExpiredThreadsIfNeeded or evictOldestThreads, inside the locked part
\* of another call, drops a thread that was not accessed for long, or only some
\* of its keys: they count keys, not threads.  A thread in use was accessed just
\* now, unless findThreadByMessageID found it, which does not count as access.
Evict(o, keys) ==
  /\ keys # {} /\ \A k \in keys : known[k] = o
  /\ \A s \in Senders : send[s].obj # o
  /\ \A w \in Workers : work[w].obj = o => work[w].step = "add"
  /\ index' = [i \in Ids |-> IF i \in IdsOf(heap[o]) THEN NoThread ELSE index[i]]
  /\ gmail' = [g \in DOMAIN gmail |-> IF gmail[g] = o THEN NoThread ELSE gmail[g]]
  /\ known' = [k \in Keys |-> IF k \in keys THEN NoThread ELSE known[k]]
  /\ UNCHANGED <<mails, heap, work, send, stores>>

\* A room's thread rebuilt from Portal.Metadata after a cache miss.
Rehydrate(r, t, o) ==
  /\ Cached(r, t) = NoThread /\ meta[<<r, t>>].tid = t
  /\ o \in Free
  /\ CacheThread(r, o, meta[<<r, t>>])

\* GetChatInfo, whenever the framework asks for it.
GetChatInfo(r, t) ==
  /\ \E o \in Objects : Rehydrate(r, t, o)
  /\ UNCHANGED <<mails, work, send, stores>>
-----------------------------------------------------------------------------
(* ProcessParsedEmail. *)

\* A worker has parsed mail m for account r; an echo of our own is suppressed
\* when its Message-ID is recorded.  A mail may come again: a batch that
\* failed is fetched again, and two loops may fetch the same range.
Take(w, r, m, again) ==
  /\ work[w].step = "idle"
  /\ again = \E t \in Tids : <<r, t, m>> \in posted
  /\ r \in mails[m].to \/ mails[m].by = r
  /\ mails[m].by = r => <<r, m>> \notin dedup
  /\ work' = [work EXCEPT ![w] = [IdleWork EXCEPT !.step = "determine", !.receiver = r, !.mail = m]]
  /\ UNCHANGED <<mails, cache, send, stores>>

\* DBThreadMetadataResolver: the room of a message, of this account first.  It
\* may also find nothing (another schema, or the two-second limit).
ResolveThreadID(r, i) ==
  LET mine == {t \in Tids : <<r, t, i>> \in posted}
  IN IF mine # {} THEN mine ELSE {t \in Tids : \E q \in Receivers : <<q, t, i>> \in posted}

\* findThreadByMessageID of the In-Reply-To, else of some known reference.
FoundByHeaders(mail) ==
  LET byReply == {index[i] : i \in {mail.irt} \ {None}} \ {NoThread}
  IN IF byReply # {} THEN byReply ELSE {index[i] : i \in mail.refs} \ {NoThread}

FoundByGmailThread(r, mail) ==
  IF r \in GmailAccounts THEN {gmail[<<r, mail.conv>>]} \ {NoThread} ELSE {}

\* A change that falls back to another thread of the account, as by subject.
IndexedOrAnother(r, mail) ==
  IF FoundByHeaders(mail) # {} THEN FoundByHeaders(mail)
  ELSE {known[<<r, t>>] : t \in Tids} \ {NoThread}

\* The threads the caches may lead to.
Indexed(r, mail) ==
  IF FoundByHeaders(mail) # {} THEN FoundByHeaders(mail) ELSE FoundByGmailThread(r, mail)

\* addToExistingThread has read the thread's References.
Join(w, o, step, refs) ==
  work' = [work EXCEPT ![w].step = step, ![w].obj = o, ![w].refs = refs]

CreateNewThread(w) ==
  LET m == work[w].mail
      gtid == IF work[w].receiver \in GmailAccounts THEN mails[m].conv ELSE None
  IN \E o \in Free :
       /\ heap' = [heap EXCEPT ![o] = [tid |-> m, mid |-> m, refs |-> mails[m].refs, draft |-> FALSE,
                                       gtid |-> gtid, last |-> m]]
       /\ known' = [known EXCEPT ![<<Legacy, m>>] = o]
       /\ work' = [work EXCEPT ![w].step = "cache", ![w].obj = o]
       /\ UNCHANGED <<index, gmail>>

\* The thread the resolver names, or an empty object for it.
JoinResolved(w, t) ==
  LET o == Cached(work[w].receiver, t) IN
  IF o # NoThread THEN Join(w, o, "addCached", heap[o].refs) /\ UNCHANGED cache
  ELSE \E n \in Free : /\ heap' = [heap EXCEPT ![n] = NewThread(t)]
                       /\ Join(w, n, "addCached", {})
                       /\ UNCHANGED <<known, index, gmail>>

DetermineThread(w) ==
  /\ work[w].step = "determine"
  /\ LET r == work[w].receiver
         mail == mails[work[w].mail]
         found == Indexed(r, mail)
     IN \/ mail.forward /\ CreateNewThread(w)
        \/ /\ ~mail.forward
           /\ \E i \in Named(mail) : \E t \in ResolveThreadID(r, i) : JoinResolved(w, t)
        \/ /\ ~mail.forward /\ found # {}
           /\ \E o \in found : Join(w, o, "add", heap[o].refs) /\ UNCHANGED cache
        \/ ~mail.forward /\ found = {} /\ CreateNewThread(w)
  /\ UNCHANGED <<mails, send, stores>>

\* A change that leaves the mail out of the References of its thread.
AddedWithoutReference(w) ==
  IF work[w].step = "cache" THEN heap[work[w].obj]
  ELSE [heap[work[w].obj] EXCEPT !.refs = work[w].refs, !.last = work[w].mail]

\* The unlocked writes of addToExistingThread; References is read-modify-write.
Added(w) ==
  LET m == work[w].mail
      th == heap[work[w].obj]
  IN IF work[w].step = "cache" THEN th
     ELSE [th EXCEPT !.refs = work[w].refs \cup {m}, !.last = m,
                     !.gtid = IF work[w].receiver \in GmailAccounts THEN mails[m].conv ELSE @]

\* CacheForReceiver, and the event for the room, which may fail.
CacheAndPost(w, done) ==
  /\ work[w].step \in {"add", "addCached", "cache"}
  /\ LET r == work[w].receiver
         th == Added(w)
     IN /\ CacheThread(r, work[w].obj, th)
        /\ posted' = IF done THEN posted \cup {<<r, th.tid, work[w].mail>>} ELSE posted
  /\ work' = [work EXCEPT ![w] = IdleWork]
  /\ UNCHANGED <<mails, send, composed, meta, rows, dedup>>
-----------------------------------------------------------------------------
(* Compose and send. *)

\* !compose saves the draft with the portal; start-chat does not.
SaveDraft(room, th) ==
  /\ meta' \in {meta, [meta EXCEPT ![room] = th]}
  /\ rows' = [rows EXCEPT ![room] = meta'[room]]

\* ResolveIdentifier.
Compose(r, d) ==
  /\ \A q \in Receivers : <<q, d>> \notin composed
  /\ composed' = composed \cup {<<r, d>>}
  /\ LET th == [NewThread(d) EXCEPT !.draft = TRUE] IN
     /\ \E o \in Free : CacheThread(r, o, th)
     /\ SaveDraft(<<r, d>>, th)
  /\ UNCHANGED <<mails, work, send, posted, dedup>>

\* In-Reply-To and References of the next mail of th, in reply to message i of
\* the room or, when i is None, to the thread.
ReplyChain(th, i) ==
  LET irt == IF i # None THEN i ELSE th.mid
  IN IF th.draft THEN [irt |-> None, refs |-> {}]
     ELSE [irt |-> irt, refs |-> (th.refs \cup {irt}) \ {None}]

\* The framework resolves a Matrix reply to a message of its room.
ReplyTargets(r, t) == {i \in Ids : <<r, t, i>> \in posted}

\* handleMatrixMessageOutbound up to the Send.  The framework handles one
\* message of a portal at a time.
Write(s, r, t) ==
  /\ send[s].step = "idle"
  /\ <<r, t>> \in Rooms /\ \A q \in Senders : send[q].room # <<r, t>>
  /\ \E o \in Objects, i \in {None} \cup ReplyTargets(r, t) :
       /\ \/ o = Cached(r, t) /\ UNCHANGED cache
          \/ Rehydrate(r, t, o)
       /\ LET th == heap'[o]
              chain == ReplyChain(th, i)
          IN send' = [send EXCEPT ![s] = [step |-> "send", room |-> <<r, t>>, obj |-> o,
                                          draft |-> th.draft, irt |-> chain.irt,
                                          refs |-> chain.refs, quote |-> th.last, key |-> None]]
  /\ UNCHANGED <<mails, work, stores>>

SendFails(s) ==
  /\ send[s].step = "send"
  /\ send' = [send EXCEPT ![s] = IdleSend]
  /\ UNCHANGED <<mails, cache, work, stores>>

\* A change that keeps no ID when the Gmail API does not say which it gave.
SentKeyOrNone(m, fetched) == IF fetched THEN m ELSE None

\* The Gmail API replaces the Message-ID; failing to fetch the new one, the
\* sender goes on with its own.
SentKey(m, fetched) == IF fetched THEN m ELSE Rewritten(m)

\* The mail is out.
SendWorks(s, to, fetched) ==
  /\ send[s].step = "send"
  /\ Len(mails) < MaxMails
  /\ LET m == Len(mails) + 1
         r == send[s].room[1]
     IN /\ r \notin to       \* own addresses are no recipients
        /\ mails' = Append(mails, [conv |-> Conv(send[s].room[2]), irt |-> send[s].irt,
                                   refs |-> send[s].refs, quote |-> send[s].quote, to |-> to,
                                   by |-> r, forward |-> FALSE])
        /\ fetched \/ r \in GmailAccounts
        /\ send' = [send EXCEPT ![s].step = "record", ![s].key = SentKey(m, fetched)]
  /\ UNCHANGED <<cache, work, stores>>

\* SentDedup.Record, best effort.
Record(s, done) ==
  /\ send[s].step = "record"
  /\ dedup' = IF done THEN dedup \cup {<<send[s].room[1], send[s].key>>} ELSE dedup
  /\ send' = [send EXCEPT ![s].step = "finish"]
  /\ UNCHANGED <<mails, cache, work, posted, composed, meta, rows>>

\* A change that forgets to end the draft.
SentThreadStillDraft(th, key, wasDraft) == [th EXCEPT !.refs = @ \cup {key}, !.mid = key]

\* The thread after a mail with ID key was sent from it.
SentThread(th, key, wasDraft) ==
  [th EXCEPT !.refs = @ \cup {key}, !.mid = key, !.draft = @ /\ ~wasDraft]

\* The unlocked writes to the thread, CacheForReceiver, Portal.Save (which may
\* fail), and the message row the framework stores for the returned ID.
Finish(s, saved) ==
  /\ send[s].step = "finish"
  /\ LET room == send[s].room
         th == SentThread(heap[send[s].obj], send[s].key, send[s].draft)
     IN /\ CacheThread(room[1], send[s].obj, th)
        /\ meta' = [meta EXCEPT ![room] = th]
        /\ rows' = IF saved THEN [rows EXCEPT ![room] = th] ELSE rows
        /\ posted' = posted \cup {<<room[1], room[2], send[s].key>>}
  /\ send' = [send EXCEPT ![s] = IdleSend]
  /\ UNCHANGED <<mails, work, composed, dedup>>

\* The bridge dies and comes back; only the database is left.
Restart ==
  /\ known' = [k \in Keys |-> NoThread]
  /\ index' = [i \in Ids |-> NoThread]
  /\ gmail' = [k \in Receivers \X Tids |-> NoThread]
  /\ work' = [w \in Workers |-> IdleWork]
  /\ send' = [s \in Senders |-> IdleSend]
  /\ meta' = rows
  /\ UNCHANGED <<mails, heap, posted, composed, rows, dedup>>
-----------------------------------------------------------------------------
Correspond ==
  \E to \in (SUBSET Receivers) \ {{}} :
    NewTopic(to) \/ \E i \in Written : Reply(i, to) \/ Forward(i, to)

Process(w, well) ==
  \/ \E r \in Receivers, m \in Written : Take(w, r, m, ~well)
  \/ well /\ DetermineThread(w)
  \/ CacheAndPost(w, well)

Outbound(s, well) ==
  \/ well /\ \E r \in Receivers, t \in Tids : Write(s, r, t)
  \/ well /\ SendFails(s)
  \/ \E to \in SUBSET Receivers : SendWorks(s, to, well)
  \/ Record(s, well)
  \/ Finish(s, well)

\* A step that goes well, or a mishap.
Step(well) ==
  \/ \E w \in Workers : Process(w, well)
  \/ \E s \in Senders : Outbound(s, well)
  \/ well /\ Correspond
  \/ well /\ \E r \in Receivers, d \in Drafts : Compose(r, d)
  \/ well /\ \E r \in Receivers, t \in Tids : GetChatInfo(r, t)
  \/ ~well /\ \E o \in Objects : \E keys \in SUBSET {k \in Keys : known[k] = o} : Evict(o, keys)
  \/ ~well /\ Restart

Next ==
  \/ Step(TRUE) /\ UNCHANGED mishaps
  \/ mishaps < MaxMishaps /\ Step(FALSE) /\ mishaps' = mishaps + 1

Spec == Init /\ [][Next]_vars
-----------------------------------------------------------------------------
MailType == [conv : Tids, irt : Ids \cup {None}, refs : SUBSET Ids, quote : Ids \cup {None},
             to : SUBSET Receivers, by : Receivers \cup {NoOne}, forward : BOOLEAN]

WorkType == [step : {"idle", "determine", "add", "addCached", "cache"},
             receiver : Receivers \cup {NoOne}, mail : Ids \cup {None},
             obj : Objects \cup {NoThread}, refs : SUBSET Ids]

SendType == [step : {"idle", "send", "record", "finish"},
             room : (Receivers \X Tids) \cup {<<>>}, obj : Objects \cup {NoThread},
             draft : BOOLEAN, irt : Ids \cup {None}, refs : SUBSET Ids,
             quote : Ids \cup {None}, key : Ids \cup {None}]

CacheTypes ==
  /\ heap \in [Objects -> Thread]
  /\ known \in [Keys -> Objects \cup {NoThread}]
  /\ index \in [Ids -> Objects \cup {NoThread}]
  /\ gmail \in [Receivers \X Tids -> Objects \cup {NoThread}]

StoreTypes ==
  /\ posted \subseteq Receivers \X Tids \X Ids
  /\ composed \subseteq Receivers \X Drafts
  /\ meta \in [Receivers \X Tids -> Thread] /\ rows \in [Receivers \X Tids -> Thread]
  /\ dedup \subseteq Receivers \X Ids

\* Every field has its type.
TypeOK ==
  /\ mails \in Seq(MailType) /\ Len(mails) <= MaxMails
  /\ CacheTypes /\ StoreTypes
  /\ work \in [Workers -> WorkType] /\ send \in [Senders -> SendType]
  /\ mishaps \in 0..MaxMishaps

\* A room shows the mails of one conversation only, whatever order mails come
\* in, whichever copies of its thread two goroutines write to, and whatever was
\* evicted, rebuilt or lost in between ("One email thread = one Matrix room").
RoomsUnmixed == \A p \in posted : Conv(p[3]) = Conv(p[2])

\* A mail written in a room answers and quotes only mails of its conversation.
RepliesUnmixed ==
  \A m \in Written : mails[m].by # NoOne =>
    \A i \in (Named(mails[m]) \cup {mails[m].quote}) \ {None} : Conv(i) = mails[m].conv

\* A mail is about to leave without any threading header.
Blank(s) == send[s].step = "send" /\ send[s].irt = None /\ send[s].refs = {}

\* Only a room the user has composed ever sends a mail without any threading
\* header: one that was made for a received mail never does, whatever was
\* evicted, forgotten by a restart or left unsaved, and although
\* addToExistingThread may start from an empty thread object.
RepliesThreaded == \A s \in Senders : Blank(s) => send[s].room[2] \in Drafts

\* Once the saved state of a room names a mail, no mail leaves the room
\* without any threading header: not after a restart, an eviction, or while
\* another copy of the thread is in use.
ThreadingNotLost == \A s \in Senders : Blank(s) => rows[send[s].room].mid = None
=============================================================================
