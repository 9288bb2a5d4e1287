-------------------------- MODULE ConversationsProofs --------------------------
(***************************************************************************)
(* Proofs about Conversations, for any accounts, goroutines, portals and   *)
(* thread objects and any number of mails, compose threads and mishaps.    *)
(*                                                                         *)
(* Every ID in existence belongs to one conversation, and it never changes *)
(* which.  The invariant says of each thing that names IDs (a thread       *)
(* object, an entry of a map, a room's metadata, the locals of a           *)
(* goroutine, a mail's headers) that all of them belong to the same one.   *)
(* An object may be written by several goroutines and lose updates: what   *)
(* is known of it is only what every writer leaves alone, its thread ID    *)
(* and the conversation of all it names.                                   *)
(*                                                                         *)
(* That a thread with mails never sends without a threading header needs   *)
(* two layers more.  ThreadedInv says that every thread in use can name a  *)
(* mail, a fresh compose room excepted, and that no draft's ID is ever     *)
(* among its headers.  DraftsInv follows a compose thread through its one  *)
(* life: open until its first message, its draft known only to the room    *)
(* that composed it, closed by the end of the first send.  What is saved   *)
(* can contradict that only where the save at the end of a send was lost   *)
(* (NoSaveLost), and only a restart reads it back.                         *)
(***************************************************************************)
EXTENDS Conversations, TLAPS

\* The mail whose number or rewritten Message-ID an ID is.
MailOf(i) == IF i > MaxMails THEN i - MaxMails - MaxDrafts ELSE i

\* The IDs in existence, and the conversation of each.
Real == Drafts \cup {i \in Ids : MailOf(i) \in Written}
Topic == [i \in Real |-> Conv(i)]
About(t) == {i \in Real : Topic[i] = Topic[t]}

\* All a thread names is about what its thread ID is about.
Whole(th) ==
  /\ th.tid \in Real
  /\ IdsOf(th) \cup ({th.last} \ {None}) \subseteq About(th.tid)
  /\ th.gtid # None => th.gtid = Topic[th.tid]

Held(o) == o \in Objects /\ Whole(heap[o])

MailsWhole ==
  \A m \in Written : (Named(mails[m]) \cup {mails[m].quote}) \ {None} \subseteq About(m)

CachesWhole ==
  /\ \A k \in Keys : known[k] # NoThread => Held(known[k]) /\ heap[known[k]].tid = k[2]
  /\ \A i \in Ids : index[i] # NoThread => Held(index[i]) /\ i \in About(heap[index[i]].tid)
  /\ \A g \in Receivers \X Tids :
       gmail[g] # NoThread => Held(gmail[g]) /\ g[2] = Topic[heap[gmail[g]].tid]

WorkWhole(w) ==
  /\ work[w].step # "idle" => work[w].receiver \in Receivers /\ work[w].mail \in Written
  /\ work[w].step = "determine" => work[w].refs = {}
  /\ work[w].step \in {"add", "addCached", "cache"} =>
       /\ Held(work[w].obj)
       /\ {work[w].mail} \cup work[w].refs \subseteq About(heap[work[w].obj].tid)

SendWhole(s) ==
  /\ send[s].step # "idle" =>
       /\ send[s].room \in Receivers \X Tids
       /\ Held(send[s].obj) /\ heap[send[s].obj].tid = send[s].room[2]
       /\ ({send[s].irt, send[s].quote} \cup send[s].refs) \ {None} \subseteq About(send[s].room[2])
  /\ send[s].step \in {"record", "finish"} => send[s].key \in About(send[s].room[2])

PostedWhole == \A p \in posted : p[2] \in Real /\ p[3] \in About(p[2])

SavedWhole ==
  \A k \in Receivers \X Tids : /\ meta[k].tid = k[2] => Whole(meta[k])
                               /\ rows[k].tid = k[2] => Whole(rows[k])

\* The inductive invariant of the conversations.
AllWhole ==
  /\ MailsWhole /\ CachesWhole /\ PostedWhole /\ SavedWhole
  /\ \A w \in Workers : WorkWhole(w)
  /\ \A s \in Senders : SendWhole(s)

ConversationsInv == TypeOK /\ AllWhole
-----------------------------------------------------------------------------
(* IDs and conversations. *)

\* What exists: drafts, and both IDs of every mail.
LEMMA RealFacts ==
  ASSUME TypeOK
  PROVE  /\ Real \subseteq Ids /\ Drafts \subseteq Real /\ Written \subseteq Real
         /\ Tids \subseteq Ids /\ Drafts \subseteq Tids /\ Written \subseteq Tids
         /\ None \notin Ids
         /\ Topic \in [Real -> Tids]
         /\ \A m \in Written : Topic[m] = mails[m].conv
         /\ \A i \in Real : Topic[i] = Conv(i)
<1>1. mails \in Seq(MailType) /\ Len(mails) \in Nat /\ Len(mails) <= MaxMails
  <2>1. mails \in Seq(MailType) /\ Len(mails) <= MaxMails  BY DEF TypeOK
  <2>2. QED  BY <2>1
<1>2. \A m \in Written : mails[m].conv \in Tids
  <2>1. \A m \in Written : mails[m] \in MailType  BY <1>1 DEF Written
  <2>2. QED  BY <2>1 DEF MailType
<1> USE BoundsAreNaturals DEF Drafts, Ids, Tids, Written, None
<1>3. /\ Real \subseteq Ids /\ Drafts \subseteq Real /\ Written \subseteq Real
      /\ Tids \subseteq Ids /\ Drafts \subseteq Tids /\ Written \subseteq Tids /\ None \notin Ids
  BY <1>1 DEF Real, MailOf
<1>4. \A i \in Real : Topic[i] = Conv(i)  BY DEF Topic
<1>5. ASSUME NEW i \in Real  PROVE Conv(i) \in Tids
  <2>1. CASE i \in Drafts  BY <2>1, <1>1 DEF Conv
  <2>2. CASE i \notin Drafts
    <3>1. MailOf(i) \in Written  BY <2>2 DEF Real
    <3>2. Conv(i) = mails[MailOf(i)].conv  BY <2>2 DEF Conv, MailOf
    <3>3. QED  BY <3>1, <3>2, <1>2
  <2>3. QED  BY <2>1, <2>2
<1>6. Topic \in [Real -> Tids]  BY <1>4, <1>5 DEF Topic
<1>7. ASSUME NEW m \in Written  PROVE Topic[m] = mails[m].conv
  <2>1. m \notin Drafts /\ ~(m > MaxMails) /\ m \in Real  BY <1>1, <1>3
  <2>2. QED  BY <2>1, <1>4 DEF Conv
<1>8. QED  BY <1>3, <1>4, <1>6, <1>7

\* A new mail adds its two IDs and leaves the conversation of every other as it is.
LEMMA MailAdded ==
  ASSUME TypeOK, Len(mails) < MaxMails, NEW mail \in MailType, mails' = Append(mails, mail)
  PROVE  /\ Real \subseteq Real' /\ \A i \in Real : Topic'[i] = Topic[i]
         /\ Written' = Written \cup {Len(mails) + 1}
         /\ \A m \in Written : mails'[m] = mails[m]
         /\ mails'[Len(mails) + 1] = mail
         /\ {Len(mails) + 1, Rewritten(Len(mails) + 1)} \subseteq Real'
         /\ Topic'[Len(mails) + 1] = mail.conv
         /\ Topic'[Rewritten(Len(mails) + 1)] = mail.conv
         /\ mails' \in Seq(MailType) /\ Len(mails') <= MaxMails
<1> USE BoundsAreNaturals DEF None
<1>1. mails \in Seq(MailType) /\ Len(mails) \in Nat  BY DEF TypeOK
<1>2. /\ mails' \in Seq(MailType) /\ Len(mails') = Len(mails) + 1 /\ mails'[Len(mails) + 1] = mail
      /\ \A m \in 1..Len(mails) : mails'[m] = mails[m]
  BY <1>1
<1> DEFINE n == Len(mails) + 1
<1>3. Written' = Written \cup {n}  BY <1>1, <1>2 DEF Written
<1>4. Real \subseteq Real'  BY <1>3 DEF Real
<1>5. ASSUME NEW i \in Real  PROVE Topic'[i] = Topic[i]
  <2>1. Topic[i] = Conv(i) /\ Topic'[i] = Conv(i)'  BY <1>4 DEF Topic
  <2>2. CASE i \in Drafts  BY <2>1, <2>2 DEF Conv
  <2>3. CASE i \notin Drafts
    <3>1. MailOf(i) \in Written  BY <2>3 DEF Real
    <3>2. Conv(i) = mails[MailOf(i)].conv /\ Conv(i)' = mails'[MailOf(i)].conv
      BY <2>3 DEF Conv, MailOf
    <3>3. QED  BY <2>1, <3>1, <3>2, <1>2 DEF Written
  <2>4. QED  BY <2>2, <2>3
<1>6. n \in 1..MaxMails  BY <1>1
<1>7. /\ n \in Ids /\ n \notin Drafts /\ MailOf(n) = n
      /\ Rewritten(n) \in Ids /\ Rewritten(n) \notin Drafts /\ MailOf(Rewritten(n)) = n
  BY <1>6 DEF Ids, Drafts, MailOf, Rewritten
<1>8. n \in Real' /\ Rewritten(n) \in Real'  BY <1>3, <1>7 DEF Real
<1>9. Topic'[n] = mail.conv /\ Topic'[Rewritten(n)] = mail.conv
  <2>1. \A i \in Ids \ Drafts : Conv(i)' = mails'[MailOf(i)].conv  BY DEF Conv, MailOf
  <2>2. QED  BY <1>2, <1>7, <1>8, <2>1 DEF Topic
<1>10. QED  BY <1>2, <1>3, <1>4, <1>5, <1>6, <1>8, <1>9 DEF Written

\* Without a new mail nothing changes.
LEMMA NoMailAdded ==
  ASSUME UNCHANGED mails
  PROVE  /\ Real' = Real /\ Topic' = Topic /\ Written' = Written
         /\ \A t : About(t)' = About(t)
         /\ \A th : Whole(th)' = Whole(th)
<1>1. Real' = Real /\ Written' = Written  BY DEF Real, Written
<1>2. Topic' = Topic  BY <1>1 DEF Topic, Conv
<1>3. \A t : About(t)' = About(t)  BY <1>1, <1>2 DEF About
<1>4. \A th : Whole(th)' = Whole(th)  BY <1>1, <1>2 DEF Whole, About
<1>5. QED  BY <1>1, <1>2, <1>3, <1>4

\* What was about one thing stays so when mails are added.
LEMMA WholeStaysSo ==
  ASSUME Real \subseteq Real', \A i \in Real : Topic'[i] = Topic[i]
  PROVE  /\ \A t \in Real : About(t) \subseteq About(t)'
         /\ \A th : Whole(th) => Whole(th)'
<1>1. \A t \in Real : About(t) \subseteq About(t)'  BY DEF About
<1>2. ASSUME NEW th, Whole(th)  PROVE Whole(th)'
  <2>1. th.tid \in Real /\ Topic'[th.tid] = Topic[th.tid]  BY <1>2 DEF Whole
  <2>2. About(th.tid) \subseteq About(th.tid)'  BY <1>1, <2>1
  <2>3. QED  BY <1>2, <2>1, <2>2 DEF Whole
<1>3. QED  BY <1>1, <1>2
-----------------------------------------------------------------------------
(* Writing to a thread that others hold. *)

\* An object that is held still is after the step, under the same ID.
HeldNext(o) == o \in Objects /\ Whole(heap'[o])
Kept == \A p \in Referenced : Held(p) => HeldNext(p) /\ heap'[p].tid = heap[p].tid

LEMMA HeapKept ==
  ASSUME UNCHANGED <<mails, heap>>
  PROVE  Kept
BY NoMailAdded DEF Kept, Held, HeldNext

\* A new object is nobody's, and a thread that is written keeps its ID.
LEMMA ThreadWritten ==
  ASSUME TypeOK, UNCHANGED mails, NEW o \in Objects, NEW th \in Thread, Whole(th),
         heap' = [heap EXCEPT ![o] = th], o \in Free \/ th.tid = heap[o].tid
  PROVE  Kept /\ HeldNext(o) /\ heap'[o] = th
<1>1. heap'[o] = th /\ \A p \in Objects \ {o} : heap'[p] = heap[p]  BY DEF TypeOK, CacheTypes
<1>2. HeldNext(o)  BY <1>1 DEF HeldNext
<1>3. ASSUME NEW p \in Referenced, Held(p)  PROVE HeldNext(p) /\ heap'[p].tid = heap[p].tid
  <2>1. CASE p = o
    <3>1. th.tid = heap[o].tid  BY <2>1, <1>3 DEF Free
    <3>2. QED  BY <2>1, <3>1, <1>1, <1>2
  <2>2. CASE p # o  BY <2>2, <1>1, <1>3 DEF Held, HeldNext
  <2>3. QED  BY <2>1, <2>2
<1>4. QED  BY <1>1, <1>2, <1>3 DEF Kept

\* The maps stay right when an entry is dropped, or set to an object that is held
\* and about the same conversation.
LEMMA CachesStep ==
  ASSUME UNCHANGED mails, Kept, CachesWhole,
         \A k \in Keys : \/ known'[k] \in {known[k], NoThread}
                         \/ HeldNext(known'[k]) /\ heap'[known'[k]].tid = k[2],
         \A i \in Ids : \/ index'[i] \in {index[i], NoThread}
                        \/ HeldNext(index'[i]) /\ i \in About(heap'[index'[i]].tid),
         \A g \in Receivers \X Tids :
           \/ gmail'[g] \in {gmail[g], NoThread}
           \/ HeldNext(gmail'[g]) /\ g[2] = Topic[heap'[gmail'[g]].tid]
  PROVE  CachesWhole'
<1>1. ASSUME NEW k \in Keys, known'[k] # NoThread
      PROVE  HeldNext(known'[k]) /\ heap'[known'[k]].tid = k[2]
  BY <1>1 DEF CachesWhole, Kept, Referenced
<1>2. ASSUME NEW i \in Ids, index'[i] # NoThread
      PROVE  HeldNext(index'[i]) /\ i \in About(heap'[index'[i]].tid)
  <2>1. CASE index'[i] = index[i]
    <3>1. HeldNext(index[i]) /\ heap'[index[i]].tid = heap[index[i]].tid
      BY <1>2, <2>1 DEF CachesWhole, Kept, Referenced
    <3>2. QED  BY <1>2, <2>1, <3>1 DEF CachesWhole
  <2>2. QED  BY <1>2, <2>1
<1>3. ASSUME NEW g \in Receivers \X Tids, gmail'[g] # NoThread
      PROVE  HeldNext(gmail'[g]) /\ g[2] = Topic[heap'[gmail'[g]].tid]
  <2>1. CASE gmail'[g] = gmail[g]
    <3>1. HeldNext(gmail[g]) /\ heap'[gmail[g]].tid = heap[gmail[g]].tid
      BY <1>3, <2>1 DEF CachesWhole, Kept, Referenced
    <3>2. QED  BY <1>3, <2>1, <3>1 DEF CachesWhole
  <2>2. QED  BY <1>3, <2>1
<1>4. QED  BY <1>1, <1>2, <1>3, NoMailAdded DEF CachesWhole, Held, HeldNext

LEMMA CachesKept ==
  ASSUME UNCHANGED <<mails, known, index, gmail>>, Kept, CachesWhole
  PROVE  CachesWhole'
BY CachesStep

\* So do they when a thread is entered under its ID and all it names.
LEMMA ThreadCached ==
  ASSUME TypeOK, UNCHANGED mails, Kept, CachesWhole,
         NEW r \in Receivers, NEW o \in Objects, NEW th \in Thread,
         CacheThread(r, o, th), HeldNext(o), heap'[o] = th
  PROVE  CachesWhole'
<1>1. /\ IdsOf(th) \subseteq About(th.tid)
      /\ th.gtid # None => th.gtid = Topic[th.tid]
  BY DEF HeldNext, Whole
<1>2. /\ known \in [Keys -> Objects \cup {NoThread}]
      /\ gmail \in [Receivers \X Tids -> Objects \cup {NoThread}]
  BY DEF TypeOK, CacheTypes
<1>3. ASSUME NEW k \in Keys
      PROVE  known'[k] = known[k] \/ (known'[k] = o /\ th.tid = k[2])
  <2>1. known' = [known EXCEPT ![<<r, th.tid>>] = o]  BY DEF CacheThread
  <2>2. QED  BY <2>1, <1>2
<1>4. ASSUME NEW i \in Ids
      PROVE  index'[i] = index[i] \/ (index'[i] = o /\ i \in About(th.tid))
  <2>1. index'[i] = IF i \in IdsOf(th) THEN o ELSE index[i]  BY DEF CacheThread
  <2>2. QED  BY <2>1, <1>1
<1>5. ASSUME NEW g \in Receivers \X Tids
      PROVE  gmail'[g] = gmail[g] \/ (gmail'[g] = o /\ g[2] = Topic[th.tid])
  <2>1. CASE th.gtid = None  BY <2>1 DEF CacheThread
  <2>2. CASE th.gtid # None
    <3>1. gmail' = [gmail EXCEPT ![<<r, th.gtid>>] = o]  BY <2>2 DEF CacheThread
    <3>2. QED  BY <2>2, <3>1, <1>1, <1>2
  <2>3. QED  BY <2>1, <2>2
<1>6. QED  BY <1>3, <1>4, <1>5, CachesStep

\* What a goroutine holds stays right while it does nothing.
LEMMA WorkKept ==
  ASSUME UNCHANGED mails, Kept, NEW w \in Workers, WorkWhole(w), work'[w] = work[w]
  PROVE  WorkWhole(w)'
<1>1. CASE work[w].step \in {"add", "addCached", "cache"}
  <2>1. HeldNext(work[w].obj) /\ heap'[work[w].obj].tid = heap[work[w].obj].tid
    BY <1>1 DEF WorkWhole, Kept, Referenced
  <2>2. QED  BY <1>1, <2>1, NoMailAdded DEF WorkWhole, Held, HeldNext
<1>2. CASE work[w].step \notin {"add", "addCached", "cache"}  BY <1>2, NoMailAdded DEF WorkWhole
<1>3. QED  BY <1>1, <1>2

LEMMA SendKept ==
  ASSUME UNCHANGED mails, Kept, NEW s \in Senders, SendWhole(s), send'[s] = send[s]
  PROVE  SendWhole(s)'
<1>1. CASE send[s].step # "idle"
  <2>1. HeldNext(send[s].obj) /\ heap'[send[s].obj].tid = heap[send[s].obj].tid
    BY <1>1 DEF SendWhole, Kept, Referenced
  <2>2. QED  BY <1>1, <2>1, NoMailAdded DEF SendWhole, Held, HeldNext
<1>2. CASE send[s].step = "idle"  BY <1>2 DEF SendWhole
<1>3. QED  BY <1>1, <1>2

\* Idle goroutines hold nothing.
LEMMA IdleWhole ==
  /\ \A w \in Workers : work'[w] = IdleWork => WorkWhole(w)'
  /\ \A s \in Senders : send'[s] = IdleSend => SendWhole(s)'
BY DEF WorkWhole, SendWhole, IdleWork, IdleSend

\* What is stored stays right while it is left alone.
LEMMA StoresKept ==
  ASSUME UNCHANGED mails
  PROVE  /\ MailsWhole => MailsWhole'
         /\ PostedWhole /\ UNCHANGED posted => PostedWhole'
         /\ SavedWhole /\ UNCHANGED <<meta, rows>> => SavedWhole'
<1>1. MailsWhole => MailsWhole'  BY NoMailAdded DEF MailsWhole, Named
<1>2. PostedWhole /\ UNCHANGED posted => PostedWhole'  BY NoMailAdded DEF PostedWhole
<1>3. SavedWhole /\ UNCHANGED <<meta, rows>> => SavedWhole'  BY NoMailAdded DEF SavedWhole
<1>4. QED  BY <1>1, <1>2, <1>3
-----------------------------------------------------------------------------
(* Mails. *)

\* A mail that names only its own conversation disturbs nothing.
LEMMA MailWritten ==
  ASSUME TypeOK, AllWhole, Len(mails) < MaxMails, NEW mail \in MailType,
         mails' = Append(mails, mail), UNCHANGED <<cache, work, stores>>,
         (Named(mail) \cup {mail.quote}) \ {None} \subseteq {i \in Real : Topic[i] = mail.conv}
  PROVE  /\ MailsWhole' /\ CachesWhole' /\ PostedWhole' /\ SavedWhole'
         /\ \A w \in Workers : WorkWhole(w)'
         /\ \A s \in Senders : send'[s] = send[s] => SendWhole(s)'
<1> USE MailAdded, WholeStaysSo DEF AllWhole, cache, stores
<1>1. \A t \in Real : About(t) \subseteq About(t)'  OBVIOUS
<1>2. \A th : Whole(th) => Whole(th)'  OBVIOUS
<1>3. \A o \in Objects : Held(o) => Held(o)'  BY <1>2 DEF Held
<1>4. \A o \in Objects : Held(o) => /\ heap[o].tid \in Real
                                   /\ About(heap[o].tid) \subseteq About(heap[o].tid)'
  BY <1>1 DEF Held, Whole
<1>5. MailsWhole'
  <2>1. ASSUME NEW m \in Written
        PROVE  (Named(mails'[m]) \cup {mails'[m].quote}) \ {None} \subseteq About(m)'
    <3>1. m \in Real /\ mails'[m] = mails[m]  BY RealFacts
    <3>2. QED  BY <3>1, <1>1 DEF MailsWhole
  <2>2. ASSUME NEW m, m = Len(mails) + 1
        PROVE  (Named(mails'[m]) \cup {mails'[m].quote}) \ {None} \subseteq About(m)'
    <3>1. mails'[m] = mail /\ Topic'[m] = mail.conv  BY <2>2
    <3>2. {i \in Real : Topic[i] = mail.conv} \subseteq About(m)'  BY <3>1 DEF About
    <3>3. QED  BY <3>1, <3>2
  <2>3. QED  BY <2>1, <2>2 DEF MailsWhole, Named
<1>6. CachesWhole'
  <2>1. ASSUME NEW g \in Receivers \X Tids, gmail[g] # NoThread
        PROVE  Topic'[heap[gmail[g]].tid] = Topic[heap[gmail[g]].tid]
    BY <2>1, <1>4 DEF CachesWhole, Held
  <2>2. \A k \in Keys : known[k] # NoThread => Held(known[k])' /\ heap[known[k]].tid = k[2]
    BY <1>3 DEF CachesWhole, Held
  <2>3. \A i \in Ids : index[i] # NoThread => Held(index[i])' /\ i \in About(heap[index[i]].tid)'
    BY <1>3, <1>4 DEF CachesWhole, Held
  <2>4. \A g \in Receivers \X Tids :
          gmail[g] # NoThread => Held(gmail[g])' /\ g[2] = Topic'[heap[gmail[g]].tid]
    BY <1>3, <2>1 DEF CachesWhole, Held
  <2>5. QED  BY <2>2, <2>3, <2>4 DEF CachesWhole
<1>7. PostedWhole'  BY <1>1 DEF PostedWhole
<1>8. SavedWhole'  BY <1>2 DEF SavedWhole
<1>9. ASSUME NEW w \in Workers  PROVE WorkWhole(w)'
  BY <1>3, <1>4 DEF WorkWhole, Held
<1>10. ASSUME NEW s \in Senders, send'[s] = send[s]  PROVE SendWhole(s)'
  <2>1. CASE send[s].step # "idle"
    <3>1. SendWhole(s)  OBVIOUS
    <3>2. send[s].room[2] \in Real  BY <2>1, <3>1, <1>4 DEF SendWhole, Held
    <3>3. QED  BY <2>1, <3>1, <3>2, <1>1, <1>3, <1>10 DEF SendWhole, Held
  <2>2. CASE send[s].step = "idle"  BY <2>2, <1>10 DEF SendWhole
  <2>3. QED  BY <2>1, <2>2
<1>11. QED  BY <1>5, <1>6, <1>7, <1>8, <1>9, <1>10

\* A correspondent's mail names only its conversation, as long as a forward
\* carries no headers of the mail it forwards.
LEMMA CorrespondWhole ==
  ASSUME ConversationsInv, ~ForwardsKeepReferences, Correspond
  PROVE  AllWhole'
<1> USE DEF ConversationsInv
<1>1. /\ Len(mails) < MaxMails /\ UNCHANGED <<cache, work, send, stores>>
      /\ \E mail \in MailType :
           /\ mails' = Append(mails, mail)
           /\ (Named(mail) \cup {mail.quote}) \ {None} \subseteq {i \in Real : Topic[i] = mail.conv}
  <2>1. PICK to \in (SUBSET Receivers) \ {{}} :
          NewTopic(to) \/ \E i \in Written : Reply(i, to) \/ Forward(i, to)
    BY DEF Correspond
  <2>2. Len(mails) < MaxMails => Len(mails) + 1 \in Tids
    <3>1. Len(mails) \in Nat  BY DEF TypeOK
    <3>2. QED  BY <3>1, BoundsAreNaturals DEF Tids
  <2>3. \A conv \in Tids, forward \in BOOLEAN :
          /\ Received(conv, None, {}, to, forward) \in MailType
          /\ (Named(Received(conv, None, {}, to, forward)) \cup {None}) \ {None} = {}
          /\ Received(conv, None, {}, to, forward).quote = None
    BY DEF Received, MailType, Named
  <2>4. CASE NewTopic(to)  BY <2>2, <2>3, <2>4 DEF NewTopic, WriteMail
  <2>5. CASE \E i \in Written : Forward(i, to)
    <3>1. PICK i \in Written, keep \in {FALSE, ForwardsKeepReferences} :
            WriteMail(Received(Len(mails) + 1, IF keep THEN i ELSE None,
                               IF keep THEN mails[i].refs \cup {i} ELSE {}, to, TRUE))
      BY <2>5 DEF Forward
    <3>2. keep = FALSE  BY ForwardsBoolean
    <3>3. WriteMail(Received(Len(mails) + 1, None, {}, to, TRUE))  BY <3>1, <3>2
    <3>4. QED  BY <2>2, <2>3, <3>3 DEF WriteMail
  <2>6. ASSUME NEW i \in Written, Reply(i, to)
        PROVE  <1>1!:
    <3>1. PICK refs \in {mails[i].refs \cup {i}, {}} :
            WriteMail(Received(mails[i].conv, i, refs, to, FALSE))
      BY <2>6 DEF Reply
    <3>2. /\ mails[i].conv \in Tids /\ mails[i].refs \subseteq Ids /\ i \in Ids /\ i \in Real
          /\ Topic[i] = mails[i].conv
      <4>1. mails[i] \in MailType
        <5>1. mails \in Seq(MailType)  BY DEF TypeOK
        <5>2. QED  BY <5>1 DEF Written
      <4>2. QED  BY <4>1, RealFacts DEF MailType
    <3>3. mails[i].refs \cup {i} \subseteq {j \in Real : Topic[j] = mails[i].conv}
      <4>1. mails[i].refs \subseteq About(i)  BY <3>2, RealFacts DEF AllWhole, MailsWhole, Named
      <4>2. QED  BY <4>1, <3>2 DEF About
    <3> DEFINE mail == Received(mails[i].conv, i, refs, to, FALSE)
    <3>4. /\ mail \in MailType /\ mail.conv = mails[i].conv /\ mail.quote = None
          /\ Named(mail) \subseteq refs \cup {i}
      BY <3>1, <3>2 DEF Received, MailType, Named
    <3>5. QED  BY <3>1, <3>3, <3>4 DEF WriteMail
  <2>7. QED  BY <2>1, <2>4, <2>5, <2>6
<1>2. PICK mail \in MailType :
        /\ mails' = Append(mails, mail)
        /\ (Named(mail) \cup {mail.quote}) \ {None} \subseteq {i \in Real : Topic[i] = mail.conv}
  BY <1>1
<1>3. UNCHANGED <<cache, work, send, stores>>  BY <1>1
<1>4. \A s \in Senders : send'[s] = send[s]  BY <1>3
<1>5. QED  BY <1>1, <1>2, <1>3, <1>4, MailWritten DEF AllWhole

\* A sent mail names what its room's thread named.
LEMMA SendWorksWhole ==
  ASSUME ConversationsInv, NEW s \in Senders, NEW to \in SUBSET Receivers,
         NEW fetched \in BOOLEAN, SendWorks(s, to, fetched)
  PROVE  AllWhole'
<1> USE DEF ConversationsInv
<1>1. SendWhole(s) /\ send[s].step = "send"  BY DEF AllWhole, SendWorks
<1>2. send[s].room \in Receivers \X Tids /\ send[s].room[2] \in Real
  BY <1>1 DEF SendWhole, Held, Whole
<1>3. Conv(send[s].room[2]) = Topic[send[s].room[2]] /\ Topic[send[s].room[2]] \in Tids
  BY <1>2, RealFacts
<1> DEFINE mail == [conv |-> Conv(send[s].room[2]), irt |-> send[s].irt,
                    refs |-> send[s].refs, quote |-> send[s].quote, to |-> to,
                    by |-> send[s].room[1], forward |-> FALSE]
<1>4. /\ send[s].irt \in Ids \cup {None} /\ send[s].quote \in Ids \cup {None}
      /\ send[s].refs \subseteq Ids
  BY DEF TypeOK, SendType
<1>5. mail \in MailType  BY <1>2, <1>3, <1>4 DEF MailType
<1>6. (Named(mail) \cup {mail.quote}) \ {None} \subseteq {i \in Real : Topic[i] = mail.conv}
  BY <1>1, <1>3 DEF SendWhole, Named, About
<1>7. PICK n : n = Len(mails) + 1  OBVIOUS
<1>8. /\ Len(mails) < MaxMails /\ mails' = Append(mails, mail)
      /\ UNCHANGED <<cache, work, stores>>
      /\ send' = [send EXCEPT ![s].step = "record", ![s].key = SentKey(n, fetched)]
  BY <1>7 DEF SendWorks
<1>9. PICK m \in MailType : m = mail  BY <1>5
<1>10. /\ MailsWhole' /\ CachesWhole' /\ PostedWhole' /\ SavedWhole'
       /\ \A w \in Workers : WorkWhole(w)'
       /\ \A q \in Senders : send'[q] = send[q] => SendWhole(q)'
  BY <1>6, <1>8, <1>9, MailWritten
<1>11. /\ Real \subseteq Real' /\ \A i \in Real : Topic'[i] = Topic[i]
       /\ SentKey(n, fetched) \in Real' /\ Topic'[SentKey(n, fetched)] = m.conv
  BY <1>7, <1>8, <1>9, MailAdded DEF SentKey
<1>12. SendWhole(s)'
  <2>1. send'[s] = [send[s] EXCEPT !.step = "record", !.key = SentKey(n, fetched)]
    BY <1>8 DEF TypeOK
  <2>2. send'[s].step = "record" /\ send'[s].key = SentKey(n, fetched)
        /\ send'[s].room = send[s].room /\ send'[s].obj = send[s].obj
        /\ send'[s].irt = send[s].irt /\ send'[s].quote = send[s].quote
        /\ send'[s].refs = send[s].refs
    <3>1. send[s] \in SendType
      BY DEF TypeOK
    <3>2. QED  BY <2>1, <3>1 DEF SendType
  <2>3. About(send[s].room[2]) \subseteq {i \in Real' : Topic'[i] = Topic'[send[s].room[2]]}
    BY <1>2, <1>11 DEF About
  <2>4. SentKey(n, fetched) \in {i \in Real' : Topic'[i] = Topic'[send[s].room[2]]}
    BY <1>2, <1>3, <1>9, <1>11
  <2>5. heap' = heap /\ send[s].obj \in Objects /\ Whole(heap[send[s].obj])'
    <3>1. heap' = heap /\ send[s].obj \in Objects /\ Whole(heap[send[s].obj])
      BY <1>1, <1>8 DEF SendWhole, Held, cache
    <3>2. \A th : Whole(th) => Whole(th)'  BY <1>11, WholeStaysSo
    <3>3. PICK th : th = heap[send[s].obj]  OBVIOUS
    <3>4. Whole(th)'  BY <3>1, <3>2, <3>3
    <3>5. QED  BY <2>2, <3>1, <3>3, <3>4
  <2>6. QED  BY <1>1, <1>2, <2>2, <2>3, <2>4, <2>5 DEF SendWhole, About, Held
<1>13. \A q \in Senders \ {s} : send'[q] = send[q]  BY <1>8 DEF TypeOK
<1>14. QED  BY <1>10, <1>12, <1>13 DEF AllWhole
-----------------------------------------------------------------------------
(* Threads. *)

\* A thread rebuilt from a room's metadata is about what the room is about.
LEMMA Rehydrated ==
  ASSUME ConversationsInv, UNCHANGED mails, NEW r \in Receivers, NEW t \in Tids,
         NEW o \in Objects, Rehydrate(r, t, o)
  PROVE  Kept /\ CachesWhole' /\ HeldNext(o) /\ heap'[o].tid = t
<1>1. PICK th \in Thread : th = meta[<<r, t>>]  BY DEF ConversationsInv, TypeOK, StoreTypes
<1>2. Whole(th) /\ th.tid = t
  BY <1>1 DEF ConversationsInv, AllWhole, SavedWhole, Rehydrate
<1>3. o \in Free /\ CacheThread(r, o, th)  BY <1>1 DEF Rehydrate
<1>4. heap' = [heap EXCEPT ![o] = th]  BY <1>3 DEF CacheThread
<1>5. Kept /\ HeldNext(o) /\ heap'[o] = th  BY <1>2, <1>3, <1>4, ThreadWritten DEF ConversationsInv
<1>6. QED  BY <1>2, <1>3, <1>5, ThreadCached DEF ConversationsInv, AllWhole

LEMMA GetChatInfoWhole ==
  ASSUME ConversationsInv, NEW r \in Receivers, NEW t \in Tids, GetChatInfo(r, t)
  PROVE  AllWhole'
<1>1. PICK o \in Objects : Rehydrate(r, t, o)  BY DEF GetChatInfo
<1>2. UNCHANGED <<mails, work, send, stores>>  BY DEF GetChatInfo
<1>3. Kept /\ CachesWhole'  BY <1>1, <1>2, Rehydrated
<1>4. QED
  BY <1>2, <1>3, WorkKept, SendKept, StoresKept DEF ConversationsInv, AllWhole, stores

\* Evictions only drop entries.
LEMMA EvictWhole ==
  ASSUME ConversationsInv, NEW o \in Objects, NEW keys, Evict(o, keys)
  PROVE  AllWhole'
<1>1. UNCHANGED <<mails, heap, work, send, stores>>  BY DEF Evict
<1>2. Kept  BY <1>1, HeapKept
<1>3. /\ \A k \in Keys : known'[k] \in {known[k], NoThread}
      /\ \A i \in Ids : index'[i] \in {index[i], NoThread}
      /\ \A g \in Receivers \X Tids : gmail'[g] \in {gmail[g], NoThread}
  <2>1. DOMAIN gmail = Receivers \X Tids  BY DEF ConversationsInv, TypeOK, CacheTypes
  <2>2. QED  BY <2>1 DEF Evict
<1>4. CachesWhole'  BY <1>1, <1>2, <1>3, CachesStep DEF ConversationsInv, AllWhole
<1>5. QED
  BY <1>1, <1>2, <1>4, WorkKept, SendKept, StoresKept DEF ConversationsInv, AllWhole, stores

\* What was saved is whole, and nobody holds anything else.
LEMMA RestartWhole ==
  ASSUME ConversationsInv, Restart
  PROVE  AllWhole'
<1>1. /\ UNCHANGED <<mails, heap, posted, rows>> /\ meta' = rows
      /\ \A w \in Workers : work'[w] = IdleWork
      /\ \A s \in Senders : send'[s] = IdleSend
  BY DEF Restart
<1>2. /\ \A k \in Keys : known'[k] \in {known[k], NoThread}
      /\ \A i \in Ids : index'[i] \in {index[i], NoThread}
      /\ \A g \in Receivers \X Tids : gmail'[g] \in {gmail[g], NoThread}
  BY DEF Restart
<1>3. CachesWhole'  BY <1>1, <1>2, HeapKept, CachesStep DEF ConversationsInv, AllWhole
<1>4. SavedWhole'  BY <1>1, NoMailAdded DEF ConversationsInv, AllWhole, SavedWhole
<1>5. QED  BY <1>1, <1>3, <1>4, IdleWhole, StoresKept DEF ConversationsInv, AllWhole

\* A worker begins with nothing but its mail.
LEMMA TakeWhole ==
  ASSUME ConversationsInv, NEW w \in Workers, NEW r \in Receivers, NEW m \in Written,
         NEW again \in BOOLEAN, Take(w, r, m, again)
  PROVE  AllWhole'
<1>1. UNCHANGED <<mails, cache, send, stores>>  BY DEF Take
<1>2. Kept  BY <1>1, HeapKept DEF cache
<1>3. work' = [work EXCEPT
                 ![w] = [IdleWork EXCEPT !.step = "determine", !.receiver = r, !.mail = m]]
  BY DEF Take
<1>4. work'[w] = [IdleWork EXCEPT !.step = "determine", !.receiver = r, !.mail = m]
      /\ \A v \in Workers \ {w} : work'[v] = work[v]
  BY <1>3 DEF ConversationsInv, TypeOK
<1>5. WorkWhole(w)'  BY <1>1, <1>4, NoMailAdded DEF WorkWhole, IdleWork
<1>6. CachesWhole'  BY <1>1, <1>2, CachesKept DEF ConversationsInv, AllWhole, cache
<1>7. QED
  BY <1>1, <1>2, <1>4, <1>5, <1>6, WorkKept, SendKept, StoresKept
     DEF ConversationsInv, AllWhole, stores

\* A new thread is about its mail.
LEMMA CreateNewThreadWhole ==
  ASSUME ConversationsInv, UNCHANGED mails, NEW w \in Workers, work[w].step = "determine",
         CreateNewThread(w)
  PROVE  Kept /\ CachesWhole' /\ WorkWhole(w)' /\ \A v \in Workers \ {w} : work'[v] = work[v]
<1>1. PICK m : m = work[w].mail  OBVIOUS
<1>2. WorkWhole(w) /\ m \in Written /\ work[w].receiver \in Receivers /\ work[w].refs = {}
  BY <1>1 DEF ConversationsInv, AllWhole, WorkWhole
<1>3. /\ m \in Real /\ m \in Tids /\ m \in Ids /\ Topic[m] = mails[m].conv /\ None \notin Ids
      /\ mails[m].conv \in Tids
  BY <1>2, RealFacts DEF ConversationsInv
<1>4. mails[m].refs \subseteq Ids /\ mails[m].refs \subseteq About(m)
  <2>1. mails[m] \in MailType
    <3>1. mails \in Seq(MailType)  BY DEF ConversationsInv, TypeOK
    <3>2. QED  BY <3>1, <1>2 DEF Written
  <2>2. mails[m].refs \subseteq Ids  BY <2>1 DEF MailType
  <2>3. QED  BY <1>2, <1>3, <2>2 DEF ConversationsInv, AllWhole, MailsWhole, Named
<1>5. PICK gtid \in {None, mails[m].conv}, o \in Free :
        /\ heap' = [heap EXCEPT ![o] = [tid |-> m, mid |-> m, refs |-> mails[m].refs,
                                       draft |-> FALSE, gtid |-> gtid, last |-> m]]
        /\ known' = [known EXCEPT ![<<Legacy, m>>] = o]
        /\ work' = [work EXCEPT ![w].step = "cache", ![w].obj = o]
        /\ UNCHANGED <<index, gmail>>
  BY <1>1 DEF CreateNewThread
<1>6. PICK th : th = [tid |-> m, mid |-> m, refs |-> mails[m].refs, draft |-> FALSE,
                      gtid |-> gtid, last |-> m]
  OBVIOUS
<1>7. th \in Thread  BY <1>3, <1>4, <1>5, <1>6 DEF Thread
<1>8. m \in About(m)  BY <1>3 DEF About
<1>9. Whole(th)  BY <1>3, <1>4, <1>5, <1>6, <1>8 DEF Whole, IdsOf
<1>10. Kept /\ HeldNext(o) /\ heap'[o] = th
  BY <1>5, <1>6, <1>7, <1>9, ThreadWritten DEF ConversationsInv, Free
<1>11. \A k \in Keys : known'[k] = known[k] \/ (known'[k] = o /\ k[2] = m)
  <2>1. known \in [Keys -> Objects \cup {NoThread}]  BY DEF ConversationsInv, TypeOK, CacheTypes
  <2>2. QED  BY <1>5, <2>1
<1>12. CachesWhole'
  BY <1>5, <1>6, <1>10, <1>11, CachesStep DEF ConversationsInv, AllWhole
<1>13. /\ work'[w] = [work[w] EXCEPT !.step = "cache", !.obj = o]
       /\ \A v \in Workers \ {w} : work'[v] = work[v]
  BY <1>5 DEF ConversationsInv, TypeOK
<1>14. /\ work'[w].step = "cache" /\ work'[w].obj = o
       /\ work'[w].receiver = work[w].receiver /\ work'[w].mail = m /\ work'[w].refs = {}
  <2>1. work[w] \in WorkType
    BY DEF ConversationsInv, TypeOK
  <2>2. QED  BY <1>1, <1>2, <1>13, <2>1 DEF WorkType
<1>15. WorkWhole(w)'
  BY <1>2, <1>6, <1>8, <1>10, <1>14, NoMailAdded DEF WorkWhole, Held, HeldNext
<1>16. QED  BY <1>10, <1>12, <1>13, <1>15

\* A worker that joins a thread about what its mail is about.
LEMMA JoinWhole ==
  ASSUME ConversationsInv, UNCHANGED mails, NEW w \in Workers, NEW o \in Objects,
         NEW step \in {"add", "addCached"}, NEW refs \in SUBSET Ids,
         work[w].step = "determine", Join(w, o, step, refs), HeldNext(o),
         refs \subseteq About(heap'[o].tid), work[w].mail \in About(heap'[o].tid)
  PROVE  WorkWhole(w)' /\ \A v \in Workers \ {w} : work'[v] = work[v]
<1>1. /\ work'[w] = [work[w] EXCEPT !.step = step, !.obj = o, !.refs = refs]
      /\ \A v \in Workers \ {w} : work'[v] = work[v]
  BY DEF ConversationsInv, TypeOK, Join
<1>2. /\ work'[w].step = step /\ work'[w].obj = o /\ work'[w].refs = refs
      /\ work'[w].receiver = work[w].receiver /\ work'[w].mail = work[w].mail
  <2>1. work[w] \in WorkType
    BY DEF ConversationsInv, TypeOK
  <2>2. QED  BY <1>1, <2>1 DEF WorkType
<1>3. work[w].receiver \in Receivers /\ work[w].mail \in Written
  BY DEF ConversationsInv, AllWhole, WorkWhole
<1>4. WorkWhole(w)'
  BY <1>2, <1>3, NoMailAdded DEF WorkWhole, Held, HeldNext
<1>5. QED  BY <1>1, <1>4

\* The thread of the room the resolver names, or an empty one for it.
LEMMA JoinResolvedWhole ==
  ASSUME ConversationsInv, UNCHANGED mails, NEW w \in Workers, work[w].step = "determine",
         NEW i \in Named(mails[work[w].mail]), NEW t \in ResolveThreadID(work[w].receiver, i),
         JoinResolved(w, t)
  PROVE  Kept /\ CachesWhole' /\ WorkWhole(w)' /\ \A v \in Workers \ {w} : work'[v] = work[v]
<1>1. PICK m, r : m = work[w].mail /\ r = work[w].receiver  OBVIOUS
<1>2. m \in Written /\ r \in Receivers
  BY <1>1 DEF ConversationsInv, AllWhole, WorkWhole
<1>3. t \in Tids /\ \E q \in Receivers : <<q, t, i>> \in posted
  BY <1>1, <1>2 DEF ResolveThreadID
<1>4. t \in Real /\ i \in About(t)
  BY <1>3 DEF ConversationsInv, AllWhole, PostedWhole
<1>5. i \in About(m) /\ m \in Real
  BY <1>1, <1>2, RealFacts DEF ConversationsInv, AllWhole, MailsWhole, Named
<1>6. m \in About(t)  BY <1>4, <1>5 DEF About
<1>7. CASE Cached(r, t) # NoThread
  <2>1. PICK o : o = Cached(r, t)  OBVIOUS
  <2>2. Held(o) /\ heap[o].tid = t
    <3>1. <<r, t>> \in Keys /\ <<Legacy, t>> \in Keys  BY <1>2, <1>3 DEF Keys
    <3>2. QED  BY <1>7, <2>1, <3>1 DEF Cached, ConversationsInv, AllWhole, CachesWhole
  <2>3. Join(w, o, "addCached", heap[o].refs) /\ UNCHANGED cache
    BY <1>1, <1>7, <2>1 DEF JoinResolved
  <2>4. PICK refs : refs = heap[o].refs  OBVIOUS
  <2>5. refs \in SUBSET Ids /\ refs \subseteq About(t)
    <3>1. heap[o] \in Thread  BY <2>2 DEF ConversationsInv, TypeOK, CacheTypes, Held
    <3>2. heap[o].refs \subseteq Ids  BY <3>1 DEF Thread
    <3>3. None \notin Ids  BY RealFacts DEF ConversationsInv
    <3>4. QED  BY <2>2, <2>4, <3>2, <3>3 DEF Held, Whole, IdsOf
  <2>6. Kept /\ CachesWhole'
    BY <2>3, HeapKept, CachesKept DEF cache, ConversationsInv, AllWhole
  <2>7. o \in Objects /\ HeldNext(o) /\ heap'[o].tid = t
    BY <2>2, <2>3 DEF cache, Held, HeldNext
  <2>8. QED  BY <1>1, <1>6, <2>3, <2>4, <2>5, <2>6, <2>7, JoinWhole
<1>8. CASE Cached(r, t) = NoThread
  <2>1. PICK n \in Free : /\ heap' = [heap EXCEPT ![n] = NewThread(t)]
                          /\ Join(w, n, "addCached", {})
                          /\ UNCHANGED <<known, index, gmail>>
    BY <1>1, <1>8 DEF JoinResolved
  <2>2. PICK th : th = NewThread(t)  OBVIOUS
  <2>3. t \in Ids  BY <1>3, RealFacts DEF ConversationsInv
  <2>4. th \in Thread  BY <1>3, <2>2, <2>3 DEF Thread, NewThread
  <2>5. Whole(th) /\ th.tid = t
    BY <1>4, <2>2 DEF Whole, NewThread, IdsOf, About
  <2>6. Kept /\ HeldNext(n) /\ heap'[n] = th
    BY <2>1, <2>2, <2>4, <2>5, ThreadWritten DEF ConversationsInv, Free
  <2>7. CachesWhole'  BY <2>1, <2>6, CachesKept DEF ConversationsInv, AllWhole
  <2>8. QED  BY <1>1, <1>6, <2>1, <2>5, <2>6, <2>7, JoinWhole DEF Free
<1>9. QED  BY <1>7, <1>8

\* The threads the maps lead to are about what the mail is about.
LEMMA IndexedWhole ==
  ASSUME ConversationsInv, NEW m \in Written, NEW r \in Receivers, NEW o \in Indexed(r, mails[m])
  PROVE  Held(o) /\ m \in About(heap[o].tid)
<1>1. m \in Real /\ Topic[m] = mails[m].conv /\ mails[m].conv \in Tids
  BY RealFacts DEF ConversationsInv
<1>2. CASE o \in FoundByHeaders(mails[m])
  <2>1. PICK i \in Named(mails[m]) : o = index[i] /\ o # NoThread
    <3>1. None \notin mails[m].refs
      <4>1. mails \in Seq(MailType)  BY DEF ConversationsInv, TypeOK
      <4>2. mails[m] \in MailType  BY <4>1 DEF Written
      <4>3. mails[m].refs \subseteq Ids  BY <4>2 DEF MailType
      <4>4. QED  BY <4>3, RealFacts DEF ConversationsInv
    <3>2. QED  BY <1>2, <3>1 DEF FoundByHeaders, Named
  <2>2. i \in About(m) /\ i \in Ids
    BY RealFacts DEF ConversationsInv, AllWhole, MailsWhole, Named, About
  <2>3. Held(o) /\ i \in About(heap[o].tid)
    BY <2>1, <2>2 DEF ConversationsInv, AllWhole, CachesWhole
  <2>4. QED  BY <1>1, <2>2, <2>3 DEF About
<1>3. CASE o \in FoundByGmailThread(r, mails[m])
  <2>1. o = gmail[<<r, mails[m].conv>>] /\ o # NoThread  BY <1>3 DEF FoundByGmailThread
  <2>2. Held(o) /\ mails[m].conv = Topic[heap[o].tid]
    BY <1>1, <2>1 DEF ConversationsInv, AllWhole, CachesWhole
  <2>3. QED  BY <1>1, <2>2 DEF About
<1>4. QED  BY <1>2, <1>3 DEF Indexed

LEMMA DetermineThreadWhole ==
  ASSUME ConversationsInv, NEW w \in Workers, DetermineThread(w)
  PROVE  AllWhole'
<1>1. work[w].step = "determine" /\ UNCHANGED <<mails, send, stores>>  BY DEF DetermineThread
<1>2. PICK m, r : m = work[w].mail /\ r = work[w].receiver  OBVIOUS
<1>3. m \in Written /\ r \in Receivers
  BY <1>1, <1>2 DEF ConversationsInv, AllWhole, WorkWhole
<1> DEFINE Goal == /\ Kept /\ CachesWhole' /\ WorkWhole(w)'
                   /\ \A v \in Workers \ {w} : work'[v] = work[v]
<1>4. ASSUME CreateNewThread(w)  PROVE Goal
  BY <1>1, <1>4, CreateNewThreadWhole
<1>5. ASSUME NEW i \in Named(mails[m]), NEW t \in ResolveThreadID(r, i), JoinResolved(w, t)
      PROVE  Goal
  BY <1>1, <1>2, <1>5, JoinResolvedWhole
<1>6. ASSUME NEW o \in Indexed(r, mails[m]), Join(w, o, "add", heap[o].refs), UNCHANGED cache
      PROVE  Goal
  <2>1. Held(o) /\ m \in About(heap[o].tid)  BY <1>3, IndexedWhole
  <2>2. PICK refs : refs = heap[o].refs  OBVIOUS
  <2>3. refs \in SUBSET Ids /\ refs \subseteq About(heap[o].tid)
    <3>1. heap[o] \in Thread  BY <2>1 DEF ConversationsInv, TypeOK, CacheTypes, Held
    <3>2. heap[o].refs \subseteq Ids  BY <3>1 DEF Thread
    <3>3. None \notin Ids  BY RealFacts DEF ConversationsInv
    <3>4. QED  BY <2>1, <2>2, <3>2, <3>3 DEF Held, Whole, IdsOf
  <2>4. Kept /\ CachesWhole'
    BY <1>1, <1>6, HeapKept, CachesKept DEF cache, ConversationsInv, AllWhole
  <2>5. o \in Objects /\ HeldNext(o) /\ heap' = heap
    BY <1>6, <2>1 DEF cache, Held, HeldNext
  <2>6. QED  BY <1>1, <1>2, <1>6, <2>1, <2>2, <2>3, <2>4, <2>5, JoinWhole
<1>7. Goal  BY <1>2, <1>4, <1>5, <1>6 DEF DetermineThread
<1>8. QED
  BY <1>1, <1>7, WorkKept, SendKept, StoresKept DEF ConversationsInv, AllWhole, stores

\* A mail added to a thread is about what the thread is about.
LEMMA CacheAndPostWhole ==
  ASSUME ConversationsInv, NEW w \in Workers, NEW done \in BOOLEAN, CacheAndPost(w, done)
  PROVE  AllWhole'
<1>1. /\ UNCHANGED <<mails, send, composed, meta, rows, dedup>>
      /\ work[w].step \in {"add", "addCached", "cache"}
  BY DEF CacheAndPost
<1>2. PICK m, r, o : m = work[w].mail /\ r = work[w].receiver /\ o = work[w].obj  OBVIOUS
<1>3. /\ m \in Written /\ r \in Receivers /\ Held(o)
      /\ {m} \cup work[w].refs \subseteq About(heap[o].tid)
  BY <1>1, <1>2 DEF ConversationsInv, AllWhole, WorkWhole
<1>4. /\ m \in Real /\ m \in Ids /\ Topic[m] = mails[m].conv /\ mails[m].conv \in Tids
      /\ None \notin Ids
  BY <1>3, RealFacts DEF ConversationsInv
<1>5. heap[o] \in Thread /\ Whole(heap[o])  BY <1>3 DEF ConversationsInv, TypeOK, CacheTypes, Held
<1>6. work[w].refs \subseteq Ids
  <2>1. work[w] \in WorkType
    BY DEF ConversationsInv, TypeOK
  <2>2. QED  BY <2>1 DEF WorkType
<1>7. PICK th : th = Added(w)  OBVIOUS
<1>8. th \in Thread /\ th.tid = heap[o].tid /\ Whole(th)
  <2>1. CASE work[w].step = "cache"  BY <1>2, <1>5, <1>7, <2>1 DEF Added
  <2>2. CASE work[w].step # "cache"
    <3>1. \E gtid \in {mails[m].conv, heap[o].gtid} :
            th = [heap[o] EXCEPT !.refs = work[w].refs \cup {m}, !.last = m, !.gtid = gtid]
      BY <1>2, <1>7, <2>2 DEF Added
    <3>2. PICK gtid \in {mails[m].conv, heap[o].gtid} :
            th = [heap[o] EXCEPT !.refs = work[w].refs \cup {m}, !.last = m, !.gtid = gtid]
      BY <3>1
    <3>3. /\ th \in Thread /\ th.tid = heap[o].tid /\ th.mid = heap[o].mid
          /\ th.refs = work[w].refs \cup {m} /\ th.last = m /\ th.gtid = gtid
      BY <1>4, <1>5, <1>6, <3>2 DEF Thread
    <3>4. mails[m].conv = Topic[th.tid]  BY <1>3, <1>4, <3>3 DEF About
    <3>5. gtid # None => gtid = Topic[th.tid]  BY <1>5, <3>3, <3>4 DEF Whole
    <3>6. QED  BY <1>3, <1>5, <3>3, <3>5 DEF Whole, IdsOf
  <2>3. QED  BY <2>1, <2>2
<1>9. /\ CacheThread(r, o, th)
      /\ posted' = posted \/ posted' = posted \cup {<<r, th.tid, m>>}
      /\ work' = [work EXCEPT ![w] = IdleWork]
  BY <1>2, <1>7 DEF CacheAndPost
<1>10. heap' = [heap EXCEPT ![o] = th] /\ o \in Objects  BY <1>3, <1>9 DEF CacheThread, Held
<1>11. Kept /\ HeldNext(o) /\ heap'[o] = th
  BY <1>1, <1>8, <1>10, ThreadWritten DEF ConversationsInv
<1>12. CachesWhole'
  BY <1>1, <1>3, <1>8, <1>9, <1>10, <1>11, ThreadCached DEF ConversationsInv, AllWhole
<1>13. work'[w] = IdleWork /\ \A v \in Workers \ {w} : work'[v] = work[v]
  BY <1>9 DEF ConversationsInv, TypeOK
<1>14. PostedWhole'
  <2>1. th.tid \in Real /\ m \in About(th.tid)  BY <1>3, <1>8 DEF Whole
  <2>2. QED
    BY <1>1, <1>9, <2>1, NoMailAdded DEF ConversationsInv, AllWhole, PostedWhole
<1>15. QED
  BY <1>1, <1>11, <1>12, <1>13, <1>14, IdleWhole, WorkKept, SendKept, StoresKept
     DEF ConversationsInv, AllWhole
-----------------------------------------------------------------------------
(* Compose and send. *)

\* A draft is about itself.
LEMMA ComposeWhole ==
  ASSUME ConversationsInv, NEW r \in Receivers, NEW d \in Drafts, Compose(r, d)
  PROVE  AllWhole'
<1>1. UNCHANGED <<mails, work, send, posted, dedup>>  BY DEF Compose
<1>2. d \in Real /\ d \in Tids /\ d \in Ids  BY RealFacts DEF ConversationsInv
<1>3. PICK th : th = [NewThread(d) EXCEPT !.draft = TRUE]  OBVIOUS
<1>4. th \in Thread /\ th.tid = d /\ Whole(th)
  BY <1>2, <1>3 DEF Thread, NewThread, Whole, IdsOf, About
<1>5. PICK o \in Free : CacheThread(r, o, th)  BY <1>3 DEF Compose
<1>6. heap' = [heap EXCEPT ![o] = th] /\ o \in Objects  BY <1>5 DEF CacheThread, Free
<1>7. Kept /\ HeldNext(o) /\ heap'[o] = th
  BY <1>1, <1>4, <1>5, <1>6, ThreadWritten DEF ConversationsInv
<1>8. CachesWhole'
  BY <1>1, <1>4, <1>5, <1>6, <1>7, ThreadCached DEF ConversationsInv, AllWhole
<1>9. SavedWhole'
  <2>1. /\ meta' = meta \/ meta' = [meta EXCEPT ![<<r, d>>] = th]
        /\ rows' = [rows EXCEPT ![<<r, d>>] = meta'[<<r, d>>]]
    BY <1>3 DEF Compose, SaveDraft
  <2>2. DOMAIN meta = Receivers \X Tids /\ DOMAIN rows = Receivers \X Tids
    BY DEF ConversationsInv, TypeOK, StoreTypes
  <2>3. \A k \in Receivers \X Tids :
          /\ meta'[k] = meta[k] \/ meta'[k] = th
          /\ rows'[k] = rows[k] \/ (rows'[k] = meta'[k] /\ k = <<r, d>>)
    BY <2>1, <2>2
  <2>4. \A k \in Receivers \X Tids : meta'[k].tid = k[2] => Whole(meta'[k])
    BY <1>4, <2>3 DEF ConversationsInv, AllWhole, SavedWhole
  <2>5. \A k \in Receivers \X Tids : rows'[k].tid = k[2] => Whole(rows'[k])
    BY <2>3, <2>4 DEF ConversationsInv, AllWhole, SavedWhole
  <2>6. QED  BY <1>1, <2>4, <2>5, NoMailAdded DEF SavedWhole
<1>10. QED
  BY <1>1, <1>7, <1>8, <1>9, WorkKept, SendKept, StoresKept DEF ConversationsInv, AllWhole

\* What a reply names is what the thread names, or a message of the room.
LEMMA WriteWhole ==
  ASSUME ConversationsInv, NEW s \in Senders, NEW r \in Receivers, NEW t \in Tids, Write(s, r, t)
  PROVE  AllWhole'
<1>1. UNCHANGED <<mails, work, stores>>  BY DEF Write
<1>2. PICK o \in Objects, i \in {None} \cup ReplyTargets(r, t) :
        /\ \/ o = Cached(r, t) /\ UNCHANGED cache
           \/ Rehydrate(r, t, o)
        /\ LET th == heap'[o]
               chain == ReplyChain(th, i)
           IN send' = [send EXCEPT ![s] = [step |-> "send", room |-> <<r, t>>, obj |-> o,
                                           draft |-> th.draft, irt |-> chain.irt,
                                           refs |-> chain.refs, quote |-> th.last, key |-> None]]
  BY DEF Write
<1>3. Kept /\ CachesWhole' /\ HeldNext(o) /\ heap'[o].tid = t
  <2>1. CASE o = Cached(r, t) /\ UNCHANGED cache
    <3>1. Kept /\ CachesWhole'
      BY <1>1, <2>1, HeapKept, CachesKept DEF cache, ConversationsInv, AllWhole
    <3>2. <<r, t>> \in Keys /\ <<Legacy, t>> \in Keys /\ o # NoThread
      BY NilIsNoThread DEF Keys, NoThread
    <3>3. Held(o) /\ heap[o].tid = t
      BY <2>1, <3>2 DEF Cached, ConversationsInv, AllWhole, CachesWhole
    <3>4. QED  BY <2>1, <3>1, <3>3 DEF cache, Held, HeldNext
  <2>2. CASE Rehydrate(r, t, o)  BY <1>1, <2>2, Rehydrated
  <2>3. QED  BY <1>2, <2>1, <2>2
<1>4. PICK th : th = heap'[o]  OBVIOUS
<1>5. Whole(th) /\ th.tid = t  BY <1>3, <1>4 DEF HeldNext
<1>6. {i} \ {None} \subseteq About(t)
  BY DEF ReplyTargets, ConversationsInv, AllWhole, PostedWhole
<1>7. ({ReplyChain(th, i).irt, th.last} \cup ReplyChain(th, i).refs) \ {None} \subseteq About(t)
  BY <1>5, <1>6 DEF ReplyChain, Whole, IdsOf
<1>8. /\ send'[s] = [step |-> "send", room |-> <<r, t>>, obj |-> o,
                     draft |-> th.draft, irt |-> ReplyChain(th, i).irt,
                     refs |-> ReplyChain(th, i).refs, quote |-> th.last, key |-> None]
      /\ \A q \in Senders \ {s} : send'[q] = send[q]
  BY <1>2, <1>4 DEF ConversationsInv, TypeOK
<1>9. SendWhole(s)'
  <2>1. /\ send'[s].step = "send" /\ send'[s].room = <<r, t>> /\ send'[s].obj = o
        /\ send'[s].irt = ReplyChain(th, i).irt /\ send'[s].quote = th.last
        /\ send'[s].refs = ReplyChain(th, i).refs
    BY <1>8
  <2>2. QED  BY <1>1, <1>3, <1>7, <2>1, NoMailAdded DEF SendWhole, Held, HeldNext
<1>10. QED
  BY <1>1, <1>3, <1>8, <1>9, WorkKept, SendKept, StoresKept DEF ConversationsInv, AllWhole, stores

LEMMA SendFailsWhole ==
  ASSUME ConversationsInv, NEW s \in Senders, SendFails(s)
  PROVE  AllWhole'
<1>1. UNCHANGED <<mails, cache, work, stores>> /\ send' = [send EXCEPT ![s] = IdleSend]
  BY DEF SendFails
<1>2. send'[s] = IdleSend /\ \A q \in Senders \ {s} : send'[q] = send[q]
  BY <1>1 DEF ConversationsInv, TypeOK
<1>3. Kept /\ CachesWhole'
  BY <1>1, HeapKept, CachesKept DEF cache, ConversationsInv, AllWhole
<1>4. QED
  BY <1>1, <1>2, <1>3, IdleWhole, WorkKept, SendKept, StoresKept
     DEF ConversationsInv, AllWhole, stores

LEMMA RecordWhole ==
  ASSUME ConversationsInv, NEW s \in Senders, NEW done \in BOOLEAN, Record(s, done)
  PROVE  AllWhole'
<1>1. /\ UNCHANGED <<mails, cache, work, posted, composed, meta, rows>>
      /\ send[s].step = "record" /\ send' = [send EXCEPT ![s].step = "finish"]
  BY DEF Record
<1>2. /\ send'[s] = [send[s] EXCEPT !.step = "finish"]
      /\ \A q \in Senders \ {s} : send'[q] = send[q]
  BY <1>1 DEF ConversationsInv, TypeOK
<1>3. /\ send'[s].step = "finish" /\ send'[s].room = send[s].room /\ send'[s].obj = send[s].obj
      /\ send'[s].irt = send[s].irt /\ send'[s].quote = send[s].quote
      /\ send'[s].refs = send[s].refs /\ send'[s].key = send[s].key
  <2>1. send[s] \in SendType
    BY DEF ConversationsInv, TypeOK
  <2>2. QED  BY <1>2, <2>1 DEF SendType
<1>4. Kept /\ CachesWhole'
  BY <1>1, HeapKept, CachesKept DEF cache, ConversationsInv, AllWhole
<1>5. SendWhole(s)'
  BY <1>1, <1>3, NoMailAdded DEF SendWhole, Held, ConversationsInv, AllWhole, cache
<1>6. QED
  BY <1>1, <1>2, <1>4, <1>5, WorkKept, SendKept, StoresKept DEF ConversationsInv, AllWhole

\* The thread of a room after a send, and what is saved and shown of it.
LEMMA FinishWhole ==
  ASSUME ConversationsInv, NEW s \in Senders, NEW saved \in BOOLEAN, Finish(s, saved)
  PROVE  AllWhole'
<1>1. UNCHANGED <<mails, work, composed, dedup>> /\ send[s].step = "finish"  BY DEF Finish
<1>2. PICK room, o, key : room = send[s].room /\ o = send[s].obj /\ key = send[s].key  OBVIOUS
<1>3. /\ room \in Receivers \X Tids /\ Held(o) /\ heap[o].tid = room[2] /\ key \in About(room[2])
  BY <1>1, <1>2 DEF ConversationsInv, AllWhole, SendWhole
<1>4. key \in Ids /\ None \notin Ids  BY <1>3, RealFacts DEF About, ConversationsInv
<1>5. heap[o] \in Thread /\ Whole(heap[o])  BY <1>3 DEF ConversationsInv, TypeOK, CacheTypes, Held
<1>6. PICK th : th = SentThread(heap[o], key, send[s].draft)  OBVIOUS
<1>7. /\ th.tid = heap[o].tid /\ th.mid = key /\ th.refs = heap[o].refs \cup {key}
      /\ th.gtid = heap[o].gtid /\ th.last = heap[o].last /\ th \in Thread
  BY <1>4, <1>5, <1>6 DEF SentThread, Thread
<1>8. Whole(th)  BY <1>3, <1>5, <1>7 DEF Whole, IdsOf
<1>9. /\ CacheThread(room[1], o, th)
      /\ meta' = [meta EXCEPT ![room] = th]
      /\ rows' = rows \/ rows' = [rows EXCEPT ![room] = th]
      /\ posted' = posted \cup {<<room[1], room[2], key>>}
      /\ send' = [send EXCEPT ![s] = IdleSend]
  BY <1>2, <1>6 DEF Finish
<1>10. heap' = [heap EXCEPT ![o] = th] /\ o \in Objects  BY <1>3, <1>9 DEF CacheThread, Held
<1>11. Kept /\ HeldNext(o) /\ heap'[o] = th
  BY <1>1, <1>7, <1>8, <1>10, ThreadWritten DEF ConversationsInv
<1>12. CachesWhole'
  <2>1. PICK r \in Receivers : r = room[1]  BY <1>3
  <2>2. QED
    BY <1>1, <1>7, <1>9, <1>10, <1>11, <2>1, ThreadCached DEF ConversationsInv, AllWhole
<1>13. send'[s] = IdleSend /\ \A q \in Senders \ {s} : send'[q] = send[q]
  BY <1>9 DEF ConversationsInv, TypeOK
<1>14. PostedWhole'
  <2>1. room[2] \in Real  BY <1>3, <1>5 DEF Whole
  <2>2. QED
    BY <1>1, <1>3, <1>9, <2>1, NoMailAdded DEF ConversationsInv, AllWhole, PostedWhole
<1>15. SavedWhole'
  <2>1. DOMAIN meta = Receivers \X Tids /\ DOMAIN rows = Receivers \X Tids
    BY DEF ConversationsInv, TypeOK, StoreTypes
  <2>2. \A k \in Receivers \X Tids : /\ meta'[k] = meta[k] \/ meta'[k] = th
                                     /\ rows'[k] = rows[k] \/ rows'[k] = th
    BY <1>9, <2>1
  <2>3. \A k \in Receivers \X Tids : /\ meta'[k].tid = k[2] => Whole(meta'[k])
                                     /\ rows'[k].tid = k[2] => Whole(rows'[k])
    BY <1>8, <2>2 DEF ConversationsInv, AllWhole, SavedWhole
  <2>4. QED  BY <1>1, <2>3, NoMailAdded DEF SavedWhole
<1>16. QED
  BY <1>1, <1>11, <1>12, <1>13, <1>14, <1>15, IdleWhole, WorkKept, SendKept, StoresKept
     DEF ConversationsInv, AllWhole

\* Every step keeps what belongs to one conversation together.
LEMMA WholeStep ==
  ASSUME ConversationsInv, ~ForwardsKeepReferences, [Next]_vars
  PROVE  AllWhole'
<1>1. ASSUME NEW well \in BOOLEAN, Step(well)  PROVE AllWhole'
  <2>1. ASSUME NEW w \in Workers, Process(w, well)  PROVE AllWhole'
    BY <2>1, TakeWhole, DetermineThreadWhole, CacheAndPostWhole DEF Process
  <2>2. ASSUME NEW s \in Senders, Outbound(s, well)  PROVE AllWhole'
    BY <2>2, WriteWhole, SendFailsWhole, SendWorksWhole, RecordWhole, FinishWhole DEF Outbound
  <2>3. QED
    BY <1>1, <2>1, <2>2, CorrespondWhole, ComposeWhole, GetChatInfoWhole, EvictWhole, RestartWhole
       DEF Step
<1>2. CASE UNCHANGED vars
  <2>1. UNCHANGED <<mails, known, index, gmail, heap, work, send, posted, meta, rows>>
    BY <1>2 DEF vars, cache, stores
  <2>2. QED
    BY <2>1, HeapKept, CachesKept, WorkKept, SendKept, StoresKept DEF ConversationsInv, AllWhole
<1>3. QED  BY <1>1, <1>2 DEF Next
-----------------------------------------------------------------------------
(* Types. *)

LEMMA CacheThreadTypes ==
  ASSUME TypeOK, NEW r, NEW o \in Objects, NEW th \in Thread, CacheThread(r, o, th)
  PROVE  CacheTypes'
<1>1. heap' = [heap EXCEPT ![o] = th] /\ heap' \in [Objects -> Thread]
  BY DEF TypeOK, CacheTypes, CacheThread
<1>2. known' \in [Keys -> Objects \cup {NoThread}]
  <2>1. known' = [known EXCEPT ![<<r, th.tid>>] = o]  BY DEF CacheThread
  <2>2. QED  BY <2>1 DEF TypeOK, CacheTypes
<1>3. index' \in [Ids -> Objects \cup {NoThread}]
  <2>1. index \in [Ids -> Objects \cup {NoThread}]  BY DEF TypeOK, CacheTypes
  <2>2. index' = [i \in Ids |-> IF i \in IdsOf(th) THEN o ELSE index[i]]  BY DEF CacheThread
  <2>3. QED  BY <2>1, <2>2
<1>4. gmail' \in [Receivers \X Tids -> Objects \cup {NoThread}]
  <2>1. gmail' = gmail \/ gmail' = [gmail EXCEPT ![<<r, th.gtid>>] = o]  BY DEF CacheThread
  <2>2. QED  BY <2>1 DEF TypeOK, CacheTypes
<1>5. QED  BY <1>1, <1>2, <1>3, <1>4 DEF CacheTypes

LEMMA RehydrateTypes ==
  ASSUME TypeOK, NEW r \in Receivers, NEW t \in Tids, NEW o \in Objects, Rehydrate(r, t, o)
  PROVE  CacheTypes'
<1>1. PICK th \in Thread : th = meta[<<r, t>>]  BY DEF TypeOK, StoreTypes
<1>2. CacheThread(r, o, th)  BY <1>1 DEF Rehydrate
<1>3. QED  BY <1>1, <1>2, CacheThreadTypes

\* The step of a goroutine that begins, joins or ends.
LEMMA WorkTypes ==
  ASSUME TypeOK, NEW w \in Workers, NEW k \in WorkType, work' = [work EXCEPT ![w] = k]
  PROVE  work' \in [Workers -> WorkType]
BY DEF TypeOK

LEMMA SendTypes ==
  ASSUME TypeOK, NEW s \in Senders, NEW k \in SendType, send' = [send EXCEPT ![s] = k]
  PROVE  send' \in [Senders -> SendType]
BY DEF TypeOK

\* The types but for the count of mishaps.
Typed == /\ mails \in Seq(MailType) /\ Len(mails) <= MaxMails /\ CacheTypes /\ StoreTypes
         /\ work \in [Workers -> WorkType] /\ send \in [Senders -> SendType]

LEMMA CorrespondTypes ==
  ASSUME TypeOK, Correspond
  PROVE  Typed'
<1>1. PICK to \in (SUBSET Receivers) \ {{}} :
        NewTopic(to) \/ \E i \in Written : Reply(i, to) \/ Forward(i, to)
  BY DEF Correspond
<1>2. Len(mails) < MaxMails => Len(mails) + 1 \in Tids
  <2>1. Len(mails) \in Nat  BY DEF TypeOK
  <2>2. QED  BY <2>1, BoundsAreNaturals DEF Tids
<1>3. \A conv \in Tids, irt \in Ids \cup {None}, refs \in SUBSET Ids, forward \in BOOLEAN :
        Received(conv, irt, refs, to, forward) \in MailType
  BY DEF Received, MailType
<1>4. \A i \in Written :
        mails[i].conv \in Tids /\ mails[i].refs \cup {i} \in SUBSET Ids /\ i \in Ids
  <2>1. mails \in Seq(MailType)  BY DEF TypeOK
  <2>2. \A i \in Written : mails[i] \in MailType  BY <2>1 DEF Written
  <2>3. QED  BY <2>2, RealFacts DEF MailType
<1>5. Len(mails) < MaxMails /\ UNCHANGED <<cache, work, send, stores>>
  BY <1>1 DEF NewTopic, Reply, Forward, WriteMail
<1>6. \E mail \in MailType : mails' = Append(mails, mail)
  <2>1. CASE NewTopic(to)  BY <1>2, <1>3, <1>5, <2>1 DEF NewTopic, WriteMail
  <2>2. ASSUME NEW i \in Written, Reply(i, to)  PROVE <1>6!:
    BY <1>3, <1>4, <2>2 DEF Reply, WriteMail
  <2>3. ASSUME NEW i \in Written, Forward(i, to)  PROVE <1>6!:
    <3>1. PICK keep \in {FALSE, ForwardsKeepReferences} :
            WriteMail(Received(Len(mails) + 1, IF keep THEN i ELSE None,
                               IF keep THEN mails[i].refs \cup {i} ELSE {}, to, TRUE))
      BY <2>3 DEF Forward
    <3>2. (IF keep THEN i ELSE None) \in Ids \cup {None}  BY <1>4
    <3>3. (IF keep THEN mails[i].refs \cup {i} ELSE {}) \in SUBSET Ids  BY <1>4
    <3>4. QED  BY <1>2, <1>3, <1>5, <3>1, <3>2, <3>3 DEF WriteMail
  <2>4. QED  BY <1>1, <2>1, <2>2, <2>3
<1>7. mails' \in Seq(MailType) /\ Len(mails') <= MaxMails  BY <1>5, <1>6, MailAdded
<1>8. QED  BY <1>5, <1>7 DEF TypeOK, Typed, CacheTypes, StoreTypes, cache, stores

LEMMA WorkerTypes ==
  ASSUME ConversationsInv, NEW w \in Workers, NEW well \in BOOLEAN, Process(w, well)
  PROVE  Typed'
<1> USE DEF ConversationsInv
<1>1. work[w] \in WorkType  BY DEF TypeOK
<1>2. ASSUME NEW r \in Receivers, NEW m \in Written, Take(w, r, m, ~well)  PROVE Typed'
  <2>1. m \in Ids  BY RealFacts
  <2>2. PICK k : k = [IdleWork EXCEPT !.step = "determine", !.receiver = r, !.mail = m]  OBVIOUS
  <2>3. k \in WorkType
    <3>1. k = [step |-> "determine", receiver |-> r, mail |-> m, obj |-> NoThread, refs |-> {}]
      BY <2>2 DEF IdleWork
    <3>2. QED  BY <2>1, <3>1 DEF WorkType
  <2>4. work' \in [Workers -> WorkType]  BY <1>2, <2>2, <2>3, WorkTypes DEF Take
  <2>5. UNCHANGED <<mails, cache, send, stores>>  BY <1>2 DEF Take
  <2>6. QED  BY <2>4, <2>5 DEF TypeOK, Typed, CacheTypes, StoreTypes, cache, stores
<1>3. ASSUME DetermineThread(w)  PROVE Typed'
  <2>1. UNCHANGED <<mails, send, stores>> /\ work[w].step = "determine"
    BY <1>3 DEF DetermineThread
  <2>2. PICK m, r : m = work[w].mail /\ r = work[w].receiver  OBVIOUS
  <2>3. m \in Written /\ r \in Receivers  BY <2>1, <2>2 DEF AllWhole, WorkWhole
  <2> DEFINE Goal == CacheTypes' /\ work' \in [Workers -> WorkType]
  <2>4. \A o \in Objects, step \in {"add", "addCached"}, refs \in SUBSET Ids :
          Join(w, o, step, refs) => work' \in [Workers -> WorkType]
    <3>1. ASSUME NEW o \in Objects, NEW step \in {"add", "addCached"}, NEW refs \in SUBSET Ids,
                 Join(w, o, step, refs)
          PROVE  work' \in [Workers -> WorkType]
      <4>1. work' = [work EXCEPT ![w] = [work[w] EXCEPT !.step = step, !.obj = o, !.refs = refs]]
        BY <3>1 DEF Join
      <4>2. [work[w] EXCEPT !.step = step, !.obj = o, !.refs = refs] \in WorkType
        BY <1>1 DEF WorkType
      <4>3. QED  BY <4>1, <4>2 DEF TypeOK
    <3>2. QED  BY <3>1
  <2>5. \A o \in Objects : heap[o].refs \subseteq Ids
    <3>1. \A o \in Objects : heap[o] \in Thread  BY DEF TypeOK, CacheTypes
    <3>2. QED  BY <3>1 DEF Thread
  <2>6. ASSUME CreateNewThread(w)  PROVE Goal
    <3>1. mails[m] \in MailType
      <4>1. mails \in Seq(MailType)  BY DEF TypeOK
      <4>2. QED  BY <4>1, <2>3 DEF Written
    <3>2. /\ m \in Tids /\ m \in Ids /\ mails[m].refs \subseteq Ids /\ mails[m].conv \in Tids
      BY <2>3, <3>1, RealFacts DEF MailType
    <3>3. PICK gtid \in {None, mails[m].conv}, o \in Free :
            /\ heap' = [heap EXCEPT ![o] = [tid |-> m, mid |-> m, refs |-> mails[m].refs,
                                           draft |-> FALSE, gtid |-> gtid, last |-> m]]
            /\ known' = [known EXCEPT ![<<Legacy, m>>] = o]
            /\ work' = [work EXCEPT ![w].step = "cache", ![w].obj = o]
            /\ UNCHANGED <<index, gmail>>
      BY <2>2, <2>6 DEF CreateNewThread
    <3>4. PICK th : th = [tid |-> m, mid |-> m, refs |-> mails[m].refs, draft |-> FALSE,
                          gtid |-> gtid, last |-> m]
      OBVIOUS
    <3>5. th \in Thread /\ o \in Objects  BY <3>2, <3>3, <3>4 DEF Thread, Free
    <3>6. heap' \in [Objects -> Thread] /\ known' \in [Keys -> Objects \cup {NoThread}]
      BY <3>3, <3>4, <3>5 DEF TypeOK, CacheTypes
    <3>7. CacheTypes'  BY <3>3, <3>6 DEF TypeOK, CacheTypes
    <3>8. work' = [work EXCEPT ![w] = [work[w] EXCEPT !.step = "cache", !.obj = o]]  BY <3>3
    <3>9. [work[w] EXCEPT !.step = "cache", !.obj = o] \in WorkType  BY <1>1, <3>5 DEF WorkType
    <3>10. QED  BY <3>7, <3>8, <3>9 DEF TypeOK
  <2>7. ASSUME NEW i \in Named(mails[m]), NEW t \in ResolveThreadID(r, i), JoinResolved(w, t)
        PROVE  Goal
    <3>1. t \in Tids  BY DEF ResolveThreadID
    <3>2. ASSUME NEW o \in Objects, Join(w, o, "addCached", heap[o].refs), UNCHANGED cache
          PROVE  Goal
      <4>1. PICK refs \in SUBSET Ids : refs = heap[o].refs  BY <2>5
      <4>2. QED  BY <2>4, <3>2, <4>1 DEF TypeOK, CacheTypes, cache
    <3>3. ASSUME NEW n \in Free, heap' = [heap EXCEPT ![n] = NewThread(t)],
                 Join(w, n, "addCached", {}), UNCHANGED <<known, index, gmail>>
          PROVE  Goal
      <4>1. PICK th : th = NewThread(t)  OBVIOUS
      <4>2. th \in Thread /\ n \in Objects  BY <3>1, <4>1 DEF Thread, NewThread, Free
      <4>3. CacheTypes'  BY <3>3, <4>1, <4>2 DEF TypeOK, CacheTypes
      <4>4. QED  BY <2>4, <3>3, <4>2, <4>3
    <3>4. Cached(r, t) \in Objects \cup {NoThread}
      <4>1. <<r, t>> \in Keys /\ <<Legacy, t>> \in Keys  BY <2>3, <3>1 DEF Keys
      <4>2. QED  BY <4>1 DEF Cached, TypeOK, CacheTypes
    <3>5. QED  BY <2>2, <2>7, <3>2, <3>3, <3>4 DEF JoinResolved
  <2>8. ASSUME NEW o \in Indexed(r, mails[m]), Join(w, o, "add", heap[o].refs), UNCHANGED cache
        PROVE  Goal
    <3>1. o \in Objects  BY <2>3, IndexedWhole DEF Held
    <3>2. PICK refs \in SUBSET Ids : refs = heap[o].refs  BY <2>5, <3>1
    <3>3. QED  BY <2>4, <2>8, <3>1, <3>2 DEF TypeOK, CacheTypes, cache
  <2>9. Goal  BY <1>3, <2>2, <2>6, <2>7, <2>8 DEF DetermineThread
  <2>10. QED  BY <2>1, <2>9 DEF TypeOK, Typed, StoreTypes, stores
<1>4. ASSUME CacheAndPost(w, well)  PROVE Typed'
  <2>1. /\ UNCHANGED <<mails, send, composed, meta, rows, dedup>>
        /\ work[w].step \in {"add", "addCached", "cache"}
    BY <1>4 DEF CacheAndPost
  <2>2. PICK m, r, o : m = work[w].mail /\ r = work[w].receiver /\ o = work[w].obj  OBVIOUS
  <2>3. m \in Written /\ r \in Receivers /\ o \in Objects
    BY <2>1, <2>2 DEF AllWhole, WorkWhole, Held
  <2>4. m \in Ids /\ mails[m].conv \in Tids /\ Tids \subseteq Ids
    <3>1. mails \in Seq(MailType)  BY DEF TypeOK
    <3>2. mails[m] \in MailType  BY <2>3, <3>1 DEF Written
    <3>3. QED  BY <2>3, <3>2, RealFacts DEF MailType
  <2>5. heap[o] \in Thread /\ heap[o].tid \in Tids
    <3>1. heap[o] \in Thread  BY <2>3 DEF TypeOK, CacheTypes
    <3>2. heap[o].tid \in Real /\ None \notin Ids /\ Real \subseteq Ids
      BY <2>1, <2>2, RealFacts DEF AllWhole, WorkWhole, Held, Whole
    <3>3. QED  BY <3>1, <3>2 DEF Thread
  <2>6. PICK th : th = Added(w)  OBVIOUS
  <2>7. th \in Thread /\ th.tid = heap[o].tid
    <3>1. CASE work[w].step = "cache"  BY <2>2, <2>5, <2>6, <3>1 DEF Added
    <3>2. CASE work[w].step # "cache"
      <4>1. PICK gtid \in {mails[m].conv, heap[o].gtid} :
              th = [heap[o] EXCEPT !.refs = work[w].refs \cup {m}, !.last = m, !.gtid = gtid]
        BY <2>2, <2>6, <3>2 DEF Added
      <4>2. work[w].refs \subseteq Ids  BY <1>1 DEF WorkType
      <4>3. QED  BY <2>4, <2>5, <4>1, <4>2 DEF Thread
    <3>3. QED  BY <3>1, <3>2
  <2>8. CacheThread(r, o, th) /\ work' = [work EXCEPT ![w] = IdleWork]
        /\ (posted' = posted \/ posted' = posted \cup {<<r, th.tid, m>>})
    BY <1>4, <2>2, <2>6 DEF CacheAndPost
  <2>9. CacheTypes'  BY <2>3, <2>7, <2>8, CacheThreadTypes
  <2>10. IdleWork \in WorkType  BY DEF IdleWork, WorkType
  <2>11. work' \in [Workers -> WorkType]  BY <2>8, <2>10 DEF TypeOK
  <2>12. posted' \subseteq Receivers \X Tids \X Ids
    BY <2>3, <2>4, <2>5, <2>7, <2>8 DEF TypeOK, StoreTypes
  <2>13. QED  BY <2>1, <2>9, <2>11, <2>12 DEF TypeOK, Typed, StoreTypes
<1>5. QED  BY <1>2, <1>3, <1>4 DEF Process

LEMMA SenderTypes ==
  ASSUME ConversationsInv, NEW s \in Senders, NEW well \in BOOLEAN, Outbound(s, well)
  PROVE  Typed'
<1> USE DEF ConversationsInv
<1>1. send[s] \in SendType /\ IdleSend \in SendType
  BY DEF TypeOK, SendType, IdleSend
<1>2. ASSUME NEW r \in Receivers, NEW t \in Tids, Write(s, r, t)  PROVE Typed'
  <2>1. PICK o \in Objects, i \in {None} \cup ReplyTargets(r, t) :
          /\ \/ o = Cached(r, t) /\ UNCHANGED cache
             \/ Rehydrate(r, t, o)
          /\ LET th == heap'[o]
                 chain == ReplyChain(th, i)
             IN send' = [send EXCEPT ![s] = [step |-> "send", room |-> <<r, t>>, obj |-> o,
                                             draft |-> th.draft, irt |-> chain.irt,
                                             refs |-> chain.refs, quote |-> th.last, key |-> None]]
    BY <1>2 DEF Write
  <2>2. CacheTypes'  BY <2>1, RehydrateTypes DEF cache, TypeOK, CacheTypes
  <2>3. PICK th \in Thread : th = heap'[o]  BY <2>2 DEF CacheTypes
  <2>4. i \in Ids \cup {None}  BY DEF ReplyTargets
  <2>5. ReplyChain(th, i).irt \in Ids \cup {None} /\ ReplyChain(th, i).refs \subseteq Ids
    <3>1. th.mid \in Ids \cup {None} /\ th.refs \subseteq Ids  BY DEF Thread
    <3>2. QED  BY <2>4, <3>1 DEF ReplyChain
  <2>6. PICK k : k = [step |-> "send", room |-> <<r, t>>, obj |-> o,
                      draft |-> th.draft, irt |-> ReplyChain(th, i).irt,
                      refs |-> ReplyChain(th, i).refs, quote |-> th.last, key |-> None]
    OBVIOUS
  <2>7. k \in SendType
    <3>1. th.draft \in BOOLEAN /\ th.last \in Ids \cup {None}  BY DEF Thread
    <3>2. QED  BY <2>5, <2>6, <3>1 DEF SendType
  <2>8. send' \in [Senders -> SendType]  BY <2>1, <2>3, <2>6, <2>7, SendTypes
  <2>9. UNCHANGED <<mails, work, stores>>  BY <1>2 DEF Write
  <2>10. QED  BY <2>2, <2>8, <2>9 DEF TypeOK, Typed, StoreTypes, stores
<1>3. ASSUME SendFails(s)  PROVE Typed'
  BY <1>1, <1>3 DEF SendFails, TypeOK, Typed, CacheTypes, StoreTypes, cache, stores
<1>4. ASSUME NEW to \in SUBSET Receivers, SendWorks(s, to, well)  PROVE Typed'
  <2>1. SendWhole(s) /\ send[s].step = "send"  BY <1>4 DEF AllWhole, SendWorks
  <2>2. send[s].room \in Receivers \X Tids /\ send[s].room[2] \in Real
    BY <2>1 DEF SendWhole, Held, Whole
  <2>3. Conv(send[s].room[2]) \in Tids  BY <2>2, RealFacts
  <2>4. PICK mail : mail = [conv |-> Conv(send[s].room[2]), irt |-> send[s].irt,
                            refs |-> send[s].refs, quote |-> send[s].quote, to |-> to,
                            by |-> send[s].room[1], forward |-> FALSE]
    OBVIOUS
  <2>5. mail \in MailType
    <3>1. /\ send[s].irt \in Ids \cup {None} /\ send[s].quote \in Ids \cup {None}
          /\ send[s].refs \subseteq Ids
      BY <1>1 DEF SendType
    <3>2. QED  BY <2>2, <2>3, <2>4, <3>1 DEF MailType
  <2>6. PICK n : n = Len(mails) + 1  OBVIOUS
  <2>7. /\ Len(mails) < MaxMails /\ mails' = Append(mails, mail)
        /\ send' = [send EXCEPT ![s].step = "record", ![s].key = SentKey(n, well)]
        /\ UNCHANGED <<cache, work, stores>>
    BY <1>4, <2>4, <2>6 DEF SendWorks
  <2>8. /\ mails' \in Seq(MailType) /\ Len(mails') <= MaxMails
    BY <2>5, <2>7, MailAdded
  <2>9. SentKey(n, well) \in Ids
    <3>1. n \in 1..MaxMails
      <4>1. Len(mails) \in Nat  BY DEF TypeOK
      <4>2. QED  BY <2>6, <2>7, <4>1, BoundsAreNaturals
    <3>2. QED  BY <3>1, BoundsAreNaturals DEF SentKey, Rewritten, Ids
  <2>10. PICK k : k = [send[s] EXCEPT !.step = "record", !.key = SentKey(n, well)]  OBVIOUS
  <2>11. k \in SendType  BY <1>1, <2>9, <2>10 DEF SendType
  <2>12. send' \in [Senders -> SendType]  BY <2>7, <2>10, <2>11, SendTypes
  <2>13. QED  BY <2>7, <2>8, <2>12 DEF TypeOK, Typed, CacheTypes, StoreTypes, cache, stores
<1>5. ASSUME Record(s, well)  PROVE Typed'
  <2>1. send[s].step = "record" /\ SendWhole(s)  BY <1>5 DEF Record, AllWhole
  <2>2. send[s].room[1] \in Receivers /\ send[s].key \in Ids
    BY <2>1, RealFacts DEF SendWhole, About
  <2>3. dedup' \subseteq Receivers \X Ids  BY <1>5, <2>2 DEF Record, TypeOK, StoreTypes
  <2>4. PICK k : k = [send[s] EXCEPT !.step = "finish"]  OBVIOUS
  <2>5. k \in SendType  BY <1>1, <2>4 DEF SendType
  <2>6. send' \in [Senders -> SendType]  BY <1>5, <2>4, <2>5, SendTypes DEF Record
  <2>7. UNCHANGED <<mails, cache, work, posted, composed, meta, rows>>  BY <1>5 DEF Record
  <2>8. QED  BY <2>3, <2>6, <2>7 DEF TypeOK, Typed, CacheTypes, StoreTypes, cache
<1>6. ASSUME Finish(s, well)  PROVE Typed'
  <2>1. PICK room, o, key : room = send[s].room /\ o = send[s].obj /\ key = send[s].key  OBVIOUS
  <2>2. /\ room \in Receivers \X Tids /\ o \in Objects /\ key \in Ids
    BY <1>6, <2>1, RealFacts DEF Finish, AllWhole, SendWhole, Held, About
  <2>3. PICK th : th = SentThread(heap[o], key, send[s].draft)  OBVIOUS
  <2>4. th \in Thread
    <3>1. heap[o] \in Thread  BY <2>2 DEF TypeOK, CacheTypes
    <3>2. QED  BY <2>2, <2>3, <3>1 DEF SentThread, Thread
  <2>5. /\ CacheThread(room[1], o, th)
        /\ meta' = [meta EXCEPT ![room] = th]
        /\ rows' = rows \/ rows' = [rows EXCEPT ![room] = th]
        /\ posted' = posted \cup {<<room[1], room[2], key>>}
        /\ send' = [send EXCEPT ![s] = IdleSend]
        /\ UNCHANGED <<mails, work, composed, dedup>>
    BY <1>6, <2>1, <2>3 DEF Finish
  <2>6. CacheTypes'  BY <2>2, <2>4, <2>5, CacheThreadTypes
  <2>7. meta' \in [Receivers \X Tids -> Thread] /\ rows' \in [Receivers \X Tids -> Thread]
    BY <2>4, <2>5 DEF TypeOK, StoreTypes
  <2>8. posted' \subseteq Receivers \X Tids \X Ids
    BY <2>2, <2>5 DEF TypeOK, StoreTypes
  <2>9. send' \in [Senders -> SendType]  BY <1>1, <2>5 DEF TypeOK
  <2>10. QED  BY <2>5, <2>6, <2>7, <2>8, <2>9 DEF TypeOK, Typed, StoreTypes
<1>7. QED  BY <1>2, <1>3, <1>4, <1>5, <1>6 DEF Outbound

LEMMA ComposeTypes ==
  ASSUME TypeOK, NEW r \in Receivers, NEW d \in Drafts, Compose(r, d)
  PROVE  Typed'
<1>1. PICK th : th = [NewThread(d) EXCEPT !.draft = TRUE]  OBVIOUS
<1>2. th \in Thread  BY <1>1, RealFacts DEF Thread, NewThread
<1>3. PICK o \in Free : CacheThread(r, o, th)  BY <1>1 DEF Compose
<1>4. CacheTypes'  BY <1>2, <1>3, CacheThreadTypes DEF Free
<1>5. /\ meta' = meta \/ meta' = [meta EXCEPT ![<<r, d>>] = th]
      /\ rows' = [rows EXCEPT ![<<r, d>>] = meta'[<<r, d>>]]
  BY <1>1 DEF Compose, SaveDraft
<1>6. meta' \in [Receivers \X Tids -> Thread]  BY <1>2, <1>5 DEF TypeOK, StoreTypes
<1>7. meta'[<<r, d>>] \in Thread  BY <1>6, RealFacts
<1>8. rows' \in [Receivers \X Tids -> Thread]  BY <1>5, <1>7 DEF TypeOK, StoreTypes
<1>9. composed' \subseteq Receivers \X Drafts  BY DEF Compose, TypeOK, StoreTypes
<1>10. UNCHANGED <<mails, work, send, posted, dedup>>  BY DEF Compose
<1>11. QED  BY <1>4, <1>6, <1>8, <1>9, <1>10 DEF TypeOK, Typed, StoreTypes

\* Every step keeps the types.
LEMMA TypeStep ==
  ASSUME ConversationsInv, [Next]_vars
  PROVE  TypeOK'
<1>1. ASSUME NEW well \in BOOLEAN, Step(well)  PROVE Typed'
  <2>1. ASSUME NEW r \in Receivers, NEW t \in Tids, GetChatInfo(r, t)  PROVE Typed'
    <3>1. CacheTypes'  BY <2>1, RehydrateTypes DEF GetChatInfo, ConversationsInv
    <3>2. UNCHANGED <<mails, work, send, stores>>  BY <2>1 DEF GetChatInfo
    <3>3. QED  BY <3>1, <3>2 DEF ConversationsInv, TypeOK, Typed, StoreTypes, stores
  <2>2. ASSUME NEW o \in Objects, NEW keys, Evict(o, keys)  PROVE Typed'
    <3>1. UNCHANGED <<mails, heap, work, send, stores>>  BY <2>2 DEF Evict
    <3>2. CacheTypes'  BY <2>2 DEF Evict, ConversationsInv, TypeOK, CacheTypes
    <3>3. QED  BY <3>1, <3>2 DEF ConversationsInv, TypeOK, Typed, StoreTypes, stores
  <2>3. ASSUME Restart  PROVE Typed'
    <3>1. IdleWork \in WorkType /\ IdleSend \in SendType
      BY DEF IdleWork, WorkType, IdleSend, SendType
    <3>2. CacheTypes'  BY <2>3 DEF Restart, ConversationsInv, TypeOK, CacheTypes
    <3>3. StoreTypes'  BY <2>3 DEF Restart, ConversationsInv, TypeOK, StoreTypes
    <3>4. QED  BY <2>3, <3>1, <3>2, <3>3 DEF Restart, ConversationsInv, TypeOK, Typed
  <2>4. QED
    BY <1>1, <2>1, <2>2, <2>3, CorrespondTypes, WorkerTypes, SenderTypes, ComposeTypes
       DEF Step, ConversationsInv
<1>2. CASE UNCHANGED vars
  BY <1>2 DEF ConversationsInv, vars, cache, stores, TypeOK, CacheTypes, StoreTypes
<1>3. mishaps \in 0..MaxMishaps  BY DEF ConversationsInv, TypeOK
<1>4. CASE Step(TRUE) /\ UNCHANGED mishaps  BY <1>1, <1>3, <1>4 DEF Typed, TypeOK
<1>5. CASE mishaps < MaxMishaps /\ Step(FALSE) /\ mishaps' = mishaps + 1
  <2>1. mishaps' \in 0..MaxMishaps  BY <1>3, <1>5, BoundsAreNaturals
  <2>2. QED  BY <1>1, <1>5, <2>1 DEF Typed, TypeOK
<1>6. QED  BY <1>2, <1>4, <1>5 DEF Next
-----------------------------------------------------------------------------
LEMMA InitiallyWhole ==
  ASSUME Init
  PROVE  ConversationsInv
<1> USE BoundsAreNaturals
<1>1. mails = <<>> /\ Written = {}  BY DEF Init, Written
<1>2. TypeOK
  <2>1. IdleWork \in WorkType /\ IdleSend \in SendType
    BY DEF IdleWork, WorkType, IdleSend, SendType
  <2>2. \A t \in Tids \cup {None} : NewThread(t) \in Thread  BY DEF NewThread, Thread
  <2>3. StoreTypes  BY <2>2 DEF Init, StoreTypes
  <2>4. 1 \in Tids  BY DEF Tids
  <2>5. CacheTypes  BY <2>2, <2>4 DEF Init, CacheTypes
  <2>6. QED  BY <1>1, <2>1, <2>3, <2>5 DEF Init, TypeOK
<1>3. MailsWhole /\ PostedWhole  BY <1>1 DEF Init, MailsWhole, PostedWhole
<1>4. CachesWhole  BY DEF Init, CachesWhole
<1>5. SavedWhole
  <2>1. \A k \in Receivers \X Tids : k[2] # None  BY DEF Tids, None
  <2>2. QED  BY <2>1 DEF Init, SavedWhole, NewThread
<1>6. /\ \A w \in Workers : WorkWhole(w)
      /\ \A s \in Senders : SendWhole(s)
  BY DEF Init, WorkWhole, SendWhole, IdleWork, IdleSend
<1>7. QED  BY <1>2, <1>3, <1>4, <1>5, <1>6 DEF ConversationsInv, AllWhole

\* ConversationsInv is an invariant as long as forwards carry no References.
THEOREM ConversationsInvariant ==
  ASSUME ~ForwardsKeepReferences
  PROVE  Spec => []ConversationsInv
<1>1. Init => ConversationsInv  BY InitiallyWhole
<1>2. ConversationsInv /\ [Next]_vars => ConversationsInv'
  BY WholeStep, TypeStep DEF ConversationsInv
<1>3. QED  BY <1>1, <1>2, PTL DEF Spec

\* Every field keeps its type.
THEOREM ConversationsTypes ==
  ASSUME ~ForwardsKeepReferences
  PROVE  Spec => []TypeOK
<1>1. ConversationsInv => TypeOK  BY DEF ConversationsInv
<1>2. QED  BY <1>1, ConversationsInvariant, PTL

\* RoomsUnmixed holds for any accounts, goroutines, thread objects and mishaps: a
\* message is shown under a thread ID of its own conversation (DetermineThread,
\* CacheForReceiver and the end of a send).
THEOREM ConversationsRooms ==
  ASSUME ~ForwardsKeepReferences
  PROVE  Spec => []RoomsUnmixed
<1>1. ConversationsInv => RoomsUnmixed
  <2>1. ASSUME ConversationsInv, NEW p \in posted  PROVE Conv(p[3]) = Conv(p[2])
    <3>1. p[2] \in Real /\ p[3] \in Real /\ Topic[p[3]] = Topic[p[2]]
      BY <2>1 DEF ConversationsInv, AllWhole, PostedWhole, About
    <3>2. QED  BY <2>1, <3>1, RealFacts DEF ConversationsInv
  <2>2. QED  BY <2>1 DEF RoomsUnmixed
<1>2. QED  BY <1>1, ConversationsInvariant, PTL

\* RepliesUnmixed holds for any of them too: what a mail written in a room answers,
\* references and quotes belongs to its conversation (handleMatrixMessageOutbound).
THEOREM ConversationsReplies ==
  ASSUME ~ForwardsKeepReferences
  PROVE  Spec => []RepliesUnmixed
<1>1. ConversationsInv => RepliesUnmixed
  <2>1. ASSUME ConversationsInv, NEW m \in Written,
               NEW i \in (Named(mails[m]) \cup {mails[m].quote}) \ {None}
        PROVE  Conv(i) = mails[m].conv
    <3>1. i \in About(m) /\ Topic[m] = mails[m].conv
      BY <2>1, RealFacts DEF ConversationsInv, AllWhole, MailsWhole
    <3>2. QED  BY <2>1, <3>1, RealFacts DEF ConversationsInv, About
  <2>2. QED  BY <2>1 DEF RepliesUnmixed
<1>2. QED  BY <1>1, ConversationsInvariant, PTL
-----------------------------------------------------------------------------
(* The first layer: threads can say what they answer. *)

\* What a mail sent from a thread may name; what a thread has of it; and whether a send
\* from it can say what it answers (a draft need not).
Headers(th) == {th.mid} \cup th.refs
Proper(th) == Headers(th) \cap Drafts = {} /\ (th.draft => th.tid \in Drafts)
Usable(th) == th.draft \/ th.mid # None \/ th.refs # {}

\* No header of any kind names a draft, which is no Message-ID.
MailsProper == \A m \in Written : Named(mails[m]) \cap Drafts = {}

\* A thread object that a map leads to is usable.
HeapProper ==
  /\ \A o \in Objects : Proper(heap[o])
  /\ \A k \in Keys : known[k] # NoThread => Usable(heap[known[k]])

\* A goroutine caches a thread only with a last Message-ID.
WorkProper(w) ==
  /\ work[w].refs \cap Drafts = {}
  /\ work[w].step = "cache" => heap[work[w].obj].mid # None

\* A draft is sent from the room of its compose thread.
SendProper(s) ==
  /\ ({send[s].irt, send[s].key} \cup send[s].refs) \cap Drafts = {}
  /\ send[s].draft => send[s].room[2] \in Drafts
  /\ Blank(s) => send[s].draft

\* What a room shows are mails.
PostedProper == \A p \in posted : p[3] \notin Drafts

\* The metadata of a room, in memory and saved, is usable once it is set.
SavedProper ==
  \A k \in Receivers \X Tids :
    /\ Proper(meta[k]) /\ (meta[k].tid = k[2] => Usable(meta[k]))
    /\ Proper(rows[k]) /\ (rows[k].tid = k[2] => Usable(rows[k]))

\* The parts together.
AllProper ==
  /\ MailsProper /\ HeapProper /\ PostedProper /\ SavedProper
  /\ \A w \in Workers : WorkProper(w)
  /\ \A s \in Senders : SendProper(s)

\* ConversationsInv, and every thread in use can say what it answers.
ThreadedInv == ConversationsInv /\ AllProper

\* A Message-ID is no draft's.
LEMMA NoDrafts ==
  /\ None \notin Drafts
  /\ \A m \in 1..MaxMails : m \notin Drafts /\ Rewritten(m) \notin Drafts
BY BoundsAreNaturals DEF Drafts, None, Rewritten

\* The mails written have numbers of mails.
LEMMA WrittenNoDraft ==
  ASSUME TypeOK
  PROVE  Written \cap Drafts = {} /\ Written \subseteq 1..MaxMails
<1>1. Len(mails) \in Nat /\ Len(mails) <= MaxMails
  <2>1. mails \in Seq(MailType) /\ Len(mails) <= MaxMails  BY DEF TypeOK
  <2>2. QED  BY <2>1
<1>2. QED  BY <1>1, BoundsAreNaturals DEF Written, Drafts

\* What CacheThread does, entry by entry.
LEMMA CachedAt ==
  ASSUME TypeOK, NEW r \in Receivers, NEW o \in Objects, NEW th \in Thread, th.tid \in Tids,
         CacheThread(r, o, th)
  PROVE  /\ heap'[o] = th /\ \A p \in Objects \ {o} : heap'[p] = heap[p]
         /\ \A k \in Keys : known'[k] = IF k = <<r, th.tid>> THEN o ELSE known[k]
         /\ \A i \in Ids : index'[i] = IF i \in IdsOf(th) THEN o ELSE index[i]
         /\ \A g \in Receivers \X Tids : gmail'[g] \in {gmail[g], o}
<1> USE DEF TypeOK, CacheTypes
<1>1. heap'[o] = th /\ \A p \in Objects \ {o} : heap'[p] = heap[p]  BY DEF CacheThread
<1>2. <<r, th.tid>> \in Keys  BY DEF Keys
<1>3. \A k \in Keys : known'[k] = IF k = <<r, th.tid>> THEN o ELSE known[k]
  BY <1>2 DEF CacheThread
<1>4. \A i \in Ids : index'[i] = IF i \in IdsOf(th) THEN o ELSE index[i]  BY DEF CacheThread
<1>5. \A g \in Receivers \X Tids : gmail'[g] \in {gmail[g], o}  BY DEF CacheThread
<1>6. QED  BY <1>1, <1>2, <1>3, <1>4, <1>5

\* Writing to a thread takes no header from it.
ProperKept ==
  /\ \A p \in Objects : Proper(heap'[p])
  /\ \A p \in Referenced \ {NoThread} :
       /\ Usable(heap[p]) => Usable(heap'[p])
       /\ heap[p].mid # None => heap'[p].mid # None

\* The objects in use are objects.
LEMMA ReferencedTypes ==
  ASSUME TypeOK
  PROVE  Referenced \subseteq Objects \cup {NoThread}
<1>1. /\ \A w \in Workers : work[w].obj \in Objects \cup {NoThread}
      /\ \A s \in Senders : send[s].obj \in Objects \cup {NoThread}
  <2>1. /\ \A w \in Workers : work[w] \in WorkType
        /\ \A s \in Senders : send[s] \in SendType
    BY DEF TypeOK
  <2>2. QED  BY <2>1 DEF WorkType, SendType
<1>2. QED  BY <1>1 DEF Referenced, TypeOK, CacheTypes

\* A thread in use is written to by one who leaves it usable.
LEMMA ProperWritten ==
  ASSUME TypeOK, HeapProper, NEW o \in Objects, NEW th, heap'[o] = th, Proper(th),
         \A p \in Objects \ {o} : heap'[p] = heap[p],
         \/ o \in Free
         \/ Usable(th) /\ (heap[o].mid # None => th.mid # None)
  PROVE  ProperKept
BY ReferencedTypes DEF ProperKept, HeapProper, Free

\* A step that writes to no thread takes none.
LEMMA ProperSame ==
  ASSUME HeapProper, UNCHANGED heap
  PROVE  ProperKept
BY DEF ProperKept, HeapProper

\* The maps lead to usable threads, when an entry is dropped or a usable one is entered.
LEMMA HeapStep ==
  ASSUME ProperKept, HeapProper,
         \A k \in Keys : known'[k] \in {known[k], NoThread} \/ Usable(heap'[known'[k]])
  PROVE  HeapProper'
<1>1. ASSUME NEW k \in Keys, known'[k] # NoThread  PROVE Usable(heap'[known'[k]])
  BY <1>1 DEF HeapProper, ProperKept, Referenced
<1>2. \A p \in Objects : Proper(heap'[p])  BY DEF ProperKept
<1>3. QED  BY <1>1, <1>2 DEF HeapProper, Proper, Usable, Headers

\* A step of others leaves a processing goroutine as it was.
LEMMA WorkProperKept ==
  ASSUME ConversationsInv, ProperKept, NEW w \in Workers, WorkProper(w), work'[w] = work[w]
  PROVE  WorkProper(w)'
<1>1. CASE work[w].step = "cache"
  <2>1. work[w].obj \in Referenced \ {NoThread}
    BY <1>1, NilIsNoThread DEF ConversationsInv, AllWhole, WorkWhole, Held, Referenced, NoThread
  <2>2. QED  BY <2>1 DEF WorkProper, ProperKept
<1>2. CASE work[w].step # "cache"  BY <1>2 DEF WorkProper
<1>3. QED  BY <1>1, <1>2

\* A step of others leaves a send as it was.
LEMMA SendProperKept ==
  ASSUME NEW s \in Senders, SendProper(s), send'[s] = send[s]
  PROVE  SendProper(s)'
BY DEF SendProper, Blank

\* Going idle takes nothing along.
LEMMA IdleProper ==
  /\ \A w \in Workers : work'[w] = IdleWork => WorkProper(w)'
  /\ \A s \in Senders : send'[s] = IdleSend => SendProper(s)'
BY NoDrafts DEF WorkProper, SendProper, Blank, IdleWork, IdleSend

\* What a step leaves alone stays as it was.
LEMMA StoresProper ==
  /\ MailsProper /\ UNCHANGED mails => MailsProper'
  /\ PostedProper /\ UNCHANGED posted => PostedProper'
  /\ SavedProper /\ UNCHANGED <<meta, rows>> => SavedProper'
BY DEF MailsProper, PostedProper, SavedProper, Named, Written, Proper, Usable, Headers

\* Each action keeps the headers in order.
LEMMA CorrespondProper ==
  ASSUME ThreadedInv, Correspond
  PROVE  AllProper'
<1> USE DEF ThreadedInv, ConversationsInv
<1>1. PICK to \in (SUBSET Receivers) \ {{}} :
        NewTopic(to) \/ \E i \in Written : Reply(i, to) \/ Forward(i, to)
  BY DEF Correspond
<1>2. UNCHANGED <<cache, work, send, stores>> /\ Len(mails) < MaxMails
  BY <1>1 DEF NewTopic, Reply, Forward, WriteMail
<1>3. \A i \in Written : mails[i].refs \cap Drafts = {} /\ i \notin Drafts
  <2>1. \A i \in Written : mails[i].refs \cap Drafts = {}
    BY NoDrafts DEF AllProper, MailsProper, Named
  <2>2. QED  BY <2>1, WrittenNoDraft
<1>4. \E mail : mails' = Append(mails, mail) /\ Named(mail) \cap Drafts = {}
  <2>1. \A conv, forward, irt, refs :
          irt \notin Drafts /\ refs \cap Drafts = {}
            => Named(Received(conv, irt, refs, to, forward)) \cap Drafts = {}
    BY DEF Named, Received
  <2>2. CASE NewTopic(to)  BY <2>1, <2>2, NoDrafts DEF NewTopic, WriteMail
  <2>3. ASSUME NEW i \in Written, Reply(i, to)  PROVE <1>4!:
    <3>1. PICK refs \in {mails[i].refs \cup {i}, {}} :
            WriteMail(Received(mails[i].conv, i, refs, to, FALSE))
      BY <2>3 DEF Reply
    <3>2. i \notin Drafts /\ refs \cap Drafts = {}  BY <1>3
    <3>3. QED  BY <2>1, <3>1, <3>2 DEF WriteMail
  <2>4. ASSUME NEW i \in Written, Forward(i, to)  PROVE <1>4!:
    <3>1. PICK keep \in {FALSE, ForwardsKeepReferences} :
            WriteMail(Received(Len(mails) + 1, IF keep THEN i ELSE None,
                               IF keep THEN mails[i].refs \cup {i} ELSE {}, to, TRUE))
      BY <2>4 DEF Forward
    <3>2. /\ (IF keep THEN i ELSE None) \notin Drafts
          /\ (IF keep THEN mails[i].refs \cup {i} ELSE {}) \cap Drafts = {}
      BY <1>3, NoDrafts
    <3>3. QED  BY <2>1, <3>1, <3>2 DEF WriteMail
  <2>5. QED  BY <1>1, <2>2, <2>3, <2>4
<1>5. PICK mail : mails' = Append(mails, mail) /\ Named(mail) \cap Drafts = {}  BY <1>4
<1>6. MailsProper'
  <2>1. mails \in Seq(MailType)  BY DEF TypeOK
  <2>2. /\ Written' = Written \cup {Len(mails) + 1} /\ mails'[Len(mails) + 1] = mail
        /\ \A m \in Written : mails'[m] = mails[m]
    BY <1>5, <2>1 DEF Written
  <2>3. QED  BY <1>5, <2>2 DEF AllProper, MailsProper, Named
<1>7. ProperKept  BY <1>2, ProperSame DEF AllProper, cache
<1>8. HeapProper'  BY <1>2, <1>7, HeapStep DEF AllProper, cache
<1>9. QED
  BY <1>2, <1>6, <1>7, <1>8, WorkProperKept, SendProperKept, StoresProper DEF AllProper, stores

\* A processing goroutine takes a mail with no thread yet.
LEMMA TakeProper ==
  ASSUME ThreadedInv, NEW w \in Workers, NEW r \in Receivers, NEW m \in Written,
         NEW again \in BOOLEAN, Take(w, r, m, again)
  PROVE  AllProper'
<1> USE DEF ThreadedInv
<1>1. UNCHANGED <<mails, cache, send, stores>>  BY DEF Take
<1>2. work'[w].step = "determine" /\ work'[w].refs = {}
      /\ \A v \in Workers \ {w} : work'[v] = work[v]
  BY DEF Take, ConversationsInv, TypeOK, IdleWork
<1>3. WorkProper(w)'  BY <1>2 DEF WorkProper
<1>4. ProperKept  BY <1>1, ProperSame DEF AllProper, cache
<1>5. HeapProper'  BY <1>1, <1>4, HeapStep DEF AllProper, cache
<1>6. QED
  BY <1>1, <1>2, <1>3, <1>4, <1>5, WorkProperKept, SendProperKept, StoresProper
     DEF AllProper, stores

\* A new thread has the mail that made it as its last.
LEMMA CreateNewThreadProper ==
  ASSUME ThreadedInv, NEW w \in Workers, work[w].step = "determine", CreateNewThread(w)
  PROVE  /\ ProperKept /\ HeapProper' /\ WorkProper(w)'
         /\ \A v \in Workers \ {w} : work'[v] = work[v]
<1> USE DEF ThreadedInv
<1>1. PICK m : m = work[w].mail  OBVIOUS
<1>2. m \in Written /\ work[w].refs = {}  BY <1>1 DEF ConversationsInv, AllWhole, WorkWhole
<1>3. PICK gtid \in {None, mails[m].conv}, o \in Free :
        /\ heap' = [heap EXCEPT ![o] = [tid |-> m, mid |-> m, refs |-> mails[m].refs,
                                       draft |-> FALSE, gtid |-> gtid, last |-> m]]
        /\ known' = [known EXCEPT ![<<Legacy, m>>] = o]
        /\ work' = [work EXCEPT ![w].step = "cache", ![w].obj = o]
        /\ UNCHANGED <<index, gmail>>
  BY <1>1 DEF CreateNewThread
<1>4. PICK th : th = [tid |-> m, mid |-> m, refs |-> mails[m].refs, draft |-> FALSE,
                      gtid |-> gtid, last |-> m]
  OBVIOUS
<1>5. m \notin Drafts /\ m # None /\ mails[m].refs \cap Drafts = {}
  BY <1>2, NoDrafts, WrittenNoDraft, RealFacts
     DEF ConversationsInv, AllProper, MailsProper, Named, None
<1>6. Proper(th) /\ Usable(th)  BY <1>4, <1>5 DEF Proper, Usable, Headers
<1>7. o \in Objects /\ heap'[o] = th /\ \A p \in Objects \ {o} : heap'[p] = heap[p]
  BY <1>3, <1>4 DEF ConversationsInv, TypeOK, CacheTypes, Free
<1>8. ProperKept  BY <1>3, <1>6, <1>7, ProperWritten DEF ConversationsInv, AllProper
<1>9. \A k \in Keys : known'[k] = known[k] \/ known'[k] = o
  BY <1>3 DEF ConversationsInv, TypeOK, CacheTypes
<1>10. HeapProper'  BY <1>6, <1>7, <1>8, <1>9, HeapStep DEF AllProper
<1>11. /\ work'[w].obj = o /\ work'[w].refs = {}
       /\ \A v \in Workers \ {w} : work'[v] = work[v]
  <2>1. work[w] \in WorkType  BY DEF ConversationsInv, TypeOK
  <2>2. work \in [Workers -> WorkType]  BY DEF ConversationsInv, TypeOK
  <2>3. QED  BY <1>2, <1>3, <2>1, <2>2 DEF WorkType
<1>12. WorkProper(w)'  BY <1>4, <1>5, <1>7, <1>11 DEF WorkProper
<1>13. QED  BY <1>8, <1>10, <1>11, <1>12

\* A goroutine that joins a thread reads its References, which are no drafts.
LEMMA JoinProper ==
  ASSUME ConversationsInv, NEW w \in Workers, NEW o, NEW step \in {"add", "addCached"},
         NEW refs, refs \cap Drafts = {}, Join(w, o, step, refs)
  PROVE  WorkProper(w)' /\ \A v \in Workers \ {w} : work'[v] = work[v]
<1>1. work \in [Workers -> WorkType] /\ work[w] \in WorkType  BY DEF ConversationsInv, TypeOK
<1>2. work'[w].step = step /\ work'[w].refs = refs /\ \A v \in Workers \ {w} : work'[v] = work[v]
  BY <1>1 DEF Join, WorkType
<1>3. QED  BY <1>2 DEF WorkProper

\* DetermineThread, in each of its four branches.
LEMMA DetermineThreadProper ==
  ASSUME ThreadedInv, NEW w \in Workers, DetermineThread(w)
  PROVE  AllProper'
<1> USE DEF ThreadedInv
<1>1. work[w].step = "determine" /\ UNCHANGED <<mails, send, stores>>  BY DEF DetermineThread
<1>2. PICK m, r : m = work[w].mail /\ r = work[w].receiver  OBVIOUS
<1>3. m \in Written /\ r \in Receivers
  BY <1>1, <1>2 DEF ConversationsInv, AllWhole, WorkWhole
<1> DEFINE Goal == /\ ProperKept /\ HeapProper' /\ WorkProper(w)'
                   /\ \A v \in Workers \ {w} : work'[v] = work[v]
<1>4. ASSUME CreateNewThread(w)  PROVE Goal
  BY <1>1, <1>4, CreateNewThreadProper
<1>5. ASSUME NEW o \in Objects, NEW step \in {"add", "addCached"}, Join(w, o, step, heap[o].refs),
             UNCHANGED cache
      PROVE  Goal
  <2>1. heap[o].refs \cap Drafts = {}  BY DEF AllProper, HeapProper, Proper, Headers
  <2>2. ProperKept  BY <1>5, ProperSame DEF AllProper, cache
  <2>3. HeapProper'  BY <1>5, <2>2, HeapStep DEF AllProper, cache
  <2>4. QED  BY <1>5, <2>1, <2>2, <2>3, JoinProper
<1>6. ASSUME NEW t, NEW o \in Free, heap' = [heap EXCEPT ![o] = NewThread(t)],
             Join(w, o, "addCached", {}), UNCHANGED <<known, index, gmail>>
      PROVE  Goal
  <2>1. PICK th : th = NewThread(t)  OBVIOUS
  <2>2. Proper(th)  BY <2>1, NoDrafts DEF Proper, Headers, NewThread
  <2>3. o \in Objects /\ heap'[o] = th /\ \A p \in Objects \ {o} : heap'[p] = heap[p]
    BY <1>6, <2>1 DEF ConversationsInv, TypeOK, CacheTypes, Free
  <2>4. ProperKept  BY <1>6, <2>2, <2>3, ProperWritten DEF ConversationsInv, AllProper
  <2>5. HeapProper'  BY <1>6, <2>4, HeapStep DEF AllProper
  <2>6. QED  BY <1>6, <2>4, <2>5, JoinProper
<1>7. ASSUME NEW i \in Named(mails[m]), NEW t \in ResolveThreadID(r, i), JoinResolved(w, t)
      PROVE  Goal
  <2>1. <<r, t>> \in Keys /\ <<Legacy, t>> \in Keys  BY <1>3 DEF Keys, ResolveThreadID
  <2>2. Cached(r, t) \in Objects \cup {NoThread}
    BY <2>1 DEF Cached, ConversationsInv, TypeOK, CacheTypes
  <2>3. QED  BY <1>2, <1>5, <1>6, <1>7, <2>2 DEF JoinResolved
<1>8. ASSUME NEW o \in Indexed(r, mails[m]), Join(w, o, "add", heap[o].refs), UNCHANGED cache
      PROVE  Goal
  <2>1. o \in Objects  BY <1>3, IndexedWhole DEF Held
  <2>2. QED  BY <1>5, <1>8, <2>1
<1>9. Goal  BY <1>2, <1>4, <1>7, <1>8 DEF DetermineThread
<1>10. QED
  BY <1>1, <1>9, WorkProperKept, SendProperKept, StoresProper DEF AllProper, stores

\* The cached thread has the mail as its last.
LEMMA CacheAndPostProper ==
  ASSUME ThreadedInv, NEW w \in Workers, NEW done \in BOOLEAN, CacheAndPost(w, done)
  PROVE  AllProper'
<1> USE DEF ThreadedInv
<1>1. /\ UNCHANGED <<mails, send, composed, meta, rows, dedup>>
      /\ work[w].step \in {"add", "addCached", "cache"}
  BY DEF CacheAndPost
<1>2. PICK m, r, o : m = work[w].mail /\ r = work[w].receiver /\ o = work[w].obj  OBVIOUS
<1>3. m \in Written /\ r \in Receivers /\ Held(o) /\ o \in Objects
  BY <1>1, <1>2 DEF ConversationsInv, AllWhole, WorkWhole, Held
<1>4. m \notin Drafts /\ work[w].refs \cap Drafts = {}
  BY <1>3, WrittenNoDraft DEF ConversationsInv, AllProper, WorkProper
<1>5. heap[o] \in Thread /\ heap[o].tid \in Tids /\ Proper(heap[o])
  <2>1. heap[o] \in Thread  BY <1>3 DEF ConversationsInv, TypeOK, CacheTypes
  <2>2. heap[o].tid \in Real /\ None \notin Ids /\ Real \subseteq Ids
    BY <1>3, RealFacts DEF Held, Whole, ConversationsInv
  <2>3. QED  BY <1>3, <2>1, <2>2 DEF Thread, AllProper, HeapProper
<1>6. PICK th : th = Added(w)  OBVIOUS
<1>7. /\ th \in Thread /\ th.tid = heap[o].tid /\ th.mid = heap[o].mid /\ Proper(th) /\ Usable(th)
  <2>1. CASE work[w].step = "cache"
    <3>1. th = heap[o]  BY <1>2, <1>6, <2>1 DEF Added
    <3>2. heap[o].mid # None  BY <1>2, <2>1 DEF AllProper, WorkProper
    <3>3. QED  BY <1>5, <3>1, <3>2 DEF Usable
  <2>2. CASE work[w].step # "cache"
    <3>1. \E gtid \in {mails[m].conv, heap[o].gtid} :
            th = [heap[o] EXCEPT !.refs = work[w].refs \cup {m}, !.last = m, !.gtid = gtid]
      BY <1>2, <1>6, <2>2 DEF Added
    <3>2. PICK gtid \in {mails[m].conv, heap[o].gtid} :
            th = [heap[o] EXCEPT !.refs = work[w].refs \cup {m}, !.last = m, !.gtid = gtid]
      BY <3>1
    <3>3. m \in Ids /\ mails[m].conv \in Tids /\ work[w].refs \subseteq Ids
      <4>1. m \in Real /\ Topic[m] = mails[m].conv /\ Topic \in [Real -> Tids] /\ Real \subseteq Ids
        BY <1>3, RealFacts DEF ConversationsInv
      <4>2. work[w] \in WorkType  BY DEF ConversationsInv, TypeOK
      <4>3. QED  BY <4>1, <4>2 DEF WorkType
    <3>4. /\ th \in Thread /\ th.tid = heap[o].tid /\ th.mid = heap[o].mid
          /\ th.draft = heap[o].draft /\ th.refs = work[w].refs \cup {m}
      BY <1>5, <3>2, <3>3 DEF Thread
    <3>5. QED  BY <1>4, <1>5, <3>4 DEF Proper, Usable, Headers
  <2>3. QED  BY <2>1, <2>2
<1>8. /\ CacheThread(r, o, th)
      /\ posted' = posted \/ posted' = posted \cup {<<r, th.tid, m>>}
      /\ work' = [work EXCEPT ![w] = IdleWork]
  BY <1>2, <1>6 DEF CacheAndPost
<1>9. /\ heap'[o] = th /\ \A p \in Objects \ {o} : heap'[p] = heap[p]
      /\ \A k \in Keys : known'[k] = known[k] \/ known'[k] = o
  BY <1>3, <1>5, <1>7, <1>8, CachedAt DEF ConversationsInv
<1>10. ProperKept  BY <1>3, <1>7, <1>9, ProperWritten DEF ConversationsInv, AllProper
<1>11. HeapProper'  BY <1>7, <1>9, <1>10, HeapStep DEF AllProper
<1>12. PostedProper'  BY <1>4, <1>8 DEF AllProper, PostedProper
<1>13. work'[w] = IdleWork /\ \A v \in Workers \ {w} : work'[v] = work[v]
  BY <1>8 DEF ConversationsInv, TypeOK
<1>14. QED
  BY <1>1, <1>10, <1>11, <1>12, <1>13, IdleProper, WorkProperKept, SendProperKept, StoresProper
     DEF AllProper

\* A room's metadata is rebuilt only once it is set, and is usable then.
LEMMA RehydratedProper ==
  ASSUME ThreadedInv, NEW r \in Receivers, NEW t \in Tids, NEW o \in Objects, Rehydrate(r, t, o)
  PROVE  /\ ProperKept /\ HeapProper'
         /\ Proper(heap'[o]) /\ Usable(heap'[o]) /\ heap'[o].tid = t
<1> USE DEF ThreadedInv
<1>1. PICK th \in Thread : th = meta[<<r, t>>]  BY DEF ConversationsInv, TypeOK, StoreTypes
<1>2. th.tid = t /\ o \in Free /\ CacheThread(r, o, th)  BY <1>1 DEF Rehydrate
<1>3. Proper(th) /\ Usable(th)  BY <1>1, <1>2 DEF AllProper, SavedProper
<1>4. /\ heap'[o] = th /\ \A p \in Objects \ {o} : heap'[p] = heap[p]
      /\ \A k \in Keys : known'[k] = known[k] \/ known'[k] = o
  BY <1>2, CachedAt DEF ConversationsInv
<1>5. ProperKept  BY <1>2, <1>3, <1>4, ProperWritten DEF ConversationsInv, AllProper
<1>6. HeapProper'  BY <1>3, <1>4, <1>5, HeapStep DEF AllProper
<1>7. QED  BY <1>2, <1>3, <1>4, <1>5, <1>6

\* The framework may ask for any room.
LEMMA GetChatInfoProper ==
  ASSUME ThreadedInv, NEW r \in Receivers, NEW t \in Tids, GetChatInfo(r, t)
  PROVE  AllProper'
<1>1. PICK o \in Objects : Rehydrate(r, t, o)  BY DEF GetChatInfo
<1>2. UNCHANGED <<mails, work, send, stores>>  BY DEF GetChatInfo
<1>3. QED
  BY <1>1, <1>2, RehydratedProper, WorkProperKept, SendProperKept, StoresProper
     DEF ThreadedInv, AllProper, stores

\* Eviction writes to no thread.
LEMMA EvictProper ==
  ASSUME ThreadedInv, NEW o \in Objects, NEW keys, Evict(o, keys)
  PROVE  AllProper'
<1> USE DEF ThreadedInv
<1>1. UNCHANGED <<mails, heap, work, send, stores>>  BY DEF Evict
<1>2. \A k \in Keys : known'[k] \in {known[k], NoThread}  BY DEF Evict
<1>3. ProperKept  BY <1>1, ProperSame DEF AllProper
<1>4. HeapProper'  BY <1>2, <1>3, HeapStep DEF AllProper
<1>5. QED
  BY <1>1, <1>3, <1>4, WorkProperKept, SendProperKept, StoresProper DEF AllProper, stores

\* What was saved is in order.
LEMMA RestartProper ==
  ASSUME ThreadedInv, Restart
  PROVE  AllProper'
<1> USE DEF ThreadedInv
<1>1. /\ UNCHANGED <<mails, heap, posted, rows>> /\ meta' = rows
      /\ \A w \in Workers : work'[w] = IdleWork
      /\ \A s \in Senders : send'[s] = IdleSend
      /\ \A k \in Keys : known'[k] = NoThread
  BY DEF Restart
<1>2. ProperKept  BY <1>1, ProperSame DEF AllProper
<1>3. HeapProper'  BY <1>1, <1>2, HeapStep DEF AllProper
<1>4. SavedProper'  BY <1>1 DEF AllProper, SavedProper, Proper, Usable, Headers
<1>5. QED  BY <1>1, <1>3, <1>4, IdleProper, StoresProper DEF AllProper

\* A compose room starts with a draft.
LEMMA ComposeProper ==
  ASSUME ThreadedInv, NEW r \in Receivers, NEW d \in Drafts, Compose(r, d)
  PROVE  AllProper'
<1> USE DEF ThreadedInv
<1>1. UNCHANGED <<mails, work, send, posted, dedup>>  BY DEF Compose
<1>2. PICK th : th = [NewThread(d) EXCEPT !.draft = TRUE]  OBVIOUS
<1>3. th \in Thread /\ th.tid = d /\ d \in Tids  BY <1>2, RealFacts DEF Thread, NewThread, ConversationsInv
<1>4. Proper(th) /\ Usable(th)  BY <1>2, NoDrafts DEF Proper, Usable, Headers, NewThread
<1>5. PICK o \in Free : CacheThread(r, o, th)  BY <1>2 DEF Compose
<1>6. /\ o \in Objects /\ heap'[o] = th /\ \A p \in Objects \ {o} : heap'[p] = heap[p]
      /\ \A k \in Keys : known'[k] = known[k] \/ known'[k] = o
  BY <1>3, <1>5, CachedAt DEF ConversationsInv, Free
<1>7. ProperKept  BY <1>4, <1>5, <1>6, ProperWritten DEF ConversationsInv, AllProper
<1>8. HeapProper'  BY <1>4, <1>6, <1>7, HeapStep DEF AllProper
<1>9. SavedProper'
  <2>1. /\ meta' = meta \/ meta' = [meta EXCEPT ![<<r, d>>] = th]
        /\ rows' = [rows EXCEPT ![<<r, d>>] = meta'[<<r, d>>]]
    BY <1>2 DEF Compose, SaveDraft
  <2>2. \A k \in Receivers \X Tids :
          /\ meta'[k] = meta[k] \/ meta'[k] = th
          /\ rows'[k] = rows[k] \/ rows'[k] = meta'[k]
    BY <2>1 DEF ConversationsInv, TypeOK, StoreTypes
  <2>3. \A k \in Receivers \X Tids : Proper(meta'[k]) /\ (meta'[k].tid = k[2] => Usable(meta'[k]))
    BY <1>4, <2>2 DEF AllProper, SavedProper
  <2>4. \A k \in Receivers \X Tids : Proper(rows'[k]) /\ (rows'[k].tid = k[2] => Usable(rows'[k]))
    BY <2>2, <2>3 DEF AllProper, SavedProper
  <2>5. QED  BY <2>3, <2>4 DEF SavedProper, Proper, Usable, Headers
<1>10. QED
  BY <1>1, <1>7, <1>8, <1>9, WorkProperKept, SendProperKept, StoresProper DEF AllProper

\* A send takes its headers from a thread the map leads to.
LEMMA WriteProper ==
  ASSUME ThreadedInv, NEW s \in Senders, NEW r \in Receivers, NEW t \in Tids, Write(s, r, t)
  PROVE  AllProper'
<1> USE DEF ThreadedInv
<1>1. UNCHANGED <<mails, work, stores>>  BY DEF Write
<1>2. PICK o \in Objects, i \in {None} \cup ReplyTargets(r, t) :
        /\ \/ o = Cached(r, t) /\ UNCHANGED cache
           \/ Rehydrate(r, t, o)
        /\ LET th == heap'[o]
               chain == ReplyChain(th, i)
           IN send' = [send EXCEPT ![s] = [step |-> "send", room |-> <<r, t>>, obj |-> o,
                                           draft |-> th.draft, irt |-> chain.irt,
                                           refs |-> chain.refs, quote |-> th.last, key |-> None]]
  BY DEF Write
<1>3. ProperKept /\ HeapProper' /\ Proper(heap'[o]) /\ Usable(heap'[o]) /\ heap'[o].tid = t
  <2>1. CASE o = Cached(r, t) /\ UNCHANGED cache
    <3>1. ProperKept  BY <2>1, ProperSame DEF AllProper, cache
    <3>2. HeapProper'  BY <2>1, <3>1, HeapStep DEF AllProper, cache
    <3>3. <<r, t>> \in Keys /\ <<Legacy, t>> \in Keys /\ o # NoThread
      BY NilIsNoThread DEF Keys, NoThread
    <3>4. Proper(heap[o]) /\ Usable(heap[o])
      BY <2>1, <3>3 DEF Cached, AllProper, HeapProper
    <3>5. heap[o].tid = t
      BY <2>1, <3>3 DEF Cached, ConversationsInv, AllWhole, CachesWhole
    <3>6. QED  BY <2>1, <3>1, <3>2, <3>4, <3>5 DEF cache
  <2>2. CASE Rehydrate(r, t, o)  BY <2>2, RehydratedProper
  <2>3. QED  BY <1>2, <2>1, <2>2
<1>4. PICK th : th = heap'[o]  OBVIOUS
<1>5. i \notin Drafts
  BY NoDrafts DEF ReplyTargets, AllProper, PostedProper
<1>6. /\ ({ReplyChain(th, i).irt, None} \cup ReplyChain(th, i).refs) \cap Drafts = {}
      /\ ReplyChain(th, i).irt = None /\ ReplyChain(th, i).refs = {} => th.draft
  <2>1. CASE th.draft  BY <2>1, NoDrafts DEF ReplyChain
  <2>2. CASE ~th.draft
    <3>1. th.mid \notin Drafts /\ th.refs \cap Drafts = {} /\ (th.mid # None \/ th.refs # {})
      BY <1>3, <1>4, <2>2 DEF Proper, Usable, Headers
    <3>2. None \notin th.refs
      <4>1. heap'[o].refs \subseteq Ids
        <5>1. CacheTypes'
          BY <1>2, RehydrateTypes DEF cache, ConversationsInv, TypeOK, CacheTypes
        <5>2. heap'[o] \in Thread  BY <5>1 DEF CacheTypes
        <5>3. QED  BY <5>2 DEF Thread
      <4>2. QED  BY <4>1, <1>4, RealFacts DEF ConversationsInv
    <3>3. QED  BY <1>5, <2>2, <3>1, <3>2, NoDrafts DEF ReplyChain
  <2>3. QED  BY <2>1, <2>2
<1>7. /\ send'[s] = [step |-> "send", room |-> <<r, t>>, obj |-> o,
                     draft |-> th.draft, irt |-> ReplyChain(th, i).irt,
                     refs |-> ReplyChain(th, i).refs, quote |-> th.last, key |-> None]
      /\ \A q \in Senders \ {s} : send'[q] = send[q]
  BY <1>2, <1>4 DEF ConversationsInv, TypeOK
<1>8. /\ send'[s].room = <<r, t>> /\ send'[s].draft = th.draft /\ send'[s].key = None
      /\ send'[s].irt = ReplyChain(th, i).irt /\ send'[s].refs = ReplyChain(th, i).refs
  BY <1>7
<1>9. th.draft => t \in Drafts  BY <1>3, <1>4 DEF Proper
<1>10. SendProper(s)'  BY <1>6, <1>8, <1>9 DEF SendProper, Blank
<1>11. QED
  BY <1>1, <1>3, <1>7, <1>10, WorkProperKept, SendProperKept, StoresProper DEF AllProper, stores

\* A send that fails takes nothing along.
LEMMA SendFailsProper ==
  ASSUME ThreadedInv, NEW s \in Senders, SendFails(s)
  PROVE  AllProper'
<1> USE DEF ThreadedInv
<1>1. UNCHANGED <<mails, cache, work, stores>>  BY DEF SendFails
<1>2. send'[s] = IdleSend /\ \A q \in Senders \ {s} : send'[q] = send[q]
  BY DEF SendFails, ConversationsInv, TypeOK
<1>3. ProperKept  BY <1>1, ProperSame DEF AllProper, cache
<1>4. HeapProper'  BY <1>1, <1>3, HeapStep DEF AllProper, cache
<1>5. QED
  BY <1>1, <1>2, <1>3, <1>4, IdleProper, WorkProperKept, SendProperKept, StoresProper
     DEF AllProper, stores

\* The mail that leaves carries the headers of its thread.
LEMMA SendWorksProper ==
  ASSUME ThreadedInv, NEW s \in Senders, NEW to \in SUBSET Receivers,
         NEW fetched \in BOOLEAN, SendWorks(s, to, fetched)
  PROVE  AllProper'
<1> USE DEF ThreadedInv
<1>1. PICK n, mail :
        /\ n = Len(mails) + 1
        /\ mail = [conv |-> Conv(send[s].room[2]), irt |-> send[s].irt,
                   refs |-> send[s].refs, quote |-> send[s].quote, to |-> to,
                   by |-> send[s].room[1], forward |-> FALSE]
  OBVIOUS
<1>2. /\ Len(mails) < MaxMails /\ mails' = Append(mails, mail)
      /\ UNCHANGED <<cache, work, stores>>
      /\ send' = [send EXCEPT ![s].step = "record", ![s].key = SentKey(n, fetched)]
  BY <1>1 DEF SendWorks
<1>3. n \in 1..MaxMails
  <2>1. Len(mails) \in Nat
    <3>1. mails \in Seq(MailType)  BY DEF ConversationsInv, TypeOK
    <3>2. QED  BY <3>1
  <2>2. QED  BY <1>1, <1>2, <2>1, BoundsAreNaturals
<1>4. SentKey(n, fetched) \notin Drafts  BY <1>3, NoDrafts DEF SentKey
<1>5. SendProper(s)  BY DEF AllProper
<1>6. MailsProper'
  <2>1. mails \in Seq(MailType)  BY DEF ConversationsInv, TypeOK
  <2>2. /\ Written' = Written \cup {n} /\ mails'[n] = mail
        /\ \A m \in Written : mails'[m] = mails[m]
    BY <1>1, <1>2, <2>1 DEF Written
  <2>3. Named(mail) \cap Drafts = {}  BY <1>1, <1>5 DEF SendProper, Named
  <2>4. QED  BY <2>2, <2>3 DEF AllProper, MailsProper, Named
<1>7. /\ send'[s].step = "record" /\ send'[s].key = SentKey(n, fetched)
      /\ send'[s].room = send[s].room /\ send'[s].draft = send[s].draft
      /\ send'[s].irt = send[s].irt /\ send'[s].refs = send[s].refs
      /\ \A q \in Senders \ {s} : send'[q] = send[q]
  <2>1. send \in [Senders -> SendType] /\ send[s] \in SendType  BY DEF ConversationsInv, TypeOK
  <2>2. QED  BY <1>2, <2>1 DEF SendType
<1>8. SendProper(s)'  BY <1>4, <1>5, <1>7 DEF SendProper, Blank
<1>9. ProperKept  BY <1>2, ProperSame DEF AllProper, cache
<1>10. HeapProper'  BY <1>2, <1>9, HeapStep DEF AllProper, cache
<1>11. QED
  BY <1>2, <1>6, <1>7, <1>8, <1>9, <1>10, WorkProperKept, SendProperKept, StoresProper
     DEF AllProper, stores

\* The dedup record is no thread.
LEMMA RecordProper ==
  ASSUME ThreadedInv, NEW s \in Senders, NEW done \in BOOLEAN, Record(s, done)
  PROVE  AllProper'
<1> USE DEF ThreadedInv
<1>1. UNCHANGED <<mails, cache, work, posted, composed, meta, rows>>  BY DEF Record
<1>2. /\ send'[s].step = "finish" /\ send'[s].key = send[s].key
      /\ send'[s].room = send[s].room /\ send'[s].draft = send[s].draft
      /\ send'[s].irt = send[s].irt /\ send'[s].refs = send[s].refs
      /\ \A q \in Senders \ {s} : send'[q] = send[q]
  <2>1. send \in [Senders -> SendType] /\ send[s] \in SendType  BY DEF ConversationsInv, TypeOK
  <2>2. QED  BY <2>1 DEF Record, SendType
<1>3. SendProper(s)'  BY <1>2 DEF AllProper, SendProper, Blank
<1>4. ProperKept  BY <1>1, ProperSame DEF AllProper, cache
<1>5. HeapProper'  BY <1>1, <1>4, HeapStep DEF AllProper, cache
<1>6. QED
  BY <1>1, <1>2, <1>3, <1>4, <1>5, WorkProperKept, SendProperKept, StoresProper DEF AllProper

\* The thread has the mail that left as its last.
LEMMA FinishProper ==
  ASSUME ThreadedInv, NEW s \in Senders, NEW saved \in BOOLEAN, Finish(s, saved)
  PROVE  AllProper'
<1> USE DEF ThreadedInv
<1>1. UNCHANGED <<mails, work, composed, dedup>> /\ send[s].step = "finish"  BY DEF Finish
<1>2. PICK room, o, key : room = send[s].room /\ o = send[s].obj /\ key = send[s].key  OBVIOUS
<1>3. /\ room \in Receivers \X Tids /\ o \in Objects /\ heap[o].tid = room[2]
      /\ key \in Ids /\ key # None
  <2>1. Held(o) /\ room \in Receivers \X Tids /\ heap[o].tid = room[2] /\ key \in About(room[2])
    BY <1>1, <1>2 DEF ConversationsInv, AllWhole, SendWhole
  <2>2. key \in Real /\ Real \subseteq Ids /\ None \notin Ids
    BY <2>1, RealFacts DEF ConversationsInv, About
  <2>3. QED  BY <2>1, <2>2 DEF Held
<1>4. key \notin Drafts  BY <1>2 DEF AllProper, SendProper
<1>5. heap[o] \in Thread /\ Proper(heap[o])
  BY <1>3 DEF ConversationsInv, TypeOK, CacheTypes, AllProper, HeapProper
<1>6. PICK th : th = SentThread(heap[o], key, send[s].draft)  OBVIOUS
<1>7. /\ th \in Thread /\ th.tid = heap[o].tid /\ th.mid = key /\ th.refs = heap[o].refs \cup {key}
      /\ th.draft => heap[o].draft
  BY <1>3, <1>5, <1>6 DEF SentThread, Thread
<1>8. Proper(th) /\ Usable(th)  BY <1>3, <1>4, <1>5, <1>7 DEF Proper, Usable, Headers
<1>9. /\ CacheThread(room[1], o, th)
      /\ meta' = [meta EXCEPT ![room] = th]
      /\ rows' = rows \/ rows' = [rows EXCEPT ![room] = th]
      /\ posted' = posted \cup {<<room[1], room[2], key>>}
      /\ send' = [send EXCEPT ![s] = IdleSend]
  BY <1>2, <1>6 DEF Finish
<1>10. /\ heap'[o] = th /\ \A p \in Objects \ {o} : heap'[p] = heap[p]
       /\ \A k \in Keys : known'[k] = known[k] \/ known'[k] = o
  <2>1. PICK r \in Receivers : r = room[1]  BY <1>3
  <2>2. th.tid \in Tids /\ CacheThread(r, o, th)  BY <1>3, <1>7, <1>9, <2>1
  <2>3. QED  BY <1>3, <1>7, <2>2, CachedAt DEF ConversationsInv
<1>11. ProperKept  BY <1>3, <1>7, <1>8, <1>10, ProperWritten DEF ConversationsInv, AllProper
<1>12. HeapProper'  BY <1>8, <1>10, <1>11, HeapStep DEF AllProper
<1>13. PostedProper'  BY <1>4, <1>9 DEF AllProper, PostedProper
<1>14. SavedProper'
  <2>1. \A k \in Receivers \X Tids : /\ meta'[k] = meta[k] \/ meta'[k] = th
                                     /\ rows'[k] = rows[k] \/ rows'[k] = th
    BY <1>9 DEF ConversationsInv, TypeOK, StoreTypes
  <2>2. \A k \in Receivers \X Tids :
          /\ Proper(meta'[k]) /\ (meta'[k].tid = k[2] => Usable(meta'[k]))
          /\ Proper(rows'[k]) /\ (rows'[k].tid = k[2] => Usable(rows'[k]))
    BY <1>8, <2>1 DEF AllProper, SavedProper
  <2>3. QED  BY <2>2 DEF SavedProper, Proper, Usable, Headers
<1>15. send'[s] = IdleSend /\ \A q \in Senders \ {s} : send'[q] = send[q]
  BY <1>9 DEF ConversationsInv, TypeOK
<1>16. QED
  BY <1>1, <1>11, <1>12, <1>13, <1>14, <1>15, IdleProper, WorkProperKept, SendProperKept,
     StoresProper DEF AllProper

\* Every step keeps the headers in order.
LEMMA ProperStep ==
  ASSUME ThreadedInv, [Next]_vars
  PROVE  AllProper'
<1>1. ASSUME NEW well \in BOOLEAN, Step(well)  PROVE AllProper'
  <2>1. ASSUME NEW w \in Workers, Process(w, well)  PROVE AllProper'
    BY <2>1, TakeProper, DetermineThreadProper, CacheAndPostProper DEF Process
  <2>2. ASSUME NEW s \in Senders, Outbound(s, well)  PROVE AllProper'
    BY <2>2, WriteProper, SendFailsProper, SendWorksProper, RecordProper, FinishProper
       DEF Outbound
  <2>3. QED
    BY <1>1, <2>1, <2>2, CorrespondProper, ComposeProper, GetChatInfoProper, EvictProper,
       RestartProper DEF Step
<1>2. CASE UNCHANGED vars
  <2>1. UNCHANGED <<mails, known, index, gmail, heap, work, send, posted, meta, rows>>
    BY <1>2 DEF vars, cache, stores
  <2>2. ProperKept  BY <2>1, ProperSame DEF ThreadedInv, AllProper
  <2>3. HeapProper'  BY <2>1, <2>2, HeapStep DEF ThreadedInv, AllProper
  <2>4. QED
    BY <2>1, <2>2, <2>3, WorkProperKept, SendProperKept, StoresProper DEF ThreadedInv, AllProper
<1>3. QED  BY <1>1, <1>2 DEF Next

\* The stores start empty.
LEMMA InitiallyProper ==
  ASSUME Init
  PROVE  AllProper
<1>1. mails = <<>> /\ Written = {}  BY DEF Init, Written
<1>2. MailsProper /\ PostedProper  BY <1>1 DEF Init, MailsProper, PostedProper
<1>3. \A t : Proper(NewThread(t))  BY NoDrafts DEF Proper, Headers, NewThread
<1>4. HeapProper
  <2>1. \A o \in Objects : heap[o] = NewThread(1)  BY DEF Init
  <2>2. \A k \in Keys : known[k] = NoThread  BY DEF Init
  <2>3. QED  BY <1>3, <2>1, <2>2 DEF HeapProper
<1>5. SavedProper
  <2>1. \A k \in Receivers \X Tids : meta[k] = NewThread(None) /\ rows[k] = NewThread(None)
    BY DEF Init
  <2>2. \A k \in Receivers \X Tids : k[2] # None
    BY BoundsAreNaturals DEF Tids, None
  <2>3. NewThread(None).tid = None  BY DEF NewThread
  <2>4. QED  BY <1>3, <2>1, <2>2, <2>3 DEF SavedProper
<1>6. \A w \in Workers : WorkProper(w)  BY DEF Init, WorkProper, IdleWork
<1>7. \A s \in Senders : SendProper(s)
  BY NoDrafts DEF Init, SendProper, Blank, IdleSend
<1>8. QED  BY <1>2, <1>4, <1>5, <1>6, <1>7 DEF AllProper

\* ThreadedInv is an invariant, for any number of mishaps.
THEOREM ThreadedInvariant ==
  ASSUME ~ForwardsKeepReferences
  PROVE  Spec => []ThreadedInv
<1>1. Init => ThreadedInv  BY InitiallyWhole, InitiallyProper DEF ThreadedInv
<1>2. ThreadedInv /\ [Next]_vars => ThreadedInv'
  BY WholeStep, TypeStep, ProperStep DEF ThreadedInv, ConversationsInv
<1>3. QED  BY <1>1, <1>2, PTL DEF Spec
-----------------------------------------------------------------------------
(* The second layer: drafts. *)

\* A compose thread without a message yet, and one somebody has composed.
Open(d) == d \in Drafts /\ \A p \in posted : p[2] # d
Begun(d) == d \in Drafts => \E r \in Receivers : <<r, d>> \in composed

\* An object is a draft as long as its thread is open, and then the one object the
\* room of the compose leads to.
DraftObject(o) ==
  /\ heap[o].draft <=> Open(heap[o].tid)
  /\ Begun(heap[o].tid)
  /\ Open(heap[o].tid) =>
       \E r \in Receivers : <<r, heap[o].tid>> \in composed /\ known[<<r, heap[o].tid>>] = o

\* ... for every object in use.
DraftObjects == \A o \in Referenced \ {NoThread} : DraftObject(o)

\* Only the room and its own ID lead to a draft.
DraftsLed ==
  /\ \A k \in Keys : known[k] # NoThread /\ Open(k[2]) => k \in composed
  /\ \A i \in Ids : index[i] # NoThread /\ Open(heap[index[i]].tid) => heap[index[i]].tid = i
  /\ \A g \in Receivers \X Tids : gmail[g] # NoThread => ~Open(heap[gmail[g]].tid)

\* No received mail joins an open thread: nothing there could have been answered.
DraftsUnjoined == \A w \in Workers : work[w].obj # NoThread => ~Open(heap[work[w].obj].tid)

\* A send from an open thread ends its draft; one that found a draft finds no mail saved.
SendDraft(s) ==
  send[s].step # "idle" =>
    /\ Open(send[s].room[2]) => send[s].draft /\ send[s].room \in composed
    /\ send[s].step = "send" /\ send[s].draft => rows[send[s].room].mid = None

\* The framework sends one message at a time from a room.
SendsAlone ==
  \A s, q \in Senders :
    send[s].step # "idle" /\ send[q].step # "idle" /\ send[s].room = send[q].room => s = q

\* A compose thread has one room, and a message only once it has that.
ComposedOnce == \A p, q \in composed : p[2] = q[2] => p = q
PostedBegun == \A p \in posted : Begun(p[2])

\* What Compose saves.
DraftThread(d) == [NewThread(d) EXCEPT !.draft = TRUE]

\* The draft in a room's metadata is the one Compose saved. In memory it is one
\* only as long as the thread is open, and an open thread names no mail.
DraftSaved(k) ==
  /\ meta[k].draft => meta[k] = DraftThread(k[2]) /\ k \in composed /\ Open(k[2])
  /\ rows[k].draft => rows[k] = DraftThread(k[2]) /\ k \in composed
  /\ meta[k].tid = k[2] \/ rows[k].tid = k[2] => Begun(k[2])
  /\ Open(k[2]) => /\ meta[k].tid = k[2] => meta[k].draft
                   /\ rows[k].tid = k[2] => rows[k].draft
                   /\ meta[k].mid = None /\ rows[k].mid = None

\* ... for every room.
DraftsSaved == \A k \in Receivers \X Tids : DraftSaved(k)

\* No draft is saved of a thread that has a message: none of its saves was lost.
NoSaveLost == \A k \in Receivers \X Tids : rows[k].draft => Open(k[2])

\* The parts together; NoSaveLost is not one of them.
AllDrafts ==
  /\ DraftObjects /\ DraftsLed /\ DraftsUnjoined
  /\ SendsAlone /\ ComposedOnce /\ PostedBegun /\ DraftsSaved
  /\ \A s \in Senders : SendDraft(s)

\* The second layer, over the first.
DraftsInv == ThreadedInv /\ AllDrafts

\* The same after the step.
OpenNext(d) == d \in Drafts /\ \A p \in posted' : p[2] # d
BegunNext(d) == d \in Drafts => \E r \in Receivers : <<r, d>> \in composed'

\* Threads are only ever closed, and none while nothing is posted.
LEMMA OpenSame ==
  /\ UNCHANGED posted => \A d : OpenNext(d) <=> Open(d)
  /\ posted \subseteq posted' => \A d : OpenNext(d) => Open(d)
  /\ composed \subseteq composed' => \A d : Begun(d) => BegunNext(d)
BY DEF Open, Begun, OpenNext, BegunNext

\* A step that writes to no thread and enters none keeps the drafts.
LEMMA DraftsKept ==
  ASSUME DraftObjects, DraftsLed, DraftsUnjoined,
         UNCHANGED <<heap, known, index, gmail, posted, composed>>,
         \A w \in Workers : \/ work'[w].obj \in {work[w].obj, NoThread}
                            \/ /\ work'[w].obj \in Referenced
                               /\ ~Open(heap[work'[w].obj].tid),
         \A s \in Senders : send'[s].obj \in Referenced \cup {NoThread}
  PROVE  DraftObjects' /\ DraftsLed' /\ DraftsUnjoined'
<1>1. \A d : OpenNext(d) <=> Open(d)  BY OpenSame
<1>2. Referenced' \subseteq Referenced \cup {NoThread}  BY DEF Referenced
<1>3. ASSUME NEW o, DraftObject(o)  PROVE DraftObject(o)'
  BY <1>3 DEF DraftObject, Open, Begun
<1>4. DraftObjects'  BY <1>2, <1>3 DEF DraftObjects
<1>5. DraftsLed'  BY DEF DraftsLed, Open
<1>6. DraftsUnjoined'  BY <1>1 DEF DraftsUnjoined, Open, OpenNext
<1>7. QED  BY <1>4, <1>5, <1>6

\* So does one that writes thread th to object o: a draft only where nothing else has
\* its ID, and closing no thread another object is of.
LEMMA DraftWritten ==
  ASSUME TypeOK, DraftObjects, DraftsLed, DraftsUnjoined,
         NEW o \in Objects, NEW th, heap'[o] = th, \A p \in Objects \ {o} : heap'[p] = heap[p],
         composed \subseteq composed', th.draft <=> OpenNext(th.tid), BegunNext(th.tid),
         \A e : OpenNext(e) => Open(e),
         \A p \in Referenced \ {NoThread, o} : Open(heap[p].tid) => OpenNext(heap[p].tid),
         \A k \in Keys : \/ known'[k] = known[k]
                         \/ known'[k] = o /\ k[2] = th.tid /\ (OpenNext(th.tid) => k \in composed'),
         \A i \in Ids : \/ index'[i] = index[i]
                        \/ index'[i] = o /\ (OpenNext(th.tid) => i = th.tid),
         \A g \in Receivers \X Tids : gmail'[g] = gmail[g] \/ (gmail'[g] = o /\ ~OpenNext(th.tid)),
         \A w \in Workers : work'[w].obj \in {work[w].obj, o, NoThread},
         \A s \in Senders : send'[s].obj \in {send[s].obj, o, NoThread},
         \/ ~OpenNext(th.tid)
         \/ /\ o \in Free /\ \A p \in Referenced \ {NoThread} : heap[p].tid # th.tid
            /\ \E r \in Receivers : <<r, th.tid>> \in composed' /\ known'[<<r, th.tid>>] = o
            /\ \A w \in Workers : work'[w].obj # o
  PROVE  DraftObjects' /\ DraftsLed' /\ DraftsUnjoined'
<1>1. Referenced' \subseteq Referenced \cup {NoThread, o}  BY DEF Referenced
<1>2. Referenced \subseteq Objects \cup {NoThread}  BY ReferencedTypes
<1>3. ASSUME NEW p \in Referenced \ {NoThread, o}
      PROVE  DraftObject(p)'
  <2>1. DraftObject(p) /\ heap'[p] = heap[p]  BY <1>2, <1>3 DEF DraftObjects
  <2>2. OpenNext(heap[p].tid) <=> Open(heap[p].tid)  OBVIOUS
  <2>3. BegunNext(heap[p].tid)  BY <2>1, OpenSame DEF DraftObject
  <2>4. ASSUME OpenNext(heap[p].tid)
        PROVE  \E r \in Receivers : <<r, heap[p].tid>> \in composed' /\ known'[<<r, heap[p].tid>>] = p
    <3>1. PICK r \in Receivers : <<r, heap[p].tid>> \in composed /\ known[<<r, heap[p].tid>>] = p
      BY <2>1, <2>2, <2>4 DEF DraftObject
    <3>2. <<r, heap[p].tid>> \in Keys
      BY <2>2, <2>4, RealFacts DEF Open, Keys
    <3>3. known'[<<r, heap[p].tid>>] = known[<<r, heap[p].tid>>]  BY <2>4, <3>2
    <3>4. QED  BY <3>1, <3>3
  <2>5. QED  BY <2>1, <2>2, <2>3, <2>4 DEF DraftObject, Open, OpenNext, Begun, BegunNext
<1>4. DraftObject(o)'  BY DEF DraftObject, Open, OpenNext, Begun, BegunNext
<1>5. DraftObjects'  BY <1>1, <1>3, <1>4 DEF DraftObjects
<1>6. DraftsLed'
  <2>1. ASSUME NEW k \in Keys, known'[k] # NoThread, OpenNext(k[2])  PROVE k \in composed'
    BY <2>1 DEF DraftsLed
  <2>2. ASSUME NEW i \in Ids, index'[i] # NoThread, OpenNext(heap'[index'[i]].tid)
        PROVE  heap'[index'[i]].tid = i
    <3>1. CASE index'[i] = o  BY <2>2, <3>1 DEF Free, Referenced
    <3>2. CASE index'[i] # o
      <4>1. index'[i] = index[i] /\ index[i] \in Referenced  BY <3>2 DEF Referenced
      <4>2. heap'[index[i]] = heap[index[i]]  BY <1>2, <2>2, <3>2, <4>1
      <4>3. QED  BY <2>2, <4>1, <4>2 DEF DraftsLed
    <3>3. QED  BY <3>1, <3>2
  <2>3. ASSUME NEW g \in Receivers \X Tids, gmail'[g] # NoThread
        PROVE  ~OpenNext(heap'[gmail'[g]].tid)
    <3>1. CASE gmail'[g] = o  BY <2>3, <3>1 DEF Free, Referenced
    <3>2. CASE gmail'[g] # o
      <4>1. gmail'[g] = gmail[g] /\ gmail[g] \in Referenced  BY <3>2 DEF Referenced
      <4>2. heap'[gmail[g]] = heap[gmail[g]]  BY <1>2, <2>3, <3>2, <4>1
      <4>3. QED  BY <2>3, <4>1, <4>2 DEF DraftsLed
    <3>3. QED  BY <3>1, <3>2
  <2>4. QED  BY <2>1, <2>2, <2>3 DEF DraftsLed, Open, OpenNext
<1>7. DraftsUnjoined'
  <2>1. ASSUME NEW w \in Workers, work'[w].obj # NoThread  PROVE ~OpenNext(heap'[work'[w].obj].tid)
    <3>1. CASE work'[w].obj = o  BY <2>1, <3>1 DEF Free, Referenced
    <3>2. CASE work'[w].obj # o
      <4>1. work'[w].obj = work[w].obj /\ work[w].obj \in Referenced  BY <2>1, <3>2 DEF Referenced
      <4>2. heap'[work[w].obj] = heap[work[w].obj]  BY <1>2, <2>1, <3>2, <4>1
      <4>3. QED  BY <2>1, <4>1, <4>2 DEF DraftsUnjoined
    <3>3. QED  BY <3>1, <3>2
  <2>2. QED  BY <2>1 DEF DraftsUnjoined, Open, OpenNext
<1>8. QED  BY <1>5, <1>6, <1>7

\* A step of others, in other rooms, leaves a send as it was.
LEMMA SendDraftKept ==
  ASSUME NEW s \in Senders, SendDraft(s), send'[s] = send[s], composed \subseteq composed',
         posted \subseteq posted',
         send[s].step = "send" =>
           rows'[send[s].room] = rows[send[s].room] \/ rows'[send[s].room].mid = None
  PROVE  SendDraft(s)'
BY DEF SendDraft, Open

\* What is stored stays right while it is left alone.
LEMMA DraftStores ==
  /\ ComposedOnce /\ UNCHANGED composed => ComposedOnce'
  /\ PostedBegun /\ UNCHANGED <<posted, composed>> => PostedBegun'
  /\ DraftsSaved /\ (\A d : OpenNext(d) <=> Open(d)) /\ UNCHANGED <<meta, rows, composed>> => DraftsSaved'
  /\ NoSaveLost /\ (\A d : OpenNext(d) <=> Open(d)) /\ UNCHANGED rows => NoSaveLost'
<1>1. ComposedOnce /\ UNCHANGED composed => ComposedOnce'  BY DEF ComposedOnce
<1>2. PostedBegun /\ UNCHANGED <<posted, composed>> => PostedBegun'  BY DEF PostedBegun, Begun
<1>3. ASSUME DraftsSaved, \A d : OpenNext(d) <=> Open(d), UNCHANGED <<meta, rows, composed>>
      PROVE  DraftsSaved'
  <2>1. \A k \in Receivers \X Tids : OpenNext(k[2]) <=> Open(k[2])  BY <1>3
  <2>2. QED  BY <1>3, <2>1 DEF DraftsSaved, DraftSaved, Begun, Open, OpenNext
<1>4. ASSUME NoSaveLost, \A d : OpenNext(d) <=> Open(d), UNCHANGED rows
      PROVE  NoSaveLost'
  BY <1>4 DEF NoSaveLost, Open, OpenNext
<1>5. QED  BY <1>1, <1>2, <1>3, <1>4

\* Sends stay in rooms of their own when none begins.
LEMMA AloneKept ==
  ASSUME SendsAlone,
         \A s \in Senders : \/ send'[s].step = "idle"
                            \/ send[s].step # "idle" /\ send'[s].room = send[s].room
  PROVE  SendsAlone'
BY DEF SendsAlone

\* Each action keeps the drafts.
LEMMA CorrespondDrafts ==
  ASSUME DraftsInv, Correspond
  PROVE  AllDrafts' /\ (NoSaveLost => NoSaveLost')
<1> USE DEF DraftsInv
<1>1. UNCHANGED <<cache, work, send, stores>>
  BY DEF Correspond, NewTopic, Reply, Forward, WriteMail
<1>2. \A d : OpenNext(d) <=> Open(d)  BY <1>1, OpenSame DEF stores
<1>3. DraftObjects' /\ DraftsLed' /\ DraftsUnjoined'
  BY <1>1, DraftsKept DEF AllDrafts, cache, stores, Referenced
<1>4. SendsAlone'  BY <1>1 DEF AllDrafts, SendsAlone
<1>5. \A s \in Senders : SendDraft(s)'
  BY <1>1, SendDraftKept DEF AllDrafts, stores
<1>6. QED  BY <1>1, <1>2, <1>3, <1>4, <1>5, DraftStores DEF AllDrafts, stores

\* A goroutine that takes a mail has joined no thread.
LEMMA TakeDrafts ==
  ASSUME DraftsInv, NEW w \in Workers, NEW r \in Receivers, NEW m \in Written,
         NEW again \in BOOLEAN, Take(w, r, m, again)
  PROVE  AllDrafts' /\ (NoSaveLost => NoSaveLost')
<1> USE DEF DraftsInv
<1>1. UNCHANGED <<mails, cache, send, stores>>  BY DEF Take
<1>2. work'[w].obj = NoThread /\ \A v \in Workers \ {w} : work'[v] = work[v]
  BY DEF Take, ThreadedInv, ConversationsInv, TypeOK, IdleWork
<1>3. DraftObjects' /\ DraftsLed' /\ DraftsUnjoined'
  BY <1>1, <1>2, DraftsKept DEF AllDrafts, cache, stores, Referenced
<1>4. \A d : OpenNext(d) <=> Open(d)  BY <1>1, OpenSame DEF stores
<1>5. SendsAlone'  BY <1>1 DEF AllDrafts, SendsAlone
<1>6. \A s \in Senders : SendDraft(s)'
  BY <1>1, SendDraftKept DEF AllDrafts, stores
<1>7. QED  BY <1>1, <1>3, <1>4, <1>5, <1>6, DraftStores DEF AllDrafts, stores

\* A thread a mail opens or the resolver names is no open one.
LEMMA NewObjectDrafts ==
  ASSUME DraftsInv, NEW w \in Workers, NEW o \in Free, NEW th, NEW t,
         heap' = [heap EXCEPT ![o] = th], th.tid = t, ~th.draft, ~Open(t), Begun(t),
         \A k \in Keys : known'[k] = known[k] \/ (known'[k] = o /\ k[2] = t),
         work'[w].obj = o, \A v \in Workers \ {w} : work'[v] = work[v],
         UNCHANGED <<index, gmail, send, posted, composed>>
  PROVE  DraftObjects' /\ DraftsLed' /\ DraftsUnjoined'
<1>1. o \in Objects /\ heap'[o] = th /\ \A p \in Objects \ {o} : heap'[p] = heap[p]
  BY DEF DraftsInv, ThreadedInv, ConversationsInv, TypeOK, CacheTypes, Free
<1>2. (\A d : OpenNext(d) <=> Open(d)) /\ BegunNext(t)  BY OpenSame
<1>3. QED  BY <1>1, <1>2, DraftWritten DEF DraftsInv, ThreadedInv, ConversationsInv, AllDrafts

\* A goroutine joins no open thread: no mail names an open thread's ID, no map leads
\* from a mail's ID to it, and none of its messages is posted.
LEMMA DetermineThreadDrafts ==
  ASSUME DraftsInv, NEW w \in Workers, DetermineThread(w)
  PROVE  AllDrafts' /\ (NoSaveLost => NoSaveLost')
<1> USE DEF DraftsInv, ThreadedInv
<1>1. work[w].step = "determine" /\ UNCHANGED <<mails, send, stores>>  BY DEF DetermineThread
<1>2. PICK m, r : m = work[w].mail /\ r = work[w].receiver  OBVIOUS
<1>3. m \in Written /\ r \in Receivers /\ m \notin Drafts
  BY <1>1, <1>2, WrittenNoDraft DEF ConversationsInv, AllWhole, WorkWhole
<1>4. work \in [Workers -> WorkType] /\ work[w] \in WorkType  BY DEF ConversationsInv, TypeOK
<1> DEFINE Goal == DraftObjects' /\ DraftsLed' /\ DraftsUnjoined'
<1>5. ASSUME CreateNewThread(w)  PROVE Goal
  <2>1. PICK gtid \in {None, mails[m].conv}, o \in Free :
          /\ heap' = [heap EXCEPT ![o] = [tid |-> m, mid |-> m, refs |-> mails[m].refs,
                                         draft |-> FALSE, gtid |-> gtid, last |-> m]]
          /\ known' = [known EXCEPT ![<<Legacy, m>>] = o]
          /\ work' = [work EXCEPT ![w].step = "cache", ![w].obj = o]
          /\ UNCHANGED <<index, gmail>>
    BY <1>2, <1>5 DEF CreateNewThread
  <2>2. PICK th : th = [tid |-> m, mid |-> m, refs |-> mails[m].refs, draft |-> FALSE,
                        gtid |-> gtid, last |-> m]
    OBVIOUS
  <2>3. ~Open(m) /\ Begun(m)  BY <1>3 DEF Open, Begun
  <2>4. \A k \in Keys : known'[k] = known[k] \/ (known'[k] = o /\ k[2] = m)
    BY <2>1 DEF ConversationsInv, TypeOK, CacheTypes
  <2>5. work'[w].obj = o /\ \A v \in Workers \ {w} : work'[v] = work[v]
    BY <1>4, <2>1 DEF WorkType
  <2>6. heap' = [heap EXCEPT ![o] = th] /\ th.tid = m /\ ~th.draft  BY <2>1, <2>2
  <2>7. UNCHANGED <<index, gmail, send, posted, composed>>  BY <1>1, <2>1 DEF stores
  <2>8. QED  BY <2>3, <2>4, <2>5, <2>6, <2>7, NewObjectDrafts
<1>6. ASSUME NEW o \in Referenced \ {NoThread}, ~Open(heap[o].tid), NEW step,
             Join(w, o, step, heap[o].refs), UNCHANGED cache
      PROVE  Goal
  <2>1. work'[w].obj = o /\ \A v \in Workers \ {w} : work'[v] = work[v]
    BY <1>4, <1>6 DEF Join, WorkType
  <2>2. QED  BY <1>1, <1>6, <2>1, DraftsKept DEF AllDrafts, cache, stores, Referenced
<1>7. ASSUME NEW i \in Named(mails[m]), NEW t \in ResolveThreadID(r, i), JoinResolved(w, t)
      PROVE  Goal
  <2>1. t \in Tids /\ \E q \in Receivers : <<q, t, i>> \in posted
    BY <1>3 DEF ResolveThreadID
  <2>2. ~Open(t) /\ Begun(t)  BY <2>1 DEF Open, AllDrafts, PostedBegun
  <2>3. CASE Cached(r, t) # NoThread
    <3>1. PICK o : o = Cached(r, t)  OBVIOUS
    <3>2. <<r, t>> \in Keys /\ <<Legacy, t>> \in Keys  BY <1>3, <2>1 DEF Keys
    <3>3. o \in Referenced \ {NoThread}  BY <2>3, <3>1, <3>2 DEF Cached, Referenced
    <3>4. heap[o].tid = t
      BY <2>3, <3>1, <3>2 DEF Cached, ConversationsInv, AllWhole, CachesWhole
    <3>5. Join(w, o, "addCached", heap[o].refs) /\ UNCHANGED cache
      BY <1>2, <1>7, <2>3, <3>1 DEF JoinResolved
    <3>6. QED  BY <1>6, <2>2, <3>3, <3>4, <3>5
  <2>4. CASE Cached(r, t) = NoThread
    <3>1. PICK n \in Free : /\ heap' = [heap EXCEPT ![n] = NewThread(t)]
                            /\ Join(w, n, "addCached", {})
                            /\ UNCHANGED <<known, index, gmail>>
      BY <1>2, <1>7, <2>4 DEF JoinResolved
    <3>2. PICK th : th = NewThread(t)  OBVIOUS
    <3>3. heap' = [heap EXCEPT ![n] = th] /\ th.tid = t /\ ~th.draft
      BY <3>1, <3>2 DEF NewThread
    <3>4. work'[w].obj = n /\ \A v \in Workers \ {w} : work'[v] = work[v]
      BY <1>4, <3>1 DEF Join, WorkType
    <3>5. QED  BY <1>1, <2>2, <3>1, <3>3, <3>4, NewObjectDrafts DEF stores
  <2>5. QED  BY <2>3, <2>4
<1>8. ASSUME NEW o \in Indexed(r, mails[m]), Join(w, o, "add", heap[o].refs), UNCHANGED cache
      PROVE  Goal
  <2>1. CASE o \in FoundByHeaders(mails[m])
    <3>1. PICK i \in Named(mails[m]) : o = index[i] /\ o # NoThread
      <4>1. None \notin mails[m].refs
        <5>1. mails \in Seq(MailType)  BY DEF ConversationsInv, TypeOK
        <5>2. mails[m] \in MailType  BY <5>1, <1>3 DEF Written
        <5>3. mails[m].refs \subseteq Ids  BY <5>2 DEF MailType
        <5>4. QED  BY <5>3, RealFacts DEF ConversationsInv
      <4>2. QED  BY <2>1, <4>1 DEF FoundByHeaders, Named
    <3>2. i \in Ids /\ i \notin Drafts
      BY <1>3, RealFacts
         DEF ConversationsInv, AllWhole, MailsWhole, About, AllProper, MailsProper, Named
    <3>3. ~Open(heap[o].tid)  BY <3>1, <3>2 DEF AllDrafts, DraftsLed, Open
    <3>4. QED  BY <1>6, <1>8, <3>1, <3>2, <3>3 DEF Referenced
  <2>2. CASE o \in FoundByGmailThread(r, mails[m])
    <3>1. o = gmail[<<r, mails[m].conv>>] /\ o # NoThread  BY <2>2 DEF FoundByGmailThread
    <3>2. mails[m].conv \in Tids  BY <1>3, RealFacts DEF ConversationsInv
    <3>3. ~Open(heap[o].tid)  BY <1>3, <3>1, <3>2 DEF AllDrafts, DraftsLed
    <3>4. QED  BY <1>3, <1>6, <1>8, <3>1, <3>2, <3>3 DEF Referenced
  <2>3. QED  BY <2>1, <2>2 DEF Indexed
<1>9. Goal  BY <1>2, <1>5, <1>7, <1>8 DEF DetermineThread
<1>10. \A d : OpenNext(d) <=> Open(d)  BY <1>1, OpenSame DEF stores
<1>11. SendsAlone'  BY <1>1 DEF AllDrafts, SendsAlone
<1>12. \A s \in Senders : SendDraft(s)'
  BY <1>1, SendDraftKept DEF AllDrafts, stores
<1>13. QED  BY <1>1, <1>9, <1>10, <1>11, <1>12, DraftStores DEF AllDrafts, stores

\* A posted mail closes its thread, which was not open.
LEMMA CacheAndPostDrafts ==
  ASSUME DraftsInv, NEW w \in Workers, NEW done \in BOOLEAN, CacheAndPost(w, done)
  PROVE  AllDrafts' /\ (NoSaveLost => NoSaveLost')
<1> USE DEF DraftsInv, ThreadedInv
<1>1. /\ UNCHANGED <<mails, send, composed, meta, rows, dedup>>
      /\ work[w].step \in {"add", "addCached", "cache"}
  BY DEF CacheAndPost
<1>2. PICK m, r, o : m = work[w].mail /\ r = work[w].receiver /\ o = work[w].obj  OBVIOUS
<1>3. m \in Written /\ r \in Receivers /\ Held(o) /\ o \in Objects /\ o # NoThread
  BY <1>1, <1>2, NilIsNoThread DEF ConversationsInv, AllWhole, WorkWhole, Held, NoThread
<1>4. o \in Referenced \ {NoThread}  BY <1>2, <1>3 DEF Referenced
<1>5. ~Open(heap[o].tid) /\ ~heap[o].draft /\ Begun(heap[o].tid)
  BY <1>2, <1>3, <1>4 DEF AllDrafts, DraftsUnjoined, DraftObjects, DraftObject
<1>6. PICK th : th = Added(w)  OBVIOUS
<1>7. heap[o] \in Thread /\ heap[o].tid \in Tids
  <2>1. heap[o] \in Thread  BY <1>3 DEF ConversationsInv, TypeOK, CacheTypes
  <2>2. heap[o].tid \in Real /\ None \notin Ids /\ Real \subseteq Ids
    BY <1>3, RealFacts DEF Held, Whole, ConversationsInv
  <2>3. QED  BY <1>3, <2>1, <2>2 DEF Thread
<1>8. th \in Thread /\ th.tid = heap[o].tid /\ ~th.draft
  <2>1. CASE work[w].step = "cache"  BY <1>2, <1>5, <1>6, <1>7, <2>1 DEF Added
  <2>2. CASE work[w].step # "cache"
    <3>1. \E gtid \in {mails[m].conv, heap[o].gtid} :
            th = [heap[o] EXCEPT !.refs = work[w].refs \cup {m}, !.last = m, !.gtid = gtid]
      BY <1>2, <1>6, <2>2 DEF Added
    <3>2. PICK gtid \in {mails[m].conv, heap[o].gtid} :
            th = [heap[o] EXCEPT !.refs = work[w].refs \cup {m}, !.last = m, !.gtid = gtid]
      BY <3>1
    <3>3. m \in Ids /\ mails[m].conv \in Tids /\ work[w].refs \subseteq Ids
      <4>1. m \in Real /\ Topic[m] = mails[m].conv /\ Topic \in [Real -> Tids] /\ Real \subseteq Ids
        BY <1>3, RealFacts DEF ConversationsInv
      <4>2. work[w] \in WorkType  BY DEF ConversationsInv, TypeOK
      <4>3. QED  BY <4>1, <4>2 DEF WorkType
    <3>4. QED  BY <1>5, <1>7, <3>2, <3>3 DEF Thread
  <2>3. QED  BY <2>1, <2>2
<1>9. /\ CacheThread(r, o, th)
      /\ posted' = posted \/ posted' = posted \cup {<<r, th.tid, m>>}
      /\ work' = [work EXCEPT ![w] = IdleWork]
  BY <1>2, <1>6 DEF CacheAndPost
<1>10. /\ heap'[o] = th /\ \A p \in Objects \ {o} : heap'[p] = heap[p]
       /\ \A k \in Keys : known'[k] = IF k = <<r, th.tid>> THEN o ELSE known[k]
       /\ \A i \in Ids : index'[i] = IF i \in IdsOf(th) THEN o ELSE index[i]
       /\ \A g \in Receivers \X Tids : gmail'[g] \in {gmail[g], o}
  BY <1>3, <1>7, <1>8, <1>9, CachedAt DEF ConversationsInv
<1>11. \A d : OpenNext(d) <=> Open(d)
  <2>1. \A d \in Drafts : th.tid = d => \E p \in posted : p[2] = d  BY <1>5, <1>8 DEF Open
  <2>2. \A p \in posted' : p \in posted \/ p[2] = th.tid  BY <1>9
  <2>3. \A d \in Drafts : (\A p \in posted : p[2] # d) => \A p \in posted' : p[2] # d
    BY <2>1, <2>2
  <2>4. posted \subseteq posted'  BY <1>9
  <2>5. QED  BY <2>3, <2>4 DEF Open, OpenNext
<1>12. BegunNext(th.tid)  BY <1>1, <1>5, <1>8 DEF Begun, BegunNext
<1>13. work'[w] = IdleWork /\ \A v \in Workers \ {w} : work'[v] = work[v]
  BY <1>9 DEF ConversationsInv, TypeOK
<1>14. /\ \A k \in Keys : known'[k] = known[k] \/ (known'[k] = o /\ k[2] = th.tid)
       /\ \A i \in Ids : index'[i] = index[i] \/ index'[i] = o
       /\ \A g \in Receivers \X Tids : gmail'[g] = gmail[g] \/ gmail'[g] = o
       /\ \A v \in Workers : work'[v].obj \in {work[v].obj, NoThread}
       /\ ~OpenNext(th.tid)
  BY <1>5, <1>8, <1>10, <1>11, <1>13 DEF IdleWork
<1>15. DraftObjects' /\ DraftsLed' /\ DraftsUnjoined'
  BY <1>1, <1>3, <1>8, <1>10, <1>11, <1>12, <1>14, DraftWritten
     DEF AllDrafts, ConversationsInv
<1>16. PostedBegun'
  <2>1. \A p \in posted' : p \in posted \/ p[2] = th.tid  BY <1>9
  <2>2. QED  BY <1>1, <1>5, <1>8, <2>1 DEF AllDrafts, PostedBegun, Begun
<1>17. SendsAlone'  BY <1>1 DEF AllDrafts, SendsAlone
<1>18. \A s \in Senders : SendDraft(s)'
  BY <1>1, <1>9, SendDraftKept DEF AllDrafts
<1>19. QED  BY <1>1, <1>11, <1>15, <1>16, <1>17, <1>18, DraftStores DEF AllDrafts

\* A draft is rebuilt only where the room has lost it.
LEMMA RehydratedDrafts ==
  ASSUME DraftsInv, NEW r \in Receivers, NEW t \in Tids, NEW o \in Objects, Rehydrate(r, t, o),
         UNCHANGED <<work, posted, composed>>,
         \A s \in Senders : send'[s].obj \in {send[s].obj, o, NoThread}
  PROVE  /\ DraftObjects' /\ DraftsLed' /\ DraftsUnjoined'
         /\ heap'[o].draft <=> Open(t)
<1> USE DEF DraftsInv, ThreadedInv
<1>1. <<r, t>> \in Receivers \X Tids /\ <<r, t>> \in Keys /\ <<Legacy, t>> \in Keys  BY DEF Keys
<1>2. PICK th \in Thread : th = meta[<<r, t>>]
  BY <1>1 DEF ConversationsInv, TypeOK, StoreTypes
<1>3. th.tid = t /\ o \in Free /\ CacheThread(r, o, th) /\ Cached(r, t) = NoThread
  BY <1>2 DEF Rehydrate
<1>4. DraftSaved(<<r, t>>)  BY <1>1 DEF AllDrafts, DraftsSaved
<1>5. (th.draft <=> Open(t)) /\ Begun(t)  BY <1>2, <1>3, <1>4 DEF DraftSaved
<1>6. /\ heap'[o] = th /\ \A p \in Objects \ {o} : heap'[p] = heap[p]
      /\ \A k \in Keys : known'[k] = IF k = <<r, th.tid>> THEN o ELSE known[k]
      /\ \A i \in Ids : index'[i] = IF i \in IdsOf(th) THEN o ELSE index[i]
      /\ \A g \in Receivers \X Tids : gmail'[g] \in {gmail[g], o}
  BY <1>3, CachedAt DEF ConversationsInv
<1>7. (\A d : OpenNext(d) <=> Open(d)) /\ BegunNext(t)  BY <1>5, OpenSame
<1>8. CASE ~Open(t)
  <2>1. /\ \A k \in Keys : known'[k] = known[k] \/ (known'[k] = o /\ k[2] = th.tid)
        /\ \A i \in Ids : index'[i] = index[i] \/ index'[i] = o
        /\ \A g \in Receivers \X Tids : gmail'[g] = gmail[g] \/ gmail'[g] = o
        /\ ~OpenNext(th.tid) /\ BegunNext(th.tid) /\ ~th.draft
    BY <1>3, <1>5, <1>6, <1>7, <1>8
  <2>2. DraftObjects' /\ DraftsLed' /\ DraftsUnjoined'
    BY <1>6, <1>7, <2>1, DraftWritten DEF AllDrafts, ConversationsInv
  <2>3. QED  BY <1>3, <1>5, <1>6, <2>2
<1>9. CASE Open(t)
  <2>1. th.draft /\ th.mid = None /\ <<r, t>> \in composed /\ OpenNext(th.tid) /\ BegunNext(th.tid)
    BY <1>2, <1>3, <1>4, <1>5, <1>7, <1>9 DEF DraftSaved
  <2>2. th.refs = {} /\ th.gtid = None
    BY <1>2, <1>4, <2>1 DEF DraftSaved, DraftThread, NewThread
  <2>3. \A i \in Ids : index'[i] = index[i] \/ (index'[i] = o /\ i = th.tid)
    BY <1>6, <2>1, <2>2 DEF IdsOf
  <2>4. \A g \in Receivers \X Tids : gmail'[g] = gmail[g]  BY <1>3, <2>2 DEF CacheThread
  <2>5. \A p \in Referenced \ {NoThread} : heap[p].tid # th.tid
    <3>1. ASSUME NEW p \in Referenced \ {NoThread}, heap[p].tid = t  PROVE FALSE
      <4>1. PICK q \in Receivers : <<q, t>> \in composed /\ known[<<q, t>>] = p
        BY <1>9, <3>1 DEF AllDrafts, DraftObjects, DraftObject
      <4>2. <<q, t>>[2] = <<r, t>>[2]  OBVIOUS
      <4>3. q = r  BY <2>1, <4>1, <4>2 DEF AllDrafts, ComposedOnce
      <4>4. QED  BY <1>3, <3>1, <4>1, <4>3 DEF Cached
    <3>2. QED  BY <1>3, <3>1
  <2>6. /\ \A k \in Keys : \/ known'[k] = known[k]
                           \/ known'[k] = o /\ k[2] = th.tid /\ k \in composed'
        /\ \E q \in Receivers : <<q, th.tid>> \in composed' /\ known'[<<q, th.tid>>] = o
    BY <1>1, <1>3, <1>6, <2>1
  <2>7. \A w \in Workers : work'[w].obj = work[w].obj /\ work'[w].obj # o
    BY <1>3 DEF Free, Referenced
  <2>8. DraftObjects' /\ DraftsLed' /\ DraftsUnjoined'
    BY <1>3, <1>6, <1>7, <2>1, <2>3, <2>4, <2>5, <2>6, <2>7, DraftWritten
       DEF AllDrafts, ConversationsInv
  <2>9. QED  BY <1>3, <1>5, <1>6, <2>8
<1>10. QED  BY <1>8, <1>9

\* The framework may ask for any room.
LEMMA GetChatInfoDrafts ==
  ASSUME DraftsInv, NEW r \in Receivers, NEW t \in Tids, GetChatInfo(r, t)
  PROVE  AllDrafts' /\ (NoSaveLost => NoSaveLost')
<1> USE DEF DraftsInv
<1>1. UNCHANGED <<mails, work, send, posted, composed, meta, rows>>  BY DEF GetChatInfo, stores
<1>2. PICK o \in Objects : Rehydrate(r, t, o)  BY DEF GetChatInfo
<1>3. DraftObjects' /\ DraftsLed' /\ DraftsUnjoined'  BY <1>1, <1>2, RehydratedDrafts
<1>4. \A d : OpenNext(d) <=> Open(d)  BY <1>1, OpenSame
<1>5. SendsAlone'  BY <1>1 DEF AllDrafts, SendsAlone
<1>6. \A s \in Senders : SendDraft(s)'  BY <1>1, SendDraftKept DEF AllDrafts
<1>7. QED  BY <1>1, <1>3, <1>4, <1>5, <1>6, DraftStores DEF AllDrafts

\* A send finds the draft the room leads to, or rebuilds it.
LEMMA WriteDrafts ==
  ASSUME DraftsInv, NEW s \in Senders, NEW r \in Receivers, NEW t \in Tids, Write(s, r, t)
  PROVE  AllDrafts' /\ (NoSaveLost => NoSaveLost')
<1> USE DEF DraftsInv, ThreadedInv
<1>1. UNCHANGED <<mails, work, posted, composed, meta, rows>>  BY DEF Write, stores
<1>2. PICK o \in Objects, i \in {None} \cup ReplyTargets(r, t) :
        /\ \/ o = Cached(r, t) /\ UNCHANGED cache
           \/ Rehydrate(r, t, o)
        /\ LET th == heap'[o]
               chain == ReplyChain(th, i)
           IN send' = [send EXCEPT ![s] = [step |-> "send", room |-> <<r, t>>, obj |-> o,
                                           draft |-> th.draft, irt |-> chain.irt,
                                           refs |-> chain.refs, quote |-> th.last, key |-> None]]
  BY DEF Write
<1>3. /\ send'[s].step = "send" /\ send'[s].room = <<r, t>> /\ send'[s].obj = o
      /\ send'[s].draft = heap'[o].draft /\ \A q \in Senders \ {s} : send'[q] = send[q]
  BY <1>2 DEF ConversationsInv, TypeOK
<1>4. \A d : OpenNext(d) <=> Open(d)  BY <1>1, OpenSame
<1>5. /\ DraftObjects' /\ DraftsLed' /\ DraftsUnjoined'
      /\ heap'[o].draft <=> Open(t)
  <2>1. CASE o = Cached(r, t) /\ UNCHANGED cache
    <3>1. <<r, t>> \in Keys /\ <<Legacy, t>> \in Keys /\ o # NoThread
      BY NilIsNoThread DEF Keys, NoThread
    <3>2. o \in Referenced \ {NoThread}  BY <2>1, <3>1 DEF Cached, Referenced
    <3>3. heap[o].tid = t
      BY <2>1, <3>1 DEF Cached, ConversationsInv, AllWhole, CachesWhole
    <3>4. heap[o].draft <=> Open(t)  BY <3>2, <3>3 DEF AllDrafts, DraftObjects, DraftObject
    <3>5. UNCHANGED <<heap, known, index, gmail>>  BY <2>1 DEF cache
    <3>6. \A q \in Senders : send'[q].obj \in Referenced \cup {NoThread}
      BY <1>3, <3>2 DEF Referenced
    <3>7. DraftObjects' /\ DraftsLed' /\ DraftsUnjoined'
      BY <1>1, <3>5, <3>6, DraftsKept DEF AllDrafts
    <3>8. QED  BY <3>4, <3>5, <3>7
  <2>2. CASE Rehydrate(r, t, o)
    <3>1. \A q \in Senders : send'[q].obj \in {send[q].obj, o, NoThread}  BY <1>3
    <3>2. QED  BY <1>1, <2>2, <3>1, RehydratedDrafts
  <2>3. QED  BY <1>2, <2>1, <2>2
<1>6. <<r, t>> \in Rooms /\ \A q \in Senders : send[q].room # <<r, t>>  BY DEF Write
<1>7. SendsAlone'  BY <1>3, <1>6 DEF AllDrafts, SendsAlone
<1>8. SendDraft(s)'
  <2>1. <<r, t>>[2] = t /\ <<r, t>> \in Receivers \X Tids  OBVIOUS
  <2>2. DraftSaved(<<r, t>>)  BY <2>1 DEF AllDrafts, DraftsSaved
  <2>3. Open(t) => <<r, t>> \in composed
    <3>1. ASSUME Open(t), <<r, t>> \notin composed  PROVE FALSE
      <4>1. PICK p \in posted : <<r, t>> = <<p[1], p[2]>>  BY <1>6, <3>1 DEF Rooms
      <4>2. p[2] = t  BY <4>1
      <4>3. QED  BY <3>1, <4>2 DEF Open
    <3>2. QED  BY <3>1
  <2>4. Open(t) => rows[<<r, t>>].mid = None  BY <2>2 DEF DraftSaved
  <2>5. QED  BY <1>1, <1>3, <1>4, <1>5, <2>1, <2>3, <2>4 DEF SendDraft, Open, OpenNext
<1>9. \A q \in Senders \ {s} : SendDraft(q)'  BY <1>1, <1>3, SendDraftKept DEF AllDrafts
<1>10. QED  BY <1>1, <1>4, <1>5, <1>7, <1>8, <1>9, DraftStores DEF AllDrafts

\* The room of a draft loses it and its own ID at once, and no send holds it.
LEMMA EvictDrafts ==
  ASSUME DraftsInv, NEW o \in Objects, NEW keys, Evict(o, keys)
  PROVE  AllDrafts' /\ (NoSaveLost => NoSaveLost')
<1> USE DEF DraftsInv, ThreadedInv
<1>1. UNCHANGED <<mails, heap, work, send, posted, composed, meta, rows>>  BY DEF Evict, stores
<1>2. \A d : OpenNext(d) <=> Open(d)  BY <1>1, OpenSame
<1>3. /\ \A k \in Keys : known'[k] = IF k \in keys THEN NoThread ELSE known[k]
      /\ \A i \in Ids : index'[i] = IF i \in IdsOf(heap[o]) THEN NoThread ELSE index[i]
      /\ \A g \in Receivers \X Tids : gmail'[g] = IF gmail[g] = o THEN NoThread ELSE gmail[g]
  <2>1. DOMAIN gmail = Receivers \X Tids  BY DEF ConversationsInv, TypeOK, CacheTypes
  <2>2. QED  BY <2>1 DEF Evict
<1>4. (\A k \in keys : known[k] = o) /\ \A s \in Senders : send[s].obj # o  BY DEF Evict
<1>5. Referenced' \subseteq Referenced \cup {NoThread}  BY <1>1, <1>3 DEF Referenced
<1>6. ASSUME NEW p \in Referenced' \ {NoThread}
      PROVE  DraftObject(p)'
  <2>1. p \in Referenced \ {NoThread} /\ DraftObject(p)  BY <1>5, <1>6 DEF AllDrafts, DraftObjects
  <2>2. ASSUME Open(heap[p].tid)
        PROVE  \E r \in Receivers : <<r, heap[p].tid>> \in composed /\ known'[<<r, heap[p].tid>>] = p
    <3>1. PICK r \in Receivers : <<r, heap[p].tid>> \in composed /\ known[<<r, heap[p].tid>>] = p
      BY <2>1, <2>2 DEF DraftObject
    <3>2. <<r, heap[p].tid>> \in Keys /\ heap[p].tid \in Ids
      BY <2>2, RealFacts DEF Open, Keys, ConversationsInv
    <3>3. CASE p # o  BY <1>3, <1>4, <3>1, <3>2, <3>3
    <3>4. CASE p = o
      <4>1. heap[o].tid \in IdsOf(heap[o])
        <5>1. heap[o].tid # None  BY <2>2, <3>4, NoDrafts DEF Open
        <5>2. QED  BY <5>1 DEF IdsOf
      <4>2. \A i \in Ids : index'[i] # o
        BY <1>3, <2>2, <3>4, <4>1 DEF AllDrafts, DraftsLed, NoThread
      <4>3. \A g \in Receivers \X Tids : gmail'[g] # o
        BY <1>3, <1>6, <3>4
      <4>4. \A w \in Workers : work'[w].obj # o
        BY <1>1, <1>6, <2>2, <3>4 DEF AllDrafts, DraftsUnjoined
      <4>5. PICK k \in Keys : known'[k] = o
        BY <1>1, <1>4, <1>6, <3>4, <4>2, <4>3, <4>4 DEF Referenced
      <4>6. k \notin keys /\ known[k] = o  BY <1>3, <1>6, <3>4, <4>5
      <4>7. k[2] = heap[o].tid
        BY <1>6, <3>4, <4>6 DEF ConversationsInv, AllWhole, CachesWhole
      <4>8. k \in composed  BY <1>6, <2>2, <3>4, <4>6, <4>7 DEF AllDrafts, DraftsLed
      <4>9. <<r, heap[p].tid>>[2] = heap[p].tid  OBVIOUS
      <4>10. k = <<r, heap[p].tid>>
        BY <3>1, <3>4, <4>7, <4>8, <4>9 DEF AllDrafts, ComposedOnce
      <4>11. QED  BY <3>1, <3>4, <4>5, <4>10
    <3>5. QED  BY <3>3, <3>4
  <2>3. QED  BY <1>1, <2>1, <2>2 DEF DraftObject, Open, Begun
<1>7. DraftObjects'  BY <1>6 DEF DraftObjects
<1>8. DraftsLed'  BY <1>1, <1>3 DEF AllDrafts, DraftsLed, Open
<1>9. DraftsUnjoined'  BY <1>1 DEF AllDrafts, DraftsUnjoined, Open
<1>10. SendsAlone'  BY <1>1 DEF AllDrafts, SendsAlone
<1>11. \A s \in Senders : SendDraft(s)'  BY <1>1, SendDraftKept DEF AllDrafts
<1>12. QED  BY <1>1, <1>2, <1>7, <1>8, <1>9, <1>10, <1>11, DraftStores DEF AllDrafts

\* What was saved is right, as long as no save was lost.
LEMMA RestartDrafts ==
  ASSUME DraftsInv, NoSaveLost, Restart
  PROVE  AllDrafts' /\ NoSaveLost'
<1> USE DEF DraftsInv
<1>1. /\ UNCHANGED <<mails, heap, posted, composed, rows>> /\ meta' = rows
      /\ \A w \in Workers : work'[w] = IdleWork
      /\ \A s \in Senders : send'[s] = IdleSend
      /\ \A k \in Keys : known'[k] = NoThread
      /\ \A i \in Ids : index'[i] = NoThread
      /\ \A g \in Receivers \X Tids : gmail'[g] = NoThread
  BY DEF Restart
<1>2. \A d : OpenNext(d) <=> Open(d)  BY <1>1, OpenSame
<1>3. Referenced' \subseteq {NoThread}  BY <1>1 DEF Referenced, IdleWork, IdleSend
<1>4. DraftObjects'  BY <1>3 DEF DraftObjects
<1>5. DraftsLed' /\ DraftsUnjoined'  BY <1>1 DEF DraftsLed, DraftsUnjoined, IdleWork
<1>6. SendsAlone' /\ \A s \in Senders : SendDraft(s)'
  BY <1>1 DEF SendsAlone, SendDraft, IdleSend
<1>7. DraftsSaved'
  <2>1. ASSUME NEW k \in Receivers \X Tids  PROVE DraftSaved(k)'
    <3>1. DraftSaved(k) /\ (rows[k].draft => Open(k[2]))  BY DEF AllDrafts, DraftsSaved, NoSaveLost
    <3>2. QED  BY <1>1, <3>1 DEF DraftSaved, Open, Begun
  <2>2. QED  BY <2>1 DEF DraftsSaved
<1>8. QED  BY <1>1, <1>2, <1>4, <1>5, <1>6, <1>7, DraftStores DEF AllDrafts

\* A new compose thread: nothing has its ID yet.
LEMMA ComposeDrafts ==
  ASSUME DraftsInv, NEW r \in Receivers, NEW d \in Drafts, Compose(r, d)
  PROVE  AllDrafts' /\ (NoSaveLost => NoSaveLost')
<1> USE DEF DraftsInv, ThreadedInv
<1>1. UNCHANGED <<mails, work, send, posted, dedup>> /\ composed' = composed \cup {<<r, d>>}
  BY DEF Compose
<1>2. ~Begun(d)  BY DEF Compose, Begun
<1>3. PICK th : th = DraftThread(d)  OBVIOUS
<1>4. d \in Tids /\ d # None  BY RealFacts, NoDrafts DEF ConversationsInv
<1>5. /\ th \in Thread /\ th.tid = d /\ th.draft /\ th.mid = None /\ th.refs = {}
      /\ th.gtid = None
  BY <1>3, <1>4 DEF DraftThread, Thread, NewThread
<1>6. PICK o \in Free : CacheThread(r, o, th)  BY <1>3 DEF Compose, DraftThread
<1>7. /\ heap'[o] = th /\ \A p \in Objects \ {o} : heap'[p] = heap[p]
      /\ \A k \in Keys : known'[k] = IF k = <<r, th.tid>> THEN o ELSE known[k]
      /\ \A i \in Ids : index'[i] = IF i \in IdsOf(th) THEN o ELSE index[i]
  BY <1>4, <1>5, <1>6, CachedAt DEF ConversationsInv, Free
<1>8. Open(d)
  <2>1. \A p \in posted : Begun(p[2])  BY DEF AllDrafts, PostedBegun
  <2>2. QED  BY <1>2, <2>1 DEF Open
<1>9. (\A e : OpenNext(e) <=> Open(e)) /\ BegunNext(d)  BY <1>1, OpenSame DEF BegunNext
<1>10. DraftObjects' /\ DraftsLed' /\ DraftsUnjoined'
  <2>1. \A i \in Ids : index'[i] = index[i] \/ (index'[i] = o /\ i = th.tid)
    BY <1>5, <1>7 DEF IdsOf
  <2>2. \A g \in Receivers \X Tids : gmail'[g] = gmail[g]  BY <1>5, <1>6 DEF CacheThread
  <2>3. \A p \in Referenced \ {NoThread} : heap[p].tid # th.tid
    BY <1>2, <1>5 DEF AllDrafts, DraftObjects, DraftObject
  <2>4. <<r, d>> \in Keys /\ <<r, d>>[2] = d  BY <1>4 DEF Keys
  <2>5. /\ \A k \in Keys : \/ known'[k] = known[k]
                           \/ known'[k] = o /\ k[2] = th.tid /\ k \in composed'
        /\ \E q \in Receivers : <<q, th.tid>> \in composed' /\ known'[<<q, th.tid>>] = o
    BY <1>1, <1>5, <1>7, <2>4
  <2>6. \A w \in Workers : work'[w].obj = work[w].obj /\ work'[w].obj # o
    BY <1>1 DEF Free, Referenced
  <2>7. OpenNext(th.tid) /\ BegunNext(th.tid) /\ o \in Objects /\ composed \subseteq composed'
    BY <1>1, <1>5, <1>8, <1>9 DEF Free
  <2>8. \A s \in Senders : send'[s].obj = send[s].obj  BY <1>1
  <2>9. QED
    BY <1>5, <1>7, <1>9, <2>1, <2>2, <2>3, <2>5, <2>6, <2>7, <2>8, DraftWritten
       DEF AllDrafts, ConversationsInv
<1>11. ComposedOnce'
  <2>1. \A p \in composed : p[2] # d
    <3>1. ASSUME NEW p \in composed, p[2] = d  PROVE FALSE
      <4>1. p \in Receivers \X Drafts  BY DEF ConversationsInv, TypeOK, StoreTypes
      <4>2. p[1] \in Receivers /\ p = <<p[1], d>>  BY <3>1, <4>1
      <4>3. QED  BY <1>2, <4>2 DEF Begun
    <3>2. QED  BY <3>1
  <2>2. QED  BY <1>1, <2>1 DEF AllDrafts, ComposedOnce
<1>12. PostedBegun'
  <2>1. \A p \in posted : BegunNext(p[2])  BY <1>1, OpenSame DEF AllDrafts, PostedBegun
  <2>2. QED  BY <1>1, <2>1 DEF PostedBegun, Begun, BegunNext
<1>13. PICK room : room = <<r, d>>  OBVIOUS
<1>14. room \in Receivers \X Tids /\ room[2] = d /\ room \in composed' /\ room \notin composed
  BY <1>1, <1>2, <1>4, <1>13 DEF Begun
<1>15. /\ meta' = meta \/ meta' = [meta EXCEPT ![room] = th]
       /\ rows' = [rows EXCEPT ![room] = meta'[room]]
  BY <1>3, <1>13 DEF Compose, SaveDraft, DraftThread
<1>16. /\ meta'[room] = meta[room] \/ meta'[room] = th
       /\ rows'[room] = meta'[room]
       /\ \A k \in (Receivers \X Tids) \ {room} : meta'[k] = meta[k] /\ rows'[k] = rows[k]
  BY <1>14, <1>15 DEF ConversationsInv, TypeOK, StoreTypes
<1>17. ~meta[room].draft /\ meta[room].tid # d /\ meta[room].mid = None
  BY <1>2, <1>8, <1>14 DEF AllDrafts, DraftsSaved, DraftSaved
<1>18. DraftsSaved'
  <2>1. ASSUME NEW k \in (Receivers \X Tids) \ {room}  PROVE DraftSaved(k)'
    <3>1. meta'[k] = meta[k] /\ rows'[k] = rows[k] /\ DraftSaved(k)
      BY <1>16 DEF AllDrafts, DraftsSaved
    <3>2. (OpenNext(k[2]) <=> Open(k[2])) /\ (Begun(k[2]) => BegunNext(k[2]))
      BY <1>1, <1>9, OpenSame
    <3>3. QED
      BY <1>1, <3>1, <3>2 DEF DraftSaved, Open, OpenNext, Begun, BegunNext
  <2>2. DraftSaved(room)'
    BY <1>3, <1>5, <1>8, <1>9, <1>14, <1>16, <1>17
       DEF DraftSaved, Open, OpenNext, Begun, BegunNext, DraftThread
  <2>3. QED  BY <2>1, <2>2 DEF DraftsSaved
<1>19. NoSaveLost => NoSaveLost'
  <2>1. ASSUME NoSaveLost, NEW k \in Receivers \X Tids, rows'[k].draft  PROVE OpenNext(k[2])
    BY <1>8, <1>9, <1>14, <1>16, <2>1 DEF NoSaveLost
  <2>2. QED  BY <2>1 DEF NoSaveLost, Open, OpenNext
<1>20. SendsAlone'  BY <1>1 DEF AllDrafts, SendsAlone
<1>21. \A s \in Senders : SendDraft(s)'
  <2>1. ASSUME NEW s \in Senders, send[s].step = "send"
        PROVE  rows'[send[s].room] = rows[send[s].room] \/ rows'[send[s].room].mid = None
    <3>1. send[s].room \in Receivers \X Tids
      BY <2>1 DEF ConversationsInv, AllWhole, SendWhole
    <3>2. QED  BY <1>5, <1>16, <1>17, <3>1
  <2>2. QED  BY <1>1, <2>1, SendDraftKept DEF AllDrafts
<1>22. QED
  BY <1>10, <1>11, <1>12, <1>18, <1>19, <1>20, <1>21 DEF AllDrafts

\* A send that fails leaves the thread open.
LEMMA SendFailsDrafts ==
  ASSUME DraftsInv, NEW s \in Senders, SendFails(s)
  PROVE  AllDrafts' /\ (NoSaveLost => NoSaveLost')
<1> USE DEF DraftsInv, ThreadedInv
<1>1. UNCHANGED <<mails, heap, known, index, gmail, work, posted, composed, meta, rows>>
  BY DEF SendFails, cache, stores
<1>2. send'[s] = IdleSend /\ \A q \in Senders \ {s} : send'[q] = send[q]
  BY DEF SendFails, ConversationsInv, TypeOK
<1>3. \A d : OpenNext(d) <=> Open(d)  BY <1>1, OpenSame
<1>4. \A q \in Senders : send'[q].obj \in Referenced \cup {NoThread}
  BY <1>2 DEF Referenced, IdleSend
<1>5. DraftObjects' /\ DraftsLed' /\ DraftsUnjoined'  BY <1>1, <1>4, DraftsKept DEF AllDrafts
<1>6. SendsAlone'  BY <1>2, AloneKept DEF AllDrafts, SendsAlone, IdleSend
<1>7. \A q \in Senders : SendDraft(q)'
  <2>1. SendDraft(s)'  BY <1>2 DEF SendDraft, IdleSend
  <2>2. QED  BY <1>1, <1>2, <2>1, SendDraftKept DEF AllDrafts
<1>8. QED  BY <1>1, <1>3, <1>5, <1>6, <1>7, DraftStores DEF AllDrafts

\* A send that goes on.
LEMMA SendOnDrafts ==
  ASSUME DraftsInv, NEW s \in Senders, send[s].step # "idle", send'[s].step # "send",
         UNCHANGED <<heap, known, index, gmail, work, posted, composed, meta, rows>>,
         send'[s].room = send[s].room, send'[s].obj = send[s].obj, send'[s].draft = send[s].draft,
         \A q \in Senders \ {s} : send'[q] = send[q]
  PROVE  AllDrafts' /\ (NoSaveLost => NoSaveLost')
<1> USE DEF DraftsInv
<1>1. \A d : OpenNext(d) <=> Open(d)  BY OpenSame
<1>2. \A q \in Senders : send'[q].obj \in Referenced \cup {NoThread}  BY DEF Referenced
<1>3. DraftObjects' /\ DraftsLed' /\ DraftsUnjoined'  BY <1>2, DraftsKept DEF AllDrafts
<1>4. SendsAlone'  BY AloneKept DEF AllDrafts, SendsAlone
<1>5. SendDraft(s)'  BY DEF AllDrafts, SendDraft, Open
<1>6. \A q \in Senders \ {s} : SendDraft(q)'  BY SendDraftKept DEF AllDrafts
<1>7. QED  BY <1>1, <1>3, <1>4, <1>5, <1>6, DraftStores DEF AllDrafts

\* The mail that leaves does not yet close the thread.
LEMMA SendWorksDrafts ==
  ASSUME DraftsInv, NEW s \in Senders, NEW to \in SUBSET Receivers,
         NEW fetched \in BOOLEAN, SendWorks(s, to, fetched)
  PROVE  AllDrafts' /\ (NoSaveLost => NoSaveLost')
<1>1. PICK n : n = Len(mails) + 1  OBVIOUS
<1>2. /\ send[s].step = "send" /\ UNCHANGED <<cache, work, stores>>
      /\ send' = [send EXCEPT ![s].step = "record", ![s].key = SentKey(n, fetched)]
  BY <1>1 DEF SendWorks
<1>3. send \in [Senders -> SendType] /\ send[s] \in SendType
  BY DEF DraftsInv, ThreadedInv, ConversationsInv, TypeOK
<1>4. /\ send'[s].step = "record" /\ send'[s].room = send[s].room /\ send'[s].obj = send[s].obj
      /\ send'[s].draft = send[s].draft /\ \A q \in Senders \ {s} : send'[q] = send[q]
  BY <1>2, <1>3 DEF SendType
<1>5. UNCHANGED <<heap, known, index, gmail, work, posted, composed, meta, rows>>
  BY <1>2 DEF cache, stores
<1>6. QED  BY <1>2, <1>4, <1>5, SendOnDrafts

\* The dedup record closes no thread.
LEMMA RecordDrafts ==
  ASSUME DraftsInv, NEW s \in Senders, NEW done \in BOOLEAN, Record(s, done)
  PROVE  AllDrafts' /\ (NoSaveLost => NoSaveLost')
<1>1. /\ send[s].step = "record" /\ send' = [send EXCEPT ![s].step = "finish"]
      /\ UNCHANGED <<heap, known, index, gmail, work, posted, composed, meta, rows>>
  BY DEF Record, cache
<1>2. send \in [Senders -> SendType] /\ send[s] \in SendType
  BY DEF DraftsInv, ThreadedInv, ConversationsInv, TypeOK
<1>3. /\ send'[s].step = "finish" /\ send'[s].room = send[s].room /\ send'[s].obj = send[s].obj
      /\ send'[s].draft = send[s].draft /\ \A q \in Senders \ {s} : send'[q] = send[q]
  BY <1>1, <1>2 DEF SendType
<1>4. QED  BY <1>1, <1>3, SendOnDrafts

\* The end of a send closes its thread: its object is the only draft there was.
LEMMA FinishDrafts ==
  ASSUME DraftsInv, NEW s \in Senders, NEW saved \in BOOLEAN, Finish(s, saved)
  PROVE  AllDrafts' /\ (NoSaveLost /\ saved => NoSaveLost')
<1> USE DEF DraftsInv, ThreadedInv
<1>1. UNCHANGED <<mails, work, composed, dedup>> /\ send[s].step = "finish"  BY DEF Finish
<1>2. PICK room, o, key : room = send[s].room /\ o = send[s].obj /\ key = send[s].key  OBVIOUS
<1>3. PICK d : d = room[2]  OBVIOUS
<1>4. /\ room \in Receivers \X Tids /\ o \in Objects /\ heap[o].tid = d /\ d \in Tids
      /\ key \in Ids /\ o \in Referenced \ {NoThread}
  <2>1. Held(o) /\ room \in Receivers \X Tids /\ heap[o].tid = room[2] /\ key \in About(room[2])
    BY <1>1, <1>2 DEF ConversationsInv, AllWhole, SendWhole
  <2>2. key \in Real /\ Real \subseteq Ids  BY <2>1, RealFacts DEF ConversationsInv, About
  <2>3. QED  BY <1>2, <1>3, <2>1, <2>2, NilIsNoThread DEF Held, Referenced, NoThread
<1>5. heap[o] \in Thread  BY <1>4 DEF ConversationsInv, TypeOK, CacheTypes
<1>6. DraftObject(o) /\ SendDraft(s)  BY <1>4 DEF AllDrafts, DraftObjects
<1>7. heap[o].draft => send[s].draft
  BY <1>1, <1>2, <1>3, <1>4, <1>6 DEF DraftObject, SendDraft
<1>8. PICK th : th = SentThread(heap[o], key, send[s].draft)  OBVIOUS
<1>9. th \in Thread /\ th.tid = d /\ ~th.draft
  <2>1. send[s].draft \in BOOLEAN
    <3>1. send[s] \in SendType  BY DEF ConversationsInv, TypeOK
    <3>2. QED  BY <3>1 DEF SendType
  <2>2. QED  BY <1>4, <1>5, <1>7, <1>8, <2>1 DEF SentThread, Thread
<1>10. /\ CacheThread(room[1], o, th)
       /\ meta' = [meta EXCEPT ![room] = th]
       /\ rows' = rows \/ rows' = [rows EXCEPT ![room] = th]
       /\ saved => rows' = [rows EXCEPT ![room] = th]
       /\ posted' = posted \cup {<<room[1], d, key>>}
       /\ send' = [send EXCEPT ![s] = IdleSend]
  BY <1>2, <1>3, <1>8 DEF Finish
<1>11. /\ heap'[o] = th /\ \A p \in Objects \ {o} : heap'[p] = heap[p]
       /\ \A k \in Keys : known'[k] = known[k] \/ (known'[k] = o /\ k[2] = d)
       /\ \A i \in Ids : index'[i] = index[i] \/ index'[i] = o
       /\ \A g \in Receivers \X Tids : gmail'[g] = gmail[g] \/ gmail'[g] = o
  <2>1. PICK r \in Receivers : r = room[1]  BY <1>4
  <2>2. th.tid \in Tids /\ CacheThread(r, o, th)  BY <1>4, <1>9, <1>10, <2>1
  <2>3. QED  BY <1>4, <1>9, <2>2, CachedAt DEF ConversationsInv
<1>12. /\ ~OpenNext(d) /\ \A e : OpenNext(e) => Open(e)
       /\ \A e : e # d => (OpenNext(e) <=> Open(e))
  <2>1. posted \subseteq posted'  BY <1>10
  <2>2. <<room[1], d, key>> \in posted' /\ <<room[1], d, key>>[2] = d  BY <1>10
  <2>3. ~OpenNext(d)  BY <2>2 DEF OpenNext
  <2>4. \A p \in posted' : p \in posted \/ p[2] = d  BY <1>10, <2>2
  <2>5. QED  BY <2>1, <2>3, <2>4 DEF Open, OpenNext
<1>13. Open(d) => room \in composed
  BY <1>1, <1>2, <1>3, <1>6 DEF SendDraft
<1>14. \A p \in Referenced \ {NoThread, o} : Open(heap[p].tid) => OpenNext(heap[p].tid)
  <2>1. ASSUME NEW p \in Referenced \ {NoThread, o}, Open(heap[p].tid), heap[p].tid = d
        PROVE  FALSE
    <3>1. PICK r \in Receivers : <<r, d>> \in composed /\ known[<<r, d>>] = p
      BY <2>1 DEF AllDrafts, DraftObjects, DraftObject
    <3>2. PICK q \in Receivers : <<q, d>> \in composed /\ known[<<q, d>>] = o
      BY <1>4, <1>6, <2>1 DEF DraftObject
    <3>3. <<r, d>>[2] = <<q, d>>[2]  OBVIOUS
    <3>4. <<r, d>> = <<q, d>>  BY <3>1, <3>2, <3>3 DEF AllDrafts, ComposedOnce
    <3>5. QED  BY <3>1, <3>2, <3>4
  <2>2. QED  BY <1>12, <2>1
<1>15. BegunNext(d) /\ Begun(d)
  BY <1>1, <1>4, <1>6 DEF DraftObject, Begun, BegunNext
<1>16. send'[s] = IdleSend /\ \A q \in Senders \ {s} : send'[q] = send[q]
  BY <1>10 DEF ConversationsInv, TypeOK
<1>17. DraftObjects' /\ DraftsLed' /\ DraftsUnjoined'
  <2>1. \A q \in Senders : send'[q].obj \in {send[q].obj, o, NoThread}
    BY <1>16 DEF IdleSend
  <2>2. ~OpenNext(th.tid) /\ BegunNext(th.tid) /\ (th.draft <=> OpenNext(th.tid))
    BY <1>9, <1>12, <1>15
  <2>3. \A k \in Keys : known'[k] = known[k] \/ (known'[k] = o /\ k[2] = th.tid)
    BY <1>9, <1>11
  <2>4. QED
    BY <1>1, <1>4, <1>11, <1>12, <1>14, <2>1, <2>2, <2>3, DraftWritten
       DEF AllDrafts, ConversationsInv
<1>18. PostedBegun'
  <2>1. \A p \in posted' : p \in posted \/ p[2] = d
    <3>1. <<room[1], d, key>>[2] = d  OBVIOUS
    <3>2. QED  BY <1>10, <3>1
  <2>2. \A p \in posted' : Begun(p[2])  BY <1>15, <2>1 DEF AllDrafts, PostedBegun
  <2>3. QED  BY <1>1, <2>2 DEF PostedBegun, Begun
<1>19. /\ meta'[room] = th /\ (rows'[room] = rows[room] \/ rows'[room] = th)
       /\ saved => rows'[room] = th
       /\ \A k \in (Receivers \X Tids) \ {room} : meta'[k] = meta[k] /\ rows'[k] = rows[k]
  BY <1>4, <1>10 DEF ConversationsInv, TypeOK, StoreTypes
<1>20. DraftsSaved'
  <2>1. DraftSaved(room)'
    <3>1. DraftSaved(room)  BY <1>4 DEF AllDrafts, DraftsSaved
    <3>2. room[2] = d /\ ~OpenNext(room[2])  BY <1>3, <1>12
    <3>3. /\ rows'[room].draft => rows'[room] = DraftThread(room[2]) /\ room \in composed'
          /\ ~meta'[room].draft
      BY <1>1, <1>9, <1>19, <3>1 DEF DraftSaved
    <3>4. BegunNext(room[2])  BY <1>15, <3>2
    <3>5. QED  BY <3>2, <3>3, <3>4 DEF DraftSaved, Open, OpenNext, Begun, BegunNext, DraftThread
  <2>2. ASSUME NEW k \in (Receivers \X Tids) \ {room}  PROVE DraftSaved(k)'
    <3>1. DraftSaved(k) /\ meta'[k] = meta[k] /\ rows'[k] = rows[k]
      BY <1>19 DEF AllDrafts, DraftsSaved
    <3>2. meta[k].draft => OpenNext(k[2])
      <4>1. ASSUME meta[k].draft, k[2] = d  PROVE FALSE
        <5>1. k \in composed /\ Open(d)  BY <3>1, <4>1 DEF DraftSaved
        <5>2. QED  BY <1>3, <1>13, <4>1, <5>1 DEF AllDrafts, ComposedOnce
      <4>2. QED  BY <1>12, <3>1, <4>1 DEF DraftSaved
    <3>3. OpenNext(k[2]) => Open(k[2])  BY <1>12
    <3>4. QED
      BY <1>1, <3>1, <3>2, <3>3 DEF DraftSaved, Open, OpenNext, Begun
  <2>3. QED  BY <2>1, <2>2 DEF DraftsSaved
<1>21. NoSaveLost /\ saved => NoSaveLost'
  <2>1. ASSUME NoSaveLost, saved, NEW k \in Receivers \X Tids, rows'[k].draft
        PROVE  OpenNext(k[2])
    <3>1. k # room /\ rows[k].draft  BY <1>9, <1>19, <2>1
    <3>2. k \in composed /\ Open(k[2])
      BY <2>1, <3>1 DEF NoSaveLost, AllDrafts, DraftsSaved, DraftSaved
    <3>3. k[2] # d  BY <1>3, <1>13, <3>1, <3>2 DEF AllDrafts, ComposedOnce
    <3>4. QED  BY <1>12, <3>2, <3>3
  <2>2. QED  BY <2>1 DEF NoSaveLost, Open, OpenNext
<1>22. SendsAlone'  BY <1>16, AloneKept DEF AllDrafts, SendsAlone, IdleSend
<1>23. \A q \in Senders : SendDraft(q)'
  <2>1. SendDraft(s)'  BY <1>16 DEF SendDraft, IdleSend
  <2>2. ASSUME NEW q \in Senders \ {s}  PROVE SendDraft(q)'
    <3>1. send[q].step = "send" => send[q].room # room
      BY <1>1, <1>2, <2>2 DEF AllDrafts, SendsAlone
    <3>2. send[q].step = "send" => send[q].room \in Receivers \X Tids
      BY DEF ConversationsInv, AllWhole, SendWhole
    <3>3. posted \subseteq posted'  BY <1>10
    <3>4. QED  BY <1>1, <1>16, <1>19, <2>2, <3>1, <3>2, <3>3, SendDraftKept DEF AllDrafts
  <2>3. QED  BY <2>1, <2>2
<1>24. QED
  BY <1>1, <1>17, <1>18, <1>20, <1>21, <1>22, <1>23, DraftStores DEF AllDrafts

\* Every step keeps the drafts, and loses no save unless the save of a send fails.
LEMMA DraftsStep ==
  ASSUME DraftsInv, NEW well \in BOOLEAN, Step(well), NoSaveLost \/ well
  PROVE  /\ AllDrafts'
         /\ NoSaveLost /\ (well \/ \A s \in Senders : ~Finish(s, FALSE)) => NoSaveLost'
<1> DEFINE Goal == /\ AllDrafts'
                   /\ NoSaveLost /\ (well \/ \A s \in Senders : ~Finish(s, FALSE)) => NoSaveLost'
<1>1. ASSUME NEW w \in Workers, Process(w, well)  PROVE Goal
  BY <1>1, TakeDrafts, DetermineThreadDrafts, CacheAndPostDrafts DEF Process
<1>2. ASSUME NEW s \in Senders, Finish(s, well)  PROVE Goal
  <2>1. AllDrafts' /\ (NoSaveLost /\ well => NoSaveLost')  BY <1>2, FinishDrafts
  <2>2. CASE well  BY <2>1, <2>2
  <2>3. CASE ~well
    <3>1. well = FALSE  BY <2>3
    <3>2. Finish(s, FALSE)  BY <1>2, <3>1
    <3>3. QED  BY <2>1, <2>3, <3>2
  <2>4. QED  BY <2>2, <2>3
<1>3. ASSUME NEW s \in Senders, Outbound(s, well)  PROVE Goal
  BY <1>2, <1>3, WriteDrafts, SendFailsDrafts, SendWorksDrafts, RecordDrafts DEF Outbound
<1>4. QED
  BY <1>1, <1>3, CorrespondDrafts, ComposeDrafts, GetChatInfoDrafts, EvictDrafts, RestartDrafts
     DEF Step

\* Nothing changes when nothing does.
LEMMA DraftsStutter ==
  ASSUME DraftsInv, UNCHANGED vars
  PROVE  AllDrafts' /\ (NoSaveLost => NoSaveLost')
<1>1. UNCHANGED <<heap, known, index, gmail, work, send, posted, composed, meta, rows>>
  BY DEF vars, cache, stores
<1>2. \A d : OpenNext(d) <=> Open(d)  BY <1>1, OpenSame
<1>3. DraftObjects' /\ DraftsLed' /\ DraftsUnjoined'
  BY <1>1, DraftsKept DEF DraftsInv, AllDrafts, Referenced
<1>4. SendsAlone'  BY <1>1 DEF DraftsInv, AllDrafts, SendsAlone
<1>5. \A s \in Senders : SendDraft(s)'  BY <1>1, SendDraftKept DEF DraftsInv, AllDrafts
<1>6. QED  BY <1>1, <1>2, <1>3, <1>4, <1>5, DraftStores DEF DraftsInv, AllDrafts

\* There are no drafts at first.
LEMMA InitiallyDrafts ==
  ASSUME Init
  PROVE  AllDrafts /\ NoSaveLost
<1>1. /\ posted = {} /\ composed = {}
      /\ \A w \in Workers : work[w] = IdleWork
      /\ \A s \in Senders : send[s] = IdleSend
      /\ \A k \in Keys : known[k] = NoThread
      /\ \A i \in Ids : index[i] = NoThread
      /\ \A g \in Receivers \X Tids : gmail[g] = NoThread
      /\ \A k \in Receivers \X Tids : meta[k] = NewThread(None) /\ rows[k] = NewThread(None)
  BY DEF Init
<1>2. Referenced \subseteq {NoThread}  BY <1>1 DEF Referenced, IdleWork, IdleSend
<1>3. DraftObjects /\ DraftsLed /\ DraftsUnjoined
  BY <1>1, <1>2 DEF DraftObjects, DraftsLed, DraftsUnjoined, IdleWork
<1>4. SendsAlone /\ ComposedOnce /\ PostedBegun /\ \A s \in Senders : SendDraft(s)
  BY <1>1 DEF SendsAlone, ComposedOnce, PostedBegun, SendDraft, IdleSend
<1>5. \A k \in Receivers \X Tids : k[2] # None
  BY BoundsAreNaturals DEF Tids, None
<1>6. ~NewThread(None).draft /\ NewThread(None).tid = None /\ NewThread(None).mid = None
  BY DEF NewThread
<1>7. DraftsSaved /\ NoSaveLost
  BY <1>1, <1>5, <1>6 DEF DraftsSaved, DraftSaved, NoSaveLost
<1>8. QED  BY <1>3, <1>4, <1>7 DEF AllDrafts

\* A blank send is a draft's, and a draft in use has no mail saved.
LEMMA DraftsThreaded ==
  ASSUME DraftsInv
  PROVE  ThreadingNotLost
<1>1. ASSUME NEW s \in Senders, Blank(s)
      PROVE  rows[send[s].room].mid = None
  <2>1. send[s].draft  BY <1>1 DEF DraftsInv, ThreadedInv, AllProper, SendProper
  <2>2. QED  BY <1>1, <2>1 DEF DraftsInv, AllDrafts, SendDraft, Blank
<1>2. QED  BY <1>1 DEF ThreadingNotLost

\* RepliesThreaded holds for any number of mishaps: what a room of received mails
\* sends says what it answers (handleMatrixMessageOutbound).
THEOREM ConversationsHeaders ==
  ASSUME ~ForwardsKeepReferences
  PROVE  Spec => []RepliesThreaded
<1>1. ThreadedInv => RepliesThreaded
  BY DEF ThreadedInv, AllProper, SendProper, RepliesThreaded
<1>2. QED  BY <1>1, ThreadedInvariant, PTL

\* With at most one mishap of any kind, a room whose saved state names a mail
\* never sends one without threading headers: a failed save alone, a lost
\* eviction alone or a restart alone is survived.
THEOREM ConversationsThreading ==
  ASSUME ~ForwardsKeepReferences, MaxMishaps <= 1
  PROVE  Spec => []ThreadingNotLost
<1> DEFINE Inv == DraftsInv /\ (mishaps = 0 => NoSaveLost)
<1>1. Init => Inv
  BY InitiallyWhole, InitiallyProper, InitiallyDrafts DEF ThreadedInv, DraftsInv
<1>2. Inv /\ [Next]_vars => Inv'
  <2>1. ASSUME Inv, [Next]_vars  PROVE AllDrafts' /\ (mishaps' = 0 => NoSaveLost')
    <3>1. mishaps \in 0..MaxMishaps  BY <2>1 DEF DraftsInv, ThreadedInv, ConversationsInv, TypeOK
    <3>2. CASE UNCHANGED vars  BY <2>1, <3>2, DraftsStutter DEF vars
    <3>3. CASE Step(TRUE) /\ UNCHANGED mishaps  BY <2>1, <3>3, DraftsStep
    <3>4. CASE mishaps < MaxMishaps /\ Step(FALSE) /\ mishaps' = mishaps + 1
      <4>1. mishaps = 0 /\ mishaps' # 0  BY <3>1, <3>4, BoundsAreNaturals
      <4>2. AllDrafts'  BY <2>1, <3>4, <4>1, DraftsStep
      <4>3. QED  BY <4>1, <4>2
    <3>5. QED  BY <2>1, <3>2, <3>3, <3>4 DEF Next
  <2>2. QED
    BY <2>1, WholeStep, TypeStep, ProperStep DEF DraftsInv, ThreadedInv, ConversationsInv
<1>3. Inv => ThreadingNotLost  BY DraftsThreaded
<1>4. QED  BY <1>1, <1>2, <1>3, PTL DEF Spec

\* Portal.Save succeeds at the end of every send.
SavesWork == \A s \in Senders : ~Finish(s, FALSE)

\* ... and as long as the save at the end of every send succeeds, after any
\* number of restarts, evictions and failed lookups.
THEOREM ConversationsThreadingSaved ==
  ASSUME ~ForwardsKeepReferences
  PROVE  Spec /\ [][SavesWork]_vars => []ThreadingNotLost
<1> DEFINE Inv == DraftsInv /\ NoSaveLost
<1>1. Init => Inv
  BY InitiallyWhole, InitiallyProper, InitiallyDrafts DEF ThreadedInv, DraftsInv
<1>2. Inv /\ [Next]_vars /\ [SavesWork]_vars => Inv'
  <2>1. ASSUME Inv, [Next]_vars, [SavesWork]_vars  PROVE AllDrafts' /\ NoSaveLost'
    <3>1. CASE UNCHANGED vars  BY <2>1, <3>1, DraftsStutter
    <3>2. CASE SavesWork /\ Step(TRUE)  BY <2>1, <3>2, DraftsStep DEF SavesWork
    <3>3. CASE SavesWork /\ Step(FALSE)  BY <2>1, <3>3, DraftsStep DEF SavesWork
    <3>4. QED  BY <2>1, <3>1, <3>2, <3>3 DEF Next
  <2>2. QED
    BY <2>1, WholeStep, TypeStep, ProperStep DEF DraftsInv, ThreadedInv, ConversationsInv
<1>3. Inv => ThreadingNotLost  BY DraftsThreaded
<1>4. QED  BY <1>1, <1>2, <1>3, PTL DEF Spec
=============================================================================
