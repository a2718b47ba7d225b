---------------------------- MODULE EmailRunProofs ----------------------------
(***************************************************************************)
(* Theorems about the email pipeline, for any accounts and mailboxes, any  *)
(* number of runs at the same time and any number of failures.             *)
(***************************************************************************)
EXTENDS EmailRun, FiniteSetTheorems, TLAPS

-----------------------------------------------------------------------------
(* The inductive invariant: mailboxes.                                     *)

\* INBOX has messages of the mailbox, each of them once; only those bear a mark.
MailboxSound(a) ==
    /\ Len(mail[a]) <= MaxMail
    /\ Len(inbox[a]) <= Len(mail[a])
    /\ \A k \in DOMAIN inbox[a] : inbox[a][k] \in DOMAIN mail[a]
    /\ \A k, l \in DOMAIN inbox[a] : inbox[a][k] = inbox[a][l] => k = l
    /\ marked[a] \subseteq DOMAIN mail[a]

\* Documents are of attachments that have arrived.
DocumentsArrived == \A att \in Attachments : uploads[att] > 0 => Arrived(att)

-----------------------------------------------------------------------------
(* The inductive invariant: the state r of a process.                      *)

Hand(r) == r.items \cup r.accepted
Account(r) == Head(r.queue)

\* What a process holds at each place of its turn.
TurnSound(r) ==
    /\ r.pc \notin {"idle", "connect"} => r.queue # <<>>
    /\ r.pc \in {"idle", "connect", "search"} => r.todo = {} /\ r.page = {}
    /\ r.pc \notin {"collect", "item", "upload"} => Hand(r) = {}
    /\ r.pc \notin {"item", "upload", "mark"} => r.saved = {}
    /\ r.pc # "upload" => r.accepted = {}
    /\ r.items \cap r.accepted = {}
    /\ r.saved \subseteq r.page

\* It works through the mailbox, with each attachment of its page at hand once at most.
ItemsSound(r) ==
    /\ r.queue # <<>> => r.todo \cup r.page \subseteq DOMAIN mail[Account(r)]
    /\ \A item \in Hand(r) : /\ item[1][1] = Account(r)
                             /\ item[2] \in r.page
                             /\ Arrived(item[1])
    /\ \A x, y \in Hand(r) : x[1] = y[1] => x = y
    /\ r.pc = "collect" => \A item \in r.items : KindOf(item[1]) # "huge"

Sound(r) == r \in RunState /\ TurnSound(r) /\ ItemsSound(r)

Structure ==
    /\ TypeOK
    /\ \A a \in Accounts : MailboxSound(a)
    /\ DocumentsArrived
    /\ \A p \in Processes : Sound(run[p])

\* An attachment that need not be kept any more.
Settled(att) == Eligible(att) => uploads[att] > 0 \/ att \in rejected

(***************************************************************************)
(* The mailbox the page of a process was fetched from, and the UIDs of the *)
(* page it has taken up: what is eligible of their messages is settled or  *)
(* at hand.  In a turn no call of which has opened INBOX for the mailbox,  *)
(* a UID means one message.                                                *)
(***************************************************************************)
PageBox(p) == Box(Current(p), p \in elsewhere)
TakenUp(r) == r.saved \cup {item[2] : item \in Hand(r)}

Covers(p) ==
    run[p].queue # <<>> =>
        /\ Current(p) \notin strayed => \A item \in Hand(run[p]) : item[1][2] = item[2]
        /\ \A u \in TakenUp(run[p]) :
            /\ u \in DOMAIN PageBox(p)
            /\ \A att \in AttachmentsOf(Current(p), PageBox(p)[u]) :
                    Settled(att) \/ <<att, u>> \in Hand(run[p])
        /\ run[p].pc \in {"collect", "item", "upload", "mark"} /\ p \in elsewhere =>
            Current(p) \in strayed

\* A message that was not marked for another's sake has been dealt with.
MarkedSettled ==
    \A a \in Accounts : \A u \in marked[a] : <<a, u>> \notin mistaken =>
        \A att \in AttachmentsOf(a, u) : Settled(att)

Covered == MarkedSettled /\ \A p \in Processes : Covers(p)

-----------------------------------------------------------------------------
(* The inductive invariant: copies of a document.                          *)

Turn(r, att) == r.queue # <<>> /\ Account(r) = att[1]
Holds(r, att) == \E item \in Hand(r) : item[1] = att

\* A process may still upload the attachment in its turn,
IsPending(r, att) ==
    /\ Turn(r, att)
    /\ \/ Holds(r, att)
       \/ att[2] \in r.todo /\ r.saved = {}
       \/ att[2] \in r.page /\ r.pc = "fetch"

\* or is to mark the message and has no more of the attachment at hand;
IsMarking(r, att) == Turn(r, att) /\ att[2] \in r.saved /\ ~Holds(r, att)

\* it has it at hand by a UID of another mailbox.
IsAstray(r, att) == Turn(r, att) /\ \E item \in Hand(r) : item[1] = att /\ item[2] # att[2]

Pending(att) == {p \in Processes : IsPending(run[p], att)}
Marking(att) == {p \in Processes : IsMarking(run[p], att)}
Astray(att) == {p \in Processes : IsAstray(run[p], att)}

(***************************************************************************)
(* As long as the message is not marked, each copy is due to a process     *)
(* that is about to mark it or to a fault; once it is, no process begins   *)
(* that was not pending.                                                   *)
(***************************************************************************)
CopiesCounted(att) ==
    IF att[2] \in marked[att[1]]
    THEN uploads[att] + Cardinality(Pending(att)) <= Cardinality(Processes) + faults
    ELSE uploads[att] + Cardinality(Astray(att)) <= Cardinality(Marking(att)) + faults

Counted == Labelling => \A att \in Attachments : att[1] \in Gmail => CopiesCounted(att)

-----------------------------------------------------------------------------
(* Mailboxes and attachments.                                              *)

LEMMA MailTyped ==
    ASSUME TypeOK, NEW a \in Accounts
    PROVE  /\ mail[a] \in Seq(Bodies) /\ inbox[a] \in Seq(Uids)
           /\ Len(mail[a]) \in Nat /\ Len(inbox[a]) \in Nat
           /\ DOMAIN mail[a] = 1 .. Len(mail[a])
           /\ DOMAIN inbox[a] = 1 .. Len(inbox[a])
           /\ \A u \in DOMAIN mail[a] :
                  /\ mail[a][u] \in Bodies
                  /\ Attached(a, u) \subseteq 1 .. MaxParts
<1>1. mail[a] \in Seq(Bodies) /\ inbox[a] \in Seq(Uids)
  BY DEF TypeOK
<1>2. /\ Len(mail[a]) \in Nat /\ Len(inbox[a]) \in Nat
      /\ DOMAIN mail[a] = 1 .. Len(mail[a])
      /\ DOMAIN inbox[a] = 1 .. Len(inbox[a])
  BY <1>1
<1>3. ASSUME NEW u \in DOMAIN mail[a]
      PROVE  /\ mail[a][u] \in Bodies
             /\ Attached(a, u) \subseteq 1 .. MaxParts
  <2>1. mail[a][u] \in Bodies
    BY <1>1
  <2>2. PICK n \in 0 .. MaxParts : Parts[mail[a][u]] \in [1 .. n -> MimeParts]
    BY <2>1, BodyAssumption
  <2>3. 1 .. n \subseteq 1 .. MaxParts
    BY BoundAssumption
  <2>4. Asked[mail[a][u]] \subseteq DOMAIN Parts[mail[a][u]]
    BY <2>1 DEF Asked
  <2> QED
    BY <2>1, <2>2, <2>3, <2>4 DEF Attached
<1> QED
  BY <1>1, <1>2, <1>3

LEMMA ArrivedAre ==
    ASSUME NEW att \in Attachments
    PROVE  /\ att = <<att[1], att[2], att[3]>>
           /\ att[1] \in Accounts /\ att[2] \in Uids /\ att[3] \in 1 .. MaxParts
BY DEF Attachments

LEMMA AttachmentsAre ==
    ASSUME TypeOK, NEW a \in Accounts, MailboxSound(a), NEW u \in DOMAIN mail[a]
    PROVE  /\ u \in Uids
           /\ \A i \in Attached(a, u) : <<a, u, i>> \in Attachments
           /\ AttachmentsOf(a, u) \subseteq Attachments
           /\ \A att \in Attachments :
                  att \in AttachmentsOf(a, u) <=> att[1] = a /\ att[2] = u /\ Arrived(att)
<1>1. u \in 1 .. Len(mail[a]) /\ Len(mail[a]) <= MaxMail /\ Len(mail[a]) \in Nat
  BY MailTyped DEF MailboxSound
<1>2. u \in Uids
  BY <1>1, BoundAssumption DEF Uids
<1>3. \A i \in Attached(a, u) : <<a, u, i>> \in Attachments
  BY <1>2, MailTyped DEF Attachments
<1>4. AttachmentsOf(a, u) \subseteq Attachments
  BY <1>3 DEF AttachmentsOf
<1>5. ASSUME NEW att \in Attachments
      PROVE  att \in AttachmentsOf(a, u) <=> att[1] = a /\ att[2] = u /\ Arrived(att)
  BY ArrivedAre DEF AttachmentsOf, Arrived
<1> QED
  BY <1>2, <1>3, <1>4, <1>5

\* A box gives each of its UIDs a message of its own.
LEMMA BoxSound ==
    ASSUME TypeOK, NEW a \in Accounts, MailboxSound(a), NEW fallback \in BOOLEAN
    PROVE  LET box == Box(a, fallback) IN
           /\ DOMAIN box \subseteq DOMAIN mail[a]
           /\ \A u \in DOMAIN box : box[u] \in DOMAIN mail[a]
           /\ \A u, v \in DOMAIN box : box[u] = box[v] => u = v
           /\ ~fallback => DOMAIN box = DOMAIN mail[a] /\ \A u \in DOMAIN box : box[u] = u
<1>1. CASE fallback
  <2>1. Box(a, fallback) = inbox[a]
    BY <1>1 DEF Box
  <2>2. 1 .. Len(inbox[a]) \subseteq 1 .. Len(mail[a])
    BY MailTyped DEF MailboxSound
  <2> QED
    BY <1>1, <2>1, <2>2, MailTyped DEF MailboxSound
<1>2. CASE ~fallback
  BY <1>2 DEF Box
<1> QED
  BY <1>1, <1>2

LEMMA PartsAre ==
    ASSUME NEW a, NEW box, NEW uids
    PROVE  \A item : item \in PartsOf(a, box, uids) <=>
               \E u \in uids \cap DOMAIN box : \E i \in Attached(a, box[u]) :
                   item = <<<<a, box[u], i>>, u>>
BY DEF PartsOf, AttachmentsOf

\* What a page has for attachments, in a box of the mailbox.
PageParts(a, fallback, uids) == PartsOf(a, Box(a, fallback), uids)

LEMMA PartsSound ==
    ASSUME TypeOK, NEW a \in Accounts, MailboxSound(a), NEW fallback \in BOOLEAN,
           NEW uids \in SUBSET Uids
    PROVE  /\ PageParts(a, fallback, uids) \subseteq Items
           /\ \A item \in PageParts(a, fallback, uids) :
                                  /\ item[1][1] = a
                                  /\ item[2] \in uids
                                  /\ Arrived(item[1])
                                  /\ ~fallback => item[1][2] = item[2]
           /\ \A x, y \in PageParts(a, fallback, uids) : x[1] = y[1] => x = y
           /\ ~fallback => \A u \in uids \cap DOMAIN mail[a] : \A att \in AttachmentsOf(a, u) :
                              <<att, u>> \in PageParts(a, fallback, uids)
<1> DEFINE box == Box(a, fallback)
<1>1. /\ \A u \in DOMAIN box : box[u] \in DOMAIN mail[a]
      /\ \A u, v \in DOMAIN box : box[u] = box[v] => u = v
      /\ ~fallback => DOMAIN box = DOMAIN mail[a] /\ \A u \in DOMAIN box : box[u] = u
  BY BoxSound
<1>0. PageParts(a, fallback, uids) = PartsOf(a, box, uids)
  BY DEF PageParts
<1> HIDE DEF box
<1>2. ASSUME NEW item \in PageParts(a, fallback, uids)
      PROVE  \E u \in uids \cap DOMAIN box : \E i \in Attached(a, box[u]) :
                   item = <<<<a, box[u], i>>, u>>
  BY <1>0, <1>2, PartsAre
<1>3. ASSUME NEW item \in PageParts(a, fallback, uids)
      PROVE  /\ item \in Items
             /\ item[1][1] = a
             /\ item[2] \in uids
             /\ Arrived(item[1])
             /\ ~fallback => item[1][2] = item[2]
  <2>1. PICK u \in uids \cap DOMAIN box : \E i \in Attached(a, box[u]) :
                   item = <<<<a, box[u], i>>, u>>
    BY <1>2
  <2>2. PICK i \in Attached(a, box[u]) : item = <<<<a, box[u], i>>, u>>
    BY <2>1
  <2>3. <<a, box[u], i>> \in Attachments
    BY <1>1, AttachmentsAre
  <2> QED
    BY <1>1, <2>1, <2>2, <2>3 DEF Items, Arrived
<1>4. ASSUME NEW x \in PageParts(a, fallback, uids), NEW y \in PageParts(a, fallback, uids), x[1] = y[1]
      PROVE  x = y
  <2>1. PICK u \in uids \cap DOMAIN box : \E i \in Attached(a, box[u]) :
                   x = <<<<a, box[u], i>>, u>>
    BY <1>2
  <2>2. PICK v \in uids \cap DOMAIN box : \E i \in Attached(a, box[v]) :
                   y = <<<<a, box[v], i>>, v>>
    BY <1>2
  <2>3. box[u] = box[v]
    BY <1>4, <2>1, <2>2
  <2> QED
    BY <1>1, <1>4, <2>1, <2>2, <2>3
<1>5. ASSUME ~fallback, NEW u \in uids \cap DOMAIN mail[a], NEW att \in AttachmentsOf(a, u)
      PROVE  <<att, u>> \in PageParts(a, fallback, uids)
  <2>1. box[u] = u /\ u \in DOMAIN box
    BY <1>1, <1>5
  <2>2. PICK i \in Attached(a, u) : att = <<a, u, i>>
    BY DEF AttachmentsOf
  <2> QED
    BY <1>0, <2>1, <2>2, PartsAre
<1>6. PageParts(a, fallback, uids) \subseteq Items
  BY <1>3
<1>7. \A item \in PageParts(a, fallback, uids) :
            /\ item[1][1] = a
            /\ item[2] \in uids
            /\ Arrived(item[1])
            /\ ~fallback => item[1][2] = item[2]
  BY <1>3
<1>8. \A x, y \in PageParts(a, fallback, uids) : x[1] = y[1] => x = y
  BY <1>4
<1>9. ~fallback => \A u \in uids \cap DOMAIN mail[a] : \A att \in AttachmentsOf(a, u) :
                              <<att, u>> \in PageParts(a, fallback, uids)
  BY <1>5
<1> QED
  BY <1>6, <1>7, <1>8, <1>9

-----------------------------------------------------------------------------
(* The state a step leaves a process in.                                   *)

\* The state of a process, but for the pool and the tries.
Is(r, pc, queue, todo, page, items, accepted, saved) ==
    /\ r \in RunState
    /\ r.pc = pc /\ r.queue = queue
    /\ r.todo = todo /\ r.page = page
    /\ r.items = items /\ r.accepted = accepted /\ r.saved = saved

\* Between two turns: nothing is at hand.
Rests(r) ==
    /\ r \in RunState
    /\ r.pc \in {"idle", "connect", "search"}
    /\ r.pc = "search" => r.queue # <<>>
    /\ r.todo = {} /\ r.page = {}
    /\ r.items = {} /\ r.accepted = {} /\ r.saved = {}

LEMMA OrderTyped == Order \in Seq(Accounts)
BY OrderAssumption

LEMMA StoppedRests == Rests(Stopped)
BY BoundAssumption DEF Rests, Stopped, RunState, PCs, Items

LEMMA RunTyped ==
    ASSUME Structure, NEW p \in Processes
    PROVE  /\ run[p] \in RunState
           /\ run[p].queue # <<>> => /\ Current(p) \in Accounts
                                     /\ Current(p) = Account(run[p])
                                     /\ MailboxSound(Current(p))
                                     /\ Tail(run[p].queue) \in Seq(Accounts)
<1>1. run[p] \in RunState
  BY DEF Structure, TypeOK
<1>2. run[p].queue \in Seq(Accounts)
  BY <1>1 DEF RunState
<1> QED
  BY <1>1, <1>2 DEF Structure, Current, Account

LEMMA NextAccountRests ==
    ASSUME Structure, NEW p \in Processes, run[p].queue # <<>>
    PROVE  Rests(NextAccount(p))
<1>1. run[p] \in RunState /\ Tail(run[p].queue) \in Seq(Accounts)
  BY RunTyped
<1> QED
  BY <1>1, StoppedRests DEF Rests, NextAccount, Stopped, RunState, PCs

LEMMA GoesTo ==
    ASSUME Structure, NEW p \in Processes, NEW r \in RunState, Goes(p, r)
    PROVE  /\ run' \in [Processes -> RunState]
           /\ run'[p] = r
           /\ \A q \in Processes : q # p => run'[q] = run[q]
BY DEF Structure, TypeOK, Goes

\* One process moves, into a sound state of its turn.
Moves(p) ==
    /\ run' \in [Processes -> RunState]
    /\ Sound(run'[p])
    /\ \A q \in Processes : q # p => run'[q] = run[q]

LEMMA RestsSound ==
    ASSUME NEW r, Rests(r)
    PROVE  Sound(r)
<1>1. r.queue # <<>> => Account(r) \in Accounts
  BY DEF Rests, RunState, Account
<1> QED
  BY <1>1 DEF Rests, Sound, TurnSound, ItemsSound, Hand

LEMMA RestMoves ==
    ASSUME Structure, NEW p \in Processes, NEW r, Rests(r), Goes(p, r)
    PROVE  Moves(p) /\ run'[p] = r
<1>1. r \in RunState
  BY DEF Rests
<1> QED
  BY <1>1, GoesTo, RestsSound DEF Moves

-----------------------------------------------------------------------------
(* What each step does with the state of its process.                      *)

Queued(p) == run[p].queue # <<>>
\* The process goes on with its page.
GoesOn(p, pc, items, accepted, saved) ==
    Is(run'[p], pc, run[p].queue, run[p].todo, run[p].page, items, accepted, saved)

LEMMA StartRunMoves ==
    ASSUME Structure, NEW p \in Processes, StartRun(p)
    PROVE  run' \in [Processes -> RunState] /\ Rests(run'[p])
<1> DEFINE r == [Stopped EXCEPT !.pc = "connect", !.queue = Order]
<1>1. Rests(r)
  BY StoppedRests, OrderTyped DEF Rests, Stopped, RunState, PCs
<1> QED
  BY <1>1, RestMoves DEF StartRun, Moves

LEMMA ConnectMoves ==
    ASSUME Structure, NEW p \in Processes, Connect(p)
    PROVE  Queued(p) /\ Rests(run'[p])
<1> DEFINE r == [run[p] EXCEPT !.pc = "search", !.pool = @ \cup {Address[Current(p)]}]
<1>1. run[p].queue # <<>> /\ Current(p) \in Accounts /\ run[p] \in RunState
  BY RunTyped DEF Connect, Takes
<1>2. /\ run[p].pc = "connect"
      /\ run[p].todo = {} /\ run[p].page = {} /\ run[p].saved = {}
      /\ run[p].items = {} /\ run[p].accepted = {}
  BY DEF Connect, Takes, At, Structure, Sound, TurnSound, Hand
<1>3. run[p].pool \cup {Address[Current(p)]} \in SUBSET {Address[a] : a \in Accounts}
  BY <1>1 DEF RunState
<1>4. r \in RunState
  BY <1>1, <1>3 DEF RunState, PCs
<1>5. Rests(r)
  BY <1>1, <1>2, <1>4 DEF Rests, RunState
<1> QED
  BY <1>1, <1>5, RestMoves DEF Connect, Queued, Moves

LEMMA SearchMoves ==
    ASSUME Structure, NEW p \in Processes, Search(p)
    PROVE  /\ Queued(p)
           /\ \E fallback \in BOOLEAN :
                  /\ Open(p, fallback)
                  /\ Is(run'[p], "page", run[p].queue,
                        Uid(Box(Current(p), fallback), Matches(Current(p))), {}, {}, {}, {})
<1>1. run[p].queue # <<>> /\ run[p] \in RunState /\ Current(p) \in Accounts /\ MailboxSound(Current(p))
  BY RunTyped DEF Search, At, Structure, Sound, TurnSound
<1>2. /\ run[p].pc = "search"
      /\ run[p].todo = {} /\ run[p].page = {} /\ run[p].saved = {}
      /\ run[p].items = {} /\ run[p].accepted = {}
  BY DEF Search, At, Structure, Sound, TurnSound, Hand
<1>3. PICK fallback \in BOOLEAN :
        /\ Open(p, fallback)
        /\ Goes(p, [run[p] EXCEPT !.pc = "page", !.tries = 0,
                      !.todo = Uid(Box(Current(p), fallback), Matches(Current(p)))])
  BY DEF Search
<1> DEFINE todo == Uid(Box(Current(p), fallback), Matches(Current(p)))
<1>4. todo \in SUBSET Uids
  <2>1. todo \subseteq DOMAIN Box(Current(p), fallback)
    BY DEF Uid
  <2>2. DOMAIN Box(Current(p), fallback) \subseteq DOMAIN mail[Current(p)]
    BY <1>1, BoxSound DEF Structure
  <2>3. DOMAIN mail[Current(p)] \subseteq Uids
    BY <1>1, AttachmentsAre DEF Structure
  <2> QED
    BY <2>1, <2>2, <2>3
<1> HIDE DEF todo
<1> DEFINE r == [run[p] EXCEPT !.pc = "page", !.tries = 0, !.todo = todo]
<1>5. Is(r, "page", run[p].queue, todo, {}, {}, {}, {})
  <2>1. "page" \in PCs /\ 0 \in 0 .. Retries
    BY BoundAssumption DEF PCs
  <2>2. r \in RunState
    BY <1>1, <1>4, <2>1 DEF RunState
  <2>3. /\ r.pc = "page" /\ r.queue = run[p].queue /\ r.todo = todo /\ r.page = run[p].page
        /\ r.items = run[p].items /\ r.accepted = run[p].accepted /\ r.saved = run[p].saved
    BY <1>1 DEF RunState
  <2> QED
    BY <1>2, <2>2, <2>3 DEF Is
<1>6. Goes(p, r)
  BY <1>3 DEF todo
<1>7. run'[p] = r
  BY <1>5, <1>6, GoesTo DEF Is
<1>8. Is(run'[p], "page", run[p].queue, todo, {}, {}, {}, {})
  BY <1>5, <1>7
<1> QED
  BY <1>1, <1>3, <1>8 DEF Queued, todo

LEMMA SearchFailsMoves ==
    ASSUME Structure, NEW p \in Processes, SearchFails(p)
    PROVE  /\ Queued(p)
           /\ \/ Rests(run'[p])
              \/ Is(run'[p], "page", run[p].queue, {}, {}, {}, {}, {})
<1>1. run[p].queue # <<>> /\ run[p] \in RunState
  BY RunTyped DEF SearchFails, At, Structure, Sound, TurnSound
<1>2. /\ run[p].pc = "search"
      /\ run[p].todo = {} /\ run[p].page = {} /\ run[p].saved = {}
      /\ run[p].items = {} /\ run[p].accepted = {}
  BY DEF SearchFails, At, Structure, Sound, TurnSound, Hand
<1>3. CASE run[p].tries < Retries /\ Goes(p, [run[p] EXCEPT !.tries = @ + 1])
  <2> DEFINE r == [run[p] EXCEPT !.tries = @ + 1]
  <2>1. run[p].tries + 1 \in 0 .. Retries
    BY <1>1, <1>3, BoundAssumption DEF RunState
  <2>2. Rests(r)
    BY <1>1, <1>2, <2>1 DEF Rests, RunState
  <2> QED
    BY <1>1, <1>3, <2>2, RestMoves DEF Queued
<1>4. CASE Goes(p, [run[p] EXCEPT !.pc = "page", !.tries = 0, !.todo = {}])
  <2> DEFINE r == [run[p] EXCEPT !.pc = "page", !.tries = 0, !.todo = {}]
  <2>1. Is(r, "page", run[p].queue, {}, {}, {}, {}, {})
    <3>1. "page" \in PCs /\ 0 \in 0 .. Retries
      BY BoundAssumption DEF PCs
    <3>2. r \in RunState
      BY <1>1, <3>1 DEF RunState
    <3>3. /\ r.pc = "page" /\ r.queue = run[p].queue /\ r.todo = {} /\ r.page = run[p].page
          /\ r.items = run[p].items /\ r.accepted = run[p].accepted /\ r.saved = run[p].saved
      BY <1>1 DEF RunState
    <3> QED
      BY <1>2, <3>2, <3>3 DEF Is
  <2>2. run'[p] = r
    BY <1>4, <2>1, GoesTo DEF Is
  <2> QED
    BY <1>1, <2>1, <2>2 DEF Queued
<1> QED
  BY <1>3, <1>4 DEF SearchFails

LEMMA NextPageMoves ==
    ASSUME Structure, NEW p \in Processes, NextPage(p)
    PROVE  /\ Queued(p)
           /\ run[p].saved = {}
           /\ \/ Rests(run'[p])
              \/ Is(run'[p], "fetch", run[p].queue, run[p].todo \ FirstPage(run[p].todo),
                    FirstPage(run[p].todo), {}, {}, {})
<1> DEFINE page == FirstPage(run[p].todo)
<1>1. run[p].queue # <<>> /\ run[p] \in RunState
  BY RunTyped DEF NextPage, At, Structure, Sound, TurnSound
<1>2. run[p].saved = {} /\ run[p].items = {} /\ run[p].accepted = {}
  BY DEF NextPage, At, Structure, Sound, TurnSound, Hand
<1>3. page \subseteq run[p].todo
  BY DEF FirstPage
<1> HIDE DEF page
<1>4. CASE page = {} /\ AccountDone(p)
  BY <1>1, <1>2, <1>4, NextAccountRests, RestMoves DEF AccountDone, Queued
<1>5. CASE Goes(p, [run[p] EXCEPT !.pc = "fetch", !.tries = 0, !.items = {}, !.saved = {},
                                  !.page = page, !.todo = @ \ page])
  <2> DEFINE r == [run[p] EXCEPT !.pc = "fetch", !.tries = 0, !.items = {}, !.saved = {},
                                 !.page = page, !.todo = @ \ page]
  <2>1. run[p].todo \in SUBSET Uids /\ page \in SUBSET Uids
    BY <1>1, <1>3 DEF RunState
  <2>2. Is(r, "fetch", run[p].queue, run[p].todo \ page, page, {}, {}, {})
    <3>1. "fetch" \in PCs /\ 0 \in 0 .. Retries
      BY BoundAssumption DEF PCs
    <3>2. r \in RunState
      BY <1>1, <2>1, <3>1 DEF RunState
    <3>3. /\ r.pc = "fetch" /\ r.queue = run[p].queue /\ r.todo = run[p].todo \ page
          /\ r.page = page /\ r.items = {} /\ r.accepted = run[p].accepted /\ r.saved = {}
      BY <1>1 DEF RunState
    <3> QED
      BY <1>2, <3>2, <3>3 DEF Is
  <2>3. run'[p] = r
    BY <1>5, <2>2, GoesTo DEF Is
  <2> QED
    BY <1>1, <1>2, <2>2, <2>3 DEF Queued, page
<1> QED
  BY <1>4, <1>5 DEF NextPage, page

LEMMA FetchMoves ==
    ASSUME Structure, NEW p \in Processes, Fetch(p)
    PROVE  /\ Queued(p)
           /\ run[p].pc = "fetch"
           /\ \E fallback \in BOOLEAN :
                  /\ Open(p, fallback)
                  /\ elsewhere' = IF fallback THEN elsewhere \cup {p} ELSE elsewhere \ {p}
                  /\ GoesOn(p, "collect",
                            {item \in PageParts(Current(p), fallback, run[p].page) : KindOf(item[1]) # "huge"},
                            {}, {})
<1>1. run[p].queue # <<>> /\ run[p] \in RunState /\ Current(p) \in Accounts /\ MailboxSound(Current(p))
  BY RunTyped DEF Fetch, At, Structure, Sound, TurnSound
<1>2. run[p].pc = "fetch" /\ run[p].saved = {} /\ run[p].accepted = {}
  BY DEF Fetch, At, Structure, Sound, TurnSound, Hand
<1>3. PICK fallback \in BOOLEAN :
        /\ Open(p, fallback)
        /\ Goes(p, [run[p] EXCEPT !.pc = "collect", !.tries = 0,
             !.items = {item \in PartsOf(Current(p), Box(Current(p), fallback), run[p].page) :
                            KindOf(item[1]) # "huge"}])
        /\ elsewhere' = IF fallback THEN elsewhere \cup {p} ELSE elsewhere \ {p}
  BY DEF Fetch
<1> DEFINE items == {item \in PageParts(Current(p), fallback, run[p].page) : KindOf(item[1]) # "huge"}
<1>4. items \in SUBSET Items
  <2>1. run[p].page \in SUBSET Uids
    BY <1>1 DEF RunState
  <2>2. PageParts(Current(p), fallback, run[p].page) \subseteq Items
    BY <1>1, <2>1, PartsSound DEF Structure
  <2> QED
    BY <2>2
<1>5. Goes(p, [run[p] EXCEPT !.pc = "collect", !.tries = 0, !.items = items])
  BY <1>3 DEF PageParts
<1> HIDE DEF items
<1> DEFINE r == [run[p] EXCEPT !.pc = "collect", !.tries = 0, !.items = items]
<1>6. Is(r, "collect", run[p].queue, run[p].todo, run[p].page, items, {}, {})
  <2>1. "collect" \in PCs /\ 0 \in 0 .. Retries
    BY BoundAssumption DEF PCs
  <2>2. r \in RunState
    BY <1>1, <1>4, <2>1 DEF RunState
  <2>3. /\ r.pc = "collect" /\ r.queue = run[p].queue /\ r.todo = run[p].todo /\ r.page = run[p].page
        /\ r.items = items /\ r.accepted = run[p].accepted /\ r.saved = run[p].saved
    BY <1>1 DEF RunState
  <2> QED
    BY <1>2, <2>2, <2>3 DEF Is
<1>7. run'[p] = r
  BY <1>5, <1>6, GoesTo DEF Is
<1>8. GoesOn(p, "collect", items, {}, {})
  BY <1>6, <1>7 DEF GoesOn
<1> QED
  BY <1>1, <1>2, <1>3, <1>8 DEF Queued, items

LEMMA FetchFailsMoves ==
    ASSUME Structure, NEW p \in Processes, FetchFails(p) \/ FetchMissing(p)
    PROVE  /\ Queued(p)
           /\ \E pc \in {"fetch", "page"} : GoesOn(p, pc, {}, {}, {})
<1>1. run[p].queue # <<>> /\ run[p] \in RunState
  BY RunTyped DEF FetchFails, FetchMissing, At, Structure, Sound, TurnSound
<1>2. /\ run[p].pc = "fetch" /\ run[p].saved = {}
      /\ run[p].items = {} /\ run[p].accepted = {}
  BY DEF FetchFails, FetchMissing, At, Structure, Sound, TurnSound, Hand
<1>3. CASE run[p].tries < Retries
  <2> DEFINE r == [run[p] EXCEPT !.tries = @ + 1]
  <2>1. Goes(p, r)
    BY <1>3 DEF FetchFails, FetchMissing, TriesAgain
  <2>2. run[p].tries + 1 \in 0 .. Retries
    BY <1>1, <1>3, BoundAssumption DEF RunState
  <2>3. r \in RunState
    BY <1>1, <2>2 DEF RunState
  <2>4. /\ r.pc = run[p].pc /\ r.queue = run[p].queue /\ r.todo = run[p].todo /\ r.page = run[p].page
        /\ r.items = run[p].items /\ r.accepted = run[p].accepted /\ r.saved = run[p].saved
    BY <1>1 DEF RunState
  <2>5. run'[p] = r
    BY <2>1, <2>3, GoesTo
  <2> QED
    BY <1>1, <1>2, <2>3, <2>4, <2>5 DEF Queued, GoesOn, Is
<1>4. CASE ~(run[p].tries < Retries)
  <2> DEFINE r == [run[p] EXCEPT !.pc = "page", !.tries = 0]
  <2>1. Goes(p, r)
    BY <1>4 DEF FetchFails, FetchMissing, TriesAgain
  <2>2. "page" \in PCs /\ 0 \in 0 .. Retries
    BY BoundAssumption DEF PCs
  <2>3. r \in RunState
    BY <1>1, <2>2 DEF RunState
  <2>4. /\ r.pc = "page" /\ r.queue = run[p].queue /\ r.todo = run[p].todo /\ r.page = run[p].page
        /\ r.items = run[p].items /\ r.accepted = run[p].accepted /\ r.saved = run[p].saved
    BY <1>1 DEF RunState
  <2>5. run'[p] = r
    BY <2>1, <2>3, GoesTo
  <2> QED
    BY <1>1, <1>2, <2>3, <2>4, <2>5 DEF Queued, GoesOn, Is
<1> QED
  BY <1>3, <1>4

LEMMA CollectMoves ==
    ASSUME Structure, NEW p \in Processes, Collect(p)
    PROVE  /\ Queued(p)
           /\ run[p].pc = "collect"
           /\ GoesOn(p, "item", EligibleItems(run[p].items), {}, {})
<1> DEFINE items == EligibleItems(run[p].items)
<1>1. run[p].queue # <<>> /\ run[p] \in RunState
  BY RunTyped DEF Collect, At, Structure, Sound, TurnSound
<1>2. run[p].pc = "collect" /\ run[p].saved = {} /\ run[p].accepted = {}
  BY DEF Collect, At, Structure, Sound, TurnSound
<1>3. Goes(p, [run[p] EXCEPT !.pc = "item", !.items = items])
  BY DEF Collect
<1>4. items \in SUBSET Items
  BY <1>1 DEF EligibleItems, RunState
<1> HIDE DEF items
<1> DEFINE r == [run[p] EXCEPT !.pc = "item", !.items = items]
<1>5. r \in RunState
  BY <1>1, <1>4 DEF RunState, PCs
<1>6. /\ r.pc = "item" /\ r.queue = run[p].queue /\ r.todo = run[p].todo /\ r.page = run[p].page
      /\ r.items = items /\ r.accepted = run[p].accepted /\ r.saved = run[p].saved
  BY <1>1 DEF RunState
<1>7. run'[p] = r
  BY <1>3, <1>5, GoesTo
<1> QED
  BY <1>1, <1>2, <1>5, <1>6, <1>7 DEF Queued, GoesOn, Is, items

LEMMA JudgeMoves ==
    ASSUME Structure, NEW p \in Processes, NEW item \in run[p].items, Judge(p, item)
    PROVE  /\ Queued(p)
           /\ run[p].pc = "item" /\ run[p].accepted = {}
           /\ \/ /\ GoesOn(p, "upload", run[p].items \ {item}, {item}, run[p].saved)
                 /\ UNCHANGED rejected
              \/ /\ GoesOn(p, "item", run[p].items \ {item}, {}, run[p].saved)
                 /\ rejected' = rejected \cup {item[1]}
<1>1. run[p].queue # <<>> /\ run[p] \in RunState
  BY RunTyped DEF Judge, At, Structure, Sound, TurnSound
<1>2. run[p].pc = "item" /\ run[p].accepted = {}
  BY DEF Judge, At, Structure, Sound, TurnSound
<1>3. item \in Items /\ run[p].items \ {item} \in SUBSET Items
  BY <1>1 DEF RunState
<1>4. CASE /\ Goes(p, [run[p] EXCEPT !.pc = "upload", !.items = @ \ {item}, !.accepted = {item}])
           /\ UNCHANGED rejected
  <2> DEFINE r == [run[p] EXCEPT !.pc = "upload", !.items = @ \ {item}, !.accepted = {item}]
  <2>1. r \in RunState
    BY <1>1, <1>3 DEF RunState, PCs
  <2>2. /\ r.pc = "upload" /\ r.queue = run[p].queue /\ r.todo = run[p].todo /\ r.page = run[p].page
        /\ r.items = run[p].items \ {item} /\ r.accepted = {item} /\ r.saved = run[p].saved
    BY <1>1 DEF RunState
  <2>3. run'[p] = r
    BY <1>4, <2>1, GoesTo
  <2> QED
    BY <1>1, <1>2, <1>4, <2>1, <2>2, <2>3 DEF Queued, GoesOn, Is
<1>5. CASE /\ Goes(p, [run[p] EXCEPT !.items = @ \ {item}])
           /\ rejected' = rejected \cup {item[1]}
  <2> DEFINE r == [run[p] EXCEPT !.items = @ \ {item}]
  <2>1. r \in RunState
    BY <1>1, <1>3 DEF RunState, PCs
  <2>2. /\ r.pc = run[p].pc /\ r.queue = run[p].queue /\ r.todo = run[p].todo /\ r.page = run[p].page
        /\ r.items = run[p].items \ {item} /\ r.accepted = run[p].accepted /\ r.saved = run[p].saved
    BY <1>1 DEF RunState
  <2>3. run'[p] = r
    BY <1>5, <2>1, GoesTo
  <2> QED
    BY <1>1, <1>2, <1>5, <2>1, <2>2, <2>3 DEF Queued, GoesOn, Is
<1> QED
  BY <1>4, <1>5 DEF Judge

LEMMA UploadMoves ==
    ASSUME Structure, NEW p \in Processes, Upload(p)
    PROVE  /\ Queued(p)
           /\ run[p].pc = "upload"
           /\ GoesOn(p, "item", run[p].items, {},
                     run[p].saved \cup {item[2] : item \in run[p].accepted})
<1> DEFINE saved == run[p].saved \cup {item[2] : item \in run[p].accepted}
<1>1. run[p].queue # <<>> /\ run[p] \in RunState
  BY RunTyped DEF Upload, At, Structure, Sound, TurnSound
<1>2. Goes(p, [run[p] EXCEPT !.pc = "item", !.accepted = {}, !.saved = saved])
  BY DEF Upload, Uploaded
<1>3. saved \in SUBSET Uids
  BY <1>1 DEF RunState, Items
<1> HIDE DEF saved
<1> DEFINE r == [run[p] EXCEPT !.pc = "item", !.accepted = {}, !.saved = saved]
<1>4. r \in RunState
  BY <1>1, <1>3 DEF RunState, PCs
<1>5. /\ r.pc = "item" /\ r.queue = run[p].queue /\ r.todo = run[p].todo /\ r.page = run[p].page
      /\ r.items = run[p].items /\ r.accepted = {} /\ r.saved = saved
  BY <1>1 DEF RunState
<1>6. run'[p] = r
  BY <1>2, <1>4, GoesTo
<1> QED
  BY <1>1, <1>4, <1>5, <1>6 DEF Queued, GoesOn, Is, saved, Upload, At

LEMMA PageDoneMoves ==
    ASSUME Structure, NEW p \in Processes, PageDone(p)
    PROVE  /\ Queued(p)
           /\ run[p].pc = "item" /\ run[p].items = {} /\ run[p].accepted = {}
           /\ \/ run[p].saved = {} /\ GoesOn(p, "page", {}, {}, {})
              \/ GoesOn(p, "mark", {}, {}, run[p].saved)
              \/ ~Labelling /\ Rests(run'[p])
<1>1. run[p].queue # <<>> /\ run[p] \in RunState
  BY RunTyped DEF PageDone, At, Structure, Sound, TurnSound
<1>2. run[p].pc = "item" /\ run[p].items = {} /\ run[p].accepted = {}
  BY DEF PageDone, At, Structure, Sound, TurnSound
<1>3. ASSUME NEW pc \in {"page", "mark"}, Goes(p, [run[p] EXCEPT !.pc = pc])
      PROVE  GoesOn(p, pc, {}, {}, run[p].saved)
  <2> DEFINE r == [run[p] EXCEPT !.pc = pc]
  <2>1. r \in RunState
    BY <1>1 DEF RunState, PCs
  <2>2. /\ r.pc = pc /\ r.queue = run[p].queue /\ r.todo = run[p].todo /\ r.page = run[p].page
        /\ r.items = run[p].items /\ r.accepted = run[p].accepted /\ r.saved = run[p].saved
    BY <1>1 DEF RunState
  <2>3. run'[p] = r
    BY <1>3, <2>1, GoesTo
  <2> QED
    BY <1>2, <2>1, <2>2, <2>3 DEF GoesOn, Is
<1>4. CASE run[p].saved = {}
  BY <1>1, <1>2, <1>3, <1>4 DEF PageDone, Queued
<1>5. CASE run[p].saved # {} /\ Labelling
  BY <1>1, <1>2, <1>3, <1>5 DEF PageDone, Queued
<1>6. CASE run[p].saved # {} /\ ~Labelling
  <2>1. Rests(NextAccount(p)) /\ Goes(p, NextAccount(p))
    BY <1>1, <1>6, NextAccountRests DEF PageDone
  <2>2. Rests(run'[p])
    BY <2>1, RestMoves
  <2> QED
    BY <1>1, <1>2, <1>6, <2>2 DEF Queued
<1> QED
  BY <1>4, <1>5, <1>6

\* The steps that end a turn or the run.
Ending(p) ==
    EndRun(p) \/ UseClosedClient(p) \/ ConnectFails(p) \/ Mark(p) \/ CollectFails(p)
    \/ MarkFails(p) \/ Crash(p)

LEMMA EndingMoves ==
    ASSUME Structure, NEW p \in Processes, Ending(p)
    PROVE  run' \in [Processes -> RunState] /\ Rests(run'[p])
<1>1. CASE Goes(p, Stopped)
  BY <1>1, StoppedRests, RestMoves DEF Moves
<1>2. CASE AccountDone(p) /\ run[p].queue # <<>>
  BY <1>2, NextAccountRests, RestMoves DEF AccountDone, Moves
<1>3. UseClosedClient(p) => run[p].queue # <<>>
  BY DEF UseClosedClient, Takes
<1>4. Mark(p) \/ MarkFails(p) => run[p].queue # <<>>
  BY DEF Mark, MarkFails, At, Structure, Sound, TurnSound
<1> QED
  BY <1>1, <1>2, <1>3, <1>4 DEF Ending, EndRun, UseClosedClient, ConnectFails, Mark,
     CollectFails, MarkFails, Crash

LEMMA UploadFailsMoves ==
    ASSUME Structure, NEW p \in Processes, UploadFails(p)
    PROVE  /\ Queued(p)
           /\ run[p].pc = "upload"
           /\ run' \in [Processes -> RunState]
           /\ UNCHANGED run \/ Rests(run'[p])
<1>1. run[p].queue # <<>> /\ run[p].pc = "upload"
  BY DEF UploadFails, At, Structure, Sound, TurnSound
<1>2. CASE UNCHANGED run
  BY <1>1, <1>2 DEF Queued, Structure, TypeOK
<1>3. CASE Goes(p, Stopped)
  BY <1>1, <1>3, StoppedRests, RestMoves DEF Moves, Queued
<1> QED
  BY <1>2, <1>3 DEF UploadFails

-----------------------------------------------------------------------------
(* A process step, and what it does with the state the processes share.    *)

Step(p) == RunStep(p) \/ Failure(p)

LEMMA OthersStay ==
    ASSUME Structure, NEW p \in Processes, Step(p)
    PROVE  /\ UNCHANGED <<mail, inbox>>
           /\ \A q \in Processes : q # p => run'[q] = run[q]
<1>1. ASSUME NEW r, Goes(p, r)
      PROVE  \A q \in Processes : q # p => run'[q] = run[q]
  BY <1>1 DEF Goes, Structure, TypeOK
<1>2. ASSUME UNCHANGED run
      PROVE  \A q \in Processes : q # p => run'[q] = run[q]
  BY <1>2
<1>3. CASE \E r : Goes(p, r) /\ UNCHANGED <<mail, inbox>>
  BY <1>1, <1>3
<1>4. CASE UNCHANGED run /\ UNCHANGED <<mail, inbox>>
  BY <1>2, <1>4
<1>5. CASE StartRun(p) \/ EndRun(p) \/ Connect(p) \/ UseClosedClient(p) \/ ConnectFails(p) \/ Search(p)
  BY <1>3, <1>5 DEF StartRun, EndRun, Connect, UseClosedClient, ConnectFails, Search,
     AccountDone, server
<1>6. CASE NextPage(p) \/ Fetch(p) \/ FetchMissing(p) \/ Collect(p) \/ Upload(p) \/ PageDone(p)
  BY <1>3, <1>6 DEF NextPage, Fetch, FetchMissing, TriesAgain, Collect, Upload, PageDone, AccountDone, server
<1>7. ASSUME NEW item \in run[p].items, Judge(p, item)
      PROVE  \E r : Goes(p, r) /\ UNCHANGED <<mail, inbox>>
  BY <1>7 DEF Judge, server
<1>8. CASE SearchFails(p) \/ FetchFails(p) \/ CollectFails(p) \/ Crash(p)
  BY <1>3, <1>8 DEF SearchFails, FetchFails, TriesAgain, CollectFails, Crash, server
<1>9. CASE Mark(p) \/ MarkFails(p) \/ UploadFails(p)
  BY <1>3, <1>4, <1>9 DEF Mark, MarkFails, UploadFails, AccountDone, server
<1> QED
  BY <1>3, <1>5, <1>6, <1>7, <1>8, <1>9 DEF Step, RunStep, Failure

\* Nothing undoes a failure, and INBOX is opened at the cost of one.
LEMMA TroubleGrows ==
    ASSUME Structure, NEW p \in Processes, Step(p)
    PROVE  /\ faults' \in 0 .. MaxFaults /\ strayed' \subseteq Accounts
           /\ faults <= faults' /\ strayed \subseteq strayed'
<1>1. faults \in 0 .. MaxFaults /\ strayed \subseteq Accounts
  BY DEF Structure, TypeOK
<1>2. CASE NoFault
  BY <1>1, <1>2, BoundAssumption DEF NoFault, trouble
<1>3. CASE Fault
  BY <1>1, <1>3, BoundAssumption DEF Fault
<1>4. ASSUME NEW fallback \in BOOLEAN, Open(p, fallback), run[p].queue # <<>>
      PROVE  /\ faults' \in 0 .. MaxFaults /\ strayed' \subseteq Accounts
             /\ faults <= faults' /\ strayed \subseteq strayed'
  <2>1. CASE fallback
    <3>1. Current(p) \in Accounts
      BY <1>4, RunTyped
    <3> QED
      BY <1>1, <1>4, <2>1, <3>1, BoundAssumption DEF Open
  <2>2. CASE ~fallback
    BY <1>2, <1>4, <2>2 DEF Open
  <2> QED
    BY <2>1, <2>2
<1>5. CASE StartRun(p) \/ EndRun(p) \/ Connect(p) \/ UseClosedClient(p) \/ ConnectFails(p)
           \/ NextPage(p) \/ Collect(p) \/ Upload(p) \/ PageDone(p)
  BY <1>2, <1>5 DEF StartRun, EndRun, Connect, UseClosedClient, ConnectFails, NextPage, Collect,
     Upload, PageDone
<1>6. CASE \E item \in run[p].items : Judge(p, item)
  BY <1>2, <1>6 DEF Judge
<1>7. CASE Search(p) \/ Fetch(p)
  BY <1>4, <1>7, SearchMoves, FetchMoves DEF Queued
<1>8. CASE Mark(p)
  <2>1. run[p].queue # <<>>
    BY <1>8 DEF Mark, At, Structure, Sound, TurnSound
  <2> QED
    BY <1>4, <1>8, <2>1 DEF Mark
<1>9. CASE FetchMissing(p)
  BY <1>4, <1>9, FetchFailsMoves DEF FetchMissing, Queued
<1>10. CASE Failure(p)
  BY <1>3, <1>10 DEF Failure, SearchFails, FetchFails, CollectFails, UploadFails, MarkFails, Crash
<1> QED
  BY <1>5, <1>6, <1>7, <1>8, <1>9, <1>10 DEF Step, RunStep

\* Messages are marked only by a process that has something to mark.
LEMMA MarkedOnlyBy ==
    ASSUME Structure, NEW p \in Processes, Step(p), ~Mark(p), ~MarkFails(p)
    PROVE  UNCHANGED marked
<1>1. CASE StartRun(p) \/ EndRun(p) \/ Connect(p) \/ UseClosedClient(p) \/ ConnectFails(p) \/ Search(p)
  BY <1>1 DEF StartRun, EndRun, Connect, UseClosedClient, ConnectFails, Search, server
<1>2. CASE NextPage(p) \/ Fetch(p) \/ FetchMissing(p) \/ Collect(p) \/ Upload(p) \/ PageDone(p)
  BY <1>2 DEF NextPage, Fetch, FetchMissing, Collect, Upload, PageDone, server
<1>3. CASE \E item \in run[p].items : Judge(p, item)
  BY <1>3 DEF Judge, server
<1>4. CASE Failure(p)
  BY <1>4 DEF Failure, SearchFails, FetchFails, CollectFails, UploadFails, Crash, server
<1> QED
  BY <1>1, <1>2, <1>3, <1>4 DEF Step, RunStep

LEMMA MarkSavedMarks ==
    ASSUME Structure, NEW p \in Processes, run[p].queue # <<>>, NEW fallback \in BOOLEAN,
           MarkSaved(p, Box(Current(p), fallback))
    PROVE  LET box == Box(Current(p), fallback) IN
           /\ marked' \in [Accounts -> SUBSET Uids]
           /\ marked'[Current(p)] =
                  marked[Current(p)] \cup {box[u] : u \in run[p].saved \cap DOMAIN box}
           /\ \A a \in Accounts : a # Current(p) => marked'[a] = marked[a]
           /\ marked'[Current(p)] \subseteq DOMAIN mail[Current(p)]
           /\ mistaken \subseteq mistaken' /\ mistaken' \subseteq Accounts \X Uids
           /\ \A u \in run[p].saved \cap DOMAIN box :
                  box[u] # PageBox(p)[u] => <<Current(p), box[u]>> \in mistaken'
<1> DEFINE box == Box(Current(p), fallback)
<1> DEFINE new == {box[u] : u \in run[p].saved \cap DOMAIN box}
<1>1. Current(p) \in Accounts /\ MailboxSound(Current(p))
  BY RunTyped
<1>2. \A u \in DOMAIN box : box[u] \in DOMAIN mail[Current(p)]
  BY <1>1, BoxSound DEF Structure
<1>3. DOMAIN mail[Current(p)] \subseteq Uids
  BY <1>1, AttachmentsAre DEF Structure
<1>4. new \subseteq DOMAIN mail[Current(p)]
  BY <1>2
<1> DEFINE strange == {box[u] : u \in {v \in run[p].saved \cap DOMAIN box : box[v] # PageBox(p)[v]}}
<1>5. /\ marked' = [marked EXCEPT ![Current(p)] = @ \cup new]
      /\ mistaken' = mistaken \cup ({Current(p)} \X strange)
  BY DEF MarkSaved, PageBox
<1>9. strange \subseteq Uids
  BY <1>2, <1>3
<1>10. mistaken' \subseteq Accounts \X Uids /\ mistaken \subseteq mistaken'
  BY <1>1, <1>5, <1>9 DEF Structure, TypeOK
<1>11. \A u \in run[p].saved \cap DOMAIN box :
                  box[u] # PageBox(p)[u] => <<Current(p), box[u]>> \in mistaken'
  BY <1>5
<1> HIDE DEF strange
<1>6. marked \in [Accounts -> SUBSET Uids] /\ marked[Current(p)] \subseteq DOMAIN mail[Current(p)]
  BY <1>1 DEF Structure, TypeOK, MailboxSound
<1> HIDE DEF new
<1>7. marked[Current(p)] \cup new \in SUBSET Uids
  BY <1>3, <1>4, <1>6
<1>8. /\ marked' \in [Accounts -> SUBSET Uids]
      /\ marked'[Current(p)] = marked[Current(p)] \cup new
      /\ \A a \in Accounts : a # Current(p) => marked'[a] = marked[a]
  BY <1>1, <1>5, <1>6, <1>7
<1> QED
  BY <1>4, <1>6, <1>8, <1>10, <1>11 DEF new

LEMMA MarkedSound ==
    ASSUME Structure, NEW p \in Processes, Step(p)
    PROVE  /\ marked' \in [Accounts -> SUBSET Uids]
           /\ \A a \in Accounts : /\ marked[a] \subseteq marked'[a]
                                  /\ marked'[a] \subseteq DOMAIN mail[a]
<1>1. CASE UNCHANGED marked
  BY <1>1 DEF Structure, TypeOK, MailboxSound
<1>2. ASSUME run[p].queue # <<>>, NEW fallback \in BOOLEAN, MarkSaved(p, Box(Current(p), fallback))
      PROVE  /\ marked' \in [Accounts -> SUBSET Uids]
             /\ \A a \in Accounts : /\ marked[a] \subseteq marked'[a]
                                    /\ marked'[a] \subseteq DOMAIN mail[a]
  BY <1>2, MarkSavedMarks DEF Structure, MailboxSound
<1>3. CASE Mark(p) \/ MarkFails(p)
  <2>1. run[p].queue # <<>>
    BY <1>3 DEF Mark, MarkFails, At, Structure, Sound, TurnSound
  <2> QED
    BY <1>1, <1>2, <1>3, <2>1 DEF Mark, MarkFails
<1> QED
  BY <1>1, <1>3, MarkedOnlyBy

\* A process notes where it fetches a page, and whose messages it marks for others.
LEMMA HistorySound ==
    ASSUME Structure, NEW p \in Processes, Step(p)
    PROVE  /\ elsewhere' \subseteq Processes
           /\ \A q \in Processes : q # p \/ ~Fetch(p) => (q \in elsewhere' <=> q \in elsewhere)
           /\ mistaken \subseteq mistaken' /\ mistaken' \subseteq Accounts \X Uids
<1>1. elsewhere \subseteq Processes /\ mistaken \subseteq Accounts \X Uids
  BY DEF Structure, TypeOK
<1>2. CASE UNCHANGED history
  BY <1>1, <1>2 DEF history
<1>3. CASE StartRun(p) \/ EndRun(p) \/ Connect(p) \/ UseClosedClient(p) \/ ConnectFails(p) \/ Search(p)
  BY <1>2, <1>3 DEF StartRun, EndRun, Connect, UseClosedClient, ConnectFails, Search
<1>4. CASE NextPage(p) \/ FetchMissing(p) \/ Collect(p) \/ Upload(p) \/ PageDone(p)
  BY <1>2, <1>4 DEF NextPage, FetchMissing, Collect, Upload, PageDone
<1>5. CASE \E item \in run[p].items : Judge(p, item)
  BY <1>2, <1>5 DEF Judge
<1>6. CASE SearchFails(p) \/ FetchFails(p) \/ CollectFails(p) \/ UploadFails(p) \/ Crash(p)
  BY <1>2, <1>6 DEF SearchFails, FetchFails, CollectFails, UploadFails, Crash
<1>7. CASE Fetch(p)
  BY <1>1, <1>7 DEF Fetch
<1>8. CASE Mark(p) \/ MarkFails(p)
  <2>1. run[p].queue # <<>> /\ UNCHANGED elsewhere
    BY <1>8 DEF Mark, MarkFails, At, Structure, Sound, TurnSound
  <2>2. \/ UNCHANGED mistaken
        \/ \E fallback \in BOOLEAN : MarkSaved(p, Box(Current(p), fallback))
    BY <1>8 DEF Mark, MarkFails
  <2> QED
    BY <1>1, <2>1, <2>2, MarkSavedMarks
<1> QED
  BY <1>3, <1>4, <1>5, <1>6, <1>7, <1>8 DEF Step, RunStep, Failure

LEMMA StoreStores ==
    ASSUME Structure, NEW items \in SUBSET Items, Store(items)
    PROVE  /\ uploads' \in [Attachments -> 0 .. MaxUploads]
           /\ \A att \in Attachments :
                  /\ uploads[att] <= uploads'[att] /\ uploads'[att] <= uploads[att] + 1
                  /\ att \notin Files(items) => uploads'[att] = uploads[att]
                  /\ att \in Files(items) => uploads'[att] > 0
<1>1. ASSUME NEW att \in Attachments
      PROVE  /\ uploads'[att] \in 0 .. MaxUploads
             /\ uploads[att] <= uploads'[att] /\ uploads'[att] <= uploads[att] + 1
             /\ att \notin Files(items) => uploads'[att] = uploads[att]
             /\ att \in Files(items) => uploads'[att] > 0
  <2>1. uploads[att] \in 0 .. MaxUploads
    BY DEF Structure, TypeOK
  <2>2. uploads'[att] = IF att \in Files(items) /\ uploads[att] < MaxUploads
                        THEN uploads[att] + 1 ELSE uploads[att]
    BY DEF Store
  <2> QED
    BY <2>1, <2>2, BoundAssumption
<1>2. uploads' = [att \in Attachments |-> uploads'[att]]
  BY DEF Store
<1>3. uploads' \in [Attachments -> 0 .. MaxUploads]
  BY <1>1, <1>2
<1> QED
  BY <1>1, <1>3

LEMMA UploadsOnlyBy ==
    ASSUME Structure, NEW p \in Processes, Step(p), ~Upload(p), ~UploadFails(p)
    PROVE  UNCHANGED uploads
<1>1. CASE StartRun(p) \/ EndRun(p) \/ Connect(p) \/ UseClosedClient(p) \/ ConnectFails(p) \/ Search(p)
  BY <1>1 DEF StartRun, EndRun, Connect, UseClosedClient, ConnectFails, Search, outcome
<1>2. CASE NextPage(p) \/ Fetch(p) \/ FetchMissing(p) \/ Collect(p) \/ Mark(p) \/ PageDone(p)
  BY <1>2 DEF NextPage, Fetch, FetchMissing, Collect, Mark, PageDone, outcome
<1>3. CASE \E item \in run[p].items : Judge(p, item)
  BY <1>3 DEF Judge
<1>4. CASE Failure(p)
  BY <1>4 DEF Failure, SearchFails, FetchFails, CollectFails, MarkFails, Crash, outcome
<1> QED
  BY <1>1, <1>2, <1>3, <1>4 DEF Step, RunStep

\* Copies are of what the process has accepted.
LEMMA UploadsSound ==
    ASSUME Structure, NEW p \in Processes, Step(p)
    PROVE  /\ uploads' \in [Attachments -> 0 .. MaxUploads]
           /\ \A att \in Attachments :
                  /\ uploads[att] <= uploads'[att] /\ uploads'[att] <= uploads[att] + 1
                  /\ att \notin Files(run[p].accepted) => uploads'[att] = uploads[att]
<1>1. CASE UNCHANGED uploads
  <2>1. uploads \in [Attachments -> 0 .. MaxUploads]
    BY DEF Structure, TypeOK
  <2>2. \A att \in Attachments : uploads[att] \in Nat
    BY <2>1, BoundAssumption
  <2>3. \A att \in Attachments : uploads'[att] = uploads[att]
    BY <1>1
  <2>4. ASSUME NEW att \in Attachments
        PROVE  uploads[att] <= uploads'[att] /\ uploads'[att] <= uploads[att] + 1
    <3>1. uploads[att] \in Nat /\ uploads'[att] = uploads[att]
      BY <2>2, <2>3
    <3> QED
      BY <3>1
  <2> QED
    BY <1>1, <2>1, <2>3, <2>4
<1>2. CASE Store(run[p].accepted)
  <2>1. run[p].accepted \in SUBSET Items
    BY RunTyped DEF RunState
  <2> QED
    BY <1>2, <2>1, StoreStores
<1> QED
  BY <1>1, <1>2, UploadsOnlyBy DEF Upload, UploadFails

\* The attachments of a page and of a set of items of it.
LEMMA FilesAre ==
    ASSUME NEW items \in SUBSET Items
    PROVE  /\ Files(items) \subseteq Attachments
           /\ \A att : att \in Files(items) <=> \E item \in items : item[1] = att
BY DEF Files, Items

LEMMA RejectedGrows ==
    ASSUME Structure, NEW p \in Processes, Step(p)
    PROVE  rejected \subseteq rejected' /\ rejected' \subseteq Attachments
<1>1. rejected \subseteq Attachments
  BY DEF Structure, TypeOK
<1>2. CASE StartRun(p) \/ EndRun(p) \/ Connect(p) \/ UseClosedClient(p) \/ ConnectFails(p) \/ Search(p)
  BY <1>1, <1>2 DEF StartRun, EndRun, Connect, UseClosedClient, ConnectFails, Search, outcome
<1>3. CASE NextPage(p) \/ Fetch(p) \/ FetchMissing(p) \/ Collect(p) \/ Upload(p) \/ Mark(p) \/ PageDone(p)
  BY <1>1, <1>3 DEF NextPage, Fetch, FetchMissing, Collect, Upload, Mark, PageDone, outcome
<1>4. ASSUME NEW item \in run[p].items, Judge(p, item)
      PROVE  rejected \subseteq rejected' /\ rejected' \subseteq Attachments
  <2>1. item \in Items
    BY RunTyped DEF RunState
  <2>2. item[1] \in Attachments
    BY <2>1 DEF Items
  <2> QED
    BY <1>1, <1>4, <2>2 DEF Judge
<1>5. CASE Failure(p)
  BY <1>1, <1>5 DEF Failure, SearchFails, FetchFails, CollectFails, UploadFails, MarkFails, Crash, outcome
<1> QED
  BY <1>2, <1>3, <1>4, <1>5 DEF Step, RunStep

-----------------------------------------------------------------------------
(* A step leaves a sound state of its process.                             *)

LEMMA SearchSound ==
    ASSUME Structure, NEW p \in Processes, Search(p)
    PROVE  Sound(run'[p])
<1>1. PICK fallback \in BOOLEAN :
        Is(run'[p], "page", run[p].queue,
           Uid(Box(Current(p), fallback), Matches(Current(p))), {}, {}, {}, {})
  BY SearchMoves
<1>2. run[p].queue # <<>> /\ Current(p) \in Accounts /\ MailboxSound(Current(p))
      /\ Current(p) = Account(run[p])
  BY SearchMoves, RunTyped DEF Queued
<1>3. Uid(Box(Current(p), fallback), Matches(Current(p))) \subseteq DOMAIN mail[Current(p)]
  BY <1>2, BoxSound DEF Uid, Structure
<1>4. Account(run'[p]) = Current(p)
  BY <1>1, <1>2 DEF Is, Account
<1> QED
  BY <1>1, <1>2, <1>3, <1>4 DEF Is, Sound, TurnSound, ItemsSound, Hand

LEMMA SearchFailsSound ==
    ASSUME Structure, NEW p \in Processes, SearchFails(p)
    PROVE  Sound(run'[p])
<1>1. CASE Rests(run'[p])
  BY <1>1, RestsSound
<1>2. CASE Is(run'[p], "page", run[p].queue, {}, {}, {}, {}, {})
  BY <1>2, SearchFailsMoves DEF Is, Sound, TurnSound, ItemsSound, Hand, Queued
<1> QED
  BY <1>1, <1>2, SearchFailsMoves

LEMMA NextPageSound ==
    ASSUME Structure, NEW p \in Processes, NextPage(p)
    PROVE  Sound(run'[p])
<1>1. CASE Rests(run'[p])
  BY <1>1, RestsSound
<1>2. CASE Is(run'[p], "fetch", run[p].queue, run[p].todo \ FirstPage(run[p].todo),
              FirstPage(run[p].todo), {}, {}, {})
  <2>1. FirstPage(run[p].todo) \subseteq run[p].todo
    BY DEF FirstPage
  <2>2. run[p].queue # <<>> /\ run[p].todo \subseteq DOMAIN mail[Account(run[p])]
    BY NextPageMoves DEF Queued, Structure, Sound, ItemsSound
  <2>3. Account(run'[p]) = Account(run[p])
    BY <1>2 DEF Is, Account
  <2> QED
    BY <1>2, <2>1, <2>2, <2>3 DEF Is, Sound, TurnSound, ItemsSound, Hand
<1> QED
  BY <1>1, <1>2, NextPageMoves

\* A step that goes on with its page, and no attachment it did not have.
LEMMA GoesOnSound ==
    ASSUME Structure, NEW p \in Processes, Queued(p),
           NEW pc \in {"page", "fetch", "collect", "item", "upload", "mark"},
           NEW items, NEW accepted, NEW saved,
           GoesOn(p, pc, items, accepted, saved),
           items \cap accepted = {},
           items \cup accepted \subseteq Hand(run[p]),
           saved \subseteq run[p].page,
           pc \notin {"collect", "item", "upload"} => items = {},
           pc # "upload" => accepted = {},
           pc \notin {"item", "upload", "mark"} => saved = {},
           pc # "collect"
    PROVE  Sound(run'[p])
<1>1. Sound(run[p])
  BY DEF Structure
<1>2. Account(run'[p]) = Account(run[p]) /\ run[p].queue # <<>>
  BY DEF GoesOn, Is, Account, Queued
<1>3. /\ run'[p] \in RunState /\ run'[p].pc = pc /\ run'[p].queue = run[p].queue
      /\ run'[p].todo = run[p].todo /\ run'[p].page = run[p].page
      /\ run'[p].items = items /\ run'[p].accepted = accepted /\ run'[p].saved = saved
  BY DEF GoesOn, Is
<1>4. TurnSound(run'[p])
  BY <1>2, <1>3 DEF TurnSound, Hand
<1>5. ItemsSound(run'[p])
  <2>1. Hand(run'[p]) \subseteq Hand(run[p])
    BY <1>3 DEF Hand
  <2> QED
    BY <1>1, <1>2, <1>3, <2>1 DEF Sound, ItemsSound
<1> QED
  BY <1>3, <1>4, <1>5 DEF Sound

LEMMA FetchSound ==
    ASSUME Structure, NEW p \in Processes, Fetch(p)
    PROVE  Sound(run'[p])
<1>1. PICK fallback \in BOOLEAN :
        GoesOn(p, "collect",
               {item \in PageParts(Current(p), fallback, run[p].page) : KindOf(item[1]) # "huge"}, {}, {})
  BY FetchMoves
<1> DEFINE parts == PageParts(Current(p), fallback, run[p].page)
<1>2. run[p].queue # <<>> /\ Current(p) \in Accounts /\ MailboxSound(Current(p))
      /\ Current(p) = Account(run[p]) /\ run[p].page \in SUBSET Uids
  BY FetchMoves, RunTyped DEF Queued, RunState
<1>3. /\ \A item \in parts : item[1][1] = Current(p) /\ item[2] \in run[p].page /\ Arrived(item[1])
      /\ \A x, y \in parts : x[1] = y[1] => x = y
  BY <1>2, PartsSound DEF Structure
<1> HIDE DEF parts
<1>4. /\ run'[p] \in RunState /\ run'[p].pc = "collect" /\ run'[p].queue = run[p].queue
      /\ run'[p].todo = run[p].todo /\ run'[p].page = run[p].page
      /\ run'[p].items = {item \in parts : KindOf(item[1]) # "huge"}
      /\ run'[p].accepted = {} /\ run'[p].saved = {}
  BY <1>1 DEF GoesOn, Is, parts
<1>5. Account(run'[p]) = Account(run[p])
  BY <1>4 DEF Account
<1>6. run[p].todo \cup run[p].page \subseteq DOMAIN mail[Account(run[p])]
  BY <1>2 DEF Structure, Sound, ItemsSound
<1>7. TurnSound(run'[p])
  BY <1>2, <1>4 DEF TurnSound
<1>8. ItemsSound(run'[p])
  BY <1>2, <1>3, <1>4, <1>5, <1>6 DEF ItemsSound, Hand
<1> QED
  BY <1>4, <1>7, <1>8 DEF Sound

LEMMA StepSound ==
    ASSUME Structure, NEW p \in Processes, Step(p)
    PROVE  Sound(run'[p])
<1>1. run[p].saved \subseteq run[p].page
  BY DEF Structure, Sound, TurnSound
<1>2. CASE StartRun(p) \/ Connect(p) \/ Ending(p)
  BY <1>2, StartRunMoves, ConnectMoves, EndingMoves, RestsSound
<1>3. CASE Search(p) \/ SearchFails(p) \/ NextPage(p) \/ Fetch(p)
  BY <1>3, SearchSound, SearchFailsSound, NextPageSound, FetchSound
<1>4. CASE FetchFails(p) \/ FetchMissing(p)
  <2>1. PICK pc \in {"fetch", "page"} : GoesOn(p, pc, {}, {}, {})
    BY <1>4, FetchFailsMoves
  <2> QED
    BY <1>4, <2>1, FetchFailsMoves, GoesOnSound
<1>5. CASE Collect(p)
  <2>1. EligibleItems(run[p].items) \subseteq Hand(run[p])
    BY DEF EligibleItems, Hand
  <2> QED
    BY <1>5, <2>1, CollectMoves, GoesOnSound
<1>6. ASSUME NEW item \in run[p].items, Judge(p, item)
      PROVE  Sound(run'[p])
  <2>1. (run[p].items \ {item}) \cup {item} \subseteq Hand(run[p])
    BY DEF Hand
  <2>2. Queued(p) /\ (run[p].items \ {item}) \cap {item} = {}
    BY <1>6, JudgeMoves
  <2>3. CASE GoesOn(p, "upload", run[p].items \ {item}, {item}, run[p].saved)
    BY <1>1, <2>1, <2>2, <2>3, GoesOnSound
  <2>4. CASE GoesOn(p, "item", run[p].items \ {item}, {}, run[p].saved)
    <3>1. (run[p].items \ {item}) \cup {} \subseteq Hand(run[p])
      BY <2>1
    <3> QED
      BY <1>1, <2>2, <2>4, <3>1, GoesOnSound
  <2> QED
    BY <1>6, <2>3, <2>4, JudgeMoves
<1>7. CASE Upload(p)
  <2> DEFINE saved == run[p].saved \cup {item[2] : item \in run[p].accepted}
  <2>1. saved \subseteq run[p].page
    BY <1>1 DEF Structure, Sound, ItemsSound, Hand
  <2>2. run[p].items \cup {} \subseteq Hand(run[p])
    BY DEF Hand
  <2>3. GoesOn(p, "item", run[p].items, {}, saved) /\ Queued(p)
    BY <1>7, UploadMoves
  <2> HIDE DEF saved
  <2> QED
    BY <2>1, <2>2, <2>3, GoesOnSound
<1>8. CASE PageDone(p)
  <2>1. CASE run[p].saved = {} /\ GoesOn(p, "page", {}, {}, {})
    BY <1>8, <2>1, PageDoneMoves, GoesOnSound
  <2>2. CASE GoesOn(p, "mark", {}, {}, run[p].saved)
    BY <1>1, <1>8, <2>2, PageDoneMoves, GoesOnSound
  <2>3. CASE Rests(run'[p])
    BY <2>3, RestsSound
  <2> QED
    BY <1>8, <2>1, <2>2, <2>3, PageDoneMoves
<1>9. CASE UploadFails(p)
  <2>1. CASE UNCHANGED run
    BY <2>1 DEF Structure
  <2> QED
    BY <1>9, <2>1, UploadFailsMoves, RestsSound
<1> QED
  BY <1>2, <1>3, <1>4, <1>5, <1>6, <1>7, <1>8, <1>9 DEF Step, RunStep, Failure, Ending

-----------------------------------------------------------------------------
(* Mail that arrives.                                                      *)

LEMMA MailGrows ==
    ASSUME Structure, NEW a \in Accounts, Arrive(a)
    PROVE  /\ mail' \in [Accounts -> Seq(Bodies)]
           /\ \A b \in Accounts :
                  /\ Len(mail'[b]) \in Nat /\ Len(mail'[b]) <= MaxMail
                  /\ DOMAIN mail'[b] = 1 .. Len(mail'[b])
                  /\ Len(mail[b]) <= Len(mail'[b])
                  /\ \A u \in DOMAIN mail[b] : mail'[b][u] = mail[b][u]
           /\ mail'[a] # mail[a] => Len(mail'[a]) = Len(mail[a]) + 1
<1>1. PICK body \in Bodies : mail' = [mail EXCEPT ![a] = Append(@, body)]
  BY DEF Arrive
<1>2. Len(mail[a]) < MaxMail
  BY DEF Arrive
<1>3. mail \in [Accounts -> Seq(Bodies)]
  BY DEF Structure, TypeOK
<1>4. /\ Append(mail[a], body) \in Seq(Bodies)
      /\ Len(Append(mail[a], body)) = Len(mail[a]) + 1
      /\ \A u \in 1 .. Len(mail[a]) : Append(mail[a], body)[u] = mail[a][u]
  BY <1>3
<1>5. mail' \in [Accounts -> Seq(Bodies)]
  BY <1>1, <1>3, <1>4
<1>6. mail'[a] = Append(mail[a], body) /\ \A b \in Accounts : b # a => mail'[b] = mail[b]
  BY <1>1, <1>3
<1>7. ASSUME NEW b \in Accounts
      PROVE  /\ Len(mail'[b]) \in Nat /\ Len(mail'[b]) <= MaxMail
             /\ DOMAIN mail'[b] = 1 .. Len(mail'[b])
             /\ Len(mail[b]) <= Len(mail'[b])
             /\ \A u \in DOMAIN mail[b] : mail'[b][u] = mail[b][u]
  <2>1. Len(mail[b]) \in Nat /\ Len(mail[b]) <= MaxMail /\ DOMAIN mail[b] = 1 .. Len(mail[b])
    BY MailTyped DEF Structure, MailboxSound
  <2>2. mail'[b] \in Seq(Bodies)
    BY <1>5
  <2>3. Len(mail'[b]) \in Nat /\ DOMAIN mail'[b] = 1 .. Len(mail'[b])
    BY <2>2
  <2>4. CASE b = a
    BY <1>2, <1>4, <1>6, <2>1, <2>3, <2>4, BoundAssumption
  <2>5. CASE b # a
    BY <1>6, <2>1, <2>3, <2>5
  <2> QED
    BY <2>4, <2>5
<1> QED
  BY <1>4, <1>5, <1>6, <1>7

LEMMA ArriveKeeps ==
    ASSUME Structure, NEW a \in Accounts, Arrive(a)
    PROVE  /\ \A b \in Accounts : DOMAIN mail[b] \subseteq DOMAIN mail'[b]
           /\ \A att \in Attachments :
                  Arrived(att) => Arrived(att)' /\ KindOf(att)' = KindOf(att)
<1>1. \A b \in Accounts : DOMAIN mail[b] \subseteq DOMAIN mail'[b]
  <2>1. SUFFICES ASSUME NEW b \in Accounts
                 PROVE  DOMAIN mail[b] \subseteq DOMAIN mail'[b]
    OBVIOUS
  <2>2. /\ Len(mail[b]) \in Nat /\ DOMAIN mail[b] = 1 .. Len(mail[b])
        /\ Len(mail'[b]) \in Nat /\ DOMAIN mail'[b] = 1 .. Len(mail'[b])
        /\ Len(mail[b]) <= Len(mail'[b])
    BY MailTyped, MailGrows DEF Structure
  <2> QED
    BY <2>2
<1>2. ASSUME NEW att \in Attachments, Arrived(att)
      PROVE  Arrived(att)' /\ KindOf(att)' = KindOf(att)
  <2>1. att[1] \in Accounts
    BY ArrivedAre
  <2>2. mail'[att[1]][att[2]] = mail[att[1]][att[2]]
    BY <1>2, <2>1, MailGrows DEF Arrived
  <2> QED
    BY <1>1, <1>2, <2>1, <2>2 DEF Arrived, Attached, KindOf
<1> QED
  BY <1>1, <1>2

LEMMA ArriveMailbox ==
    ASSUME Structure, NEW a \in Accounts, Arrive(a)
    PROVE  /\ inbox' \in [Accounts -> Seq(Uids)]
           /\ \A b \in Accounts : MailboxSound(b)'
<1>1. /\ inbox \in [Accounts -> Seq(Uids)]
      /\ \A b \in Accounts : MailboxSound(b) /\ UNCHANGED marked
  BY DEF Structure, TypeOK, Arrive
<1>2. \A b \in Accounts : DOMAIN mail[b] \subseteq DOMAIN mail'[b] /\ Len(mail'[b]) <= MaxMail
                          /\ Len(mail[b]) <= Len(mail'[b]) /\ Len(mail'[b]) \in Nat
                          /\ Len(mail[b]) \in Nat
  BY ArriveKeeps, MailGrows, MailTyped DEF Structure
<1>3. ASSUME NEW b \in Accounts, inbox'[b] = inbox[b]
      PROVE  MailboxSound(b)'
  <2>1. Len(inbox[b]) \in Nat /\ Len(inbox[b]) <= Len(mail'[b])
    BY <1>1, <1>2, MailTyped DEF Structure, MailboxSound
  <2>2. \A k \in DOMAIN inbox'[b] : inbox'[b][k] \in DOMAIN mail'[b]
    BY <1>1, <1>2, <1>3 DEF MailboxSound
  <2>3. marked'[b] \subseteq DOMAIN mail'[b]
    BY <1>1, <1>2 DEF MailboxSound
  <2>4. \A k, l \in DOMAIN inbox'[b] : inbox'[b][k] = inbox'[b][l] => k = l
    BY <1>1, <1>3 DEF MailboxSound
  <2> QED
    BY <1>2, <1>3, <2>1, <2>2, <2>3, <2>4 DEF MailboxSound
<1>4. CASE UNCHANGED inbox
  BY <1>1, <1>3, <1>4
<1>5. CASE inbox' = [inbox EXCEPT ![a] = Append(@, Len(mail[a]) + 1)]
  <2> DEFINE n == Len(mail[a])
  <2>1. n \in Nat /\ n < MaxMail /\ DOMAIN mail[a] = 1 .. n
    BY MailTyped DEF Structure, Arrive
  <2>2. n + 1 \in Uids
    BY <2>1, BoundAssumption DEF Uids
  <2>3. Len(mail'[a]) = n + 1 /\ DOMAIN mail'[a] = 1 .. n + 1
    <3>1. PICK body \in Bodies : mail' = [mail EXCEPT ![a] = Append(@, body)]
      BY DEF Arrive
    <3>2. mail'[a] = Append(mail[a], body)
      BY <3>1 DEF Structure, TypeOK
    <3> QED
      BY <3>2, MailTyped DEF Structure
  <2> HIDE DEF n
  <2>4. /\ inbox'[a] = Append(inbox[a], n + 1)
        /\ \A b \in Accounts : b # a => inbox'[b] = inbox[b]
    BY <1>1, <1>5 DEF n
  <2>5. inbox[a] \in Seq(Uids) /\ Len(inbox[a]) \in Nat /\ DOMAIN inbox[a] = 1 .. Len(inbox[a])
    BY <1>1
  <2>6. /\ Append(inbox[a], n + 1) \in Seq(Uids)
        /\ Len(Append(inbox[a], n + 1)) = Len(inbox[a]) + 1
        /\ DOMAIN Append(inbox[a], n + 1) = 1 .. Len(inbox[a]) + 1
        /\ \A k \in 1 .. Len(inbox[a]) : Append(inbox[a], n + 1)[k] = inbox[a][k]
        /\ Append(inbox[a], n + 1)[Len(inbox[a]) + 1] = n + 1
    BY <2>2, <2>5
  <2>7. inbox' \in [Accounts -> Seq(Uids)]
    BY <1>1, <1>5, <2>6 DEF n
  <2>8. \A k \in 1 .. Len(inbox[a]) : inbox[a][k] \in 1 .. n
    BY <1>1, <2>1, <2>5 DEF MailboxSound
  <2>9. \A k, l \in 1 .. Len(inbox[a]) : inbox[a][k] = inbox[a][l] => k = l
    BY <1>1, <2>5 DEF MailboxSound
  <2>10. MailboxSound(a)'
    <3>1. \A k \in DOMAIN inbox'[a] : k \in 1 .. Len(inbox[a]) \/ k = Len(inbox[a]) + 1
      BY <2>4, <2>5, <2>6
    <3>2. \A k \in DOMAIN inbox'[a] : inbox'[a][k] \in DOMAIN mail'[a]
      BY <2>1, <2>3, <2>4, <2>6, <2>8, <3>1
    <3>3. \A k, l \in DOMAIN inbox'[a] : inbox'[a][k] = inbox'[a][l] => k = l
      BY <2>1, <2>4, <2>6, <2>8, <2>9, <3>1
    <3>4. Len(inbox'[a]) <= Len(mail'[a])
      BY <1>1, <2>1, <2>3, <2>4, <2>5, <2>6 DEF MailboxSound, n
    <3>5. marked'[a] \subseteq DOMAIN mail'[a]
      BY <1>1, <1>2 DEF MailboxSound
    <3> QED
      BY <1>2, <3>2, <3>3, <3>4, <3>5 DEF MailboxSound
  <2> QED
    BY <1>3, <2>4, <2>7, <2>10
<1> QED
  BY <1>4, <1>5 DEF Arrive

LEMMA ArriveSound ==
    ASSUME Structure, NEW a \in Accounts, Arrive(a), NEW p \in Processes
    PROVE  Sound(run[p])'
<1>1. run'[p] = run[p] /\ Sound(run[p])
  BY DEF Structure, Arrive
<1>2. run[p].queue # <<>> => Account(run[p]) \in Accounts
  BY RunTyped
<1>3. \A item \in Hand(run[p]) : item[1] \in Attachments
  BY <1>1 DEF Sound, RunState, Items, Hand
<1>4. /\ \A b \in Accounts : DOMAIN mail[b] \subseteq DOMAIN mail'[b]
      /\ \A att \in Attachments : Arrived(att) => Arrived(att)' /\ KindOf(att)' = KindOf(att)
  BY ArriveKeeps
<1>5. \A item \in Hand(run[p]) : Arrived(item[1]) /\ Arrived(item[1])'
                                /\ KindOf(item[1])' = KindOf(item[1])
  BY <1>1, <1>3, <1>4 DEF Sound, ItemsSound
<1>6. ItemsSound(run[p])'
  BY <1>1, <1>2, <1>4, <1>5 DEF Sound, ItemsSound, Hand
<1> QED
  BY <1>1, <1>6 DEF Sound

-----------------------------------------------------------------------------
(* The structure of every state.                                           *)

LEMMA StructureInit == Init => Structure
<1> SUFFICES ASSUME Init
             PROVE  Structure
  OBVIOUS
<1>1. Rests(Stopped) /\ Sound(Stopped)
  BY StoppedRests, RestsSound
<1>2. TypeOK
  BY <1>1, BoundAssumption DEF Init, TypeOK, Rests
<1>3. \A a \in Accounts : MailboxSound(a)
  BY BoundAssumption DEF Init, MailboxSound
<1>4. DocumentsArrived
  BY DEF Init, DocumentsArrived
<1> QED
  BY <1>1, <1>2, <1>3, <1>4 DEF Init, Structure

LEMMA StructureStep ==
    ASSUME Structure, NEW p \in Processes, Step(p)
    PROVE  Structure'
<1>1. /\ UNCHANGED <<mail, inbox>>
      /\ \A q \in Processes : q # p => run'[q] = run[q]
  BY OthersStay
<1>2. Sound(run'[p])
  BY StepSound
<1>3. run' \in [Processes -> RunState]
  <2>1. DOMAIN run' = Processes /\ run' = [q \in DOMAIN run' |-> run'[q]]
    <3>1. \/ UNCHANGED run
          \/ \E r : Goes(p, r)
      BY DEF Step, RunStep, Failure, StartRun, EndRun, Connect, UseClosedClient, ConnectFails, Search,
         NextPage, Fetch, FetchMissing, TriesAgain, Collect, Judge, Upload, PageDone, Mark, SearchFails, FetchFails, TriesAgain, CollectFails,
         UploadFails, MarkFails, Crash, AccountDone
    <3> QED
      BY <3>1 DEF Goes, Structure, TypeOK
  <2>2. \A q \in Processes : run'[q] \in RunState
    BY <1>1, <1>2 DEF Structure, TypeOK, Sound
  <2> QED
    BY <2>1, <2>2
<1>4. \A q \in Processes : Sound(run[q])'
  <2>1. ASSUME NEW q \in Processes
        PROVE  Sound(run'[q])
    BY <1>1, <1>2 DEF Structure
  <2>2. ASSUME NEW q \in Processes
        PROVE  Sound(run[q])'
    BY <1>1, <2>1 DEF Sound, ItemsSound, Arrived, Attached, KindOf
  <2> QED
    BY <2>2
<1>5. TypeOK'
  BY <1>1, <1>3, TroubleGrows, MarkedSound, UploadsSound, HistorySound, RejectedGrows DEF Structure, TypeOK
<1>6. \A a \in Accounts : MailboxSound(a)'
  BY <1>1, MarkedSound DEF Structure, MailboxSound
<1>7. DocumentsArrived'
  <2>2. ASSUME NEW att \in Attachments, uploads'[att] > 0
        PROVE  Arrived(att)'
    <3>1. CASE att \in Files(run[p].accepted)
      <4>1. PICK item \in run[p].accepted : item[1] = att
        BY <3>1 DEF Files
      <4> QED
        BY <1>1, <4>1 DEF Structure, Sound, ItemsSound, Hand, Arrived, Attached
    <3>2. CASE att \notin Files(run[p].accepted)
      BY <1>1, <2>2, <3>2, UploadsSound DEF Structure, DocumentsArrived, Arrived, Attached
    <3> QED
      BY <3>1, <3>2
  <2> QED
    BY <2>2 DEF DocumentsArrived
<1> QED
  BY <1>4, <1>5, <1>6, <1>7 DEF Structure

LEMMA StructureArrive ==
    ASSUME Structure, NEW a \in Accounts, Arrive(a)
    PROVE  Structure'
<1>1. UNCHANGED <<marked, uploads, rejected, elsewhere, mistaken, run, faults, strayed>>
  BY DEF Arrive, outcome, history, trouble
<1>2. TypeOK'
  BY <1>1, MailGrows, ArriveMailbox DEF Structure, TypeOK
<1>3. DocumentsArrived'
  <2>1. \A att \in Attachments : Arrived(att) => Arrived(att)'
    BY ArriveKeeps
  <2> QED
    BY <1>1, <2>1 DEF Structure, TypeOK, DocumentsArrived
<1> QED
  BY <1>2, <1>3, ArriveMailbox, ArriveSound DEF Structure

LEMMA StructureStutters ==
    ASSUME Structure, UNCHANGED vars
    PROVE  Structure'
BY DEF vars, server, outcome, history, trouble, Structure, TypeOK, MailboxSound, DocumentsArrived, Sound,
   ItemsSound, Arrived, Attached, KindOf

LEMMA StructureNext ==
    ASSUME Structure, [Next]_vars
    PROVE  Structure'
BY StructureStep, StructureArrive, StructureStutters DEF Next, Step

(***************************************************************************)
(* Every variable has its type in every state: so a box has no UID without *)
(* a message, a turn is of an account in the file, and no counter passes   *)
(* its bound.                                                              *)
(***************************************************************************)
THEOREM RunsTyped == Spec => []TypeOK
<1>1. Structure => TypeOK
  BY DEF Structure
<1> QED
  BY <1>1, StructureInit, StructureNext, PTL DEF Spec

-----------------------------------------------------------------------------
(* What is marked has been dealt with.                                     *)

LEMMA SettledKept ==
    ASSUME Structure, NEW p \in Processes, Step(p), NEW att \in Attachments, Settled(att)
    PROVE  Settled(att)'
<1>1. Eligible(att)' <=> Eligible(att)
  BY OthersStay DEF Eligible, KindOf
<1>2. uploads[att] \in 0 .. MaxUploads /\ uploads'[att] \in 0 .. MaxUploads
      /\ uploads[att] <= uploads'[att]
  BY UploadsSound DEF Structure, TypeOK
<1>3. uploads[att] > 0 => uploads'[att] > 0
  BY <1>2, BoundAssumption
<1>4. rejected \subseteq rejected'
  BY RejectedGrows
<1> QED
  BY <1>1, <1>3, <1>4 DEF Settled

\* The messages of the page of a process, and their attachments.
LEMMA PageMessages ==
    ASSUME Structure, NEW p \in Processes, run[p].queue # <<>>, NEW u \in DOMAIN PageBox(p)
    PROVE  /\ PageBox(p)[u] \in DOMAIN mail[Current(p)]
           /\ \A att \in AttachmentsOf(Current(p), PageBox(p)[u]) :
                  att \in Attachments /\ Arrived(att)
<1>1. Current(p) \in Accounts /\ MailboxSound(Current(p)) /\ TypeOK
  BY RunTyped DEF Structure
<1>2. PICK fallback \in BOOLEAN : fallback <=> p \in elsewhere
  OBVIOUS
<1>3. PageBox(p) = Box(Current(p), fallback)
  BY <1>2 DEF PageBox, Box
<1>4. PageBox(p)[u] \in DOMAIN mail[Current(p)]
  BY <1>1, <1>3, BoxSound
<1> QED
  BY <1>1, <1>4, AttachmentsAre

\* While its place and its account stay the same, so does the mailbox of its page.
LEMMA PageBoxStays ==
    ASSUME Structure, NEW p \in Processes, Step(p), NEW q \in Processes, q # p \/ ~Fetch(p),
           run[q].queue # <<>>, run'[q].queue = run[q].queue
    PROVE  /\ Current(q)' = Current(q)
           /\ PageBox(q)' = PageBox(q)
           /\ q \in elsewhere' <=> q \in elsewhere
           /\ \A a, u : AttachmentsOf(a, u)' = AttachmentsOf(a, u)
<1>1. UNCHANGED <<mail, inbox>> /\ (q \in elsewhere' <=> q \in elsewhere)
  BY OthersStay, HistorySound
<1>2. Current(q)' = Current(q)
  BY DEF Current
<1> QED
  BY <1>1, <1>2 DEF PageBox, Box, AttachmentsOf, Attached

(***************************************************************************)
(* What a process covers it goes on covering when it lets go only of what  *)
(* is settled, and takes nothing up.                                       *)
(***************************************************************************)
LEMMA CoversOn ==
    ASSUME Structure, Covered, NEW p \in Processes, Step(p), NEW q \in Processes, q # p \/ ~Fetch(p),
           run[q].queue # <<>>, run'[q].queue = run[q].queue,
           run[q].pc \in {"collect", "item", "upload", "mark"}
               \/ run'[q].pc \notin {"collect", "item", "upload", "mark"},
           Hand(run'[q]) \subseteq Hand(run[q]),
           TakenUp(run'[q]) \subseteq TakenUp(run[q]),
           \A item \in Hand(run[q]) : item \notin Hand(run'[q]) => Settled(item[1])'
    PROVE  Covers(q)'
<1>1. Covers(q)
  BY DEF Covered
<1>2. strayed \subseteq strayed'
  BY TroubleGrows
<1>3. /\ Current(q)' = Current(q)
      /\ PageBox(q)' = PageBox(q)
      /\ q \in elsewhere' <=> q \in elsewhere
      /\ \A a, u : AttachmentsOf(a, u)' = AttachmentsOf(a, u)
  BY PageBoxStays
<1>4. ASSUME NEW u \in TakenUp(run'[q])
      PROVE  /\ u \in DOMAIN PageBox(q)
             /\ \A att \in AttachmentsOf(Current(q), PageBox(q)[u]) :
                    Settled(att)' \/ <<att, u>> \in Hand(run'[q])
  <2>1. /\ u \in DOMAIN PageBox(q)
        /\ \A att \in AttachmentsOf(Current(q), PageBox(q)[u]) :
               Settled(att) \/ <<att, u>> \in Hand(run[q])
    BY <1>1 DEF Covers
  <2>2. ASSUME NEW att \in AttachmentsOf(Current(q), PageBox(q)[u])
        PROVE  Settled(att)' \/ <<att, u>> \in Hand(run'[q])
    <3>1. att \in Attachments
      BY <2>1, PageMessages
    <3>2. CASE Settled(att)
      BY <3>1, <3>2, SettledKept
    <3>3. CASE <<att, u>> \in Hand(run[q])
      BY <3>3
    <3> QED
      BY <2>1, <3>2, <3>3
  <2> QED
    BY <2>1, <2>2
<1>5. Current(q) \notin strayed' => \A item \in Hand(run'[q]) : item[1][2] = item[2]
  BY <1>1, <1>2 DEF Covers
<1>6. run'[q].pc \in {"collect", "item", "upload", "mark"} /\ q \in elsewhere' =>
          Current(q) \in strayed'
  BY <1>1, <1>2, <1>3 DEF Covers
<1>7. /\ Hand(run[q])' = Hand(run'[q]) /\ TakenUp(run[q])' = TakenUp(run'[q])
  BY DEF Hand, TakenUp
<1>8. \A u \in TakenUp(run[q])' :
          /\ u \in DOMAIN PageBox(q)'
          /\ \A att \in AttachmentsOf(Current(q), PageBox(q)[u])' :
                 Settled(att)' \/ <<att, u>> \in Hand(run[q])'
  BY <1>3, <1>4, <1>7
<1> QED
  BY <1>3, <1>5, <1>6, <1>7, <1>8 DEF Covers

LEMMA OthersCover ==
    ASSUME Structure, Covered, NEW p \in Processes, Step(p), NEW q \in Processes, run'[q] = run[q],
           q # p \/ ~Fetch(p)
    PROVE  Covers(q)'
<1>1. CASE run[q].queue = <<>>
  BY <1>1 DEF Covers
<1>2. CASE run[q].queue # <<>> /\ run[q].pc \in {"collect", "item", "upload", "mark"}
  BY <1>2, CoversOn
<1>3. CASE run[q].queue # <<>> /\ run[q].pc \notin {"collect", "item", "upload", "mark"}
  BY <1>3, CoversOn
<1> QED
  BY <1>1, <1>2, <1>3

\* A process with nothing taken up, before it has fetched the page, covers it.
LEMMA NothingToCover ==
    ASSUME NEW p \in Processes, Hand(run'[p]) = {}, run'[p].saved = {},
           run'[p].pc \notin {"collect", "item", "upload", "mark"}
    PROVE  Covers(p)'
BY DEF Covers, Hand, TakenUp

LEMMA RestsCover ==
    ASSUME NEW p \in Processes, Rests(run'[p])
    PROVE  Covers(p)'
BY NothingToCover DEF Rests, Hand

LEMMA FetchCovers ==
    ASSUME Structure, NEW p \in Processes, Fetch(p)
    PROVE  Covers(p)'
<1>1. PICK fallback \in BOOLEAN :
        /\ Open(p, fallback)
        /\ elsewhere' = IF fallback THEN elsewhere \cup {p} ELSE elsewhere \ {p}
        /\ GoesOn(p, "collect",
               {item \in PageParts(Current(p), fallback, run[p].page) : KindOf(item[1]) # "huge"}, {}, {})
  BY FetchMoves
<1> DEFINE box == Box(Current(p), fallback)
<1> DEFINE parts == PageParts(Current(p), fallback, run[p].page)
<1>2. run[p].queue # <<>> /\ Current(p) \in Accounts /\ MailboxSound(Current(p))
      /\ Current(p) = Account(run[p]) /\ run[p].page \in SUBSET Uids
  BY FetchMoves, RunTyped DEF Queued, RunState
<1>3. UNCHANGED <<mail, inbox>>
  BY DEF Fetch, server
<1>4. parts = PartsOf(Current(p), box, run[p].page)
  BY DEF PageParts
<1>5. ~fallback => \A item \in parts : item[1][2] = item[2]
  BY <1>2, PartsSound DEF Structure
<1>6. (p \in elsewhere') = fallback
  BY <1>1 DEF Structure, TypeOK
<1> HIDE DEF parts, box
<1>7. /\ run'[p].queue = run[p].queue /\ run'[p].saved = {}
      /\ run'[p].items = {item \in parts : KindOf(item[1]) # "huge"}
      /\ run'[p].accepted = {}
  BY <1>1 DEF GoesOn, Is, parts
<1>8. /\ Current(p)' = Current(p)
      /\ \A a, u : AttachmentsOf(a, u)' = AttachmentsOf(a, u)
  BY <1>2, <1>3, <1>7 DEF Current, AttachmentsOf, Attached
<1>9. PageBox(p)' = box
  BY <1>3, <1>6, <1>8 DEF PageBox, Box, box
<1>10. Hand(run[p])' = {item \in parts : KindOf(item[1]) # "huge"}
  BY <1>7 DEF Hand
<1>11. TakenUp(run[p])' = {item[2] : item \in {x \in parts : KindOf(x[1]) # "huge"}}
  BY <1>7, <1>10 DEF TakenUp
<1>12. ASSUME NEW u \in TakenUp(run[p])'
       PROVE  /\ u \in DOMAIN box
              /\ \A att \in AttachmentsOf(Current(p), box[u]) :
                     Settled(att)' \/ <<att, u>> \in Hand(run[p])'
  <2>1. PICK item \in parts : item[2] = u
    BY <1>11
  <2>2. u \in run[p].page \cap DOMAIN box
    BY <1>4, <2>1, PartsAre
  <2>3. ASSUME NEW att \in AttachmentsOf(Current(p), box[u])
        PROVE  Settled(att)' \/ <<att, u>> \in Hand(run[p])'
    <3>1. PICK i \in Attached(Current(p), box[u]) : att = <<Current(p), box[u], i>>
      BY DEF AttachmentsOf
    <3>2. <<att, u>> \in parts
      BY <1>4, <2>2, <3>1, PartsAre
    <3>3. CASE KindOf(att) = "huge"
      BY <1>3, <3>3 DEF Settled, Eligible, KindOf
    <3>4. CASE KindOf(att) # "huge"
      BY <1>10, <3>2, <3>4
    <3> QED
      BY <3>3, <3>4
  <2> QED
    BY <2>2, <2>3
<1>13. fallback => Current(p) \in strayed'
  BY <1>1 DEF Open
<1>14. Current(p) \notin strayed' => \A item \in Hand(run[p])' : item[1][2] = item[2]
  BY <1>5, <1>10, <1>13
<1> QED
  BY <1>6, <1>8, <1>9, <1>12, <1>13, <1>14 DEF Covers

\* A process that goes on with its page and lets go only of what is settled.
LEMMA GoesOnCovers ==
    ASSUME Structure, Covered, NEW p \in Processes, Step(p), ~Fetch(p), Queued(p),
           run[p].pc \in {"collect", "item", "upload"},
           NEW pc, NEW items, NEW accepted, NEW saved,
           GoesOn(p, pc, items, accepted, saved),
           items \cup accepted \subseteq Hand(run[p]),
           saved \subseteq TakenUp(run[p]),
           \A item \in Hand(run[p]) : item \notin items \cup accepted => Settled(item[1])'
    PROVE  Covers(p)'
<1>1. /\ run'[p].queue = run[p].queue /\ run'[p].saved = saved
      /\ run'[p].items = items /\ run'[p].accepted = accepted
  BY DEF GoesOn, Is
<1>2. Hand(run'[p]) = items \cup accepted
  BY <1>1 DEF Hand
<1>3. TakenUp(run'[p]) \subseteq TakenUp(run[p])
  BY <1>1, <1>2 DEF TakenUp
<1> QED
  BY <1>1, <1>2, <1>3, CoversOn DEF Queued

LEMMA StepCovers ==
    ASSUME Structure, Covered, NEW p \in Processes, Step(p)
    PROVE  Covers(p)'
<1>1. CASE StartRun(p) \/ Connect(p) \/ Ending(p)
  BY <1>1, StartRunMoves, ConnectMoves, EndingMoves, RestsCover
<1>2. CASE Search(p)
  BY <1>2, SearchMoves, NothingToCover DEF Is, Hand
<1>3. CASE SearchFails(p)
  BY <1>3, SearchFailsMoves, RestsCover, NothingToCover DEF Is, Hand
<1>4. CASE NextPage(p)
  BY <1>4, NextPageMoves, RestsCover, NothingToCover DEF Is, Hand
<1>5. CASE Fetch(p)
  BY <1>5, FetchCovers
<1>6. CASE FetchFails(p) \/ FetchMissing(p)
  BY <1>6, FetchFailsMoves, NothingToCover DEF GoesOn, Is, Hand
<1>7. CASE Collect(p)
  <2> DEFINE items == EligibleItems(run[p].items)
  <2>1. Queued(p) /\ run[p].pc = "collect" /\ GoesOn(p, "item", items, {}, {})
    BY <1>7, CollectMoves
  <2>5. ~Fetch(p)
    BY <1>7 DEF Collect, Fetch, At
  <2>2. run[p].accepted = {}
    BY <2>1 DEF Structure, Sound, TurnSound
  <2>3. items \cup {} \subseteq Hand(run[p])
    BY DEF EligibleItems, Hand
  <2>4. \A item \in Hand(run[p]) : item \notin items \cup {} => Settled(item[1])'
    BY <2>2, OthersStay DEF EligibleItems, Hand, Settled, Eligible, KindOf
  <2> HIDE DEF items
  <2> QED
    BY <2>1, <2>3, <2>4, <2>5, GoesOnCovers
<1>8. ASSUME NEW item \in run[p].items, Judge(p, item)
      PROVE  Covers(p)'
  <2> DEFINE rest == run[p].items \ {item}
  <2>1. Queued(p) /\ run[p].pc = "item" /\ Hand(run[p]) = run[p].items
    BY <1>8, JudgeMoves DEF Hand
  <2>4. ~Fetch(p) /\ run[p].saved \subseteq TakenUp(run[p])
    BY <1>8 DEF Judge, Fetch, At, TakenUp
  <2>2. CASE GoesOn(p, "upload", rest, {item}, run[p].saved)
    <3>1. rest \cup {item} = Hand(run[p])
      BY <2>1
    <3> HIDE DEF rest
    <3> QED
      BY <2>1, <2>2, <2>4, <3>1, GoesOnCovers
  <2>3. CASE GoesOn(p, "item", rest, {}, run[p].saved) /\ rejected' = rejected \cup {item[1]}
    <3>1. rest \cup {} \subseteq Hand(run[p])
      BY <2>1
    <3>2. \A x \in Hand(run[p]) : x \notin rest \cup {} => Settled(x[1])'
      BY <2>1, <2>3 DEF Settled
    <3> HIDE DEF rest
    <3> QED
      BY <2>1, <2>3, <2>4, <3>1, <3>2, GoesOnCovers
  <2> QED
    BY <1>8, <2>2, <2>3, JudgeMoves
<1>9. CASE Upload(p)
  <2> DEFINE saved == run[p].saved \cup {item[2] : item \in run[p].accepted}
  <2>1. Queued(p) /\ run[p].pc = "upload" /\ GoesOn(p, "item", run[p].items, {}, saved)
    BY <1>9, UploadMoves
  <2>2. run[p].items \cup {} \subseteq Hand(run[p])
    BY DEF Hand
  <2>3. run[p].accepted \in SUBSET Items
    BY RunTyped DEF RunState
  <2>4. \A item \in run[p].accepted : item[1] \in Attachments /\ uploads'[item[1]] > 0
    BY <1>9, <2>3, StoreStores, FilesAre DEF Upload
  <2>5. \A item \in Hand(run[p]) : item \notin run[p].items \cup {} => Settled(item[1])'
    BY <2>4 DEF Hand, Settled
  <2>6. ~Fetch(p) /\ saved \subseteq TakenUp(run[p])
    BY <1>9 DEF Upload, Fetch, At, TakenUp, Hand
  <2> HIDE DEF saved
  <2> QED
    BY <2>1, <2>2, <2>5, <2>6, GoesOnCovers
<1>10. CASE PageDone(p)
  <2>1. Queued(p) /\ run[p].pc = "item" /\ Hand(run[p]) = {}
    BY <1>10, PageDoneMoves DEF Hand
  <2>3. ~Fetch(p) /\ run[p].saved \subseteq TakenUp(run[p])
    BY <1>10 DEF PageDone, Fetch, At, TakenUp
  <2>2. CASE \E pc \in {"page", "mark"} : GoesOn(p, pc, {}, {}, run[p].saved)
    BY <2>1, <2>2, <2>3, GoesOnCovers
  <2> QED
    BY <1>10, <2>2, PageDoneMoves, RestsCover
<1>11. CASE UploadFails(p)
  <2>1. CASE UNCHANGED run
    BY <1>11, <2>1, OthersCover DEF UploadFails, Fetch, At
  <2> QED
    BY <1>11, <2>1, UploadFailsMoves, RestsCover
<1> QED
  BY <1>1, <1>2, <1>3, <1>4, <1>5, <1>6, <1>7, <1>8, <1>9, <1>10, <1>11
     DEF Step, RunStep, Failure, Ending

\* What a process marks for its own sake has been settled.
LEMMA MarksWhatIsDone ==
    ASSUME Structure, Covered, NEW p \in Processes, run[p].queue # <<>>, run[p].pc = "mark",
           NEW fallback \in BOOLEAN, MarkSaved(p, Box(Current(p), fallback)),
           NEW a \in Accounts, NEW m \in marked'[a], <<a, m>> \notin mistaken',
           NEW att \in AttachmentsOf(a, m)
    PROVE  Settled(att)
<1> DEFINE box == Box(Current(p), fallback)
<1>1. /\ marked'[Current(p)] =
             marked[Current(p)] \cup {box[u] : u \in run[p].saved \cap DOMAIN box}
      /\ \A b \in Accounts : b # Current(p) => marked'[b] = marked[b]
      /\ mistaken \subseteq mistaken'
      /\ \A u \in run[p].saved \cap DOMAIN box :
             box[u] # PageBox(p)[u] => <<Current(p), box[u]>> \in mistaken'
  BY MarkSavedMarks
<1> HIDE DEF box
<1>2. CASE m \in marked[a]
  BY <1>1, <1>2 DEF Covered, MarkedSettled
<1>3. CASE m \notin marked[a]
  <2>1. a = Current(p)
    BY <1>1, <1>3
  <2>2. PICK u \in run[p].saved \cap DOMAIN box : box[u] = m
    BY <1>1, <1>3, <2>1
  <2>3. PageBox(p)[u] = m
    BY <1>1, <2>1, <2>2
  <2>4. Hand(run[p]) = {} /\ u \in TakenUp(run[p])
    BY <2>2 DEF TakenUp, Structure, Sound, TurnSound
  <2> QED
    BY <2>1, <2>3, <2>4 DEF Covered, Covers
<1> QED
  BY <1>2, <1>3

LEMMA MarkedStep ==
    ASSUME Structure, Covered, NEW p \in Processes, Step(p)
    PROVE  MarkedSettled'
<1>1. ASSUME NEW a \in Accounts, NEW m \in marked'[a], <<a, m>> \notin mistaken',
             NEW att \in AttachmentsOf(a, m)
      PROVE  Settled(att)
  <2>1. CASE UNCHANGED marked
    BY <1>1, <2>1, HistorySound DEF Covered, MarkedSettled
  <2>2. CASE Mark(p) \/ MarkFails(p)
    <3>1. run[p].queue # <<>> /\ run[p].pc = "mark"
      BY <2>2 DEF Mark, MarkFails, At, Structure, Sound, TurnSound
    <3>2. \/ UNCHANGED marked
          \/ \E fallback \in BOOLEAN : MarkSaved(p, Box(Current(p), fallback))
      BY <2>2 DEF Mark, MarkFails
    <3> QED
      BY <1>1, <2>1, <3>1, <3>2, MarksWhatIsDone
  <2> QED
    BY <2>1, <2>2, MarkedOnlyBy
<1>2. ASSUME NEW a \in Accounts, NEW m \in marked'[a], NEW att \in AttachmentsOf(a, m)
      PROVE  att \in Attachments
  <2>1. m \in DOMAIN mail[a] /\ MailboxSound(a)
    BY MarkedSound DEF Structure
  <2> QED
    BY <2>1, AttachmentsAre DEF Structure
<1>3. ASSUME NEW a \in Accounts, NEW m \in marked'[a], <<a, m>> \notin mistaken',
             NEW att \in AttachmentsOf(a, m)
      PROVE  Settled(att)'
  BY <1>1, <1>2, <1>3, SettledKept
<1>4. mail' = mail
  BY OthersStay
<1>5. \A a, u : AttachmentsOf(a, u)' = AttachmentsOf(a, u)
  BY <1>4 DEF AttachmentsOf, Attached
<1> QED
  BY <1>3, <1>5 DEF MarkedSettled

LEMMA CoveredStep ==
    ASSUME Structure, Covered, NEW p \in Processes, Step(p)
    PROVE  Covered'
<1>1. ASSUME NEW q \in Processes
      PROVE  Covers(q)'
  <2>1. CASE q = p
    BY <2>1, StepCovers
  <2>2. CASE q # p
    BY <2>2, OthersCover, OthersStay
  <2> QED
    BY <2>1, <2>2
<1> QED
  BY <1>1, MarkedStep DEF Covered

\* INBOX only gets longer, and keeps its UIDs.
LEMMA ArriveKeepsBoxes ==
    ASSUME Structure, NEW a \in Accounts, Arrive(a), NEW b \in Accounts, NEW fallback \in BOOLEAN
    PROVE  \A u \in DOMAIN Box(b, fallback) :
               u \in DOMAIN Box(b, fallback)' /\ Box(b, fallback)'[u] = Box(b, fallback)[u]
<1>1. CASE ~fallback
  BY <1>1, ArriveKeeps DEF Box
<1>2. CASE fallback /\ (UNCHANGED inbox \/ b # a)
  <2>1. inbox'[b] = inbox[b]
    BY <1>2 DEF Arrive, Structure, TypeOK
  <2>2. Box(b, fallback) = inbox[b] /\ Box(b, fallback)' = inbox'[b]
    BY <1>2 DEF Box
  <2> QED
    BY <2>1, <2>2
<1>3. CASE fallback /\ b = a /\ inbox' = [inbox EXCEPT ![a] = Append(@, Len(mail[a]) + 1)]
  <2> DEFINE n == Len(mail[a]) + 1
  <2>1. n \in Uids
    <3>1. Len(mail[a]) \in Nat /\ Len(mail[a]) < MaxMail
      BY MailTyped DEF Structure, Arrive
    <3> QED
      BY <3>1, BoundAssumption DEF Uids
  <2>2. inbox[a] \in Seq(Uids)
    BY DEF Structure, TypeOK
  <2> HIDE DEF n
  <2>3. inbox'[a] = Append(inbox[a], n)
    BY <1>3 DEF Structure, TypeOK, n
  <2>4. \A u \in DOMAIN inbox[a] : u \in DOMAIN inbox'[a] /\ inbox'[a][u] = inbox[a][u]
    BY <2>1, <2>2, <2>3
  <2> QED
    BY <1>3, <2>4 DEF Box
<1> QED
  BY <1>1, <1>2, <1>3 DEF Arrive

LEMMA CoveredArrive ==
    ASSUME Structure, Covered, NEW a \in Accounts, Arrive(a)
    PROVE  Covered'
<1>1. UNCHANGED <<marked, uploads, rejected, elsewhere, mistaken, run, strayed>>
  BY DEF Arrive, outcome, history, trouble
<1>2. ASSUME NEW b \in Accounts, NEW u \in DOMAIN mail[b]
      PROVE  /\ AttachmentsOf(b, u)' = AttachmentsOf(b, u)
             /\ \A att \in AttachmentsOf(b, u) : Settled(att)' <=> Settled(att)
  <2>1. mail'[b][u] = mail[b][u]
    BY MailGrows
  <2>2. \A att \in AttachmentsOf(b, u) : att \in Attachments /\ Arrived(att)
    BY AttachmentsAre DEF Structure
  <2> QED
    BY <1>1, <2>1, <2>2, ArriveKeeps DEF AttachmentsOf, Attached, Settled, Eligible
<1>3. MarkedSettled'
  <2>1. \A b \in Accounts : marked[b] \subseteq DOMAIN mail[b]
    BY DEF Structure, MailboxSound
  <2>2. ASSUME NEW b \in Accounts, NEW u \in marked[b], <<b, u>> \notin mistaken,
               NEW att \in AttachmentsOf(b, u)'
        PROVE  Settled(att)'
    <3>1. u \in DOMAIN mail[b]
      BY <2>1
    <3>2. att \in AttachmentsOf(b, u) /\ (Settled(att)' <=> Settled(att))
      BY <1>2, <2>2, <3>1
    <3> QED
      BY <2>2, <3>2 DEF Covered, MarkedSettled
  <2> QED
    BY <1>1, <2>2 DEF MarkedSettled
<1>4. ASSUME NEW p \in Processes
      PROVE  Covers(p)'
  <2>1. CASE run[p].queue = <<>>
    BY <1>1, <2>1 DEF Covers
  <2>2. CASE run[p].queue # <<>>
    <3>1. Current(p) \in Accounts /\ Current(p)' = Current(p)
      BY <1>1, <2>2, RunTyped DEF Current
    <3>2. PICK fallback \in BOOLEAN : fallback <=> p \in elsewhere
      OBVIOUS
    <3>3. PageBox(p) = Box(Current(p), fallback)
      BY <3>2 DEF PageBox, Box
    <3>4. PageBox(p)' = Box(Current(p), fallback)'
      BY <1>1, <3>2 DEF PageBox, Box
    <3>5. PICK b \in Accounts : b = Current(p)
      BY <3>1
    <3>6. PageBox(p)' = Box(b, fallback)'
      BY <3>1, <3>4, <3>5 DEF Box
    <3>7. \A u \in DOMAIN PageBox(p) : u \in DOMAIN PageBox(p)' /\ PageBox(p)'[u] = PageBox(p)[u]
      BY <3>3, <3>5, <3>6, ArriveKeepsBoxes
    <3>8. Covers(p)
      BY DEF Covered
    <3>9. ASSUME NEW u \in TakenUp(run[p])
          PROVE  /\ u \in DOMAIN PageBox(p)'
                 /\ \A att \in AttachmentsOf(Current(p), PageBox(p)[u])' :
                        Settled(att)' \/ <<att, u>> \in Hand(run[p])
      <4>1. /\ u \in DOMAIN PageBox(p)
            /\ \A att \in AttachmentsOf(Current(p), PageBox(p)[u]) :
                   Settled(att) \/ <<att, u>> \in Hand(run[p])
        BY <2>2, <3>8 DEF Covers
      <4>2. u \in DOMAIN PageBox(p)' /\ PageBox(p)'[u] = PageBox(p)[u]
        BY <3>7, <4>1
      <4>3. PICK m \in DOMAIN mail[b] : m = PageBox(p)[u]
        BY <2>2, <3>5, <4>1, PageMessages
      <4>4. /\ AttachmentsOf(b, m)' = AttachmentsOf(b, m)
            /\ \A att \in AttachmentsOf(b, m) : Settled(att)' <=> Settled(att)
        BY <1>2
      <4>5. AttachmentsOf(Current(p), PageBox(p)[u])' = AttachmentsOf(b, m)'
        BY <3>1, <3>5, <4>2, <4>3 DEF AttachmentsOf, Attached
      <4> QED
        BY <3>5, <4>1, <4>2, <4>3, <4>4, <4>5
    <3>10. Hand(run[p])' = Hand(run[p]) /\ TakenUp(run[p])' = TakenUp(run[p])
      BY <1>1 DEF Hand, TakenUp
    <3> QED
      BY <1>1, <2>2, <3>1, <3>8, <3>9, <3>10 DEF Covers
  <2> QED
    BY <2>1, <2>2
<1> QED
  BY <1>3, <1>4 DEF Covered

LEMMA CoveredInit == Init => Covered
BY DEF Init, Covered, Covers, MarkedSettled, Stopped

LEMMA CoveredNext ==
    ASSUME Structure, Covered, [Next]_vars
    PROVE  Covered'
<1>1. CASE UNCHANGED vars
  <2>1. UNCHANGED <<mail, inbox, marked, uploads, rejected, elsewhere, mistaken, run, strayed>>
    BY <1>1 DEF vars, server, outcome, history, trouble
  <2>2. /\ \A a, u : AttachmentsOf(a, u)' = AttachmentsOf(a, u)
        /\ \A att : Settled(att)' <=> Settled(att)
    BY <2>1 DEF AttachmentsOf, Attached, Settled, Eligible, KindOf
  <2>3. MarkedSettled'
    BY <2>1, <2>2 DEF Covered, MarkedSettled
  <2>4. ASSUME NEW p \in Processes
        PROVE  Covers(p)'
    <3>1. /\ Current(p)' = Current(p) /\ PageBox(p)' = PageBox(p)
          /\ Hand(run[p])' = Hand(run[p]) /\ TakenUp(run[p])' = TakenUp(run[p])
      BY <2>1 DEF Current, PageBox, Box, Hand, TakenUp
    <3> QED
      BY <2>1, <2>2, <3>1 DEF Covered, Covers
  <2> QED
    BY <2>3, <2>4 DEF Covered
<1> QED
  BY <1>1, CoveredStep, CoveredArrive DEF Next, Step

(***************************************************************************)
(* A message bears the label or flag only when what the server gives for   *)
(* each eligible attachment of it is in Paperless or was turned down, or   *)
(* it was marked by the UID of another message, fetched from INBOX and     *)
(* marked in the mailbox or the other way round: whatever fails, whatever  *)
(* runs overlap, however the parts of messages are numbered, and however   *)
(* long the mailbox and its pages are.                                     *)
(***************************************************************************)
THEOREM MarkedMailIsDone == Spec => []MarkedIsDone
<1>1. Init => Structure /\ Covered
  BY StructureInit, CoveredInit
<1>2. Structure /\ Covered /\ [Next]_vars => (Structure /\ Covered)'
  BY StructureNext, CoveredNext
<1>3. Structure /\ Covered => MarkedIsDone
  <2>1. SUFFICES ASSUME Covered, NEW a \in Accounts, NEW u \in marked[a], <<a, u>> \notin mistaken,
                        NEW att \in AttachmentsOf(a, u), Eligible(att)
                 PROVE  Stored(Given(att)) \/ att \in rejected
    BY DEF MarkedIsDone
  <2>2. uploads[att] > 0 \/ att \in rejected
    BY <2>1 DEF Covered, MarkedSettled, Settled
  <2>3. att[1] = a /\ att[2] = u
    BY DEF AttachmentsOf
  <2>4. Given(att)[1] = a /\ Given(att)[2] = u
    BY <2>3 DEF Given
  <2> QED
    BY <2>2, <2>4 DEF Stored
<1> QED
  BY <1>1, <1>2, <1>3, PTL DEF Spec

-----------------------------------------------------------------------------
(* Copies of a document: how the counts change when one process moves.     *)

One(b) == IF b THEN 1 ELSE 0

LEMMA CountsAre ==
    ASSUME NEW S \in SUBSET Processes
    PROVE  IsFiniteSet(S) /\ Cardinality(S) \in Nat /\ Cardinality(S) <= Cardinality(Processes)
           /\ Cardinality(Processes) \in Nat
BY ProcessAssumption, FS_Subset, FS_CardinalityType

LEMMA CountMoves ==
    ASSUME NEW p \in Processes, NEW S \in SUBSET Processes, NEW T \in SUBSET Processes,
           S \ {p} = T \ {p}
    PROVE  \E k \in Nat : /\ Cardinality(S) = k + One(p \in S)
                          /\ Cardinality(T) = k + One(p \in T)
<1>1. /\ IsFiniteSet(S) /\ IsFiniteSet(T)
      /\ Cardinality(S) \in Nat /\ Cardinality(T) \in Nat
  BY CountsAre
<1>2. /\ Cardinality(S \ {p}) = IF p \in S THEN Cardinality(S) - 1 ELSE Cardinality(S)
      /\ Cardinality(T \ {p}) = IF p \in T THEN Cardinality(T) - 1 ELSE Cardinality(T)
  BY <1>1, FS_RemoveElement
<1>3. Cardinality(S \ {p}) \in Nat
  BY CountsAre
<1> QED
  BY <1>1, <1>2, <1>3 DEF One

LEMMA DisjointCounts ==
    ASSUME NEW S \in SUBSET Processes, NEW T \in SUBSET Processes, S \cap T = {}
    PROVE  Cardinality(S) + Cardinality(T) <= Cardinality(Processes)
<1>1. /\ IsFiniteSet(S) /\ IsFiniteSet(T)
      /\ Cardinality(S) \in Nat /\ Cardinality(T) \in Nat
  BY CountsAre
<1>2. Cardinality(S \cup T) = Cardinality(S) + Cardinality(T) - Cardinality(S \cap T)
  BY <1>1, FS_Union
<1>3. Cardinality(S \cap T) = 0
  BY FS_EmptySet
<1>4. S \cup T \in SUBSET Processes
  OBVIOUS
<1>5. Cardinality(S \cup T) <= Cardinality(Processes)
  BY <1>4, CountsAre
<1> QED
  BY <1>1, <1>2, <1>3, <1>5

(***************************************************************************)
(* What a step may do to the counts of an attachment.  Not marked: a copy  *)
(* comes with a process that is to mark the message or is astray no more,  *)
(* or with a fault.  Marked: a process that uploads or goes astray was     *)
(* pending, or there is a fault.                                           *)
(***************************************************************************)
Charged(p, att) ==
    /\ att[2] \notin marked'[att[1]] =>
           uploads'[att] + One(IsAstray(run'[p], att)) + One(IsMarking(run[p], att)) + faults
               <= uploads[att] + One(IsAstray(run[p], att)) + One(IsMarking(run'[p], att)) + faults'
    /\ att[2] \in marked[att[1]] =>
           uploads'[att] + One(IsPending(run'[p], att)) + faults
               <= uploads[att] + One(IsPending(run[p], att)) + faults'
    /\ att[2] \in marked'[att[1]] /\ att[2] \notin marked[att[1]] =>
           /\ uploads'[att] = uploads[att]
           /\ IsPending(run'[p], att) => IsPending(run[p], att)

LEMMA ChargedCounts ==
    ASSUME Structure, NEW p \in Processes, Step(p), NEW att \in Attachments,
           CopiesCounted(att), Charged(p, att)
    PROVE  CopiesCounted(att)'
<1>1. \A q \in Processes : q # p => run'[q] = run[q]
  BY OthersStay
<1>2. Pending(att) \in SUBSET Processes /\ Pending(att)' \in SUBSET Processes
      /\ Marking(att) \in SUBSET Processes /\ Marking(att)' \in SUBSET Processes
      /\ Astray(att) \in SUBSET Processes /\ Astray(att)' \in SUBSET Processes
  BY DEF Pending, Marking, Astray
<1>3. /\ p \in Pending(att) <=> IsPending(run[p], att)
      /\ p \in Pending(att)' <=> IsPending(run'[p], att)
      /\ p \in Marking(att) <=> IsMarking(run[p], att)
      /\ p \in Marking(att)' <=> IsMarking(run'[p], att)
      /\ p \in Astray(att) <=> IsAstray(run[p], att)
      /\ p \in Astray(att)' <=> IsAstray(run'[p], att)
  BY DEF Pending, Marking, Astray, IsPending, IsMarking, IsAstray, Turn, Holds, Hand, Account
<1>4. \A q \in Processes : q # p =>
          /\ q \in Pending(att)' <=> q \in Pending(att)
          /\ q \in Marking(att)' <=> q \in Marking(att)
          /\ q \in Astray(att)' <=> q \in Astray(att)
  BY <1>1 DEF Pending, Marking, Astray, IsPending, IsMarking, IsAstray, Turn, Holds, Hand, Account
<1>5. /\ Pending(att) \ {p} = Pending(att)' \ {p}
      /\ Marking(att) \ {p} = Marking(att)' \ {p}
      /\ Astray(att) \ {p} = Astray(att)' \ {p}
  BY <1>2, <1>4
<1>6. PICK k \in Nat : /\ Cardinality(Pending(att)) = k + One(IsPending(run[p], att))
                       /\ Cardinality(Pending(att)') = k + One(IsPending(run'[p], att))
  <2>1. \E k \in Nat : /\ Cardinality(Pending(att)) = k + One(p \in Pending(att))
                       /\ Cardinality(Pending(att)') = k + One(p \in Pending(att)')
    BY <1>2, <1>5, CountMoves
  <2> QED
    BY <1>3, <2>1 DEF One
<1>7. PICK l \in Nat : /\ Cardinality(Marking(att)) = l + One(IsMarking(run[p], att))
                       /\ Cardinality(Marking(att)') = l + One(IsMarking(run'[p], att))
  <2>1. \E n \in Nat : /\ Cardinality(Marking(att)) = n + One(p \in Marking(att))
                       /\ Cardinality(Marking(att)') = n + One(p \in Marking(att)')
    BY <1>2, <1>5, CountMoves
  <2> QED
    BY <1>3, <2>1 DEF One
<1>8. PICK m \in Nat : /\ Cardinality(Astray(att)) = m + One(IsAstray(run[p], att))
                       /\ Cardinality(Astray(att)') = m + One(IsAstray(run'[p], att))
  <2>1. \E n \in Nat : /\ Cardinality(Astray(att)) = n + One(p \in Astray(att))
                       /\ Cardinality(Astray(att)') = n + One(p \in Astray(att)')
    BY <1>2, <1>5, CountMoves
  <2> QED
    BY <1>3, <2>1 DEF One
<1>9. Cardinality(Pending(att)) + Cardinality(Marking(att)) <= Cardinality(Processes)
  <2>1. Pending(att) \cap Marking(att) = {}
    <3>1. \A q \in Processes : IsMarking(run[q], att) =>
              /\ run[q].saved # {} /\ ~Holds(run[q], att) /\ run[q].pc # "fetch"
      BY DEF IsMarking, Structure, Sound, TurnSound
    <3> QED
      BY <3>1 DEF Pending, Marking, IsPending
  <2> QED
    BY <1>2, <2>1, DisjointCounts
<1>10. /\ uploads[att] \in Nat /\ uploads'[att] \in Nat /\ faults \in Nat /\ faults' \in Nat
       /\ faults <= faults' /\ Cardinality(Processes) \in Nat
  BY TroubleGrows, UploadsSound, CountsAre, BoundAssumption DEF Structure, TypeOK
<1>11. \A b : One(b) \in {0, 1}
  BY DEF One
<1>12. marked[att[1]] \subseteq marked'[att[1]]
  BY MarkedSound, ArrivedAre
<1>13. CASE att[2] \notin marked'[att[1]]
  <2>1. uploads'[att] + One(IsAstray(run'[p], att)) + One(IsMarking(run[p], att)) + faults
               <= uploads[att] + One(IsAstray(run[p], att)) + One(IsMarking(run'[p], att)) + faults'
    BY <1>13 DEF Charged
  <2>2. uploads[att] + Cardinality(Astray(att)) <= Cardinality(Marking(att)) + faults
    BY <1>12, <1>13 DEF CopiesCounted
  <2>3. uploads'[att] + Cardinality(Astray(att)') <= Cardinality(Marking(att)') + faults'
    BY <1>7, <1>8, <1>10, <1>11, <2>1, <2>2
  <2> QED
    BY <1>13, <2>3 DEF CopiesCounted
<1>14. CASE att[2] \in marked[att[1]]
  <2>1. uploads'[att] + One(IsPending(run'[p], att)) + faults
               <= uploads[att] + One(IsPending(run[p], att)) + faults'
    BY <1>14 DEF Charged
  <2>2. uploads[att] + Cardinality(Pending(att)) <= Cardinality(Processes) + faults
    BY <1>14 DEF CopiesCounted
  <2>3. uploads'[att] + Cardinality(Pending(att)') <= Cardinality(Processes) + faults'
    BY <1>6, <1>10, <1>11, <2>1, <2>2
  <2> QED
    BY <1>12, <1>14, <2>3 DEF CopiesCounted
<1>15. CASE att[2] \in marked'[att[1]] /\ att[2] \notin marked[att[1]]
  <2>1. /\ uploads'[att] = uploads[att]
        /\ IsPending(run'[p], att) => IsPending(run[p], att)
    BY <1>15 DEF Charged
  <2>2. uploads[att] + Cardinality(Astray(att)) <= Cardinality(Marking(att)) + faults
    BY <1>15 DEF CopiesCounted
  <2>3. One(IsPending(run'[p], att)) <= One(IsPending(run[p], att))
    BY <2>1 DEF One
  <2>4. uploads'[att] + Cardinality(Pending(att)') <= Cardinality(Processes) + faults'
    BY <1>6, <1>7, <1>8, <1>9, <1>10, <1>11, <2>1, <2>2, <2>3
  <2> QED
    BY <1>15, <2>4 DEF CopiesCounted
<1> QED
  BY <1>13, <1>14, <1>15

-----------------------------------------------------------------------------
(* Every step pays for the copies it makes.                                *)

\* Marks and copies stay, nothing new is pending or astray, nothing to mark is dropped.
LEMMA QuietCharged ==
    ASSUME Structure, NEW p \in Processes, Step(p), NEW att \in Attachments,
           uploads'[att] = uploads[att], UNCHANGED marked,
           IsPending(run'[p], att) => IsPending(run[p], att),
           IsAstray(run'[p], att) => IsAstray(run[p], att),
           IsMarking(run[p], att) => IsMarking(run'[p], att)
    PROVE  Charged(p, att)
<1>1. /\ uploads[att] \in Nat /\ uploads'[att] \in Nat /\ faults \in Nat /\ faults' \in Nat
      /\ faults <= faults'
  BY TroubleGrows, UploadsSound, BoundAssumption DEF Structure, TypeOK
<1>2. /\ One(IsPending(run'[p], att)) <= One(IsPending(run[p], att))
      /\ One(IsAstray(run'[p], att)) <= One(IsAstray(run[p], att))
      /\ One(IsMarking(run[p], att)) <= One(IsMarking(run'[p], att))
  BY DEF One
<1>3. \A b : One(b) \in {0, 1}
  BY DEF One
<1> QED
  BY <1>1, <1>2, <1>3 DEF Charged

\* A fault pays for one copy, one process that goes astray or one that does not mark.
LEMMA FaultCharged ==
    ASSUME Structure, NEW p \in Processes, Step(p), NEW att \in Attachments,
           faults' = faults + 1, UNCHANGED marked,
           IsPending(run'[p], att) => IsPending(run[p], att),
           IsAstray(run'[p], att) => IsAstray(run[p], att),
           uploads'[att] # uploads[att] => ~IsMarking(run[p], att)
    PROVE  Charged(p, att)
<1>1. /\ uploads[att] \in Nat /\ uploads'[att] \in Nat /\ faults \in Nat
      /\ uploads'[att] <= uploads[att] + 1
  BY UploadsSound, BoundAssumption DEF Structure, TypeOK
<1>2. /\ One(IsPending(run'[p], att)) <= One(IsPending(run[p], att))
      /\ One(IsAstray(run'[p], att)) <= One(IsAstray(run[p], att))
      /\ uploads'[att] # uploads[att] => One(IsMarking(run[p], att)) = 0
  BY DEF One
<1>3. \A b : One(b) \in {0, 1}
  BY DEF One
<1> QED
  BY <1>1, <1>2, <1>3 DEF Charged

LEMMA RestsHoldNothing ==
    ASSUME NEW r, Rests(r), NEW att
    PROVE  ~IsPending(r, att) /\ ~IsMarking(r, att) /\ ~IsAstray(r, att)
BY DEF Rests, IsPending, IsMarking, IsAstray, Holds, Hand

LEMMA NoneToMark ==
    ASSUME NEW p \in Processes, run[p].saved = {}, NEW att
    PROVE  ~IsMarking(run[p], att)
BY DEF IsMarking

\* A process that goes on with its page.
LEMMA GoesOnHolds ==
    ASSUME Structure, NEW p \in Processes, NEW att,
           NEW pc, NEW items, NEW accepted, NEW saved,
           GoesOn(p, pc, items, accepted, saved),
           pc = "fetch" => run[p].pc = "fetch",
           items \cup accepted \subseteq Hand(run[p]),
           run[p].saved \subseteq saved
    PROVE  /\ IsPending(run'[p], att) => IsPending(run[p], att)
           /\ IsAstray(run'[p], att) => IsAstray(run[p], att)
           /\ IsMarking(run[p], att) => IsMarking(run'[p], att)
<1>1. /\ run'[p].pc = pc /\ run'[p].queue = run[p].queue /\ run'[p].page = run[p].page
      /\ run'[p].todo = run[p].todo
      /\ run'[p].items = items /\ run'[p].accepted = accepted /\ run'[p].saved = saved
  BY DEF GoesOn, Is
<1>2. Hand(run'[p]) \subseteq Hand(run[p])
  BY <1>1 DEF Hand
<1>3. Turn(run'[p], att) <=> Turn(run[p], att)
  BY <1>1 DEF Turn, Account
<1>4. Holds(run'[p], att) => Holds(run[p], att)
  BY <1>2 DEF Holds
<1>5. IsPending(run'[p], att) => IsPending(run[p], att)
  BY <1>1, <1>3, <1>4 DEF IsPending
<1>6. IsAstray(run'[p], att) => IsAstray(run[p], att)
  BY <1>2, <1>3 DEF IsAstray
<1>7. IsMarking(run[p], att) => IsMarking(run'[p], att)
  BY <1>1, <1>3, <1>4 DEF IsMarking
<1> QED
  BY <1>5, <1>6, <1>7

\* The mailbox is searched without what is marked, unless INBOX is opened for it.
LEMMA SearchCharged ==
    ASSUME Structure, Labelling, NEW p \in Processes, Search(p),
           NEW att \in Attachments, att[1] \in Gmail
    PROVE  Charged(p, att)
<1>1. PICK fallback \in BOOLEAN :
        /\ Open(p, fallback)
        /\ Is(run'[p], "page", run[p].queue,
              Uid(Box(Current(p), fallback), Matches(Current(p))), {}, {}, {}, {})
  BY SearchMoves
<1>2. run[p].queue # <<>> /\ Current(p) \in Accounts /\ MailboxSound(Current(p))
      /\ Current(p) = Account(run[p])
  BY SearchMoves, RunTyped DEF Queued
<1>3. Step(p) /\ UNCHANGED marked /\ UNCHANGED uploads /\ run[p].saved = {}
  BY DEF Step, RunStep, Search, server, outcome, At, Structure, Sound, TurnSound
<1>4. ~IsAstray(run'[p], att) /\ ~IsMarking(run[p], att)
  BY <1>1, <1>3 DEF IsAstray, IsMarking, Is, Hand
<1>5. /\ uploads[att] \in Nat /\ uploads'[att] = uploads[att] /\ faults \in Nat /\ faults' \in Nat
      /\ faults <= faults'
  BY <1>3, TroubleGrows, BoundAssumption DEF Structure, TypeOK
<1>6. \A b : One(b) \in {0, 1}
  BY DEF One
<1>7. One(IsAstray(run'[p], att)) = 0 /\ One(IsMarking(run[p], att)) = 0
  BY <1>4 DEF One
<1>8. CASE fallback
  <2>1. faults' = faults + 1
    BY <1>1, <1>8 DEF Open
  <2> QED
    BY <1>3, <1>5, <1>6, <1>7, <2>1 DEF Charged
<1>9. CASE ~fallback
  <2>1. att[2] \in marked[att[1]] => ~IsPending(run'[p], att)
    <3>1. /\ run'[p].queue = run[p].queue /\ run'[p].page = {} /\ Hand(run'[p]) = {}
          /\ run'[p].todo = Uid(Box(Current(p), fallback), Matches(Current(p)))
      BY <1>1 DEF Is, Hand
    <3>2. Turn(run'[p], att) => Current(p) = att[1]
      BY <1>2, <3>1 DEF Turn, Account
    <3>3. Current(p) \in Gmail => Matches(Current(p)) = DOMAIN mail[Current(p)] \ marked[Current(p)]
      BY DEF Matches
    <3>4. \A u \in DOMAIN Box(Current(p), fallback) : Box(Current(p), fallback)[u] = u
      BY <1>2, <1>9, BoxSound DEF Structure
    <3>5. Current(p) \in Gmail => run'[p].todo \cap marked[Current(p)] = {}
      BY <3>1, <3>3, <3>4 DEF Uid
    <3> QED
      BY <3>1, <3>2, <3>5 DEF IsPending, Holds
  <2>2. att[2] \in marked[att[1]] => One(IsPending(run'[p], att)) = 0
    BY <2>1 DEF One
  <2> QED
    BY <1>3, <1>5, <1>6, <1>7, <2>2 DEF Charged
<1> QED
  BY <1>8, <1>9

LEMMA FetchCharged ==
    ASSUME Structure, NEW p \in Processes, Fetch(p), NEW att \in Attachments
    PROVE  Charged(p, att)
<1>1. PICK fallback \in BOOLEAN :
        /\ Open(p, fallback)
        /\ GoesOn(p, "collect",
               {item \in PageParts(Current(p), fallback, run[p].page) : KindOf(item[1]) # "huge"}, {}, {})
  BY FetchMoves
<1> DEFINE parts == PageParts(Current(p), fallback, run[p].page)
<1>2. run[p].queue # <<>> /\ Current(p) \in Accounts /\ MailboxSound(Current(p))
      /\ run[p].page \in SUBSET Uids /\ run[p].pc = "fetch"
  BY FetchMoves, RunTyped DEF Queued, RunState
<1>3. Step(p) /\ UNCHANGED marked /\ UNCHANGED uploads /\ run[p].saved = {}
  BY DEF Step, RunStep, Fetch, server, outcome, At, Structure, Sound, TurnSound
<1>4. ~IsMarking(run[p], att)
  BY <1>3, NoneToMark
<1>5. CASE fallback
  <2>1. faults' = faults + 1
    BY <1>1, <1>5 DEF Open
  <2>2. /\ uploads[att] \in Nat /\ uploads'[att] = uploads[att] /\ faults \in Nat
    BY <1>3, BoundAssumption DEF Structure, TypeOK
  <2>3. \A b : One(b) \in {0, 1}
    BY DEF One
  <2>4. One(IsMarking(run[p], att)) = 0
    BY <1>4 DEF One
  <2> QED
    BY <1>3, <2>1, <2>2, <2>3, <2>4 DEF Charged
<1>6. CASE ~fallback
  <2>1. \A item \in parts : item[1][2] = item[2] /\ item[2] \in run[p].page
    BY <1>2, <1>6, PartsSound DEF Structure
  <2> HIDE DEF parts
  <2>2. /\ run'[p].pc = "collect" /\ run'[p].queue = run[p].queue /\ run'[p].todo = run[p].todo
        /\ run'[p].saved = {}
        /\ Hand(run'[p]) = {item \in parts : KindOf(item[1]) # "huge"}
    BY <1>1 DEF GoesOn, Is, parts, Hand
  <2>3. Turn(run'[p], att) <=> Turn(run[p], att)
    BY <2>2 DEF Turn, Account
  <2>4. Holds(run'[p], att) => att[2] \in run[p].page
    BY <2>1, <2>2 DEF Holds
  <2>5. IsPending(run'[p], att) => IsPending(run[p], att)
    BY <1>2, <1>3, <2>2, <2>3, <2>4 DEF IsPending
  <2>6. ~IsAstray(run'[p], att)
    BY <2>1, <2>2 DEF IsAstray
  <2> QED
    BY <1>3, <1>4, <2>5, <2>6, QuietCharged
<1> QED
  BY <1>5, <1>6

LEMMA NextPageCharged ==
    ASSUME Structure, NEW p \in Processes, NextPage(p), NEW att \in Attachments
    PROVE  Charged(p, att)
<1>1. Step(p) /\ UNCHANGED marked /\ UNCHANGED uploads /\ run[p].saved = {}
  BY DEF Step, RunStep, NextPage, server, outcome, At, Structure, Sound, TurnSound
<1>2. ~IsMarking(run[p], att)
  BY <1>1, NoneToMark
<1>3. CASE Rests(run'[p])
  BY <1>1, <1>2, <1>3, RestsHoldNothing, QuietCharged
<1>4. CASE Is(run'[p], "fetch", run[p].queue, run[p].todo \ FirstPage(run[p].todo),
              FirstPage(run[p].todo), {}, {}, {})
  <2>1. /\ run'[p].queue = run[p].queue /\ Hand(run'[p]) = {}
        /\ run'[p].todo \subseteq run[p].todo /\ run'[p].page \subseteq run[p].todo
    BY <1>4 DEF Is, Hand, FirstPage
  <2>2. Turn(run'[p], att) <=> Turn(run[p], att)
    BY <2>1 DEF Turn, Account
  <2>3. IsPending(run'[p], att) => IsPending(run[p], att)
    BY <1>1, <2>1, <2>2 DEF IsPending, Holds
  <2>4. ~IsAstray(run'[p], att)
    BY <2>1 DEF IsAstray
  <2> QED
    BY <1>1, <1>2, <2>3, <2>4, QuietCharged
<1> QED
  BY <1>3, <1>4, NextPageMoves

LEMMA UploadCharged ==
    ASSUME Structure, NEW p \in Processes, Upload(p), NEW att \in Attachments
    PROVE  Charged(p, att)
<1> DEFINE saved == run[p].saved \cup {item[2] : item \in run[p].accepted}
<1>1. run[p].queue # <<>> /\ GoesOn(p, "item", run[p].items, {}, saved)
  BY UploadMoves DEF Queued
<1>2. Step(p) /\ UNCHANGED marked /\ UNCHANGED faults
  BY DEF Step, RunStep, Upload, server, NoFault, trouble
<1>3. CASE att \notin Files(run[p].accepted)
  <2>1. uploads'[att] = uploads[att]
    BY <1>2, <1>3, UploadsSound
  <2>2. run[p].items \cup {} \subseteq Hand(run[p]) /\ run[p].saved \subseteq saved
    BY DEF Hand
  <2> HIDE DEF saved
  <2>3. /\ IsPending(run'[p], att) => IsPending(run[p], att)
        /\ IsAstray(run'[p], att) => IsAstray(run[p], att)
        /\ IsMarking(run[p], att) => IsMarking(run'[p], att)
    BY <1>1, <2>2, GoesOnHolds
  <2> QED
    BY <1>2, <2>1, <2>3, QuietCharged
<1>4. CASE att \in Files(run[p].accepted)
  <2>1. PICK x \in run[p].accepted : x[1] = att
    BY <1>4 DEF Files
  <2>2. /\ \A y \in Hand(run[p]) : y[1] = att => y = x
        /\ x \notin run[p].items
        /\ att[1] = Account(run[p])
    BY <2>1 DEF Structure, Sound, TurnSound, ItemsSound, Hand
  <2>3. x[2] \in saved
    BY <2>1
  <2> HIDE DEF saved
  <2>4. /\ run'[p].pc = "item" /\ run'[p].queue = run[p].queue /\ run'[p].saved = saved
        /\ Hand(run'[p]) = run[p].items
    BY <1>1 DEF GoesOn, Is, Hand
  <2>5. ~Holds(run'[p], att)
    BY <2>2, <2>4 DEF Holds, Hand
  <2>6. Turn(run[p], att) /\ Turn(run'[p], att)
    BY <1>1, <2>2, <2>4 DEF Turn, Account
  <2>7. Holds(run[p], att)
    BY <2>1 DEF Holds, Hand
  <2>8. /\ ~IsMarking(run[p], att) /\ ~IsAstray(run'[p], att)
        /\ IsPending(run[p], att) /\ ~IsPending(run'[p], att)
    BY <2>3, <2>4, <2>5, <2>6, <2>7 DEF IsMarking, IsAstray, IsPending, Holds
  <2>9. IsMarking(run'[p], att) \/ IsAstray(run[p], att)
    <3>1. CASE x[2] = att[2]
      BY <2>3, <2>4, <2>5, <2>6, <3>1 DEF IsMarking
    <3>2. CASE x[2] # att[2]
      BY <2>1, <2>6, <3>2 DEF IsAstray, Hand
    <3> QED
      BY <3>1, <3>2
  <2>10. /\ One(IsMarking(run[p], att)) = 0 /\ One(IsAstray(run'[p], att)) = 0
         /\ One(IsPending(run[p], att)) = 1 /\ One(IsPending(run'[p], att)) = 0
         /\ One(IsMarking(run'[p], att)) = 1 \/ One(IsAstray(run[p], att)) = 1
    BY <2>8, <2>9 DEF One
  <2>11. \A b : One(b) \in {0, 1}
    BY DEF One
  <2>12. /\ uploads[att] \in Nat /\ uploads'[att] \in Nat /\ faults \in Nat /\ faults' = faults
         /\ uploads'[att] <= uploads[att] + 1
    BY <1>2, UploadsSound, BoundAssumption DEF Structure, TypeOK
  <2> QED
    BY <1>2, <2>10, <2>11, <2>12 DEF Charged
<1> QED
  BY <1>3, <1>4

\* The mark takes the place of the process that was to set it.
LEMMA MarkCharged ==
    ASSUME Structure, NEW p \in Processes, Mark(p) \/ MarkFails(p), NEW att \in Attachments
    PROVE  Charged(p, att)
<1>1. Step(p) /\ UNCHANGED uploads
  BY DEF Step, RunStep, Failure, Mark, MarkFails, outcome
<1>2. Rests(run'[p])
  BY EndingMoves DEF Ending
<1>3. ~IsPending(run'[p], att) /\ ~IsMarking(run'[p], att) /\ ~IsAstray(run'[p], att)
  BY <1>2, RestsHoldNothing
<1>4. run[p].queue # <<>>
  BY DEF Mark, MarkFails, At, Structure, Sound, TurnSound
<1>5. \/ faults' = faults + 1
      \/ IsMarking(run[p], att) => att[2] \in marked'[att[1]]
  <2>1. CASE MarkFails(p)
    BY <2>1 DEF MarkFails, Fault
  <2>2. CASE Mark(p)
    <3>1. PICK fallback \in BOOLEAN : Open(p, fallback) /\ MarkSaved(p, Box(Current(p), fallback))
      BY <2>2 DEF Mark
    <3>2. CASE fallback
      BY <3>1, <3>2 DEF Open
    <3>3. CASE ~fallback
      <4>1. Current(p) \in Accounts /\ MailboxSound(Current(p)) /\ Current(p) = Account(run[p])
        BY <1>4, RunTyped
      <4>2. /\ DOMAIN Box(Current(p), fallback) = DOMAIN mail[Current(p)]
            /\ \A u \in DOMAIN Box(Current(p), fallback) : Box(Current(p), fallback)[u] = u
        BY <3>3, <4>1, BoxSound DEF Structure
      <4>3. run[p].saved \subseteq DOMAIN mail[Current(p)]
        BY <1>4, <4>1 DEF Structure, Sound, TurnSound, ItemsSound
      <4>4. marked'[Current(p)] = marked[Current(p)] \cup
                {Box(Current(p), fallback)[u] : u \in run[p].saved \cap DOMAIN Box(Current(p), fallback)}
        BY <1>4, <3>1, MarkSavedMarks
      <4>5. run[p].saved \subseteq marked'[Current(p)]
        BY <4>2, <4>3, <4>4
      <4> QED
        BY <4>1, <4>5 DEF IsMarking, Turn
    <3> QED
      BY <3>2, <3>3
  <2> QED
    BY <2>1, <2>2
<1>6. /\ uploads[att] \in Nat /\ uploads'[att] = uploads[att] /\ faults \in Nat /\ faults' \in Nat
      /\ faults <= faults'
  BY <1>1, TroubleGrows, BoundAssumption DEF Structure, TypeOK
<1>7. /\ One(IsPending(run'[p], att)) = 0 /\ One(IsMarking(run'[p], att)) = 0
      /\ One(IsAstray(run'[p], att)) = 0
      /\ ~IsMarking(run[p], att) => One(IsMarking(run[p], att)) = 0
  BY <1>3 DEF One
<1>8. \A b : One(b) \in {0, 1}
  BY DEF One
<1> QED
  BY <1>3, <1>5, <1>6, <1>7, <1>8 DEF Charged

LEMMA FailureCharged ==
    ASSUME Structure, NEW p \in Processes, NEW att \in Attachments,
           SearchFails(p) \/ FetchFails(p) \/ CollectFails(p) \/ UploadFails(p) \/ Crash(p)
    PROVE  Charged(p, att)
<1>1. Step(p) /\ UNCHANGED marked /\ faults' = faults + 1
  BY DEF Step, Failure, SearchFails, FetchFails, CollectFails, UploadFails, Crash, Fault, server
<1>2. uploads'[att] # uploads[att] => ~IsMarking(run[p], att)
  <2>1. CASE uploads'[att] # uploads[att]
    <3>1. att \in Files(run[p].accepted)
      BY <1>1, <2>1, UploadsSound
    <3>2. Holds(run[p], att)
      BY <3>1 DEF Files, Holds, Hand
    <3> QED
      BY <3>2 DEF IsMarking
  <2> QED
    BY <2>1
<1>3. /\ IsPending(run'[p], att) => IsPending(run[p], att)
      /\ IsAstray(run'[p], att) => IsAstray(run[p], att)
  <2>1. CASE Rests(run'[p])
    BY <2>1, RestsHoldNothing
  <2>2. CASE UNCHANGED run
    BY <2>2
  <2>3. CASE SearchFails(p)
    <3>1. CASE Is(run'[p], "page", run[p].queue, {}, {}, {}, {}, {})
      BY <3>1 DEF Is, IsPending, IsAstray, Holds, Hand
    <3> QED
      BY <2>1, <2>3, <3>1, SearchFailsMoves
  <2>4. CASE FetchFails(p)
    <3>1. run[p].pc = "fetch" /\ run[p].saved = {}
      BY <2>4 DEF FetchFails, At, Structure, Sound, TurnSound
    <3>2. PICK pc \in {"fetch", "page"} : GoesOn(p, pc, {}, {}, {})
      BY <2>4, FetchFailsMoves
    <3> QED
      BY <3>1, <3>2, GoesOnHolds
  <2>5. CASE CollectFails(p) \/ Crash(p)
    BY <2>1, <2>5, EndingMoves DEF Ending
  <2>6. CASE UploadFails(p)
    BY <2>1, <2>2, <2>6, UploadFailsMoves
  <2> QED
    BY <2>3, <2>4, <2>5, <2>6
<1> QED
  BY <1>1, <1>2, <1>3, FaultCharged

\* Between two turns there is nothing to drop.
LEMMA TurnsCharged ==
    ASSUME Structure, NEW p \in Processes, NEW att \in Attachments,
           StartRun(p) \/ EndRun(p) \/ Connect(p) \/ UseClosedClient(p) \/ ConnectFails(p)
    PROVE  Charged(p, att)
<1>1. Step(p) /\ UNCHANGED marked /\ UNCHANGED uploads
  BY DEF Step, RunStep, StartRun, EndRun, Connect, UseClosedClient, ConnectFails, server, outcome
<1>2. run[p].saved = {}
  BY DEF StartRun, EndRun, Connect, UseClosedClient, ConnectFails, Takes, At, Structure, Sound, TurnSound
<1>3. Rests(run'[p])
  BY StartRunMoves, ConnectMoves, EndingMoves DEF Ending
<1> QED
  BY <1>1, <1>2, <1>3, NoneToMark, RestsHoldNothing, QuietCharged

\* Within a page attachments are only let go of.
LEMMA PageCharged ==
    ASSUME Structure, Labelling, NEW p \in Processes, NEW att \in Attachments,
           FetchMissing(p) \/ Collect(p) \/ PageDone(p) \/ \E item \in run[p].items : Judge(p, item)
    PROVE  Charged(p, att)
<1>1. Step(p) /\ UNCHANGED marked /\ UNCHANGED uploads
  BY DEF Step, RunStep, FetchMissing, Collect, PageDone, Judge, server, outcome
<1>2. /\ IsPending(run'[p], att) => IsPending(run[p], att)
      /\ IsAstray(run'[p], att) => IsAstray(run[p], att)
      /\ IsMarking(run[p], att) => IsMarking(run'[p], att)
  <2>1. CASE Collect(p)
    <3>1. GoesOn(p, "item", EligibleItems(run[p].items), {}, {}) /\ run[p].saved = {}
      BY <2>1, CollectMoves DEF Structure, Sound, TurnSound
    <3>2. EligibleItems(run[p].items) \cup {} \subseteq Hand(run[p])
      BY DEF EligibleItems, Hand
    <3> QED
      BY <3>1, <3>2, GoesOnHolds
  <2>2. CASE PageDone(p)
    <3>1. PICK pc \in {"page", "mark"} : GoesOn(p, pc, {}, {}, run[p].saved)
      BY <2>2, PageDoneMoves
    <3>2. {} \cup {} \subseteq Hand(run[p]) /\ pc # "fetch"
      OBVIOUS
    <3> QED
      BY <3>1, <3>2, GoesOnHolds
  <2>3. ASSUME NEW item \in run[p].items, Judge(p, item)
        PROVE  /\ IsPending(run'[p], att) => IsPending(run[p], att)
               /\ IsAstray(run'[p], att) => IsAstray(run[p], att)
               /\ IsMarking(run[p], att) => IsMarking(run'[p], att)
    <3> DEFINE rest == run[p].items \ {item}
    <3>1. rest \cup {item} \subseteq Hand(run[p]) /\ rest \cup {} \subseteq Hand(run[p])
      BY DEF Hand
    <3>2. \/ GoesOn(p, "upload", rest, {item}, run[p].saved)
          \/ GoesOn(p, "item", rest, {}, run[p].saved)
      BY <2>3, JudgeMoves
    <3> HIDE DEF rest
    <3> QED
      BY <3>1, <3>2, GoesOnHolds
  <2>4. CASE FetchMissing(p)
    <3>1. run[p].pc = "fetch" /\ run[p].saved = {}
      BY <2>4 DEF FetchMissing, At, Structure, Sound, TurnSound
    <3>2. PICK pc \in {"fetch", "page"} : GoesOn(p, pc, {}, {}, {})
      BY <2>4, FetchFailsMoves
    <3> QED
      BY <3>1, <3>2, GoesOnHolds
  <2> QED
    BY <2>1, <2>2, <2>3, <2>4
<1> QED
  BY <1>1, <1>2, QuietCharged

LEMMA CountedStep ==
    ASSUME Structure, Counted, NEW p \in Processes, Step(p)
    PROVE  Counted'
<1>1. ASSUME Labelling, NEW att \in Attachments, att[1] \in Gmail
      PROVE  CopiesCounted(att)'
  <2>1. Charged(p, att)
    BY <1>1, SearchCharged, FetchCharged, NextPageCharged, UploadCharged, MarkCharged, FailureCharged,
       TurnsCharged, PageCharged DEF Step, RunStep, Failure
  <2>2. CopiesCounted(att)
    BY <1>1 DEF Counted
  <2> QED
    BY <2>1, <2>2, ChargedCounts
<1> QED
  BY <1>1 DEF Counted

LEMMA CountedNext ==
    ASSUME Structure, Counted, [Next]_vars
    PROVE  Counted'
<1>1. CASE UNCHANGED <<marked, uploads, run, faults>>
  <2>1. \A att \in Attachments : CopiesCounted(att)' <=> CopiesCounted(att)
    BY <1>1 DEF CopiesCounted, Pending, Marking, Astray, IsPending, IsMarking, IsAstray, Turn, Holds,
       Hand, Account
  <2> QED
    BY <2>1 DEF Counted
<1>2. (\E a \in Accounts : Arrive(a)) => UNCHANGED <<marked, uploads, run, faults>>
  BY DEF Arrive, outcome, trouble
<1>3. UNCHANGED vars => UNCHANGED <<marked, uploads, run, faults>>
  BY DEF vars, server, outcome, trouble
<1> QED
  BY <1>1, <1>2, <1>3, CountedStep DEF Next, Step

LEMMA CountedInit == Init => Counted
<1> SUFFICES ASSUME Init, NEW att \in Attachments
             PROVE  CopiesCounted(att)
  BY DEF Counted
<1>1. Astray(att) = {} /\ att[2] \notin marked[att[1]] /\ uploads[att] = 0 /\ faults = 0
  BY ArrivedAre DEF Init, Astray, IsAstray, Turn, Stopped
<1>2. Cardinality(Astray(att)) = 0
  BY <1>1, FS_EmptySet
<1>3. Marking(att) \in SUBSET Processes
  BY DEF Marking
<1>4. Cardinality(Marking(att)) \in Nat
  BY <1>3, CountsAre
<1> QED
  BY <1>1, <1>2, <1>4 DEF CopiesCounted

LEMMA CountedBounds ==
    ASSUME Structure, Counted
    PROVE  DuplicatesNeedACause
<1> SUFFICES ASSUME Labelling, NEW att \in Attachments, att[1] \in Gmail
             PROVE  uploads[att] <= Cardinality(Processes) + faults
  BY DEF DuplicatesNeedACause
<1>1. CopiesCounted(att)
  BY DEF Counted
<1>2. Pending(att) \in SUBSET Processes /\ Marking(att) \in SUBSET Processes
      /\ Astray(att) \in SUBSET Processes
  BY DEF Pending, Marking, Astray
<1>3. /\ Cardinality(Pending(att)) \in Nat /\ Cardinality(Marking(att)) \in Nat
      /\ Cardinality(Astray(att)) \in Nat /\ Cardinality(Processes) \in Nat
      /\ Cardinality(Marking(att)) <= Cardinality(Processes)
  BY <1>2, CountsAre
<1>4. uploads[att] \in Nat /\ faults \in Nat
  BY BoundAssumption DEF Structure, TypeOK
<1> QED
  BY <1>1, <1>3, <1>4 DEF CopiesCounted

(***************************************************************************)
(* With a label and Gmail, what comes for an attachment is stored at most  *)
(* once for each run that may overlap and once for each failure, however   *)
(* many runs follow one another.                                           *)
(***************************************************************************)
THEOREM CopiesHaveCauses == Spec => []DuplicatesNeedACause
<1>1. Init => Structure /\ Counted
  BY StructureInit, CountedInit
<1>2. Structure /\ Counted /\ [Next]_vars => (Structure /\ Counted)'
  BY StructureNext, CountedNext
<1>3. Structure /\ Counted => DuplicatesNeedACause
  BY CountedBounds
<1> QED
  BY <1>1, <1>2, <1>3, PTL DEF Spec

-----------------------------------------------------------------------------
(* A run moves on.                                                         *)

LEMMA Becomes ==
    ASSUME Structure, NEW p \in Processes, NEW r, Goes(p, r)
    PROVE  run'[p] = r
BY DEF Structure, TypeOK, Goes

LEMMA AccountDoneFarther ==
    ASSUME Structure, NEW p \in Processes, ~At(p, "idle"), run[p].queue # <<>>, Goes(p, NextAccount(p))
    PROVE  Farther(run[p], run'[p])
<1>1. run[p].queue \in Seq(Accounts)
  BY RunTyped DEF RunState
<1>2. Len(Tail(run[p].queue)) < Len(run[p].queue)
  BY <1>1
<1>3. NextAccount(p).queue = Tail(run[p].queue)
  BY DEF NextAccount, Stopped
<1>4. run'[p] = NextAccount(p)
  BY Becomes
<1> QED
  BY <1>2, <1>3, <1>4 DEF Farther, At

LEMMA StoppedFarther ==
    ASSUME Structure, NEW p \in Processes, ~At(p, "idle"), Goes(p, Stopped)
    PROVE  Farther(run[p], run'[p])
<1>1. run'[p] = Stopped
  BY Becomes
<1> QED
  BY <1>1 DEF Farther, Stopped, At

\* A process that keeps its queue moves within its turn.
LEMMA TurnFarther ==
    ASSUME NEW r, NEW s, s.queue = r.queue, r.pc # "idle", FartherInTurn(r, s)
    PROVE  Farther(r, s)
BY DEF Farther

LEMMA OpeningFarther ==
    ASSUME Structure, NEW p \in Processes, Connect(p) \/ Search(p) \/ SearchFails(p)
    PROVE  Farther(run[p], run'[p])
<1>1. run[p] \in RunState
  BY RunTyped
<1>2. CASE Connect(p)
  <2> DEFINE s == [run[p] EXCEPT !.pc = "search", !.pool = @ \cup {Address[Current(p)]}]
  <2>1. run[p].pc = "connect" /\ run'[p] = s
    BY <1>2, Becomes DEF Connect, Takes, At
  <2>2. s.pc = "search" /\ s.queue = run[p].queue
    BY <1>1 DEF RunState
  <2>3. FartherInTurn(run[p], s)
    BY <2>1, <2>2 DEF FartherInTurn, Phase
  <2> QED
    BY <2>1, <2>2, <2>3, TurnFarther
<1>3. ASSUME NEW todo, run[p].pc = "search",
             Goes(p, [run[p] EXCEPT !.pc = "page", !.tries = 0, !.todo = todo])
      PROVE  Farther(run[p], run'[p])
  <2> DEFINE s == [run[p] EXCEPT !.pc = "page", !.tries = 0, !.todo = todo]
  <2>1. run'[p] = s
    BY <1>3, Becomes
  <2>2. s.pc = "page" /\ s.queue = run[p].queue
    BY <1>1 DEF RunState
  <2>3. FartherInTurn(run[p], s)
    BY <1>3, <2>2 DEF FartherInTurn, Phase
  <2> QED
    BY <1>3, <2>1, <2>2, <2>3, TurnFarther
<1>4. CASE Search(p)
  BY <1>3, <1>4 DEF Search, At
<1>5. CASE SearchFails(p) /\ Goes(p, [run[p] EXCEPT !.tries = @ + 1])
  <2> DEFINE s == [run[p] EXCEPT !.tries = @ + 1]
  <2>1. run[p].pc = "search" /\ run'[p] = s
    BY <1>5, Becomes DEF SearchFails, At
  <2>2. /\ s.pc = run[p].pc /\ s.queue = run[p].queue /\ s.todo = run[p].todo
        /\ s.items = run[p].items
        /\ run[p].tries < s.tries
    BY <1>1 DEF RunState
  <2>3. FartherInTurn(run[p], s)
    BY <2>2 DEF FartherInTurn, FartherInPage
  <2> QED
    BY <2>1, <2>2, <2>3, TurnFarther
<1>6. CASE SearchFails(p) /\ Goes(p, [run[p] EXCEPT !.pc = "page", !.tries = 0, !.todo = {}])
  BY <1>3, <1>6 DEF SearchFails, At
<1> QED
  BY <1>2, <1>4, <1>5, <1>6 DEF SearchFails

LEMMA NextPageFarther ==
    ASSUME Structure, NEW p \in Processes, NextPage(p)
    PROVE  Farther(run[p], run'[p])
<1> DEFINE page == FirstPage(run[p].todo)
<1>1. run[p] \in RunState /\ run[p].queue # <<>> /\ run[p].pc = "page"
  BY RunTyped DEF NextPage, At, Structure, Sound, TurnSound
<1>2. page \subseteq run[p].todo
  BY DEF FirstPage
<1> HIDE DEF page
<1>3. CASE page = {}
  BY <1>1, <1>3, AccountDoneFarther DEF NextPage, AccountDone, page, At
<1>4. CASE page # {}
  <2> DEFINE s == [run[p] EXCEPT !.pc = "fetch", !.tries = 0, !.items = {}, !.saved = {},
                                 !.page = page, !.todo = @ \ page]
  <2>1. Goes(p, s)
    BY <1>4 DEF NextPage, page
  <2>2. run'[p] = s
    BY <2>1, Becomes
  <2>3. s.pc = "fetch" /\ s.queue = run[p].queue /\ s.todo = run[p].todo \ page
    BY <1>1 DEF RunState
  <2>4. s.todo \subseteq run[p].todo /\ s.todo # run[p].todo
    BY <1>2, <1>4, <2>3
  <2>5. FartherInTurn(run[p], s)
    BY <1>1, <2>3, <2>4 DEF FartherInTurn, Phase
  <2> QED
    BY <1>1, <2>2, <2>3, <2>5, TurnFarther
<1> QED
  BY <1>3, <1>4

\* The steps of one page: the list of the pages to come is as it was.
LEMMA WithinPage ==
    ASSUME NEW r, NEW s, s.queue = r.queue, s.todo = r.todo,
           Phase(r.pc) = 2, Phase(s.pc) = 2, r.pc # "idle", FartherInPage(r, s)
    PROVE  Farther(r, s)
BY DEF Farther, FartherInTurn

LEMMA FetchFarther ==
    ASSUME Structure, NEW p \in Processes, Fetch(p) \/ FetchMissing(p) \/ FetchFails(p) \/ Collect(p)
    PROVE  Farther(run[p], run'[p])
<1>1. run[p] \in RunState
  BY RunTyped
<1>2. CASE Fetch(p)
  <2>1. PICK items : Goes(p, [run[p] EXCEPT !.pc = "collect", !.tries = 0, !.items = items])
    BY <1>2 DEF Fetch
  <2> DEFINE s == [run[p] EXCEPT !.pc = "collect", !.tries = 0, !.items = items]
  <2>2. run[p].pc = "fetch" /\ run'[p] = s
    BY <1>2, <2>1, Becomes DEF Fetch, At
  <2>3. s.pc = "collect" /\ s.queue = run[p].queue /\ s.todo = run[p].todo
    BY <1>1 DEF RunState
  <2>4. FartherInPage(run[p], s)
    BY <2>2, <2>3 DEF FartherInPage, Stage
  <2> QED
    BY <2>2, <2>3, <2>4, WithinPage DEF Phase
<1>3. CASE (FetchFails(p) \/ FetchMissing(p)) /\ run[p].tries < Retries
  <2> DEFINE s == [run[p] EXCEPT !.tries = @ + 1]
  <2>1. Goes(p, s)
    BY <1>3 DEF FetchFails, FetchMissing, TriesAgain
  <2>2. run[p].pc = "fetch" /\ run'[p] = s
    BY <1>3, <2>1, Becomes DEF FetchFails, FetchMissing, At
  <2>3. /\ s.pc = "fetch" /\ s.queue = run[p].queue /\ s.todo = run[p].todo
        /\ s.items = run[p].items
        /\ run[p].tries < s.tries
    BY <1>1, <2>2 DEF RunState
  <2>4. FartherInPage(run[p], s)
    BY <2>2, <2>3 DEF FartherInPage
  <2> QED
    BY <2>2, <2>3, <2>4, WithinPage DEF Phase
<1>4. CASE (FetchFails(p) \/ FetchMissing(p)) /\ ~(run[p].tries < Retries)
  <2> DEFINE s == [run[p] EXCEPT !.pc = "page", !.tries = 0]
  <2>1. Goes(p, s)
    BY <1>4 DEF FetchFails, FetchMissing, TriesAgain
  <2>2. run[p].pc = "fetch" /\ run'[p] = s
    BY <1>4, <2>1, Becomes DEF FetchFails, FetchMissing, At
  <2>3. s.pc = "page" /\ s.queue = run[p].queue /\ s.todo = run[p].todo
    BY <1>1 DEF RunState
  <2>4. FartherInPage(run[p], s)
    BY <2>2, <2>3 DEF FartherInPage, Stage
  <2> QED
    BY <2>2, <2>3, <2>4, WithinPage DEF Phase
<1>5. CASE Collect(p)
  <2> DEFINE s == [run[p] EXCEPT !.pc = "item", !.items = EligibleItems(@)]
  <2>1. run[p].pc = "collect" /\ run'[p] = s
    BY <1>5, Becomes DEF Collect, At
  <2>2. s.pc = "item" /\ s.queue = run[p].queue /\ s.todo = run[p].todo
    BY <1>1 DEF RunState
  <2>3. FartherInPage(run[p], s)
    BY <2>1, <2>2 DEF FartherInPage, Stage
  <2> QED
    BY <2>1, <2>2, <2>3, WithinPage DEF Phase
<1> QED
  BY <1>2, <1>3, <1>4, <1>5

LEMMA JudgeFarther ==
    ASSUME Structure, NEW p \in Processes, NEW item \in run[p].items, Judge(p, item)
    PROVE  Farther(run[p], run'[p])
<1>1. PICK pc \in {"item", "upload"} :
        GoesOn(p, pc, run[p].items \ {item}, run'[p].accepted, run[p].saved)
  BY JudgeMoves DEF GoesOn, Is
<1>2. run[p].pc = "item"
  BY JudgeMoves
<1>3. /\ run'[p].pc = pc /\ run'[p].queue = run[p].queue /\ run'[p].todo = run[p].todo
      /\ run'[p].items = run[p].items \ {item}
  BY <1>1 DEF GoesOn, Is
<1>4. FewerItems(run[p], run'[p])
  BY <1>3 DEF FewerItems
<1>5. FartherInPage(run[p], run'[p])
  BY <1>2, <1>3, <1>4 DEF FartherInPage, Stage
<1> QED
  BY <1>2, <1>3, <1>5, WithinPage DEF Phase

LEMMA UploadFarther ==
    ASSUME Structure, NEW p \in Processes, Upload(p)
    PROVE  Farther(run[p], run'[p])
<1>1. run[p].pc = "upload"
  BY UploadMoves
<1>2. /\ run'[p].pc = "item" /\ run'[p].queue = run[p].queue /\ run'[p].todo = run[p].todo
      /\ run'[p].items = run[p].items
  BY UploadMoves DEF GoesOn, Is
<1>3. FartherInPage(run[p], run'[p])
  BY <1>1, <1>2 DEF FartherInPage, FewerItems, Stage
<1> QED
  BY <1>1, <1>2, <1>3, WithinPage DEF Phase

LEMMA PageDoneFarther ==
    ASSUME Structure, NEW p \in Processes, PageDone(p)
    PROVE  Farther(run[p], run'[p])
<1>1. run[p] \in RunState /\ run[p].queue # <<>> /\ run[p].pc = "item"
  BY RunTyped DEF PageDone, At, Structure, Sound, TurnSound
<1>2. ASSUME NEW pc \in {"page", "mark"}, Goes(p, [run[p] EXCEPT !.pc = pc])
      PROVE  Farther(run[p], run'[p])
  <2> DEFINE s == [run[p] EXCEPT !.pc = pc]
  <2>1. run'[p] = s
    BY <1>2, Becomes
  <2>2. s.pc = pc /\ s.queue = run[p].queue /\ s.todo = run[p].todo
    BY <1>1 DEF RunState
  <2>3. FartherInPage(run[p], s)
    BY <1>1, <2>2 DEF FartherInPage, Stage
  <2> QED
    BY <1>1, <2>1, <2>2, <2>3, WithinPage DEF Phase
<1>3. CASE Goes(p, NextAccount(p))
  BY <1>1, <1>3, AccountDoneFarther DEF At
<1> QED
  BY <1>2, <1>3 DEF PageDone

LEMMA EndingFarther ==
    ASSUME Structure, NEW p \in Processes, Ending(p)
    PROVE  Farther(run[p], run'[p])
<1>1. ~At(p, "idle")
  BY DEF Ending, EndRun, UseClosedClient, ConnectFails, Takes, Mark, CollectFails, MarkFails,
     Crash, At
<1>2. CASE Goes(p, Stopped)
  BY <1>1, <1>2, StoppedFarther
<1>3. CASE AccountDone(p) /\ run[p].queue # <<>>
  BY <1>1, <1>3, AccountDoneFarther DEF AccountDone
<1>4. UseClosedClient(p) => run[p].queue # <<>>
  BY DEF UseClosedClient, Takes
<1>5. Mark(p) \/ MarkFails(p) => run[p].queue # <<>>
  BY DEF Mark, MarkFails, At, Structure, Sound, TurnSound
<1> QED
  BY <1>2, <1>3, <1>4, <1>5 DEF Ending, EndRun, UseClosedClient, ConnectFails, Mark,
     CollectFails, MarkFails, Crash

LEMMA UploadFailsFarther ==
    ASSUME Structure, NEW p \in Processes, UploadFails(p)
    PROVE  UNCHANGED run \/ Farther(run[p], run'[p])
<1>1. ~At(p, "idle")
  BY DEF UploadFails, At
<1>2. CASE Goes(p, Stopped)
  BY <1>1, <1>2, StoppedFarther
<1> QED
  BY <1>2 DEF UploadFails

LEMMA StepFarther ==
    ASSUME Structure, NEW p \in Processes, Step(p)
    PROVE  At(p, "idle") \/ UNCHANGED run \/ Farther(run[p], run'[p])
<1>1. CASE StartRun(p)
  BY <1>1 DEF StartRun
<1>2. CASE Connect(p) \/ Search(p) \/ SearchFails(p)
  BY <1>2, OpeningFarther
<1>3. CASE NextPage(p)
  BY <1>3, NextPageFarther
<1>4. CASE Fetch(p) \/ FetchMissing(p) \/ FetchFails(p) \/ Collect(p)
  BY <1>4, FetchFarther
<1>5. CASE \E item \in run[p].items : Judge(p, item)
  BY <1>5, JudgeFarther
<1>6. CASE Upload(p)
  BY <1>6, UploadFarther
<1>7. CASE PageDone(p)
  BY <1>7, PageDoneFarther
<1>8. CASE Ending(p)
  BY <1>8, EndingFarther
<1>9. CASE UploadFails(p)
  BY <1>9, UploadFailsFarther
<1> QED
  BY <1>1, <1>2, <1>3, <1>4, <1>5, <1>6, <1>7, <1>8, <1>9 DEF Step, RunStep, Failure, Ending

\* No run goes round: each step of one takes it farther on.
THEOREM RunsComeToAnEnd == Spec => RunsMoveOn
<1> DEFINE Onward == \A p \in Processes :
                        run'[p] # run[p] => At(p, "idle") \/ Farther(run[p], run'[p])
<1>1. ASSUME Structure, NEW p \in Processes, Step(p)
      PROVE  Onward
  <2>1. \A q \in Processes : q # p => run'[q] = run[q]
    BY <1>1, OthersStay
  <2>2. At(p, "idle") \/ UNCHANGED run \/ Farther(run[p], run'[p])
    BY <1>1, StepFarther
  <2> QED
    BY <2>1, <2>2
<1>2. UNCHANGED run => Onward
  OBVIOUS
<1>3. Structure /\ [Next]_vars => [Onward]_vars
  <2>1. ASSUME NEW a, Arrive(a)
        PROVE  UNCHANGED run
    BY <2>1 DEF Arrive
  <2> QED
    BY <1>1, <1>2, <2>1 DEF Next, Step, vars
<1>4. Spec => []Structure
  BY StructureInit, StructureNext, PTL DEF Spec
<1> QED
  BY <1>3, <1>4, PTL DEF Spec, RunsMoveOn

(***************************************************************************)
(* To be farther is a strict order: a process that moves on is at no place *)
(* of its run twice.                                                       *)
(***************************************************************************)
THEOREM FartherIsAnOrder ==
    /\ \A r \in RunState : ~Farther(r, r)
    /\ \A r, s, t \in RunState : Farther(r, s) /\ Farther(s, t) => Farther(r, t)
<1>1. ASSUME NEW r \in RunState
      PROVE  ~Farther(r, r)
  <2>1. Len(r.queue) \in Nat /\ r.tries \in Nat
    BY BoundAssumption DEF RunState
  <2>2. ~FewerItems(r, r)
    BY DEF FewerItems
  <2>3. ~FartherInPage(r, r)
    BY <2>1, <2>2 DEF FartherInPage, Stage
  <2>4. ~FartherInTurn(r, r)
    BY <2>3 DEF FartherInTurn, Phase
  <2> QED
    BY <2>1, <2>4 DEF Farther
<1>2. ASSUME NEW r \in RunState, NEW s \in RunState, NEW t \in RunState,
             Farther(r, s), Farther(s, t)
      PROVE  Farther(r, t)
  <2>1. /\ Len(r.queue) \in Nat /\ Len(s.queue) \in Nat /\ Len(t.queue) \in Nat
        /\ r.tries \in Nat /\ s.tries \in Nat /\ t.tries \in Nat
    BY BoundAssumption DEF RunState
  <2>2. FartherInPage(r, s) /\ FartherInPage(s, t) => FartherInPage(r, t)
    <3>1. FewerItems(r, s) /\ FewerItems(s, t) => FewerItems(r, t)
      BY DEF FewerItems
    <3>2. FewerItems(r, s) /\ t.items = s.items /\ t.pc = s.pc => FewerItems(r, t)
      BY DEF FewerItems
    <3>3. FewerItems(s, t) /\ s.items = r.items /\ s.pc = r.pc => FewerItems(r, t)
      BY DEF FewerItems
    <3>4. Stage(r.pc) \in Nat /\ Stage(s.pc) \in Nat /\ Stage(t.pc) \in Nat
      BY DEF Stage
    <3> QED
      BY <2>1, <3>1, <3>2, <3>3, <3>4 DEF FartherInPage
  <2>3. FartherInTurn(r, s) /\ FartherInTurn(s, t) => FartherInTurn(r, t)
    <3>1. Phase(r.pc) \in Nat /\ Phase(s.pc) \in Nat /\ Phase(t.pc) \in Nat
      BY DEF Phase
    <3> QED
      BY <2>2, <3>1 DEF FartherInTurn
  <2> QED
    BY <1>2, <2>1, <2>3 DEF Farther
<1> QED
  BY <1>1, <1>2

-----------------------------------------------------------------------------
(* The letters of MailDelivery.                                            *)

\* What is judged or uploaded is eligible, and is uploaded one by one.
Chosen(r) ==
    /\ r.pc \in {"item", "upload"} => \A item \in Hand(r) : Eligible(item[1])
    /\ \A x, y \in r.accepted : x = y

OnlyChosen ==
    /\ \A p \in Processes : Chosen(run[p])
    /\ \A att \in rejected : Arrived(att)

LEMMA NothingChosen ==
    ASSUME NEW r, r.pc \notin {"item", "upload"}, r.accepted = {}
    PROVE  Chosen(r)
BY DEF Chosen

LEMMA StepChosen ==
    ASSUME Structure, OnlyChosen, NEW p \in Processes, Step(p)
    PROVE  Chosen(run[p])'
<1>0. \A att : Eligible(att)' <=> Eligible(att)
  BY OthersStay DEF Eligible, KindOf
<1>1. CASE StartRun(p) \/ Connect(p) \/ Ending(p)
  BY <1>1, StartRunMoves, ConnectMoves, EndingMoves DEF Rests, Chosen
<1>2. CASE Search(p) \/ SearchFails(p)
  BY <1>2, SearchMoves, SearchFailsMoves DEF Is, Rests, Chosen
<1>3. CASE NextPage(p)
  BY <1>3, NextPageMoves DEF Is, Rests, Chosen
<1>4. CASE Fetch(p) \/ FetchMissing(p) \/ FetchFails(p)
  BY <1>4, FetchMoves, FetchFailsMoves DEF GoesOn, Is, Chosen
<1>5. CASE Collect(p)
  <2>1. run'[p].accepted = {} /\ run'[p].items = EligibleItems(run[p].items)
    BY <1>5, CollectMoves DEF GoesOn, Is
  <2> QED
    BY <1>0, <2>1 DEF Chosen, Hand, EligibleItems
<1>6. ASSUME NEW item \in run[p].items, Judge(p, item)
      PROVE  Chosen(run[p])'
  <2>1. \A x \in Hand(run[p]) : Eligible(x[1])
    BY <1>6, JudgeMoves DEF OnlyChosen, Chosen
  <2>2. /\ run'[p].items = run[p].items \ {item}
        /\ run'[p].accepted \subseteq {item}
    BY <1>6, JudgeMoves DEF GoesOn, Is
  <2> QED
    BY <1>0, <2>1, <2>2 DEF Chosen, Hand
<1>7. CASE Upload(p)
  <2>1. \A x \in Hand(run[p]) : Eligible(x[1])
    BY <1>7, UploadMoves DEF OnlyChosen, Chosen
  <2>2. run'[p].items = run[p].items /\ run'[p].accepted = {}
    BY <1>7, UploadMoves DEF GoesOn, Is
  <2> QED
    BY <1>0, <2>1, <2>2 DEF Chosen, Hand
<1>8. CASE PageDone(p)
  BY <1>8, PageDoneMoves DEF GoesOn, Is, Rests, Chosen
<1>9. CASE UploadFails(p)
  <2>1. CASE UNCHANGED run
    BY <1>0, <2>1 DEF OnlyChosen, Chosen, Hand
  <2> QED
    BY <1>9, <2>1, UploadFailsMoves DEF Rests, Chosen
<1> QED
  BY <1>1, <1>2, <1>3, <1>4, <1>5, <1>6, <1>7, <1>8, <1>9 DEF Step, RunStep, Failure, Ending

LEMMA RejectedOnlyBy ==
    ASSUME Structure, NEW p \in Processes, Step(p), ~\E item \in run[p].items : Judge(p, item)
    PROVE  UNCHANGED rejected
<1>1. CASE StartRun(p) \/ EndRun(p) \/ Connect(p) \/ UseClosedClient(p) \/ ConnectFails(p) \/ Search(p)
  BY <1>1 DEF StartRun, EndRun, Connect, UseClosedClient, ConnectFails, Search, outcome
<1>2. CASE NextPage(p) \/ Fetch(p) \/ FetchMissing(p) \/ Collect(p) \/ Upload(p) \/ Mark(p) \/ PageDone(p)
  BY <1>2 DEF NextPage, Fetch, FetchMissing, Collect, Upload, Mark, PageDone, outcome
<1>3. CASE Failure(p)
  BY <1>3 DEF Failure, SearchFails, FetchFails, CollectFails, UploadFails, MarkFails, Crash, outcome
<1> QED
  BY <1>1, <1>2, <1>3 DEF Step, RunStep

LEMMA ChosenStep ==
    ASSUME Structure, OnlyChosen, NEW p \in Processes, Step(p)
    PROVE  OnlyChosen'
<1>1. UNCHANGED mail /\ \A q \in Processes : q # p => run'[q] = run[q]
  BY OthersStay
<1>2. ASSUME NEW q \in Processes, q # p
      PROVE  Chosen(run[q])'
  BY <1>1, <1>2 DEF OnlyChosen, Chosen, Hand, Eligible, KindOf
<1>3. \A att \in rejected' : Arrived(att)
  <2>1. ASSUME NEW item \in run[p].items, Judge(p, item)
        PROVE  Arrived(item[1]) /\ rejected' \subseteq rejected \cup {item[1]}
    BY <2>1, JudgeMoves DEF Structure, Sound, ItemsSound, Hand
  <2> QED
    BY <2>1, RejectedOnlyBy DEF OnlyChosen
<1>4. \A att \in rejected' : Arrived(att)'
  BY <1>1, <1>3 DEF Arrived, Attached
<1> QED
  BY <1>2, <1>4, StepChosen DEF OnlyChosen

LEMMA ChosenArrive ==
    ASSUME Structure, OnlyChosen, NEW a \in Accounts, Arrive(a)
    PROVE  OnlyChosen'
<1>1. UNCHANGED <<rejected, run>>
  BY DEF Arrive, outcome
<1>2. rejected \subseteq Attachments
  BY DEF Structure, TypeOK
<1>3. \A att \in Attachments : Arrived(att) => Arrived(att)' /\ (Eligible(att)' <=> Eligible(att))
  BY ArriveKeeps DEF Eligible
<1>4. ASSUME NEW p \in Processes
      PROVE  Chosen(run[p])'
  <2>1. \A item \in Hand(run[p]) : item[1] \in Attachments /\ Arrived(item[1])
    BY RunTyped DEF RunState, Items, Hand, Structure, Sound, ItemsSound
  <2> QED
    BY <1>1, <1>3, <2>1 DEF OnlyChosen, Chosen, Hand
<1> QED
  BY <1>1, <1>2, <1>3, <1>4 DEF OnlyChosen

LEMMA ChosenInit == Init => OnlyChosen
BY DEF Init, OnlyChosen, Chosen, Stopped

LEMMA ChosenNext ==
    ASSUME Structure, OnlyChosen, [Next]_vars
    PROVE  OnlyChosen'
<1>1. CASE UNCHANGED vars
  BY <1>1 DEF vars, server, outcome, trouble, OnlyChosen, Chosen, Hand, Arrived, Attached, Eligible, KindOf
<1> QED
  BY <1>1, ChosenStep, ChosenArrive DEF Next, Step

LEMMA LettersAre ==
    /\ \A m \in DOMAIN Letters : \E a \in Cared : \E u \in DOMAIN mail[a] : m = <<a, u>>
    /\ \A a \in Cared : \A u \in DOMAIN mail[a] :
           <<a, u>> \in DOMAIN Letters /\ Letters[<<a, u>>] = Letter(a, u)
BY DEF Letters

LEMMA LettersAreNext ==
    /\ \A m \in DOMAIN Letters' : \E a \in Cared' : \E u \in DOMAIN mail'[a] : m = <<a, u>>
    /\ \A a \in Cared' : \A u \in DOMAIN mail'[a] :
           <<a, u>> \in DOMAIN Letters' /\ Letters'[<<a, u>>] = Letter(a, u)'
BY DEF Letters

\* What a process step may change of a letter.
LEMMA LetterNext ==
    ASSUME Structure, NEW p \in Processes, Step(p), NEW a \in Accounts, NEW u
    PROVE  Letter(a, u)' =
             [wanted  |-> {att \in AttachmentsOf(a, u) : Eligible(att)},
              sent    |-> [att \in AttachmentsOf(a, u) |-> uploads'[att]],
              refused |-> rejected' \cap AttachmentsOf(a, u),
              holders |-> IF <<a, u>> \in Held(run'[p]) THEN Letter(a, u).holders \cup {p}
                          ELSE Letter(a, u).holders \ {p},
              state   |-> IF u \in marked'[a] THEN "done" ELSE "open"]
<1>1. mail' = mail /\ \A q \in Processes : q # p => run'[q] = run[q]
  BY OthersStay
<1>2. AttachmentsOf(a, u)' = AttachmentsOf(a, u) /\ \A att : Eligible(att)' <=> Eligible(att)
  BY <1>1 DEF AttachmentsOf, Attached, Eligible, KindOf
<1> DEFINE holders == {q \in Processes : <<a, u>> \in Held(run[q])}
<1>3. Letter(a, u).holders = holders
  BY DEF Letter
<1>4. {q \in Processes : <<a, u>> \in Held(run'[q])} =
         IF <<a, u>> \in Held(run'[p]) THEN holders \cup {p} ELSE holders \ {p}
  BY <1>1
<1> QED
  BY <1>2, <1>3, <1>4 DEF Letter

LEMMA WorkWorks ==
    ASSUME Structure, NEW p \in Processes, Step(p), UNCHANGED strayed,
           \A a \in Cared : \A u \in DOMAIN mail[a] :
               \/ Letter(a, u)' = Letter(a, u)
               \/ Delivery!Handles(p, Letter(a, u), Letter(a, u)')
    PROVE  Delivery!Work(p)
<1>1. mail' = mail /\ Cared' = Cared
  BY OthersStay DEF Cared
<1>2. DOMAIN Letters' = DOMAIN Letters
  BY <1>1 DEF Letters
<1>3. ASSUME NEW m \in DOMAIN Letters
      PROVE  Letters'[m] = Letters[m] \/ Delivery!Handles(p, Letters[m], Letters'[m])
  <2>1. PICK a \in Cared : \E u \in DOMAIN mail[a] : m = <<a, u>>
    BY LettersAre
  <2>2. PICK u \in DOMAIN mail[a] : m = <<a, u>>
    BY <2>1
  <2>3. Letters[m] = Letter(a, u) /\ Letters'[m] = Letter(a, u)'
    BY <1>1, <2>2, LettersAre, LettersAreNext
  <2> QED
    BY <2>3
<1> QED
  BY <1>2, <1>3 DEF Delivery!Work

\* The letter of a message of which nothing is stored, refused or marked.
LEMMA LetterHolders ==
    ASSUME Structure, NEW p \in Processes, Step(p), NEW a \in Accounts, NEW u,
           \A att \in AttachmentsOf(a, u) : uploads'[att] = uploads[att],
           rejected' \cap AttachmentsOf(a, u) = rejected \cap AttachmentsOf(a, u),
           u \in marked'[a] <=> u \in marked[a]
    PROVE  Letter(a, u)' = [Letter(a, u) EXCEPT !.holders =
               IF <<a, u>> \in Held(run'[p]) THEN @ \cup {p} ELSE @ \ {p}]
<1> DEFINE l == Letter(a, u)
<1> DEFINE wanted == {att \in AttachmentsOf(a, u) : Eligible(att)}
<1> DEFINE sent == [att \in AttachmentsOf(a, u) |-> uploads[att]]
<1> DEFINE refused == rejected \cap AttachmentsOf(a, u)
<1> DEFINE holders == {q \in Processes : <<a, u>> \in Held(run[q])}
<1> DEFINE state == IF u \in marked[a] THEN "done" ELSE "open"
<1> DEFINE after == IF <<a, u>> \in Held(run'[p]) THEN holders \cup {p} ELSE holders \ {p}
<1>1. l = [wanted |-> wanted, sent |-> sent, refused |-> refused, holders |-> holders, state |-> state]
  BY DEF Letter
<1>2. [att \in AttachmentsOf(a, u) |-> uploads'[att]] = sent
  OBVIOUS
<1>3. (IF u \in marked'[a] THEN "done" ELSE "open") = state
  OBVIOUS
<1>4. l.holders = holders
  BY <1>1
<1>5. Letter(a, u)' = [wanted |-> wanted, sent |-> sent, refused |-> refused,
                       holders |-> after, state |-> state]
  BY <1>2, <1>3, <1>4, LetterNext
<1>6. after = IF <<a, u>> \in Held(run'[p]) THEN l.holders \cup {p} ELSE l.holders \ {p}
  BY <1>4
<1> HIDE DEF wanted, sent, refused, holders, state, l, after
<1>7. [l EXCEPT !.holders = after] =
          [wanted |-> wanted, sent |-> sent, refused |-> refused, holders |-> after, state |-> state]
  BY <1>1
<1> QED
  BY <1>5, <1>6, <1>7 DEF l

LEMMA LetterStays ==
    ASSUME Structure, NEW p \in Processes, Step(p), NEW a \in Accounts, NEW u,
           \A att \in AttachmentsOf(a, u) : uploads'[att] = uploads[att],
           rejected' \cap AttachmentsOf(a, u) = rejected \cap AttachmentsOf(a, u),
           u \in marked'[a] <=> u \in marked[a],
           <<a, u>> \in Held(run'[p]) <=> <<a, u>> \in Held(run[p])
    PROVE  Letter(a, u)' = Letter(a, u)
<1> DEFINE l == Letter(a, u)
<1> DEFINE holders == IF <<a, u>> \in Held(run'[p]) THEN l.holders \cup {p} ELSE l.holders \ {p}
<1>1. Letter(a, u)' = [l EXCEPT !.holders = holders]
  BY LetterHolders
<1>2. holders = l.holders
  BY DEF Letter
<1>3. [l EXCEPT !.holders = l.holders] = l
  BY DEF Letter
<1> QED
  BY <1>1, <1>2, <1>3

LEMMA LetterLies ==
    ASSUME Structure, NEW p \in Processes, Step(p), NEW a \in Accounts, NEW u,
           \A att \in AttachmentsOf(a, u) : uploads'[att] = uploads[att],
           rejected' \cap AttachmentsOf(a, u) = rejected \cap AttachmentsOf(a, u),
           u \in marked'[a] <=> u \in marked[a],
           <<a, u>> \in Held(run'[p]) => <<a, u>> \in Held(run[p]) \/ u \notin marked[a]
    PROVE  \/ Letter(a, u)' = Letter(a, u)
           \/ Delivery!Handles(p, Letter(a, u), Letter(a, u)')
<1> DEFINE l == Letter(a, u)
<1>1. Letter(a, u)' = [l EXCEPT !.holders = IF <<a, u>> \in Held(run'[p]) THEN @ \cup {p}
                                            ELSE @ \ {p}]
  BY LetterHolders
<1>2. CASE <<a, u>> \notin Held(run'[p])
  BY <1>1, <1>2 DEF Delivery!Handles, Delivery!LetGo
<1>3. CASE <<a, u>> \in Held(run'[p]) /\ u \notin marked[a]
  <2>1. l.state = "open"
    BY <1>3 DEF Letter
  <2> QED
    BY <1>1, <1>3, <2>1 DEF Delivery!Handles, Delivery!Take
<1>4. CASE <<a, u>> \in Held(run'[p]) /\ <<a, u>> \in Held(run[p])
  BY <1>4, LetterStays
<1> QED
  BY <1>2, <1>3, <1>4

\* A step that only takes messages without the label, or lets go of some.
LEMMA QuietWorks ==
    ASSUME Structure, NEW p \in Processes, Step(p), UNCHANGED <<uploads, rejected, marked, strayed>>,
           \A a \in Cared : \A u \in DOMAIN mail[a] :
               <<a, u>> \in Held(run'[p]) => <<a, u>> \in Held(run[p]) \/ u \notin marked[a]
    PROVE  Delivery!Work(p)
<1>1. ASSUME NEW a \in Cared, NEW u \in DOMAIN mail[a]
      PROVE  \/ Letter(a, u)' = Letter(a, u)
             \/ Delivery!Handles(p, Letter(a, u), Letter(a, u)')
  <2>1. a \in Accounts
    BY DEF Cared
  <2> QED
    BY <1>1, <2>1, LetterLies
<1> QED
  BY <1>1, WorkWorks

LEMMA RestsHoldNoLetter ==
    ASSUME NEW r, Rests(r)
    PROVE  Held(r) = {}
BY DEF Rests, Held

\* What a process holds is of the account at hand.
LEMMA HeldIs ==
    ASSUME Structure, NEW p \in Processes
    PROVE  /\ run[p].queue # <<>> =>
                  \A a, u : <<a, u>> \in Held(run[p]) <=>
                               a = Current(p) /\ u \in run[p].todo \cup run[p].page
           /\ run[p].pc \in {"idle", "connect", "search"} => Held(run[p]) = {}
BY DEF Held, Current, Structure, Sound, TurnSound

\* The letter of a message a document of which is stored,
LEMMA LetterSent ==
    ASSUME Structure, NEW p \in Processes, Step(p), NEW a \in Accounts, NEW u,
           NEW att \in AttachmentsOf(a, u), Eligible(att), <<a, u>> \in Held(run[p]),
           uploads'[att] = uploads[att] + 1,
           \A other \in AttachmentsOf(a, u) : other # att => uploads'[other] = uploads[other],
           UNCHANGED <<rejected, marked>>
    PROVE  Delivery!Handles(p, Letter(a, u), Letter(a, u)')
<1> DEFINE l == Letter(a, u)
<1> DEFINE wanted == {x \in AttachmentsOf(a, u) : Eligible(x)}
<1> DEFINE sent == [x \in AttachmentsOf(a, u) |-> uploads[x]]
<1> DEFINE refused == rejected \cap AttachmentsOf(a, u)
<1> DEFINE holders == {q \in Processes : <<a, u>> \in Held(run[q])}
<1> DEFINE state == IF u \in marked[a] THEN "done" ELSE "open"
<1> DEFINE rest == IF <<a, u>> \in Held(run'[p]) THEN {} ELSE {p}
<1>1. l = [wanted |-> wanted, sent |-> sent, refused |-> refused, holders |-> holders, state |-> state]
  BY DEF Letter
<1>2. [x \in AttachmentsOf(a, u) |-> uploads'[x]] = [sent EXCEPT ![att] = @ + 1]
  OBVIOUS
<1>3. p \in holders /\ att \in wanted /\ rest \in {{}, {p}}
  OBVIOUS
<1>4. holders \ rest = IF <<a, u>> \in Held(run'[p]) THEN holders \cup {p} ELSE holders \ {p}
  BY <1>3
<1> DEFINE left == holders \ rest
<1> DEFINE more == [sent EXCEPT ![att] = @ + 1]
<1>5. /\ l.holders = holders /\ l.wanted = wanted /\ l.sent = sent
      /\ l.holders \ rest = left
      /\ [l.sent EXCEPT ![att] = @ + 1] = more
  BY <1>1
<1>6. Letter(a, u)' = [wanted |-> wanted, sent |-> more, refused |-> refused, holders |-> left,
                       state |-> state]
  BY <1>2, <1>4, <1>5, LetterNext
<1> HIDE DEF wanted, sent, refused, holders, state, l, rest, left, more
<1>7. [l EXCEPT !.sent = more, !.holders = left] =
          [wanted |-> wanted, sent |-> more, refused |-> refused, holders |-> left, state |-> state]
  <2> DEFINE k == [l EXCEPT !.sent = more]
  <2>1. k = [wanted |-> wanted, sent |-> more, refused |-> refused, holders |-> holders,
             state |-> state]
    BY <1>1
  <2>2. [l EXCEPT !.sent = more, !.holders = left] = [k EXCEPT !.holders = left]
    OBVIOUS
  <2> HIDE DEF k
  <2> QED
    BY <2>1, <2>2
<1>8. Letter(a, u)' = [l EXCEPT !.sent[att] = @ + 1, !.holders = @ \ rest]
  BY <1>5, <1>6, <1>7
<1>9. Delivery!Send(p, l, Letter(a, u)')
  BY <1>3, <1>5, <1>8 DEF Delivery!Send
<1> QED
  BY <1>9 DEF Delivery!Handles, l

\* refused,
LEMMA LetterRefused ==
    ASSUME Structure, NEW p \in Processes, Step(p), NEW a \in Accounts, NEW u,
           NEW att \in AttachmentsOf(a, u), Eligible(att),
           <<a, u>> \in Held(run[p]), <<a, u>> \in Held(run'[p]),
           rejected' = rejected \cup {att},
           UNCHANGED <<uploads, marked>>
    PROVE  Delivery!Handles(p, Letter(a, u), Letter(a, u)')
<1> DEFINE l == Letter(a, u)
<1> DEFINE wanted == {x \in AttachmentsOf(a, u) : Eligible(x)}
<1> DEFINE sent == [x \in AttachmentsOf(a, u) |-> uploads[x]]
<1> DEFINE refused == rejected \cap AttachmentsOf(a, u)
<1> DEFINE holders == {q \in Processes : <<a, u>> \in Held(run[q])}
<1> DEFINE state == IF u \in marked[a] THEN "done" ELSE "open"
<1>1. l = [wanted |-> wanted, sent |-> sent, refused |-> refused, holders |-> holders, state |-> state]
  BY DEF Letter
<1>2. rejected' \cap AttachmentsOf(a, u) = refused \cup {att}
  OBVIOUS
<1>3. p \in holders /\ att \in wanted
  OBVIOUS
<1>4. holders \cup {p} = holders
  BY <1>3
<1>5. l.holders = holders /\ l.wanted = wanted
  BY <1>1
<1>6. Letter(a, u)' = [wanted |-> wanted, sent |-> sent, refused |-> refused \cup {att},
                       holders |-> holders, state |-> state]
  BY <1>2, <1>4, <1>5, LetterNext
<1> HIDE DEF wanted, sent, refused, holders, state, l
<1>7. [l EXCEPT !.refused = @ \cup {att}] =
          [wanted |-> wanted, sent |-> sent, refused |-> refused \cup {att},
           holders |-> holders, state |-> state]
  BY <1>1
<1>8. Delivery!Refuse(p, l, Letter(a, u)')
  BY <1>3, <1>5, <1>6, <1>7 DEF Delivery!Refuse
<1> QED
  BY <1>8 DEF Delivery!Handles, l

\* or that is marked.
LEMMA LetterFinished ==
    ASSUME Structure, NEW p \in Processes, Step(p), NEW a \in Accounts, NEW u,
           \A att \in AttachmentsOf(a, u) : Settled(att),
           <<a, u>> \in Held(run[p]), <<a, u>> \notin Held(run'[p]),
           u \in marked'[a],
           UNCHANGED <<uploads, rejected>>
    PROVE  Delivery!Handles(p, Letter(a, u), Letter(a, u)')
<1> DEFINE l == Letter(a, u)
<1> DEFINE wanted == {x \in AttachmentsOf(a, u) : Eligible(x)}
<1> DEFINE sent == [x \in AttachmentsOf(a, u) |-> uploads[x]]
<1> DEFINE refused == rejected \cap AttachmentsOf(a, u)
<1> DEFINE holders == {q \in Processes : <<a, u>> \in Held(run[q])}
<1> DEFINE state == IF u \in marked[a] THEN "done" ELSE "open"
<1>1. l = [wanted |-> wanted, sent |-> sent, refused |-> refused, holders |-> holders, state |-> state]
  BY DEF Letter
<1>2. \A d \in wanted : sent[d] > 0 \/ d \in refused
  BY DEF Settled
<1>3. p \in holders
  OBVIOUS
<1> DEFINE left == holders \ {p}
<1>4. /\ l.wanted = wanted /\ l.sent = sent /\ l.refused = refused /\ l.holders = holders
      /\ l.holders \ {p} = left
  BY <1>1
<1>5. (IF u \in marked'[a] THEN "done" ELSE "open") = "done"
  OBVIOUS
<1>6. Letter(a, u)' = [wanted |-> wanted, sent |-> sent, refused |-> refused, holders |-> left,
                       state |-> "done"]
  BY <1>4, <1>5, LetterNext
<1> HIDE DEF wanted, sent, refused, holders, state, l, left
<1>7. [l EXCEPT !.state = "done", !.holders = left] =
          [wanted |-> wanted, sent |-> sent, refused |-> refused, holders |-> left,
           state |-> "done"]
  <2> DEFINE k == [l EXCEPT !.state = "done"]
  <2>1. k = [wanted |-> wanted, sent |-> sent, refused |-> refused, holders |-> holders,
             state |-> "done"]
    BY <1>1
  <2>2. [l EXCEPT !.state = "done", !.holders = left] = [k EXCEPT !.holders = left]
    OBVIOUS
  <2> HIDE DEF k
  <2> QED
    BY <2>1, <2>2
<1>8. Letter(a, u)' = [l EXCEPT !.state = "done", !.holders = @ \ {p}]
  BY <1>4, <1>6, <1>7
<1>9. Delivery!Finish(p, l, Letter(a, u)')
  BY <1>2, <1>3, <1>4, <1>8 DEF Delivery!Finish, Delivery!Done
<1> QED
  BY <1>9 DEF Delivery!Handles, l

LEMMA GoesOnHeld ==
    ASSUME Structure, NEW p \in Processes, NEW pc, NEW items, NEW accepted, NEW saved,
           GoesOn(p, pc, items, accepted, saved)
    PROVE  Held(run'[p]) = Held(run[p])
BY DEF GoesOn, Is, Held

\* Only a search adds to what a process holds.
LEMMA HeldShrinks ==
    ASSUME Structure, NEW p \in Processes, Step(p), ~Search(p)
    PROVE  Held(run'[p]) \subseteq Held(run[p])
<1>1. CASE Rests(run'[p])
  BY <1>1, RestsHoldNoLetter
<1>2. CASE \E pc, items, accepted, saved : GoesOn(p, pc, items, accepted, saved)
  BY <1>2, GoesOnHeld
<1>3. CASE StartRun(p) \/ Connect(p) \/ Ending(p)
  BY <1>1, <1>3, StartRunMoves, ConnectMoves, EndingMoves
<1>4. CASE SearchFails(p)
  BY <1>1, <1>4, SearchFailsMoves DEF Is, Held
<1>5. CASE NextPage(p)
  <2>1. FirstPage(run[p].todo) \subseteq run[p].todo
    BY DEF FirstPage
  <2>2. ASSUME Is(run'[p], "fetch", run[p].queue, run[p].todo \ FirstPage(run[p].todo),
                  FirstPage(run[p].todo), {}, {}, {})
        PROVE  Held(run'[p]) \subseteq Held(run[p])
    <3>1. /\ run'[p].queue = run[p].queue
          /\ run'[p].todo \cup run'[p].page \subseteq run[p].todo
      BY <2>1, <2>2 DEF Is
    <3> QED
      BY <3>1 DEF Held
  <2> QED
    BY <1>1, <1>5, <2>2, NextPageMoves
<1>6. CASE Fetch(p) \/ FetchMissing(p) \/ FetchFails(p) \/ Collect(p)
  BY <1>2, <1>6, FetchMoves, FetchFailsMoves, CollectMoves
<1>7. CASE \E item \in run[p].items : Judge(p, item)
  BY <1>2, <1>7, JudgeMoves
<1>8. CASE Upload(p) \/ PageDone(p)
  BY <1>1, <1>2, <1>8, UploadMoves, PageDoneMoves
<1>9. CASE UploadFails(p)
  BY <1>1, <1>9, UploadFailsMoves
<1> QED
  BY <1>3, <1>4, <1>5, <1>6, <1>7, <1>8, <1>9 DEF Step, RunStep, Failure, Ending

\* A search takes messages without the label,
LEMMA TakeWorks ==
    ASSUME Structure, NEW p \in Processes, Step(p), Search(p), UNCHANGED strayed
    PROVE  Delivery!Work(p)
<1>1. PICK fallback \in BOOLEAN :
        /\ Open(p, fallback)
        /\ Is(run'[p], "page", run[p].queue,
              Uid(Box(Current(p), fallback), Matches(Current(p))), {}, {}, {}, {})
  BY SearchMoves
<1>2. fallback => Current(p) \in strayed
  BY <1>1 DEF Open
<1>3. Held(run'[p]) \subseteq {Current(p)} \X Uid(Box(Current(p), fallback), Matches(Current(p)))
  BY <1>1 DEF Is, Held, Current
<1>4. Current(p) \in Accounts /\ MailboxSound(Current(p))
  BY SearchMoves, RunTyped DEF Queued
<1>5. ASSUME NEW a \in Cared, NEW u \in DOMAIN mail[a], <<a, u>> \in Held(run'[p])
      PROVE  u \notin marked[a]
  <2>1. a = Current(p) /\ a \in Gmail /\ Labelling /\ ~fallback
    BY <1>2, <1>3, <1>5 DEF Cared
  <2>2. \A v \in DOMAIN Box(Current(p), fallback) : Box(Current(p), fallback)[v] = v
    BY <1>4, <2>1, BoxSound DEF Structure
  <2>3. u \in Matches(a)
    BY <1>3, <1>5, <2>1, <2>2 DEF Uid
  <2> QED
    BY <2>1, <2>3 DEF Matches
<1>6. UNCHANGED <<uploads, rejected, marked>>
  BY DEF Search, server, outcome
<1> QED
  BY <1>5, <1>6, QuietWorks

\* a step that stores, refuses and marks nothing keeps them or lets go,
LEMMA OtherWorks ==
    ASSUME Structure, NEW p \in Processes, Step(p), ~Search(p),
           UNCHANGED <<uploads, rejected, marked, strayed>>
    PROVE  Delivery!Work(p)
BY HeldShrinks, QuietWorks

\* an upload sends one document,
LEMMA SendWorks ==
    ASSUME Structure, Covered, OnlyChosen, NEW p \in Processes, Step(p), Upload(p) \/ UploadFails(p)
    PROVE  Delivery!Work(p)
<1>1. UNCHANGED <<rejected, marked, strayed>>
  BY DEF Upload, UploadFails, NoFault, Fault, trouble, server
<1>2. /\ Queued(p) /\ run[p].pc = "upload"
      /\ Current(p) \in Accounts /\ Current(p) = Account(run[p]) /\ run[p] \in RunState
  BY UploadMoves, UploadFailsMoves, RunTyped DEF Queued
<1>3. Held(run'[p]) \subseteq Held(run[p])
  BY HeldShrinks, <1>2 DEF Upload, UploadFails, Search, At
<1>4. /\ uploads \in [Attachments -> 0 .. MaxUploads] /\ uploads' \in [Attachments -> 0 .. MaxUploads]
      /\ \A att \in Attachments :
            /\ uploads[att] <= uploads'[att] /\ uploads'[att] <= uploads[att] + 1
            /\ att \notin Files(run[p].accepted) => uploads'[att] = uploads[att]
  BY UploadsSound DEF Structure, TypeOK
<1>5. ASSUME NEW a \in Cared, NEW u \in DOMAIN mail[a]
      PROVE  \/ Letter(a, u)' = Letter(a, u)
             \/ Delivery!Handles(p, Letter(a, u), Letter(a, u)')
  <2>1. a \in Accounts /\ a \notin strayed /\ MailboxSound(a)
    BY DEF Cared, Structure
  <2>2. AttachmentsOf(a, u) \subseteq Attachments
    BY <2>1, AttachmentsAre DEF Structure
  <2>3. CASE \A att \in AttachmentsOf(a, u) : uploads'[att] = uploads[att]
    BY <1>1, <1>3, <2>1, <2>3, LetterLies
  <2>4. ASSUME NEW att \in AttachmentsOf(a, u), uploads'[att] # uploads[att]
        PROVE  Delivery!Handles(p, Letter(a, u), Letter(a, u)')
    <3>1. att \in Files(run[p].accepted) /\ att[1] = a /\ att[2] = u
      BY <1>4, <2>1, <2>2, <2>4, AttachmentsAre DEF Structure
    <3>2. PICK item \in run[p].accepted : item[1] = att
      BY <3>1 DEF Files
    <3>3. item \in Hand(run[p])
      BY DEF Hand
    <3>4. a = Account(run[p]) /\ item[2] \in run[p].page
      BY <3>1, <3>2, <3>3 DEF Structure, Sound, ItemsSound
    <3>5. item[2] = u
      BY <1>2, <2>1, <3>1, <3>2, <3>3, <3>4 DEF Covered, Covers, Queued
    <3>6. <<a, u>> \in Held(run[p])
      BY <1>2, <3>4, <3>5, HeldIs DEF Queued
    <3>7. Eligible(att)
      BY <1>2, <3>2, <3>3 DEF OnlyChosen, Chosen
    <3>8. Files(run[p].accepted) = {att}
      BY <3>2 DEF OnlyChosen, Chosen, Files
    <3>9. \A other \in AttachmentsOf(a, u) : other # att => uploads'[other] = uploads[other]
      BY <1>4, <2>2, <3>8
    <3>10. uploads'[att] = uploads[att] + 1
      <4>1. uploads[att] \in Nat /\ uploads'[att] \in Nat
        BY <1>4, <2>2, BoundAssumption
      <4> QED
        BY <1>4, <2>2, <2>4, <4>1
    <3> QED
      BY <1>1, <2>1, <3>6, <3>7, <3>9, <3>10, LetterSent
  <2> QED
    BY <2>3, <2>4
<1> QED
  BY <1>1, <1>5, WorkWorks

\* a no of Ollama refuses one,
LEMMA RefuseWorks ==
    ASSUME Structure, Covered, OnlyChosen, NEW p \in Processes, Step(p),
           NEW item \in run[p].items, Judge(p, item)
    PROVE  Delivery!Work(p)
<1>1. UNCHANGED <<uploads, marked, strayed>>
  BY DEF Judge, NoFault, trouble, server
<1>2. /\ Queued(p) /\ run[p].pc = "item"
      /\ Current(p) \in Accounts /\ Current(p) = Account(run[p])
  BY JudgeMoves, RunTyped DEF Queued
<1>3. Held(run'[p]) = Held(run[p])
  BY JudgeMoves, GoesOnHeld
<1>4. rejected' = rejected \/ rejected' = rejected \cup {item[1]}
  BY JudgeMoves
<1>5. item \in Hand(run[p])
  BY DEF Hand
<1>6. ASSUME NEW a \in Cared, NEW u \in DOMAIN mail[a]
      PROVE  \/ Letter(a, u)' = Letter(a, u)
             \/ Delivery!Handles(p, Letter(a, u), Letter(a, u)')
  <2>1. a \in Accounts /\ a \notin strayed /\ MailboxSound(a)
    BY DEF Cared, Structure
  <2>2. CASE rejected' = rejected \/ item[1] \notin AttachmentsOf(a, u)
    <3>1. rejected' \cap AttachmentsOf(a, u) = rejected \cap AttachmentsOf(a, u)
      BY <1>4, <2>2
    <3> QED
      BY <1>1, <1>3, <2>1, <3>1, LetterLies
  <2>3. CASE rejected' = rejected \cup {item[1]} /\ item[1] \in AttachmentsOf(a, u)
    <3>1. item[1][1] = a /\ item[1][2] = u
      BY <2>1, <2>3, AttachmentsAre DEF Structure
    <3>2. a = Account(run[p]) /\ item[2] \in run[p].page
      BY <1>5, <3>1 DEF Structure, Sound, ItemsSound
    <3>3. item[2] = u
      BY <1>2, <1>5, <2>1, <3>1, <3>2 DEF Covered, Covers, Queued
    <3>4. <<a, u>> \in Held(run[p])
      BY <1>2, <3>2, <3>3, HeldIs DEF Queued
    <3>5. Eligible(item[1])
      BY <1>2, <1>5 DEF OnlyChosen, Chosen
    <3> QED
      BY <1>1, <1>3, <2>1, <2>3, <3>4, <3>5, LetterRefused
  <2> QED
    BY <1>4, <2>2, <2>3
<1> QED
  BY <1>1, <1>6, WorkWorks

\* and the mark finishes the messages something was saved from.
LEMMA MarkWorks ==
    ASSUME Structure, Covered, NEW p \in Processes, Step(p), Mark(p) \/ MarkFails(p),
           UNCHANGED strayed
    PROVE  Delivery!Work(p)
<1>1. UNCHANGED <<uploads, rejected>>
  BY DEF Mark, MarkFails, outcome
<1>2. run[p].queue # <<>> /\ run[p].pc = "mark"
  BY DEF Mark, MarkFails, At, Structure, Sound, TurnSound
<1>3. /\ Current(p) \in Accounts /\ MailboxSound(Current(p)) /\ Current(p) = Account(run[p])
      /\ run[p].saved \subseteq run[p].page /\ Hand(run[p]) = {}
  BY <1>2, RunTyped DEF Structure, Sound, TurnSound
<1>4. Held(run'[p]) = {}
  BY EndingMoves, RestsHoldNoLetter DEF Ending
<1>5. CASE UNCHANGED marked
  BY <1>1, <1>4, <1>5, QuietWorks
<1>6. ASSUME NEW fallback \in BOOLEAN, MarkSaved(p, Box(Current(p), fallback)),
             fallback => Current(p) \in strayed
      PROVE  Delivery!Work(p)
  <2> DEFINE box == Box(Current(p), fallback)
  <2>1. /\ marked'[Current(p)] =
                  marked[Current(p)] \cup {box[u] : u \in run[p].saved \cap DOMAIN box}
        /\ \A a \in Accounts : a # Current(p) => marked'[a] = marked[a]
    BY <1>2, <1>6, MarkSavedMarks
  <2>2. ~fallback => \A u \in DOMAIN box : box[u] = u
    BY <1>3, BoxSound DEF Structure
  <2> HIDE DEF box
  <2>3. ASSUME NEW a \in Cared, NEW u \in DOMAIN mail[a]
        PROVE  \/ Letter(a, u)' = Letter(a, u)
               \/ Delivery!Handles(p, Letter(a, u), Letter(a, u)')
    <3>1. a \in Accounts /\ a \notin strayed
      BY DEF Cared
    <3>2. CASE u \in marked'[a] <=> u \in marked[a]
      BY <1>1, <1>4, <3>1, <3>2, LetterLies
    <3>3. CASE ~(u \in marked'[a] <=> u \in marked[a])
      <4>1. a = Current(p) /\ ~fallback
        BY <1>6, <2>1, <3>1, <3>3
      <4>2. u \in run[p].saved /\ u \in marked'[a]
        BY <2>1, <2>2, <3>3, <4>1
      <4>3. <<a, u>> \in Held(run[p])
        BY <1>2, <1>3, <4>1, <4>2, HeldIs
      <4>4. \A att \in AttachmentsOf(a, u) : Settled(att)
        <5>1. Covers(p) /\ u \in TakenUp(run[p]) /\ Current(p) \notin strayed
          BY <3>1, <4>1, <4>2 DEF Covered, TakenUp
        <5>2. p \notin elsewhere /\ u \in DOMAIN PageBox(p)
          BY <1>2, <5>1 DEF Covers
        <5>3. PageBox(p)[u] = u
          BY <5>2 DEF PageBox, Box
        <5> QED
          BY <1>2, <1>3, <4>1, <5>1, <5>3 DEF Covers
      <4> QED
        BY <1>1, <1>4, <3>1, <4>2, <4>3, <4>4, LetterFinished
    <3> QED
      BY <3>2, <3>3
  <2> QED
    BY <2>3, WorkWorks
<1>7. CASE Mark(p)
  <2>1. PICK fallback \in BOOLEAN : Open(p, fallback) /\ MarkSaved(p, Box(Current(p), fallback))
    BY <1>7 DEF Mark
  <2>2. fallback => Current(p) \in strayed
    BY <2>1 DEF Open
  <2> QED
    BY <1>6, <2>1, <2>2
<1>8. CASE MarkFails(p)
  <2>1. PICK fallback \in BOOLEAN : fallback = FALSE
    OBVIOUS
  <2> QED
    BY <1>5, <1>6, <1>8, <2>1 DEF MarkFails
<1> QED
  BY <1>7, <1>8

\* A mailbox INBOX is opened for drops out of the promise.
LEMMA StrayedOnlyBy ==
    ASSUME Structure, NEW p \in Processes, Step(p), strayed' # strayed
    PROVE  /\ Search(p) \/ Fetch(p) \/ FetchMissing(p) \/ Mark(p)
           /\ strayed' = strayed \cup {Current(p)}
<1>1. CASE StartRun(p) \/ EndRun(p) \/ Connect(p) \/ UseClosedClient(p) \/ ConnectFails(p)
           \/ NextPage(p) \/ Collect(p) \/ Upload(p) \/ PageDone(p)
  BY <1>1 DEF StartRun, EndRun, Connect, UseClosedClient, ConnectFails, NextPage, Collect,
     Upload, PageDone, NoFault, trouble
<1>2. CASE \E item \in run[p].items : Judge(p, item)
  BY <1>2 DEF Judge, NoFault, trouble
<1>3. CASE Failure(p)
  BY <1>3 DEF Failure, SearchFails, FetchFails, CollectFails, UploadFails, MarkFails, Crash, Fault
<1>4. ASSUME NEW fallback \in BOOLEAN, Open(p, fallback)
      PROVE  strayed' = strayed \cup {Current(p)}
  BY <1>4 DEF Open, NoFault, trouble
<1>5. CASE Search(p) \/ Fetch(p) \/ FetchMissing(p) \/ Mark(p)
  BY <1>4, <1>5 DEF Search, Fetch, FetchMissing, Mark
<1> QED
  BY <1>1, <1>2, <1>3, <1>5 DEF Step, RunStep

LEMMA GivesUp ==
    ASSUME Structure, NEW p \in Processes, Step(p), strayed' # strayed
    PROVE  Delivery!GiveUp
<1>1. Search(p) \/ Fetch(p) \/ FetchMissing(p) \/ Mark(p)
  BY StrayedOnlyBy
<1>2. strayed' = strayed \cup {Current(p)}
  BY StrayedOnlyBy
<1>3. mail' = mail /\ UNCHANGED <<uploads, rejected>>
  BY <1>1, OthersStay DEF Search, Fetch, FetchMissing, Mark, outcome
<1>4. Queued(p) /\ Current(p) \in Accounts
  <2>1. Queued(p)
    BY <1>1, SearchMoves, FetchMoves, FetchFailsMoves DEF Queued, Mark, At, Structure, Sound, TurnSound
  <2> QED
    BY <2>1, RunTyped DEF Queued
<1>5. \A a \in Accounts : a # Current(p) => marked'[a] = marked[a]
  <2>1. CASE UNCHANGED marked
    BY <2>1
  <2>2. CASE Mark(p)
    <3>1. PICK fallback \in BOOLEAN : MarkSaved(p, Box(Current(p), fallback))
      BY <2>2 DEF Mark
    <3> QED
      BY <1>4, <3>1, MarkSavedMarks DEF Queued
  <2> QED
    BY <1>1, <2>1, <2>2 DEF Search, Fetch, FetchMissing, server
<1>6. \A a, u : <<a, u>> \in Held(run'[p]) \/ <<a, u>> \in Held(run[p]) => a = Current(p)
  <2>1. run'[p].queue = run[p].queue \/ Held(run'[p]) = {}
    <3>1. CASE Search(p)
      BY <3>1, SearchMoves DEF Is
    <3>2. CASE Fetch(p)
      BY <3>2, FetchMoves DEF GoesOn, Is
    <3>4. CASE FetchMissing(p)
      BY <3>4, FetchFailsMoves DEF GoesOn, Is
    <3>3. CASE Mark(p)
      BY <3>3, EndingMoves, RestsHoldNoLetter DEF Ending
    <3> QED
      BY <1>1, <3>1, <3>2, <3>3, <3>4
  <2> QED
    BY <2>1 DEF Held, Current
<1>7. Cared' = Cared \ {Current(p)}
  BY <1>2 DEF Cared
<1>8. DOMAIN Letters' \subseteq DOMAIN Letters
  BY <1>3, <1>7 DEF Letters
<1>9. ASSUME NEW m \in DOMAIN Letters'
      PROVE  Letters'[m] = Letters[m]
  <2>1. PICK a \in Cared' : \E u \in DOMAIN mail'[a] : m = <<a, u>>
    BY LettersAreNext
  <2>2. PICK u \in DOMAIN mail'[a] : m = <<a, u>>
    BY <2>1
  <2>3. a \in Cared /\ a \in Accounts /\ a # Current(p) /\ u \in DOMAIN mail[a]
    BY <1>3, <1>7 DEF Cared
  <2>4. Letter(a, u)' = Letter(a, u)
    BY <1>3, <1>5, <1>6, <2>3, LetterStays
  <2> QED
    BY <2>2, <2>3, <2>4, LettersAre, LettersAreNext
<1>10. Letters' = [m \in DOMAIN Letters' |-> Letters[m]]
  <2>1. Letters' = [m \in DOMAIN Letters' |-> Letters'[m]]
    BY DEF Letters
  <2> QED
    BY <1>9, <2>1
<1> QED
  BY <1>8, <1>10 DEF Delivery!GiveUp

LEMMA StepDelivers ==
    ASSUME Structure, Covered, OnlyChosen, NEW p \in Processes, Step(p)
    PROVE  Delivery!GiveUp \/ Delivery!Work(p)
<1>1. CASE strayed' # strayed
  BY <1>1, GivesUp
<1>2. CASE UNCHANGED strayed /\ Search(p)
  BY <1>2, TakeWorks
<1>3. CASE Upload(p) \/ UploadFails(p)
  BY <1>3, SendWorks
<1>4. CASE \E item \in run[p].items : Judge(p, item)
  BY <1>4, RefuseWorks
<1>5. CASE UNCHANGED strayed /\ (Mark(p) \/ MarkFails(p))
  BY <1>5, MarkWorks
<1>6. ASSUME UNCHANGED strayed, ~Search(p), ~Upload(p), ~UploadFails(p), ~Mark(p), ~MarkFails(p),
             ~\E item \in run[p].items : Judge(p, item)
      PROVE  Delivery!Work(p)
  BY <1>6, UploadsOnlyBy, RejectedOnlyBy, MarkedOnlyBy, OtherWorks
<1> QED
  BY <1>1, <1>2, <1>3, <1>4, <1>5, <1>6

\* Mail that arrives is a new letter, of which nothing has been done.
LEMMA ArriveDelivers ==
    ASSUME Structure, OnlyChosen, NEW a \in Accounts, Arrive(a)
    PROVE  Delivery!Arrive
<1>1. UNCHANGED <<marked, uploads, rejected, run, strayed>>
  BY DEF Arrive, outcome, trouble
<1>2. Cared' = Cared
  BY <1>1 DEF Cared
<1>3. ASSUME NEW b \in Cared
      PROVE  /\ b \in Accounts /\ DOMAIN mail[b] \subseteq DOMAIN mail'[b]
             /\ \A u \in DOMAIN mail[b] : mail'[b][u] = mail[b][u]
             /\ MailboxSound(b)
  <2>1. b \in Accounts
    BY DEF Cared
  <2> QED
    BY <2>1, MailGrows, ArriveKeeps DEF Structure
<1>4. ASSUME NEW b \in Cared, NEW u \in DOMAIN mail[b]
      PROVE  Letter(b, u)' = Letter(b, u)
  <2>1. AttachmentsOf(b, u)' = AttachmentsOf(b, u)
    <3>1. Attached(b, u)' = Attached(b, u)
      BY <1>3 DEF Attached
    <3> QED
      BY <3>1 DEF AttachmentsOf
  <2>2. \A att \in AttachmentsOf(b, u) : Eligible(att)' <=> Eligible(att)
    BY <1>3 DEF AttachmentsOf, Attached, Eligible, KindOf
  <2>3. {att \in AttachmentsOf(b, u)' : Eligible(att)'} = {att \in AttachmentsOf(b, u) : Eligible(att)}
    BY <2>1, <2>2
  <2> QED
    BY <1>1, <2>1, <2>3 DEF Letter
<1>5. ASSUME NEW b \in Cared, NEW u \in DOMAIN mail'[b] \ DOMAIN mail[b]
      PROVE  /\ Letter(b, u)'.state = "open" /\ Letter(b, u)'.holders = {}
             /\ Letter(b, u)'.refused = {}
             /\ \A d \in Letter(b, u)'.wanted : Letter(b, u)'.sent[d] = 0
  <2>1. u \notin marked[b]
    BY <1>3 DEF MailboxSound
  <2>2. ASSUME NEW p \in Processes
        PROVE  <<b, u>> \notin Held(run[p])
    <3>1. run[p].queue # <<>> => run[p].todo \cup run[p].page \subseteq DOMAIN mail[Account(run[p])]
      BY DEF Structure, Sound, ItemsSound
    <3> QED
      BY <3>1 DEF Held, Account
  <2>3. \A att \in AttachmentsOf(b, u)' : att[1] = b /\ att[2] = u /\ ~Arrived(att)
    BY DEF AttachmentsOf, Attached, Arrived
  <2>4. rejected \cap AttachmentsOf(b, u)' = {}
    BY <2>3 DEF OnlyChosen
  <2>5. \A att \in AttachmentsOf(b, u)' : att \in Attachments
    <3>1. mail' \in [Accounts -> Seq(Bodies)] /\ Len(mail'[b]) \in Nat /\ Len(mail'[b]) <= MaxMail
          /\ DOMAIN mail'[b] = 1 .. Len(mail'[b])
      BY <1>3, MailGrows
    <3>2. u \in Uids /\ mail'[b][u] \in Bodies
      BY <1>3, <3>1, BoundAssumption DEF Uids
    <3>3. PICK n \in 0 .. MaxParts : Parts[mail'[b][u]] \in [1 .. n -> MimeParts]
      BY <3>2, BodyAssumption
    <3>4. Asked[mail'[b][u]] \subseteq 1 .. MaxParts
      BY <3>2, <3>3, BoundAssumption DEF Asked
    <3> QED
      BY <1>3, <3>2, <3>4 DEF AttachmentsOf, Attached, Attachments
  <2>6. \A att \in AttachmentsOf(b, u)' : uploads[att] = 0
    <3>1. \A att \in Attachments : uploads[att] \in Nat
      BY BoundAssumption DEF Structure, TypeOK
    <3> QED
      BY <2>3, <2>5, <3>1 DEF Structure, DocumentsArrived
  <2> DEFINE wanted == {att \in AttachmentsOf(b, u)' : Eligible(att)'}
  <2> DEFINE sent == [att \in AttachmentsOf(b, u)' |-> uploads[att]]
  <2>7. Letter(b, u)' = [wanted |-> wanted, sent |-> sent, refused |-> {}, holders |-> {},
                         state |-> "open"]
    <3>1. {p \in Processes : <<b, u>> \in Held(run[p])} = {}
      BY <2>2
    <3>2. (IF u \in marked[b] THEN "done" ELSE "open") = "open"
      BY <2>1
    <3> QED
      BY <1>1, <2>4, <3>1, <3>2 DEF Letter
  <2>8. \A d \in wanted : sent[d] = 0
    BY <2>6
  <2> HIDE DEF wanted, sent
  <2> QED
    BY <2>7, <2>8
<1>6. DOMAIN Letters \subseteq DOMAIN Letters'
  BY <1>2, <1>3 DEF Letters
<1>7. \A m \in DOMAIN Letters : Letters'[m] = Letters[m]
  <2>1. ASSUME NEW m \in DOMAIN Letters
        PROVE  Letters'[m] = Letters[m]
    <3>1. PICK b \in Cared : \E u \in DOMAIN mail[b] : m = <<b, u>>
      BY LettersAre
    <3>2. PICK u \in DOMAIN mail[b] : m = <<b, u>>
      BY <3>1
    <3>3. b \in Cared' /\ u \in DOMAIN mail'[b]
      BY <1>2, <1>3
    <3> QED
      BY <1>4, <3>2, <3>3, LettersAre, LettersAreNext
  <2> QED
    BY <2>1
<1>8. ASSUME NEW m \in DOMAIN Letters' \ DOMAIN Letters
      PROVE  /\ Letters'[m].state = "open" /\ Letters'[m].holders = {}
             /\ Letters'[m].refused = {}
             /\ \A d \in Letters'[m].wanted : Letters'[m].sent[d] = 0
  <2>1. PICK b \in Cared' : \E u \in DOMAIN mail'[b] : m = <<b, u>>
    BY LettersAreNext
  <2>2. PICK u \in DOMAIN mail'[b] : m = <<b, u>>
    BY <2>1
  <2>3. b \in Cared /\ u \notin DOMAIN mail[b]
    BY <1>2, <2>2, LettersAre
  <2>4. Letters'[m] = Letter(b, u)'
    BY <2>2, LettersAreNext
  <2> QED
    BY <1>5, <2>3, <2>4
<1> QED
  BY <1>6, <1>7, <1>8 DEF Delivery!Arrive

LEMMA DeliveryStarts == Init => Delivery!DeliveryInit
<1> SUFFICES ASSUME Init PROVE DOMAIN Letters = {}
  BY DEF Delivery!DeliveryInit
<1>1. \A a \in Cared : mail[a] = <<>>
  BY DEF Init, Cared
<1>2. \A a \in Cared : DOMAIN mail[a] = {}
  BY <1>1
<1> QED
  BY <1>2, LettersAre

LEMMA NextDelivers ==
    ASSUME Structure, Covered, OnlyChosen, [Next]_vars
    PROVE  [Delivery!DeliveryNext]_Letters
<1>1. CASE UNCHANGED vars
  BY <1>1 DEF vars, server, outcome, trouble, Letters, Letter, Cared, Held, AttachmentsOf, Attached, Eligible,
     KindOf
<1>2. CASE \E p \in Processes : Step(p)
  BY <1>2, StepDelivers DEF Delivery!DeliveryNext
<1>3. CASE \E a \in Accounts : Arrive(a)
  BY <1>3, ArriveDelivers DEF Delivery!DeliveryNext
<1> QED
  BY <1>1, <1>2, <1>3 DEF Next, Step

(***************************************************************************)
(* The pipeline implements MailDelivery: any number of overlapping runs,   *)
(* failures, retries and crashes only ever take a letter that is not done, *)
(* send or refuse what came for an eligible attachment of a letter at      *)
(* hand, finish one all of which has been dealt with, or let go.           *)
(***************************************************************************)
THEOREM PipelineDelivers == Spec => DeliversMail
<1> DEFINE Inv == Structure /\ Covered /\ OnlyChosen
<1>1. Init => Inv
  BY StructureInit, CoveredInit, ChosenInit
<1>2. Inv /\ [Next]_vars => Inv'
  BY StructureNext, CoveredNext, ChosenNext
<1>3. Inv /\ [Next]_vars => [Delivery!DeliveryNext]_Letters
  BY NextDelivers
<1> QED
  BY <1>1, <1>2, <1>3, DeliveryStarts, PTL DEF Spec, DeliversMail, Delivery!DeliverySpec
=============================================================================
