------------------------------ MODULE EmailRun ------------------------------
(***************************************************************************)
(* The email pipeline: a process a timer starts every fifteen minutes, or  *)
(* a person at any time, so that two may overlap.  One run goes through    *)
(* the active accounts in the order of the file; for each it connects,     *)
(* searches the mailbox, and works through the messages in pages: download *)
(* every attachment to a temporary file, keep the eligible ones, ask       *)
(* Ollama about images and texts, upload to Paperless, and mark the        *)
(* messages of the page something was uploaded from.  After the first page *)
(* with an upload it goes on to the next account: the mark is what keeps   *)
(* the next run from finding these messages again.                         *)
(*                                                                         *)
(* A run works on one thing at a time, so one record holds the state of a  *)
(* process.  The order of a page's attachments is left open.               *)
(***************************************************************************)
EXTENDS Naturals, FiniteSets, Sequences

CONSTANTS
    Processes,   \* processes that may run at the same time
    Order,       \* the active accounts, in the order of email-accounts.json
    Address,     \* Address[a]: the email of an account, the key of the pool
    Gmail,       \* the accounts at Gmail; the others are generic IMAP
    Broken,      \* the accounts that cannot connect (a revoked password)
    Bodies,      \* the messages there may be
    Parts,       \* Parts[body]: the parts of a message, a sequence of MimeParts
    MaxParts,    \* bound on the parts of a message
    PageSize,    \* page_size of the configuration
    Labelling,   \* whether mark_processed_label is not empty
    Retries,     \* retries of a search or a fetch (2 in the code)
    MaxMail,     \* bound on the messages of an account
    MaxFaults,   \* bound on failed calls and crashes
    MaxUploads,  \* the count of uploads of one attachment stops here
    MayFallBack  \* whether opening a mailbox may fail, which opens INBOX instead

(***************************************************************************)
(* The parts of a message, each at its path from the root of the MIME      *)
(* structure.  By type and name a part is "plain": eligible and not shown  *)
(* to Ollama (PDF, Office); "image" or "text": eligible, for Ollama to     *)
(* decide; "junk": not eligible; or "inline": not an attachment, as text   *)
(* and multiparts are.  "small" is less than an image must have, "huge"    *)
(* over MAX_ATTACHMENT_SIZE.                                               *)
(***************************************************************************)
Types == {"plain", "image", "text", "junk", "inline"}
Sizes == {"small", "fits", "huge"}
MimeParts == [path : Seq(Nat), type : Types, size : Sizes]

(***************************************************************************)
(* The part number collectAttachmentParts gives an attachment, from the    *)
(* path to it, and the one the server knows a part by.                     *)
(***************************************************************************)
AskedFor(path) == <<1>> \o path
ImapNumber(path) == IF path = <<>> THEN <<1>> ELSE path

(***************************************************************************)
(* The parts of a message that are asked for, and what comes for each: the *)
(* part the server knows by that number, if there is one (0 is none).  In  *)
(* a message of a single part it is that part itself, in any other never.  *)
(***************************************************************************)
Asked == [body \in Bodies |-> {i \in DOMAIN Parts[body] : Parts[body][i].type # "inline"}]

Named(body, i) ==
    {j \in DOMAIN Parts[body] :
        ImapNumber(Parts[body][j].path) = AskedFor(Parts[body][i].path)}
Gives ==
    [body \in Bodies |-> [i \in DOMAIN Parts[body] |->
        IF Named(body, i) = {} THEN 0 ELSE CHOOSE j \in Named(body, i) : TRUE]]

(***************************************************************************)
(* What the run makes of it: type and name are those of the part it asks   *)
(* for, the size is that of what comes.                                    *)
(***************************************************************************)
Kinds == {"plain", "judged", "junk", "huge"}
KindFor(type, size) ==
    CASE size = "huge" -> "huge"
      [] size # "huge" /\ type = "plain" -> "plain"
      [] size # "huge" /\ type = "text" -> "judged"
      [] size = "fits" /\ type = "image" -> "judged"
      [] OTHER -> "junk"
Kind ==
    [body \in Bodies |-> [i \in DOMAIN Parts[body] |->
        KindFor(Parts[body][i].type,
                Parts[body][IF Gives[body][i] = 0 THEN i ELSE Gives[body][i]].size)]]

Accounts == {Order[i] : i \in DOMAIN Order}

ASSUME PageAssumption == PageSize \in Nat \ {0}
ASSUME BodyAssumption ==
    \A body \in Bodies : \E n \in 0 .. MaxParts : Parts[body] \in [1 .. n -> MimeParts]
ASSUME NumberAssumption ==   \* a server gives no number twice
    \A body \in Bodies : \A i, j \in DOMAIN Parts[body] :
        ImapNumber(Parts[body][i].path) = ImapNumber(Parts[body][j].path) => i = j
ASSUME BoundAssumption == /\ Retries \in Nat /\ MaxMail \in Nat /\ MaxParts \in Nat
                          /\ MaxFaults \in Nat /\ MaxUploads \in Nat \ {0}
ASSUME OrderAssumption == Order \in Seq(Accounts)
ASSUME ProcessAssumption == IsFiniteSet(Processes)
ASSUME SwitchAssumption == Labelling \in BOOLEAN /\ MayFallBack \in BOOLEAN

VARIABLES
    mail,      \* mail[a]: the messages of the configured mailbox, by UID
    inbox,     \* inbox[a]: those of them in INBOX, by the UID they have there
    marked,    \* marked[a]: messages that bear the label or flag
    uploads,   \* how often what came for each attachment was stored in Paperless
    rejected,  \* attachments Ollama has answered no to
    elsewhere, \* processes whose page was fetched from INBOX
    mistaken,  \* messages marked by the UID of another message
    run,       \* run[p]: the state of a process
    faults,    \* failures so far
    strayed    \* accounts INBOX was opened for in place of the mailbox

server == <<mail, inbox, marked>>
outcome == <<uploads, rejected>>
history == <<elsewhere, mistaken>>   \* kept for the properties only
trouble == <<faults, strayed>>
vars == <<server, outcome, history, run, trouble>>

Uids == 1 .. MaxMail
Attachments == {<<a, u, i>> : a \in Accounts, u \in Uids, i \in 1 .. MaxParts}

Attached(a, u) == Asked[mail[a][u]]
AttachmentsOf(a, u) == {<<a, u, i>> : i \in Attached(a, u)}

\* What comes for an attachment that is asked for.
Served(att) == Gives[mail[att[1]][att[2]]][att[3]] # 0
Given(att) ==
    <<att[1], att[2], IF Served(att) THEN Gives[mail[att[1]][att[2]]][att[3]] ELSE att[3]>>

KindOf(att) == Kind[mail[att[1]][att[2]]][att[3]]
Eligible(att) == KindOf(att) \in {"plain", "judged"}

PCs == {"idle", "connect", "search", "page", "fetch", "collect", "item", "upload", "mark"}

(***************************************************************************)
(* queue: accounts still to do, the head being the current one; pool:      *)
(* addresses connected to so far; todo: UIDs of the pages to come; page:   *)
(* UIDs of this page; items: its attachments, each with the UID it was     *)
(* fetched by; accepted: the one being uploaded; saved: UIDs something was *)
(* uploaded from; tries: retries of the call.                              *)
(***************************************************************************)
Items == Attachments \X Uids
RunState == [pc : PCs, queue : Seq(Accounts), pool : SUBSET {Address[a] : a \in Accounts},
             todo : SUBSET Uids, page : SUBSET Uids, items : SUBSET Items,
             accepted : SUBSET Items, saved : SUBSET Uids, tries : 0 .. Retries]

Stopped == [pc |-> "idle", queue |-> <<>>, pool |-> {}, todo |-> {}, page |-> {},
            items |-> {}, accepted |-> {}, saved |-> {}, tries |-> 0]

TypeOK ==
    /\ mail \in [Accounts -> Seq(Bodies)]
    /\ inbox \in [Accounts -> Seq(Uids)]
    /\ marked \in [Accounts -> SUBSET Uids]
    /\ uploads \in [Attachments -> 0 .. MaxUploads]
    /\ rejected \subseteq Attachments
    /\ elsewhere \subseteq Processes
    /\ mistaken \subseteq Accounts \X Uids
    /\ run \in [Processes -> RunState]
    /\ faults \in 0 .. MaxFaults
    /\ strayed \subseteq Accounts

Init ==
    /\ mail = [a \in Accounts |-> <<>>]
    /\ inbox = [a \in Accounts |-> <<>>]
    /\ marked = [a \in Accounts |-> {}]
    /\ uploads = [att \in Attachments |-> 0]
    /\ rejected = {}
    /\ elsewhere = {}
    /\ mistaken = {}
    /\ run = [p \in Processes |-> Stopped]
    /\ faults = 0
    /\ strayed = {}

At(p, pc) == run[p].pc = pc
Current(p) == Head(run[p].queue)
Goes(p, state) == run' = [run EXCEPT ![p] = state]

NoFault == UNCHANGED trouble
Fault == faults < MaxFaults /\ faults' = faults + 1 /\ UNCHANGED strayed

-----------------------------------------------------------------------------
(* Mailboxes.                                                              *)

(***************************************************************************)
(* Mail arrives at any time; some of it is filed past INBOX.  Mail that    *)
(* Gmail's search leaves out for another reason than the label (its        *)
(* category, an exclude label of the account) is left out here too.        *)
(***************************************************************************)
Arrive(a) ==
    /\ Len(mail[a]) < MaxMail
    /\ \E body \in Bodies : mail' = [mail EXCEPT ![a] = Append(@, body)]
    /\ \/ UNCHANGED inbox
       \/ MayFallBack /\ inbox' = [inbox EXCEPT ![a] = Append(@, Len(mail[a]) + 1)]
    /\ UNCHANGED <<marked, outcome, history, run, trouble>>

Box(a, fallback) == IF fallback THEN inbox[a] ELSE [u \in DOMAIN mail[a] |-> u]

(***************************************************************************)
(* openMailbox: any failure to open the configured mailbox opens INBOX.    *)
(* Each session call opens for itself, and counts as a fault when it falls *)
(* back.                                                                   *)
(***************************************************************************)
Open(p, fallback) ==
    \/ ~fallback /\ NoFault
    \/ /\ fallback /\ MayFallBack
       /\ faults < MaxFaults
       /\ faults' = faults + 1
       /\ strayed' = strayed \cup {Current(p)}

\* The UIDs of a box whose messages are in a set.
Uid(box, messages) == {u \in DOMAIN box : box[u] \in messages}

-----------------------------------------------------------------------------
(* A run.                                                                  *)

StartRun(p) ==
    /\ At(p, "idle")
    /\ Goes(p, [Stopped EXCEPT !.pc = "connect", !.queue = Order])
    /\ NoFault
    /\ UNCHANGED <<server, outcome, history>>

EndRun(p) ==
    /\ At(p, "connect")
    /\ run[p].queue = <<>>
    /\ Goes(p, Stopped)
    /\ NoFault
    /\ UNCHANGED <<server, outcome, history>>

NextAccount(p) ==
    [Stopped EXCEPT !.pc = "connect", !.queue = Tail(run[p].queue), !.pool = run[p].pool]
AccountDone(p) == Goes(p, NextAccount(p))

\* The account at hand, and whether the pool has a client for its address.
Takes(p, pooled) ==
    /\ At(p, "connect")
    /\ run[p].queue # <<>>
    /\ (Address[Current(p)] \in run[p].pool) = pooled

Connect(p) ==
    /\ Takes(p, FALSE)
    /\ Current(p) \notin Broken
    /\ Goes(p, [run[p] EXCEPT !.pc = "search", !.pool = @ \cup {Address[Current(p)]}])
    /\ NoFault
    /\ UNCHANGED <<server, outcome, history>>

\* Mutant: an address that is in the pool already ends the run.
BugUseClosedClient(p) ==
    /\ Takes(p, TRUE)
    /\ Goes(p, Stopped)
    /\ NoFault
    /\ UNCHANGED <<server, outcome, history>>

(***************************************************************************)
(* withConnection keeps a client in the pool, but the scope that acquired  *)
(* it logs out when the account's turn is over.  A second account of the   *)
(* address gets that client: its search fails at every try, and counts as  *)
(* one that found nothing.                                                 *)
(***************************************************************************)
UseClosedClient(p) ==
    /\ Takes(p, TRUE)
    /\ AccountDone(p)
    /\ NoFault
    /\ UNCHANGED <<server, outcome, history>>

(***************************************************************************)
(* onProcessAccountError only notifies: the error ends Effect.forEach and  *)
(* with it the run, whatever accounts are left.                            *)
(***************************************************************************)
ConnectFails(p) ==
    /\ Takes(p, FALSE)
    /\ Current(p) \in Broken
    /\ Goes(p, Stopped)
    /\ NoFault
    /\ UNCHANGED <<server, outcome, history>>

\* Mutant: the label is not excluded from the search.
BugMatches(a) == DOMAIN mail[a]

(***************************************************************************)
(* Gmail is asked for the messages without the label, a generic server for *)
(* all of them (buildSearch).                                              *)
(***************************************************************************)
Matches(a) ==
    IF a \in Gmail /\ Labelling THEN DOMAIN mail[a] \ marked[a] ELSE DOMAIN mail[a]

Search(p) ==
    /\ At(p, "search")
    /\ \E fallback \in BOOLEAN :
        /\ Open(p, fallback)
        /\ Goes(p, [run[p] EXCEPT !.pc = "page", !.tries = 0,
                      !.todo = Uid(Box(Current(p), fallback), Matches(Current(p)))])
    /\ UNCHANGED <<server, outcome, history>>

\* Mutant: one retry too many.
BugSearchFails(p) ==
    /\ At(p, "search")
    /\ Fault
    /\ run[p].tries <= Retries
    /\ Goes(p, [run[p] EXCEPT !.tries = @ + 1])
    /\ UNCHANGED <<server, outcome, history>>

(***************************************************************************)
(* A search that fails is tried again; one that fails for the last time,   *)
(* and one the server refuses (client.search gives false), is empty.       *)
(***************************************************************************)
SearchFails(p) ==
    /\ At(p, "search")
    /\ Fault
    /\ \/ run[p].tries < Retries /\ Goes(p, [run[p] EXCEPT !.tries = @ + 1])
       \/ Goes(p, [run[p] EXCEPT !.pc = "page", !.tries = 0, !.todo = {}])
    /\ UNCHANGED <<server, outcome, history>>

FirstPage(uids) == {u \in uids : Cardinality({v \in uids : v < u}) < PageSize}

NextPage(p) ==
    /\ At(p, "page")
    /\ LET page == FirstPage(run[p].todo) IN
        IF page = {}
        THEN AccountDone(p)
        ELSE Goes(p, [run[p] EXCEPT !.pc = "fetch", !.tries = 0, !.items = {}, !.saved = {},
                                    !.page = page, !.todo = @ \ page])
    /\ NoFault
    /\ UNCHANGED <<server, outcome, history>>

(***************************************************************************)
(* fetchAttachmentsForUids asks for every attachment of the page; what is  *)
(* larger than the limit is dropped.  A UID the open mailbox does not have *)
(* yields nothing.                                                         *)
(***************************************************************************)
PartsOf(a, box, uids) ==
    UNION {AttachmentsOf(a, box[u]) \X {u} : u \in uids \cap DOMAIN box}

\* Whether the server has something for each of them.
Downloadable(p, fallback) ==
    \A item \in PartsOf(Current(p), Box(Current(p), fallback), run[p].page) : Served(item[1])

Fetch(p) ==
    /\ At(p, "fetch")
    /\ \E fallback \in BOOLEAN :
        /\ Open(p, fallback)
        /\ Downloadable(p, fallback)
        /\ Goes(p, [run[p] EXCEPT !.pc = "collect", !.tries = 0,
             !.items = {item \in PartsOf(Current(p), Box(Current(p), fallback), run[p].page) :
                            KindOf(item[1]) # "huge"}])
        /\ elsewhere' = IF fallback THEN elsewhere \cup {p} ELSE elsewhere \ {p}
    /\ UNCHANGED <<server, outcome, mistaken>>

\* Mutant: the UIDs of a page that cannot be fetched are put back.
BugTriesAgain(p) ==
    Goes(p, IF run[p].tries < Retries
            THEN [run[p] EXCEPT !.tries = @ + 1]
            ELSE [run[p] EXCEPT !.pc = "page", !.tries = 0, !.todo = @ \cup run[p].page])

\* After the last retry the page counts as one without attachments.
TriesAgain(p) ==
    Goes(p, IF run[p].tries < Retries
            THEN [run[p] EXCEPT !.tries = @ + 1]
            ELSE [run[p] EXCEPT !.pc = "page", !.tries = 0])

(***************************************************************************)
(* A number no part of the message has gets no content, and an attachment  *)
(* without content fails the fetch of the whole page, at every try and in  *)
(* every run: nothing else has failed.                                     *)
(***************************************************************************)
FetchMissing(p) ==
    /\ At(p, "fetch")
    /\ \E fallback \in BOOLEAN : Open(p, fallback) /\ ~Downloadable(p, fallback)
    /\ TriesAgain(p)
    /\ UNCHANGED <<server, outcome, history>>

FetchFails(p) ==
    /\ At(p, "fetch")
    /\ Fault
    /\ TriesAgain(p)
    /\ UNCHANGED <<server, outcome, history>>

\* collectEligibleAttachments: the others are passed over.
EligibleItems(items) == {item \in items : Eligible(item[1])}

Collect(p) ==
    /\ At(p, "collect")
    /\ Goes(p, [run[p] EXCEPT !.pc = "item", !.items = EligibleItems(@)])
    /\ NoFault
    /\ UNCHANGED <<server, outcome, history>>

\* A file that cannot be read ends the run.
CollectFails(p) ==
    /\ At(p, "collect")
    /\ EligibleItems(run[p].items) # {}
    /\ Fault
    /\ Goes(p, Stopped)
    /\ UNCHANGED <<server, outcome, history>>

(***************************************************************************)
(* Ollama is asked about images and texts, with what came for them.  No    *)
(* answer in time, an error and an answer that is neither yes nor no count *)
(* as a yes.                                                               *)
(***************************************************************************)
Judged(att) == KindOf(att) = "judged"
Verdicts(att) == IF Judged(att) THEN BOOLEAN ELSE {TRUE}

\* processItem, up to the upload.
Judge(p, item) ==
    /\ At(p, "item")
    /\ item \in run[p].items
    /\ \E yes \in Verdicts(item[1]) :
        IF yes
        THEN /\ Goes(p, [run[p] EXCEPT !.pc = "upload", !.items = @ \ {item}, !.accepted = {item}])
             /\ UNCHANGED rejected
        ELSE /\ Goes(p, [run[p] EXCEPT !.items = @ \ {item}])
             /\ rejected' = rejected \cup {item[1]}
    /\ NoFault
    /\ UNCHANGED <<server, uploads, history>>

Files(items) == {item[1] : item \in items}

\* Paperless stores the documents it is sent, without comparing them.
Store(items) ==
    uploads' = [att \in Attachments |->
                    IF att \in Files(items) /\ uploads[att] < MaxUploads
                    THEN uploads[att] + 1 ELSE uploads[att]]

Uploaded(p) == [run[p] EXCEPT !.pc = "item", !.accepted = {},
                              !.saved = @ \cup {item[2] : item \in run[p].accepted}]

Upload(p) ==
    /\ At(p, "upload")
    /\ Store(run[p].accepted)
    /\ Goes(p, Uploaded(p))
    /\ NoFault
    /\ UNCHANGED <<server, rejected, history>>

\* Mutant: a failed upload is logged and counts as saved.
BugUploadFails(p) ==
    /\ At(p, "upload")
    /\ Fault
    /\ Goes(p, Uploaded(p))
    /\ UNCHANGED <<server, outcome, history>>

(***************************************************************************)
(* An upload, or the look-up of its tags, fails: the POST may have been    *)
(* carried out all the same.  The HTTP client sends it again if the error  *)
(* is a transient one; when it gives up the run ends, and what was saved   *)
(* of this page stays unmarked.                                            *)
(***************************************************************************)
UploadFails(p) ==
    /\ At(p, "upload")
    /\ Fault
    /\ UNCHANGED uploads \/ Store(run[p].accepted)
    /\ UNCHANGED run \/ Goes(p, Stopped)
    /\ UNCHANGED <<server, rejected, history>>

\* Mutant: a page nothing was saved from is the last as well.
BugPageDone(p) ==
    /\ At(p, "item")
    /\ run[p].items = {}
    /\ IF run[p].saved # {} /\ Labelling THEN Goes(p, [run[p] EXCEPT !.pc = "mark"])
       ELSE AccountDone(p)
    /\ NoFault
    /\ UNCHANGED <<server, outcome, history>>

(***************************************************************************)
(* processAccountPages: a page nothing was saved from leads to the next    *)
(* one; the first page something was saved from is the last.               *)
(***************************************************************************)
PageDone(p) ==
    /\ At(p, "item")
    /\ run[p].items = {}
    /\ Goes(p, IF run[p].saved = {} THEN [run[p] EXCEPT !.pc = "page"]
               ELSE IF Labelling THEN [run[p] EXCEPT !.pc = "mark"]
               ELSE NextAccount(p))
    /\ NoFault
    /\ UNCHANGED <<server, outcome, history>>

(***************************************************************************)
(* markProcessed: a label at Gmail, a flag elsewhere, on the messages that *)
(* have these UIDs in the mailbox that is open; which need not be those    *)
(* they had in the mailbox the page was fetched from.                      *)
(***************************************************************************)
MarkSaved(p, box) ==
    LET uids == run[p].saved \cap DOMAIN box
        meant == Box(Current(p), p \in elsewhere) IN
    /\ marked' = [marked EXCEPT ![Current(p)] = @ \cup {box[u] : u \in uids}]
    /\ mistaken' = mistaken \cup
                       ({Current(p)} \X {box[u] : u \in {v \in uids : box[v] # meant[v]}})

Mark(p) ==
    /\ At(p, "mark")
    /\ \E fallback \in BOOLEAN : Open(p, fallback) /\ MarkSaved(p, Box(Current(p), fallback))
    /\ AccountDone(p)
    /\ UNCHANGED <<mail, inbox, outcome, elsewhere>>

\* The error ends the run; that the server refused (false) is not noticed.
MarkFails(p) ==
    /\ At(p, "mark")
    /\ Fault
    /\ UNCHANGED <<marked, mistaken>> \/ MarkSaved(p, Box(Current(p), FALSE))
    /\ Goes(p, Stopped) \/ AccountDone(p)
    /\ UNCHANGED <<mail, inbox, outcome, elsewhere>>

(***************************************************************************)
(* The process is killed (a signal makes it exit at once, cli.ts:120), or  *)
(* a call nobody catches fails.                                            *)
(***************************************************************************)
Crash(p) ==
    /\ ~At(p, "idle")
    /\ Fault
    /\ Goes(p, Stopped)
    /\ UNCHANGED <<server, outcome, history>>

-----------------------------------------------------------------------------
RunStep(p) ==
    \/ StartRun(p) \/ EndRun(p) \/ Connect(p) \/ UseClosedClient(p) \/ ConnectFails(p)
    \/ Search(p) \/ NextPage(p) \/ Fetch(p) \/ FetchMissing(p) \/ Collect(p)
    \/ \E item \in run[p].items : Judge(p, item)
    \/ Upload(p) \/ PageDone(p) \/ Mark(p)

Failure(p) ==
    \/ SearchFails(p) \/ FetchFails(p) \/ CollectFails(p) \/ UploadFails(p) \/ MarkFails(p)
    \/ Crash(p)

Next ==
    \/ \E p \in Processes : RunStep(p) \/ Failure(p)
    \/ \E a \in Accounts : Arrive(a)

(***************************************************************************)
(* The timer starts a run every fifteen minutes and a run that is not      *)
(* killed goes on: every call it makes answers or fails.  Nothing makes    *)
(* mail arrive, and nothing makes a call fail.                             *)
(***************************************************************************)
Fairness == \A p \in Processes : WF_vars(RunStep(p))

Spec == Init /\ [][Next]_vars /\ Fairness

-----------------------------------------------------------------------------
(* Properties.                                                             *)

\* What came for one attachment or another of its message, and was stored.
Stored(part) ==
    \E att \in AttachmentsOf(part[1], part[2]) : Given(att) = part /\ uploads[att] > 0

(***************************************************************************)
(* A message is marked only when what the server gives for each eligible   *)
(* attachment of it has been stored in Paperless or turned down by Ollama. *)
(* At Gmail no later run looks at a marked message, so what is lost then   *)
(* is what its number does not name, and the attachments of a message that *)
(* was marked for another's sake: by a UID that was fetched from INBOX and *)
(* marked in the mailbox, or the other way round.                          *)
(***************************************************************************)
MarkedIsDone ==
    \A a \in Accounts : \A u \in marked[a] : <<a, u>> \notin mistaken =>
        \A att \in AttachmentsOf(a, u) :
            Eligible(att) => Stored(Given(att)) \/ att \in rejected

(***************************************************************************)
(* Where messages are labelled and Gmail searched, Paperless gets a        *)
(* document once, once more for each run that overlaps, and once more for  *)
(* each failure: the label written after the page keeps every later run    *)
(* off it.                                                                 *)
(***************************************************************************)
DuplicatesNeedACause ==
    Labelling => \A att \in Attachments :
        att[1] \in Gmail => uploads[att] <= Cardinality(Processes) + faults

(***************************************************************************)
(* A label that is not empty makes the part that comes for an attachment   *)
(* Ollama is not asked about reach Paperless in the end, if its account is *)
(* at Gmail, the first entry of its address, and no account before it in   *)
(* the file is one that cannot connect; or else it is fetched in one page  *)
(* with an attachment whose number the server does not have.  Messages     *)
(* with nothing to save do not block the pages behind them, nor does a     *)
(* second entry of an address the accounts behind.                         *)
(***************************************************************************)
Reached(a) ==
    \A i \in DOMAIN Order : Order[i] = a =>
        \A j \in 1 .. i : /\ Order[j] \notin Broken
                          /\ j < i => Address[Order[j]] # Address[a]

Awaited == {att \in Attachments : att[1] \in Gmail /\ Reached(att[1])}
Arrived(att) == att[2] \in DOMAIN mail[att[1]] /\ att[3] \in Attached(att[1], att[2])

\* The page a process is about to fetch cannot be had, for a number that is not there.
Spoilt(p, att) ==
    /\ At(p, "fetch")
    /\ Current(p) = att[1]
    /\ att[2] \in run[p].page
    /\ ~Downloadable(p, FALSE)

EventuallyStored ==
    Labelling => \A att \in Awaited :
        (Arrived(att) /\ KindOf(att) = "plain") ~>
            \/ Arrived(att) /\ Stored(Given(att))
            \/ \E p \in Processes : Spoilt(p, att)

(***************************************************************************)
(* How far a process has come, s being a later state than r: accounts are  *)
(* done in order; a turn connects, searches and then works through its     *)
(* pages; each page takes UIDs off the list, and is fetched, collected,    *)
(* stored and closed; each item is taken once, and uploaded before the     *)
(* next; and tries are counted.  None of this can go on for ever, so       *)
(* neither can a run.                                                      *)
(***************************************************************************)
Phase(pc) == CASE pc = "connect" -> 0 [] pc = "search" -> 1 [] OTHER -> 2
Stage(pc) == CASE pc = "fetch" -> 0 [] pc = "collect" -> 1 [] pc \in {"item", "upload"} -> 2
               [] OTHER -> 3

FewerItems(r, s) ==
    /\ s.items \subseteq r.items
    /\ s.items # r.items \/ (r.pc = "upload" /\ s.pc = "item")

FartherInPage(r, s) ==
    \/ Stage(r.pc) < Stage(s.pc)
    \/ /\ Stage(r.pc) = Stage(s.pc)
       /\ \/ FewerItems(r, s)
          \/ s.items = r.items /\ s.pc = r.pc /\ r.tries < s.tries

FartherInTurn(r, s) ==
    \/ Phase(r.pc) < Phase(s.pc)
    \/ /\ Phase(r.pc) = Phase(s.pc)
       /\ s.todo \subseteq r.todo
       /\ s.todo # r.todo \/ FartherInPage(r, s)

Farther(r, s) ==
    /\ r.pc # "idle"
    /\ \/ s.pc = "idle"
       \/ Len(s.queue) < Len(r.queue)
       \/ s.queue = r.queue /\ FartherInTurn(r, s)

(***************************************************************************)
(* A run comes to an end whatever fails in it: each of its steps, a retry  *)
(* and a failed page among them, takes it farther, and none takes it back. *)
(* Only an upload is repeated without being counted here, and that is a    *)
(* failure of its own.                                                     *)
(***************************************************************************)
RunsMoveOn ==
    [][\A p \in Processes :
        run'[p] # run[p] => At(p, "idle") \/ Farther(run[p], run'[p])]_vars

(***************************************************************************)
(* The messages of the Gmail accounts as letters of MailDelivery, where    *)
(* messages are labelled and INBOX has not been opened for the mailbox: a  *)
(* process holds the messages its search has found and that it has not     *)
(* left behind, and a letter is done when it bears the label.  What is     *)
(* wanted of a letter is the parts that come for its eligible attachments. *)
(***************************************************************************)
Held(r) == IF r.queue = <<>> THEN {} ELSE {Head(r.queue)} \X (r.todo \cup r.page)

Letter(a, u) ==
    [wanted  |-> {att \in AttachmentsOf(a, u) : Eligible(att)},
     sent    |-> [att \in AttachmentsOf(a, u) |-> uploads[att]],
     refused |-> rejected \cap AttachmentsOf(a, u),
     holders |-> {p \in Processes : <<a, u>> \in Held(run[p])},
     state   |-> IF u \in marked[a] THEN "done" ELSE "open"]

Cared == {a \in Accounts \cap Gmail : Labelling /\ a \notin strayed}

Letters == [m \in UNION {{a} \X DOMAIN mail[a] : a \in Cared} |-> Letter(m[1], m[2])]

Delivery == INSTANCE MailDelivery WITH Workers <- Processes, letter <- Letters

(***************************************************************************)
(* The pipeline delivers at least once what it is given: what a process    *)
(* stores came for an eligible attachment of a message that bore no label  *)
(* when the process searched for it, whatever other processes have done    *)
(* since; it labels only messages it took itself, after all that came for  *)
(* their attachments was dealt with; a page that cannot be fetched is let  *)
(* go and not labelled; and a failure or a crash only lets go.             *)
(***************************************************************************)
DeliversMail == Delivery!DeliverySpec

=============================================================================
