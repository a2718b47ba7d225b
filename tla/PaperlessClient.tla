--------------------------- MODULE PaperlessClient ---------------------------
(***************************************************************************)
(* Uploading a document to Paperless (live/paperless-client.ts): the names *)
(* of its tags are resolved to ids one by one, out of the client's cache   *)
(* or by asking Paperless and, if it has no such tag, making one; then the *)
(* document is posted with the ids.  The calls of one process share a      *)
(* cache and interleave at every request; the bot and an email run are two *)
(* processes with a cache each.                                            *)
(*                                                                         *)
(* Paperless is modelled from how the client uses it: a tag has a name     *)
(* that no other has, in whatever case it is written, and an id that is    *)
(* never used again; a document is refused if it names an id that is no    *)
(* tag.                                                                    *)
(***************************************************************************)
EXTENDS Naturals, Sequences

CONSTANTS
    Callers,     \* the fibers that upload, one call each at a time
    Clients,     \* the processes
    ClientOf,    \* the process of a fiber
    Docs,        \* documents
    Names,       \* tag names a document is uploaded with, up to their case
    NoDoc,       \* a call that is not about a document
    TagsOf,      \* the tag names a document is uploaded with
    MaxStored,   \* the count of copies of a document stops here
    MaxEdits,    \* bound on tags made, renamed or deleted by people
    MaxFaults    \* bound on failed requests and restarts

ASSUME ClientAssumption == ClientOf \in [Callers -> Clients]
ASSUME DocAssumption == NoDoc \notin Docs /\ TagsOf \in [Docs -> Seq(Names)]
ASSUME TagBoundAssumption == MaxStored \in Nat \ {0} /\ MaxEdits \in Nat /\ MaxFaults \in Nat

VARIABLES
    tags,     \* tags[i]: the names tag i has borne
    current,  \* <<i, n>>: tag i bears the name n now
    deleted,  \* the tags that were deleted
    stored,   \* stored[d]: how many copies of d Paperless has
    tagged,   \* <<d, ids>>: a copy of d was stored with these tags
    edits,    \* what people have done to tags so far
    cache,    \* cache[c][n]: the id process c knows for n, 0 for none
    call,     \* the upload each fiber is in
    faults,   \* failures so far
    clashed   \* history: a tag was refused because its name existed

paperless == <<tags, current, deleted, stored, tagged, edits>>
tagVars == <<paperless, cache, call, faults, clashed>>

Ids == 1 .. Len(tags)
NoId == 0
NothingCached == [n \in Names |-> NoId]

PCs == {"idle", "tag", "get", "post", "remember", "done", "failed"}

(***************************************************************************)
(* names: still to resolve; ids: resolved; known: the cache as it was when *)
(* the current name was looked up, which is what it is written back with;  *)
(* found: the id Paperless answered.                                       *)
(***************************************************************************)
NoCall == [pc |-> "idle", doc |-> NoDoc, names |-> <<>>, ids |-> {},
           known |-> NothingCached, found |-> NoId]

TagTypeOK ==
    /\ tags \in Seq(SUBSET Names)
    /\ current \subseteq (Ids \ deleted) \X Names
    /\ deleted \subseteq Ids
    /\ stored \in [Docs -> 0 .. MaxStored]
    /\ tagged \subseteq Docs \X SUBSET Ids
    /\ edits \in 0 .. MaxEdits
    /\ cache \in [Clients -> [Names -> Ids \cup {NoId}]]
    /\ call \in [Callers -> [pc : PCs, doc : Docs \cup {NoDoc}, names : Seq(Names),
                             ids : SUBSET Ids, known : [Names -> Ids \cup {NoId}],
                             found : Ids \cup {NoId}]]
    /\ faults \in 0 .. MaxFaults
    /\ clashed \in BOOLEAN

TagInit ==
    /\ tags = <<>>
    /\ current = {}
    /\ deleted = {}
    /\ stored = [d \in Docs |-> 0]
    /\ tagged = {}
    /\ edits = 0
    /\ cache = [c \in Clients |-> NothingCached]
    /\ call = [f \in Callers |-> NoCall]
    /\ faults = 0
    /\ clashed = FALSE

\* The tag that bears a name now: at most one does.
IdsOf(n) == {i \in Ids : <<i, n>> \in current}

-----------------------------------------------------------------------------
(* uploadDocument.                                                         *)

Becomes(f, state) == call' = [call EXCEPT ![f] = state]
Answers(f, outcome) == Becomes(f, [call[f] EXCEPT !.pc = outcome])
Wanted(f) == Head(call[f].names)
Resolving(f) == call[f].pc = "tag" /\ call[f].names # <<>>

NamesOf(doc) == {TagsOf[doc][i] : i \in DOMAIN TagsOf[doc]}

UploadDocument(f, doc) ==
    /\ call[f].pc = "idle"
    /\ Becomes(f, [NoCall EXCEPT !.pc = "tag", !.doc = doc, !.names = TagsOf[doc]])

Resolved(f, id) ==
    [call[f] EXCEPT !.pc = "tag", !.names = Tail(@), !.ids = @ \cup {id}]

\* Mutant: an id out of the cache is not added to the list.
BugUseCached(f) ==
    /\ Resolving(f)
    /\ cache[ClientOf[f]][Wanted(f)] # NoId
    /\ Becomes(f, [call[f] EXCEPT !.names = Tail(@)])
    /\ UNCHANGED <<paperless, cache, faults, clashed>>

UseCached(f) ==
    /\ Resolving(f)
    /\ cache[ClientOf[f]][Wanted(f)] # NoId
    /\ Becomes(f, Resolved(f, cache[ClientOf[f]][Wanted(f)]))
    /\ UNCHANGED <<paperless, cache, faults, clashed>>

AskForTag(f) ==
    /\ Resolving(f)
    /\ cache[ClientOf[f]][Wanted(f)] = NoId
    /\ Becomes(f, [call[f] EXCEPT !.pc = "get", !.known = cache[ClientOf[f]]])
    /\ UNCHANGED <<paperless, cache, faults, clashed>>

\* Mutant: a tag that does not exist is an error.
BugGetTag(f) ==
    /\ call[f].pc = "get"
    /\ IF IdsOf(Wanted(f)) = {}
       THEN Answers(f, "failed")
       ELSE \E id \in IdsOf(Wanted(f)) :
                Becomes(f, [call[f] EXCEPT !.pc = "remember", !.found = id])
    /\ UNCHANGED <<paperless, cache, faults, clashed>>

(***************************************************************************)
(* The request asks for the name whatever its case (name__iexact), and the *)
(* first answer is taken.                                                  *)
(***************************************************************************)
GetTag(f) ==
    /\ call[f].pc = "get"
    /\ IF IdsOf(Wanted(f)) = {}
       THEN Answers(f, "post")
       ELSE \E id \in IdsOf(Wanted(f)) :
                Becomes(f, [call[f] EXCEPT !.pc = "remember", !.found = id])
    /\ UNCHANGED <<paperless, cache, faults, clashed>>

\* Paperless makes a tag of this name.
NewTag(n) ==
    /\ tags' = Append(tags, {n})
    /\ current' = current \cup {<<Len(tags) + 1, n>>}
    /\ UNCHANGED deleted
MakeTag(n) == NewTag(n) /\ UNCHANGED <<stored, tagged, edits>>

(***************************************************************************)
(* Between the GET that found nothing and the POST another fiber may have  *)
(* made the tag: Paperless refuses (HTTP 400) and the upload fails.        *)
(***************************************************************************)
PostTag(f) ==
    /\ call[f].pc = "post"
    /\ IF IdsOf(Wanted(f)) = {}
       THEN /\ MakeTag(Wanted(f))
            /\ Becomes(f, [call[f] EXCEPT !.pc = "remember", !.found = Len(tags) + 1])
            /\ UNCHANGED clashed
       ELSE /\ Answers(f, "failed")
            /\ clashed' = TRUE
            /\ UNCHANGED paperless
    /\ UNCHANGED <<cache, faults>>

\* Mutant: the id is put under every name of the document.
BugRemember(f) ==
    /\ call[f].pc = "remember"
    /\ cache' = [cache EXCEPT ![ClientOf[f]] =
                    [n \in Names |-> IF n \in NamesOf(call[f].doc) THEN call[f].found ELSE call[f].known[n]]]
    /\ Becomes(f, Resolved(f, call[f].found))
    /\ UNCHANGED <<paperless, faults, clashed>>

(***************************************************************************)
(* The cache becomes what it was before the requests, with one more entry: *)
(* what other fibers have put there meanwhile is lost.                     *)
(***************************************************************************)
Remember(f) ==
    /\ call[f].pc = "remember"
    /\ cache' = [cache EXCEPT ![ClientOf[f]] =
                    [call[f].known EXCEPT ![Wanted(f)] = call[f].found]]
    /\ Becomes(f, Resolved(f, call[f].found))
    /\ UNCHANGED <<paperless, faults, clashed>>

Ready(f) == call[f].pc = "tag" /\ call[f].names = <<>>

StoreDoc(f) ==
    /\ stored' = [stored EXCEPT ![call[f].doc] = IF @ < MaxStored THEN @ + 1 ELSE @]
    /\ tagged' = tagged \cup {<<call[f].doc, call[f].ids>>}
    /\ UNCHANGED <<tags, current, deleted, edits>>

PostDocument(f) ==
    /\ Ready(f)
    /\ IF call[f].ids \cap deleted = {}
       THEN StoreDoc(f) /\ Answers(f, "done")
       ELSE UNCHANGED paperless /\ Answers(f, "failed")
    /\ UNCHANGED <<cache, faults, clashed>>

(***************************************************************************)
(* A request fails, whether or not Paperless has carried it out.  The HTTP *)
(* client repeats it after a transient error; otherwise the upload fails.  *)
(***************************************************************************)
RequestFails(f) ==
    /\ faults < MaxFaults
    /\ faults' = faults + 1
    /\ \/ call[f].pc = "get" /\ UNCHANGED paperless
       \/ /\ call[f].pc = "post"
          /\ UNCHANGED paperless \/ (IdsOf(Wanted(f)) = {} /\ MakeTag(Wanted(f)))
       \/ /\ Ready(f)
          /\ UNCHANGED paperless \/ (call[f].ids \cap deleted = {} /\ StoreDoc(f))
    /\ UNCHANGED call \/ Answers(f, "failed")
    /\ UNCHANGED <<cache, clashed>>

UploadStep(f) ==
    \/ UseCached(f) \/ AskForTag(f) \/ GetTag(f) \/ PostTag(f) \/ Remember(f)
    \/ PostDocument(f)

-----------------------------------------------------------------------------
(* What else happens to tags and caches.                                   *)

Nameless(i) == {bearing \in current : bearing[1] # i}

DeleteTag(i) ==
    /\ deleted' = deleted \cup {i}
    /\ current' = Nameless(i)
    /\ UNCHANGED tags

\* To a name nobody asks for, or to one of Names that is free.
RenameTag(i) ==
    /\ \/ current' = Nameless(i) /\ UNCHANGED tags
       \/ \E n \in Names : /\ IdsOf(n) = {}
                           /\ current' = Nameless(i) \cup {<<i, n>>}
                           /\ tags' = [tags EXCEPT ![i] = @ \cup {n}]
    /\ UNCHANGED deleted

\* Somebody makes a tag, renames one (the design's bulk renaming) or deletes one.
EditTag ==
    /\ edits < MaxEdits
    /\ edits' = edits + 1
    /\ \/ \E n \in Names : IdsOf(n) = {} /\ NewTag(n)
       \/ \E i \in Ids \ deleted : DeleteTag(i) \/ RenameTag(i)
    /\ UNCHANGED <<stored, tagged, cache, call, faults, clashed>>

\* A restart: the cache and the calls of the process are gone.
RestartClient(c) ==
    /\ faults < MaxFaults
    /\ faults' = faults + 1
    /\ cache' = [cache EXCEPT ![c] = NothingCached]
    /\ call' = [f \in Callers |-> IF ClientOf[f] = c THEN NoCall ELSE call[f]]
    /\ UNCHANGED <<paperless, clashed>>

-----------------------------------------------------------------------------
(* Fibers that upload whatever they like, and take no heed of the outcome. *)

Begin(f) ==
    /\ \E doc \in Docs : UploadDocument(f, doc)
    /\ UNCHANGED <<paperless, cache, faults, clashed>>

Release(f) ==
    /\ call[f].pc \in {"done", "failed"}
    /\ Becomes(f, NoCall)
    /\ UNCHANGED <<paperless, cache, faults, clashed>>

TagNext ==
    \/ \E f \in Callers : Begin(f) \/ UploadStep(f) \/ RequestFails(f) \/ Release(f)
    \/ EditTag \/ (\E c \in Clients : RestartClient(c))

TagSpec == TagInit /\ [][TagNext]_tagVars

-----------------------------------------------------------------------------
(* Properties.                                                             *)

(***************************************************************************)
(* However lookups interleave and whatever part of the cache is written    *)
(* back stale: an id the client knows for a name belongs to a tag that has *)
(* borne this name (resolveOneTag's Ref.set of a copied map).              *)
(***************************************************************************)
CacheTrue ==
    \A c \in Clients : \A n \in Names : cache[c][n] # NoId => n \in tags[cache[c][n]]

(***************************************************************************)
(* A document is stored with a tag for each name it was uploaded with, one *)
(* that has borne that name, and with no other.  A tag that is renamed     *)
(* from one of its names to another while they are resolved stands for     *)
(* both.                                                                   *)
(***************************************************************************)
TaggedAsAsked ==
    \A t \in tagged : /\ \A n \in NamesOf(t[1]) : \E i \in t[2] : n \in tags[i]
                      /\ \A i \in t[2] : \E n \in NamesOf(t[1]) : n \in tags[i]

(***************************************************************************)
(* An upload fails only if a request failed, if two fibers made a tag at   *)
(* once, or if somebody deleted a tag the client still has in its cache.   *)
(***************************************************************************)
FailuresHaveCauses ==
    (\E f \in Callers : call[f].pc = "failed") => faults > 0 \/ clashed \/ deleted # {}
=============================================================================
