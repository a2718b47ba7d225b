------------------------ MODULE PaperlessClientProofs ------------------------
(***************************************************************************)
(* Theorems about uploads and their tags, for any number of fibers and     *)
(* processes, any lists of tag names, and any number of failures, restarts *)
(* and edits.                                                              *)
(***************************************************************************)
EXTENDS PaperlessClient, TLAPS

-----------------------------------------------------------------------------
(* Tables of tags, and what can be said of a call over one.                *)

IdsIn(table) == 1 .. Len(table)

Calls(table) ==
    [pc : PCs, doc : Docs \cup {NoDoc}, names : Seq(Names), ids : SUBSET IdsIn(table),
     known : [Names -> IdsIn(table) \cup {NoId}], found : IdsIn(table) \cup {NoId}]

\* A later table has all the tags of an earlier one.
Grown(table, later) ==
    /\ table \in Seq(SUBSET Names)
    /\ later \in Seq(SUBSET Names)
    /\ Len(table) <= Len(later)
    /\ \A i \in IdsIn(table) : table[i] \subseteq later[i]

\* What is known of names is true.
Truthful(table, known) == \A n \in Names : known[n] # NoId => n \in table[known[n]]

(***************************************************************************)
(* The names still to resolve are the rest of those asked for, and the ids *)
(* are tags of the names before them.                                      *)
(***************************************************************************)
Consumed(state) == Len(TagsOf[state.doc]) - Len(state.names)

RestOfNames(state) ==
    /\ Len(state.names) <= Len(TagsOf[state.doc])
    /\ \A i \in 1 .. Len(state.names) : state.names[i] = TagsOf[state.doc][Consumed(state) + i]

TagsOfConsumed(table, state) ==
    /\ \A j \in 1 .. Consumed(state) : \E i \in state.ids : TagsOf[state.doc][j] \in table[i]
    /\ \A i \in state.ids : \E j \in 1 .. Consumed(state) : TagsOf[state.doc][j] \in table[i]

CallSound(table, state) ==
    /\ Truthful(table, state.known)
    /\ state.pc \in {"tag", "get", "post", "remember"} =>
        state.doc \in Docs /\ RestOfNames(state) /\ TagsOfConsumed(table, state)
    /\ state.pc \in {"get", "post", "remember"} => state.names # <<>>
    /\ state.pc = "remember" => state.found # NoId /\ Head(state.names) \in table[state.found]

\* The tags that bear a name are among those not deleted, and have borne it.
Bearing(table, bearings, gone) ==
    /\ bearings \subseteq (IdsIn(table) \ gone) \X Names /\ gone \subseteq IdsIn(table)
    /\ \A b \in bearings : b[2] \in table[b[1]]

\* A copy of a document has a tag for each of its names, and no other.
NamedAsAsked(table, t) ==
    /\ \A n \in NamesOf(t[1]) : \E i \in t[2] : n \in table[i]
    /\ \A i \in t[2] : \E n \in NamesOf(t[1]) : n \in table[i]

LEMMA GrownByNone == ASSUME NEW table \in Seq(SUBSET Names) PROVE Grown(table, table)
BY DEF Grown, IdsIn

LEMMA GrownByOne ==
    ASSUME NEW table \in Seq(SUBSET Names), NEW n \in Names
    PROVE  /\ Grown(table, Append(table, {n}))
           /\ Len(Append(table, {n})) = Len(table) + 1
           /\ n \in Append(table, {n})[Len(table) + 1]
<1>1. {n} \in SUBSET Names
  OBVIOUS
<1> QED
  BY <1>1 DEF Grown, IdsIn

\* A tag takes another name.
LEMMA GrownInPlace ==
    ASSUME NEW table \in Seq(SUBSET Names), NEW i \in IdsIn(table), NEW n \in Names
    PROVE  /\ Grown(table, [table EXCEPT ![i] = @ \cup {n}])
           /\ Len([table EXCEPT ![i] = @ \cup {n}]) = Len(table)
<1> DEFINE names == table[i] \cup {n}
           later == [table EXCEPT ![i] = names]
<1>1. names \in SUBSET Names
  BY DEF IdsIn
<1> HIDE DEF names
<1>2. later \in Seq(SUBSET Names) /\ Len(later) = Len(table)
  BY <1>1 DEF IdsIn
<1>3. \A k \in IdsIn(table) : later[k] = IF k = i THEN names ELSE table[k]
  BY DEF IdsIn
<1>4. \A k \in IdsIn(table) : table[k] \subseteq later[k]
  BY <1>3 DEF names
<1>5. later = [table EXCEPT ![i] = @ \cup {n}]
  BY DEF names
<1> HIDE DEF later
<1>6. Grown(table, later)
  BY <1>2, <1>4 DEF Grown
<1> QED
  BY <1>2, <1>5, <1>6

LEMMA CallStaysTyped ==
    ASSUME NEW table, NEW later, Grown(table, later), NEW state \in Calls(table)
    PROVE  state \in Calls(later)
<1>1. IdsIn(table) \subseteq IdsIn(later)
  BY DEF Grown, IdsIn
<1> QED
  BY <1>1 DEF Calls

LEMMA KnownStaysTrue ==
    ASSUME NEW table, NEW later, Grown(table, later),
           NEW known \in [Names -> IdsIn(table) \cup {NoId}], Truthful(table, known)
    PROVE  Truthful(later, known) /\ known \in [Names -> IdsIn(later) \cup {NoId}]
BY DEF Grown, Truthful, IdsIn

LEMMA CallStaysSound ==
    ASSUME NEW table, NEW later, Grown(table, later),
           NEW state \in Calls(table), CallSound(table, state)
    PROVE  CallSound(later, state)
<1>1. /\ state.known \in [Names -> IdsIn(table) \cup {NoId}]
      /\ state.ids \subseteq IdsIn(table)
      /\ state.found \in IdsIn(table) \cup {NoId}
  BY DEF Calls
<1>2. Truthful(later, state.known)
  BY <1>1, KnownStaysTrue DEF CallSound
<1>3. TagsOfConsumed(table, state) => TagsOfConsumed(later, state)
  BY <1>1 DEF Grown, TagsOfConsumed
<1>4. state.found # NoId => table[state.found] \subseteq later[state.found]
  BY <1>1 DEF Grown
<1> QED
  BY <1>2, <1>3, <1>4 DEF CallSound

(***************************************************************************)
(* A call that has its next name resolved.                                 *)
(***************************************************************************)
LEMMA ResolvedSound ==
    ASSUME NEW table \in Seq(SUBSET Names), NEW state \in Calls(table), CallSound(table, state),
           state.pc \in {"tag", "remember"}, state.names # <<>>,
           NEW id \in IdsIn(table), Head(state.names) \in table[id]
    PROVE  LET next == [state EXCEPT !.pc = "tag", !.names = Tail(@), !.ids = @ \cup {id}] IN
             next \in Calls(table) /\ CallSound(table, next)
<1> DEFINE next == [state EXCEPT !.pc = "tag", !.names = Tail(@), !.ids = @ \cup {id}]
<1>1. /\ state.names \in Seq(Names) /\ state.ids \subseteq IdsIn(table)
      /\ state.doc \in Docs /\ RestOfNames(state) /\ TagsOfConsumed(table, state)
  BY DEF Calls, CallSound
<1>2. /\ next.pc = "tag" /\ next.doc = state.doc /\ next.names = Tail(state.names)
      /\ next.ids = state.ids \cup {id} /\ next.known = state.known /\ next.found = state.found
  BY DEF Calls
<1>3. Tail(state.names) \in Seq(Names)
  BY <1>1
<1>4. next \in Calls(table)
  BY <1>1, <1>3 DEF Calls, PCs
<1> HIDE DEF next
<1> DEFINE asked == TagsOf[state.doc]
           k     == Consumed(state)
<1>5. asked \in Seq(Names) /\ Len(asked) \in Nat /\ Len(state.names) \in Nat \ {0}
  BY <1>1, DocAssumption
<1>6. /\ Len(next.names) = Len(state.names) - 1
      /\ Len(next.names) \in Nat
      /\ \A i \in 1 .. Len(next.names) : next.names[i] = state.names[i + 1]
  BY <1>1, <1>2, <1>5
<1>7. k = Len(asked) - Len(state.names) /\ Len(state.names) <= Len(asked)
  BY <1>1 DEF Consumed, RestOfNames
<1>8. Consumed(next) = Len(asked) - Len(next.names)
  BY <1>2 DEF Consumed
<1>9. \A i \in 1 .. Len(state.names) : state.names[i] = asked[k + i]
  BY <1>1 DEF RestOfNames
<1>10. TagsOf[next.doc] = asked
  BY <1>2
<1> HIDE DEF asked, k
<1>11. k \in Nat /\ Consumed(next) = k + 1 /\ k + 1 \in 1 .. Len(asked)
  BY <1>5, <1>6, <1>7, <1>8
<1>12. RestOfNames(next)
  <2>1. \A i \in 1 .. Len(next.names) : next.names[i] = asked[k + 1 + i]
    <3> SUFFICES ASSUME NEW i \in 1 .. Len(next.names) PROVE next.names[i] = asked[k + 1 + i]
      OBVIOUS
    <3>1. i + 1 \in 1 .. Len(state.names) /\ k + (i + 1) = (k + 1) + i
      BY <1>5, <1>6, <1>11
    <3> QED
      BY <1>6, <1>9, <3>1
  <2>2. Len(next.names) <= Len(asked)
    BY <1>5, <1>6, <1>7
  <2> QED
    BY <1>10, <1>11, <2>1, <2>2 DEF RestOfNames
<1>13. asked[k + 1] \in table[id]
  <2>1. 1 \in 1 .. Len(state.names) /\ Head(state.names) = state.names[1]
    BY <1>1, <1>5
  <2> QED
    BY <1>9, <2>1
<1>14. /\ \A j \in 1 .. k : \E i \in state.ids : asked[j] \in table[i]
       /\ \A i \in state.ids : \E j \in 1 .. k : asked[j] \in table[i]
  BY <1>1 DEF TagsOfConsumed, asked, k
<1>15. TagsOfConsumed(table, next)
  <2>1. \A j \in 1 .. (k + 1) : \E i \in next.ids : asked[j] \in table[i]
    <3> SUFFICES ASSUME NEW j \in 1 .. (k + 1) PROVE \E i \in next.ids : asked[j] \in table[i]
      OBVIOUS
    <3>1. j = k + 1 \/ j \in 1 .. k
      BY <1>11
    <3> QED
      BY <1>2, <1>13, <1>14, <3>1
  <2>2. \A i \in next.ids : \E j \in 1 .. (k + 1) : asked[j] \in table[i]
    <3>1. k + 1 \in 1 .. (k + 1) /\ \A j \in 1 .. k : j \in 1 .. (k + 1)
      BY <1>11
    <3> QED
      BY <1>2, <1>13, <1>14, <3>1
  <2> QED
    BY <1>2, <1>10, <1>11, <2>1, <2>2 DEF TagsOfConsumed
<1>16. CallSound(table, next)
  BY <1>1, <1>2, <1>12, <1>15 DEF CallSound
<1> QED
  BY <1>4, <1>16 DEF next

(***************************************************************************)
(* A call that changes its place only, with all names of its list behind   *)
(* it, has the tags its document was to be stored with.                    *)
(***************************************************************************)
LEMMA AllConsumed ==
    ASSUME NEW table \in Seq(SUBSET Names), NEW state \in Calls(table), CallSound(table, state),
           state.pc = "tag", state.names = <<>>
    PROVE  /\ state.doc \in Docs
           /\ NamedAsAsked(table, <<state.doc, state.ids>>)
<1>1. state.doc \in Docs /\ TagsOfConsumed(table, state)
  BY DEF CallSound
<1>2. TagsOf[state.doc] \in Seq(Names)
  BY <1>1, DocAssumption
<1>3. Consumed(state) = Len(TagsOf[state.doc])
  BY <1>2 DEF Consumed
<1>4. DOMAIN TagsOf[state.doc] = 1 .. Consumed(state)
  BY <1>2, <1>3
<1>5. \A n \in NamesOf(state.doc) : \E i \in state.ids : n \in table[i]
  BY <1>1, <1>4 DEF TagsOfConsumed, NamesOf
<1>6. \A i \in state.ids : \E n \in NamesOf(state.doc) : n \in table[i]
  BY <1>1, <1>4 DEF TagsOfConsumed, NamesOf
<1> QED
  BY <1>1, <1>5, <1>6 DEF NamedAsAsked

-----------------------------------------------------------------------------
(* The inductive invariant, and what keeps its parts.                      *)

\* What a cache says is true, and each call is sound.
TagsSound ==
    /\ \A c \in Clients : Truthful(tags, cache[c])
    /\ \A f \in Callers : CallSound(tags, call[f])
    /\ \A b \in current : b[2] \in tags[b[1]]
    /\ TaggedAsAsked

TagInv == TagTypeOK /\ TagsSound

LEMMA CallType == TagTypeOK => call \in [Callers -> Calls(tags)]
BY DEF TagTypeOK, Calls, Ids, IdsIn

LEMMA NoCallSound ==
    ASSUME NEW table \in Seq(SUBSET Names)
    PROVE  NoCall \in Calls(table) /\ CallSound(table, NoCall)
<1>1. NoCall \in Calls(table)
  BY DEF NoCall, Calls, PCs, NothingCached
<1> QED
  BY <1>1 DEF NoCall, CallSound, Truthful, NothingCached

\* A call begins with all its names before it.
LEMMA BegunSound ==
    ASSUME NEW table \in Seq(SUBSET Names), NEW doc \in Docs
    PROVE  LET begun == [NoCall EXCEPT !.pc = "tag", !.doc = doc, !.names = TagsOf[doc]] IN
             begun \in Calls(table) /\ CallSound(table, begun)
<1> DEFINE begun == [NoCall EXCEPT !.pc = "tag", !.doc = doc, !.names = TagsOf[doc]]
<1>1. /\ begun.pc = "tag" /\ begun.doc = doc /\ begun.names = TagsOf[doc] /\ begun.ids = {}
      /\ begun.known = NothingCached
  BY DEF NoCall
<1>2. TagsOf[doc] \in Seq(Names) /\ Len(TagsOf[doc]) \in Nat
  BY DocAssumption
<1>3. begun \in Calls(table)
  BY <1>2 DEF NoCall, Calls, PCs, NothingCached
<1> HIDE DEF begun
<1>4. Consumed(begun) = 0
  BY <1>1, <1>2 DEF Consumed
<1>5. RestOfNames(begun) /\ TagsOfConsumed(table, begun)
  BY <1>1, <1>2, <1>4 DEF RestOfNames, TagsOfConsumed
<1>6. CallSound(table, begun)
  BY <1>1, <1>5 DEF CallSound, Truthful, NothingCached
<1> QED
  BY <1>3, <1>6 DEF begun

\* A call that is over, whatever it had in hand.
LEMMA AnsweredSound ==
    ASSUME NEW table, NEW state \in Calls(table), CallSound(table, state),
           NEW outcome \in {"done", "failed"}
    PROVE  LET answered == [state EXCEPT !.pc = outcome] IN
             answered \in Calls(table) /\ CallSound(table, answered)
<1> DEFINE answered == [state EXCEPT !.pc = outcome]
<1>1. answered \in Calls(table) /\ answered.pc = outcome /\ answered.known = state.known
  BY DEF Calls, PCs
<1> HIDE DEF answered
<1>2. CallSound(table, answered)
  BY <1>1 DEF CallSound
<1> QED
  BY <1>1, <1>2 DEF answered

\* One call changes, over a table that may have grown.
LEMMA CallsStaySound ==
    ASSUME TagInv, NEW f \in Callers, NEW state \in Calls(tags'), Becomes(f, state),
           Grown(tags, tags'), CallSound(tags', state)
    PROVE  /\ call' \in [Callers -> Calls(tags')]
           /\ \A g \in Callers : CallSound(tags', call'[g])
<1>1. \A g \in Callers : call[g] \in Calls(tags) /\ CallSound(tags, call[g])
  BY CallType DEF TagInv, TagsSound
<1>2. \A g \in Callers : call[g] \in Calls(tags') /\ CallSound(tags', call[g])
  BY <1>1, CallStaysTyped, CallStaysSound
<1>3. call' = [g \in Callers |-> IF g = f THEN state ELSE call[g]]
  BY CallType DEF TagInv, Becomes
<1> QED
  BY <1>2, <1>3

\* No call changes, while the table may grow.
LEMMA CallsUnchangedSound ==
    ASSUME TagInv, UNCHANGED call, Grown(tags, tags')
    PROVE  /\ call' \in [Callers -> Calls(tags')]
           /\ \A g \in Callers : CallSound(tags', call'[g])
<1>1. \A g \in Callers : call[g] \in Calls(tags) /\ CallSound(tags, call[g])
  BY CallType DEF TagInv, TagsSound
<1> QED
  BY <1>1, CallStaysTyped, CallStaysSound, CallType DEF TagInv

\* The calls are sound over the next table, and the other variables that calls share are typed.
CallsSoundNext ==
    /\ call' \in [Callers -> Calls(tags')]
    /\ \A g \in Callers : CallSound(tags', call'[g])
    /\ faults' \in 0 .. MaxFaults
    /\ clashed' \in BOOLEAN

LEMMA PaperlessUnchanged ==
    ASSUME TagInv, CallsSoundNext, UNCHANGED <<paperless, cache>>
    PROVE  TagInv'
<1>1. TagTypeOK'
  BY DEF TagInv, TagTypeOK, CallsSoundNext, Calls, paperless, Ids, IdsIn
<1>2. TagsSound'
  BY DEF TagInv, TagsSound, CallsSoundNext, paperless, TaggedAsAsked
<1> QED
  BY <1>1, <1>2 DEF TagInv

LEMMA NewTagGrows ==
    ASSUME TagTypeOK, NEW n \in Names, NewTag(n)
    PROVE  /\ Grown(tags, tags')
           /\ Len(tags') = Len(tags) + 1
           /\ n \in tags'[Len(tags) + 1]
           /\ Len(tags) \in Nat
BY GrownByOne DEF TagTypeOK, NewTag

\* What Paperless has can change in any way that lets the tags keep the names they have borne.
LEMMA TableGrows ==
    ASSUME TagInv, CallsSoundNext, Grown(tags, tags'), UNCHANGED <<cache, stored, tagged>>,
           Bearing(tags', current', deleted'),
           edits' \in 0 .. MaxEdits
    PROVE  TagInv'
<1>1. tags' \in Seq(SUBSET Names) /\ IdsIn(tags) \subseteq IdsIn(tags')
  BY DEF Grown, IdsIn
<1>2. /\ cache' \in [Clients -> [Names -> IdsIn(tags') \cup {NoId}]]
      /\ \A c \in Clients : Truthful(tags', cache'[c])
  <2>1. cache \in [Clients -> [Names -> IdsIn(tags) \cup {NoId}]]
    BY DEF TagInv, TagTypeOK, Ids, IdsIn
  <2>2. \A c \in Clients : Truthful(tags', cache[c]) /\ cache[c] \in [Names -> IdsIn(tags') \cup {NoId}]
    BY <2>1, KnownStaysTrue DEF TagInv, TagsSound
  <2> QED
    BY <2>1, <2>2
<1>3. /\ stored' \in [Docs -> 0 .. MaxStored]
      /\ tagged' \subseteq Docs \X SUBSET IdsIn(tags')
  BY <1>1 DEF TagInv, TagTypeOK, Ids, IdsIn
<1>4. TagTypeOK'
  BY <1>1, <1>2, <1>3 DEF TagTypeOK, CallsSoundNext, Calls, Bearing, Ids, IdsIn
<1>5. TaggedAsAsked'
  <2>1. \A t \in tagged : t[2] \subseteq IdsIn(tags)
    BY DEF TagInv, TagTypeOK, Ids, IdsIn
  <2>2. \A t \in tagged : \A i \in t[2] : tags[i] \subseteq tags'[i]
    BY <2>1 DEF Grown
  <2>3. \A t \in tagged : NamedAsAsked(tags, t)
    BY DEF TagInv, TagsSound, TaggedAsAsked, NamedAsAsked
  <2>4. \A t \in tagged : NamedAsAsked(tags', t)
    BY <2>2, <2>3 DEF NamedAsAsked
  <2> QED
    BY <2>4 DEF TaggedAsAsked, NamedAsAsked
<1> QED
  BY <1>2, <1>4, <1>5 DEF TagInv, TagsSound, CallsSoundNext, Bearing

LEMMA BearingNow == TagInv => Bearing(tags, current, deleted)
BY DEF TagInv, TagTypeOK, TagsSound, Bearing, Ids, IdsIn

LEMMA NewTagBorne ==
    ASSUME TagInv, NEW n \in Names, NewTag(n)
    PROVE  Bearing(tags', current', deleted')
<1>1. /\ Grown(tags, tags') /\ Len(tags') = Len(tags) + 1 /\ Len(tags) \in Nat
      /\ n \in tags'[Len(tags) + 1]
  BY NewTagGrows DEF TagInv
<1>2. IdsIn(tags) \subseteq IdsIn(tags')
  BY <1>1 DEF Grown, IdsIn
<1>3. /\ current \subseteq (IdsIn(tags) \ deleted) \X Names /\ deleted \subseteq IdsIn(tags)
      /\ \A b \in current : b[2] \in tags[b[1]]
  BY BearingNow DEF Bearing
<1>4. current' = current \cup {<<Len(tags) + 1, n>>} /\ deleted' = deleted
  BY DEF NewTag
<1>5. Len(tags) + 1 \notin IdsIn(tags) /\ Len(tags) + 1 \in IdsIn(tags')
  BY <1>1 DEF IdsIn
<1>6. \A b \in current : b[2] \in tags'[b[1]]
  BY <1>1, <1>3 DEF Grown
<1>7. \A b \in current' : b[2] \in tags'[b[1]]
  BY <1>1, <1>4, <1>6
<1> QED
  BY <1>2, <1>3, <1>4, <1>5, <1>7 DEF Bearing

LEMMA TagMade ==
    ASSUME TagInv, CallsSoundNext, NEW n \in Names, MakeTag(n), UNCHANGED cache
    PROVE  TagInv'
<1>1. NewTag(n) /\ UNCHANGED <<stored, tagged, edits>> /\ edits \in 0 .. MaxEdits
  BY DEF MakeTag, TagInv, TagTypeOK
<1>2. Grown(tags, tags')
  BY <1>1, NewTagGrows DEF TagInv
<1> QED
  BY <1>1, <1>2, NewTagBorne, TableGrows

LEMMA DocStored ==
    ASSUME TagInv, CallsSoundNext, NEW f \in Callers, Ready(f), StoreDoc(f), UNCHANGED cache
    PROVE  TagInv'
<1>1. tags \in Seq(SUBSET Names) /\ call[f] \in Calls(tags) /\ CallSound(tags, call[f])
  BY CallType DEF TagInv, TagTypeOK, TagsSound
<1>2. /\ call[f].doc \in Docs /\ call[f].ids \subseteq IdsIn(tags)
      /\ NamedAsAsked(tags, <<call[f].doc, call[f].ids>>)
  BY <1>1, AllConsumed DEF Ready, Calls
<1>3. stored' \in [Docs -> 0 .. MaxStored]
  <2>1. stored \in [Docs -> 0 .. MaxStored]
    BY DEF TagInv, TagTypeOK
  <2>2. stored[call[f].doc] \in 0 .. MaxStored
    BY <1>2, <2>1
  <2>3. (IF stored[call[f].doc] < MaxStored THEN stored[call[f].doc] + 1 ELSE stored[call[f].doc])
            \in 0 .. MaxStored
    BY <2>2, TagBoundAssumption
  <2>4. stored' = [stored EXCEPT ![call[f].doc] =
                      IF stored[call[f].doc] < MaxStored
                      THEN stored[call[f].doc] + 1 ELSE stored[call[f].doc]]
    BY DEF StoreDoc
  <2> QED
    BY <2>1, <2>3, <2>4
<1>4. tagged' \subseteq Docs \X SUBSET Ids
  BY <1>2 DEF TagInv, TagTypeOK, StoreDoc, Ids, IdsIn
<1>5. TagTypeOK'
  BY <1>3, <1>4 DEF TagInv, TagTypeOK, StoreDoc, CallsSoundNext, Calls, Ids, IdsIn
<1>6. TaggedAsAsked'
  BY <1>2 DEF TagInv, TagsSound, TaggedAsAsked, NamedAsAsked, StoreDoc
<1> QED
  BY <1>5, <1>6 DEF TagInv, TagsSound, CallsSoundNext, StoreDoc

-----------------------------------------------------------------------------
(* Each step keeps the invariant.                                          *)

\* What is used of the invariant in a step of one fiber.
LEMMA StepFacts ==
    ASSUME TagInv, NEW f \in Callers
    PROVE  /\ tags \in Seq(SUBSET Names) /\ Grown(tags, tags)
           /\ call[f] \in Calls(tags) /\ CallSound(tags, call[f])
           /\ ClientOf[f] \in Clients
           /\ cache \in [Clients -> [Names -> IdsIn(tags) \cup {NoId}]]
           /\ \A c \in Clients : Truthful(tags, cache[c])
           /\ faults \in 0 .. MaxFaults /\ clashed \in BOOLEAN
           /\ call[f].names # <<>> => Wanted(f) \in Names
<1>1. call[f] \in Calls(tags)
  BY CallType DEF TagInv
<1>2. call[f].names \in Seq(Names)
  BY <1>1 DEF Calls
<1>3. call[f].names # <<>> => Wanted(f) \in Names
  BY <1>2 DEF Wanted
<1> QED
  BY <1>1, <1>3, ClientAssumption, GrownByNone DEF TagInv, TagTypeOK, TagsSound, Ids, IdsIn

\* A call that changes while Paperless and the caches do not.
LEMMA CallChanges ==
    ASSUME TagInv, NEW f \in Callers, NEW state \in Calls(tags), CallSound(tags, state),
           Becomes(f, state), UNCHANGED <<paperless, cache>>,
           faults' \in 0 .. MaxFaults, clashed' \in BOOLEAN
    PROVE  TagInv'
<1>1. tags' = tags
  BY DEF paperless
<1>2. CallsSoundNext
  BY <1>1, StepFacts, CallsStaySound DEF CallsSoundNext
<1> QED
  BY <1>2, PaperlessUnchanged

LEMMA CallAnswers ==
    ASSUME TagInv, NEW f \in Callers, NEW outcome \in {"done", "failed"}, Answers(f, outcome),
           UNCHANGED <<paperless, cache>>, faults' \in 0 .. MaxFaults, clashed' \in BOOLEAN
    PROVE  TagInv'
<1> DEFINE answered == [call[f] EXCEPT !.pc = outcome]
<1>1. answered \in Calls(tags) /\ CallSound(tags, answered)
  BY StepFacts, AnsweredSound
<1>2. Becomes(f, answered)
  BY DEF Answers
<1> HIDE DEF answered
<1> QED
  BY <1>1, <1>2, CallChanges

LEMMA BeginInv == ASSUME TagInv, NEW f \in Callers, NEW doc \in Docs, UploadDocument(f, doc),
                         UNCHANGED <<paperless, cache, faults, clashed>>
                  PROVE  TagInv'
<1> DEFINE begun == [NoCall EXCEPT !.pc = "tag", !.doc = doc, !.names = TagsOf[doc]]
<1>1. begun \in Calls(tags) /\ CallSound(tags, begun)
  BY StepFacts, BegunSound
<1>2. Becomes(f, begun)
  BY DEF UploadDocument
<1> HIDE DEF begun
<1> QED
  BY <1>1, <1>2, CallChanges, StepFacts

LEMMA ReleaseInv == ASSUME TagInv, NEW f \in Callers, Becomes(f, NoCall),
                           UNCHANGED <<paperless, cache, clashed>>, faults' \in 0 .. MaxFaults
                    PROVE  TagInv'
BY CallChanges, StepFacts, NoCallSound

LEMMA UseCachedInv == ASSUME TagInv, NEW f \in Callers, UseCached(f) PROVE TagInv'
<1> DEFINE id == cache[ClientOf[f]][Wanted(f)]
<1>1. /\ id \in IdsIn(tags) /\ Wanted(f) \in tags[id]
      /\ call[f].pc = "tag" /\ call[f].names # <<>> /\ Becomes(f, Resolved(f, id))
  BY StepFacts DEF UseCached, Resolving, Truthful
<1> HIDE DEF id
<1>2. Resolved(f, id) \in Calls(tags) /\ CallSound(tags, Resolved(f, id))
  BY <1>1, StepFacts, ResolvedSound DEF Resolved, Wanted
<1> QED
  BY <1>1, <1>2, StepFacts, CallChanges DEF UseCached

\* What has been resolved, and what has not, is a matter of these three parts of a call.
LEMMA SameProgress ==
    ASSUME NEW table, NEW state, NEW other,
           other.doc = state.doc, other.names = state.names, other.ids = state.ids,
           RestOfNames(state), TagsOfConsumed(table, state)
    PROVE  RestOfNames(other) /\ TagsOfConsumed(table, other)
<1>1. Consumed(other) = Consumed(state)
  BY DEF Consumed
<1>2. RestOfNames(other)
  BY <1>1 DEF RestOfNames
<1>3. TagsOfConsumed(table, other)
  BY <1>1 DEF TagsOfConsumed
<1> QED
  BY <1>2, <1>3

LEMMA AskForTagInv == ASSUME TagInv, NEW f \in Callers, AskForTag(f) PROVE TagInv'
<1> DEFINE asking == [call[f] EXCEPT !.pc = "get", !.known = cache[ClientOf[f]]]
<1>1. call[f].pc = "tag" /\ call[f].names # <<>> /\ Becomes(f, asking)
  BY DEF AskForTag, Resolving
<1>2. /\ asking \in Calls(tags)
      /\ asking.pc = "get" /\ asking.known = cache[ClientOf[f]] /\ asking.doc = call[f].doc
      /\ asking.names = call[f].names /\ asking.ids = call[f].ids
  BY StepFacts DEF Calls, PCs
<1> HIDE DEF asking
<1>3. /\ call[f].doc \in Docs /\ RestOfNames(call[f]) /\ TagsOfConsumed(tags, call[f])
      /\ Truthful(tags, asking.known)
  BY <1>1, <1>2, StepFacts DEF CallSound
<1>4. RestOfNames(asking) /\ TagsOfConsumed(tags, asking)
  BY <1>2, <1>3, SameProgress
<1>5. CallSound(tags, asking)
  BY <1>1, <1>2, <1>3, <1>4 DEF CallSound
<1> QED
  BY <1>1, <1>2, <1>5, StepFacts, CallChanges DEF AskForTag

\* A call that has found its tag, in a table in which the tag bears the name.
LEMMA FoundSound ==
    ASSUME NEW table, NEW state \in Calls(table), CallSound(table, state),
           state.pc \in {"get", "post"},
           NEW id \in IdsIn(table), Head(state.names) \in table[id], id # NoId
    PROVE  LET found == [state EXCEPT !.pc = "remember", !.found = id] IN
             found \in Calls(table) /\ CallSound(table, found)
<1> DEFINE found == [state EXCEPT !.pc = "remember", !.found = id]
<1>1. /\ found \in Calls(table)
      /\ found.pc = "remember" /\ found.found = id /\ found.known = state.known
      /\ found.doc = state.doc /\ found.names = state.names /\ found.ids = state.ids
  BY DEF Calls, PCs
<1> HIDE DEF found
<1>2. /\ state.doc \in Docs /\ RestOfNames(state) /\ TagsOfConsumed(table, state)
      /\ Truthful(table, state.known) /\ state.names # <<>>
  BY DEF CallSound
<1>3. RestOfNames(found) /\ TagsOfConsumed(table, found)
  BY <1>1, <1>2, SameProgress
<1>4. CallSound(table, found)
  BY <1>1, <1>2, <1>3 DEF CallSound
<1> QED
  BY <1>1, <1>4 DEF found

LEMMA GetTagInv == ASSUME TagInv, NEW f \in Callers, GetTag(f) PROVE TagInv'
<1>1. CASE IdsOf(Wanted(f)) = {}
  <2> DEFINE posting == [call[f] EXCEPT !.pc = "post"]
  <2>1. Becomes(f, posting)
    BY <1>1 DEF GetTag, Answers
  <2>2. /\ posting \in Calls(tags)
        /\ posting.pc = "post" /\ posting.known = call[f].known /\ posting.doc = call[f].doc
        /\ posting.names = call[f].names /\ posting.ids = call[f].ids
    BY StepFacts DEF Calls, PCs
  <2> HIDE DEF posting
  <2>3. /\ call[f].doc \in Docs /\ RestOfNames(call[f]) /\ TagsOfConsumed(tags, call[f])
        /\ Truthful(tags, call[f].known) /\ call[f].names # <<>>
    BY StepFacts DEF GetTag, CallSound
  <2>4. RestOfNames(posting) /\ TagsOfConsumed(tags, posting)
    BY <2>2, <2>3, SameProgress
  <2>5. CallSound(tags, posting)
    BY <2>2, <2>3, <2>4 DEF CallSound
  <2> QED
    BY <2>1, <2>2, <2>5, StepFacts, CallChanges DEF GetTag
<1>2. ASSUME NEW id \in IdsOf(Wanted(f)),
             Becomes(f, [call[f] EXCEPT !.pc = "remember", !.found = id])
      PROVE  TagInv'
  <2> DEFINE found == [call[f] EXCEPT !.pc = "remember", !.found = id]
  <2>1. id \in IdsIn(tags) /\ Wanted(f) \in tags[id] /\ id # NoId
    BY BearingNow DEF IdsOf, Bearing, Ids, IdsIn, NoId
  <2>2. found \in Calls(tags) /\ CallSound(tags, found)
    BY <2>1, StepFacts, FoundSound DEF GetTag, Wanted
  <2>3. Becomes(f, found)
    BY <1>2
  <2> HIDE DEF found
  <2> QED
    BY <2>2, <2>3, StepFacts, CallChanges DEF GetTag
<1> QED
  BY <1>1, <1>2 DEF GetTag

LEMMA PostTagInv == ASSUME TagInv, NEW f \in Callers, PostTag(f) PROVE TagInv'
<1>1. CASE IdsOf(Wanted(f)) = {}
  <2> DEFINE id    == Len(tags) + 1
             found == [call[f] EXCEPT !.pc = "remember", !.found = id]
  <2>1. /\ call[f].pc = "post" /\ MakeTag(Wanted(f)) /\ Becomes(f, found)
        /\ UNCHANGED <<cache, faults, clashed>>
    BY <1>1 DEF PostTag
  <2>2. Wanted(f) \in Names
    BY <2>1, StepFacts DEF CallSound
  <2>3. /\ Grown(tags, tags') /\ Wanted(f) \in tags'[id]
        /\ id \in IdsIn(tags') /\ id # NoId
    BY <2>1, <2>2, NewTagGrows DEF TagInv, IdsIn, NoId, MakeTag
  <2>4. call[f] \in Calls(tags') /\ CallSound(tags', call[f])
    BY <2>3, StepFacts, CallStaysTyped, CallStaysSound
  <2> HIDE DEF id
  <2>5. found \in Calls(tags') /\ CallSound(tags', found)
    BY <2>1, <2>3, <2>4, FoundSound DEF Wanted
  <2> HIDE DEF found
  <2>6. CallsSoundNext
    BY <2>1, <2>3, <2>5, StepFacts, CallsStaySound DEF CallsSoundNext
  <2> QED
    BY <2>1, <2>2, <2>6, TagMade
<1>2. CASE IdsOf(Wanted(f)) # {}
  BY <1>2, StepFacts, CallAnswers DEF PostTag
<1> QED
  BY <1>1, <1>2

LEMMA RememberInv == ASSUME TagInv, NEW f \in Callers, Remember(f) PROVE TagInv'
<1> DEFINE id == call[f].found
           n  == Wanted(f)
           known == [call[f].known EXCEPT ![n] = id]
<1>1. /\ call[f].pc = "remember" /\ call[f].names # <<>> /\ n \in Names
      /\ id \in IdsIn(tags) /\ n \in tags[id]
      /\ call[f].known \in [Names -> IdsIn(tags) \cup {NoId}] /\ Truthful(tags, call[f].known)
  BY StepFacts DEF Remember, CallSound, Calls, Wanted
<1>2. known \in [Names -> IdsIn(tags) \cup {NoId}] /\ Truthful(tags, known)
  BY <1>1 DEF Truthful
<1>3. /\ UNCHANGED <<paperless, faults, clashed>>
      /\ cache' = [cache EXCEPT ![ClientOf[f]] = known]
      /\ Becomes(f, Resolved(f, id))
  BY DEF Remember
<1>4. n = Head(call[f].names)
  BY DEF Wanted
<1> HIDE DEF known, id, n
<1>5. Resolved(f, id) \in Calls(tags) /\ CallSound(tags, Resolved(f, id))
  BY <1>1, <1>4, StepFacts, ResolvedSound DEF Resolved
<1>6. tags' = tags /\ Grown(tags, tags')
  BY <1>3, StepFacts DEF paperless
<1>7. CallsSoundNext
  BY <1>3, <1>5, <1>6, StepFacts, CallsStaySound DEF CallsSoundNext
<1>8. /\ cache' \in [Clients -> [Names -> IdsIn(tags) \cup {NoId}]]
      /\ \A c \in Clients : Truthful(tags, cache'[c])
  BY <1>2, <1>3, StepFacts
<1>9. TagTypeOK'
  BY <1>3, <1>7, <1>8 DEF TagInv, TagTypeOK, CallsSoundNext, Calls, paperless, Ids, IdsIn
<1>10. TaggedAsAsked'
  BY <1>3 DEF TagInv, TagsSound, TaggedAsAsked, paperless
<1>11. current' = current
  BY <1>3 DEF paperless
<1> QED
  BY <1>6, <1>7, <1>8, <1>9, <1>10, <1>11 DEF TagInv, TagsSound, CallsSoundNext

LEMMA PostDocumentInv == ASSUME TagInv, NEW f \in Callers, PostDocument(f) PROVE TagInv'
<1>1. CASE StoreDoc(f) /\ Answers(f, "done")
  <2> DEFINE answered == [call[f] EXCEPT !.pc = "done"]
  <2>1. answered \in Calls(tags) /\ CallSound(tags, answered)
    BY StepFacts, AnsweredSound
  <2>2. Becomes(f, answered) /\ tags' = tags
    BY <1>1 DEF Answers, StoreDoc
  <2> HIDE DEF answered
  <2>3. CallsSoundNext
    BY <2>1, <2>2, StepFacts, CallsStaySound DEF CallsSoundNext, PostDocument
  <2> QED
    BY <1>1, <2>3, DocStored DEF PostDocument
<1>2. CASE UNCHANGED paperless /\ Answers(f, "failed")
  BY <1>2, StepFacts, CallAnswers DEF PostDocument
<1> QED
  BY <1>1, <1>2 DEF PostDocument

LEMMA UploadStepInv == ASSUME TagInv, NEW f \in Callers, UploadStep(f) PROVE TagInv'
BY UseCachedInv, AskForTagInv, GetTagInv, PostTagInv, RememberInv, PostDocumentInv DEF UploadStep

LEMMA RequestFailsInv == ASSUME TagInv, NEW f \in Callers, RequestFails(f) PROVE TagInv'
<1>1. /\ faults' \in 0 .. MaxFaults /\ UNCHANGED <<cache, clashed>>
      /\ UNCHANGED call \/ Answers(f, "failed")
  BY StepFacts, TagBoundAssumption DEF RequestFails
<1> DEFINE failed == [call[f] EXCEPT !.pc = "failed"]
<1>2. failed \in Calls(tags) /\ CallSound(tags, failed)
  BY StepFacts, AnsweredSound
<1>3. UNCHANGED call \/ Becomes(f, failed)
  BY <1>1 DEF Answers
<1> HIDE DEF failed
<1>4. ASSUME Grown(tags, tags') PROVE CallsSoundNext
  <2>1. failed \in Calls(tags') /\ CallSound(tags', failed)
    BY <1>2, <1>4, CallStaysTyped, CallStaysSound
  <2> QED
    BY <1>1, <1>3, <1>4, <2>1, StepFacts, CallsStaySound, CallsUnchangedSound DEF CallsSoundNext
<1>5. CASE UNCHANGED paperless
  <2>1. tags' = tags
    BY <1>5 DEF paperless
  <2> QED
    BY <1>1, <1>4, <1>5, <2>1, StepFacts, PaperlessUnchanged
<1>6. CASE call[f].pc = "post" /\ MakeTag(Wanted(f))
  <2>1. Wanted(f) \in Names
    BY <1>6, StepFacts DEF CallSound
  <2>2. Grown(tags, tags')
    BY <1>6, <2>1, NewTagGrows DEF TagInv, MakeTag
  <2> QED
    BY <1>1, <1>4, <1>6, <2>1, <2>2, TagMade
<1>7. CASE Ready(f) /\ StoreDoc(f)
  <2>1. tags' = tags
    BY <1>7 DEF StoreDoc
  <2> QED
    BY <1>1, <1>4, <1>7, <2>1, StepFacts, DocStored
<1> QED
  BY <1>5, <1>6, <1>7 DEF RequestFails

LEMMA EditTagInv == ASSUME TagInv, EditTag PROVE TagInv'
<1>1. /\ UNCHANGED <<stored, tagged, cache, call, faults, clashed>>
      /\ edits' \in 0 .. MaxEdits
  BY TagBoundAssumption DEF EditTag, TagInv, TagTypeOK
<1>2. /\ tags \in Seq(SUBSET Names) /\ Grown(tags, tags)
      /\ current \subseteq (IdsIn(tags) \ deleted) \X Names /\ deleted \subseteq IdsIn(tags)
      /\ \A b \in current : b[2] \in tags[b[1]]
  BY BearingNow, GrownByNone DEF Bearing, TagInv, TagTypeOK
<1>3. ASSUME Grown(tags, tags'), Bearing(tags', current', deleted') PROVE TagInv'
  <2>1. faults \in 0 .. MaxFaults /\ clashed \in BOOLEAN
    BY DEF TagInv, TagTypeOK
  <2>2. CallsSoundNext
    BY <1>1, <1>3, <2>1, CallsUnchangedSound DEF CallsSoundNext
  <2> QED
    BY <1>1, <1>3, <2>2, TableGrows
<1>4. ASSUME NEW n \in Names, NewTag(n) PROVE TagInv'
  <2>1. Grown(tags, tags')
    BY <1>4, NewTagGrows DEF TagInv
  <2> QED
    BY <1>3, <1>4, <2>1, NewTagBorne
<1>5. ASSUME NEW i \in Ids \ deleted, DeleteTag(i) PROVE TagInv'
  <2>1. tags' = tags /\ deleted' = deleted \cup {i} /\ current' = Nameless(i) /\ i \in IdsIn(tags)
    BY <1>5 DEF DeleteTag, Ids, IdsIn
  <2>2. Bearing(tags, current', deleted')
    BY <1>2, <2>1 DEF Nameless, Bearing
  <2> QED
    BY <1>2, <1>3, <2>1, <2>2
<1>6. ASSUME NEW i \in Ids \ deleted, RenameTag(i) PROVE TagInv'
  <2>1. deleted' = deleted /\ i \in IdsIn(tags) /\ i \notin deleted /\ Nameless(i) \subseteq current
    BY <1>6 DEF RenameTag, Nameless, Ids, IdsIn
  <2>2. CASE current' = Nameless(i) /\ UNCHANGED tags
    <3>1. Bearing(tags, current', deleted')
      BY <1>2, <2>1, <2>2 DEF Bearing
    <3> QED
      BY <1>2, <1>3, <2>2, <3>1
  <2>3. ASSUME NEW n \in Names, current' = Nameless(i) \cup {<<i, n>>},
               tags' = [tags EXCEPT ![i] = @ \cup {n}]
        PROVE  TagInv'
    <3>1. Grown(tags, tags') /\ Len(tags') = Len(tags)
      BY <1>2, <2>1, <2>3, GrownInPlace
    <3>2. IdsIn(tags') = IdsIn(tags)
      BY <3>1 DEF IdsIn
    <3>3. \A k \in IdsIn(tags) : tags[k] \subseteq tags'[k]
      BY <3>1 DEF Grown
    <3>4. n \in tags'[i]
      BY <1>2, <2>1, <2>3 DEF IdsIn
    <3>5. \A b \in current : b[2] \in tags'[b[1]]
      BY <1>2, <3>3
    <3>6. \A b \in current' : b[2] \in tags'[b[1]]
      BY <2>1, <2>3, <3>4, <3>5
    <3>7. current' \subseteq (IdsIn(tags') \ deleted') \X Names /\ deleted' \subseteq IdsIn(tags')
      <4>1. <<i, n>> \in (IdsIn(tags) \ deleted) \X Names
        BY <2>1, <2>3
      <4>2. Nameless(i) \subseteq (IdsIn(tags) \ deleted) \X Names
        BY <1>2, <2>1
      <4> QED
        BY <1>2, <2>1, <2>3, <3>2, <4>1, <4>2
    <3>8. Bearing(tags', current', deleted')
      BY <3>6, <3>7 DEF Bearing
    <3> QED
      BY <1>3, <3>1, <3>8
  <2> QED
    BY <1>6, <2>2, <2>3 DEF RenameTag
<1> QED
  BY <1>4, <1>5, <1>6 DEF EditTag

LEMMA RestartClientInv == ASSUME TagInv, NEW c \in Clients, RestartClient(c) PROVE TagInv'
<1>1. /\ UNCHANGED <<paperless, clashed>> /\ faults' \in 0 .. MaxFaults
      /\ cache' = [cache EXCEPT ![c] = NothingCached]
      /\ call' = [f \in Callers |-> IF ClientOf[f] = c THEN NoCall ELSE call[f]]
  BY TagBoundAssumption DEF TagInv, TagTypeOK, RestartClient
<1>2. tags' = tags /\ tags \in Seq(SUBSET Names)
  BY <1>1 DEF paperless, TagInv, TagTypeOK
<1>3. /\ cache' \in [Clients -> [Names -> IdsIn(tags) \cup {NoId}]]
      /\ \A d \in Clients : Truthful(tags, cache'[d])
  BY <1>1 DEF TagInv, TagTypeOK, TagsSound, Truthful, NothingCached, Ids, IdsIn
<1>4. /\ call' \in [Callers -> Calls(tags)]
      /\ \A f \in Callers : CallSound(tags, call'[f])
  BY <1>1, <1>2, CallType, NoCallSound DEF TagInv, TagsSound
<1>5. TagTypeOK'
  BY <1>1, <1>2, <1>3, <1>4 DEF TagInv, TagTypeOK, Calls, paperless, Ids, IdsIn
<1>6. TaggedAsAsked'
  BY <1>1 DEF TagInv, TagsSound, TaggedAsAsked, paperless
<1>7. current' = current
  BY <1>1 DEF paperless
<1> QED
  BY <1>2, <1>3, <1>4, <1>5, <1>6, <1>7 DEF TagInv, TagsSound

-----------------------------------------------------------------------------
(* The theorems.                                                           *)

LEMMA InitTagInv == TagInit => TagInv
<1> SUFFICES ASSUME TagInit PROVE TagInv
  OBVIOUS
<1>1. tags = <<>> /\ tags \in Seq(SUBSET Names)
  BY DEF TagInit
<1>2. NoCall \in Calls(tags) /\ CallSound(tags, NoCall)
  BY <1>1, NoCallSound
<1>3. call \in [Callers -> Calls(tags)]
  BY <1>2 DEF TagInit
<1>4. cache \in [Clients -> [Names -> Ids \cup {NoId}]]
  BY DEF TagInit, NothingCached
<1>5. TagTypeOK
  <2>1. tagged \subseteq Docs \X SUBSET Ids
    BY DEF TagInit
  <2>2. stored \in [Docs -> 0 .. MaxStored]
    BY TagBoundAssumption DEF TagInit
  <2>3. faults \in 0 .. MaxFaults
    BY TagBoundAssumption DEF TagInit
  <2>4. clashed \in BOOLEAN
    BY DEF TagInit
  <2>5. tags \in Seq(SUBSET Names) /\ edits \in 0 .. MaxEdits
    BY TagBoundAssumption DEF TagInit
  <2>6. current \subseteq (Ids \ deleted) \X Names /\ deleted \subseteq Ids
    BY DEF TagInit
  <2> QED
    BY <1>1, <1>3, <1>4, <2>1, <2>2, <2>3, <2>4, <2>5, <2>6 DEF TagTypeOK, Calls, Ids, IdsIn
<1>6. TagsSound
  BY <1>2 DEF TagInit, TagsSound, TaggedAsAsked, Truthful, NothingCached
<1> QED
  BY <1>5, <1>6 DEF TagInv

LEMMA NextTagInv == TagInv /\ [TagNext]_tagVars => TagInv'
<1> SUFFICES ASSUME TagInv, [TagNext]_tagVars PROVE TagInv'
  OBVIOUS
<1>1. ASSUME NEW f \in Callers, Begin(f) PROVE TagInv'
  BY <1>1, BeginInv DEF Begin
<1>2. ASSUME NEW f \in Callers, UploadStep(f) \/ RequestFails(f) PROVE TagInv'
  BY <1>2, UploadStepInv, RequestFailsInv
<1>3. ASSUME NEW f \in Callers, Release(f) PROVE TagInv'
  BY <1>3, ReleaseInv, StepFacts DEF Release
<1>4. CASE EditTag \/ \E c \in Clients : RestartClient(c)
  BY <1>4, EditTagInv, RestartClientInv
<1>5. CASE UNCHANGED tagVars
  <2>1. UNCHANGED <<tags, current, deleted, stored, tagged, edits, cache, call, faults, clashed>>
    BY <1>5 DEF tagVars, paperless
  <2>2. TagTypeOK'
    BY <2>1 DEF TagInv, TagTypeOK, Ids
  <2> QED
    BY <2>1, <2>2 DEF TagInv, TagsSound, TaggedAsAsked
<1> QED
  BY <1>1, <1>2, <1>3, <1>4, <1>5 DEF TagNext

\* Every state of the client and of Paperless is one of those declared.
THEOREM TagsTyped == TagSpec => []TagTypeOK
<1>1. TagInv => TagTypeOK
  BY DEF TagInv
<1> QED
  BY <1>1, InitTagInv, NextTagInv, PTL DEF TagSpec

(***************************************************************************)
(* An id a client knows for a name belongs to a tag that has borne it,     *)
(* though a cache is written back as it was before two requests.           *)
(***************************************************************************)
THEOREM CachesAreTrue == TagSpec => []CacheTrue
<1>1. TagInv => CacheTrue
  BY DEF TagInv, TagsSound, Truthful, CacheTrue
<1> QED
  BY <1>1, InitTagInv, NextTagInv, PTL DEF TagSpec

(***************************************************************************)
(* A document is stored with a tag for each name it was uploaded with and  *)
(* with no other, whatever is made, renamed, deleted, lost from the cache  *)
(* or retried while its names are resolved.                                *)
(***************************************************************************)
THEOREM StoredWithItsTags == TagSpec => []TaggedAsAsked
<1>1. TagInv => TaggedAsAsked
  BY DEF TagInv, TagsSound
<1> QED
  BY <1>1, InitTagInv, NextTagInv, PTL DEF TagSpec

-----------------------------------------------------------------------------
(* Failed uploads.                                                         *)

\* A call of f that has not failed, or one that fails with a cause.
LEMMA BecomesFailed ==
    ASSUME TagTypeOK, FailuresHaveCauses, NEW f \in Callers, NEW state, Becomes(f, state),
           faults' \in Nat, faults' >= faults, clashed => clashed', deleted \subseteq deleted',
           state.pc = "failed" => faults' > 0 \/ clashed' \/ deleted' # {}
    PROVE  FailuresHaveCauses'
<1>1. \A g \in Callers : call'[g] = IF g = f THEN state ELSE call[g]
  BY DEF TagTypeOK, Becomes
<1>2. faults \in Nat
  BY TagBoundAssumption DEF TagTypeOK
<1> QED
  BY <1>1, <1>2 DEF FailuresHaveCauses

LEMMA UploadStepFailures ==
    ASSUME TagTypeOK, FailuresHaveCauses, NEW f \in Callers, UploadStep(f)
    PROVE  FailuresHaveCauses'
<1>1. faults \in Nat /\ faults' = faults /\ faults' >= faults
  <2>1. faults \in Nat
    BY TagBoundAssumption DEF TagTypeOK
  <2>2. faults' = faults
    BY Zenon DEF UploadStep, UseCached, AskForTag, GetTag, PostTag, Remember, PostDocument
  <2> QED
    BY <2>1, <2>2
<1>2. deleted' = deleted /\ (clashed => clashed')
  <2>1. CASE UseCached(f) \/ AskForTag(f) \/ GetTag(f) \/ Remember(f)
    <3>1. UNCHANGED <<paperless, clashed>>
      BY <2>1 DEF UseCached, AskForTag, GetTag, Remember
    <3> QED
      BY <3>1 DEF paperless
  <2>2. CASE PostTag(f)
    <3>1. (UNCHANGED clashed /\ MakeTag(Wanted(f))) \/ (clashed' /\ UNCHANGED paperless)
      BY <2>2 DEF PostTag
    <3> QED
      BY <3>1 DEF MakeTag, NewTag, paperless
  <2>3. CASE PostDocument(f)
    <3>1. UNCHANGED clashed /\ (StoreDoc(f) \/ UNCHANGED paperless)
      BY <2>3 DEF PostDocument
    <3> QED
      BY <3>1 DEF StoreDoc, paperless
  <2> QED
    BY <2>1, <2>2, <2>3 DEF UploadStep
<1>3. call[f] \in Calls(tags)
  BY CallType
<1>4. ASSUME NEW state, Becomes(f, state), state.pc # "failed" PROVE FailuresHaveCauses'
  BY <1>1, <1>2, <1>4, BecomesFailed
<1>5. ASSUME NEW id, Becomes(f, Resolved(f, id)) PROVE FailuresHaveCauses'
  <2>1. Resolved(f, id).pc = "tag"
    BY <1>3 DEF Resolved, Calls
  <2> QED
    BY <1>4, <1>5, <2>1
<1>6. ASSUME NEW id, Becomes(f, [call[f] EXCEPT !.pc = "remember", !.found = id])
      PROVE  FailuresHaveCauses'
  <2>1. [call[f] EXCEPT !.pc = "remember", !.found = id].pc = "remember"
    BY <1>3 DEF Calls
  <2> QED
    BY <1>4, <1>6, <2>1
<1>7. ASSUME NEW outcome \in {"post", "done"}, Answers(f, outcome) PROVE FailuresHaveCauses'
  <2>1. [call[f] EXCEPT !.pc = outcome].pc = outcome
    BY <1>3 DEF Calls
  <2> QED
    BY <1>4, <1>7, <2>1 DEF Answers
<1>8. ASSUME Answers(f, "failed"), clashed' \/ deleted # {} PROVE FailuresHaveCauses'
  BY <1>1, <1>2, <1>8, BecomesFailed DEF Answers
<1>9. CASE UseCached(f) \/ Remember(f)
  BY <1>5, <1>9 DEF UseCached, Remember
<1>10. CASE AskForTag(f)
  <2>1. [call[f] EXCEPT !.pc = "get", !.known = cache[ClientOf[f]]].pc = "get"
    BY <1>3 DEF Calls
  <2> QED
    BY <1>4, <1>10, <2>1 DEF AskForTag
<1>11. CASE GetTag(f)
  BY <1>6, <1>7, <1>11 DEF GetTag
<1>12. CASE PostTag(f)
  BY <1>6, <1>8, <1>12 DEF PostTag
<1>13. CASE PostDocument(f)
  BY <1>7, <1>8, <1>13 DEF PostDocument
<1> QED
  BY <1>9, <1>10, <1>11, <1>12, <1>13 DEF UploadStep

LEMMA RequestFailsFailures ==
    ASSUME TagTypeOK, NEW f \in Callers, RequestFails(f)
    PROVE  FailuresHaveCauses'
BY TagBoundAssumption DEF TagTypeOK, RequestFails, FailuresHaveCauses

LEMMA OthersFailures ==
    ASSUME TagTypeOK, FailuresHaveCauses,
           \/ \E f \in Callers : Begin(f) \/ Release(f)
           \/ EditTag
           \/ \E c \in Clients : RestartClient(c)
           \/ UNCHANGED tagVars
    PROVE  FailuresHaveCauses'
<1>1. faults \in Nat
  BY TagBoundAssumption DEF TagTypeOK
<1>2. ASSUME NEW f \in Callers, Begin(f) PROVE FailuresHaveCauses'
  <2>1. PICK state : Becomes(f, state) /\ state.pc = "tag"
    <3>1. \A doc : [NoCall EXCEPT !.pc = "tag", !.doc = doc, !.names = TagsOf[doc]].pc = "tag"
      BY DEF NoCall
    <3> QED
      BY <1>2, <3>1 DEF Begin, UploadDocument
  <2>2. UNCHANGED <<deleted, faults, clashed>>
    BY <1>2 DEF Begin, paperless
  <2> QED
    BY <1>1, <2>1, <2>2, BecomesFailed
<1>3. ASSUME NEW f \in Callers, Release(f) PROVE FailuresHaveCauses'
  BY <1>1, <1>3, BecomesFailed DEF Release, NoCall, paperless
<1>4. CASE EditTag
  BY <1>4 DEF EditTag, NewTag, DeleteTag, RenameTag, FailuresHaveCauses
<1>5. CASE \E c \in Clients : RestartClient(c)
  BY <1>1, <1>5 DEF RestartClient, FailuresHaveCauses
<1>6. CASE UNCHANGED tagVars
  BY <1>6 DEF tagVars, paperless, FailuresHaveCauses
<1> QED
  BY <1>2, <1>3, <1>4, <1>5, <1>6

LEMMA NextFailures == TagInv /\ FailuresHaveCauses /\ [TagNext]_tagVars => FailuresHaveCauses'
BY UploadStepFailures, RequestFailsFailures, OthersFailures DEF TagInv, TagNext

(***************************************************************************)
(* An upload fails only if a request failed, two fibers made a tag at      *)
(* once, or a tag the client still has in its cache was deleted.           *)
(***************************************************************************)
THEOREM FailuresAreExplained == TagSpec => []FailuresHaveCauses
<1>1. TagInit => FailuresHaveCauses
  BY DEF TagInit, FailuresHaveCauses, NoCall
<1> QED
  BY <1>1, InitTagInv, NextTagInv, NextFailures, PTL DEF TagSpec
=============================================================================
