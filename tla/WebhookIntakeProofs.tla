------------------------- MODULE WebhookIntakeProofs -------------------------
(***************************************************************************)
(* Theorems about the processing of webhooks, for any messages, payloads   *)
(* and limits, any interleaving of their fibers and any failures.          *)
(***************************************************************************)
EXTENDS WebhookIntake, PaperlessClientProofs

-----------------------------------------------------------------------------
(* Payloads and the records of messages.                                   *)

States == [stage : Stages, payload : Payloads, next : Nat \ {0},
           saved : BOOLEAN, answer : Outcomes]

LEMMA AttachmentsCut ==
    ASSUME NEW p \in Payloads
    PROVE  /\ Attachments(p) \in Seq(Kinds)
           /\ Len(Attachments(p)) \in Nat
           /\ DOMAIN Attachments(p) = 1 .. Len(Attachments(p))
           /\ DOMAIN Attachments(p) \subseteq DOMAIN p.attachments
           /\ \A i \in DOMAIN Attachments(p) : Attachments(p)[i] = p.attachments[i]
<1> DEFINE n == IF Len(p.attachments) < MaxAttachments THEN Len(p.attachments) ELSE MaxAttachments
<1>1. p.attachments \in Seq(Kinds)
  BY PayloadAssumption
<1>2. n \in 0 .. Len(p.attachments) /\ Len(p.attachments) \in Nat
  BY <1>1, LimitAssumption
<1>3. Attachments(p) = SubSeq(p.attachments, 1, n)
  BY DEF Attachments
<1> HIDE DEF n
<1>4. /\ Attachments(p) \in Seq(Kinds)
      /\ Len(Attachments(p)) = n
      /\ \A i \in 1 .. n : Attachments(p)[i] = p.attachments[i]
  BY <1>1, <1>2, <1>3
<1> QED
  BY <1>1, <1>2, <1>4

LEMMA RecordOf ==
    ASSUME TypeOK, NEW m \in Messages
    PROVE  message[m] \in States /\ Payload(m) \in Payloads
BY DEF TypeOK, States, Payload

\* The documents of a message are attachments with a place in Paperless.
LEMMA DocumentsOf ==
    ASSUME TypeOK, NEW m \in Messages
    PROVE  /\ Documents(m) \subseteq 1 .. Len(Attachments(Payload(m)))
           /\ Documents(m) \subseteq DOMAIN Payload(m).attachments
           /\ DOMAIN Payload(m).attachments \subseteq Nat \ {0}
           /\ \A i \in DOMAIN Payload(m).attachments :
                  DocOf(m, i) \in Docs /\ stored[DocOf(m, i)] \in Nat
<1>1. Payload(m) \in Payloads
  BY RecordOf
<1>2. Payload(m).attachments \in Seq(Kinds)
  BY <1>1, PayloadAssumption
<1>3. \A i \in DOMAIN Payload(m).attachments : DocOf(m, i) \in Docs
  BY <1>1, DocOfAssumption
<1>4. \A d \in Docs : stored[d] \in Nat
  BY TagBoundAssumption DEF TypeOK, TagTypeOK
<1>5. Documents(m) \subseteq DOMAIN Attachments(Payload(m))
  BY DEF Documents
<1> QED
  BY <1>1, <1>2, <1>3, <1>4, <1>5, AttachmentsCut

LEMMA UnsentType == Unsent \in States
<1>1. (CHOOSE p \in Payloads : TRUE) \in Payloads
  BY PayloadAssumption
<1> QED
  BY <1>1 DEF Unsent, States, Stages, Outcomes, Replies

\* A message that goes to another stage keeps the rest.
LEMMA ToRecord ==
    ASSUME TypeOK, NEW m \in Messages, NEW stage \in Stages
    PROVE  /\ To(m, stage) \in States
           /\ To(m, stage).stage = stage
           /\ To(m, stage).payload = Payload(m)
           /\ To(m, stage).next = message[m].next
           /\ To(m, stage).saved = message[m].saved
           /\ To(m, stage).answer = message[m].answer
BY RecordOf DEF To, States, Payload

LEMMA WillReplyRecord ==
    ASSUME TypeOK, NEW m \in Messages, NEW answer \in Outcomes
    PROVE  /\ WillReply(m, answer) \in States
           /\ WillReply(m, answer).stage = "reply"
           /\ WillReply(m, answer).payload = Payload(m)
           /\ WillReply(m, answer).saved = message[m].saved
           /\ WillReply(m, answer).answer = answer
BY RecordOf DEF WillReply, To, States, Stages, Payload

LEMMA DeadRecord ==
    ASSUME TypeOK, NEW m \in Messages
    PROVE  /\ Dead(m) \in States
           /\ Dead(m).stage = "over"
           /\ Dead(m).payload = Payload(m)
BY RecordOf DEF Dead, To, States, Stages, Payload

LEMMA NextAttachmentRecord ==
    ASSUME TypeOK, NEW m \in Messages
    PROVE  /\ NextAttachment(m) \in States
           /\ NextAttachment(m).stage = "attachment"
           /\ NextAttachment(m).payload = Payload(m)
           /\ NextAttachment(m).next = message[m].next + 1
           /\ NextAttachment(m).saved = message[m].saved
<1>1. message[m] \in States /\ message[m].next + 1 \in Nat \ {0}
  BY RecordOf DEF States
<1>2. To(m, "attachment").next = message[m].next /\ To(m, "attachment") \in States
  BY ToRecord DEF Stages
<1>3. NextAttachment(m) = [To(m, "attachment") EXCEPT !.next = message[m].next + 1]
  BY <1>2 DEF NextAttachment
<1> QED
  BY <1>1, <1>3 DEF To, States, Stages, Payload

LEMMA GoesTo ==
    ASSUME TypeOK, NEW m \in Messages, NEW state \in States, Goes(m, state)
    PROVE  /\ message' \in [Messages -> States]
           /\ message'[m] = state
           /\ \A g \in Messages : g # m => message'[g] = message[g]
BY DEF TypeOK, States, Goes

-----------------------------------------------------------------------------
(* The inductive invariant, message by message.                            *)

Early == {"unsent", "refused", "authorize", "validate"}
Uploading == {"attachment", "uploading"}

\* Nothing is stored of any payload the message may yet have.
Fresh(m) == \A p \in Payloads : \A i \in DOMAIN p.attachments : stored[DocOf(m, i)] = 0

\* A fiber is in an upload exactly while it waits for one, of the attachment at hand.
CallMatches(m) ==
    /\ At(m, "uploading") => /\ call[m].pc # "idle"
                             /\ call[m].doc = DocOf(m, message[m].next)
                             /\ message[m].next \in Documents(m)
    /\ ~At(m, "uploading") => call[m].pc = "idle"

\* What is stored of a message that is in a stage of its uploads.
StoredSoFar(m) ==
    /\ Payload(m).source = "user" /\ ~BadReference(Payload(m))
    /\ \A j \in Documents(m) : j < message[m].next => j \in StoredOf(m)
    /\ \A i \in StoredOf(m) : i < message[m].next \/ (At(m, "uploading") /\ i = message[m].next)
    /\ call[m].pc = "done" => message[m].next \in StoredOf(m)

StoredPrefix(m) ==
    /\ StoredOf(m) \subseteq Documents(m)
    /\ StoredOf(m) # {} => Payload(m).source = "user" /\ ~BadReference(Payload(m))
    /\ \A i \in StoredOf(m) : \A j \in Documents(m) : j < i => j \in StoredOf(m)

StoredMatches(m) ==
    /\ At(m, "unsent") => Fresh(m)
    /\ message[m].stage \in Early => StoredOf(m) = {}
    /\ At(m, "validate") => Payload(m).source = "user"
    /\ message[m].stage \in Uploading => StoredSoFar(m)
    /\ StoredPrefix(m)

\* What the sender is told, and what it will be told.
RepliesMatch(m) ==
    /\ message[m].stage \in Early => message[m].next = 1 /\ ~message[m].saved
    /\ message[m].stage \in Uploading =>
        (message[m].saved <=> \E j \in Documents(m) : j < message[m].next)
    /\ At(m, "reply") /\ message[m].answer = "filetypes" => StoredOf(m) = {}
    /\ replies[m] # {} => At(m, "over")
    /\ "filetypes" \in replies[m] => StoredOf(m) = {}

\* The outcome of a message nothing has disturbed.
Accounted(m) ==
    Payload(m).source = "user" /\ ~BadReference(Payload(m)) =>
        \A i \in Reached(m) : stored[DocOf(m, i)] = 1

Accountable(m) ==
    \/ StoredOf(m) # {}
    \/ replies[m] \cap Replies # {}
    \/ /\ Payload(m).source = "user"
       /\ BadReference(Payload(m)) \/ Large(Payload(m)) # {}
    \/ "unlinked" \in replies[m]
    \/ "gone" \in replies[m] /\ Payload(m).body = "resume"

CopiesSoFar(m) ==
    \A i \in Documents(m) :
        stored[DocOf(m, i)] =
            IF i < message[m].next \/ (i = message[m].next /\ call[m].pc = "done") THEN 1 ELSE 0

Settled(m) ==
    Undisturbed =>
        /\ message[m].stage \in Uploading => CopiesSoFar(m)
        /\ At(m, "reply") /\ Payload(m).source = "user" => Documents(m) = {}
        /\ At(m, "reply") /\ message[m].answer \notin Replies =>
            message[m].answer = "gone" /\ Payload(m).body = "resume"
        /\ At(m, "over") /\ Payload(m).source # "nobody" => Accounted(m) /\ Accountable(m)

MessageInv(m) == CallMatches(m) /\ StoredMatches(m) /\ RepliesMatch(m) /\ Settled(m)
AllMessages == \A m \in Messages : MessageInv(m)

Inv == TypeOK /\ TagInv /\ FailuresHaveCauses /\ AllMessages

-----------------------------------------------------------------------------
(* Frames.                                                                 *)

\* What a message's invariant speaks of.
SameMessage(m) ==
    /\ message'[m] = message[m] /\ replies'[m] = replies[m]
    /\ call'[m] = call[m]
    /\ \A p \in Payloads : \A i \in DOMAIN p.attachments : stored'[DocOf(m, i)] = stored[DocOf(m, i)]
    /\ Undisturbed' => Undisturbed

LEMMA Unconcerned ==
    ASSUME TypeOK, NEW m \in Messages, MessageInv(m), SameMessage(m)
    PROVE  MessageInv(m)'
<1>1. /\ \A i \in DOMAIN Payload(m).attachments : stored'[DocOf(m, i)] = stored[DocOf(m, i)]
      /\ Payload(m)' = Payload(m) /\ Payload(m) \in Payloads
  BY RecordOf DEF SameMessage, Payload
<1>2. Documents(m)' = Documents(m) /\ Documents(m) \subseteq DOMAIN Payload(m).attachments
  BY <1>1, DocumentsOf DEF Documents
<1>3. StoredOf(m)' = StoredOf(m)
  BY <1>1 DEF StoredOf
<1>4. \A i \in Documents(m) : stored'[DocOf(m, i)] = stored[DocOf(m, i)]
  BY <1>1, <1>2
<1>5. CallMatches(m)'
  BY <1>2 DEF MessageInv, CallMatches, SameMessage, At
<1>6. StoredMatches(m)'
  <2>1. Fresh(m) => Fresh(m)'
    BY DEF Fresh, SameMessage
  <2>2. StoredSoFar(m) => StoredSoFar(m)'
    BY <1>1, <1>2, <1>3 DEF StoredSoFar, SameMessage, At
  <2>3. StoredPrefix(m) => StoredPrefix(m)'
    BY <1>1, <1>2, <1>3 DEF StoredPrefix
  <2> QED
    BY <2>1, <2>2, <2>3, <1>1, <1>3 DEF MessageInv, StoredMatches, SameMessage, At
<1>7. RepliesMatch(m)'
  BY <1>2, <1>3 DEF MessageInv, RepliesMatch, SameMessage, At
<1>8. Settled(m)'
  <2>1. Accounted(m) => Accounted(m)'
    BY <1>1, <1>2, <1>4 DEF Accounted, Reached
  <2>2. CopiesSoFar(m) => CopiesSoFar(m)'
    BY <1>2, <1>4 DEF CopiesSoFar, SameMessage
  <2>3. Accountable(m) => Accountable(m)'
    BY <1>1, <1>3 DEF Accountable, SameMessage
  <2> QED
    BY <2>1, <2>2, <2>3, <1>1, <1>2 DEF MessageInv, Settled, SameMessage, At
<1> QED
  BY <1>5, <1>6, <1>7, <1>8 DEF MessageInv

(***************************************************************************)
(* A step of one message is no concern of the others.                      *)
(***************************************************************************)
LEMMA OneMessage ==
    ASSUME TypeOK, AllMessages, NEW m \in Messages, MessageInv(m)',
           \A g \in Messages : g # m => SameMessage(g)
    PROVE  AllMessages'
<1>1. \A g \in Messages : g # m => MessageInv(g)'
  BY Unconcerned DEF AllMessages
<1> QED
  BY <1>1 DEF AllMessages

\* A step that neither Paperless nor the client has a part in.
Quiet(m, state) == Goes(m, state) /\ UNCHANGED <<tagVars, tokens, replies>>

LEMMA QuietFacts ==
    ASSUME Inv, NEW m \in Messages, NEW state \in States, Quiet(m, state),
           state.payload = Payload(m)
    PROVE  /\ message'[m] = state /\ replies' = replies /\ call' = call /\ stored' = stored
           /\ Payload(m)' = Payload(m)
           /\ Documents(m)' = Documents(m) /\ StoredOf(m)' = StoredOf(m)
           /\ Undisturbed' = Undisturbed
<1>1. message'[m] = state /\ UNCHANGED <<replies, call, stored, faults, clashed, deleted>>
  BY GoesTo DEF Inv, Quiet, tagVars, paperless
<1>2. Payload(m)' = Payload(m)
  BY <1>1 DEF Payload
<1> QED
  BY <1>1, <1>2 DEF Documents, StoredOf, Undisturbed

LEMMA QuietInv ==
    ASSUME Inv, NEW m \in Messages, NEW state \in States, Quiet(m, state), MessageInv(m)'
    PROVE  Inv'
<1>1. /\ UNCHANGED <<tags, current, deleted, stored, tagged, edits, cache, call, faults, clashed>>
      /\ UNCHANGED <<tokens, replies>>
  BY DEF Quiet, tagVars, paperless
<1>2. TagInv' /\ FailuresHaveCauses'
  <2>1. TagTypeOK'
    BY <1>1 DEF Inv, TagInv, TagTypeOK, Ids
  <2> QED
    BY <1>1, <2>1 DEF Inv, TagInv, TagsSound, TaggedAsAsked, FailuresHaveCauses
<1>3. message' \in [Messages -> States]
  BY GoesTo DEF Inv, Quiet
<1>4. TypeOK'
  BY <1>1, <1>2, <1>3 DEF Inv, TypeOK, TagInv, States
<1>5. \A g \in Messages : g # m => SameMessage(g)
  BY <1>1, GoesTo DEF Inv, Quiet, SameMessage, Undisturbed
<1> QED
  BY <1>2, <1>4, <1>5, OneMessage DEF Inv

-----------------------------------------------------------------------------
(* The steps of a fiber between its calls.                                 *)

\* What is used of the invariant of a message that is not uploading.
LEMMA MessageFacts ==
    ASSUME Inv, NEW m \in Messages
    PROVE  /\ TypeOK /\ TagInv /\ MessageInv(m)
           /\ CallMatches(m) /\ StoredMatches(m) /\ RepliesMatch(m) /\ Settled(m)
           /\ StoredPrefix(m)
BY DEF Inv, AllMessages, MessageInv, StoredMatches

LEMMA AuthorizeInv == ASSUME Inv, NEW m \in Messages, Authorize(m) PROVE Inv'
<1> DEFINE state == IF Payload(m).source = "user" THEN To(m, "validate")
                    ELSE WillReply(m, "unauthorized")
<1>1. /\ state \in States /\ state.payload = Payload(m)
      /\ \/ /\ state.stage = "validate" /\ Payload(m).source = "user"
            /\ state.next = message[m].next /\ state.saved = message[m].saved
         \/ /\ state.stage = "reply" /\ Payload(m).source # "user"
            /\ state.answer = "unauthorized" /\ state.answer \in Replies
  BY ToRecord, WillReplyRecord, MessageFacts DEF Stages, Outcomes, Replies
<1>2. Quiet(m, state) /\ At(m, "authorize")
  BY DEF Authorize, Quiet
<1> HIDE DEF state
<1>3. /\ message'[m] = state /\ replies' = replies /\ call' = call /\ stored' = stored
      /\ Payload(m)' = Payload(m)
      /\ Documents(m)' = Documents(m) /\ StoredOf(m)' = StoredOf(m)
      /\ Undisturbed' = Undisturbed
  BY <1>1, <1>2, QuietFacts
<1>4. CallMatches(m)'
  BY <1>1, <1>2, <1>3, MessageFacts DEF CallMatches, At
<1>5. StoredOf(m) = {} /\ message[m].next = 1 /\ ~message[m].saved /\ replies[m] = {}
  BY <1>2, MessageFacts DEF StoredMatches, RepliesMatch, At, Early
<1>6. StoredMatches(m)'
  BY <1>1, <1>3, <1>5 DEF StoredMatches, StoredPrefix, At, Early, Uploading
<1>7. RepliesMatch(m)'
  BY <1>1, <1>3, <1>5 DEF RepliesMatch, At, Early, Uploading
<1>8. Settled(m)'
  BY <1>1, <1>3, MessageFacts DEF Settled, At, Uploading
<1> QED
  BY <1>1, <1>2, <1>4, <1>6, <1>7, <1>8, QuietInv DEF MessageInv

\* A fiber that ends of itself on a payload it cannot go on with.
LEMMA DiesInv ==
    ASSUME Inv, NEW m \in Messages, Quiet(m, Dead(m)), ~At(m, "uploading"), ~At(m, "over"),
           Payload(m).source = "user", BadReference(Payload(m)) \/ Large(Payload(m)) # {},
           Undisturbed => Accounted(m)
    PROVE  Inv'
<1>1. /\ Dead(m) \in States /\ Dead(m).payload = Payload(m) /\ Dead(m).stage = "over"
  BY DeadRecord, MessageFacts
<1>2. /\ message'[m] = Dead(m) /\ replies' = replies /\ call' = call /\ stored' = stored
      /\ Payload(m)' = Payload(m)
      /\ Documents(m)' = Documents(m) /\ StoredOf(m)' = StoredOf(m)
      /\ Undisturbed' = Undisturbed
  BY <1>1, QuietFacts
<1>3. CallMatches(m)'
  BY <1>1, <1>2, MessageFacts DEF CallMatches, At
<1>4. StoredMatches(m)'
  BY <1>1, <1>2, MessageFacts DEF StoredMatches, StoredPrefix, At, Early, Uploading
<1>5. RepliesMatch(m)'
  BY <1>1, <1>2, MessageFacts DEF RepliesMatch, At, Early, Uploading
<1>6. Settled(m)'
  <2>1. Accounted(m) => Accounted(m)'
    BY <1>2 DEF Accounted, Reached
  <2>2. Accountable(m)'
    BY <1>2 DEF Accountable
  <2> QED
    BY <1>1, <1>2, <2>1, <2>2 DEF Settled, At, Uploading
<1> QED
  BY <1>1, <1>3, <1>4, <1>5, <1>6, QuietInv DEF MessageInv

LEMMA ValidateInv == ASSUME Inv, NEW m \in Messages, Validate(m) PROVE Inv'
<1>1. At(m, "validate") /\ Payload(m) \in Payloads
  BY RecordOf, MessageFacts DEF Validate
<1>2. StoredOf(m) = {} /\ message[m].next = 1 /\ ~message[m].saved /\ replies[m] = {}
  BY <1>1, MessageFacts DEF StoredMatches, RepliesMatch, At, Early
<1>3. CASE BadReference(Payload(m))
  <2>1. Quiet(m, Dead(m)) /\ ~At(m, "uploading") /\ ~At(m, "over")
    BY <1>1, <1>3 DEF Validate, Quiet, At
  <2>2. Payload(m).source = "user" /\ Accounted(m)
    BY <1>1, <1>3, MessageFacts DEF StoredMatches, Accounted
  <2> QED
    BY <1>3, <2>1, <2>2, DiesInv
<1>4. CASE ~BadReference(Payload(m)) /\ Attachments(Payload(m)) # <<>>
  <2> DEFINE state == To(m, "attachment")
  <2>1. /\ state \in States /\ state.payload = Payload(m) /\ state.stage = "attachment"
        /\ state.next = message[m].next /\ state.saved = message[m].saved
    BY ToRecord, MessageFacts DEF Stages
  <2>2. Quiet(m, state)
    BY <1>4 DEF Validate, Quiet
  <2> HIDE DEF state
  <2>3. /\ message'[m] = state /\ replies' = replies /\ call' = call /\ stored' = stored
        /\ Payload(m)' = Payload(m)
        /\ Documents(m)' = Documents(m) /\ StoredOf(m)' = StoredOf(m)
        /\ Undisturbed' = Undisturbed
    BY <2>1, <2>2, QuietFacts
  <2>4. \A i \in Documents(m) : ~(i < 1) /\ stored[DocOf(m, i)] = 0
    BY <1>2, DocumentsOf, MessageFacts DEF StoredOf
  <2>5. call[m].pc = "idle" /\ CallMatches(m)'
    BY <1>1, <2>1, <2>3, MessageFacts DEF CallMatches, At
  <2>6. Payload(m).source = "user"
    BY <1>1, MessageFacts DEF StoredMatches
  <2>7. StoredMatches(m)'
    BY <1>2, <1>4, <2>1, <2>3, <2>4, <2>5, <2>6
       DEF StoredMatches, StoredSoFar, StoredPrefix, At, Early, Uploading
  <2>8. RepliesMatch(m)'
    BY <1>2, <2>1, <2>3, <2>4 DEF RepliesMatch, At, Early, Uploading
  <2>9. Settled(m)'
    BY <1>2, <2>1, <2>3, <2>4, <2>5, MessageFacts DEF Settled, CopiesSoFar, At, Uploading
  <2> QED
    BY <2>1, <2>2, <2>5, <2>7, <2>8, <2>9, QuietInv DEF MessageInv
<1>5. CASE ~BadReference(Payload(m)) /\ Attachments(Payload(m)) = <<>>
  <2>1. PICK answer \in Comes(Payload(m)) : Goes(m, WillReply(m, answer))
    BY <1>5 DEF Validate
  <2>2. /\ answer \in {"help", "command", "gone"}
        /\ answer = "gone" => Payload(m).body = "resume"
    BY <1>1, <2>1, PayloadAssumption DEF Comes, Bodies
  <2> DEFINE state  == WillReply(m, answer)
  <2>3. /\ state \in States /\ state.payload = Payload(m) /\ state.stage = "reply"
        /\ state.answer # "filetypes"
        /\ state.answer \notin Replies => state.answer = "gone" /\ Payload(m).body = "resume"
    <3>1. answer \in Outcomes
      BY <2>2 DEF Outcomes, Silences, Replies
    <3>2. state \in States /\ state.payload = Payload(m) /\ state.stage = "reply" /\ state.answer = answer
      BY <3>1, WillReplyRecord, MessageFacts
    <3> QED
      BY <2>2, <3>2 DEF Replies
  <2>4. Quiet(m, state)
    BY <1>5, <2>1 DEF Validate, Quiet
  <2> HIDE DEF state
  <2>5. /\ message'[m] = state /\ replies' = replies /\ call' = call /\ stored' = stored
        /\ Payload(m)' = Payload(m)
        /\ Documents(m)' = Documents(m) /\ StoredOf(m)' = StoredOf(m)
        /\ Undisturbed' = Undisturbed
    BY <2>3, <2>4, QuietFacts
  <2>6. Documents(m) = {}
    BY <1>5 DEF Documents
  <2>7. CallMatches(m)'
    BY <1>1, <2>3, <2>5, MessageFacts DEF CallMatches, At
  <2>8. StoredMatches(m)'
    BY <1>2, <2>3, <2>5 DEF StoredMatches, StoredPrefix, At, Early, Uploading
  <2>9. RepliesMatch(m)'
    BY <1>2, <2>3, <2>5 DEF RepliesMatch, At, Early, Uploading
  <2>10. Settled(m)'
    BY <2>3, <2>5, <2>6, MessageFacts DEF Settled, At, Uploading
  <2> QED
    BY <2>3, <2>4, <2>7, <2>8, <2>9, <2>10, QuietInv DEF MessageInv
<1> QED
  BY <1>3, <1>4, <1>5

\* What is used of the invariant of a message with attachments to go.
LEMMA LoopFacts ==
    ASSUME Inv, NEW m \in Messages, At(m, "attachment")
    PROVE  /\ StoredSoFar(m) /\ call[m].pc = "idle" /\ replies[m] = {}
           /\ message[m].saved <=> \E j \in Documents(m) : j < message[m].next
           /\ \A i \in StoredOf(m) : i < message[m].next
           /\ message[m].next \in Nat \ {0}
           /\ Documents(m) \subseteq Nat \ {0}
<1>1. message[m].next \in Nat \ {0} /\ Documents(m) \subseteq Nat \ {0}
  BY RecordOf, DocumentsOf, MessageFacts DEF States
<1>2. StoredSoFar(m) /\ call[m].pc = "idle" /\ replies[m] = {}
  BY MessageFacts DEF StoredMatches, CallMatches, RepliesMatch, At, Uploading
<1> QED
  BY <1>1, <1>2, MessageFacts DEF StoredSoFar, RepliesMatch, At, Uploading

\* What the message at hand is taken for.
LEMMA AtHand ==
    ASSUME Inv, NEW m \in Messages, More(m)
    PROVE  /\ At(m, "attachment")
           /\ message[m].next \in DOMAIN Attachments(Payload(m))
           /\ message[m].next \in Documents(m) <=> KindAtHand(m) = "doc"
<1>1. message[m].next \in DOMAIN Attachments(Payload(m))
  BY RecordOf, AttachmentsCut, MessageFacts DEF More, States
<1> QED
  BY <1>1 DEF More, Documents, KindAtHand

LEMMA SkipAttachmentInv == ASSUME Inv, NEW m \in Messages, SkipAttachment(m) PROVE Inv'
<1> DEFINE state == NextAttachment(m)
           next  == message[m].next
<1>1. /\ state \in States /\ state.payload = Payload(m) /\ state.stage = "attachment"
      /\ state.next = next + 1 /\ state.saved = message[m].saved
  BY NextAttachmentRecord, MessageFacts
<1>2. Quiet(m, state) /\ At(m, "attachment") /\ next \notin Documents(m)
  BY AtHand DEF SkipAttachment, Quiet
<1>3. /\ message'[m] = state /\ replies' = replies /\ call' = call /\ stored' = stored
      /\ Payload(m)' = Payload(m)
      /\ Documents(m)' = Documents(m) /\ StoredOf(m)' = StoredOf(m)
      /\ Undisturbed' = Undisturbed
  BY <1>1, <1>2, QuietFacts
<1>4. next \in Nat /\ Documents(m) \subseteq Nat /\ StoredOf(m) \subseteq Documents(m)
  BY <1>2, LoopFacts, MessageFacts DEF StoredPrefix
<1>5. \A i \in Documents(m) : i < next + 1 <=> i < next
  BY <1>2, <1>4
<1>6. CallMatches(m)'
  BY <1>1, <1>2, <1>3, LoopFacts DEF CallMatches, At
<1> HIDE DEF state, next
<1>7. StoredMatches(m)'
  <2>1. StoredSoFar(m)'
    BY <1>1, <1>2, <1>3, <1>4, <1>5, LoopFacts DEF StoredSoFar, At, next
  <2>2. StoredPrefix(m)'
    BY <1>3, MessageFacts DEF StoredPrefix
  <2> QED
    BY <1>1, <1>3, <2>1, <2>2 DEF StoredMatches, At, Early
<1>8. RepliesMatch(m)'
  BY <1>1, <1>2, <1>3, <1>5, LoopFacts DEF RepliesMatch, At, Early, Uploading, next
<1>9. Settled(m)'
  <2>1. CopiesSoFar(m) => CopiesSoFar(m)'
    BY <1>1, <1>2, <1>3, <1>5, LoopFacts DEF CopiesSoFar, next
  <2> QED
    BY <1>1, <1>2, <1>3, <2>1, MessageFacts DEF Settled, At, Uploading
<1> QED
  BY <1>1, <1>2, <1>6, <1>7, <1>8, <1>9, QuietInv DEF MessageInv

LEMMA AttachmentTooLargeInv == ASSUME Inv, NEW m \in Messages, AttachmentTooLarge(m) PROVE Inv'
<1>1. message[m].next \in DOMAIN Attachments(Payload(m)) /\ At(m, "attachment")
  BY AtHand DEF AttachmentTooLarge
<1>2. message[m].next \in Large(Payload(m))
  BY <1>1 DEF AttachmentTooLarge, KindAtHand, Large
<1>3. \A i \in Reached(m) : i \in Documents(m) /\ i < message[m].next
  BY <1>2 DEF Reached
<1>4. Undisturbed => CopiesSoFar(m)
  BY <1>1, MessageFacts DEF Settled, At, Uploading
<1>5. Undisturbed => Accounted(m)
  BY <1>3, <1>4 DEF CopiesSoFar, Accounted
<1>6. Payload(m).source = "user"
  BY <1>1, LoopFacts DEF StoredSoFar
<1> QED
  BY <1>1, <1>2, <1>5, <1>6, DiesInv DEF AttachmentTooLarge, Quiet, At

LEMMA AllUploadedInv == ASSUME Inv, NEW m \in Messages, AllUploaded(m) PROVE Inv'
<1>1. At(m, "attachment") /\ ~(message[m].next <= Len(Attachments(Payload(m))))
  BY DEF AllUploaded, More
<1>2. \A i \in Documents(m) : i < message[m].next
  BY <1>1, RecordOf, AttachmentsCut, DocumentsOf, MessageFacts DEF States
<1>3. CASE message[m].saved
  <2> DEFINE state == To(m, "over")
  <2>1. /\ state \in States /\ state.payload = Payload(m) /\ state.stage = "over"
    BY ToRecord, MessageFacts DEF Stages
  <2>2. Quiet(m, state)
    BY <1>3 DEF AllUploaded, Quiet
  <2> HIDE DEF state
  <2>3. /\ message'[m] = state /\ replies' = replies /\ call' = call /\ stored' = stored
        /\ Payload(m)' = Payload(m)
        /\ Documents(m)' = Documents(m) /\ StoredOf(m)' = StoredOf(m)
        /\ Undisturbed' = Undisturbed
    BY <2>1, <2>2, QuietFacts
  <2>4. CallMatches(m)'
    BY <1>1, <2>1, <2>3, LoopFacts DEF CallMatches, At
  <2>5. StoredMatches(m)'
    BY <2>1, <2>3, MessageFacts DEF StoredMatches, StoredPrefix, At, Early, Uploading
  <2>6. RepliesMatch(m)'
    BY <1>1, <2>1, <2>3, LoopFacts DEF RepliesMatch, At, Early, Uploading
  <2>7. StoredOf(m) # {}
    BY <1>1, <1>3, LoopFacts DEF StoredSoFar
  <2>8. CopiesSoFar(m) => Accounted(m)' /\ Accountable(m)'
    BY <1>2, <2>3, <2>7 DEF CopiesSoFar, Accounted, Accountable, Reached
  <2>9. Settled(m)'
    BY <1>1, <2>1, <2>3, <2>8, MessageFacts DEF Settled, At, Uploading
  <2> QED
    BY <2>1, <2>2, <2>4, <2>5, <2>6, <2>9, QuietInv DEF MessageInv
<1>4. CASE ~message[m].saved
  <2> DEFINE state == WillReply(m, "filetypes")
  <2>1. /\ state \in States /\ state.payload = Payload(m) /\ state.stage = "reply"
        /\ state.answer \in Replies
    BY WillReplyRecord, MessageFacts DEF Outcomes, Replies
  <2>2. Quiet(m, state)
    BY <1>4 DEF AllUploaded, Quiet
  <2> HIDE DEF state
  <2>3. /\ message'[m] = state /\ replies' = replies /\ call' = call /\ stored' = stored
        /\ Payload(m)' = Payload(m)
        /\ Documents(m)' = Documents(m) /\ StoredOf(m)' = StoredOf(m)
        /\ Undisturbed' = Undisturbed
    BY <2>1, <2>2, QuietFacts
  <2>4. Documents(m) = {}
    BY <1>1, <1>2, <1>4, LoopFacts
  <2>5. StoredOf(m) = {}
    BY <2>4, MessageFacts DEF StoredPrefix
  <2>6. CallMatches(m)'
    BY <1>1, <2>1, <2>3, LoopFacts DEF CallMatches, At
  <2>7. StoredMatches(m)'
    BY <2>1, <2>3, <2>5 DEF StoredMatches, StoredPrefix, At, Early, Uploading
  <2>8. RepliesMatch(m)'
    BY <1>1, <2>1, <2>3, <2>5, LoopFacts DEF RepliesMatch, At, Early, Uploading
  <2>9. Settled(m)'
    BY <2>1, <2>3, <2>4, MessageFacts DEF Settled, At, Uploading
  <2> QED
    BY <2>1, <2>2, <2>6, <2>7, <2>8, <2>9, QuietInv DEF MessageInv
<1> QED
  BY <1>3, <1>4

-----------------------------------------------------------------------------
(* Steps that Paperless has no part in but that change more than one       *)
(* message's record.                                                       *)

\* Nothing that an upload depends on changes.
LEMMA TagsUnchanged ==
    ASSUME Inv, UNCHANGED tagVars
    PROVE  /\ TagInv' /\ FailuresHaveCauses'
           /\ UNCHANGED <<stored, call, faults, clashed, deleted>>
<1>1. UNCHANGED <<tags, current, deleted, stored, tagged, edits, cache, call, faults, clashed>>
  BY DEF tagVars, paperless
<1>2. TagTypeOK'
  BY <1>1 DEF Inv, TagInv, TagTypeOK, Ids
<1> QED
  BY <1>1, <1>2 DEF Inv, TagInv, TagsSound, TaggedAsAsked, FailuresHaveCauses

\* The parts of the invariant, put together again.
LEMMA InvAgain ==
    ASSUME Inv, TagInv', FailuresHaveCauses', NEW m \in Messages, MessageInv(m)',
           tokens' \in 0 .. Limit, message' \in [Messages -> States],
           replies' \in [Messages -> SUBSET Outcomes],
           \A g \in Messages : g # m => SameMessage(g)
    PROVE  Inv'
<1>1. TypeOK'
  BY DEF TypeOK, TagInv, States
<1> QED
  BY <1>1, OneMessage DEF Inv

LEMMA WebhookInv == ASSUME Inv, NEW m \in Messages, Webhook(m) PROVE Inv'
<1>1. PICK p \in Payloads, stage \in {"over", "authorize", "refused"} :
          /\ Goes(m, [Unsent EXCEPT !.payload = p, !.stage = stage])
          /\ stage = "over" => p.source = "nobody"
  <2>1. tokens > 0 \/ tokens = 0
    BY LimitAssumption DEF Inv, TypeOK
  <2>2. CASE tokens = 0
    BY <2>2 DEF Webhook
  <2>3. CASE tokens > 0
    <3>1. PICK p \in Payloads :
              Goes(m, [Unsent EXCEPT !.payload = p,
                                     !.stage = IF p.source = "nobody" THEN "over" ELSE "authorize"])
      BY <2>3 DEF Webhook
    <3>2. CASE p.source = "nobody"
      BY <3>1, <3>2
    <3>3. CASE p.source # "nobody"
      BY <3>1, <3>3
    <3> QED
      BY <3>2, <3>3
  <2> QED
    BY <2>1, <2>2, <2>3
<1> DEFINE state == [Unsent EXCEPT !.payload = p, !.stage = stage]
<1>2. /\ state \in States /\ state.payload = p /\ state.stage = stage /\ state.next = 1
      /\ ~state.saved
  BY UnsentType DEF Unsent, States, Stages
<1>3. Goes(m, state)
  BY <1>1
<1> HIDE DEF state
<1>4. UNCHANGED tagVars /\ replies' = replies /\ At(m, "unsent")
  BY DEF Webhook
<1>5. /\ TagInv' /\ FailuresHaveCauses'
      /\ UNCHANGED <<stored, call, faults, clashed, deleted>>
  BY <1>4, TagsUnchanged
<1>6. /\ message' \in [Messages -> States] /\ message'[m] = state
      /\ \A g \in Messages : g # m => message'[g] = message[g]
  BY <1>2, <1>3, GoesTo, MessageFacts
<1>7. Payload(m)' = p
  BY <1>2, <1>6 DEF Payload
<1>8. StoredOf(m)' = {}
  <2>1. Fresh(m)
    BY <1>4, MessageFacts DEF StoredMatches
  <2> QED
    BY <1>5, <1>7, <2>1 DEF StoredOf, Fresh
<1>9. CallMatches(m)'
  BY <1>1, <1>2, <1>4, <1>5, <1>6, MessageFacts DEF CallMatches, At
<1>10. StoredMatches(m)'
  BY <1>1, <1>2, <1>6, <1>8 DEF StoredMatches, StoredPrefix, At, Early, Uploading
<1>11. replies[m] = {}
  BY <1>4, MessageFacts DEF RepliesMatch, At
<1>12. RepliesMatch(m)'
  BY <1>1, <1>2, <1>4, <1>6, <1>11 DEF RepliesMatch, At, Early, Uploading
<1>13. Settled(m)'
  BY <1>1, <1>2, <1>6, <1>7 DEF Settled, At, Uploading
<1>14. tokens' \in 0 .. Limit
  BY LimitAssumption DEF Inv, TypeOK, Webhook
<1>15. \A g \in Messages : g # m => SameMessage(g)
  BY <1>4, <1>5, <1>6 DEF SameMessage, Undisturbed
<1>16. replies' \in [Messages -> SUBSET Outcomes]
  BY <1>4 DEF Inv, TypeOK
<1> QED
  BY <1>5, <1>6, <1>9, <1>10, <1>12, <1>13, <1>14, <1>15, <1>16, InvAgain DEF MessageInv

LEMMA ReplyInv == ASSUME Inv, NEW m \in Messages, Reply(m) PROVE Inv'
<1> DEFINE state == To(m, "over")
<1>1. /\ state \in States /\ state.payload = Payload(m) /\ state.stage = "over"
  BY ToRecord, MessageFacts DEF Stages
<1>2. Goes(m, state) /\ At(m, "reply") /\ UNCHANGED tagVars /\ tokens' = tokens
  BY DEF Reply
<1> HIDE DEF state
<1>3. /\ TagInv' /\ FailuresHaveCauses'
      /\ UNCHANGED <<stored, call, faults, clashed, deleted>>
  BY <1>2, TagsUnchanged
<1>4. /\ message' \in [Messages -> States] /\ message'[m] = state
      /\ \A g \in Messages : g # m => message'[g] = message[g]
  BY <1>1, <1>2, GoesTo, MessageFacts
<1>5. message[m].answer \in Outcomes /\ replies[m] = {}
  BY <1>2, RecordOf, MessageFacts DEF States, RepliesMatch, At
<1>6. PICK said \in Outcomes :
          /\ replies' = [replies EXCEPT ![m] = @ \cup {said}]
          /\ said = message[m].answer \/ (message[m].answer \in Replies /\ said = "unlinked")
  <2>1. "unlinked" \in Outcomes
    BY DEF Outcomes, Silences
  <2> QED
    BY <1>5, <2>1 DEF Reply
<1>15. /\ replies' \in [Messages -> SUBSET Outcomes]
      /\ replies'[m] = {said}
      /\ \A g \in Messages : g # m => replies'[g] = replies[g]
  BY <1>5, <1>6 DEF Inv, TypeOK
<1>7. Payload(m)' = Payload(m) /\ Undisturbed' = Undisturbed
  BY <1>1, <1>3, <1>4 DEF Payload, Undisturbed
<1>8. Documents(m)' = Documents(m) /\ StoredOf(m)' = StoredOf(m)
  BY <1>3, <1>7 DEF Documents, StoredOf
<1>9. CallMatches(m)'
  BY <1>1, <1>2, <1>3, <1>4, MessageFacts DEF CallMatches, At
<1>10. StoredMatches(m)'
  BY <1>1, <1>4, <1>7, <1>8, MessageFacts DEF StoredMatches, StoredPrefix, At, Early, Uploading
<1>11. RepliesMatch(m)'
  BY <1>1, <1>2, <1>4, <1>6, <1>15, <1>8, MessageFacts DEF RepliesMatch, At, Early, Uploading
<1>12. Settled(m)'
  <2> SUFFICES ASSUME Undisturbed, Payload(m).source # "nobody"
               PROVE  Accounted(m)' /\ Accountable(m)'
    BY <1>1, <1>4, <1>7 DEF Settled, At, Uploading
  <2>1. Payload(m).source = "user" => Documents(m) = {}
    BY <1>2, MessageFacts DEF Settled
  <2>2. message[m].answer \notin Replies =>
            message[m].answer = "gone" /\ Payload(m).body = "resume"
    BY <1>2, MessageFacts DEF Settled
  <2>3. Accounted(m)'
    BY <1>7, <1>8, <2>1 DEF Accounted, Reached
  <2>4. Accountable(m)'
    BY <1>6, <1>7, <1>15, <2>2 DEF Accountable
  <2> QED
    BY <2>3, <2>4
<1>13. \A g \in Messages : g # m => SameMessage(g)
  BY <1>3, <1>4, <1>15 DEF SameMessage, Undisturbed
<1>14. tokens' \in 0 .. Limit
  BY <1>2 DEF Inv, TypeOK
<1> QED
  BY <1>3, <1>4, <1>15, <1>9, <1>10, <1>11, <1>12, <1>13, <1>14, InvAgain DEF MessageInv

LEMMA SameForAll ==
    ASSUME Inv, UNCHANGED <<message, replies, call, stored>>, Undisturbed' => Undisturbed
    PROVE  AllMessages'
<1>1. \A g \in Messages : SameMessage(g)
  BY DEF SameMessage
<1> QED
  BY <1>1, Unconcerned DEF Inv, AllMessages

LEMMA RefillInv == ASSUME Inv, Refill PROVE Inv'
<1>1. UNCHANGED tagVars /\ UNCHANGED <<message, replies>>
  BY DEF Refill
<1>2. /\ TagInv' /\ FailuresHaveCauses'
      /\ UNCHANGED <<stored, call, faults, clashed, deleted>>
  BY <1>1, TagsUnchanged
<1>3. AllMessages'
  BY <1>1, <1>2, SameForAll DEF Undisturbed
<1>4. tokens' \in 0 .. Limit
  BY LimitAssumption DEF Inv, TypeOK, Refill
<1>5. TypeOK'
  BY <1>1, <1>2, <1>4 DEF Inv, TypeOK, TagInv
<1> QED
  BY <1>2, <1>3, <1>5 DEF Inv

LEMMA EditTagIntakeInv == ASSUME Inv, EditTag, UNCHANGED intake PROVE Inv'
<1>1. /\ UNCHANGED <<tokens, message, replies, call, stored, faults, clashed>>
      /\ deleted \subseteq deleted'
  BY DEF EditTag, NewTag, DeleteTag, RenameTag, intake
<1>2. TagInv'
  BY EditTagInv DEF Inv
<1>3. FailuresHaveCauses'
  BY <1>1 DEF Inv, FailuresHaveCauses
<1>4. AllMessages'
  BY <1>1, SameForAll DEF Undisturbed
<1>5. TypeOK'
  BY <1>1, <1>2 DEF Inv, TypeOK, TagInv
<1> QED
  BY <1>2, <1>3, <1>4, <1>5 DEF Inv

-----------------------------------------------------------------------------
(* What a step of an upload comes to, as the intake sees it.               *)

Bumped(copies) == IF copies < MaxStored THEN copies + 1 ELSE copies

\* One more copy of the document of m, and of no other.
OneMoreCopy(m) == stored' = [stored EXCEPT ![call[m].doc] = Bumped(stored[call[m].doc])]

UploadEffect(m) ==
    /\ call[m].pc \notin {"idle", "done", "failed"}
    /\ call'[m].pc # "idle" /\ call'[m].doc = call[m].doc
    /\ \A g \in Messages : g # m => call'[g] = call[g]
    /\ call'[m].pc = "done" => OneMoreCopy(m)
    /\ call'[m].pc # "done" => stored' = stored \/ (OneMoreCopy(m) /\ faults' > 0)
    /\ Undisturbed' => Undisturbed

LEMMA BecomesCall ==
    ASSUME TagInv, NEW m \in Messages, NEW state, Becomes(m, state)
    PROVE  call'[m] = state /\ \A g \in Messages : g # m => call'[g] = call[g]
BY DEF TagInv, TagTypeOK, Becomes, Messages

LEMMA UploadStepEffect ==
    ASSUME TagInv, NEW m \in Messages, UploadStep(m)
    PROVE  UploadEffect(m)
<1>1. call[m] \in Calls(tags) /\ faults \in Nat
  BY StepFacts, TagBoundAssumption DEF Messages
<1>2. faults' = faults
  BY Zenon DEF UploadStep, UseCached, AskForTag, GetTag, PostTag, Remember, PostDocument
<1>3. ASSUME NEW state, Becomes(m, state), state.doc = call[m].doc, state.pc \notin {"idle", "done"},
             call[m].pc \notin {"idle", "done", "failed"}, UNCHANGED <<stored, deleted>>,
             clashed => clashed'
      PROVE  UploadEffect(m)
  BY <1>2, <1>3, BecomesCall DEF UploadEffect, Undisturbed
<1>4. ASSUME NEW id PROVE Resolved(m, id).doc = call[m].doc /\ Resolved(m, id).pc = "tag"
  BY <1>1 DEF Resolved, Calls
<1>5. CASE UseCached(m)
  BY <1>3, <1>4, <1>5 DEF UseCached, Resolving, paperless
<1>6. CASE Remember(m)
  BY <1>3, <1>4, <1>6 DEF Remember, paperless
<1>7. CASE AskForTag(m)
  <2> DEFINE state == [call[m] EXCEPT !.pc = "get", !.known = cache[ClientOf[m]]]
  <2>1. Becomes(m, state)
    BY <1>7 DEF AskForTag
  <2>2. state.pc = "get" /\ state.doc = call[m].doc
    BY <1>1 DEF Calls
  <2> HIDE DEF state
  <2> QED
    BY <1>3, <1>7, <2>1, <2>2 DEF AskForTag, Resolving, paperless
<1>8. ASSUME NEW pc \in {"post", "failed"}, Answers(m, pc),
             call[m].pc \in {"get", "post", "tag"}, UNCHANGED <<stored, deleted>>,
             clashed => clashed'
      PROVE  UploadEffect(m)
  <2> DEFINE state == [call[m] EXCEPT !.pc = pc]
  <2>1. Becomes(m, state)
    BY <1>8 DEF Answers
  <2>2. state.pc = pc /\ state.doc = call[m].doc
    BY <1>1 DEF Calls
  <2> HIDE DEF state
  <2> QED
    BY <1>3, <1>8, <2>1, <2>2
<1>9. ASSUME NEW id, Becomes(m, [call[m] EXCEPT !.pc = "remember", !.found = id]),
             call[m].pc \in {"get", "post"}, UNCHANGED <<stored, deleted, clashed>>
      PROVE  UploadEffect(m)
  <2> DEFINE state == [call[m] EXCEPT !.pc = "remember", !.found = id]
  <2>1. Becomes(m, state)
    BY <1>9
  <2>2. state.pc = "remember" /\ state.doc = call[m].doc
    BY <1>1 DEF Calls
  <2> HIDE DEF state
  <2> QED
    BY <1>3, <1>9, <2>1, <2>2
<1>10. CASE GetTag(m)
  <2>1. call[m].pc = "get" /\ UNCHANGED <<stored, deleted, clashed>>
    BY <1>10 DEF GetTag, paperless
  <2>2. CASE IdsOf(Wanted(m)) = {}
    <3>1. Answers(m, "post")
      BY <1>10, <2>2 DEF GetTag
    <3> QED
      BY <1>8, <2>1, <3>1
  <2>3. CASE IdsOf(Wanted(m)) # {}
    <3>1. PICK id : Becomes(m, [call[m] EXCEPT !.pc = "remember", !.found = id])
      BY <1>10, <2>3 DEF GetTag
    <3> QED
      BY <1>9, <2>1, <3>1
  <2> QED
    BY <2>2, <2>3
<1>11. CASE PostTag(m)
  <2>1. call[m].pc = "post" /\ UNCHANGED <<stored, deleted>>
    <3>1. MakeTag(Wanted(m)) \/ UNCHANGED paperless
      BY <1>11 DEF PostTag
    <3> QED
      BY <1>11, <3>1 DEF PostTag, MakeTag, NewTag, paperless
  <2>2. CASE IdsOf(Wanted(m)) = {}
    BY <1>9, <1>11, <2>1, <2>2 DEF PostTag
  <2>3. CASE IdsOf(Wanted(m)) # {}
    BY <1>8, <1>11, <2>1, <2>3 DEF PostTag
  <2> QED
    BY <2>2, <2>3
<1>12. CASE PostDocument(m)
  <2>1. call[m].pc = "tag" /\ UNCHANGED clashed
    BY <1>12 DEF PostDocument, Ready
  <2>2. CASE StoreDoc(m) /\ Answers(m, "done")
    <3> DEFINE state == [call[m] EXCEPT !.pc = "done"]
    <3>1. state.pc = "done" /\ state.doc = call[m].doc
      BY <1>1 DEF Calls
    <3>2. Becomes(m, state)
      BY <2>2 DEF Answers
    <3> HIDE DEF state
    <3>3. OneMoreCopy(m) /\ UNCHANGED deleted
      BY <2>2 DEF StoreDoc, OneMoreCopy, Bumped
    <3> QED
      BY <1>2, <2>1, <3>1, <3>2, <3>3, BecomesCall DEF UploadEffect, Undisturbed
  <2>3. CASE UNCHANGED paperless /\ Answers(m, "failed")
    BY <1>8, <2>1, <2>3 DEF paperless
  <2> QED
    BY <1>12, <2>2, <2>3 DEF PostDocument
<1> QED
  BY <1>5, <1>6, <1>7, <1>10, <1>11, <1>12 DEF UploadStep

LEMMA RequestFailsEffect ==
    ASSUME TagInv, NEW m \in Messages, RequestFails(m)
    PROVE  UploadEffect(m)
<1>1. call[m] \in Calls(tags) /\ faults \in Nat
  BY StepFacts, TagBoundAssumption DEF Messages
<1>2. faults' = faults + 1 /\ faults' > 0 /\ UNCHANGED <<cache, clashed>>
  BY <1>1 DEF RequestFails
<1>3. call[m].pc \in {"get", "post", "tag"}
  BY DEF RequestFails, Ready
<1>4. stored' = stored \/ OneMoreCopy(m)
  <2>1. UNCHANGED paperless \/ MakeTag(Wanted(m)) \/ StoreDoc(m)
    BY DEF RequestFails
  <2> QED
    BY <2>1 DEF paperless, MakeTag, StoreDoc, OneMoreCopy, Bumped
<1>5. /\ call'[m].pc \in {call[m].pc, "failed"} /\ call'[m].doc = call[m].doc
      /\ \A g \in Messages : g # m => call'[g] = call[g]
  <2> DEFINE state == [call[m] EXCEPT !.pc = "failed"]
  <2>1. state.pc = "failed" /\ state.doc = call[m].doc
    BY <1>1 DEF Calls
  <2>2. UNCHANGED call \/ Becomes(m, state)
    BY DEF RequestFails, Answers
  <2> HIDE DEF state
  <2> QED
    BY <2>1, <2>2, BecomesCall
<1>6. ~Undisturbed'
  BY <1>2 DEF Undisturbed
<1> QED
  BY <1>2, <1>3, <1>4, <1>5, <1>6 DEF UploadEffect

(***************************************************************************)
(* A step of an upload changes the copies of the attachment at hand only.  *)
(***************************************************************************)
LEMMA EffectInv ==
    ASSUME Inv, NEW m \in Messages, UploadEffect(m), UNCHANGED intake, TagInv', FailuresHaveCauses'
    PROVE  Inv'
<1> DEFINE next == message[m].next
           doc  == DocOf(m, next)
<1>1. UNCHANGED <<tokens, message, replies>>
  BY DEF intake
<1>2. At(m, "uploading") /\ call[m].doc = doc /\ next \in Documents(m)
  BY MessageFacts DEF UploadEffect, CallMatches
<1>3. next \in DOMAIN Payload(m).attachments /\ doc \in Docs /\ stored \in [Docs -> 0 .. MaxStored]
  BY <1>2, DocumentsOf, MessageFacts DEF TypeOK, TagTypeOK
<1>4. Payload(m)' = Payload(m) /\ Documents(m)' = Documents(m)
  BY <1>1 DEF Payload, Documents
<1>5. next \in Nat /\ Documents(m) \subseteq Nat /\ StoredOf(m) \subseteq Documents(m)
  BY <1>2, DocumentsOf, MessageFacts DEF StoredPrefix
<1>6. \A c \in 0 .. MaxStored : Bumped(c) > 0 /\ (c = 0 => Bumped(c) = 1)
  BY TagBoundAssumption DEF Bumped
<1>7. OneMoreCopy(m) => /\ stored'[doc] > 0
                        /\ stored[doc] = 0 => stored'[doc] = 1
                        /\ \A d \in Docs : d # doc => stored'[d] = stored[d]
  BY <1>2, <1>3, <1>6 DEF OneMoreCopy
<1>8. \A i \in DOMAIN Payload(m).attachments : DocOf(m, i) \in Docs /\ (i # next => DocOf(m, i) # doc)
  BY DocumentsOf, MessageFacts DEF DocOf
<1>9. StoredSoFar(m)
  BY <1>2, MessageFacts DEF StoredMatches, At, Uploading
<1> HIDE DEF doc
<1>10. OneMoreCopy(m) => StoredOf(m)' = StoredOf(m) \cup {next}
  BY <1>3, <1>4, <1>7, <1>8 DEF StoredOf, doc
<1>11. stored' = stored => StoredOf(m)' = StoredOf(m)
  BY <1>4 DEF StoredOf
<1>12. OneMoreCopy(m) \/ stored' = stored
  BY DEF UploadEffect
<1>13. CallMatches(m)'
  BY <1>1, <1>2, <1>4 DEF CallMatches, UploadEffect, At, doc
<1> HIDE DEF next
<1>14. StoredMatches(m)'
  <2>1. message[m].next = next /\ message'[m].next = next /\ At(m, "uploading")'
    BY <1>1, <1>2 DEF next, At
  <2>2. StoredSoFar(m)'
    <3>1. /\ Payload(m).source = "user" /\ ~BadReference(Payload(m))
          /\ \A j \in Documents(m) : j < next => j \in StoredOf(m)
          /\ \A i \in StoredOf(m) : i < next \/ i = next
      BY <1>9, <2>1 DEF StoredSoFar
    <3>2. StoredOf(m) \subseteq StoredOf(m)' /\ StoredOf(m)' \subseteq StoredOf(m) \cup {next}
      BY <1>10, <1>11, <1>12
    <3>3. call'[m].pc = "done" => next \in StoredOf(m)'
      BY <1>10 DEF UploadEffect
    <3> QED
      BY <1>4, <2>1, <3>1, <3>2, <3>3 DEF StoredSoFar
  <2>3. StoredPrefix(m)'
    <3>1. \A j \in Documents(m) : j < next => j \in StoredOf(m)
      BY <1>9, <2>1 DEF StoredSoFar
    <3>2. StoredPrefix(m) /\ Payload(m).source = "user" /\ ~BadReference(Payload(m))
      BY <1>9, MessageFacts DEF StoredSoFar
    <3>3. StoredOf(m) \subseteq StoredOf(m)' /\ StoredOf(m)' \subseteq StoredOf(m) \cup {next}
      BY <1>10, <1>11, <1>12
    <3>4. next \in Documents(m)
      BY <1>2 DEF next
    <3> QED
      BY <1>4, <3>1, <3>2, <3>3, <3>4 DEF StoredPrefix
  <2> QED
    BY <2>1, <2>2, <2>3 DEF StoredMatches, At, Early
<1>15. RepliesMatch(m)'
  <2>1. At(m, "uploading") /\ At(m, "uploading")' /\ replies[m] = {}
    BY <1>1, <1>2, MessageFacts DEF At, RepliesMatch
  <2> QED
    BY <1>1, <1>4, <2>1, MessageFacts DEF RepliesMatch, At, Early, Uploading
<1>16. Settled(m)'
  <2>1. ASSUME Undisturbed', CopiesSoFar(m) PROVE CopiesSoFar(m)'
    <3>1. /\ faults' = 0
          /\ \/ call'[m].pc # "done" /\ stored' = stored
             \/ call'[m].pc = "done" /\ OneMoreCopy(m)
      BY <2>1 DEF UploadEffect, Undisturbed
    <3>2. call[m].pc # "done" /\ message'[m].next = next /\ message[m].next = next
      BY <1>1 DEF UploadEffect, next
    <3>3. CASE stored' = stored /\ call'[m].pc # "done"
      BY <1>4, <2>1, <3>2, <3>3 DEF CopiesSoFar
    <3>4. CASE call'[m].pc = "done" /\ OneMoreCopy(m)
      <4>1. stored[doc] = 0
        BY <1>2, <1>5, <2>1, <3>2 DEF CopiesSoFar, doc, next
      <4>2. ASSUME NEW i \in Documents(m), i # next
            PROVE  stored'[DocOf(m, i)] = IF i < next THEN 1 ELSE 0
        <5>1. i \in DOMAIN Payload(m).attachments
          BY DocumentsOf, MessageFacts
        <5>2. stored'[DocOf(m, i)] = stored[DocOf(m, i)]
          BY <1>7, <1>8, <3>4, <4>2, <5>1
        <5> QED
          BY <2>1, <3>2, <4>2, <5>2 DEF CopiesSoFar
      <4>3. stored'[DocOf(m, next)] = 1
        BY <1>7, <3>4, <4>1 DEF doc
      <4>4. \A i \in Documents(m) :
                stored'[DocOf(m, i)] = IF i < next \/ (i = next /\ call'[m].pc = "done") THEN 1 ELSE 0
        BY <3>4, <4>2, <4>3
      <4> QED
        BY <1>4, <3>2, <4>4 DEF CopiesSoFar
    <3> QED
      BY <3>1, <3>3, <3>4
  <2>2. Undisturbed' => Undisturbed
    BY DEF UploadEffect
  <2> QED
    BY <1>1, <1>2, <1>4, <2>1, <2>2, MessageFacts DEF Settled, At, Uploading
<1>17. \A g \in Messages : g # m => SameMessage(g)
  <2>1. ASSUME NEW g \in Messages, g # m, NEW p \in Payloads, NEW i \in DOMAIN p.attachments
        PROVE  stored'[DocOf(g, i)] = stored[DocOf(g, i)]
    <3>1. DocOf(g, i) \in Docs /\ DocOf(g, i) # doc
      BY <2>1, DocOfAssumption DEF DocOf, doc
    <3> QED
      BY <1>7, <1>12, <3>1
  <2> QED
    BY <1>1, <2>1 DEF SameMessage, UploadEffect
<1>18. /\ tokens' \in 0 .. Limit /\ message' \in [Messages -> States]
       /\ replies' \in [Messages -> SUBSET Outcomes]
  BY <1>1 DEF Inv, TypeOK, States
<1> QED
  BY <1>13, <1>14, <1>15, <1>16, <1>17, <1>18, InvAgain DEF MessageInv

LEMMA UploadStepIntakeInv ==
    ASSUME Inv, NEW m \in Messages, UploadStep(m), UNCHANGED intake
    PROVE  Inv'
<1>1. TagInv' /\ FailuresHaveCauses'
  BY UploadStepInv, UploadStepFailures DEF Inv, TagInv, Messages
<1> QED
  BY <1>1, UploadStepEffect, EffectInv, MessageFacts

LEMMA RequestFailsIntakeInv ==
    ASSUME Inv, NEW m \in Messages, RequestFails(m), UNCHANGED intake
    PROVE  Inv'
<1>1. TagInv' /\ FailuresHaveCauses'
  BY RequestFailsInv, RequestFailsFailures DEF Inv, TagInv, Messages
<1> QED
  BY <1>1, RequestFailsEffect, EffectInv, MessageFacts

-----------------------------------------------------------------------------
(* An upload begins and returns, and a fiber ends.                         *)

LEMMA UploadAttachmentInv == ASSUME Inv, NEW m \in Messages, UploadAttachment(m) PROVE Inv'
<1> DEFINE state == To(m, "uploading")
           next  == message[m].next
<1>1. /\ state \in States /\ state.payload = Payload(m) /\ state.stage = "uploading"
      /\ state.next = next /\ state.saved = message[m].saved
  BY ToRecord, MessageFacts DEF Stages
<1>2. /\ At(m, "attachment") /\ next \in Documents(m) /\ Goes(m, state)
      /\ UploadDocument(m, DocOf(m, next))
      /\ UNCHANGED <<paperless, cache, faults, clashed, tokens, replies>>
  BY AtHand DEF UploadAttachment
<1> HIDE DEF state, next
<1>3. DocOf(m, next) \in Docs
  BY <1>2, DocumentsOf, MessageFacts
<1>4. TagInv' /\ FailuresHaveCauses'
  <2>1. Begin(m)
    BY <1>2, <1>3 DEF Begin
  <2> QED
    BY <1>2, <1>3, <2>1, BeginInv, OthersFailures DEF Inv, TagInv, Messages
<1>5. /\ message' \in [Messages -> States] /\ message'[m] = state
      /\ \A g \in Messages : g # m => message'[g] = message[g]
  BY <1>1, <1>2, GoesTo, MessageFacts
<1>6. /\ call'[m].pc = "tag" /\ call'[m].doc = DocOf(m, next)
      /\ \A g \in Messages : g # m => call'[g] = call[g]
  <2> DEFINE begun == [NoCall EXCEPT !.pc = "tag", !.doc = DocOf(m, next),
                                     !.names = TagsOf[DocOf(m, next)]]
  <2>1. begun.pc = "tag" /\ begun.doc = DocOf(m, next)
    BY DEF NoCall
  <2>2. Becomes(m, begun)
    BY <1>2 DEF UploadDocument
  <2> HIDE DEF begun
  <2> QED
    BY <2>1, <2>2, BecomesCall, MessageFacts
<1>7. UNCHANGED <<stored, deleted, faults, clashed, tokens, replies>>
  BY <1>2 DEF paperless
<1>8. Payload(m)' = Payload(m) /\ Undisturbed' = Undisturbed
  BY <1>1, <1>5, <1>7 DEF Payload, Undisturbed
<1>9. Documents(m)' = Documents(m) /\ StoredOf(m)' = StoredOf(m)
  BY <1>7, <1>8 DEF Documents, StoredOf
<1>10. CallMatches(m)'
  BY <1>1, <1>2, <1>5, <1>6, <1>9 DEF CallMatches, At
<1>11. StoredMatches(m)'
  <2>1. StoredSoFar(m)'
    BY <1>1, <1>2, <1>5, <1>6, <1>8, <1>9, LoopFacts DEF StoredSoFar, next
  <2>2. StoredPrefix(m)'
    BY <1>8, <1>9, MessageFacts DEF StoredPrefix
  <2> QED
    BY <1>1, <1>5, <2>1, <2>2 DEF StoredMatches, At, Early
<1>12. RepliesMatch(m)'
  BY <1>1, <1>2, <1>5, <1>7, <1>9, LoopFacts DEF RepliesMatch, At, Early, Uploading, next
<1>13. Settled(m)'
  <2>1. CopiesSoFar(m) => CopiesSoFar(m)'
    BY <1>1, <1>2, <1>5, <1>6, <1>7, <1>9, LoopFacts DEF CopiesSoFar, next
  <2> QED
    BY <1>1, <1>2, <1>5, <1>8, <2>1, MessageFacts DEF Settled, At, Uploading
<1>14. \A g \in Messages : g # m => SameMessage(g)
  BY <1>5, <1>6, <1>7, <1>8 DEF SameMessage
<1>15. tokens' \in 0 .. Limit /\ replies' \in [Messages -> SUBSET Outcomes]
  BY <1>7 DEF Inv, TypeOK
<1> QED
  BY <1>4, <1>5, <1>10, <1>11, <1>12, <1>13, <1>14, <1>15, InvAgain DEF MessageInv

\* The call of a fiber is gone and its message moves on, while what is stored stays.
Leaves(m, state) == Goes(m, state) /\ Becomes(m, NoCall) /\ UNCHANGED <<stored, tokens, replies>>

LEMMA LeavesFacts ==
    ASSUME Inv, NEW m \in Messages, NEW state \in States, Leaves(m, state),
           state.payload = Payload(m), Undisturbed' => Undisturbed
    PROVE  /\ message' \in [Messages -> States] /\ message'[m] = state
           /\ call'[m].pc = "idle" /\ stored' = stored /\ replies' = replies
           /\ tokens' \in 0 .. Limit /\ replies' \in [Messages -> SUBSET Outcomes]
           /\ Payload(m)' = Payload(m)
           /\ Documents(m)' = Documents(m) /\ StoredOf(m)' = StoredOf(m)
           /\ \A g \in Messages : g # m => SameMessage(g)
<1>1. /\ message' \in [Messages -> States] /\ message'[m] = state
      /\ \A g \in Messages : g # m => message'[g] = message[g]
  BY GoesTo, MessageFacts DEF Leaves
<1>2. /\ call'[m].pc = "idle"
      /\ \A g \in Messages : g # m => call'[g] = call[g]
  BY BecomesCall, MessageFacts DEF Leaves, NoCall
<1>3. stored' = stored /\ tokens' = tokens /\ replies' = replies
  BY DEF Leaves
<1>4. Payload(m)' = Payload(m)
  BY <1>1 DEF Payload
<1>5. Documents(m)' = Documents(m) /\ StoredOf(m)' = StoredOf(m)
  BY <1>3, <1>4 DEF Documents, StoredOf
<1>6. \A g \in Messages : g # m => SameMessage(g)
  BY <1>1, <1>2, <1>3 DEF SameMessage
<1>7. tokens' \in 0 .. Limit /\ replies' \in [Messages -> SUBSET Outcomes]
  BY <1>3 DEF Inv, TypeOK
<1> QED
  BY <1>1, <1>2, <1>3, <1>4, <1>5, <1>6, <1>7

\* A fiber that ends before its work is done, in a state that does not call it undisturbed.
LEMMA CutOffInv ==
    ASSUME Inv, NEW m \in Messages, ~At(m, "over"), Leaves(m, Dead(m)), ~Undisturbed',
           TagInv', FailuresHaveCauses'
    PROVE  Inv'
<1>1. /\ Dead(m) \in States /\ Dead(m).payload = Payload(m) /\ Dead(m).stage = "over"
  BY DeadRecord, MessageFacts
<1>2. /\ message' \in [Messages -> States] /\ message'[m] = Dead(m)
      /\ call'[m].pc = "idle" /\ stored' = stored /\ replies' = replies
      /\ tokens' \in 0 .. Limit /\ replies' \in [Messages -> SUBSET Outcomes]
      /\ Payload(m)' = Payload(m)
      /\ Documents(m)' = Documents(m) /\ StoredOf(m)' = StoredOf(m)
      /\ \A g \in Messages : g # m => SameMessage(g)
  BY <1>1, LeavesFacts
<1>3. CallMatches(m)'
  BY <1>1, <1>2 DEF CallMatches, At
<1>4. StoredMatches(m)'
  BY <1>1, <1>2, MessageFacts DEF StoredMatches, StoredPrefix, At, Early, Uploading
<1>5. RepliesMatch(m)'
  BY <1>1, <1>2, MessageFacts DEF RepliesMatch, At, Early, Uploading
<1>6. Settled(m)'
  BY DEF Settled
<1> QED
  BY <1>2, <1>3, <1>4, <1>5, <1>6, InvAgain DEF MessageInv

LEMMA FiberEndsInv == ASSUME Inv, NEW m \in Messages, FiberEnds(m) PROVE Inv'
<1>1. /\ faults' = faults + 1 /\ UNCHANGED <<paperless, cache, clashed>>
      /\ Leaves(m, Dead(m)) /\ ~At(m, "over") /\ faults < MaxFaults
  BY DEF FiberEnds, Leaves, Becomes, At, paperless
<1>2. faults' \in 0 .. MaxFaults /\ faults' > 0
  BY <1>1, TagBoundAssumption DEF Inv, TypeOK, TagTypeOK
<1>3. TagInv'
  BY <1>1, <1>2, ReleaseInv DEF Inv, Leaves, Messages
<1>4. FailuresHaveCauses' /\ ~Undisturbed'
  BY <1>2 DEF FailuresHaveCauses, Undisturbed
<1> QED
  BY <1>1, <1>3, <1>4, CutOffInv

LEMMA UploadReturnsInv == ASSUME Inv, NEW m \in Messages, UploadReturns(m) PROVE Inv'
<1>1. /\ At(m, "uploading") /\ call[m].pc \in {"done", "failed"} /\ Becomes(m, NoCall)
      /\ UNCHANGED <<paperless, cache, faults, clashed, tokens, replies>>
  BY DEF UploadReturns
<1>2. TagInv' /\ FailuresHaveCauses'
  <2>1. Release(m)
    BY <1>1 DEF Release
  <2>2. faults' \in 0 .. MaxFaults
    BY <1>1 DEF Inv, TypeOK, TagTypeOK
  <2> QED
    BY <1>1, <2>1, <2>2, ReleaseInv, OthersFailures DEF Inv, TagInv, Messages
<1>3. UNCHANGED <<stored, deleted, faults, clashed, tokens, replies>>
  BY <1>1 DEF paperless
<1>4. Undisturbed' = Undisturbed
  BY <1>3 DEF Undisturbed
<1>5. CASE call[m].pc = "failed" /\ Goes(m, Dead(m))
  <2>1. ~Undisturbed
    BY <1>5 DEF Inv, FailuresHaveCauses, Undisturbed, Messages
  <2> QED
    BY <1>1, <1>2, <1>3, <1>4, <1>5, <2>1, CutOffInv DEF Leaves, At
<1>6. CASE call[m].pc = "done" /\ Goes(m, [NextAttachment(m) EXCEPT !.saved = TRUE])
  <2> DEFINE state == [NextAttachment(m) EXCEPT !.saved = TRUE]
             next  == message[m].next
  <2>1. /\ state \in States /\ state.payload = Payload(m) /\ state.stage = "attachment"
        /\ state.next = next + 1 /\ state.saved
    BY NextAttachmentRecord, MessageFacts DEF States
  <2>2. Leaves(m, state)
    BY <1>1, <1>3, <1>6 DEF Leaves
  <2>3. /\ StoredSoFar(m) /\ replies[m] = {}
        /\ next \in Documents(m) /\ next \in StoredOf(m)
    BY <1>1, <1>6, MessageFacts DEF StoredMatches, StoredSoFar, RepliesMatch, CallMatches, At, Uploading
  <2>4. Documents(m) \subseteq Nat /\ StoredOf(m) \subseteq Documents(m) /\ next \in Nat
    BY <2>3, DocumentsOf, MessageFacts DEF StoredPrefix
  <2> HIDE DEF state, next
  <2>5. /\ message' \in [Messages -> States] /\ message'[m] = state
        /\ call'[m].pc = "idle" /\ stored' = stored /\ replies' = replies
        /\ tokens' \in 0 .. Limit /\ replies' \in [Messages -> SUBSET Outcomes]
        /\ Payload(m)' = Payload(m)
        /\ Documents(m)' = Documents(m) /\ StoredOf(m)' = StoredOf(m)
        /\ \A g \in Messages : g # m => SameMessage(g)
    BY <1>4, <2>1, <2>2, LeavesFacts
  <2>6. \A i \in Documents(m) : i < next + 1 <=> i < next \/ i = next
    BY <2>4
  <2>7. CallMatches(m)'
    BY <2>1, <2>5 DEF CallMatches, At
  <2>8. StoredMatches(m)'
    <3>1. StoredSoFar(m)'
      BY <1>1, <2>1, <2>3, <2>4, <2>5, <2>6 DEF StoredSoFar, At, next
    <3>2. StoredPrefix(m)'
      BY <2>5, MessageFacts DEF StoredPrefix
    <3> QED
      BY <2>1, <2>5, <3>1, <3>2 DEF StoredMatches, At, Early
  <2>9. RepliesMatch(m)'
    BY <2>1, <2>3, <2>5, <2>6 DEF RepliesMatch, At, Early, Uploading
  <2>10. Settled(m)'
    <3>1. CopiesSoFar(m) => CopiesSoFar(m)'
      BY <1>6, <2>1, <2>5, <2>6 DEF CopiesSoFar, next
    <3> QED
      BY <1>1, <1>4, <2>1, <2>5, <3>1, MessageFacts DEF Settled, At, Uploading
  <2> QED
    BY <1>2, <2>5, <2>7, <2>8, <2>9, <2>10, InvAgain DEF MessageInv
<1> QED
  BY <1>5, <1>6 DEF UploadReturns

\* A restart cuts off every message that is being processed.
LEMMA RestartInv == ASSUME Inv, Restart PROVE Inv'
<1>1. Client \in Clients /\ \A m \in Messages : ClientOf[m] = Client
  <2>1. Client \in Clients
    BY OneProcessAssumption DEF Client
  <2> QED
    BY <2>1, OneProcessAssumption, ClientAssumption DEF Messages
<1>2. TagInv'
  BY <1>1, RestartClientInv DEF Inv, Restart
<1>3. faults' > 0 /\ UNCHANGED <<stored, replies>>
  BY TagBoundAssumption DEF Inv, TypeOK, TagTypeOK, Restart, RestartClient, paperless
<1>4. FailuresHaveCauses' /\ ~Undisturbed'
  BY <1>3 DEF FailuresHaveCauses, Undisturbed
<1>5. \A m \in Messages : call'[m].pc = "idle"
  BY <1>1 DEF Restart, RestartClient, NoCall, Messages
<1>6. message' = [m \in Messages |->
                    IF message[m].stage \in {"unsent", "refused", "over"} THEN message[m] ELSE Dead(m)]
  BY DEF Restart
<1>7. \A m \in Messages : message'[m] \in States
  BY <1>6, RecordOf, DeadRecord DEF Inv
<1>8. ASSUME NEW m \in Messages PROVE MessageInv(m)'
  <2>1. /\ message'[m].payload = Payload(m)
        /\ \/ message'[m] = message[m] /\ message[m].stage \in {"unsent", "refused", "over"}
           \/ message'[m].stage = "over" /\ ~At(m, "over")
    BY <1>6, DeadRecord, MessageFacts DEF Payload, At
  <2>2. Payload(m)' = Payload(m)
    BY <2>1 DEF Payload
  <2>3. Documents(m)' = Documents(m) /\ StoredOf(m)' = StoredOf(m)
    BY <1>3, <2>2 DEF Documents, StoredOf
  <2>4. CallMatches(m)'
    BY <1>5, <2>1 DEF CallMatches, At
  <2>5. StoredMatches(m)'
    <3>1. Fresh(m)' = Fresh(m)
      BY <1>3 DEF Fresh
    <3> QED
      BY <2>1, <2>2, <2>3, <3>1, MessageFacts DEF StoredMatches, StoredPrefix, At, Early, Uploading
  <2>6. RepliesMatch(m)'
    BY <1>3, <2>1, <2>3, MessageFacts DEF RepliesMatch, At, Early, Uploading
  <2>7. Settled(m)'
    BY <1>4 DEF Settled
  <2> QED
    BY <2>4, <2>5, <2>6, <2>7 DEF MessageInv
<1>9. TypeOK'
  <2>1. tokens' \in 0 .. Limit
    BY LimitAssumption DEF Restart
  <2>2. replies' \in [Messages -> SUBSET Outcomes]
    BY <1>3 DEF Inv, TypeOK
  <2>3. message' \in [Messages -> States]
    BY <1>6, <1>7
  <2> QED
    BY <1>2, <2>1, <2>2, <2>3 DEF TypeOK, TagInv, States
<1> QED
  BY <1>2, <1>4, <1>8, <1>9 DEF Inv, AllMessages

-----------------------------------------------------------------------------
(* The theorems.                                                           *)

LEMMA InitInv == Init => Inv
<1> SUFFICES ASSUME Init PROVE Inv
  OBVIOUS
<1>1. TagInv
  BY InitTagInv DEF Init
<1>2. TypeOK
  BY <1>1, UnsentType, LimitAssumption DEF Init, TypeOK, TagInv, States
<1>3. FailuresHaveCauses
  BY DEF Init, TagInit, NoCall, FailuresHaveCauses
<1>4. ASSUME NEW m \in Messages PROVE MessageInv(m)
  <2>1. /\ message[m].stage = "unsent" /\ message[m].next = 1
        /\ ~message[m].saved /\ replies[m] = {}
    BY DEF Init, Unsent
  <2>2. call[m].pc = "idle"
    BY DEF Init, TagInit, NoCall, Messages
  <2>3. Fresh(m)
    BY DocOfAssumption DEF Init, TagInit, Fresh
  <2>4. StoredOf(m) = {}
    BY <1>2, <2>3, RecordOf DEF Fresh, StoredOf
  <2>5. CallMatches(m) /\ RepliesMatch(m) /\ Settled(m)
    BY <2>1, <2>2 DEF CallMatches, RepliesMatch, Settled, At, Early, Uploading
  <2>6. StoredMatches(m)
    BY <2>1, <2>3, <2>4 DEF StoredMatches, StoredPrefix, At, Early, Uploading
  <2> QED
    BY <2>5, <2>6 DEF MessageInv
<1> QED
  BY <1>1, <1>2, <1>3, <1>4 DEF Inv, AllMessages

LEMMA NextInv == Inv /\ [Next]_vars => Inv'
<1> SUFFICES ASSUME Inv, [Next]_vars PROVE Inv'
  OBVIOUS
<1>1. ASSUME NEW m \in Messages, Webhook(m) \/ FiberEnds(m) PROVE Inv'
  BY <1>1, WebhookInv, FiberEndsInv
<1>2. ASSUME NEW m \in Messages, Step(m) PROVE Inv'
  BY <1>2, AuthorizeInv, ValidateInv, SkipAttachmentInv, AttachmentTooLargeInv, UploadAttachmentInv,
     UploadStepIntakeInv, UploadReturnsInv, AllUploadedInv, ReplyInv DEF Step
<1>3. ASSUME NEW m \in Messages, RequestFails(m), UNCHANGED intake PROVE Inv'
  BY <1>3, RequestFailsIntakeInv
<1>4. CASE Refill \/ (EditTag /\ UNCHANGED intake) \/ Restart
  BY <1>4, RefillInv, EditTagIntakeInv, RestartInv
<1>5. CASE UNCHANGED vars
  <2>1. UNCHANGED tagVars /\ UNCHANGED <<tokens, message, replies>>
    BY <1>5 DEF vars, intake
  <2>2. TagInv' /\ FailuresHaveCauses' /\ UNCHANGED <<stored, call, faults, clashed, deleted>>
    BY <2>1, TagsUnchanged
  <2>3. AllMessages'
    BY <2>1, <2>2, SameForAll DEF Undisturbed
  <2> QED
    BY <2>1, <2>2, <2>3 DEF Inv, TypeOK, TagInv
<1> QED
  BY <1>1, <1>2, <1>3, <1>4, <1>5 DEF Next

\* Every state of the intake, the client and Paperless is one of those declared.
THEOREM IntakeTyped == Spec => []TypeOK
<1>1. Inv => TypeOK
  BY DEF Inv
<1> QED
  BY <1>1, InitInv, NextInv, PTL DEF Spec

(***************************************************************************)
(* What Paperless has of a message is documents of a known user, in their  *)
(* order and without a gap, whatever requests fail or are repeated and     *)
(* whenever the fiber or the process ends.                                 *)
(***************************************************************************)
THEOREM DocumentsInOrder == Spec => []StoredIsAPrefix
<1>1. Inv => StoredIsAPrefix
  BY DEF Inv, AllMessages, MessageInv, StoredMatches, StoredPrefix, StoredIsAPrefix
<1> QED
  BY <1>1, InitInv, NextInv, PTL DEF Spec

\* Nobody is told that nothing was saved when something was.
THEOREM TruthfulReplies == Spec => []RepliesAreTrue
<1>1. Inv => RepliesAreTrue
  BY DEF Inv, AllMessages, MessageInv, RepliesMatch, RepliesAreTrue
<1> QED
  BY <1>1, InitInv, NextInv, PTL DEF Spec

(***************************************************************************)
(* No document and no sender is passed over in silence: of a message that  *)
(* nothing disturbs the documents are stored once each, as far as a large  *)
(* attachment or a bad reference lets them, and where none was the sender  *)
(* has an answer but for the two cases in which the bot skips it.  Other   *)
(* messages processed meanwhile do not count as a disturbance unless two   *)
(* of them made the same tag at once.                                      *)
(***************************************************************************)
THEOREM NothingIsLost == Spec => []NothingLostQuietly
<1>1. Inv => NothingLostQuietly
  BY DEF Inv, AllMessages, MessageInv, Settled, Accounted, Accountable, NothingLostQuietly
<1> QED
  BY <1>1, InitInv, NextInv, PTL DEF Spec

(***************************************************************************)
(* The theorems about the client hold of the client the intake uses.       *)
(***************************************************************************)
THEOREM IntakeTags == Spec => [](CacheTrue /\ TaggedAsAsked /\ FailuresHaveCauses)
<1>1. Inv => CacheTrue /\ TaggedAsAsked /\ FailuresHaveCauses
  BY DEF Inv, TagInv, TagsSound, Truthful, CacheTrue
<1> QED
  BY <1>1, InitInv, NextInv, PTL DEF Spec
=============================================================================
