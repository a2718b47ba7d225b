---------------------------- MODULE ReadingsProofs ----------------------------
(***************************************************************************)
(* Theorems about the readings: answers of any length, labels of any       *)
(* words.  The parts of a message are a recursive definition over trees    *)
(* and stay with the model checker.                                        *)
(***************************************************************************)
EXTENDS Readings, SequenceTheorems, WellFoundedInduction, TLAPS

-----------------------------------------------------------------------------
(* Ollama's answer.                                                        *)

\* What is in a sequence is somewhere first.
LEMMA FirstExists ==
    ASSUME NEW answer \in Seq(Words), NEW word, word \in ToSet(answer)
    PROVE  /\ FirstAt(answer, word) \in DOMAIN answer
           /\ answer[FirstAt(answer, word)] = word
           /\ \A j \in 1 .. FirstAt(answer, word) - 1 : answer[j] # word
<1> DEFINE T == {i \in DOMAIN answer : answer[i] = word}
<1>1. DOMAIN answer = 1 .. Len(answer) /\ Len(answer) \in Nat
  OBVIOUS
<1>2. T \subseteq Nat /\ T # {}
  BY <1>1 DEF ToSet
<1>3. IsWellFoundedOn(OpToRel(<, Nat), Nat)
  BY NatLessThanWellFounded
<1>4. \E x \in T : \A y \in T : ~(<<y, x>> \in OpToRel(<, Nat))
  <2> HIDE DEF T
  <2> QED
    BY <1>2, <1>3, WFMin
<1>5. PICK x \in T : \A y \in T : ~(<<y, x>> \in OpToRel(<, Nat))
  BY <1>4
<1>6. ASSUME NEW y \in T PROVE ~(y < x)
  <2>1. OpToRel(<, Nat) = {ss \in Nat \X Nat : ss[1] < ss[2]}
    BY DEF OpToRel
  <2>2. <<y, x>> \in Nat \X Nat /\ <<y, x>> \notin {ss \in Nat \X Nat : ss[1] < ss[2]}
    BY <1>2, <1>5, <2>1
  <2> QED
    BY <2>2
<1>7. \A j \in 1 .. x - 1 : answer[j] # word
  BY <1>1, <1>6
<1> QED
  BY <1>1, <1>5, <1>7 DEF FirstAt

LEMMA AnswerDecides ==
    ASSUME NEW answer \in Seq(Words)
    PROVE  parseOllamaYesNo(answer) <=> ~SaysNo(answer)
<1> DEFINE hasYes == "yes" \in ToSet(answer)
           hasNo == "no" \in ToSet(answer)
<1>1. DOMAIN answer = 1 .. Len(answer) /\ Len(answer) \in Nat
  OBVIOUS
<1>2. CASE ~hasNo
  <2>1. \A i \in DOMAIN answer : answer[i] # "no"
    BY <1>2 DEF ToSet
  <2> QED
    BY <1>2, <2>1 DEF parseOllamaYesNo, SaysNo
<1>3. CASE hasNo /\ ~hasYes
  <2>1. PICK i \in DOMAIN answer : answer[i] = "no"
    BY <1>3 DEF ToSet
  <2>2. \A j \in 1 .. i : answer[j] # "yes"
    BY <1>1, <1>3 DEF ToSet
  <2>3. SaysNo(answer)
    BY <2>1, <2>2 DEF SaysNo
  <2>4. ~parseOllamaYesNo(answer)
    BY <1>3 DEF parseOllamaYesNo
  <2> QED
    BY <2>3, <2>4
<1>4. CASE hasNo /\ hasYes
  <2> DEFINE no == FirstAt(answer, "no")
             yes == FirstAt(answer, "yes")
  <2>1. no \in DOMAIN answer /\ answer[no] = "no" /\ \A j \in 1 .. no - 1 : answer[j] # "no"
    BY <1>4, FirstExists
  <2>2. yes \in DOMAIN answer /\ answer[yes] = "yes" /\ \A j \in 1 .. yes - 1 : answer[j] # "yes"
    BY <1>4, FirstExists
  <2>3. parseOllamaYesNo(answer) <=> yes < no
    BY <1>4 DEF parseOllamaYesNo
  <2> HIDE DEF no, yes
  <2>4. CASE yes < no
    <3>1. ASSUME NEW i \in DOMAIN answer, answer[i] = "no" PROVE yes \in 1 .. i
      BY <1>1, <2>1, <2>2, <2>4, <3>1
    <3>2. ~SaysNo(answer)
      BY <2>2, <3>1 DEF SaysNo
    <3> QED
      BY <2>3, <2>4, <3>2
  <2>5. CASE ~(yes < no)
    <3>1. \A j \in 1 .. no : answer[j] # "yes"
      BY <1>1, <2>1, <2>2, <2>5
    <3>2. SaysNo(answer)
      BY <2>1, <3>1 DEF SaysNo
    <3> QED
      BY <2>3, <2>5, <3>2
  <2> QED
    BY <2>4, <2>5
<1> QED
  BY <1>2, <1>3, <1>4

LEMMA Singleton ==
    ASSUME NEW w
    PROVE  /\ <<w>> \in Seq({w}) /\ Len(<<w>>) = 1 /\ <<w>>[1] = w
           /\ \A i \in DOMAIN <<w>> : i = 1
<1>1. <<w>> \in Seq({w}) /\ Len(<<w>>) = 1 /\ <<w>>[1] = w
  OBVIOUS
<1>2. DOMAIN <<w>> = 1 .. 1
  BY <1>1
<1>3. \A i \in 1 .. 1 : i = 1
  OBVIOUS
<1> QED
  BY <1>1, <1>2, <1>3

LEMMA AssessmentDecides ==
    ASSUME NEW answer \in Answers
    PROVE  assess(answer) <=> ~SaysNo(answer)
<1>1. CASE answer \in Silence
  <2>1. PICK w \in {"timeout", "status", "unreachable", "no text"} : answer = <<w>>
    BY <1>1 DEF Silence
  <2>2. answer[1] = w /\ \A i \in DOMAIN answer : i = 1
    BY <2>1, Singleton
  <2>3. w # "no"
    OBVIOUS
  <2>4. \A i \in DOMAIN answer : answer[i] # "no"
    BY <2>2, <2>3
  <2> QED
    BY <1>1, <2>4 DEF assess, SaysNo
<1>2. CASE answer \in Seq(Words) /\ answer \notin Silence
  BY <1>2, AnswerDecides DEF assess
<1> QED
  BY <1>1, <1>2 DEF Answers

LEMMA ReasonsAreKnown ==
    ASSUME NEW type \in ContentTypes, NEW name \in Names, NEW size \in Sizes,
           NEW answer \in Answers
    PROVE  KeptBackForAReason(type, name, size, answer,
                              IsUploaded(type, name, size, answer))
<1>1. assess(answer) <=> ~SaysNo(answer)
  BY AssessmentDecides
<1>2. \A base \in Images \cup Documents \cup Texts : base \notin Blocked
  BY DEF Images, Documents, Texts, Blocked
<1>3. \A base : base \in Images \cup {"text/plain", "text/csv"}
                  <=> base \in Images \cup (Texts \ {"text/html"})
  BY DEF Texts
<1> QED
  BY <1>1, <1>2, <1>3 DEF KeptBackForAReason, IsUploaded, isEmailAttachmentEligible, SignalTakes,
     isEligibleMime, parseContentTypeBase, AsksOllama

-----------------------------------------------------------------------------
(* Searches and marks.                                                     *)

LabelsOver(W) == [category : BOOLEAN, words : Seq(W) \ {<<>>}]

LEMMA OneWord ==
    ASSUME NEW W, NEW words \in Seq(W), Len(words) = 1
    PROVE  words = <<words[1]>> /\ ToSet(Tail(words)) = {}
<1>1. words = <<words[1]>>
  OBVIOUS
<1> DEFINE tail == Tail(words)
<1>2. tail \in Seq(W) /\ Len(tail) = Len(words) - 1
  <2>1. words # <<>>
    BY <1>1
  <2> QED
    BY <2>1, HeadTailProperties
<1> HIDE DEF tail
<1>3. DOMAIN tail = 1 .. Len(tail) /\ Len(tail) = 0
  BY <1>2
<1>4. DOMAIN tail = {}
  BY <1>3
<1> QED
  BY <1>1, <1>4 DEF ToSet, tail

\* A message that bears the mark is not found.
LEMMA MarkedIsHidden ==
    ASSUME NEW W, NEW mark \in LabelsOver(W), IsPlain(mark), NEW message,
           mark.words \in message.labels, NEW account
    PROVE  ~IsFound(message, buildSearch(mergeExcludeLabels(account, mark)))
<1>1. mark # NoLabel /\ mark.words = <<mark.words[1]>> /\ mark.category = FALSE
  BY OneWord DEF LabelsOver, IsPlain, NoLabel
<1>2. mark \in mergeExcludeLabels(account, mark)
  BY <1>1 DEF mergeExcludeLabels
<1>3. Excludes(mark) \in buildSearch(mergeExcludeLabels(account, mark)).not
  BY <1>2 DEF buildSearch
<1>4. Bears(message, Excludes(mark))
  BY <1>1 DEF Bears, Excludes
<1> QED
  BY <1>3, <1>4 DEF IsFound

\* A message that bears none of the labels is.
LEMMA UnmarkedIsFound ==
    ASSUME NEW W, NEW excluded \in SUBSET LabelsOver(W), NEW message,
           \A l \in excluded : /\ Len(l.words) = 1
                               /\ IF l.category THEN l.words[1] \notin message.categories
                                  ELSE l.words \notin message.labels
    PROVE  IsFound(message, buildSearch(excluded))
<1>1. \A l \in excluded : l.words = <<l.words[1]>> /\ Requires(l) = {}
  BY OneWord DEF LabelsOver, Requires
<1>2. ASSUME NEW l \in excluded PROVE ~Bears(message, Excludes(l))
  <2>1. l.category \in BOOLEAN
    BY DEF LabelsOver
  <2> QED
    BY <1>1, <2>1 DEF Bears, Excludes
<1>3. buildSearch(excluded).text = {}
  BY <1>1 DEF buildSearch
<1> QED
  BY <1>2, <1>3 DEF IsFound, buildSearch

LEMMA MarkAlwaysHides ==
    ASSUME NEW W, "promotions" \in W, NEW account \in SUBSET LabelsOver(W),
           NEW mark \in LabelsOver(W) \cup {NoLabel},
           NEW L, NEW message \in [labels : SUBSET L, categories : SUBSET W, text : SUBSET W]
    PROVE  MarkHides(message, account, mark, buildSearch(mergeExcludeLabels(account, mark)))
<1> DEFINE excluded == mergeExcludeLabels(account, mark)
<1>1. mark # NoLabel /\ IsPlain(mark) => ~IsFound(Marked(message, mark), buildSearch(excluded))
  <2> SUFFICES ASSUME mark # NoLabel, IsPlain(mark)
               PROVE  ~IsFound(Marked(message, mark), buildSearch(excluded))
    OBVIOUS
  <2>1. mark.words \in Marked(message, mark).labels
    BY DEF Marked
  <2> QED
    BY <2>1, MarkedIsHidden
<1>2. ASSUME \A l \in account \cup ({mark} \ {NoLabel}) : Len(l.words) = 1,
             \A l \in Defaults \cup account \cup ({mark} \ {NoLabel}) :
                IF l.category THEN l.words[1] \notin message.categories
                ELSE l.words \notin message.labels
      PROVE  IsFound(message, buildSearch(excluded))
  <2>1. \A l \in Defaults : l \in LabelsOver(W) /\ Len(l.words) = 1
    <3>1. <<"promotions">> \in Seq(W) /\ Len(<<"promotions">>) = 1 /\ <<"promotions">> # <<>>
      OBVIOUS
    <3>2. ASSUME NEW l \in Defaults
          PROVE  l = [category |-> TRUE, words |-> <<"promotions">>]
      BY DEF Defaults
    <3>3. [category |-> TRUE, words |-> <<"promotions">>] \in LabelsOver(W)
      BY <3>1 DEF LabelsOver
    <3>4. \A l \in Defaults : l.words = <<"promotions">>
      BY <3>2
    <3>5. \A l \in Defaults : l \in LabelsOver(W)
      BY <3>2, <3>3
    <3> QED
      BY <3>1, <3>4, <3>5
  <2>2. excluded \in SUBSET LabelsOver(W)
    BY <2>1 DEF mergeExcludeLabels
  <2>3. excluded = Defaults \cup account \cup ({mark} \ {NoLabel})
    BY DEF mergeExcludeLabels
  <2> HIDE DEF excluded
  <2> QED
    BY <1>2, <2>1, <2>2, <2>3, UnmarkedIsFound
<1> QED
  BY <1>1, <1>2 DEF MarkHides

-----------------------------------------------------------------------------
(* Payloads.                                                               *)

LEMMA FirstOfTwo ==
    ASSUME NEW a, NEW b
    PROVE  FirstGiven(<<a, b>>) = IF a # None THEN a ELSE b
<1> DEFINE s == <<a, b>>
           Hit(i) == s[i] # None /\ \A j \in 1 .. i - 1 : s[j] = None
<1>1. s[1] = a /\ s[2] = b /\ DOMAIN s = 1 .. 2
  OBVIOUS
<1> HIDE DEF s
<1>2. \A i \in DOMAIN s : i = 1 \/ i = 2
  BY <1>1
<1>3. (\A i \in DOMAIN s : s[i] = None) <=> a = None /\ b = None
  BY <1>1, <1>2
<1>4. Hit(1) <=> a # None
  BY <1>1
<1>5. Hit(2) <=> a = None /\ b # None
  <2>1. \A j \in 1 .. 1 : j = 1
    OBVIOUS
  <2> QED
    BY <1>1, <2>1
<1>6. FirstGiven(s) = IF a # None THEN a ELSE b
  <2> HIDE DEF Hit
  <2>1. CASE a = None /\ b = None
    BY <1>3, <2>1 DEF FirstGiven
  <2>2. CASE ~(a = None /\ b = None)
    <3>1. FirstGiven(s) = s[CHOOSE i \in DOMAIN s : Hit(i)]
      BY <1>3, <2>2 DEF FirstGiven, Hit
    <3>2. 1 \in DOMAIN s /\ 2 \in DOMAIN s
      BY <1>1
    <3>3. Hit(CHOOSE i \in DOMAIN s : Hit(i)) /\ (CHOOSE i \in DOMAIN s : Hit(i)) \in DOMAIN s
      BY <1>4, <1>5, <2>2, <3>2
    <3> QED
      BY <1>1, <1>2, <1>4, <1>5, <3>1, <3>3
  <2> QED
    BY <2>1, <2>2
<1> QED
  BY <1>6 DEF s

LEMMA FirstOfFour ==
    ASSUME NEW a, NEW b, NEW c, NEW d
    PROVE  FirstGiven(<<a, b, c, d>>) =
              IF a # None THEN a ELSE IF b # None THEN b ELSE IF c # None THEN c ELSE d
<1> DEFINE s == <<a, b, c, d>>
           Hit(i) == s[i] # None /\ \A j \in 1 .. i - 1 : s[j] = None
           AllNone == a = None /\ b = None /\ c = None /\ d = None
<1>1. s[1] = a /\ s[2] = b /\ s[3] = c /\ s[4] = d /\ DOMAIN s = 1 .. 4
  OBVIOUS
<1> HIDE DEF s
<1>2. \A i \in DOMAIN s : i = 1 \/ i = 2 \/ i = 3 \/ i = 4
  BY <1>1
<1>3. (\A i \in DOMAIN s : s[i] = None) <=> AllNone
  BY <1>1, <1>2
<1>4. Hit(1) <=> a # None
  BY <1>1
<1>5. Hit(2) <=> a = None /\ b # None
  <2>1. \A j \in 1 .. 1 : j = 1
    OBVIOUS
  <2> QED
    BY <1>1, <2>1
<1>6. Hit(3) <=> a = None /\ b = None /\ c # None
  <2>1. \A j : j \in 1 .. 2 <=> j = 1 \/ j = 2
    OBVIOUS
  <2> QED
    BY <1>1, <2>1
<1>7. Hit(4) <=> a = None /\ b = None /\ c = None /\ d # None
  <2>1. \A j : j \in 1 .. 3 <=> j = 1 \/ j = 2 \/ j = 3
    OBVIOUS
  <2> QED
    BY <1>1, <2>1
<1>8. FirstGiven(s) = IF a # None THEN a ELSE IF b # None THEN b ELSE IF c # None THEN c ELSE d
  <2>1. CASE AllNone
    BY <1>3, <2>1 DEF FirstGiven
  <2>2. CASE ~AllNone
    <3> DEFINE first == CHOOSE i \in DOMAIN s : Hit(i)
    <3>1. FirstGiven(s) = s[first]
      BY <1>3, <2>2 DEF FirstGiven
    <3> HIDE DEF Hit
    <3>2. 1 \in DOMAIN s /\ 2 \in DOMAIN s /\ 3 \in DOMAIN s /\ 4 \in DOMAIN s
      BY <1>1
    <3>3. \E i \in DOMAIN s : Hit(i)
      BY <1>4, <1>5, <1>6, <1>7, <2>2, <3>2
    <3>4. Hit(first) /\ first \in DOMAIN s
      BY <3>3
    <3> HIDE DEF first
    <3> QED
      BY <1>1, <1>2, <1>4, <1>5, <1>6, <1>7, <3>1, <3>4
  <2> QED
    BY <2>1, <2>2
<1> QED
  BY <1>8 DEF s

\* Each field stands at the top or in the envelope.
LEMMA WrappedFields ==
    ASSUME NEW message \in Messages, NEW shape \in Shapes, NEW f \in Fields
    PROVE  /\ Wrap(message, shape).top[f] = IF f \in shape.flat THEN message[f] ELSE None
           /\ getEnvelope(Wrap(message, shape))[f] = IF f \in shape.flat THEN None ELSE message[f]
<1> DEFINE envelope == [g \in Fields |-> IF g \in shape.flat THEN None ELSE message[g]]
           data == Wrap(message, shape)
<1>1. CASE shape.flat = Fields
  <2>1. data.envelopes = <<>> /\ DOMAIN data.envelopes = {}
    BY <1>1 DEF Wrap
  <2>2. getEnvelope(data) = Nothing
    BY <2>1 DEF getEnvelope
  <2> QED
    BY <1>1, <2>2 DEF Wrap, Nothing
<1>2. CASE shape.flat # Fields
  <2>1. data.envelopes = [w \in {shape.wrapper} |-> envelope]
    BY <1>2 DEF Wrap
  <2>2. shape.wrapper \in Wrappers
    BY DEF Shapes
  <2> HIDE DEF envelope
  <2>3. getEnvelope(data) = envelope
    BY <2>1, <2>2 DEF getEnvelope, Wrappers
  <2> QED
    BY <2>3 DEF Wrap, envelope
<1> QED
  BY <1>1, <1>2

LEMMA WrappedTypes ==
    ASSUME NEW message \in Messages, NEW shape \in Shapes
    PROVE  decodeWebhookPayload(Wrap(message, shape)) =
              IF message.sourceNumber = "null" THEN Empty ELSE Wrap(message, shape)
<1> DEFINE data == Wrap(message, shape)
           envelope == [g \in Fields |-> IF g \in shape.flat THEN None ELSE message[g]]
<1>1. "sourceNumber" \in Fields /\ message["sourceNumber"] = message.sourceNumber
  BY DEF Fields
<1>2. data.top["sourceNumber"]
         = IF "sourceNumber" \in shape.flat THEN message.sourceNumber ELSE None
  BY <1>1 DEF Wrap
<1>3. data.envelopes = IF shape.flat = Fields THEN <<>> ELSE [w \in {shape.wrapper} |-> envelope]
  BY DEF Wrap
<1>4. envelope["sourceNumber"]
         = IF "sourceNumber" \in shape.flat THEN None ELSE message.sourceNumber
  BY <1>1
<1> HIDE DEF data, envelope
<1>5. (WellTyped(data.top) /\ \A w \in DOMAIN data.envelopes : WellTyped(data.envelopes[w]))
         <=> message.sourceNumber # "null"
  <2>1. CASE shape.flat = Fields
    <3>1. DOMAIN data.envelopes = {}
      BY <1>3, <2>1
    <3> QED
      BY <1>1, <1>2, <2>1, <3>1 DEF WellTyped
  <2>2. CASE shape.flat # Fields
    <3>1. DOMAIN data.envelopes = {shape.wrapper} /\ data.envelopes[shape.wrapper] = envelope
      BY <1>3, <2>2
    <3>2. (\A w \in DOMAIN data.envelopes : WellTyped(data.envelopes[w])) <=> WellTyped(envelope)
      BY <3>1
    <3> QED
      BY <1>2, <1>4, <3>2 DEF WellTyped, None
  <2> QED
    BY <2>1, <2>2
<1> QED
  BY <1>5 DEF decodeWebhookPayload, data

LEMMA ShapesAgree ==
    ASSUME NEW message \in Messages, NEW shape \in Shapes
    PROVE  IsReadingOf(message, shape, Reading(Wrap(message, shape)))
<1> SUFFICES Reading(Wrap(message, shape)) =
                       IF message.dataMessage = None \/ message.sourceNumber = "null"
                            \/ Hides(message, shape)
                            \/ (message.source \notin {"number", "object"}
                                  /\ message.sourceNumber = None)
                       THEN <<>> ELSE <<"number", message.dataMessage>>
  BY DEF IsReadingOf
<1> DEFINE data == Wrap(message, shape)
           text == message.dataMessage
           sender == message.source
           number == message.sourceNumber
<1>1. /\ message["dataMessage"] = text /\ message["source"] = sender
      /\ message["sourceNumber"] = number
      /\ "dataMessage" \in Fields /\ "source" \in Fields /\ "sourceNumber" \in Fields
      /\ sender \in {None, "number", "object", "uuid"} /\ number \in {None, "number", "null"}
  BY DEF Fields, Messages
<1>2. CASE number = "null"
  <2>1. decodeWebhookPayload(data) = Empty
    BY <1>2, WrappedTypes
  <2>2. getEnvelope(Empty) = Nothing /\ Empty.top = Nothing
    <3>1. DOMAIN Empty.envelopes = {}
      BY DEF Empty
    <3> QED
      BY <3>1 DEF getEnvelope, Empty
  <2>3. getDataMessage(Empty) = None
    BY <1>1, <2>2, FirstOfTwo DEF getDataMessage, Nothing
  <2>4. Reading(data) = <<>>
    BY <2>1, <2>3 DEF Reading
  <2> QED
    BY <1>2, <2>4
<1>3. CASE number # "null"
  <2>1. decodeWebhookPayload(data) = data
    BY <1>3, WrappedTypes
  <2>2. /\ data.top["dataMessage"] = IF "dataMessage" \in shape.flat THEN text ELSE None
        /\ getEnvelope(data)["dataMessage"] = IF "dataMessage" \in shape.flat THEN None ELSE text
    BY <1>1, WrappedFields
  <2>3. /\ data.top["source"] = IF "source" \in shape.flat THEN sender ELSE None
        /\ getEnvelope(data)["source"] = IF "source" \in shape.flat THEN None ELSE sender
    BY <1>1, WrappedFields
  <2>4. /\ data.top["sourceNumber"] = IF "sourceNumber" \in shape.flat THEN number ELSE None
        /\ getEnvelope(data)["sourceNumber"] = IF "sourceNumber" \in shape.flat THEN None ELSE number
    BY <1>1, WrappedFields
  <2>5. Hides(message, shape) <=>
           sender = "uuid" /\ ~("sourceNumber" \in shape.flat /\ "source" \notin shape.flat)
    BY DEF Hides
  <2> HIDE DEF data, text, sender, number
  <2>6. getDataMessage(data) = text
    BY <2>2, FirstOfTwo DEF getDataMessage
  <2> DEFINE given == FirstGiven(<<data.top["source"], data.top["sourceNumber"],
                                   getEnvelope(data)["source"], getEnvelope(data)["sourceNumber"]>>)
  <2>7. given = IF data.top["source"] # None THEN data.top["source"]
                ELSE IF data.top["sourceNumber"] # None THEN data.top["sourceNumber"]
                ELSE IF getEnvelope(data)["source"] # None THEN getEnvelope(data)["source"]
                ELSE getEnvelope(data)["sourceNumber"]
    BY FirstOfFour
  <2>8. resolveSignalSource(data) = IF given \in {"number", "object"} THEN "number" ELSE None
    BY DEF resolveSignalSource
  <2> HIDE DEF given
  <2>9. given \in {"number", "object"} <=>
           ~(Hides(message, shape) \/ (sender \notin {"number", "object"} /\ number = None))
    BY <1>1, <1>3, <2>3, <2>4, <2>5, <2>7 DEF None
  <2>10. Reading(data) = IF text = None \/ resolveSignalSource(data) = None THEN <<>>
                         ELSE <<resolveSignalSource(data), text>>
    BY <2>1, <2>6 DEF Reading
  <2>11. Reading(data) = IF text = None \/ number = "null" \/ Hides(message, shape)
                              \/ (sender \notin {"number", "object"} /\ number = None)
                         THEN <<>> ELSE <<"number", text>>
    BY <1>3, <2>8, <2>9, <2>10 DEF None
  <2> QED
    BY <2>11 DEF data, text, sender, number
<1> QED
  BY <1>2, <1>3

-----------------------------------------------------------------------------
(* Entries of email-accounts.json.                                         *)

DetailsOver(H, M, P) ==
    {[type |-> "gmail"]} \cup
    [type : {"generic_imap"}, host : H, mailbox : M, secure : BOOLEAN, port : P]

EntriesOver(L, H, M, P) ==
    [enabled : BOOLEAN, removed : {"missing", "true", "false"},
     exclude_labels : L, details : DetailsOver(H, M, P)]

\* The details of an account are what they were, whatever mark it was loaded with.
LEMMA DetailsReturn ==
    ASSUME NEW H, NEW M, NEW P, NEW details \in DetailsOver(H, M, P), NEW written
    PROVE  imapConfigToDetails(resolveImapConfig(details, written)) = details
<1>1. CASE details = [type |-> "gmail"]
  <2>1. resolveImapConfig(details, written) = GmailPreset(written)
    BY <1>1 DEF resolveImapConfig
  <2>2. GmailPreset(written).provider = "gmail"
    BY DEF GmailPreset
  <2> QED
    BY <1>1, <2>1, <2>2 DEF imapConfigToDetails
<1>2. CASE details \in [type : {"generic_imap"}, host : H, mailbox : M, secure : BOOLEAN, port : P]
  <2> DEFINE config == resolveImapConfig(details, written)
  <2>1. details.type = "generic_imap"
    BY <1>2
  <2>2. /\ config.provider = "generic" /\ config.host = details.host
        /\ config.port = details.port /\ config.secure = details.secure
        /\ config.mailbox = details.mailbox
    BY <2>1 DEF resolveImapConfig
  <2> HIDE DEF config
  <2>3. imapConfigToDetails(config)
          = [type |-> "generic_imap", host |-> details.host, mailbox |-> details.mailbox,
             secure |-> details.secure, port |-> details.port]
    BY <2>2 DEF imapConfigToDetails
  <2>4. details = [type |-> "generic_imap", host |-> details.host, mailbox |-> details.mailbox,
                   secure |-> details.secure, port |-> details.port]
    BY <1>2
  <2> QED
    BY <2>3, <2>4 DEF config
<1> QED
  BY <1>1, <1>2 DEF DetailsOver

LEMMA EntriesReturn ==
    ASSUME NEW L, NEW H, NEW M, NEW P, NEW entry \in EntriesOver(L, H, M, P),
           NEW written, NEW later
    PROVE  Load(Save(Load(entry, written)), later) = Load(entry, later)
<1> DEFINE loaded == Load(entry, written)
           saved == Save(loaded)
<1>1. /\ loaded.status = IF entry.removed = "true" THEN "removed"
                         ELSE IF entry.enabled THEN "active" ELSE "paused"
      /\ loaded.excludeLabels = IF entry.exclude_labels = <<"missing">> THEN <<>>
                                ELSE entry.exclude_labels
      /\ loaded.imapConfig = resolveImapConfig(entry.details, written)
  BY DEF Load
<1> HIDE DEF loaded
<1>2. /\ saved.enabled <=> loaded.status = "active"
      /\ saved.removed = IF loaded.status = "removed" THEN "true" ELSE "false"
      /\ saved.exclude_labels = loaded.excludeLabels
      /\ saved.details = imapConfigToDetails(loaded.imapConfig)
  BY DEF Save
<1> HIDE DEF saved
<1>3. entry.details \in DetailsOver(H, M, P) /\ entry.enabled \in BOOLEAN
  BY DEF EntriesOver
<1>4. saved.details = entry.details
  BY <1>1, <1>2, <1>3, DetailsReturn
<1>5. (IF saved.removed = "true" THEN "removed" ELSE IF saved.enabled THEN "active" ELSE "paused")
        = IF entry.removed = "true" THEN "removed"
          ELSE IF entry.enabled THEN "active" ELSE "paused"
  BY <1>1, <1>2, <1>3
<1>6. (IF saved.exclude_labels = <<"missing">> THEN <<>> ELSE saved.exclude_labels)
        = IF entry.exclude_labels = <<"missing">> THEN <<>> ELSE entry.exclude_labels
  <2>1. <<>> # <<"missing">>
    OBVIOUS
  <2> QED
    BY <1>1, <1>2, <2>1
<1>7. Load(saved, later) = Load(entry, later)
  BY <1>4, <1>5, <1>6 DEF Load
<1> QED
  BY <1>7 DEF saved, loaded

-----------------------------------------------------------------------------
(* What is read is an input of its kind, and what the code makes of it.    *)

Understood ==
    /\ read = <<>> \/ \E value : read = <<value>>
    /\ kind = "attachment" => input \in Attachment
    /\ kind = "search" => input \in Searches
    /\ kind = "payload" => input \in Payloads
    /\ kind = "entry" => input \in Saves
    /\ HasRead("attachment") =>
          (read[1] <=> IsUploaded(input.type, input.name, input.size, input.answer))
    /\ HasRead("search") => read[1] = buildSearch(mergeExcludeLabels(input.account, input.mark))
    /\ HasRead("payload") => read[1] = Reading(Wrap(input.message, input.shape))
    /\ HasRead("entry") => read[1] = Load(Save(Load(input.entry, input.written)), input.later)

LEMMA WhatIsUnderstood == Spec => []Understood
<1>1. Init => Understood
  BY DEF Init, Understood, HasRead
<1>2. Understood /\ [Next]_vars => Understood'
  <2> SUFFICES ASSUME Understood, [Next]_vars PROVE Understood'
    OBVIOUS
  <2>1. CASE ReadAttachment
    BY <2>1 DEF ReadAttachment, Understood, HasRead, Of
  <2>2. CASE ReadSearch
    BY <2>2 DEF ReadSearch, Understood, HasRead, Of
  <2>3. CASE ReadPayload
    BY <2>3 DEF ReadPayload, Understood, HasRead, Of
  <2>4. CASE ReadEntry
    BY <2>4 DEF ReadEntry, Understood, HasRead, Of
  <2>5. CASE UNCHANGED vars
    BY <2>5 DEF vars, Understood, HasRead
  <2> QED
    BY <2>1, <2>2, <2>3, <2>4, <2>5 DEF Next
<1> QED
  BY <1>1, <1>2, PTL DEF Spec

(***************************************************************************)
(* Spec keeps NothingElseIsKeptBack, for answers of any number of words:   *)
(* what Signal would store and the email run does not is a small image, a  *)
(* file with a junk name, or refused by Ollama (core/eligibility.ts,       *)
(* parseOllamaYesNo, assess).                                              *)
(***************************************************************************)
THEOREM OnlyThreeReasons == Spec => []NothingElseIsKeptBack
<1>1. Understood => NothingElseIsKeptBack
  <2> SUFFICES ASSUME Understood, HasRead("attachment")
               PROVE  KeptBackForAReason(input.type, input.name, input.size, input.answer, read[1])
    BY DEF NothingElseIsKeptBack
  <2>1. input \in Attachment
    BY DEF Understood, HasRead
  <2>2. /\ input.type \in ContentTypes /\ input.name \in Names
        /\ input.size \in Sizes /\ input.answer \in Answers
    BY <2>1 DEF Attachment
  <2>3. read[1] <=> IsUploaded(input.type, input.name, input.size, input.answer)
    BY DEF Understood
  <2>4. KeptBackForAReason(input.type, input.name, input.size, input.answer,
                           IsUploaded(input.type, input.name, input.size, input.answer))
    BY <2>2, ReasonsAreKnown
  <2> QED
    BY <2>3, <2>4 DEF KeptBackForAReason
<1> QED
  BY <1>1, WhatIsUnderstood, PTL

(***************************************************************************)
(* Spec keeps MarkHidesMessage: the label a run marks a message with takes *)
(* it out of the next search, and labels of one word take out nothing else *)
(* (buildGmailSearchString, mergeExcludeLabels).  MarkAlwaysHides says it  *)
(* of labels of any words.                                                 *)
(***************************************************************************)
THEOREM MarksHide == Spec => []MarkHidesMessage
<1> DEFINE W == {"bills", "paperless", "bot", "promotions"}
           S == {<<"bills">>, <<"paperless">>, <<"paperless", "bot">>}
<1>1. S \subseteq Seq(W) \ {<<>>}
  OBVIOUS
<1>2. Labels \subseteq LabelsOver(W)
  BY <1>1 DEF Labels, LabelsOver
<1>3. Mails \subseteq [labels : SUBSET S, categories : SUBSET W, text : SUBSET W]
  BY DEF Mails, MessageLabels
<1>4. "promotions" \in W
  OBVIOUS
<1>5. Understood => MarkHidesMessage
  <2> SUFFICES ASSUME Understood, HasRead("search")
               PROVE  MarkHides(input.mail, input.account, input.mark, read[1])
    BY DEF MarkHidesMessage
  <2>1. input \in Searches
    BY DEF Understood, HasRead
  <2>2. read[1] = buildSearch(mergeExcludeLabels(input.account, input.mark))
    BY DEF Understood
  <2>3. /\ input.mail \in Mails /\ input.account \in SUBSET Labels
        /\ input.mark \in Labels \cup {NoLabel}
    BY <2>1 DEF Searches
  <2> DEFINE mails == [labels : SUBSET S, categories : SUBSET W, text : SUBSET W]
  <2>4. /\ input.mail \in mails
        /\ input.account \in SUBSET LabelsOver(W) /\ input.mark \in LabelsOver(W) \cup {NoLabel}
    BY <1>2, <1>3, <2>3
  <2> HIDE DEF W, S
  <2>5. MarkHides(input.mail, input.account, input.mark,
                  buildSearch(mergeExcludeLabels(input.account, input.mark)))
    BY <1>4, <2>4, MarkAlwaysHides
  <2> QED
    BY <2>2, <2>5
<1> QED
  BY <1>5, WhatIsUnderstood, PTL

(***************************************************************************)
(* Spec keeps ShapeDoesNotMatter: in every shape signal-cli may give a     *)
(* payload the bot finds the same sender and the same message              *)
(* (getEnvelope, getDataMessage, resolveSignalSource).                     *)
(***************************************************************************)
THEOREM ShapesDoNotMatter == Spec => []ShapeDoesNotMatter
<1>1. Understood => ShapeDoesNotMatter
  <2> SUFFICES ASSUME Understood, HasRead("payload")
               PROVE  IsReadingOf(input.message, input.shape, read[1])
    BY DEF ShapeDoesNotMatter
  <2>1. input.message \in Messages /\ input.shape \in Shapes
    BY DEF Understood, HasRead, Payloads
  <2>2. read[1] = Reading(Wrap(input.message, input.shape))
    BY DEF Understood
  <2> QED
    BY <2>1, <2>2, ShapesAgree
<1> QED
  BY <1>1, WhatIsUnderstood, PTL

(***************************************************************************)
(* Spec keeps OtherAccountsSurvive: an account that is loaded with one     *)
(* mark and saved is later loaded, with any other, as it would have been   *)
(* (accountFromMetadata, accountToSerializable).  EntriesReturn says it of *)
(* entries with any labels, hosts, mailboxes and ports.                    *)
(***************************************************************************)
THEOREM OthersSurvive == Spec => []OtherAccountsSurvive
<1> DEFINE L == LabelLists \cup {<<"missing">>}
<1>1. Details = DetailsOver({"own"}, {"own", "INBOX"}, {993, 143})
  BY DEF Details, DetailsOver
<1>2. Entries = EntriesOver(L, {"own"}, {"own", "INBOX"}, {993, 143})
  BY <1>1 DEF Entries, EntriesOver
<1>3. Understood => OtherAccountsSurvive
  <2> HIDE DEF L
  <2> SUFFICES ASSUME Understood, HasRead("entry")
               PROVE  read[1] = Load(input.entry, input.later)
    BY DEF OtherAccountsSurvive, IsAsNeverSaved
  <2>1. input.entry \in Entries
    BY DEF Understood, HasRead, Saves
  <2>2. read[1] = Load(Save(Load(input.entry, input.written)), input.later)
    BY DEF Understood
  <2> QED
    BY <1>2, <2>1, <2>2, EntriesReturn
<1> QED
  BY <1>3, WhatIsUnderstood, PTL
=============================================================================
