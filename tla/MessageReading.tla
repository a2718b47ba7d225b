--------------------------- MODULE MessageReading ---------------------------
(***************************************************************************)
(* How the email pipeline reads what it is given: which messages a search  *)
(* asks for, which attachments are eligible, and what Ollama's answer      *)
(* means.  Pure functions of the code, and what they are to agree with.    *)
(* Strings are taken apart as far as the code does: a type into its base   *)
(* and the rest, a label and an answer into words.                         *)
(***************************************************************************)
EXTENDS Naturals, Sequences, SequencesExt

-----------------------------------------------------------------------------
(* Which attachments are kept (core/eligibility.ts, core/ollama.ts).       *)

Images == {"image/png", "image/octet-stream"}
Documents == {"application/pdf", "application/msword",
              "application/vnd.openxmlformats-officedocument.x", "application/rtf"}
Texts == {"text/plain", "text/html", "text/csv"}
Blocked == {"text/calendar", "application/ics", "text/x-vcard", "text/vcard",
            "application/pgp-signature", "application/pkcs7-signature",
            "application/x-pkcs7-signature", "message/rfc822"}
Others == {"application/octet-stream", "video/mp4", "text/octet-stream"}
BaseTypes == Images \cup Documents \cup Texts \cup Blocked \cup Others

(***************************************************************************)
(* A content type as it is written: its base, and whether it stands there  *)
(* alone and in lower case.  Sizes are relative to the limits: an image is *)
(* to have 100000 bytes, anything at most 25 MiB.                          *)
(***************************************************************************)
ContentTypes == [base : BaseTypes, bare : BOOLEAN]
Sizes == {"below the image minimum", "the image minimum", "the maximum", "above the maximum"}
Names == {"none", "junk", "other"}

parseContentTypeBase(type) == type.base
isEligibleMime(base) == base \in Images \cup Documents \cup Texts

isEmailAttachmentEligible(type, name, size) ==
    LET base == parseContentTypeBase(type)
    IN  /\ base \notin Blocked
        /\ ~(base \in Images /\ size = "below the image minimum")
        /\ name # "junk"
        /\ isEligibleMime(base)

\* buildOllamaRequest: whether there is anything to ask.
AsksOllama(type) == parseContentTypeBase(type) \in Images \cup {"text/plain", "text/csv"}

(***************************************************************************)
(* An answer is a sequence of words; what is not one is a call that timed  *)
(* out, failed, or came back with a status or a body that says nothing.    *)
(***************************************************************************)
Words == {"yes", "no", "other"}
Silence == {<<"timeout">>, <<"status">>, <<"unreachable">>, <<"no text">>}

FirstAt(answer, word) == CHOOSE i \in DOMAIN answer :
    answer[i] = word /\ \A j \in 1 .. i - 1 : answer[j] # word

\* Mutant: a no anywhere is a no.
BugYesNo(answer) == "no" \notin ToSet(answer)

parseOllamaYesNo(answer) ==
    LET hasYes == "yes" \in ToSet(answer)
        hasNo == "no" \in ToSet(answer)
    IN  IF hasYes /\ hasNo THEN FirstAt(answer, "yes") < FirstAt(answer, "no") ELSE ~hasNo

assess(answer) == answer \in Silence \/ parseOllamaYesNo(answer)

\* From fetchPart to processItem.
IsUploaded(type, name, size, answer) ==
    /\ size # "above the maximum"
    /\ isEmailAttachmentEligible(type, name, size)
    /\ AsksOllama(type) => assess(answer)

\* Signal messages have no names to go by and no least size.
SignalTakes(type, size) == size # "above the maximum" /\ isEligibleMime(type.base)

SaysNo(answer) ==
    \E i \in DOMAIN answer : answer[i] = "no" /\ \A j \in 1 .. i : answer[j] # "yes"

(***************************************************************************)
(* What the same file would be worth if it came by Signal, the email run   *)
(* keeps back for three reasons only: it is a small image, it has a junk   *)
(* name, or it is an image or a plain text and Ollama's answer says no     *)
(* before it says yes.  The list of blocked types takes away nothing, and  *)
(* no failure of Ollama does.                                              *)
(***************************************************************************)
KeptBackForAReason(type, name, size, answer, uploaded) ==
    uploaded <=>
        /\ SignalTakes(type, size)
        /\ ~(type.base \in Images /\ size = "below the image minimum")
        /\ name # "junk"
        /\ ~(type.base \in Images \cup (Texts \ {"text/html"}) /\ SaysNo(answer))

-----------------------------------------------------------------------------
(* Which messages are asked for (core/search.ts).                          *)

(***************************************************************************)
(* A label is its words, and whether it is written "category:...".  A      *)
(* message has labels, categories and a text.                              *)
(***************************************************************************)
Labels == [category : BOOLEAN, words : {<<"bills">>, <<"paperless">>, <<"paperless", "bot">>}]
NoLabel == [category |-> FALSE, words |-> <<>>]
Defaults == {[category |-> TRUE, words |-> <<"promotions">>]}

\* Mutant: the label that marks what is done is left out.
BugMergeExcludeLabels(account, mark) == Defaults \cup account

mergeExcludeLabels(account, mark) == Defaults \cup account \cup ({mark} \ {NoLabel})

(***************************************************************************)
(* buildGmailSearchString writes "-label:" or "-category:" before a label; *)
(* for the search that operator ends with the first word, and the others   *)
(* are words to be found in the message.                                   *)
(***************************************************************************)
Excludes(label) == [op |-> IF label.category THEN "category" ELSE "label", word |-> label.words[1]]
Requires(label) == ToSet(Tail(label.words))

buildSearch(excluded) ==
    [not |-> {Excludes(l) : l \in excluded}, text |-> UNION {Requires(l) : l \in excluded}]

\* A message as Gmail searches it: "label:" goes by the whole name of a label.
Bears(message, term) ==
    IF term.op = "category" THEN term.word \in message.categories
    ELSE <<term.word>> \in message.labels

IsFound(message, search) ==
    /\ \A term \in search.not : ~Bears(message, term)
    /\ search.text \subseteq message.text

\* markProcessed: the label of this name, whatever it looks like.
Marked(message, mark) ==
    IF mark = NoLabel THEN message ELSE [message EXCEPT !.labels = @ \cup {mark.words}]

IsPlain(label) == ~label.category /\ Len(label.words) = 1

(***************************************************************************)
(* A message that has been marked is found by no later search, as long as  *)
(* the label is one word and no category; and a search whose labels are    *)
(* all of one word passes over no message that bears none of them.         *)
(***************************************************************************)
MarkHides(message, account, mark, search) ==
    /\ mark # NoLabel /\ IsPlain(mark) => ~IsFound(Marked(message, mark), search)
    /\ (\A l \in account \cup ({mark} \ {NoLabel}) : Len(l.words) = 1)
          /\ (\A l \in Defaults \cup account \cup ({mark} \ {NoLabel}) :
                IF l.category THEN l.words[1] \notin message.categories
                ELSE l.words \notin message.labels)
            => IsFound(message, search)
=============================================================================
