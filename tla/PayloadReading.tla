--------------------------- MODULE PayloadReading ---------------------------
(***************************************************************************)
(* How the bot reads what others have written: who a webhook comes from    *)
(* and what it says, whatever shape signal-cli gives it, and the entries   *)
(* of email-accounts.json.  Pure functions of the code, and what they are  *)
(* to agree with.                                                          *)
(***************************************************************************)
EXTENDS Naturals, Sequences

-----------------------------------------------------------------------------
(* The webhook's payload (domain/signal-types.ts).                         *)

None == "none"

(***************************************************************************)
(* What a sender may be given as: "number" is an E.164 number, "object"    *)
(* one in { number }, "uuid" a string that is no number, "null" a null,    *)
(* which is not among the types of the field.                              *)
(***************************************************************************)
Messages == [source : {None, "number", "object", "uuid"},
             sourceNumber : {None, "number", "null"},
             dataMessage : {None, "text", "files"}]
Fields == {"source", "sourceNumber", "dataMessage"}
Nothing == [f \in Fields |-> None]

\* Where signal-cli may put the envelope; fields may also stand at the top level.
Wrappers == {"envelope", "params.envelope", "params.result.envelope"}
Shapes == [wrapper : Wrappers, flat : SUBSET Fields]

(***************************************************************************)
(* A payload: its fields at the top level, and envelopes where it has any. *)
(***************************************************************************)
Wrap(message, shape) ==
    [top |-> [f \in Fields |-> IF f \in shape.flat THEN message[f] ELSE None],
     envelopes |-> IF shape.flat = Fields THEN <<>>
                   ELSE [w \in {shape.wrapper} |->
                            [f \in Fields |-> IF f \in shape.flat THEN None ELSE message[f]]]]

WellTyped(fields) == fields["sourceNumber"] # "null"
Empty == [top |-> Nothing, envelopes |-> <<>>]

\* A payload that does not have the types of the schema counts as an empty one.
decodeWebhookPayload(body) ==
    IF WellTyped(body.top) /\ \A w \in DOMAIN body.envelopes : WellTyped(body.envelopes[w])
    THEN body ELSE Empty

\* Mutant: an envelope in params.result is overlooked.
BugGetEnvelope(data) ==
    IF "envelope" \in DOMAIN data.envelopes THEN data.envelopes["envelope"]
    ELSE IF "params.envelope" \in DOMAIN data.envelopes THEN data.envelopes["params.envelope"]
    ELSE Nothing

getEnvelope(data) ==
    IF "envelope" \in DOMAIN data.envelopes THEN data.envelopes["envelope"]
    ELSE IF "params.envelope" \in DOMAIN data.envelopes THEN data.envelopes["params.envelope"]
    ELSE IF "params.result.envelope" \in DOMAIN data.envelopes
    THEN data.envelopes["params.result.envelope"]
    ELSE Nothing

FirstGiven(values) ==
    IF \A i \in DOMAIN values : values[i] = None THEN None
    ELSE values[CHOOSE i \in DOMAIN values :
                    values[i] # None /\ \A j \in 1 .. i - 1 : values[j] = None]

getDataMessage(data) == FirstGiven(<<data.top["dataMessage"], getEnvelope(data)["dataMessage"]>>)

\* The first of the four that is given decides, and is to be a number.
resolveSignalSource(data) ==
    LET given == FirstGiven(<<data.top["source"], data.top["sourceNumber"],
                              getEnvelope(data)["source"], getEnvelope(data)["sourceNumber"]>>)
    IN  IF given \in {"number", "object"} THEN "number" ELSE None

\* processWebhookPayload goes on only with a message and a source.
Reading(body) ==
    LET data == decodeWebhookPayload(body) IN
        IF getDataMessage(data) = None \/ resolveSignalSource(data) = None THEN <<>>
        ELSE <<resolveSignalSource(data), getDataMessage(data)>>

(***************************************************************************)
(* A sender and a message are found in whatever shape they come, or in     *)
(* none; they are found when the sender is given by number, and not when   *)
(* the number is hidden (a source that is no number, a sourceNumber that   *)
(* is null).  A source that is no number hides a number that is there, but *)
(* not when that one stands at the top level and the source does not.      *)
(***************************************************************************)
Hides(message, shape) ==
    message.source = "uuid" /\ ~("sourceNumber" \in shape.flat /\ "source" \notin shape.flat)

IsReadingOf(message, shape, reading) ==
    reading =
        IF message.dataMessage = None \/ message.sourceNumber = "null"
             \/ Hides(message, shape)
             \/ (message.source \notin {"number", "object"} /\ message.sourceNumber = None)
        THEN <<>> ELSE <<"number", message.dataMessage>>

-----------------------------------------------------------------------------
(* The entries of email-accounts.json (domain/account.ts, shell/runtime.ts,*)
(* domain/imap-provider.ts).                                               *)

(***************************************************************************)
(* removed and exclude_labels may be missing.  The details of a generic    *)
(* account are its own; a Gmail account has none.  Values not told apart   *)
(* here are "own" and "preset".                                            *)
(***************************************************************************)
Details == {[type |-> "gmail"]} \cup
           [type : {"generic_imap"}, host : {"own"}, mailbox : {"own", "INBOX"},
            secure : BOOLEAN, port : {993, 143}]
LabelLists == {<<>>, <<"bills">>, <<"bills", "spam">>}
Entries == [enabled : BOOLEAN, removed : {"missing", "true", "false"},
            exclude_labels : LabelLists \cup {<<"missing">>}, details : Details]
MarkLabels == {"paperless", "done", ""}

GmailPreset(mark) == [provider |-> "gmail", host |-> "preset", port |-> 993, secure |-> TRUE,
                      mailbox |-> "All Mail", strategy |-> "label", mark |-> mark]

resolveImapConfig(details, mark) ==
    IF details.type = "gmail" THEN GmailPreset(mark)
    ELSE [provider |-> "generic", host |-> details.host, port |-> details.port,
          secure |-> details.secure, mailbox |-> details.mailbox, strategy |-> "flag",
          mark |-> IF mark = "" THEN "$Paperless" ELSE mark]

\* Mutant: the port of an account is not saved.
BugImapConfigToDetails(config) ==
    IF config.provider = "gmail" THEN [type |-> "gmail"]
    ELSE [type |-> "generic_imap", host |-> config.host, mailbox |-> config.mailbox,
          secure |-> config.secure, port |-> 993]

imapConfigToDetails(config) ==
    IF config.provider = "gmail" THEN [type |-> "gmail"]
    ELSE [type |-> "generic_imap", host |-> config.host, mailbox |-> config.mailbox,
          secure |-> config.secure, port |-> config.port]

\* accountFromMetadata, after the schema has filled in what is missing.
Load(entry, mark) ==
    [status |-> IF entry.removed = "true" THEN "removed"
                ELSE IF entry.enabled THEN "active" ELSE "paused",
     excludeLabels |-> IF entry.exclude_labels = <<"missing">> THEN <<>> ELSE entry.exclude_labels,
     imapConfig |-> resolveImapConfig(entry.details, mark)]

\* accountToSerializable.
Save(account) ==
    [enabled |-> account.status = "active",
     removed |-> IF account.status = "removed" THEN "true" ELSE "false",
     exclude_labels |-> account.excludeLabels,
     details |-> imapConfigToDetails(account.imapConfig)]

(***************************************************************************)
(* Every command writes back every account it has loaded, some with        *)
(* "paperless" for the label where the configuration says another: what a  *)
(* later run reads of an account a command did not change is what it would *)
(* have read before.                                                       *)
(***************************************************************************)
IsAsNeverSaved(entry, mark, account) == account = Load(entry, mark)
=============================================================================
