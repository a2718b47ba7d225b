------------------------------ MODULE Readings ------------------------------
(***************************************************************************)
(* One input at a time is read, of every kind the bot reads, and the       *)
(* answers of Ollama may be of any length.  A behaviour is one reading.    *)
(***************************************************************************)
EXTENDS MessageReading, PayloadReading

VARIABLES
    kind,   \* what is read
    input,  \* the input
    read    \* what the code makes of it, <<>> before

vars == <<kind, input, read>>

Answers == Silence \cup Seq(Words)
Attachment == [type : ContentTypes, name : Names, size : Sizes, answer : Answers]
MessageLabels == SUBSET {<<"bills">>, <<"paperless">>, <<"paperless", "bot">>}
Mails == [labels : MessageLabels, categories : SUBSET {"promotions", "paperless"},
          text : SUBSET {"bot"}]
Searches == [mail : Mails, account : SUBSET Labels, mark : Labels \cup {NoLabel}]
Payloads == [message : Messages, shape : Shapes]
\* An entry, the mark of the command that saves it and that of the run that reads it then.
Saves == [entry : Entries, written : MarkLabels, later : MarkLabels]

Init ==
    /\ read = <<>>
    /\ \/ kind = "attachment" /\ input \in Attachment
       \/ kind = "search" /\ input \in Searches
       \/ kind = "payload" /\ input \in Payloads
       \/ kind = "entry" /\ input \in Saves

Of(k) == kind = k /\ read = <<>>

ReadAttachment ==
    /\ Of("attachment")
    /\ read' = <<IsUploaded(input.type, input.name, input.size, input.answer)>>
    /\ UNCHANGED <<kind, input>>

ReadSearch ==
    /\ Of("search")
    /\ read' = <<buildSearch(mergeExcludeLabels(input.account, input.mark))>>
    /\ UNCHANGED <<kind, input>>

ReadPayload ==
    /\ Of("payload")
    /\ read' = <<Reading(Wrap(input.message, input.shape))>>
    /\ UNCHANGED <<kind, input>>

ReadEntry ==
    /\ Of("entry")
    /\ read' = <<Load(Save(Load(input.entry, input.written)), input.later)>>
    /\ UNCHANGED <<kind, input>>

Next == ReadAttachment \/ ReadSearch \/ ReadPayload \/ ReadEntry

Spec == Init /\ [][Next]_vars

HasRead(k) == kind = k /\ read # <<>>

-----------------------------------------------------------------------------
\* An email's attachment is kept back for three reasons only: see KeptBackForAReason.
NothingElseIsKeptBack ==
    HasRead("attachment") =>
        KeptBackForAReason(input.type, input.name, input.size, input.answer, read[1])

\* The mark hides a message from the next search, and nothing else does: see MarkHides.
MarkHidesMessage ==
    HasRead("search") => MarkHides(input.mail, input.account, input.mark, read[1])

\* Sender and message do not depend on the payload's shape: see IsReadingOf.
ShapeDoesNotMatter ==
    HasRead("payload") => IsReadingOf(input.message, input.shape, read[1])

\* A command changes no account but its own: see IsAsNeverSaved.
OtherAccountsSurvive ==
    HasRead("entry") => IsAsNeverSaved(input.entry, input.later, read[1])
=============================================================================
