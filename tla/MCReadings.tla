----------------------------- MODULE MCReadings -----------------------------
(***************************************************************************)
(* The readings as TLC checks them, with answers up to a length, and the   *)
(* structures of messages up to a depth.                                   *)
(***************************************************************************)
EXTENDS Readings, MimeStructure

CONSTANTS
    Depth,      \* depth of the MIME structures
    MaxWords    \* words of an answer of Ollama

BoundedAttachment ==
    [type : ContentTypes, name : Names, size : Sizes,
     answer : Silence \cup BoundedSeq(Words, MaxWords)]

BoundedInit ==
    /\ read = <<>>
    /\ \/ kind = "structure" /\ input \in Structures(Depth)
       \/ kind = "attachment" /\ input \in BoundedAttachment
       \/ kind = "search" /\ input \in Searches
       \/ kind = "payload" /\ input \in Payloads
       \/ kind = "entry" /\ input \in Saves

ReadStructure ==
    /\ Of("structure")
    /\ read' = <<Collect(input, <<>>)>>
    /\ UNCHANGED <<kind, input>>

BoundedNext == ReadStructure \/ Next

BoundedSpec == BoundedInit /\ [][BoundedNext]_vars

-----------------------------------------------------------------------------
\* Part numbers in relation to those of IMAP: see PartNumbers.
PartsAreNumbered == HasRead("structure") => PartNumbers(input, read[1], Depth)
=============================================================================
