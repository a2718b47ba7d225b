---------------------------- MODULE MimeStructure ----------------------------
(***************************************************************************)
(* Which parts of a message are attachments, and the numbers the email run *)
(* asks for them by (core/imap-body-structure.ts), in relation to those of *)
(* IMAP.                                                                   *)
(***************************************************************************)
EXTENDS Naturals, Sequences, FiniteSets, SequencesExt

(***************************************************************************)
(* A node of the MIME structure: kind "attachment" has that disposition,   *)
(* "part" another or none, and "broken" is no structure at all.            *)
(***************************************************************************)
Nodes(children) ==
    {[kind |-> k, kids |-> c] : k \in {"part", "attachment"}, c \in children}
        \cup {[kind |-> "broken", kids |-> <<>>]}

RECURSIVE Structures(_)
\* Structures of a depth, each node with up to two children.
Structures(depth) ==
    Nodes(IF depth = 0 THEN {<<>>}
          ELSE {<<>>} \cup UNION {[1 .. n -> Structures(depth - 1)] : n \in {1, 2}})

RECURSIVE Collect(_, _)

\* Mutant: children that are no structure are not counted.
BugCollect(node, prefix) ==
    IF node.kind = "broken" THEN <<>>
    ELSE LET partId == IF prefix = <<>> THEN <<1>> ELSE prefix
             self == IF node.kind = "attachment" THEN <<partId>> ELSE <<>>
             kids == SelectSeq(node.kids, LAMBDA n : n.kind # "broken")
         IN  self \o FlattenSeq([i \in DOMAIN kids |-> Collect(kids[i], Append(partId, i))])

\* collectAttachmentParts: the number each attachment is asked for by.
Collect(node, prefix) ==
    IF node.kind = "broken" THEN <<>>
    ELSE LET partId == IF prefix = <<>> THEN <<1>> ELSE prefix
             self == IF node.kind = "attachment" THEN <<partId>> ELSE <<>>
         IN  self \o FlattenSeq([i \in DOMAIN node.kids |->
                                    Collect(node.kids[i], Append(partId, i))])

\* The nodes of a structure by their paths from the root.
At(root, path) ==
    FoldLeft(LAMBDA found, i : {n.kids[i] : n \in {m \in found : i \in DOMAIN m.kids}},
             {root}, path)
AttachmentPaths(root, depth) ==
    {path \in BoundedSeq({1, 2}, depth) : \E n \in At(root, path) : n.kind = "attachment"}

\* IMAP numbers the parts of a multipart message, and a message of one part is part 1.
ImapNumber(path) == IF path = <<>> THEN <<1>> ELSE path

Precedes(p, q) ==
    \/ IsStrictPrefix(p, q)
    \/ \E i \in DOMAIN p \cap DOMAIN q : p[i] < q[i] /\ \A j \in 1 .. i - 1 : p[j] = q[j]

(***************************************************************************)
(* Each attachment is asked for once, in the order of the message.  The    *)
(* number is the one IMAP gives it only in a message that is a single      *)
(* part; in one of several parts it is that number behind "1.", which for  *)
(* the server is a part of the message's first part.                       *)
(***************************************************************************)
PartNumbers(root, parts, depth) ==
    LET paths == AttachmentPaths(root, depth) IN
        /\ Len(parts) = Cardinality(paths)
        /\ ToSet(parts) = {IF path = <<>> THEN ImapNumber(path) ELSE <<1>> \o ImapNumber(path) :
                               path \in paths}
        /\ \A i, j \in DOMAIN parts : i < j => Precedes(parts[i], parts[j])
=============================================================================
