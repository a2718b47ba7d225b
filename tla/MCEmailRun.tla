----------------------------- MODULE MCEmailRun -----------------------------
(***************************************************************************)
(* Instances of EmailRun, and what the documentation says of the pipeline  *)
(* that a run shows to be otherwise.                                       *)
(***************************************************************************)
EXTENDS EmailRun, TLC

CONSTANTS a1, a2, a3, a4, p1, p2

OneAccount == <<a1>>
\* Two entries of one address, a third account, and one that cannot connect.
TwinsFirst == <<a1, a2, a3, a4>>
TwinAddress == [a \in {a1, a2, a3, a4} |-> IF a = a2 THEN a1 ELSE a]
OfFirst == {a1}
OfThird == {a3}
OfLast == {a4}
NoAccounts == {}

ProcessSymmetry == Permutations(Processes)

MimePart(path, type, size) == [path |-> path, type |-> type, size |-> size]

(***************************************************************************)
(* "pdf" is a message of one part, whose number is its own, "newsletter"   *)
(* one with nothing to store.  "ordinary" is text and a PDF: there is no   *)
(* part "1.2".  "nested" has an image within HTML, an image, and a PDF:    *)
(* each of the two is asked for by the number of the one before; in        *)
(* "heavy" the first is over the limit.                                    *)
(***************************************************************************)
Nested(inline) ==
    <<MimePart(<<1, 1, 2>>, "inline", inline), MimePart(<<1, 2>>, "image", "fits"),
      MimePart(<<2>>, "plain", "fits")>>

Mail ==
    [pdf        |-> <<MimePart(<<>>, "plain", "fits")>>,
     newsletter |-> <<MimePart(<<>>, "junk", "fits")>>,
     ordinary   |-> <<MimePart(<<2>>, "plain", "fits")>>,
     nested     |-> Nested("fits"),
     heavy      |-> Nested("huge")]

(***************************************************************************)
(* Mail for the third account only: what lies in the other mailboxes takes *)
(* part in nothing the property speaks of.                                 *)
(***************************************************************************)
NextForThird == (\E p \in Processes : RunStep(p) \/ Failure(p)) \/ Arrive(a3)
MailForThird == Init /\ [][NextForThird]_vars /\ Fairness

-----------------------------------------------------------------------------
(***************************************************************************)
(* "Label-based crawl: search -label:paperless" (email-pipeline.ts:4): a   *)
(* message that is marked is not uploaded again.  Only Gmail is searched   *)
(* by label; a generic account is asked for all it has, flag or no flag.   *)
(***************************************************************************)
MarkedIsLeftAlone ==
    [][\A att \in Attachments :
        att[2] \in marked[att[1]] => uploads'[att] = uploads[att]]_vars

=============================================================================
