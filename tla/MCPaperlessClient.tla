------------------------- MODULE MCPaperlessClient -------------------------
(***************************************************************************)
(* Two fibers of the bot and an email run, all of them uploading with the  *)
(* tags a document of the bot has: the user's own and "signal".            *)
(***************************************************************************)
EXTENDS PaperlessClient, TLC

CONSTANTS f1, f2, m1, bot, mail, d1, user, signal

Processes == [f \in Callers |-> IF f = m1 THEN mail ELSE bot]
Tagged == [d \in Docs |-> <<user, signal>>]
FiberSymmetry == Permutations({f1, f2})
=============================================================================
