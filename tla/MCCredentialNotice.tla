------------------------- MODULE MCCredentialNotice -------------------------
(***************************************************************************)
(* Accounts of which the second belongs to nobody the configuration knows. *)
(***************************************************************************)
EXTENDS CredentialNotice

CONSTANTS a1, a2, a3

TwoAccounts == <<a1, a3>>
ThreeAccounts == <<a1, a2, a3>>
OwnedOnes == {a1, a3}
=============================================================================
