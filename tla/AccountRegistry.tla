--------------------------- MODULE AccountRegistry ---------------------------
(***************************************************************************)
(* What the account store promises: every account lives through the state  *)
(* machine of domain/account.ts, one account changing at a time, and an    *)
(* account that was removed comes back only by being added again.  An      *)
(* account is here what a load would return: an entry with a password.     *)
(***************************************************************************)
CONSTANTS Emails, Statuses, Profiles, Absent

VARIABLE registry

Present(e) == registry[e] # Absent

Set(e, status) == registry' = [registry EXCEPT ![e].status = status]

RegistryInit ==
    registry \in [Emails -> [status : Statuses, profile : Profiles] \union {Absent}]

Add(e) ==
    registry' = [registry EXCEPT ![e] =
        [status |-> "active", profile |-> IF Present(e) THEN registry[e].profile ELSE "gmail"]]

Pause(e) == Present(e) /\ registry[e].status = "active" /\ Set(e, "paused")

Resume(e) == Present(e) /\ registry[e].status = "paused" /\ Set(e, "active")

Remove(e) == Present(e) /\ registry[e].status # "removed" /\ Set(e, "removed")

\* The password of a removed account is deleted, and with it the account.
Forget(e) ==
    /\ Present(e)
    /\ registry[e].status = "removed"
    /\ registry' = [registry EXCEPT ![e] = Absent]

RegistryNext == \E e \in Emails : Add(e) \/ Pause(e) \/ Resume(e) \/ Remove(e) \/ Forget(e)

RegistrySpec == RegistryInit /\ [][RegistryNext]_registry
=============================================================================
