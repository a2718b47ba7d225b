--------------------------- MODULE MCAccountStore ---------------------------
(***************************************************************************)
(* The account store as TLC checks it, and the abstract registry it        *)
(* implements when commands do not overlap.                                *)
(***************************************************************************)
EXTENDS AccountStore, TLC

\* No action and no property tells one email from another.
EmailSymmetry == Permutations(Emails)

\* Nor one fiber from another.
ConcurrentSymmetry == Permutations(Emails) \union Permutations(Fibers)

\* The accounts set up by hand are active: commands reach the other states.
ActiveInit ==
    /\ Init
    /\ \A e \in DOMAIN file.list : file.list[e] = [status |-> "active", profile |-> "custom"]
ConcurrentSpec == ActiveInit /\ [][Next]_vars

\* What a load would return for e.
Effective(e) ==
    IF e \in DOMAIN file.list /\ secrets[e] # NoPassword THEN file.list[e]
    ELSE [status |-> "absent", profile |-> "gmail"]

Effectives == [e \in Emails |-> Effective(e)]

Registry == INSTANCE AccountRegistry WITH
    registry <- Effectives,
    Absent <- [status |-> "absent", profile |-> "gmail"]

(***************************************************************************)
(* With one command at a time every step of the store, a failed call or a  *)
(* crash included, is one step of one account's life cycle or changes no   *)
(* account (updateAccountStatus, validateAndUpsertAccount, saveAllAccounts)*)
(***************************************************************************)
ImplementsRegistry == Registry!RegistrySpec

(***************************************************************************)
(* With several fibers at once the same holds of every step that is taken  *)
(* before two commands that change accounts have overlapped: a status, a   *)
(* failure or a crash in between, and saves one after the other.           *)
(***************************************************************************)
MovesAreOrderly == [][~raced => [Registry!RegistryNext]_Effectives]_vars

(***************************************************************************)
(* domain/account.ts:19 says that removed is terminal: a removed entry     *)
(* gets another status only while an add of that account is running.       *)
(***************************************************************************)
RemovedIsTerminal ==
    [][\A e \in DOMAIN file.list \intersect DOMAIN file'.list :
          /\ file.list[e].status = "removed"
          /\ file'.list[e].status # "removed"
          => \E f \in Fibers : fiber[f].cmd.op = "add" /\ fiber[f].cmd.email = e]_vars
=============================================================================
