-------------------------- MODULE CredentialNotice --------------------------
(***************************************************************************)
(* The Signal message about a mailbox whose password no longer works       *)
(* (shell/credential-failure.ts).  An email run reads the accounts and     *)
(* their passwords, and tries the active ones in order; the first that     *)
(* fails ends the run.  If the failure speaks of a refused login, the      *)
(* owner is told on the way out, unless the rate limiter has seen the      *)
(* address within the throttle period.  The limiter lives in the memory of *)
(* the process, and a run is a process of its own.                         *)
(***************************************************************************)
EXTENDS Naturals, Sequences, FiniteSetsExt

CONSTANTS
    Order,       \* the accounts of email-accounts.json, in its order
    Owned,       \* those whose addedBy is a configured user
    Throttle,    \* credential_failure_throttle_hours, in periods of time
    MaxFaults    \* bound on failures of other kinds

ASSUME ThrottleAssumption == Throttle \in Nat \ {0} /\ MaxFaults \in Nat

VARIABLES
    refused,  \* accounts whose stored password the server refuses
    paused,   \* accounts that are not active
    run,      \* the process: what it is doing, places left in the file, bad passwords
    limiter,  \* limiter[a]: periods since the process took the token of a
    told,     \* told[a]: periods since the owner of a was told
    faults    \* failures of other kinds so far

accounts == <<refused, paused>>
vars == <<accounts, run, limiter, told, faults>>

Places == DOMAIN Order
Accounts == {Order[i] : i \in Places}

ASSUME OrderAssumption == Order \in Seq(Accounts)

\* Periods are counted up to Throttle, which also stands for never.
Ages == 0 .. Throttle
LongAgo == [a \in Accounts |-> Throttle]
PCs == {"idle", "connect", "limit", "account", "send"}
Stopped == [pc |-> "idle", left |-> {}, bad |-> {}]
\* The first account that is left.
Current == Order[Min(run.left)]

TypeOK ==
    /\ refused \subseteq Accounts
    /\ paused \subseteq Accounts
    /\ run \in [pc : PCs, left : SUBSET Places, bad : SUBSET Accounts]
    /\ run.pc \in PCs \ {"idle", "connect"} => run.left # {} /\ Current \in Owned
    /\ limiter \in [Accounts -> Ages]
    /\ told \in [Accounts -> Ages]
    /\ faults \in 0 .. MaxFaults

Init ==
    /\ refused \in SUBSET Accounts
    /\ paused \in SUBSET Accounts
    /\ run = Stopped
    /\ limiter = LongAgo
    /\ told = LongAgo
    /\ faults = 0

-----------------------------------------------------------------------------
(* What goes on around the runs.                                           *)

\* Time passes; what is Throttle periods old stays that old.
Tick ==
    /\ limiter' = [a \in Accounts |-> IF limiter[a] < Throttle THEN limiter[a] + 1 ELSE Throttle]
    /\ told' = [a \in Accounts |-> IF told[a] < Throttle THEN told[a] + 1 ELSE Throttle]
    /\ UNCHANGED <<accounts, run, faults>>

\* A password stops working, for a run that has read it already too.
Revoke(a) ==
    /\ refused' = refused \cup {a}
    /\ run' = IF run.pc = "idle" THEN run ELSE [run EXCEPT !.bad = @ \cup {a}]
    /\ UNCHANGED <<paused, limiter, told, faults>>

\* gmail add with a new password; a run goes on with the one it has read.
Renew(a) ==
    /\ refused' = refused \ {a}
    /\ paused' = paused \ {a}
    /\ UNCHANGED <<run, limiter, told, faults>>

\* The commands pause, remove and resume.
Pause(a) == paused' = paused \cup {a} /\ UNCHANGED <<refused, run, limiter, told, faults>>
Resume(a) == paused' = paused \ {a} /\ UNCHANGED <<refused, run, limiter, told, faults>>

-----------------------------------------------------------------------------
(* A run.                                                                  *)

\* Mutant: the accounts are not filtered by their status.
BugActiveAccounts == Places

\* loadAllAccounts and isActiveAccount.
ActiveAccounts == {i \in Places : Order[i] \notin paused}

\* Mutant: the limiter is one that outlives the process.
BugFreshLimiter == limiter

\* The layer of the process holds a limiter with an empty store.
FreshLimiter == LongAgo

\* The timer, or a person, starts a process.
StartRun ==
    /\ run.pc = "idle"
    /\ run' = [pc |-> "connect", left |-> ActiveAccounts, bad |-> refused]
    /\ limiter' = FreshLimiter
    /\ UNCHANGED <<accounts, told, faults>>

EndRun ==
    /\ run.pc = "connect"
    /\ run.left = {}
    /\ run' = Stopped
    /\ UNCHANGED <<accounts, limiter, told, faults>>

AccountWorks ==
    /\ run.pc = "connect"
    /\ run.left # {}
    /\ Current \notin run.bad
    /\ run' = [run EXCEPT !.left = @ \ {Min(@)}]
    /\ UNCHANGED <<accounts, limiter, told, faults>>

\* Mutant: the owner is not looked up among the users.
BugLoginRefused ==
    /\ run.pc = "connect"
    /\ run.left # {}
    /\ Current \in run.bad
    /\ run' = [run EXCEPT !.pc = "limit"]
    /\ UNCHANGED <<accounts, limiter, told, faults>>

(***************************************************************************)
(* onProcessAccountError, for an error isAuthFailure knows: the owner is   *)
(* looked up among the users, and without one nobody is told.              *)
(***************************************************************************)
LoginRefused ==
    /\ run.pc = "connect"
    /\ run.left # {}
    /\ Current \in run.bad
    /\ run' = IF Current \in Owned THEN [run EXCEPT !.pc = "limit"] ELSE Stopped
    /\ UNCHANGED <<accounts, limiter, told, faults>>

(***************************************************************************)
(* The token is taken before anything is sent; nothing gives it back when  *)
(* sending fails.                                                          *)
(***************************************************************************)
TakeToken ==
    /\ run.pc = "limit"
    /\ IF limiter[Current] = Throttle
       THEN /\ limiter' = [limiter EXCEPT ![Current] = 0]
            /\ run' = [run EXCEPT !.pc = "account"]
       ELSE /\ run' = Stopped
            /\ UNCHANGED limiter
    /\ UNCHANGED <<accounts, told, faults>>

GetAccount ==
    /\ run.pc = "account"
    /\ run' = [run EXCEPT !.pc = "send"]
    /\ UNCHANGED <<accounts, limiter, told, faults>>

\* The error that ended the account's turn ends the run.
SendMessage ==
    /\ run.pc = "send"
    /\ told' = [told EXCEPT ![Current] = 0]
    /\ run' = Stopped
    /\ UNCHANGED <<accounts, limiter, faults>>

(***************************************************************************)
(* A failure that ends the run and tells nobody: an account's turn ends    *)
(* with an error isAuthFailure does not know, no Signal account is found,  *)
(* the message is refused, or the process is killed.                       *)
(***************************************************************************)
RunFails ==
    /\ run.pc # "idle"
    /\ faults < MaxFaults
    /\ faults' = faults + 1
    /\ run' = Stopped
    /\ UNCHANGED <<accounts, limiter, told>>

-----------------------------------------------------------------------------
RunStep ==
    \/ StartRun \/ EndRun \/ AccountWorks \/ LoginRefused
    \/ TakeToken \/ GetAccount \/ SendMessage

Next ==
    \/ RunStep \/ RunFails \/ Tick
    \/ \E a \in Accounts : Revoke(a) \/ Renew(a) \/ Pause(a) \/ Resume(a)

\* The timer starts runs for ever, and a run that is not killed goes on.
Spec == Init /\ [][Next]_vars /\ WF_vars(RunStep)

-----------------------------------------------------------------------------
(***************************************************************************)
(* A run that a refused login of an owned account brings to its end has    *)
(* told the owner, or something else failed on the way: the token taken    *)
(* for a message that is never sent silences no later run, as the limiter  *)
(* goes with the process.                                                  *)
(***************************************************************************)
RefusalIsTold ==
    [][run.pc \in {"limit", "account", "send"} /\ run'.pc = "idle"
            => told'[Current] = 0 \/ faults' > faults]_vars

(***************************************************************************)
(* An account whose password stays refused comes to its owner's ears, if   *)
(* it stays active and each account before it in the file stays out of the *)
(* way, by a password that works or by being paused (a refused one would   *)
(* end every run first); failed runs, lost messages and runs that have     *)
(* read an older state only put it off.                                    *)
(***************************************************************************)
Due(a) == a \in (refused \cap Owned) \ paused
Before(a) == {Order[j] : j \in {k \in DOMAIN Order : \E i \in DOMAIN Order : k < i /\ Order[i] = a}}
OutOfTheWay(b) == <>[](b \notin refused) \/ <>[](b \in paused)

EventuallyTold ==
    \A a \in Accounts :
        <>[]Due(a) /\ (\A b \in Before(a) : OutOfTheWay(b)) => []<>(told[a] = 0)

(***************************************************************************)
(* "Hours between credential failure notifications per email (default 24)" *)
(* (config.ts:80): the time since the owner was told goes back to nothing  *)
(* only when it has reached the throttle.                                  *)
(***************************************************************************)
NoticesAreThrottled ==
    [][\A a \in Accounts : told'[a] = 0 => told[a] \in {0, Throttle}]_vars
=============================================================================
