---------------------------- MODULE AccountStore ----------------------------
(***************************************************************************)
(* The account store of the bot and the Signal commands that change it.    *)
(*                                                                         *)
(* An account's metadata is an entry of email-accounts.json; its password  *)
(* is an entry of the system keychain.  Each webhook forks a fiber, so     *)
(* several commands may run at once, and nothing in the code locks: every  *)
(* await (a file-system call, a keychain call) is a step of its own here.  *)
(* A command loads the whole store (loadAllAccounts), changes one account, *)
(* and writes the whole store back (saveAllAccounts): the JSON through a   *)
(* temporary file of one fixed name, then the passwords one by one.        *)
(*                                                                         *)
(* The JSON array is modelled as a function from emails to entries: the    *)
(* order of the array only orders the keychain calls of one load or save,  *)
(* and the model lets them happen in any order.  Several entries of one    *)
(* address, which somebody may write into the file by hand, are left out:  *)
(* upsertAccount replaces the entry of an email, so that no command makes  *)
(* two of them; of two made by hand a command would change the first only. *)
(***************************************************************************)
EXTENDS Naturals, Functions

CONSTANTS
    Emails,      \* addresses of email accounts
    NoEmail,     \* the address of a command that names none
    Passwords,   \* app passwords
    NoPassword,  \* what the keychain answers for an unknown email
    InitialPassword,  \* the password of an account that was set up by hand
    Fibers,      \* fibers that process webhooks
    MaxFaults    \* bound on failed calls and crashes

ASSUME EmailAssumption == NoEmail \notin Emails
ASSUME PasswordAssumption == /\ NoPassword \notin Passwords
                             /\ InitialPassword \in Passwords
ASSUME FaultAssumption == MaxFaults \in Nat

Statuses == {"active", "paused", "removed"}

(***************************************************************************)
(* profile stands for exclude_labels and details (the IMAP settings):      *)
(* "gmail" is what a new account gets, "custom" what was edited by hand.   *)
(***************************************************************************)
Profiles == {"gmail", "custom"}
Entry == [status : Statuses, profile : Profiles]
Account == [status : Statuses, profile : Profiles, password : Passwords \union {NoPassword}]

ListsOf(V) == UNION {[S -> V] : S \in SUBSET Emails}
Registries == ListsOf(Entry)
Loads == ListsOf(Account)

NoAccounts == [e \in {} |-> "none"]

(***************************************************************************)
(* What a file holds.  "empty" is a file just truncated by open(2), "torn" *)
(* the bytes of two overlapping writes, which are not valid JSON.          *)
(***************************************************************************)
Contents == [form : {"whole"}, list : Registries]
              \union [form : {"missing", "empty", "torn"}, list : {NoAccounts}]

Whole(registry) == [form |-> "whole", list |-> registry]
NoFile == [form |-> "missing", list |-> NoAccounts]
Truncated == [form |-> "empty", list |-> NoAccounts]
Torn == [form |-> "torn", list |-> NoAccounts]

Commands == [op : {"add"}, email : Emails, password : Passwords]
              \union [op : {"pause", "resume", "remove"}, email : Emails, password : {NoPassword}]
              \union [op : {"status"}, email : {NoEmail}, password : {NoPassword}]

PCs == {"idle", "read", "secrets", "open", "write", "rename", "sync"}

(***************************************************************************)
(* A fiber: the command it runs, the accounts it has loaded (and changed), *)
(* the emails whose keychain call is still to be made, whether a resume    *)
(* has passed its first look-up, and the inode its open file descriptor    *)
(* writes to: the one now named .tmp, the one now named email-accounts.json*)
(* or one that has no name any more.                                       *)
(***************************************************************************)
FiberState == [pc : PCs, cmd : Commands, accounts : Loads, todo : SUBSET Emails,
               checked : BOOLEAN, handle : {"none", "tmp", "file", "gone"}]

VARIABLES
    file,      \* email-accounts.json
    tmp,       \* email-accounts.json.tmp
    secrets,   \* the keychain
    fiber,     \* the state of every fiber
    faults,    \* failures so far
    given,     \* history: <<email, password>> pairs the store was told of
    promise,   \* history: what the last answer about an account told the user
    raced,     \* history: two commands that change accounts have been in progress at once
    contended  \* history: two fibers have been writing .tmp at once

store == <<file, tmp, secrets>>
history == <<given, promise, raced, contended>>
vars == <<store, fiber, faults, history>>

(***************************************************************************)
(* promise[e]: "scanned" after "Added", "Re-activated" or "Resumed",       *)
(* "unscanned" after "Paused" or "No account found", "removed" after       *)
(* "Removed", "none" while a later command on e has not been answered.     *)
(***************************************************************************)
Promises == [kind : {"none", "unscanned", "removed"}, password : {NoPassword}]
              \union [kind : {"scanned"}, password : Passwords \union {NoPassword}]
Nothing == [kind |-> "none", password |-> NoPassword]

StatusCommand == [op |-> "status", email |-> NoEmail, password |-> NoPassword]
Idle == [pc |-> "idle", cmd |-> StatusCommand, accounts |-> NoAccounts, todo |-> {},
         checked |-> FALSE, handle |-> "none"]

TypeOK ==
    /\ file \in Contents
    /\ tmp \in Contents
    /\ secrets \in [Emails -> Passwords \union {NoPassword}]
    /\ fiber \in [Fibers -> FiberState]
    /\ faults \in 0 .. MaxFaults
    /\ given \in SUBSET (Emails \X (Passwords \union {NoPassword}))
    /\ promise \in [Emails -> Promises]
    /\ raced \in BOOLEAN
    /\ contended \in BOOLEAN

(***************************************************************************)
(* The accounts set up by hand before the bot starts (README: generic IMAP *)
(* accounts are entered in the file and their passwords in the keychain).  *)
(***************************************************************************)
Init ==
    /\ \/ file = NoFile
       \/ \E registry \in Registries : file = Whole(registry)
    /\ tmp = NoFile
    /\ \E known \in SUBSET Emails :
           secrets = [e \in Emails |-> IF e \in known THEN InitialPassword ELSE NoPassword]
    /\ fiber = [f \in Fibers |-> Idle]
    /\ faults = 0
    /\ given = {<<e, secrets[e]>> :
                    e \in {e \in Emails : e \in DOMAIN file.list \/ secrets[e] # NoPassword}}
    /\ promise = [e \in Emails |-> Nothing]
    /\ raced = FALSE
    /\ contended = FALSE

-----------------------------------------------------------------------------
(* The pure functions of domain/account.ts, core/account.ts and runtime.ts. *)
(* The operators named Bug... are wrong on purpose: each differs from the   *)
(* definition after it by one plausible mistake, which a property detects.  *)

\* Without the checks of the state the account is in.
BugTransition(account, status) == [account EXCEPT !.status = status]

Transition(account, status) ==
    LET moves == CASE status = "removed" -> TRUE
                   [] status = "active" -> account.status = "paused"
                   [] status = "paused" -> account.status = "active"
    IN  IF moves THEN [account EXCEPT !.status = status] ELSE account

\* Spreading the old account over the new password.
BugUpsertKeeps(accounts, e, password) ==
    [x \in DOMAIN accounts \union {e} |->
        IF x # e THEN accounts[x]
        ELSE IF e \in DOMAIN accounts THEN [accounts[e] EXCEPT !.status = "active"]
        ELSE [status |-> "active", profile |-> "gmail", password |-> password]]

\* Mapping the change over every account.
BugUpsertAll(accounts, e, password) ==
    [x \in DOMAIN accounts \union {e} |->
        [status |-> "active",
         profile |-> IF x \in DOMAIN accounts THEN accounts[x].profile ELSE "gmail",
         password |-> password]]

Upsert(accounts, e, password) ==
    [x \in DOMAIN accounts \union {e} |->
        IF x # e THEN accounts[x]
        ELSE [status |-> "active",
              profile |-> IF e \in DOMAIN accounts THEN accounts[e].profile ELSE "gmail",
              password |-> password]]

\* The password written to the file with the rest.
BugSerialized(accounts) == accounts

Serialized(accounts) ==
    [e \in DOMAIN accounts |->
        [status |-> accounts[e].status, profile |-> accounts[e].profile]]

Target(op) == CASE op = "pause" -> "paused" [] op = "resume" -> "active" [] op = "remove" -> "removed"

(***************************************************************************)
(* What the store holds once the fiber's change is applied to its load.    *)
(***************************************************************************)
Changed(cmd, accounts) ==
    IF cmd.op = "add" THEN Upsert(accounts, cmd.email, cmd.password)
    ELSE [accounts EXCEPT ![cmd.email] = Transition(@, Target(cmd.op))]

-----------------------------------------------------------------------------
(* Receiving and answering.                                                *)

Running(f) == fiber[f].pc # "idle"
Mutating(f) == Running(f) /\ fiber[f].cmd.op # "status"

Becomes(f, state) == fiber' = [fiber EXCEPT ![f] = state]

Finish(f) == Becomes(f, Idle)

Promise(e, kind, password) ==
    promise' = [promise EXCEPT ![e] = [kind |-> kind, password |-> password]]

(***************************************************************************)
(* webhookHandler forks a fiber, whatever else is running, and the fiber   *)
(* dispatches its command.                                                 *)
(***************************************************************************)
Receive(f) ==
    /\ fiber[f].pc = "idle"
    /\ \E cmd \in Commands :
        /\ Becomes(f, [Idle EXCEPT !.pc = "read", !.cmd = cmd, !.checked = (cmd.op # "resume")])
        /\ given' = given \union (IF cmd.op = "add" THEN {<<cmd.email, cmd.password>>} ELSE {})
        /\ promise' = [e \in Emails |-> IF e = cmd.email THEN Nothing ELSE promise[e]]
    /\ raced' = (raced \/ (Mutating(f)' /\ \E g \in Fibers : Mutating(g)))
    /\ UNCHANGED <<store, faults, contended>>

-----------------------------------------------------------------------------
(* loadAllAccounts.                                                        *)

\* The entries, of one address each, before their passwords are known.
Parsed(registry) ==
    [e \in DOMAIN registry |-> [status |-> registry[e].status, profile |-> registry[e].profile,
                                password |-> NoPassword]]

(***************************************************************************)
(* A missing or empty file is an empty store; a torn one is a              *)
(* ConfigParseError, which ends the command with a log line and no answer. *)
(***************************************************************************)
ReadFile(f) ==
    /\ fiber[f].pc = "read"
    /\ IF file.form = "torn"
       THEN Finish(f)
       ELSE Becomes(f, [fiber[f] EXCEPT !.pc = "secrets",
                                        !.todo = DOMAIN file.list,
                                        !.accounts = Parsed(file.list)])
    /\ UNCHANGED <<store, faults, history>>

(***************************************************************************)
(* An entry without a password is left out of the load.                    *)
(***************************************************************************)
WithSecret(accounts, e, password) ==
    IF password = NoPassword THEN Restrict(accounts, DOMAIN accounts \ {e})
    ELSE [accounts EXCEPT ![e].password = password]

FetchSecret(f) ==
    /\ fiber[f].pc = "secrets"
    /\ \E e \in fiber[f].todo :
        Becomes(f, [fiber[f] EXCEPT !.todo = @ \ {e}, !.accounts = WithSecret(@, e, secrets[e])])
    /\ UNCHANGED <<store, faults, history>>

Loaded(f) == fiber[f].pc = "secrets" /\ fiber[f].todo = {}
Found(f) == fiber[f].cmd.email \in DOMAIN fiber[f].accounts

-----------------------------------------------------------------------------
(* What each handler does with the accounts it has loaded.                 *)

AnswerStatus(f) ==
    /\ Loaded(f)
    /\ fiber[f].cmd.op = "status"
    /\ Finish(f)
    /\ UNCHANGED <<store, faults, history>>

(***************************************************************************)
(* A resume that finds no account answers so at its first look-up, and not *)
(* at all at its second: the answer there depends on what the second one   *)
(* returned.                                                               *)
(***************************************************************************)
AnswerNotFound(f) ==
    /\ Loaded(f)
    /\ fiber[f].cmd.op \in {"pause", "resume", "remove"}
    /\ ~Found(f)
    /\ Finish(f)
    /\ IF fiber[f].cmd.op = "resume" /\ fiber[f].checked
       THEN UNCHANGED promise
       ELSE Promise(fiber[f].cmd.email, "unscanned", NoPassword)
    /\ UNCHANGED <<store, faults, given, raced, contended>>

CheckResume(f) ==
    /\ Loaded(f)
    /\ Found(f)
    /\ fiber[f].cmd.op = "resume"
    /\ ~fiber[f].checked
    /\ IF fiber[f].accounts[fiber[f].cmd.email].status = "removed"
       THEN /\ Finish(f)
            /\ Promise(fiber[f].cmd.email, "unscanned", NoPassword)
       ELSE /\ Becomes(f, [fiber[f] EXCEPT !.pc = "read", !.checked = TRUE,
                                            !.accounts = NoAccounts])
            /\ UNCHANGED promise
    /\ UNCHANGED <<store, faults, given, raced, contended>>

Change(f) ==
    /\ Loaded(f)
    /\ fiber[f].cmd.op # "status"
    /\ fiber[f].checked
    /\ fiber[f].cmd.op = "add" \/ Found(f)
    /\ Becomes(f, [fiber[f] EXCEPT !.pc = "open", !.accounts = Changed(fiber[f].cmd, @)])
    /\ UNCHANGED <<store, faults, history>>

-----------------------------------------------------------------------------
(* saveAllAccounts: atomicWriteJson, then the keychain.                    *)

Writing(f) == fiber[f].pc \in {"write", "rename"}

\* Writing email-accounts.json in place.
BugOpenInPlace(f) ==
    /\ fiber[f].pc = "open"
    /\ file' = Truncated
    /\ Becomes(f, [fiber[f] EXCEPT !.pc = "write", !.handle = "file"])
    /\ contended' = (contended \/ \E g \in Fibers \ {f} : Writing(g))
    /\ UNCHANGED <<tmp, secrets, faults, given, promise, raced>>

(***************************************************************************)
(* writeFileString opens the temporary file, which truncates the inode of  *)
(* that name or makes a new one ...                                        *)
(***************************************************************************)
OpenTmp(f) ==
    /\ fiber[f].pc = "open"
    /\ tmp' = Truncated
    /\ Becomes(f, [fiber[f] EXCEPT !.pc = "write", !.handle = "tmp"])
    /\ contended' = (contended \/ \E g \in Fibers \ {f} : Writing(g))
    /\ UNCHANGED <<file, secrets, faults, given, promise, raced>>

(***************************************************************************)
(* ... and writes at the start of its own descriptor.  Over a longer text  *)
(* another fiber put there meanwhile, the end of that text stays.          *)
(***************************************************************************)
Overwritten(old, new) ==
    IF old \in {Truncated, new} THEN {new} ELSE {new, Torn}

WriteTmp(f) ==
    LET new == Whole(Serialized(fiber[f].accounts)) IN
    /\ fiber[f].pc = "write"
    /\ CASE fiber[f].handle = "tmp" -> tmp' \in Overwritten(tmp, new) /\ UNCHANGED file
         [] fiber[f].handle = "file" -> file' \in Overwritten(file, new) /\ UNCHANGED tmp
         [] OTHER -> UNCHANGED <<file, tmp>>
    /\ Becomes(f, [fiber[f] EXCEPT !.pc = "rename", !.handle = "none"])
    /\ UNCHANGED <<secrets, faults, history>>

(***************************************************************************)
(* The name .tmp moves, whatever inode bears it: descriptors that were     *)
(* open on it now write to email-accounts.json.  Without a .tmp the call   *)
(* fails and ends the command.                                             *)
(***************************************************************************)
Moved(handle) == CASE handle = "tmp" -> "file" [] handle = "file" -> "gone" [] OTHER -> handle

RenameTmp(f) ==
    /\ fiber[f].pc = "rename"
    /\ IF tmp = NoFile
       THEN Finish(f) /\ UNCHANGED <<file, tmp>>
       ELSE /\ file' = tmp
            /\ tmp' = NoFile
            /\ fiber' = [g \in Fibers |->
                  IF g = f THEN [fiber[f] EXCEPT !.pc = "sync", !.todo = DOMAIN fiber[f].accounts]
                  ELSE [fiber[g] EXCEPT !.handle = Moved(@)]]
    /\ UNCHANGED <<secrets, faults, history>>

\* No deletePassword.
BugSavedSecret(account) == account.password

\* deletePassword for a removed account, setPassword for any other.
SavedSecret(account) == IF account.status = "removed" THEN NoPassword ELSE account.password

SyncSecret(f) ==
    /\ fiber[f].pc = "sync"
    /\ \E e \in fiber[f].todo :
        /\ secrets' = [secrets EXCEPT ![e] = SavedSecret(fiber[f].accounts[e])]
        /\ Becomes(f, [fiber[f] EXCEPT !.todo = @ \ {e}])
    /\ UNCHANGED <<file, tmp, faults, history>>

(***************************************************************************)
(* The answer of a command that has saved the store.                       *)
(***************************************************************************)
AnswerSaved(f) ==
    LET cmd == fiber[f].cmd IN
    /\ fiber[f].pc = "sync"
    /\ fiber[f].todo = {}
    /\ Finish(f)
    /\ \/ cmd.op = "add" /\ Promise(cmd.email, "scanned", cmd.password)
       \/ /\ cmd.op = "resume"
          /\ Promise(cmd.email, "scanned", fiber[f].accounts[cmd.email].password)
       \/ cmd.op = "pause" /\ Promise(cmd.email, "unscanned", NoPassword)
       \/ cmd.op = "remove" /\ Promise(cmd.email, "removed", NoPassword)
    /\ UNCHANGED <<store, faults, given, raced, contended>>

-----------------------------------------------------------------------------
(* Failures: a file-system or keychain call fails (the command ends with a *)
(* log line), or the process dies and systemd starts it again.             *)

Fail(f) ==
    /\ Running(f)
    /\ faults < MaxFaults
    /\ faults' = faults + 1
    /\ Finish(f)
    /\ UNCHANGED <<store, history>>

Crash ==
    /\ \E f \in Fibers : Running(f)
    /\ faults < MaxFaults
    /\ faults' = faults + 1
    /\ fiber' = [f \in Fibers |-> Idle]
    /\ UNCHANGED <<store, history>>

Step(f) ==
    \/ ReadFile(f) \/ FetchSecret(f)
    \/ AnswerStatus(f) \/ AnswerNotFound(f) \/ CheckResume(f) \/ Change(f)
    \/ OpenTmp(f) \/ WriteTmp(f) \/ RenameTmp(f) \/ SyncSecret(f) \/ AnswerSaved(f)

Next ==
    \/ \E f \in Fibers : Receive(f) \/ Step(f) \/ Fail(f)
    \/ Crash

(***************************************************************************)
(* A forked fiber is scheduled until it ends; nothing makes users write.   *)
(***************************************************************************)
Spec == Init /\ [][Next]_vars /\ \A f \in Fibers : WF_vars(Step(f))

-----------------------------------------------------------------------------
(* Properties.                                                             *)

(***************************************************************************)
(* Whatever the interleaving and the failures: an account is in the file   *)
(* only if somebody set it up, and its password in the keychain is one     *)
(* that was given for this very account (validateAndUpsertAccount,         *)
(* saveAllAccounts rewriting every password it loaded).                    *)
(***************************************************************************)
NothingInvented ==
    /\ \A e \in DOMAIN file.list : \E p \in Passwords \union {NoPassword} : <<e, p>> \in given
    /\ \A e \in Emails : secrets[e] # NoPassword => <<e, secrets[e]>> \in given

(***************************************************************************)
(* What atomicWriteJson guarantees: as long as no two saves have been      *)
(* between open and rename at the same time, the file is never truncated   *)
(* or torn, not even after a failure or a crash in the middle of a save.   *)
(***************************************************************************)
WholeUnlessContended == ~contended => file.form \in {"missing", "whole"}

Scanned(e) ==
    /\ e \in DOMAIN file.list
    /\ file.list[e].status = "active"
    /\ secrets[e] # NoPassword

Kept(e) ==
    CASE promise[e].kind = "none" -> TRUE
      [] promise[e].kind = "scanned" -> Scanned(e) /\ secrets[e] = promise[e].password
      [] promise[e].kind = "unscanned" -> ~Scanned(e)
      [] promise[e].kind = "removed" ->
            /\ secrets[e] = NoPassword
            /\ e \in DOMAIN file.list => file.list[e].status = "removed"

(***************************************************************************)
(* What the last answer about an account told the user stays true while    *)
(* other accounts are changed, commands fail half-way and the process      *)
(* restarts, as long as no two commands that change accounts have been in  *)
(* progress at once.  A load that only reads (gmail status, an email run)  *)
(* disturbs nothing.                                                       *)
(***************************************************************************)
PromisesKept == ~raced => \A e \in Emails : Kept(e)
=============================================================================
