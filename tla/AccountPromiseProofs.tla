------------------------- MODULE AccountPromiseProofs -------------------------
(***************************************************************************)
(* Theorems about the account store while commands that change it do not   *)
(* overlap: answers stay true, and every step is one of AccountRegistry.   *)
(***************************************************************************)
EXTENDS AccountStoreProofs, MCAccountStore

-----------------------------------------------------------------------------
(* What a command that is not disturbed holds.  PromisesKept is not        *)
(* inductive: an answer is true because the list a command saves is the    *)
(* one it has loaded with its own change, and that list still is what the  *)
(* store holds, entry by entry and password by password.                   *)

Loadable(list, keys) == {e \in DOMAIN list : keys[e] # NoPassword}

\* A load some of whose keychain calls, those for todo, are still to come.
PartLoad(list, keys, todo) ==
    [e \in todo \union Loadable(list, keys) |->
        [status |-> list[e].status, profile |-> list[e].profile,
         password |-> IF e \in todo THEN NoPassword ELSE keys[e]]]

FullLoad(list, keys) == PartLoad(list, keys, {})

\* A resume goes past its first look-up only for an account it can resume.
Resumable(state, list, keys) ==
    state.cmd.op = "resume" /\ state.checked =>
        /\ state.cmd.email \in Loadable(list, keys)
        /\ list[state.cmd.email].status # "removed"

\* The list that is saved is the store with the command's change.
Current(state, list, keys) ==
    /\ state.checked
    /\ state.cmd.op = "add" \/ state.cmd.email \in Loadable(list, keys)
    /\ state.accounts = Changed(state.cmd, FullLoad(list, keys))

\* What the command does to its own account.
Effected(cmd, account, key) ==
    /\ cmd.op = "add" => /\ account.status = "active"
                         /\ account.password = cmd.password
                         /\ key = NoPassword => account.profile = "gmail"
    /\ cmd.op = "resume" => account.status = "active"
    /\ cmd.op = "pause" => account.status # "active"
    /\ cmd.op = "remove" => account.status = "removed"

\* The file is written, the keychain up to the emails in todo.
Syncing(state, list, keys) ==
    /\ list = Serialized(state.accounts)
    /\ \A x \in DOMAIN state.accounts : state.accounts[x].password # NoPassword
    /\ \A x \in DOMAIN state.accounts \ state.todo : keys[x] = SavedSecret(state.accounts[x])
    /\ \A x \in state.todo : \/ keys[x] = state.accounts[x].password
                             \/ state.cmd.op = "add" /\ x = state.cmd.email
    /\ Effected(state.cmd, state.accounts[state.cmd.email], keys[state.cmd.email])

Follows(state, list, keys) ==
    /\ state.pc \in {"read", "secrets"} => Resumable(state, list, keys)
    /\ state.pc = "secrets" => /\ state.todo \subseteq DOMAIN list
                               /\ state.accounts = PartLoad(list, keys, state.todo)
    /\ state.pc \in {"open", "write", "rename"} => /\ Resumable(state, list, keys)
                                                   /\ Current(state, list, keys)
    /\ state.pc = "sync" => Syncing(state, list, keys)

Undisturbed(f) ==
    /\ Follows(fiber[f], file.list, secrets)
    /\ fiber[f].pc = "rename" => tmp = Whole(Serialized(fiber[f].accounts))
    /\ promise[fiber[f].cmd.email].kind = "none"

Calm ==
    /\ ~contended
    /\ \A f, g \in Fibers : Mutating(f) /\ Mutating(g) => f = g
    /\ \A f \in Fibers : Mutating(f) => Undisturbed(f)
    /\ \A e \in Emails : Kept(e)

CalmInv == ~raced => Calm

-----------------------------------------------------------------------------
(* Loads and changes, entry by entry.                                      *)

LEMMA PartLoadType ==
    ASSUME NEW list \in Registries, NEW keys \in [Emails -> Passwords \union {NoPassword}],
           NEW todo \in SUBSET DOMAIN list
    PROVE  /\ DOMAIN list \in SUBSET Emails
           /\ list \in [DOMAIN list -> Entry]
           /\ PartLoad(list, keys, todo) \in Loads
           /\ DOMAIN PartLoad(list, keys, todo) = todo \union Loadable(list, keys)
<1>1. DOMAIN list \in SUBSET Emails /\ list \in [DOMAIN list -> Entry]
  BY ListElim DEF Registries
<1>2. todo \union Loadable(list, keys) \in SUBSET DOMAIN list
  BY DEF Loadable
<1>3. PartLoad(list, keys, todo) \in [todo \union Loadable(list, keys) -> Account]
  BY <1>1, <1>2 DEF PartLoad, Account, Entry
<1>4. PartLoad(list, keys, todo) \in Loads
  BY <1>1, <1>2, <1>3, ListIntro DEF Loads
<1> QED
  BY <1>1, <1>4 DEF PartLoad

LEMMA FullLoadType ==
    ASSUME NEW list \in Registries, NEW keys \in [Emails -> Passwords \union {NoPassword}]
    PROVE  /\ FullLoad(list, keys) \in Loads
           /\ DOMAIN FullLoad(list, keys) = Loadable(list, keys)
           /\ \A x \in Loadable(list, keys) :
                 /\ FullLoad(list, keys)[x].status = list[x].status
                 /\ FullLoad(list, keys)[x].profile = list[x].profile
                 /\ FullLoad(list, keys)[x].password = keys[x]
<1>1. FullLoad(list, keys) \in Loads /\ DOMAIN FullLoad(list, keys) = Loadable(list, keys)
  <2>1. {} \in SUBSET DOMAIN list
    OBVIOUS
  <2>2. /\ PartLoad(list, keys, {}) \in Loads
        /\ DOMAIN PartLoad(list, keys, {}) = {} \union Loadable(list, keys)
    BY <2>1, PartLoadType
  <2> QED
    BY <2>2 DEF FullLoad
<1>2. FullLoad(list, keys) = [e \in Loadable(list, keys) |->
         [status |-> list[e].status, profile |-> list[e].profile, password |-> keys[e]]]
  BY DEF FullLoad, PartLoad
<1> QED
  BY <1>1, <1>2

LEMMA ParsedIsPartLoad ==
    ASSUME NEW list \in Registries, NEW keys
    PROVE  Parsed(list) = PartLoad(list, keys, DOMAIN list)
<1>1. DOMAIN list \union Loadable(list, keys) = DOMAIN list
  BY DEF Loadable
<1> QED
  BY <1>1 DEF Parsed, PartLoad

LEMMA FetchedIsPartLoad ==
    ASSUME NEW list \in Registries, NEW keys \in [Emails -> Passwords \union {NoPassword}],
           NEW todo \in SUBSET DOMAIN list, NEW e \in todo
    PROVE  WithSecret(PartLoad(list, keys, todo), e, keys[e]) = PartLoad(list, keys, todo \ {e})
<1> DEFINE old == PartLoad(list, keys, todo)
           new == PartLoad(list, keys, todo \ {e})
<1> SUFFICES WithSecret(old, e, keys[e]) = new
  OBVIOUS
<1>1. /\ DOMAIN old = todo \union Loadable(list, keys)
      /\ DOMAIN new = (todo \ {e}) \union Loadable(list, keys)
  BY DEF PartLoad
<1>2. \A x \in DOMAIN new : x # e => x \in DOMAIN old /\ new[x] = old[x]
  BY <1>1 DEF PartLoad
<1>3. new = [x \in DOMAIN new |-> new[x]]
  BY DEF PartLoad
<1>4. CASE keys[e] = NoPassword
  <2>1. DOMAIN new = DOMAIN old \ {e}
    BY <1>1, <1>4 DEF Loadable
  <2>2. WithSecret(old, e, keys[e]) = [x \in DOMAIN old \ {e} |-> old[x]]
    BY <1>4, <1>1 DEF WithSecret, Restrict
  <2> HIDE DEF old, new
  <2> QED
    BY <1>2, <1>3, <2>1, <2>2
<1>5. CASE keys[e] # NoPassword
  <2>1. e \in Loadable(list, keys)
    BY <1>5 DEF Loadable
  <2>2. DOMAIN new = DOMAIN old
    BY <1>1, <2>1
  <2>3. WithSecret(old, e, keys[e]) = [old EXCEPT ![e].password = keys[e]]
    BY <1>5 DEF WithSecret
  <2>4. [old EXCEPT ![e].password = keys[e]]
          = [x \in DOMAIN old |-> IF x = e THEN [old[e] EXCEPT !.password = keys[e]] ELSE old[x]]
    BY <1>1
  <2>5. new[e] = [old[e] EXCEPT !.password = keys[e]]
    BY <1>1, <2>1 DEF PartLoad
  <2> HIDE DEF old, new
  <2> QED
    BY <1>2, <1>3, <2>2, <2>3, <2>4, <2>5
<1> QED
  BY <1>4, <1>5

LEMMA ChangedEntries ==
    ASSUME NEW cmd \in Commands, NEW accounts \in Loads, cmd.op # "status",
           cmd.op = "add" \/ cmd.email \in DOMAIN accounts
    PROVE  /\ cmd.email \in Emails
           /\ DOMAIN Changed(cmd, accounts) = DOMAIN accounts \union {cmd.email}
           /\ \A x \in DOMAIN accounts : x # cmd.email => Changed(cmd, accounts)[x] = accounts[x]
           /\ cmd.op = "add" =>
                 Changed(cmd, accounts)[cmd.email] =
                    [status |-> "active",
                     profile |-> IF cmd.email \in DOMAIN accounts
                                 THEN accounts[cmd.email].profile ELSE "gmail",
                     password |-> cmd.password]
           /\ cmd.op # "add" =>
                 Changed(cmd, accounts)[cmd.email] = Transition(accounts[cmd.email], Target(cmd.op))
<1>1. cmd.email \in Emails
  BY DEF Commands
<1>2. accounts \in [DOMAIN accounts -> Account]
  BY ListElim DEF Loads
<1>3. CASE cmd.op = "add"
  BY <1>1, <1>3 DEF Changed, Upsert
<1>4. CASE cmd.op # "add"
  <2>1. Changed(cmd, accounts) =
           [accounts EXCEPT ![cmd.email] = Transition(accounts[cmd.email], Target(cmd.op))]
    BY <1>4 DEF Changed
  <2> QED
    BY <1>1, <1>2, <1>4, <2>1
<1> QED
  BY <1>3, <1>4

\* The hypotheses under which a command saves its list.
Ready(state, list, keys) == Resumable(state, list, keys) /\ Current(state, list, keys)

\* What a command has done to its own account, and that it has left the others alone.
LEMMA ReadyEntries ==
    ASSUME NEW state \in FiberState, state.cmd.op # "status",
           NEW list \in Registries, NEW keys \in [Emails -> Passwords \union {NoPassword}],
           Ready(state, list, keys)
    PROVE  /\ state.cmd.email \in Emails
           /\ DOMAIN state.accounts = Loadable(list, keys) \union {state.cmd.email}
           /\ \A x \in Loadable(list, keys) : x # state.cmd.email =>
                 /\ state.accounts[x].status = list[x].status
                 /\ state.accounts[x].profile = list[x].profile
                 /\ state.accounts[x].password = keys[x]
           /\ state.cmd.op = "add" =>
                 state.accounts[state.cmd.email] =
                    [status |-> "active",
                     profile |-> IF state.cmd.email \in Loadable(list, keys)
                                 THEN list[state.cmd.email].profile ELSE "gmail",
                     password |-> state.cmd.password]
           /\ state.cmd.op # "add" =>
                 /\ state.cmd.email \in Loadable(list, keys)
                 /\ state.accounts[state.cmd.email] =
                       Transition(FullLoad(list, keys)[state.cmd.email], Target(state.cmd.op))
<1> DEFINE load == FullLoad(list, keys)
<1>1. state.cmd \in Commands
  BY DEF FiberState
<1>2. /\ load \in Loads
      /\ DOMAIN load = Loadable(list, keys)
      /\ \A x \in Loadable(list, keys) :
            /\ load[x].status = list[x].status
            /\ load[x].profile = list[x].profile
            /\ load[x].password = keys[x]
  BY FullLoadType
<1>3. /\ state.cmd.op = "add" \/ state.cmd.email \in Loadable(list, keys)
      /\ state.accounts = Changed(state.cmd, load)
  BY DEF Ready, Current
<1> HIDE DEF load
<1>4. state.cmd.op = "add" \/ state.cmd.email \in DOMAIN load
  BY <1>2, <1>3
<1>5. /\ state.cmd.email \in Emails
      /\ DOMAIN state.accounts = DOMAIN load \union {state.cmd.email}
      /\ \A x \in DOMAIN load : x # state.cmd.email => state.accounts[x] = load[x]
      /\ state.cmd.op = "add" =>
            state.accounts[state.cmd.email] =
               [status |-> "active",
                profile |-> IF state.cmd.email \in DOMAIN load
                            THEN load[state.cmd.email].profile ELSE "gmail",
                password |-> state.cmd.password]
      /\ state.cmd.op # "add" =>
            state.accounts[state.cmd.email] = Transition(load[state.cmd.email], Target(state.cmd.op))
  <2> DEFINE changed == Changed(state.cmd, load)
  <2>1. state.accounts = changed /\ load \in Loads
    BY <1>2, <1>3
  <2>2. /\ state.cmd.email \in Emails
        /\ DOMAIN changed = DOMAIN load \union {state.cmd.email}
        /\ \A x \in DOMAIN load : x # state.cmd.email => changed[x] = load[x]
        /\ state.cmd.op = "add" =>
              changed[state.cmd.email] =
                 [status |-> "active",
                  profile |-> IF state.cmd.email \in DOMAIN load
                              THEN load[state.cmd.email].profile ELSE "gmail",
                  password |-> state.cmd.password]
        /\ state.cmd.op # "add" =>
              changed[state.cmd.email] = Transition(load[state.cmd.email], Target(state.cmd.op))
    BY <1>1, <1>4, <2>1, ChangedEntries, Zenon
  <2> HIDE DEF changed
  <2> QED
    BY <2>1, <2>2
<1>8. state.cmd.op = "add" =>
         state.accounts[state.cmd.email] =
            [status |-> "active",
             profile |-> IF state.cmd.email \in Loadable(list, keys)
                         THEN list[state.cmd.email].profile ELSE "gmail",
             password |-> state.cmd.password]
  BY <1>2, <1>5
<1>9. state.cmd.op # "add" =>
         /\ state.cmd.email \in Loadable(list, keys)
         /\ state.accounts[state.cmd.email] =
               Transition(FullLoad(list, keys)[state.cmd.email], Target(state.cmd.op))
  BY <1>2, <1>4, <1>5 DEF load
<1> QED
  BY <1>2, <1>5, <1>8, <1>9

LEMMA ReadyEffected ==
    ASSUME NEW state \in FiberState, state.cmd.op # "status",
           NEW list \in Registries, NEW keys \in [Emails -> Passwords \union {NoPassword}],
           Ready(state, list, keys)
    PROVE  /\ Effected(state.cmd, state.accounts[state.cmd.email], keys[state.cmd.email])
           /\ state.accounts[state.cmd.email].password # NoPassword
           /\ state.cmd.op # "add" =>
                 state.accounts[state.cmd.email].password = keys[state.cmd.email]
<1> DEFINE e == state.cmd.email
           old == FullLoad(list, keys)[e]
<1>1. state.cmd \in Commands
  BY DEF FiberState
<1>2. CASE state.cmd.op = "add"
  <2>1. state.accounts[e] = [status |-> "active",
                             profile |-> IF e \in Loadable(list, keys) THEN list[e].profile ELSE "gmail",
                             password |-> state.cmd.password]
    BY <1>2, ReadyEntries
  <2>2. state.cmd.password \in Passwords /\ NoPassword \notin Passwords
    BY <1>1, <1>2, PasswordAssumption DEF Commands
  <2>3. keys[e] = NoPassword => e \notin Loadable(list, keys)
    BY DEF Loadable
  <2> QED
    BY <1>2, <2>1, <2>2, <2>3 DEF Effected
<1>3. CASE state.cmd.op # "add"
  <2>1. e \in Loadable(list, keys) /\ state.accounts[e] = Transition(old, Target(state.cmd.op))
    BY <1>3, ReadyEntries
  <2>2. old \in Account /\ old.status = list[e].status /\ old.password = keys[e]
    BY <2>1, FullLoadType, ListElim DEF Loads
  <2>3. keys[e] # NoPassword
    BY <2>1 DEF Loadable
  <2>4. state.cmd.op = "resume" => old.status # "removed"
    BY <2>2 DEF Ready, Resumable, Current
  <2>5. state.cmd.op \in {"pause", "resume", "remove"}
    BY <1>1, <1>3 DEF Commands
  <2> HIDE DEF old
  <2>6. Transition(old, Target(state.cmd.op)).password = old.password
    BY <2>2, <2>5, TransitionType DEF Target, Statuses
  <2>7. /\ state.cmd.op = "resume" => Transition(old, "active").status = "active"
        /\ Transition(old, "paused").status # "active"
        /\ Transition(old, "removed").status = "removed"
    BY <2>2, <2>4 DEF Transition, Account, Statuses
  <2> QED
    BY <1>3, <2>1, <2>2, <2>3, <2>5, <2>6, <2>7 DEF Effected, Target
<1> QED
  BY <1>2, <1>3

\* Once the list is in the file, all of the keychain is still to do.
LEMMA SyncingStarts ==
    ASSUME NEW state \in FiberState, state.cmd.op # "status",
           NEW list \in Registries, NEW keys \in [Emails -> Passwords \union {NoPassword}],
           Ready(state, list, keys), NEW saved, saved.accounts = state.accounts,
           saved.cmd = state.cmd, saved.todo = DOMAIN state.accounts
    PROVE  Syncing(saved, Serialized(state.accounts), keys)
<1>1. DOMAIN state.accounts = Loadable(list, keys) \union {state.cmd.email}
  BY ReadyEntries
<1>4. \A x \in Loadable(list, keys) : x # state.cmd.email =>
         /\ state.accounts[x].status = list[x].status
         /\ state.accounts[x].profile = list[x].profile
         /\ state.accounts[x].password = keys[x]
  BY ReadyEntries
<1>2. \A x \in Loadable(list, keys) : keys[x] # NoPassword
  BY DEF Loadable
<1>3. /\ Effected(state.cmd, state.accounts[state.cmd.email], keys[state.cmd.email])
      /\ state.accounts[state.cmd.email].password # NoPassword
      /\ state.cmd.op # "add" => state.accounts[state.cmd.email].password = keys[state.cmd.email]
  BY ReadyEffected
<1> QED
  BY <1>1, <1>2, <1>3, <1>4 DEF Syncing

-----------------------------------------------------------------------------
(* What a step of one fiber leaves as it was.                              *)

LEMMA StoreType ==
    ASSUME TypeInv
    PROVE  /\ file.list \in Registries
           /\ secrets \in [Emails -> Passwords \union {NoPassword}]
           /\ DOMAIN file.list \in SUBSET Emails
<1>1. file.list \in Registries
  BY ContentsType DEF TypeInv, TypeOK
<1> QED
  BY <1>1, ListElim DEF TypeInv, TypeOK, Registries

LEMMA SameKept ==
    ASSUME NEW e \in Emails, Kept(e), UNCHANGED <<file, secrets>>, promise'[e] = promise[e]
    PROVE  Kept(e)'
BY DEF Kept, Scanned

LEMMA PromiseKinds ==
    ASSUME TypeInv, NEW e \in Emails
    PROVE  promise[e].kind \in {"none", "scanned", "unscanned", "removed"}
BY DEF TypeInv, TypeOK, Promises

\* The step of a command that changes accounts.
LEMMA MoveCalm ==
    ASSUME TypeInv, Calm, NEW f \in Fibers, Mutating(f), ~contended',
           \A g \in Fibers \ {f} : fiber'[g].pc = fiber[g].pc /\ fiber'[g].cmd = fiber[g].cmd,
           Mutating(f)' => Undisturbed(f)',
           \A e \in Emails : Kept(e)'
    PROVE  Calm'
<1>1. \A g \in Fibers \ {f} : ~Mutating(g)
  BY DEF Calm
<1>2. \A g \in Fibers \ {f} : ~Mutating(g)'
  BY <1>1 DEF Mutating, Running
<1> QED
  BY <1>2 DEF Calm

LEMMA BecomesCalm ==
    ASSUME TypeInv, Calm, NEW f \in Fibers, Mutating(f), NEW state, Becomes(f, state),
           ~contended',
           state.pc # "idle" =>
              /\ Follows(state, file'.list, secrets')
              /\ state.pc = "rename" => tmp' = Whole(Serialized(state.accounts))
              /\ promise'[state.cmd.email].kind = "none",
           \A e \in Emails : Kept(e)'
    PROVE  Calm'
<1>1. \A g \in Fibers : fiber'[g] = IF g = f THEN state ELSE fiber[g]
  BY DEF Becomes, TypeInv, TypeOK
<1>2. fiber'[f] = state /\ \A g \in Fibers \ {f} : fiber'[g] = fiber[g]
  BY <1>1
<1>3. Mutating(f)' => Undisturbed(f)'
  BY <1>2 DEF Mutating, Running, Undisturbed
<1> QED
  BY <1>2, <1>3, MoveCalm

\* A step that changes nothing but its fiber, which changes no account.
LEMMA RestCalm ==
    ASSUME TypeInv, Calm, NEW f \in Fibers, NEW state, Becomes(f, state),
           state.pc = "idle" \/ state.cmd.op = "status",
           UNCHANGED <<file, tmp, secrets, promise, contended>>
    PROVE  Calm'
<1>1. \A g \in Fibers : fiber'[g] = IF g = f THEN state ELSE fiber[g]
  BY DEF Becomes, TypeInv, TypeOK
<1>2. ~Mutating(f)'
  BY <1>1 DEF Mutating, Running
<1>3. ASSUME NEW g \in Fibers, Mutating(g)' PROVE Mutating(g) /\ fiber'[g] = fiber[g]
  BY <1>1, <1>2, <1>3 DEF Mutating, Running
<1>4. \A g \in Fibers : Mutating(g)' => Undisturbed(g)'
  BY <1>3 DEF Calm, Undisturbed
<1>5. \A e \in Emails : Kept(e)'
  BY SameKept DEF Calm
<1> QED
  BY <1>3, <1>4, <1>5 DEF Calm

LEMMA FinishCalm ==
    ASSUME TypeInv, Calm, NEW f \in Fibers, Finish(f),
           UNCHANGED <<file, tmp, secrets, contended>>,
           Mutating(f) \/ UNCHANGED promise,
           \A e \in Emails : Kept(e)'
    PROVE  Calm'
<1>1. Becomes(f, Idle) /\ Idle.pc = "idle"
  BY DEF Finish, Idle
<1>2. CASE Mutating(f)
  BY <1>1, <1>2, BecomesCalm DEF Calm
<1>3. CASE UNCHANGED promise
  BY <1>1, <1>3, RestCalm
<1> QED
  BY <1>2, <1>3

\* A command that ends without an answer.
LEMMA SilentCalm ==
    ASSUME TypeInv, Calm, NEW f \in Fibers, Finish(f),
           UNCHANGED <<file, tmp, secrets, promise, contended>>
    PROVE  Calm'
<1>1. \A e \in Emails : Kept(e)'
  BY SameKept DEF Calm
<1> QED
  BY <1>1, FinishCalm

\* A step that changes nothing but its fiber, whatever the command.
LEMMA LocalCalm ==
    ASSUME TypeInv, Calm, NEW f \in Fibers, Running(f), NEW state, Becomes(f, state),
           state.cmd = fiber[f].cmd, state.pc # "rename",
           state.cmd.op # "status" => Follows(state, file.list, secrets),
           UNCHANGED <<file, tmp, secrets, promise, contended>>
    PROVE  Calm'
<1>1. CASE state.cmd.op = "status"
  BY <1>1, RestCalm
<1>2. CASE state.cmd.op # "status"
  <2>1. Mutating(f)
    BY <1>2 DEF Mutating
  <2>2. promise'[state.cmd.email].kind = "none"
    BY <2>1 DEF Calm, Undisturbed
  <2>3. \A e \in Emails : Kept(e)'
    BY SameKept DEF Calm
  <2>4. Follows(state, file'.list, secrets') /\ ~contended'
    BY <1>2 DEF Calm
  <2> QED
    BY <2>1, <2>2, <2>3, <2>4, BecomesCalm
<1> QED
  BY <1>1, <1>2

-----------------------------------------------------------------------------
(* Loading and answering.                                                  *)

LEMMA ReceiveCalm ==
    ASSUME TypeInv, CalmInv, NEW f \in Fibers, Receive(f) PROVE CalmInv'
<1> SUFFICES ASSUME ~raced' PROVE Calm'
  BY DEF CalmInv
<1>1. PICK cmd \in Commands :
        /\ Becomes(f, [Idle EXCEPT !.pc = "read", !.cmd = cmd, !.checked = (cmd.op # "resume")])
        /\ promise' = [e \in Emails |-> IF e = cmd.email THEN Nothing ELSE promise[e]]
  BY DEF Receive
<1> DEFINE state == [Idle EXCEPT !.pc = "read", !.cmd = cmd, !.checked = (cmd.op # "resume")]
<1>2. Calm /\ fiber[f].pc = "idle"
  BY DEF Receive, CalmInv
<1>3. Mutating(f)' => \A g \in Fibers : ~Mutating(g)
  BY DEF Receive
<1>4. state.pc = "read" /\ state.cmd = cmd /\ state.checked = (cmd.op # "resume")
  BY DEF Idle
<1>5. \A g \in Fibers : fiber'[g] = IF g = f THEN state ELSE fiber[g]
  BY <1>1 DEF Becomes, TypeInv, TypeOK
<1>6. UNCHANGED <<file, tmp, secrets, contended>>
  BY DEF Receive, store
<1> HIDE DEF state
<1>7. \A e \in Emails : Kept(e)'
  <2>1. ASSUME NEW e \in Emails, e = cmd.email PROVE Kept(e)'
    BY <1>1, <2>1 DEF Kept, Nothing
  <2>2. ASSUME NEW e \in Emails, e # cmd.email PROVE Kept(e)'
    <3>1. promise'[e] = promise[e] /\ Kept(e)
      BY <1>1, <1>2, <2>2 DEF Calm
    <3> QED
      BY <1>6, <3>1, SameKept
  <2> QED
    BY <2>1, <2>2
<1>8. CASE cmd.op = "status"
  <2>1. ~Mutating(f)'
    BY <1>4, <1>5, <1>8 DEF Mutating
  <2>2. ASSUME NEW g \in Fibers, Mutating(g)' PROVE Mutating(g) /\ fiber'[g] = fiber[g]
    BY <1>5, <2>1, <2>2 DEF Mutating, Running
  <2>3. cmd.email \notin Emails
    BY <1>8, EmailAssumption DEF Commands
  <2>4. promise' = promise
    BY <1>1, <2>3 DEF TypeInv, TypeOK
  <2>5. \A g \in Fibers : Mutating(g)' => Undisturbed(g)'
    BY <1>2, <1>6, <2>2, <2>4 DEF Calm, Undisturbed
  <2> QED
    BY <1>2, <1>6, <1>7, <2>2, <2>5 DEF Calm
<1>9. CASE cmd.op # "status"
  <2>1. Mutating(f)'
    BY <1>4, <1>5, <1>9 DEF Mutating, Running
  <2>2. \A g \in Fibers : Mutating(g)' => g = f
    BY <1>3, <1>5, <2>1 DEF Mutating, Running
  <2>3. cmd.email \in Emails
    BY <1>9 DEF Commands
  <2>4. promise'[cmd.email].kind = "none"
    BY <1>1, <2>3 DEF Nothing
  <2>5. Undisturbed(f)'
    BY <1>4, <1>5, <2>4 DEF Undisturbed, Follows, Resumable
  <2> QED
    BY <1>2, <1>6, <1>7, <2>2, <2>5 DEF Calm
<1> QED
  BY <1>8, <1>9

LEMMA ReadFileCalm == ASSUME TypeInv, Calm, NEW f \in Fibers, ReadFile(f) PROVE Calm'
<1> DEFINE state == [fiber[f] EXCEPT !.pc = "secrets", !.todo = DOMAIN file.list,
                                     !.accounts = Parsed(file.list)]
<1>1. fiber[f].pc = "read" /\ UNCHANGED <<file, tmp, secrets, promise, contended>>
  BY DEF ReadFile, store, history
<1>2. /\ state.pc = "secrets" /\ state.todo = DOMAIN file.list
      /\ state.accounts = Parsed(file.list)
      /\ state.cmd = fiber[f].cmd /\ state.checked = fiber[f].checked
  BY FiberType DEF FiberState
<1>3. Finish(f) \/ Becomes(f, state)
  BY DEF ReadFile
<1> HIDE DEF state
<1>4. state.cmd.op # "status" => Follows(state, file.list, secrets)
  <2> SUFFICES ASSUME state.cmd.op # "status" PROVE Follows(state, file.list, secrets)
    OBVIOUS
  <2>1. Mutating(f)
    BY <1>1, <1>2 DEF Mutating, Running
  <2>2. Resumable(fiber[f], file.list, secrets)
    BY <1>1, <2>1 DEF Calm, Undisturbed, Follows
  <2>3. Parsed(file.list) = PartLoad(file.list, secrets, DOMAIN file.list)
    BY StoreType, ParsedIsPartLoad
  <2> QED
    BY <1>2, <2>2, <2>3 DEF Follows, Resumable
<1>5. Running(f)
  BY <1>1 DEF Running
<1> QED
  BY <1>1, <1>2, <1>3, <1>4, <1>5, SilentCalm, LocalCalm

LEMMA FetchSecretCalm == ASSUME TypeInv, Calm, NEW f \in Fibers, FetchSecret(f) PROVE Calm'
<1>1. PICK e \in fiber[f].todo :
        Becomes(f, [fiber[f] EXCEPT !.todo = @ \ {e}, !.accounts = WithSecret(@, e, secrets[e])])
  BY DEF FetchSecret
<1> DEFINE filled == WithSecret(fiber[f].accounts, e, secrets[e])
           state == [fiber[f] EXCEPT !.todo = @ \ {e}, !.accounts = filled]
<1>2. fiber[f].pc = "secrets" /\ UNCHANGED <<file, tmp, secrets, promise, contended>>
  BY DEF FetchSecret, store, history
<1>3. /\ state.pc = "secrets" /\ state.todo = fiber[f].todo \ {e}
      /\ state.accounts = filled
      /\ state.cmd = fiber[f].cmd /\ state.checked = fiber[f].checked
  <2> HIDE DEF filled
  <2> QED
    BY <1>2, FiberType DEF FiberState
<1>4. Becomes(f, state)
  BY <1>1
<1> HIDE DEF state
<1>5. state.cmd.op # "status" => Follows(state, file.list, secrets)
  <2> SUFFICES ASSUME state.cmd.op # "status" PROVE Follows(state, file.list, secrets)
    OBVIOUS
  <2>1. Mutating(f)
    BY <1>2, <1>3 DEF Mutating, Running
  <2>2. /\ Resumable(fiber[f], file.list, secrets)
        /\ fiber[f].todo \subseteq DOMAIN file.list
        /\ fiber[f].accounts = PartLoad(file.list, secrets, fiber[f].todo)
    BY <1>2, <2>1 DEF Calm, Undisturbed, Follows
  <2>3. filled = PartLoad(file.list, secrets, fiber[f].todo \ {e})
    BY <2>2, StoreType, FetchedIsPartLoad
  <2> HIDE DEF filled
  <2> QED
    BY <1>3, <2>2, <2>3 DEF Follows, Resumable
<1>6. Running(f) /\ state.pc # "rename"
  BY <1>2, <1>3 DEF Running
<1> QED
  BY <1>2, <1>3, <1>4, <1>5, <1>6, LocalCalm

\* A command that has loaded all accounts holds what the store holds.
LEMMA LoadedIsFull ==
    ASSUME TypeInv, Calm, NEW f \in Fibers, Loaded(f), fiber[f].cmd.op # "status"
    PROVE  /\ Mutating(f)
           /\ fiber[f].accounts = FullLoad(file.list, secrets)
           /\ DOMAIN fiber[f].accounts = Loadable(file.list, secrets)
           /\ Resumable(fiber[f], file.list, secrets)
<1>1. Mutating(f)
  BY DEF Loaded, Mutating, Running
<1>2. /\ fiber[f].accounts = FullLoad(file.list, secrets)
      /\ Resumable(fiber[f], file.list, secrets)
  BY <1>1 DEF Loaded, Calm, Undisturbed, Follows, FullLoad
<1> QED
  BY <1>1, <1>2, StoreType, FullLoadType

LEMMA AnswerStatusCalm == ASSUME TypeInv, Calm, NEW f \in Fibers, AnswerStatus(f) PROVE Calm'
BY SilentCalm DEF AnswerStatus, store, history

LEMMA PromisedKept ==
    ASSUME TypeInv, Calm, UNCHANGED <<file, secrets>>, NEW e \in Emails,
           NEW kind, NEW p, Promise(e, kind, p), Kept(e)'
    PROVE  \A x \in Emails : Kept(x)'
<1>1. \A x \in Emails : x # e => promise'[x] = promise[x]
  BY DEF Promise, TypeInv, TypeOK
<1> QED
  BY <1>1, SameKept DEF Calm

LEMMA UnscannedKept ==
    ASSUME TypeInv, NEW e \in Emails, Promise(e, "unscanned", NoPassword),
           UNCHANGED <<file, secrets>>, ~Scanned(e)
    PROVE  Kept(e)'
<1>1. promise'[e].kind = "unscanned"
  BY DEF Promise, TypeInv, TypeOK
<1> QED
  BY <1>1 DEF Kept, Scanned

LEMMA AnswerNotFoundCalm ==
    ASSUME TypeInv, Calm, NEW f \in Fibers, AnswerNotFound(f) PROVE Calm'
<1>1. /\ Loaded(f) /\ Finish(f) /\ ~Found(f) /\ fiber[f].cmd.op # "status"
      /\ UNCHANGED <<file, tmp, secrets, contended>>
  BY DEF AnswerNotFound, store
<1>2. PICK e \in Emails : e = fiber[f].cmd.email
  BY <1>1, FiberType
<1>3. Mutating(f) /\ ~Scanned(e)
  BY <1>1, <1>2, LoadedIsFull DEF Found, Loadable, Scanned
<1>4. CASE UNCHANGED promise
  BY <1>1, <1>4, SilentCalm
<1>5. CASE Promise(e, "unscanned", NoPassword)
  <2>1. Kept(e)'
    BY <1>1, <1>2, <1>3, <1>5, UnscannedKept
  <2>2. \A x \in Emails : Kept(x)'
    BY <1>1, <1>2, <1>5, <2>1, PromisedKept
  <2> QED
    BY <1>1, <1>3, <2>2, FinishCalm
<1> QED
  BY <1>2, <1>4, <1>5 DEF AnswerNotFound

LEMMA CheckResumeCalm == ASSUME TypeInv, Calm, NEW f \in Fibers, CheckResume(f) PROVE Calm'
<1> DEFINE state == [fiber[f] EXCEPT !.pc = "read", !.checked = TRUE, !.accounts = NoAccounts]
<1>1. /\ Loaded(f) /\ Found(f) /\ fiber[f].cmd.op = "resume"
      /\ UNCHANGED <<file, tmp, secrets, contended>>
  BY DEF CheckResume, store
<1>2. PICK e \in Emails : e = fiber[f].cmd.email
  BY <1>1, FiberType
<1>3. /\ Mutating(f)
      /\ e \in Loadable(file.list, secrets)
      /\ fiber[f].accounts[e].status = file.list[e].status
  BY <1>1, <1>2, LoadedIsFull, StoreType, FullLoadType DEF Found
<1>4. CASE file.list[e].status = "removed"
  <2>1. Finish(f) /\ Promise(e, "unscanned", NoPassword)
    BY <1>2, <1>3, <1>4 DEF CheckResume
  <2>2. ~Scanned(e)
    BY <1>4 DEF Scanned
  <2>3. Kept(e)'
    BY <1>1, <1>3, <2>1, <2>2, UnscannedKept
  <2>4. \A x \in Emails : Kept(x)'
    BY <1>1, <1>3, <2>1, <2>3, PromisedKept
  <2> QED
    BY <1>1, <1>3, <2>1, <2>4, FinishCalm
<1>5. CASE file.list[e].status # "removed"
  <2>1. Becomes(f, state) /\ UNCHANGED promise
    BY <1>2, <1>3, <1>5 DEF CheckResume
  <2>2. state.pc = "read" /\ state.cmd = fiber[f].cmd
    BY FiberType DEF FiberState
  <2> HIDE DEF state
  <2>3. Follows(state, file.list, secrets)
    BY <1>2, <1>3, <1>5, <2>2 DEF Follows, Resumable
  <2> QED
    BY <1>1, <1>3, <2>1, <2>2, <2>3, LocalCalm DEF Mutating
<1> QED
  BY <1>4, <1>5

LEMMA ChangeCalm == ASSUME TypeInv, Calm, NEW f \in Fibers, Change(f) PROVE Calm'
<1> DEFINE changed == Changed(fiber[f].cmd, fiber[f].accounts)
           state == [fiber[f] EXCEPT !.pc = "open", !.accounts = changed]
<1>1. /\ Loaded(f) /\ fiber[f].cmd.op # "status" /\ fiber[f].checked
      /\ fiber[f].cmd.op = "add" \/ Found(f)
      /\ UNCHANGED <<file, tmp, secrets, promise, contended>>
  BY DEF Change, store, history
<1>2. Becomes(f, state)
  BY DEF Change
<1>3. state.pc = "open" /\ state.accounts = changed
  <2> HIDE DEF changed
  <2> QED
    BY FiberType DEF FiberState
<1>4. state.cmd = fiber[f].cmd /\ state.checked = fiber[f].checked
  <2> HIDE DEF changed
  <2> QED
    BY FiberType DEF FiberState
<1>5. /\ Mutating(f)
      /\ fiber[f].accounts = FullLoad(file.list, secrets)
      /\ DOMAIN fiber[f].accounts = Loadable(file.list, secrets)
      /\ Resumable(fiber[f], file.list, secrets)
  BY <1>1, LoadedIsFull
<1>6. changed = Changed(state.cmd, FullLoad(file.list, secrets))
  BY <1>4, <1>5
<1> HIDE DEF changed, state
<1>7. Current(state, file.list, secrets)
  BY <1>1, <1>3, <1>4, <1>5, <1>6 DEF Current, Found
<1>8. Follows(state, file.list, secrets)
  BY <1>3, <1>4, <1>5, <1>7 DEF Follows, Resumable
<1>9. Running(f) /\ state.pc # "rename"
  BY <1>3, <1>5 DEF Mutating
<1> QED
  BY <1>1, <1>2, <1>4, <1>8, <1>9, LocalCalm

-----------------------------------------------------------------------------
(* Saving.                                                                 *)

\* Between the change and the answer a fiber is the only one that changes accounts.
LEMMA SavingIsAlone ==
    ASSUME TypeInv, Calm, NEW f \in Fibers, fiber[f].pc \in {"open", "write", "rename", "sync"}
    PROVE  /\ Mutating(f) /\ Undisturbed(f)
           /\ fiber[f].cmd.op # "status"
           /\ fiber[f] \in FiberState
           /\ \A g \in Fibers \ {f} : ~Writing(g)
<1>1. \A g \in Fibers : fiber[g].pc \in {"open", "write", "rename", "sync"} => Mutating(g)
  BY FiberType DEF Fit, Mutating, Running
<1> QED
  BY <1>1, FiberType DEF Calm, Mutating, Writing

LEMMA OpenTmpCalm == ASSUME TypeInv, Calm, NEW f \in Fibers, OpenTmp(f) PROVE Calm'
<1> DEFINE state == [fiber[f] EXCEPT !.pc = "write", !.handle = "tmp"]
<1>1. fiber[f].pc = "open" /\ UNCHANGED <<file, secrets, promise>>
  BY DEF OpenTmp
<1>2. /\ Mutating(f) /\ Undisturbed(f) /\ ~contended'
  BY <1>1, SavingIsAlone DEF OpenTmp, Calm
<1>3. /\ state.pc = "write" /\ state.cmd = fiber[f].cmd /\ state.checked = fiber[f].checked
      /\ state.accounts = fiber[f].accounts
  BY FiberType DEF FiberState
<1>4. Becomes(f, state)
  BY DEF OpenTmp
<1> HIDE DEF state
<1>5. Follows(state, file'.list, secrets')
  BY <1>1, <1>2, <1>3 DEF Undisturbed, Follows, Resumable, Current
<1>6. promise'[state.cmd.email].kind = "none"
  BY <1>1, <1>2, <1>3 DEF Undisturbed
<1>7. \A e \in Emails : Kept(e)'
  BY <1>1, SameKept DEF Calm
<1> QED
  BY <1>2, <1>3, <1>4, <1>5, <1>6, <1>7, BecomesCalm

\* What is written is the whole list, and nothing else touches it.
LEMMA WriteTmpWhole ==
    ASSUME TypeInv, AloneInv, Calm, NEW f \in Fibers, WriteTmp(f)
    PROVE  file' = file /\ tmp' = Whole(Serialized(fiber[f].accounts))
<1>1. fiber[f].handle = "tmp" /\ tmp = Truncated
  BY DEF WriteTmp, Calm, AloneInv, Alone
<1>2. /\ file' = file
      /\ tmp' \in Overwritten(tmp, Whole(Serialized(fiber[f].accounts)))
  BY <1>1 DEF WriteTmp
<1> QED
  BY <1>1, <1>2 DEF Overwritten

LEMMA WriteTmpCalm ==
    ASSUME TypeInv, AloneInv, Calm, NEW f \in Fibers, WriteTmp(f) PROVE Calm'
<1> DEFINE state == [fiber[f] EXCEPT !.pc = "rename", !.handle = "none"]
<1>1. fiber[f].pc = "write" /\ UNCHANGED <<secrets, promise, contended>>
  BY DEF WriteTmp, history
<1>2. /\ Mutating(f) /\ Undisturbed(f) /\ ~contended'
  BY <1>1, SavingIsAlone DEF Calm
<1>3. /\ state.pc = "rename" /\ state.cmd = fiber[f].cmd /\ state.checked = fiber[f].checked
      /\ state.accounts = fiber[f].accounts
  BY FiberType DEF FiberState
<1>4. Becomes(f, state)
  BY DEF WriteTmp
<1>5. file' = file /\ tmp' = Whole(Serialized(fiber[f].accounts))
  BY WriteTmpWhole
<1> HIDE DEF state
<1>6. Follows(state, file'.list, secrets')
  BY <1>1, <1>2, <1>3, <1>5 DEF Undisturbed, Follows, Resumable, Current
<1>7. promise'[state.cmd.email].kind = "none"
  BY <1>1, <1>2, <1>3 DEF Undisturbed
<1>8. \A e \in Emails : Kept(e)'
  BY <1>1, <1>5, SameKept DEF Calm
<1> QED
  BY <1>2, <1>3, <1>4, <1>5, <1>6, <1>7, <1>8, BecomesCalm

\* What a rename puts in place, for an account the command is not about.
LEMMA RenamedEntry ==
    ASSUME TypeInv, Calm, NEW f \in Fibers, RenameTmp(f), NEW e \in Emails
    PROVE  /\ Ready(fiber[f], file.list, secrets)
           /\ tmp # NoFile
           /\ file' = Whole(Serialized(fiber[f].accounts))
           /\ e \in DOMAIN file'.list <=>
                 e \in Loadable(file.list, secrets) \/ e = fiber[f].cmd.email
           /\ e \in Loadable(file.list, secrets) /\ e # fiber[f].cmd.email =>
                 /\ file'.list[e].status = file.list[e].status
                 /\ file'.list[e].profile = file.list[e].profile
           /\ e = fiber[f].cmd.email =>
                 /\ file'.list[e].status = fiber[f].accounts[e].status
                 /\ file'.list[e].profile = fiber[f].accounts[e].profile
<1> DEFINE state == fiber[f]
<1>1. state.pc = "rename"
  BY DEF RenameTmp
<1>2. Undisturbed(f) /\ state.cmd.op # "status" /\ state \in FiberState
  BY <1>1, SavingIsAlone
<1>3. Ready(state, file.list, secrets) /\ tmp = Whole(Serialized(state.accounts))
  BY <1>1, <1>2 DEF Undisturbed, Follows, Ready
<1>4. tmp # NoFile
  BY <1>3 DEF Whole, NoFile
<1>5. file' = Whole(Serialized(state.accounts)) /\ file'.list = Serialized(state.accounts)
  BY <1>3, <1>4 DEF RenameTmp, Whole
<1>6. /\ file.list \in Registries
      /\ secrets \in [Emails -> Passwords \union {NoPassword}]
  BY StoreType
<1> HIDE DEF state
<1>7. DOMAIN state.accounts = Loadable(file.list, secrets) \union {state.cmd.email}
  BY <1>2, <1>3, <1>6, ReadyEntries
<1>8. \A x \in Loadable(file.list, secrets) : x # state.cmd.email =>
         /\ state.accounts[x].status = file.list[x].status
         /\ state.accounts[x].profile = file.list[x].profile
         /\ state.accounts[x].password = secrets[x]
  BY <1>2, <1>3, <1>6, ReadyEntries
<1>9. \A x \in DOMAIN state.accounts :
         /\ file'.list[x].status = state.accounts[x].status
         /\ file'.list[x].profile = state.accounts[x].profile
  BY <1>5 DEF Serialized
<1>10. DOMAIN file'.list = DOMAIN state.accounts
  BY <1>5 DEF Serialized
<1> QED
  BY <1>3, <1>4, <1>5, <1>7, <1>8, <1>9, <1>10 DEF state

LEMMA RenameTmpCalm == ASSUME TypeInv, Calm, NEW f \in Fibers, RenameTmp(f) PROVE Calm'
<1>1. fiber[f].pc = "rename" /\ UNCHANGED <<secrets, promise, contended>>
  BY DEF RenameTmp, history
<1>2. Mutating(f) /\ Undisturbed(f) /\ fiber[f].cmd.op # "status" /\ fiber[f] \in FiberState
  BY <1>1, SavingIsAlone
<1>3. PICK email \in Emails : email = fiber[f].cmd.email
  BY <1>2, FiberType
<1>4. /\ Ready(fiber[f], file.list, secrets)
      /\ tmp # NoFile
      /\ file' = Whole(Serialized(fiber[f].accounts))
  BY <1>3, RenamedEntry
<1>5. /\ fiber'[f].pc = "sync"
      /\ fiber'[f].cmd = fiber[f].cmd
      /\ fiber'[f].accounts = fiber[f].accounts
      /\ fiber'[f].todo = DOMAIN fiber[f].accounts
  <2>1. fiber'[f] = [fiber[f] EXCEPT !.pc = "sync", !.todo = DOMAIN fiber[f].accounts]
    BY <1>4 DEF RenameTmp
  <2> QED
    BY <1>2, <2>1 DEF FiberState
<1>6. \A g \in Fibers \ {f} : fiber'[g].pc = fiber[g].pc /\ fiber'[g].cmd = fiber[g].cmd
  BY <1>4, RenamedFiber
<1>7. Syncing(fiber'[f], file'.list, secrets')
  <2>1. file'.list = Serialized(fiber[f].accounts)
    BY <1>4 DEF Whole
  <2>2. Syncing(fiber'[f], Serialized(fiber[f].accounts), secrets)
    BY <1>2, <1>4, <1>5, StoreType, SyncingStarts
  <2> QED
    BY <1>1, <2>1, <2>2
<1>8. Undisturbed(f)'
  BY <1>1, <1>2, <1>5, <1>7 DEF Undisturbed, Follows
<1>9. \A e \in Emails : Kept(e)'
  <2>1. ASSUME NEW e \in Emails, e = email PROVE Kept(e)'
    BY <1>1, <1>2, <1>3, <2>1 DEF Undisturbed, Kept
  <2>2. ASSUME NEW e \in Emails, e # email PROVE Kept(e)'
    <3>1. /\ e \in DOMAIN file'.list <=> e \in Loadable(file.list, secrets)
          /\ e \in Loadable(file.list, secrets) => file'.list[e].status = file.list[e].status
      BY <1>3, <2>2, RenamedEntry
    <3>2. e \in Loadable(file.list, secrets) <=> e \in DOMAIN file.list /\ secrets[e] # NoPassword
      BY DEF Loadable
    <3>3. Kept(e) /\ secrets'[e] = secrets[e] /\ promise'[e] = promise[e]
      BY <1>1 DEF Calm
    <3>4. Scanned(e)' <=> Scanned(e)
      BY <3>1, <3>2, <3>3 DEF Scanned
    <3>5. secrets[e] = NoPassword => e \notin DOMAIN file'.list
      BY <3>1, <3>2
    <3> QED
      BY <3>3, <3>4, <3>5, PromiseKinds DEF Kept
  <2> QED
    BY <2>1, <2>2
<1> QED
  BY <1>1, <1>2, <1>6, <1>8, <1>9, MoveCalm DEF Calm

\* What a keychain call of a save does, for any account and for the command's own.
LEMMA SyncedEntry ==
    ASSUME TypeInv, Calm, NEW f \in Fibers, fiber[f].pc = "sync",
           NEW x \in fiber[f].todo,
           secrets' = [secrets EXCEPT ![x] = SavedSecret(fiber[f].accounts[x])]
    PROVE  /\ x \in Emails /\ x \in DOMAIN file.list
           /\ fiber[f].accounts[x] \in Account
           /\ fiber[f].accounts[x].password # NoPassword
           /\ file.list[x].status = fiber[f].accounts[x].status
           /\ file.list[x].profile = fiber[f].accounts[x].profile
           /\ \A e \in Emails : e # x => secrets'[e] = secrets[e]
           /\ secrets'[x] = SavedSecret(fiber[f].accounts[x])
           /\ \/ secrets[x] = fiber[f].accounts[x].password
              \/ fiber[f].cmd.op = "add" /\ x = fiber[f].cmd.email
<1>1. Syncing(fiber[f], file.list, secrets)
  BY SavingIsAlone DEF Undisturbed, Follows
<1>2. x \in DOMAIN fiber[f].accounts /\ x \in Emails /\ fiber[f].accounts[x] \in Account
  BY FiberType DEF Fit
<1>3. /\ x \in DOMAIN file.list
      /\ file.list[x].status = fiber[f].accounts[x].status
      /\ file.list[x].profile = fiber[f].accounts[x].profile
  BY <1>1, <1>2 DEF Syncing, Serialized
<1>4. secrets \in [Emails -> Passwords \union {NoPassword}]
  BY StoreType
<1> QED
  BY <1>1, <1>2, <1>3, <1>4 DEF Syncing

\* The keychain call keeps what has been reached.
LEMMA SyncingGoesOn ==
    ASSUME TypeInv, Calm, NEW f \in Fibers, fiber[f].pc = "sync",
           NEW x \in fiber[f].todo,
           secrets' = [secrets EXCEPT ![x] = SavedSecret(fiber[f].accounts[x])],
           NEW state, state.cmd = fiber[f].cmd, state.accounts = fiber[f].accounts,
           state.todo = fiber[f].todo \ {x}
    PROVE  Syncing(state, file.list, secrets')
<1>1. Syncing(fiber[f], file.list, secrets)
  BY SavingIsAlone DEF Undisturbed, Follows
<1>2. /\ fiber[f].todo \subseteq DOMAIN fiber[f].accounts
      /\ DOMAIN fiber[f].accounts \in SUBSET Emails
      /\ fiber[f].cmd.op # "status" /\ fiber[f].cmd.email \in DOMAIN fiber[f].accounts
  BY FiberType DEF Fit
<1>3. /\ \A e \in Emails : e # x => secrets'[e] = secrets[e]
      /\ secrets'[x] = SavedSecret(fiber[f].accounts[x])
  BY SyncedEntry
<1>4. \A y \in DOMAIN state.accounts \ state.todo : secrets'[y] = SavedSecret(state.accounts[y])
  BY <1>1, <1>2, <1>3 DEF Syncing
<1>5. \A y \in state.todo : \/ secrets'[y] = state.accounts[y].password
                            \/ state.cmd.op = "add" /\ y = state.cmd.email
  BY <1>1, <1>2, <1>3 DEF Syncing
<1>6. Effected(state.cmd, state.accounts[state.cmd.email], secrets'[state.cmd.email])
  <2> DEFINE email == fiber[f].cmd.email
  <2>1. Effected(fiber[f].cmd, fiber[f].accounts[email], secrets[email])
    BY <1>1 DEF Syncing
  <2>2. CASE x # email
    BY <1>2, <1>3, <2>1, <2>2
  <2>3. CASE x = email /\ fiber[f].cmd.op = "add"
    <3>1. fiber[f].accounts[x].status = "active" /\ fiber[f].accounts[x].password # NoPassword
      BY <2>1, <2>3, SyncedEntry DEF Effected
    <3>2. secrets'[x] # NoPassword
      BY <1>3, <3>1 DEF SavedSecret
    <3> QED
      BY <2>1, <2>3, <3>2 DEF Effected
  <2>4. CASE x = email /\ fiber[f].cmd.op # "add"
    BY <2>1, <2>4 DEF Effected
  <2> QED
    BY <2>2, <2>3, <2>4
<1> QED
  BY <1>1, <1>4, <1>5, <1>6 DEF Syncing

LEMMA SyncSecretCalm == ASSUME TypeInv, Calm, NEW f \in Fibers, SyncSecret(f) PROVE Calm'
<1>1. PICK x \in fiber[f].todo :
        /\ secrets' = [secrets EXCEPT ![x] = SavedSecret(fiber[f].accounts[x])]
        /\ Becomes(f, [fiber[f] EXCEPT !.todo = @ \ {x}])
  BY DEF SyncSecret
<1> DEFINE state == [fiber[f] EXCEPT !.todo = @ \ {x}]
<1>2. fiber[f].pc = "sync" /\ UNCHANGED <<file, tmp, promise, contended>>
  BY DEF SyncSecret, history
<1>3. Mutating(f) /\ Undisturbed(f) /\ ~contended'
  BY <1>2, SavingIsAlone DEF Calm
<1>4. /\ state.pc = "sync" /\ state.cmd = fiber[f].cmd /\ state.accounts = fiber[f].accounts
      /\ state.todo = fiber[f].todo \ {x}
  BY <1>2, FiberType DEF FiberState
<1>5. Becomes(f, state)
  BY <1>1
<1> HIDE DEF state
<1>6. Follows(state, file'.list, secrets')
  <2>1. Syncing(state, file.list, secrets')
    BY <1>1, <1>2, <1>4, SyncingGoesOn
  <2> QED
    BY <1>2, <1>4, <2>1 DEF Follows
<1>7. promise'[state.cmd.email].kind = "none"
  BY <1>2, <1>3, <1>4 DEF Undisturbed
<1>8. /\ x \in Emails /\ x \in DOMAIN file.list
      /\ fiber[f].accounts[x].password # NoPassword
      /\ file.list[x].status = fiber[f].accounts[x].status
      /\ \A e \in Emails : e # x => secrets'[e] = secrets[e]
      /\ secrets'[x] = SavedSecret(fiber[f].accounts[x])
      /\ \/ secrets[x] = fiber[f].accounts[x].password
         \/ fiber[f].cmd.op = "add" /\ x = fiber[f].cmd.email
  BY <1>1, <1>2, SyncedEntry
<1>9. ASSUME NEW e \in Emails PROVE Kept(e)'
  <2>1. Kept(e) /\ promise'[e] = promise[e]
    BY <1>2 DEF Calm
  <2>2. CASE e # x
    BY <1>2, <1>8, <2>1, <2>2 DEF Kept, Scanned
  <2>3. CASE e = fiber[f].cmd.email
    BY <1>3, <2>1, <2>3 DEF Undisturbed, Kept
  <2>4. CASE e = x /\ e # fiber[f].cmd.email
    <3>1. secrets[e] = fiber[f].accounts[e].password /\ secrets[e] # NoPassword
      BY <1>8, <2>4
    <3>2. CASE file.list[e].status = "removed"
      <4>1. ~Scanned(e) /\ ~Scanned(e)' /\ secrets'[e] = NoPassword
        BY <1>2, <1>8, <2>4, <3>2 DEF Scanned, SavedSecret
      <4> QED
        BY <1>2, <2>1, <3>1, <3>2, <4>1, PromiseKinds DEF Kept
    <3>3. CASE file.list[e].status # "removed"
      <4>1. secrets'[e] = secrets[e]
        BY <1>8, <2>4, <3>1, <3>3 DEF SavedSecret
      <4> QED
        BY <1>2, <2>1, <4>1 DEF Kept, Scanned
    <3> QED
      BY <3>2, <3>3
  <2> QED
    BY <2>2, <2>3, <2>4
<1> QED
  BY <1>3, <1>4, <1>5, <1>6, <1>7, <1>9, BecomesCalm

LEMMA AnswerSavedCalm == ASSUME TypeInv, Calm, NEW f \in Fibers, AnswerSaved(f) PROVE Calm'
<1>1. /\ fiber[f].pc = "sync" /\ fiber[f].todo = {} /\ Finish(f)
      /\ UNCHANGED <<file, tmp, secrets, contended>>
  BY DEF AnswerSaved, store
<1>2. /\ Mutating(f) /\ Undisturbed(f) /\ fiber[f].cmd.op # "status"
  BY <1>1, SavingIsAlone
<1>3. PICK e \in Emails : e = fiber[f].cmd.email
  BY <1>2, FiberType
<1>4. PICK account \in Account : account = fiber[f].accounts[e] /\ e \in DOMAIN fiber[f].accounts
  BY <1>1, <1>3, FiberType DEF Fit
<1>5. Syncing(fiber[f], file.list, secrets)
  BY <1>1, <1>2 DEF Undisturbed, Follows
<1>6. /\ e \in DOMAIN file.list
      /\ file.list[e].status = account.status
      /\ secrets[e] = SavedSecret(account)
      /\ account.password # NoPassword
      /\ Effected(fiber[f].cmd, account, secrets[e])
  BY <1>1, <1>3, <1>4, <1>5 DEF Syncing, Serialized
<1>7. \A x \in Emails : Kept(x)'
  <2>1. CASE fiber[f].cmd.op = "add" /\ Promise(e, "scanned", fiber[f].cmd.password)
    <3>1. promise'[e] = [kind |-> "scanned", password |-> fiber[f].cmd.password]
      BY <2>1 DEF Promise, TypeInv, TypeOK
    <3>2. Kept(e)'
      BY <1>1, <1>6, <2>1, <3>1 DEF Kept, Scanned, Effected, SavedSecret
    <3> QED
      BY <1>1, <2>1, <3>2, PromisedKept
  <2>2. CASE fiber[f].cmd.op = "resume" /\ Promise(e, "scanned", account.password)
    <3>1. promise'[e] = [kind |-> "scanned", password |-> account.password]
      BY <2>2 DEF Promise, TypeInv, TypeOK
    <3>2. Kept(e)'
      BY <1>1, <1>6, <2>2, <3>1 DEF Kept, Scanned, Effected, SavedSecret
    <3> QED
      BY <1>1, <2>2, <3>2, PromisedKept
  <2>3. CASE fiber[f].cmd.op = "pause" /\ Promise(e, "unscanned", NoPassword)
    <3>1. ~Scanned(e)
      BY <1>6, <2>3 DEF Effected, Scanned
    <3>2. Kept(e)'
      BY <1>1, <2>3, <3>1, UnscannedKept
    <3> QED
      BY <1>1, <2>3, <3>2, PromisedKept
  <2>4. CASE fiber[f].cmd.op = "remove" /\ Promise(e, "removed", NoPassword)
    <3>1. promise'[e].kind = "removed"
      BY <2>4 DEF Promise, TypeInv, TypeOK
    <3>2. Kept(e)'
      BY <1>1, <1>6, <2>4, <3>1 DEF Kept, Effected, SavedSecret
    <3> QED
      BY <1>1, <2>4, <3>2, PromisedKept
  <2> QED
    BY <1>3, <1>4, <2>1, <2>2, <2>3, <2>4 DEF AnswerSaved
<1> QED
  BY <1>1, <1>2, <1>7, FinishCalm

-----------------------------------------------------------------------------
(* Failures, and all steps together.                                       *)

LEMMA CrashCalm == ASSUME TypeInv, Calm, Crash PROVE Calm'
<1>1. UNCHANGED <<file, tmp, secrets, promise, contended>>
  BY DEF Crash, store, history
<1>2. \A f \in Fibers : ~Mutating(f)'
  BY DEF Crash, Mutating, Running, Idle
<1>3. \A e \in Emails : Kept(e)'
  BY <1>1, SameKept DEF Calm
<1> QED
  BY <1>1, <1>2, <1>3 DEF Calm

LEMMA StepCalm ==
    ASSUME TypeInv, AloneInv, Calm, NEW f \in Fibers, Step(f) \/ Fail(f) PROVE Calm'
<1>1. ASSUME Fail(f) PROVE Calm'
  BY <1>1, SilentCalm DEF Fail, store, history
<1> QED
  BY <1>1, ReadFileCalm, FetchSecretCalm, AnswerStatusCalm, AnswerNotFoundCalm, CheckResumeCalm,
     ChangeCalm, OpenTmpCalm, WriteTmpCalm, RenameTmpCalm, SyncSecretCalm, AnswerSavedCalm DEF Step

LEMMA NextCalm == TypeInv /\ AloneInv /\ CalmInv /\ [Next]_vars => CalmInv'
<1> SUFFICES ASSUME TypeInv, AloneInv, CalmInv, [Next]_vars PROVE CalmInv'
  OBVIOUS
<1>1. ASSUME NEW f \in Fibers, Receive(f) PROVE CalmInv'
  BY <1>1, ReceiveCalm
<1>2. ASSUME NEW f \in Fibers, Step(f) \/ Fail(f) PROVE CalmInv'
  <2>1. raced' = raced
    BY <1>2 DEF Step, Fail, ReadFile, FetchSecret, AnswerStatus, AnswerNotFound, CheckResume,
       Change, OpenTmp, WriteTmp, RenameTmp, SyncSecret, AnswerSaved, history
  <2> QED
    BY <1>2, <2>1, StepCalm DEF CalmInv
<1>3. CASE Crash
  <2>1. raced' = raced
    BY <1>3 DEF Crash, history
  <2> QED
    BY <1>3, <2>1, CrashCalm DEF CalmInv
<1>4. CASE UNCHANGED vars
  <2>1. UNCHANGED <<file, tmp, secrets, fiber, promise, contended, raced>>
    BY <1>4 DEF vars, store, history
  <2>2. Calm => Calm'
    BY <2>1 DEF Calm, Undisturbed, Mutating, Running, Kept, Scanned
  <2> QED
    BY <2>1, <2>2 DEF CalmInv
<1> QED
  BY <1>1, <1>2, <1>3, <1>4 DEF Next

LEMMA InitCalm == Init => CalmInv
<1> SUFFICES ASSUME Init PROVE Calm
  BY DEF CalmInv
<1>1. \A f \in Fibers : ~Mutating(f)
  BY DEF Init, Mutating, Running, Idle
<1>2. \A e \in Emails : Kept(e)
  BY DEF Init, Kept, Nothing
<1> QED
  BY <1>1, <1>2 DEF Calm, Init

(***************************************************************************)
(* For any number of fibers, accounts and failures: as long as no two      *)
(* commands that change accounts have overlapped, what the last answer     *)
(* about an account told the user is what the store holds.                 *)
(***************************************************************************)
THEOREM AnswersStayTrue == Spec => []PromisesKept
<1>1. CalmInv => PromisesKept
  BY DEF CalmInv, Calm, PromisesKept
<1>2. Init => AloneInv
  BY DEF Init, AloneInv, Alone, Writing, Idle, NoFile, Whole
<1> QED
  BY <1>1, <1>2, InitType, NextType, NextAlone, InitCalm, NextCalm, PTL DEF Spec

-----------------------------------------------------------------------------
(* The life cycle.  Only a rename and a keychain call change what a load   *)
(* would return, and each changes one account by one move.                 *)

NoEntry == [status |-> "absent", profile |-> "gmail"]

EntriesOrNone == Entry \union {NoEntry}

\* How one account may move.
Move(old, new) ==
    \/ new = old
    \/ new = [status |-> "active", profile |-> IF old # NoEntry THEN old.profile ELSE "gmail"]
    \/ /\ old # NoEntry
       /\ \/ old.status = "active" /\ new = [old EXCEPT !.status = "paused"]
          \/ old.status = "paused" /\ new = [old EXCEPT !.status = "active"]
          \/ old.status # "removed" /\ new = [old EXCEPT !.status = "removed"]
          \/ old.status = "removed" /\ new = NoEntry

LEMMA EffectiveType ==
    ASSUME TypeInv, NEW e \in Emails
    PROVE  /\ Effective(e) \in EntriesOrNone
           /\ e \in Loadable(file.list, secrets) =>
                 Effective(e) = file.list[e] /\ file.list[e] \in Entry
           /\ e \notin Loadable(file.list, secrets) => Effective(e) = NoEntry
<1>1. file.list \in [DOMAIN file.list -> Entry]
  BY StoreType, ListElim DEF Registries
<1> QED
  BY <1>1 DEF Effective, EntriesOrNone, NoEntry, Loadable

LEMMA EntryFields ==
    /\ \A r \in Entry : r = [status |-> r.status, profile |-> r.profile]
    /\ \A r \in Entry : r.status \in Statuses /\ r.status # "absent" /\ r # NoEntry
BY DEF Entry, Statuses, NoEntry

\* When one account moves and the others stay, the registry takes a step or none.
LEMMA OneMove ==
    ASSUME NEW e \in Emails, \A x \in Emails : x # e => Effective(x)' = Effective(x),
           Move(Effective(e), Effective(e)')
    PROVE  [Registry!RegistryNext]_Effectives
<1>1. Effectives \in [Emails -> {Effective(x) : x \in Emails}] /\ Effectives[e] = Effective(e)
  BY DEF Effectives
<1>2. Effectives' = [Effectives EXCEPT ![e] = Effective(e)']
  BY <1>1 DEF Effectives
<1>3. CASE Effective(e)' = Effective(e)
  BY <1>1, <1>2, <1>3
<1>4. CASE Effective(e)' = [status |-> "active", profile |-> IF Effective(e) # NoEntry
                                                      THEN Effective(e).profile ELSE "gmail"]
  <2>1. Registry!Add(e)
    BY <1>1, <1>2, <1>4 DEF Registry!Add, Registry!Present, NoEntry
  <2> QED
    BY <2>1 DEF Registry!RegistryNext
<1>5. CASE Effective(e) # NoEntry
  <2>1. Registry!Present(e)
    BY <1>1, <1>5 DEF Registry!Present, NoEntry
  <2>2. ASSUME NEW status, Effective(e)' = [Effective(e) EXCEPT !.status = status]
        PROVE  Registry!Set(e, status)
    BY <1>1, <1>2, <2>2 DEF Registry!Set
  <2>3. CASE Effective(e).status = "active" /\ Effective(e)' = [Effective(e) EXCEPT !.status = "paused"]
    <3>1. Registry!Pause(e)
      BY <1>1, <2>1, <2>2, <2>3 DEF Registry!Pause
    <3> QED
      BY <3>1 DEF Registry!RegistryNext
  <2>4. CASE Effective(e).status = "paused" /\ Effective(e)' = [Effective(e) EXCEPT !.status = "active"]
    <3>1. Registry!Resume(e)
      BY <1>1, <2>1, <2>2, <2>4 DEF Registry!Resume
    <3> QED
      BY <3>1 DEF Registry!RegistryNext
  <2>5. CASE Effective(e).status # "removed" /\ Effective(e)' = [Effective(e) EXCEPT !.status = "removed"]
    <3>1. Registry!Remove(e)
      BY <1>1, <2>1, <2>2, <2>5 DEF Registry!Remove
    <3> QED
      BY <3>1 DEF Registry!RegistryNext
  <2>6. CASE Effective(e).status = "removed" /\ Effective(e)' = NoEntry
    <3>1. Registry!Forget(e)
      BY <1>1, <1>2, <2>1, <2>6 DEF Registry!Forget, NoEntry
    <3> QED
      BY <3>1 DEF Registry!RegistryNext
  <2> QED
    BY <1>3, <1>4, <1>5, <2>3, <2>4, <2>5, <2>6 DEF Move
<1> QED
  BY <1>3, <1>4, <1>5 DEF Move

LEMMA RenameMoves ==
    ASSUME TypeInv, TypeInv', Calm, NEW f \in Fibers, RenameTmp(f)
    PROVE  [Registry!RegistryNext]_Effectives
<1>1. fiber[f].pc = "rename" /\ secrets' = secrets
  BY DEF RenameTmp
<1>2. fiber[f] \in FiberState /\ fiber[f].cmd.op # "status" /\ fiber[f].cmd \in Commands
  BY <1>1, SavingIsAlone, FiberType
<1>3. PICK email \in Emails : email = fiber[f].cmd.email
  BY <1>2, FiberType
<1>4. \A e \in Emails : /\ Effective(e)' \in EntriesOrNone
                        /\ e \in Loadable(file'.list, secrets') =>
                              Effective(e)' = file'.list[e] /\ file'.list[e] \in Entry
                        /\ e \notin Loadable(file'.list, secrets') => Effective(e)' = NoEntry
  <2>1. file'.list \in Registries
    BY ContentsType DEF TypeInv, TypeOK
  <2>2. file'.list \in [DOMAIN file'.list -> Entry]
    BY <2>1, ListElim DEF Registries
  <2> QED
    BY <2>2 DEF Effective, EntriesOrNone, NoEntry, Loadable
<1>5. ASSUME NEW x \in Emails, x # email PROVE Effective(x)' = Effective(x)
  <2>1. x \in DOMAIN file'.list <=> x \in Loadable(file.list, secrets)
    BY <1>3, <1>5, RenamedEntry
  <2>2. x \in Loadable(file'.list, secrets') <=> x \in Loadable(file.list, secrets)
    BY <1>1, <2>1 DEF Loadable
  <2>3. CASE x \in Loadable(file.list, secrets)
    <3>1. /\ file'.list[x].status = file.list[x].status
          /\ file'.list[x].profile = file.list[x].profile
      BY <1>3, <1>5, <2>3, RenamedEntry
    <3>2. Effective(x) = file.list[x] /\ Effective(x)' = file'.list[x]
      BY <1>4, <2>2, <2>3, EffectiveType
    <3>3. file.list[x] \in Entry /\ file'.list[x] \in Entry
      BY <1>4, <2>2, <2>3, EffectiveType
    <3> QED
      BY <3>1, <3>2, <3>3, EntryFields
  <2>4. CASE x \notin Loadable(file.list, secrets)
    BY <1>4, <2>2, <2>4, EffectiveType
  <2> QED
    BY <2>3, <2>4
<1>6. Move(Effective(email), Effective(email)')
  <2> DEFINE old == Effective(email)
             new == Effective(email)'
             account == fiber[f].accounts[email]
  <2>1. /\ Ready(fiber[f], file.list, secrets)
        /\ email \in DOMAIN file'.list
        /\ file'.list[email].status = account.status
        /\ file'.list[email].profile = account.profile
    BY <1>3, RenamedEntry
  <2>2. CASE secrets[email] = NoPassword
    <3>1. /\ email \notin Loadable(file.list, secrets)
          /\ email \notin Loadable(file'.list, secrets')
      BY <1>1, <2>2 DEF Loadable
    <3>2. new = old
      BY <1>4, <3>1, EffectiveType
    <3> QED
      BY <3>2 DEF Move
  <2>3. CASE secrets[email] # NoPassword
    <3>1. email \in Loadable(file'.list, secrets')
      BY <1>1, <2>1, <2>3 DEF Loadable
    <3>2. new \in Entry /\ new.status = account.status /\ new.profile = account.profile
      BY <1>4, <2>1, <3>1
    <3>3. /\ email \in Loadable(file.list, secrets) => old = file.list[email] /\ old \in Entry
          /\ email \notin Loadable(file.list, secrets) => old = NoEntry
      BY EffectiveType
    <3>4. CASE fiber[f].cmd.op = "add"
      <4>1. account = [status |-> "active",
                       profile |-> IF email \in Loadable(file.list, secrets)
                                   THEN file.list[email].profile ELSE "gmail",
                       password |-> fiber[f].cmd.password]
        BY <1>2, <1>3, <2>1, <3>4, StoreType, ReadyEntries
      <4> HIDE DEF old, new, account
      <4>2. new = [status |-> new.status, profile |-> new.profile]
        BY <3>2, EntryFields
      <4>3. new = [status |-> "active", profile |-> IF old # NoEntry THEN old.profile ELSE "gmail"]
        BY <3>2, <3>3, <4>1, <4>2, EntryFields
      <4>4. Move(old, new)
        BY <4>3 DEF Move
      <4> QED
        BY <4>4 DEF old, new
    <3>5. CASE fiber[f].cmd.op # "add"
      <4> DEFINE loaded == FullLoad(file.list, secrets)[email]
      <4>1. /\ email \in Loadable(file.list, secrets)
            /\ account = Transition(loaded, Target(fiber[f].cmd.op))
        BY <1>2, <1>3, <2>1, <3>5, StoreType, ReadyEntries
      <4>2. loaded \in Account /\ loaded.status = file.list[email].status
                               /\ loaded.profile = file.list[email].profile
        BY <4>1, StoreType, FullLoadType, ListElim DEF Loads
      <4>3. old \in Entry /\ loaded.status = old.status /\ loaded.profile = old.profile
        BY <3>3, <4>1, <4>2
      <4>4. fiber[f].cmd.op \in {"pause", "resume", "remove"}
        BY <1>2, <3>5 DEF Commands
      <4> HIDE DEF old, new, account, loaded
      <4>5. account.profile = old.profile
        BY <4>1, <4>2, <4>3, <4>4 DEF Transition, Account, Target, Statuses
      <4>6. \/ account.status = old.status
            \/ old.status = "active" /\ account.status = "paused"
            \/ old.status = "paused" /\ account.status = "active"
            \/ account.status = "removed"
        BY <4>1, <4>2, <4>3, <4>4 DEF Transition, Account, Target, Statuses
      <4>7. ASSUME NEW s, new.status = s PROVE new = [old EXCEPT !.status = s]
        BY <3>2, <4>3, <4>5, <4>7 DEF Entry
      <4>8. new.status = old.status => new = old
        BY <3>2, <4>3, <4>5 DEF Entry
      <4>9. old # NoEntry
        BY <4>3, EntryFields
      <4>10. Move(old, new)
        BY <3>2, <4>6, <4>7, <4>8, <4>9 DEF Move
      <4> QED
        BY <4>10 DEF old, new
    <3> QED
      BY <3>4, <3>5
  <2> QED
    BY <2>2, <2>3
<1> QED
  BY <1>5, <1>6, OneMove

LEMMA SyncMoves ==
    ASSUME TypeInv, TypeInv', Calm, NEW f \in Fibers, SyncSecret(f)
    PROVE  [Registry!RegistryNext]_Effectives
<1>1. PICK x \in fiber[f].todo :
         secrets' = [secrets EXCEPT ![x] = SavedSecret(fiber[f].accounts[x])]
  BY DEF SyncSecret
<1>2. fiber[f].pc = "sync" /\ file' = file
  BY DEF SyncSecret
<1> DEFINE account == fiber[f].accounts[x]
<1>3. /\ x \in Emails /\ x \in DOMAIN file.list
      /\ account.password # NoPassword
      /\ file.list[x].status = account.status
      /\ file.list[x].profile = account.profile
      /\ \A e \in Emails : e # x => secrets'[e] = secrets[e]
      /\ secrets'[x] = SavedSecret(account)
      /\ secrets[x] = account.password \/ (fiber[f].cmd.op = "add" /\ x = fiber[f].cmd.email)
  BY <1>1, <1>2, SyncedEntry
<1>4. x = fiber[f].cmd.email => Effected(fiber[f].cmd, account, secrets[x])
  BY <1>2, SavingIsAlone DEF Undisturbed, Follows, Syncing
<1>5. file.list[x] \in Entry
  BY <1>3, StoreType, ListElim DEF Registries
<1> HIDE DEF account
<1>6. \A e \in Emails : e # x => Effective(e)' = Effective(e)
  BY <1>2, <1>3 DEF Effective
<1>7. Effective(x)' = IF secrets'[x] # NoPassword THEN file.list[x] ELSE NoEntry
  BY <1>2, <1>3 DEF Effective, NoEntry
<1>8. Effective(x) = IF secrets[x] # NoPassword THEN file.list[x] ELSE NoEntry
  BY <1>3 DEF Effective, NoEntry
<1>9. Move(Effective(x), Effective(x)')
  <2>1. CASE account.status = "removed"
    <3>1. secrets[x] # NoPassword /\ secrets'[x] = NoPassword
      BY <1>3, <1>4, <2>1 DEF Effected, SavedSecret
    <3>2. Effective(x) = file.list[x] /\ Effective(x)' = NoEntry
      BY <1>7, <1>8, <3>1
    <3>3. file.list[x] # NoEntry /\ file.list[x].status = "removed"
      BY <1>3, <1>5, <2>1, EntryFields
    <3> QED
      BY <3>2, <3>3 DEF Move
  <2>2. CASE account.status # "removed" /\ secrets[x] # NoPassword
    <3>1. Effective(x)' = Effective(x)
      BY <1>3, <1>7, <1>8, <2>2 DEF SavedSecret
    <3> QED
      BY <3>1 DEF Move
  <2>3. CASE account.status # "removed" /\ secrets[x] = NoPassword
    <3>1. account.status = "active" /\ account.profile = "gmail"
      BY <1>3, <1>4, <2>3 DEF Effected
    <3>2. Effective(x) = NoEntry /\ Effective(x)' = file.list[x]
      BY <1>3, <1>7, <1>8, <2>3 DEF SavedSecret
    <3>3. file.list[x] = [status |-> "active", profile |-> "gmail"]
      BY <1>3, <1>5, <3>1, EntryFields
    <3> QED
      BY <3>2, <3>3 DEF Move
  <2> QED
    BY <2>1, <2>2, <2>3
<1> QED
  BY <1>3, <1>6, <1>9, OneMove

LEMMA StoreStays ==
    ASSUME UNCHANGED <<file, secrets>> PROVE Effectives' = Effectives
BY DEF Effectives, Effective

LEMMA NextMoves ==
    ASSUME TypeInv, TypeInv', AloneInv, CalmInv, [Next]_vars, ~raced
    PROVE  [Registry!RegistryNext]_Effectives
<1>1. Calm
  BY DEF CalmInv
<1>2. ASSUME UNCHANGED <<file, secrets>> PROVE [Registry!RegistryNext]_Effectives
  BY <1>2, StoreStays
<1>3. ASSUME NEW f \in Fibers, Step(f) PROVE [Registry!RegistryNext]_Effectives
  <2>1. CASE RenameTmp(f)
    BY <1>1, <2>1, RenameMoves
  <2>2. CASE SyncSecret(f)
    BY <1>1, <2>2, SyncMoves
  <2>3. CASE WriteTmp(f)
    BY <1>1, <1>2, <2>3, WriteTmpWhole DEF WriteTmp
  <2>4. CASE OpenTmp(f)
    BY <1>2, <2>4 DEF OpenTmp
  <2>5. CASE ReadFile(f) \/ FetchSecret(f) \/ AnswerStatus(f) \/ AnswerNotFound(f)
             \/ CheckResume(f) \/ Change(f) \/ AnswerSaved(f)
    BY <1>2, <2>5 DEF ReadFile, FetchSecret, AnswerStatus, AnswerNotFound, CheckResume, Change,
       AnswerSaved, store
  <2> QED
    BY <1>3, <2>1, <2>2, <2>3, <2>4, <2>5 DEF Step
<1>4. ASSUME NEW f \in Fibers, Receive(f) \/ Fail(f) PROVE [Registry!RegistryNext]_Effectives
  BY <1>2, <1>4 DEF Receive, Fail, store
<1>5. CASE Crash \/ UNCHANGED vars
  BY <1>2, <1>5 DEF Crash, vars, store
<1> QED
  BY <1>3, <1>4, <1>5 DEF Next

LEMMA RegistryStarts == ASSUME TypeInv PROVE Registry!RegistryInit
<1>1. \A e \in Emails : Effective(e) \in [status : Statuses, profile : Profiles] \union {NoEntry}
  BY EffectiveType DEF EntriesOrNone, Entry
<1> QED
  BY <1>1 DEF Registry!RegistryInit, Effectives, NoEntry

AllInv == TypeInv /\ AloneInv /\ CalmInv

LEMMA AllInvHolds == Spec => []AllInv
<1>1. Init => AllInv
  <2>1. Init => AloneInv
    BY DEF Init, AloneInv, Alone, Writing, Idle, NoFile, Whole
  <2> QED
    BY <2>1, InitType, InitCalm DEF AllInv
<1>2. AllInv /\ [Next]_vars => AllInv'
  BY NextType, NextAlone, NextCalm DEF AllInv
<1> QED
  BY <1>1, <1>2, PTL DEF Spec

(***************************************************************************)
(* For any number of fibers, accounts and failures: before two commands    *)
(* that change accounts have overlapped, each step of the store (the       *)
(* rename and each keychain call of saveAllAccounts) makes one move of one *)
(* account's life cycle or none.                                           *)
(***************************************************************************)
THEOREM MovesAreMoves == Spec => MovesAreOrderly
<1>1. AllInv /\ AllInv' /\ [Next]_vars => (~raced => [Registry!RegistryNext]_Effectives)
  BY NextMoves DEF AllInv
<1> QED
  BY <1>1, AllInvHolds, PTL DEF Spec, MovesAreOrderly

(***************************************************************************)
(* With one command at a time, and any failure, the store implements the   *)
(* life cycle of domain/account.ts.                                        *)
(***************************************************************************)
THEOREM StoreImplementsRegistry ==
    ASSUME \A f, g \in Fibers : f = g PROVE Spec => ImplementsRegistry
<1>1. Init => ~raced
  BY DEF Init
<1>2. TypeInv /\ ~raced /\ [Next]_vars => ~raced'
  <2> SUFFICES ASSUME TypeInv, ~raced, [Next]_vars PROVE ~raced'
    OBVIOUS
  <2>1. ASSUME NEW f \in Fibers, Receive(f) PROVE ~raced'
    <3>1. \A g \in Fibers : g = f
      OBVIOUS
    <3>2. \A g \in Fibers : ~Mutating(g)
      BY <2>1, <3>1 DEF Receive, Mutating, Running
    <3> QED
      BY <2>1, <3>2 DEF Receive
  <2>2. ASSUME NEW f \in Fibers, Step(f) \/ Fail(f) PROVE ~raced'
    BY <2>2 DEF Step, Fail, ReadFile, FetchSecret, AnswerStatus, AnswerNotFound, CheckResume,
       Change, OpenTmp, WriteTmp, RenameTmp, SyncSecret, AnswerSaved, history
  <2>3. CASE Crash \/ UNCHANGED vars
    BY <2>3 DEF Crash, vars, history
  <2> QED
    BY <2>1, <2>2, <2>3 DEF Next
<1>3. AllInv => TypeInv /\ Registry!RegistryInit
  BY RegistryStarts DEF AllInv
<1>4. AllInv /\ AllInv' /\ ~raced /\ [Next]_vars => [Registry!RegistryNext]_Effectives
  BY NextMoves DEF AllInv
<1> QED
  BY <1>1, <1>2, <1>3, <1>4, AllInvHolds, PTL DEF Spec, ImplementsRegistry, Registry!RegistrySpec
=============================================================================
