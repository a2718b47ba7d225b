-------------------------- MODULE AccountStoreProofs --------------------------
(***************************************************************************)
(* Theorems about the account store, for any number of fibers, accounts,   *)
(* passwords and failures.                                                 *)
(***************************************************************************)
EXTENDS AccountStore, TLAPS

-----------------------------------------------------------------------------
(* Lists of accounts.                                                      *)

LEMMA ListIntro ==
    ASSUME NEW V, NEW S \in SUBSET Emails, NEW l \in [S -> V]
    PROVE  l \in ListsOf(V)
BY DEF ListsOf

LEMMA ListElim ==
    ASSUME NEW V, NEW l \in ListsOf(V)
    PROVE  /\ DOMAIN l \in SUBSET Emails
           /\ l \in [DOMAIN l -> V]
BY DEF ListsOf

LEMMA NoAccountsType == /\ \A V : NoAccounts \in ListsOf(V)
                        /\ DOMAIN NoAccounts = {}
<1>1. \A V : NoAccounts \in [{} -> V]
  BY DEF NoAccounts
<1> QED
  BY <1>1, ListIntro DEF NoAccounts

LEMMA SerializedType ==
    ASSUME NEW accounts \in Loads
    PROVE  /\ Serialized(accounts) \in Registries
           /\ DOMAIN Serialized(accounts) = DOMAIN accounts
<1>1. DOMAIN accounts \in SUBSET Emails /\ accounts \in [DOMAIN accounts -> Account]
  BY ListElim DEF Loads
<1>2. Serialized(accounts) \in [DOMAIN accounts -> Entry]
  BY <1>1 DEF Serialized, Account, Entry
<1> QED
  BY <1>1, <1>2, ListIntro DEF Registries, Serialized

LEMMA TransitionType ==
    ASSUME NEW account \in Account, NEW status \in Statuses
    PROVE  /\ Transition(account, status) \in Account
           /\ Transition(account, status).password = account.password
BY DEF Transition, Account, Statuses

LEMMA UpsertType ==
    ASSUME NEW accounts \in Loads, NEW e \in Emails, NEW p \in Passwords
    PROVE  /\ Upsert(accounts, e, p) \in Loads
           /\ DOMAIN Upsert(accounts, e, p) = DOMAIN accounts \union {e}
           /\ Upsert(accounts, e, p)[e].password = p
           /\ \A x \in DOMAIN accounts : x # e => Upsert(accounts, e, p)[x] = accounts[x]
<1>1. DOMAIN accounts \in SUBSET Emails /\ accounts \in [DOMAIN accounts -> Account]
  BY ListElim DEF Loads
<1>2. Upsert(accounts, e, p) \in [DOMAIN accounts \union {e} -> Account]
  BY <1>1 DEF Upsert, Account, Statuses, Profiles
<1> QED
  BY <1>1, <1>2, ListIntro DEF Upsert, Loads

LEMMA ChangedType ==
    ASSUME NEW cmd \in Commands, NEW accounts \in Loads, cmd.op # "status",
           cmd.op = "add" \/ cmd.email \in DOMAIN accounts
    PROVE  /\ Changed(cmd, accounts) \in Loads
           /\ DOMAIN Changed(cmd, accounts) = DOMAIN accounts \union {cmd.email}
           /\ \A x \in DOMAIN Changed(cmd, accounts) :
                 Changed(cmd, accounts)[x].password =
                    IF cmd.op = "add" /\ x = cmd.email THEN cmd.password ELSE accounts[x].password
<1>1. DOMAIN accounts \in SUBSET Emails /\ accounts \in [DOMAIN accounts -> Account]
  BY ListElim DEF Loads
<1>2. CASE cmd.op = "add"
  <2>1. cmd.email \in Emails /\ cmd.password \in Passwords
    BY <1>2 DEF Commands
  <2> DEFINE added == Upsert(accounts, cmd.email, cmd.password)
  <2>2. Changed(cmd, accounts) = added
    BY <1>2 DEF Changed
  <2>3. /\ added \in Loads
        /\ DOMAIN added = DOMAIN accounts \union {cmd.email}
        /\ added[cmd.email].password = cmd.password
        /\ \A x \in DOMAIN accounts : x # cmd.email => added[x] = accounts[x]
    BY <2>1, UpsertType
  <2> HIDE DEF added
  <2> QED
    BY <1>2, <2>2, <2>3
<1>3. CASE cmd.op # "add"
  <2>1. Target(cmd.op) \in Statuses
    BY <1>3 DEF Commands, Target, Statuses
  <2> DEFINE moved == Transition(accounts[cmd.email], Target(cmd.op))
  <2>2. moved \in Account /\ moved.password = accounts[cmd.email].password
    BY <1>1, <1>3, <2>1, TransitionType
  <2>3. Changed(cmd, accounts) = [accounts EXCEPT ![cmd.email] = moved]
    BY <1>3 DEF Changed
  <2> HIDE DEF moved
  <2>4. [accounts EXCEPT ![cmd.email] = moved] \in [DOMAIN accounts -> Account]
    BY <1>1, <2>2
  <2>5. Changed(cmd, accounts) \in Loads
    BY <1>1, <2>3, <2>4, ListIntro DEF Loads
  <2> QED
    BY <1>1, <1>3, <2>2, <2>3, <2>5
<1> QED
  BY <1>2, <1>3

LEMMA ParsedType ==
    ASSUME NEW registry \in Registries
    PROVE  /\ Parsed(registry) \in Loads
           /\ DOMAIN Parsed(registry) = DOMAIN registry
           /\ DOMAIN registry \in SUBSET Emails
           /\ \A e \in DOMAIN registry : Parsed(registry)[e].password = NoPassword
<1>1. DOMAIN registry \in SUBSET Emails /\ registry \in [DOMAIN registry -> Entry]
  BY ListElim DEF Registries
<1>2. Parsed(registry) \in [DOMAIN registry -> Account]
  BY <1>1 DEF Parsed, Account, Entry
<1> QED
  BY <1>1, <1>2, ListIntro DEF Parsed, Loads

LEMMA WithSecretType ==
    ASSUME NEW accounts \in Loads, NEW e \in DOMAIN accounts,
           NEW p \in Passwords \union {NoPassword}
    PROVE  /\ WithSecret(accounts, e, p) \in Loads
           /\ DOMAIN accounts \ {e} \subseteq DOMAIN WithSecret(accounts, e, p)
           /\ DOMAIN WithSecret(accounts, e, p) \subseteq DOMAIN accounts
           /\ \A x \in DOMAIN WithSecret(accounts, e, p) :
                 WithSecret(accounts, e, p)[x].password = IF x = e THEN p ELSE accounts[x].password
<1>1. DOMAIN accounts \in SUBSET Emails /\ accounts \in [DOMAIN accounts -> Account]
  BY ListElim DEF Loads
<1>2. CASE p = NoPassword
  <2> DEFINE kept == Restrict(accounts, DOMAIN accounts \ {e})
  <2>1. kept \in [DOMAIN accounts \ {e} -> Account] /\ \A x \in DOMAIN kept : kept[x] = accounts[x]
    BY <1>1 DEF Restrict
  <2>2. WithSecret(accounts, e, p) = kept
    BY <1>2 DEF WithSecret
  <2> HIDE DEF kept
  <2>3. kept \in Loads
    BY <1>1, <2>1, ListIntro DEF Loads
  <2> QED
    BY <2>1, <2>2, <2>3
<1>3. CASE p # NoPassword
  <2> DEFINE filled == [accounts EXCEPT ![e].password = p]
  <2>1. /\ filled \in [DOMAIN accounts -> Account]
        /\ \A x \in DOMAIN accounts :
              filled[x].password = IF x = e THEN p ELSE accounts[x].password
    BY <1>1 DEF Account
  <2>2. WithSecret(accounts, e, p) = filled
    BY <1>3 DEF WithSecret
  <2> HIDE DEF filled
  <2>3. filled \in Loads
    BY <1>1, <2>1, ListIntro DEF Loads
  <2> QED
    BY <2>1, <2>2, <2>3
<1> QED
  BY <1>2, <1>3

-----------------------------------------------------------------------------
(* Type correctness.  TypeOK alone is not inductive: the keychain calls of *)
(* a fiber index its accounts by the emails still to do, and its answer by *)
(* the email of its command, so both have to be in the list it holds.      *)

Fit(state) ==
    /\ state.pc \in {"secrets", "sync"} => state.todo \subseteq DOMAIN state.accounts
    /\ state.pc \in {"open", "write", "rename", "sync"} =>
          state.cmd.op # "status" /\ state.cmd.email \in DOMAIN state.accounts

TypeInv == TypeOK /\ \A f \in Fibers : Fit(fiber[f])

LEMMA IdleType == Idle \in FiberState /\ Fit(Idle)
BY NoAccountsType DEF Idle, StatusCommand, FiberState, PCs, Commands, Loads, Fit

LEMMA ContentsType ==
    /\ \A registry \in Registries : Whole(registry) \in Contents
    /\ NoFile \in Contents /\ Truncated \in Contents /\ Torn \in Contents
    /\ \A c \in Contents : c.list \in Registries
<1>1. NoAccounts \in Registries
  BY NoAccountsType DEF Registries
<1> QED
  BY <1>1 DEF Contents, Whole, NoFile, Truncated, Torn

\* A step of one fiber alone keeps the types of all if it keeps its own.
LEMMA BecomesType ==
    ASSUME TypeInv, NEW f \in Fibers, NEW state \in FiberState, Fit(state), Becomes(f, state)
    PROVE  fiber' \in [Fibers -> FiberState] /\ \A g \in Fibers : Fit(fiber'[g])
BY DEF TypeInv, TypeOK, Becomes

LEMMA FinishType ==
    ASSUME TypeInv, NEW f \in Fibers, Finish(f)
    PROVE  fiber' \in [Fibers -> FiberState] /\ \A g \in Fibers : Fit(fiber'[g])
BY IdleType, BecomesType DEF Finish

LEMMA FiberType ==
    ASSUME TypeInv, NEW f \in Fibers
    PROVE  /\ fiber[f] \in FiberState /\ Fit(fiber[f])
           /\ fiber[f].cmd \in Commands
           /\ fiber[f].cmd.op # "status" => fiber[f].cmd.email \in Emails
           /\ fiber[f].cmd.op = "add" => fiber[f].cmd.password \in Passwords
           /\ fiber[f].accounts \in Loads
           /\ DOMAIN fiber[f].accounts \in SUBSET Emails
           /\ fiber[f].accounts \in [DOMAIN fiber[f].accounts -> Account]
<1>1. fiber[f] \in FiberState /\ Fit(fiber[f])
  BY DEF TypeInv, TypeOK
<1>2. fiber[f].cmd \in Commands /\ fiber[f].accounts \in Loads
  BY <1>1 DEF FiberState
<1> QED
  BY <1>1, <1>2, ListElim DEF Commands, Loads

LEMMA PromiseType ==
    ASSUME TypeOK, NEW e \in Emails, NEW kind, NEW p \in Passwords \union {NoPassword},
           Promise(e, kind, p),
           kind = "scanned" \/ (kind \in {"unscanned", "removed"} /\ p = NoPassword)
    PROVE  promise' \in [Emails -> Promises]
BY DEF TypeOK, Promise, Promises

LEMMA ReceiveType == ASSUME TypeInv, NEW f \in Fibers, Receive(f) PROVE TypeInv'
<1>1. PICK cmd \in Commands :
        /\ Becomes(f, [Idle EXCEPT !.pc = "read", !.cmd = cmd, !.checked = (cmd.op # "resume")])
        /\ given' = given \union (IF cmd.op = "add" THEN {<<cmd.email, cmd.password>>} ELSE {})
        /\ promise' = [e \in Emails |-> IF e = cmd.email THEN Nothing ELSE promise[e]]
  BY DEF Receive
<1> DEFINE state == [Idle EXCEPT !.pc = "read", !.cmd = cmd, !.checked = (cmd.op # "resume")]
<1>2. state \in FiberState /\ Fit(state)
  BY IdleType DEF FiberState, PCs, Fit
<1>3. fiber' \in [Fibers -> FiberState] /\ \A g \in Fibers : Fit(fiber'[g])
  <2> HIDE DEF state
  <2> QED
    BY <1>1, <1>2, BecomesType DEF state
<1>4. given' \in SUBSET (Emails \X (Passwords \union {NoPassword}))
  BY <1>1 DEF TypeInv, TypeOK, Commands
<1>5. promise' \in [Emails -> Promises]
  BY <1>1 DEF TypeInv, TypeOK, Promises, Nothing
<1>6. raced' \in BOOLEAN
  BY DEF Receive, TypeInv, TypeOK
<1> QED
  BY <1>3, <1>4, <1>5, <1>6 DEF Receive, TypeInv, TypeOK, store

LEMMA ReadFileType == ASSUME TypeInv, NEW f \in Fibers, ReadFile(f) PROVE TypeInv'
<1> DEFINE state == [fiber[f] EXCEPT !.pc = "secrets", !.todo = DOMAIN file.list,
                                     !.accounts = Parsed(file.list)]
<1>1. file.list \in Registries
  BY ContentsType DEF TypeInv, TypeOK
<1>2. state \in FiberState /\ Fit(state)
  BY <1>1, ParsedType, FiberType DEF FiberState, PCs, Fit
<1>3. Finish(f) \/ Becomes(f, state)
  BY DEF ReadFile
<1> HIDE DEF state
<1>4. fiber' \in [Fibers -> FiberState] /\ \A g \in Fibers : Fit(fiber'[g])
  BY <1>2, <1>3, BecomesType, FinishType
<1> QED
  BY <1>4 DEF ReadFile, TypeInv, TypeOK, store, history

LEMMA FetchSecretType == ASSUME TypeInv, NEW f \in Fibers, FetchSecret(f) PROVE TypeInv'
<1>1. PICK e \in fiber[f].todo :
        Becomes(f, [fiber[f] EXCEPT !.todo = @ \ {e}, !.accounts = WithSecret(@, e, secrets[e])])
  BY DEF FetchSecret
<1> DEFINE filled == WithSecret(fiber[f].accounts, e, secrets[e])
           state == [fiber[f] EXCEPT !.todo = @ \ {e}, !.accounts = filled]
<1>2. e \in DOMAIN fiber[f].accounts /\ fiber[f].pc = "secrets"
  BY FiberType DEF FetchSecret, Fit
<1>3. secrets[e] \in Passwords \union {NoPassword}
  BY <1>2, FiberType DEF TypeInv, TypeOK
<1>4. filled \in Loads /\ DOMAIN fiber[f].accounts \ {e} \subseteq DOMAIN filled
  BY <1>2, <1>3, FiberType, WithSecretType
<1>5. Becomes(f, state)
  BY <1>1
<1> HIDE DEF filled
<1>6. state \in FiberState /\ Fit(state)
  BY <1>2, <1>4, FiberType DEF FiberState, Fit
<1> HIDE DEF state
<1>7. fiber' \in [Fibers -> FiberState] /\ \A g \in Fibers : Fit(fiber'[g])
  BY <1>5, <1>6, BecomesType
<1> QED
  BY <1>7 DEF FetchSecret, TypeInv, TypeOK, store, history

LEMMA AnswerStatusType == ASSUME TypeInv, NEW f \in Fibers, AnswerStatus(f) PROVE TypeInv'
BY FinishType DEF AnswerStatus, TypeInv, TypeOK, store, history

LEMMA AnswerNotFoundType == ASSUME TypeInv, NEW f \in Fibers, AnswerNotFound(f) PROVE TypeInv'
<1>1. fiber[f].cmd.email \in Emails
  BY FiberType DEF AnswerNotFound
<1>2. promise' \in [Emails -> Promises]
  BY <1>1, PromiseType DEF AnswerNotFound, TypeInv, TypeOK
<1>3. fiber' \in [Fibers -> FiberState] /\ \A g \in Fibers : Fit(fiber'[g])
  BY FinishType DEF AnswerNotFound
<1> QED
  BY <1>2, <1>3 DEF AnswerNotFound, TypeInv, TypeOK, store

LEMMA CheckResumeType == ASSUME TypeInv, NEW f \in Fibers, CheckResume(f) PROVE TypeInv'
<1> DEFINE state == [fiber[f] EXCEPT !.pc = "read", !.checked = TRUE, !.accounts = NoAccounts]
<1>1. fiber[f].cmd.email \in Emails
  BY FiberType DEF CheckResume
<1>2. promise' \in [Emails -> Promises]
  BY <1>1, PromiseType DEF CheckResume, TypeInv, TypeOK
<1>3. state \in FiberState /\ Fit(state)
  BY FiberType, NoAccountsType DEF FiberState, PCs, Fit, Loads
<1>4. Finish(f) \/ Becomes(f, state)
  BY DEF CheckResume
<1> HIDE DEF state
<1>5. fiber' \in [Fibers -> FiberState] /\ \A g \in Fibers : Fit(fiber'[g])
  BY <1>3, <1>4, BecomesType, FinishType
<1> QED
  BY <1>2, <1>5 DEF CheckResume, TypeInv, TypeOK, store

LEMMA ChangeType == ASSUME TypeInv, NEW f \in Fibers, Change(f) PROVE TypeInv'
<1> DEFINE changed == Changed(fiber[f].cmd, fiber[f].accounts)
           state == [fiber[f] EXCEPT !.pc = "open", !.accounts = changed]
<1>1. /\ fiber[f].cmd.op # "status"
      /\ fiber[f].cmd.op = "add" \/ fiber[f].cmd.email \in DOMAIN fiber[f].accounts
  BY DEF Change, Found
<1>2. changed \in Loads /\ DOMAIN changed = DOMAIN fiber[f].accounts \union {fiber[f].cmd.email}
  BY <1>1, FiberType, ChangedType
<1>3. Becomes(f, state)
  BY DEF Change
<1> HIDE DEF changed
<1>4. state \in FiberState /\ Fit(state)
  BY <1>1, <1>2, FiberType DEF FiberState, PCs, Fit
<1> HIDE DEF state
<1>5. fiber' \in [Fibers -> FiberState] /\ \A g \in Fibers : Fit(fiber'[g])
  BY <1>3, <1>4, BecomesType
<1> QED
  BY <1>5 DEF Change, TypeInv, TypeOK, store, history

LEMMA OpenTmpType == ASSUME TypeInv, NEW f \in Fibers, OpenTmp(f) PROVE TypeInv'
<1> DEFINE state == [fiber[f] EXCEPT !.pc = "write", !.handle = "tmp"]
<1>1. state \in FiberState /\ Fit(state)
  BY FiberType DEF OpenTmp, FiberState, PCs, Fit
<1>2. Becomes(f, state)
  BY DEF OpenTmp
<1> HIDE DEF state
<1>3. fiber' \in [Fibers -> FiberState] /\ \A g \in Fibers : Fit(fiber'[g])
  BY <1>1, <1>2, BecomesType
<1> QED
  BY <1>3, ContentsType DEF OpenTmp, TypeInv, TypeOK

LEMMA WriteTmpType == ASSUME TypeInv, NEW f \in Fibers, WriteTmp(f) PROVE TypeInv'
<1> DEFINE state == [fiber[f] EXCEPT !.pc = "rename", !.handle = "none"]
           new == Whole(Serialized(fiber[f].accounts))
<1>1. state \in FiberState /\ Fit(state)
  BY FiberType DEF WriteTmp, FiberState, PCs, Fit
<1>2. Becomes(f, state)
  BY DEF WriteTmp
<1> HIDE DEF state
<1>3. fiber' \in [Fibers -> FiberState] /\ \A g \in Fibers : Fit(fiber'[g])
  BY <1>1, <1>2, BecomesType
<1>4. new \in Contents
  BY FiberType, SerializedType, ContentsType
<1>5. /\ tmp' \in Overwritten(tmp, new) \/ tmp' = tmp
      /\ file' \in Overwritten(file, new) \/ file' = file
  BY DEF WriteTmp
<1> HIDE DEF new
<1>6. tmp' \in Contents /\ file' \in Contents
  BY <1>4, <1>5, ContentsType DEF Overwritten, TypeInv, TypeOK
<1> QED
  BY <1>3, <1>6 DEF WriteTmp, TypeInv, TypeOK, history

LEMMA RenameTmpType == ASSUME TypeInv, NEW f \in Fibers, RenameTmp(f) PROVE TypeInv'
<1>1. tmp' \in Contents /\ file' \in Contents
  BY ContentsType DEF RenameTmp, TypeInv, TypeOK
<1>2. fiber' \in [Fibers -> FiberState] /\ \A g \in Fibers : Fit(fiber'[g])
  <2>1. CASE tmp = NoFile
    BY <2>1, FinishType DEF RenameTmp
  <2>2. CASE tmp # NoFile
    <3> DEFINE synced == [fiber[f] EXCEPT !.pc = "sync", !.todo = DOMAIN fiber[f].accounts]
               moved(g) == [fiber[g] EXCEPT !.handle = Moved(@)]
    <3>1. fiber' = [g \in Fibers |-> IF g = f THEN synced ELSE moved(g)]
      BY <2>2 DEF RenameTmp
    <3>2. synced \in FiberState /\ Fit(synced)
      BY FiberType DEF RenameTmp, FiberState, PCs, Fit
    <3>3. \A g \in Fibers : moved(g) \in FiberState /\ Fit(moved(g))
      BY FiberType DEF FiberState, Fit, Moved
    <3> HIDE DEF synced, moved
    <3> QED
      BY <3>1, <3>2, <3>3
  <2> QED
    BY <2>1, <2>2
<1> QED
  BY <1>1, <1>2 DEF RenameTmp, TypeInv, TypeOK, history

LEMMA SyncSecretType == ASSUME TypeInv, NEW f \in Fibers, SyncSecret(f) PROVE TypeInv'
<1>1. PICK e \in fiber[f].todo :
        /\ secrets' = [secrets EXCEPT ![e] = SavedSecret(fiber[f].accounts[e])]
        /\ Becomes(f, [fiber[f] EXCEPT !.todo = @ \ {e}])
  BY DEF SyncSecret
<1> DEFINE state == [fiber[f] EXCEPT !.todo = @ \ {e}]
<1>2. e \in DOMAIN fiber[f].accounts /\ fiber[f].pc = "sync"
  BY FiberType DEF SyncSecret, Fit
<1>3. state \in FiberState /\ Fit(state)
  BY <1>2, FiberType DEF FiberState, Fit
<1> HIDE DEF state
<1>4. fiber' \in [Fibers -> FiberState] /\ \A g \in Fibers : Fit(fiber'[g])
  BY <1>1, <1>3, BecomesType DEF state
<1>5. SavedSecret(fiber[f].accounts[e]) \in Passwords \union {NoPassword}
  BY <1>2, FiberType DEF SavedSecret, Account
<1>6. secrets' \in [Emails -> Passwords \union {NoPassword}]
  BY <1>1, <1>5 DEF TypeInv, TypeOK
<1> QED
  BY <1>4, <1>6 DEF SyncSecret, TypeInv, TypeOK, history

LEMMA AnswerSavedType == ASSUME TypeInv, NEW f \in Fibers, AnswerSaved(f) PROVE TypeInv'
<1> DEFINE cmd == fiber[f].cmd
           password == fiber[f].accounts[cmd.email].password
<1>1. cmd.op # "status" /\ cmd.email \in Emails /\ cmd.email \in DOMAIN fiber[f].accounts
  BY FiberType DEF AnswerSaved, Fit
<1>2. password \in Passwords \union {NoPassword}
  BY <1>1, FiberType DEF Account
<1>3. \/ Promise(cmd.email, "scanned", password)
      \/ Promise(cmd.email, "scanned", cmd.password) /\ cmd.password \in Passwords
      \/ Promise(cmd.email, "unscanned", NoPassword)
      \/ Promise(cmd.email, "removed", NoPassword)
  BY FiberType DEF AnswerSaved
<1> HIDE DEF cmd, password
<1>4. promise' \in [Emails -> Promises]
  <2>1. TypeOK
    BY DEF TypeInv
  <2>2. ASSUME Promise(cmd.email, "scanned", password)
        PROVE  promise' \in [Emails -> Promises]
    BY <1>1, <1>2, <2>1, <2>2, PromiseType
  <2>5. ASSUME Promise(cmd.email, "scanned", cmd.password), cmd.password \in Passwords
        PROVE  promise' \in [Emails -> Promises]
    BY <1>1, <2>1, <2>5, PromiseType
  <2>3. ASSUME Promise(cmd.email, "unscanned", NoPassword)
        PROVE  promise' \in [Emails -> Promises]
    BY <1>1, <2>1, <2>3, PromiseType
  <2>4. ASSUME Promise(cmd.email, "removed", NoPassword)
        PROVE  promise' \in [Emails -> Promises]
    BY <1>1, <2>1, <2>4, PromiseType
  <2> QED
    BY <1>3, <2>2, <2>3, <2>4, <2>5
<1>5. fiber' \in [Fibers -> FiberState] /\ \A g \in Fibers : Fit(fiber'[g])
  BY FinishType DEF AnswerSaved
<1> QED
  BY <1>4, <1>5 DEF AnswerSaved, TypeInv, TypeOK, store

LEMMA FailType == ASSUME TypeInv, NEW f \in Fibers, Fail(f) PROVE TypeInv'
<1>1. faults' \in 0 .. MaxFaults
  BY FaultAssumption DEF Fail, TypeInv, TypeOK
<1> QED
  BY <1>1, FinishType DEF Fail, TypeInv, TypeOK, store, history

LEMMA CrashType == ASSUME TypeInv, Crash PROVE TypeInv'
<1>1. faults' \in 0 .. MaxFaults
  BY FaultAssumption DEF Crash, TypeInv, TypeOK
<1>2. fiber' \in [Fibers -> FiberState] /\ \A g \in Fibers : Fit(fiber'[g])
  BY IdleType DEF Crash
<1> QED
  BY <1>1, <1>2 DEF Crash, TypeInv, TypeOK, store, history

LEMMA InitType == Init => TypeInv
<1> SUFFICES ASSUME Init PROVE TypeInv
  OBVIOUS
<1>1. file \in Contents /\ tmp \in Contents
  BY ContentsType DEF Init
<1>2. fiber \in [Fibers -> FiberState] /\ \A f \in Fibers : Fit(fiber[f])
  BY IdleType DEF Init
<1>3. secrets \in [Emails -> Passwords \union {NoPassword}]
  BY PasswordAssumption DEF Init
<1>4. given \in SUBSET (Emails \X (Passwords \union {NoPassword}))
  BY <1>3 DEF Init
<1>5. promise \in [Emails -> Promises]
  BY DEF Init, Promises, Nothing
<1>6. faults \in 0 .. MaxFaults
  BY FaultAssumption DEF Init
<1>7. raced \in BOOLEAN /\ contended \in BOOLEAN
  BY DEF Init
<1> QED
  BY <1>1, <1>2, <1>3, <1>4, <1>5, <1>6, <1>7 DEF TypeInv, TypeOK

LEMMA NextType == TypeInv /\ [Next]_vars => TypeInv'
<1> SUFFICES ASSUME TypeInv, [Next]_vars PROVE TypeInv'
  OBVIOUS
<1>1. ASSUME NEW f \in Fibers, Receive(f) \/ Step(f) \/ Fail(f) PROVE TypeInv'
  BY <1>1, ReceiveType, ReadFileType, FetchSecretType, AnswerStatusType, AnswerNotFoundType,
     CheckResumeType, ChangeType, OpenTmpType, WriteTmpType, RenameTmpType, SyncSecretType,
     AnswerSavedType, FailType DEF Step
<1>2. CASE Crash
  BY <1>2, CrashType
<1>3. CASE UNCHANGED vars
  BY <1>3 DEF vars, store, history, TypeInv, TypeOK
<1> QED
  BY <1>1, <1>2, <1>3 DEF Next

(***************************************************************************)
(* Every variable keeps its type, and no fiber ever indexes its accounts   *)
(* by an email that is not among them.                                     *)
(***************************************************************************)
THEOREM TypeCorrect == Spec => []TypeOK
<1>1. TypeInv => TypeOK
  BY DEF TypeInv
<1> QED
  BY <1>1, InitType, NextType, PTL DEF Spec

-----------------------------------------------------------------------------
(* Provenance.  The accounts of the file come from what some fiber held,   *)
(* which came from an older file, the keychain or the fiber's command.     *)

Known(e, pairs) == \E p \in Passwords \union {NoPassword} : <<e, p>> \in pairs

ListTraced(content, pairs) == \A e \in DOMAIN content.list : Known(e, pairs)

SecretsTraced(ring, pairs) ==
    \A e \in Emails : ring[e] # NoPassword => <<e, ring[e]>> \in pairs

FiberTraced(state, pairs) ==
    /\ \A e \in DOMAIN state.accounts :
          /\ Known(e, pairs)
          /\ state.accounts[e].password # NoPassword =>
                <<e, state.accounts[e].password>> \in pairs
    /\ state.cmd.op = "add" => <<state.cmd.email, state.cmd.password>> \in pairs

GivenInv ==
    /\ ListTraced(file, given)
    /\ ListTraced(tmp, given)
    /\ SecretsTraced(secrets, given)
    /\ \A f \in Fibers : FiberTraced(fiber[f], given)

LEMMA IdleTraced == \A pairs : FiberTraced(Idle, pairs)
BY NoAccountsType DEF FiberTraced, Idle, StatusCommand

LEMMA EmptyTraced ==
    \A pairs : ListTraced(NoFile, pairs) /\ ListTraced(Truncated, pairs) /\ ListTraced(Torn, pairs)
BY NoAccountsType DEF ListTraced, NoFile, Truncated, Torn

LEMMA BecomesTraced ==
    ASSUME TypeInv, GivenInv, NEW f \in Fibers, NEW state, Becomes(f, state),
           FiberTraced(state, given), UNCHANGED given
    PROVE  \A g \in Fibers : FiberTraced(fiber'[g], given')
BY DEF TypeInv, TypeOK, GivenInv, Becomes

LEMMA FinishTraced ==
    ASSUME TypeInv, GivenInv, NEW f \in Fibers, Finish(f), UNCHANGED given
    PROVE  \A g \in Fibers : FiberTraced(fiber'[g], given')
BY IdleTraced, BecomesTraced DEF Finish

LEMMA ReceiveTraced == ASSUME TypeInv, GivenInv, NEW f \in Fibers, Receive(f) PROVE GivenInv'
<1>1. PICK cmd \in Commands :
        /\ Becomes(f, [Idle EXCEPT !.pc = "read", !.cmd = cmd, !.checked = (cmd.op # "resume")])
        /\ given' = given \union (IF cmd.op = "add" THEN {<<cmd.email, cmd.password>>} ELSE {})
  BY DEF Receive
<1> DEFINE state == [Idle EXCEPT !.pc = "read", !.cmd = cmd, !.checked = (cmd.op # "resume")]
<1>2. FiberTraced(state, given')
  BY <1>1, NoAccountsType DEF FiberTraced, Idle
<1>3. Becomes(f, state)
  BY <1>1
<1> HIDE DEF state
<1>4. given \subseteq given'
  BY <1>1
<1>5. \A g \in Fibers : FiberTraced(fiber'[g], given')
  <2> SUFFICES ASSUME NEW g \in Fibers PROVE FiberTraced(fiber'[g], given')
    OBVIOUS
  <2>1. CASE g = f
    BY <1>2, <1>3, <2>1 DEF Becomes, TypeInv, TypeOK
  <2>2. CASE g # f
    <3>1. fiber'[g] = fiber[g]
      BY <1>3, <2>2 DEF Becomes, TypeInv, TypeOK
    <3> QED
      BY <1>4, <3>1 DEF GivenInv, FiberTraced, Known
  <2> QED
    BY <2>1, <2>2
<1>6. ListTraced(file', given') /\ ListTraced(tmp', given') /\ SecretsTraced(secrets', given')
  BY <1>4 DEF GivenInv, ListTraced, SecretsTraced, Known, Receive, store
<1> QED
  BY <1>5, <1>6 DEF GivenInv

LEMMA ReadFileTraced == ASSUME TypeInv, GivenInv, NEW f \in Fibers, ReadFile(f) PROVE GivenInv'
<1> DEFINE state == [fiber[f] EXCEPT !.pc = "secrets", !.todo = DOMAIN file.list,
                                     !.accounts = Parsed(file.list)]
<1>1. file.list \in Registries /\ fiber[f] \in FiberState
  BY ContentsType, FiberType DEF TypeInv, TypeOK
<1>2. FiberTraced(state, given)
  BY <1>1, ParsedType DEF FiberTraced, GivenInv, ListTraced, FiberState
<1>3. Finish(f) \/ Becomes(f, state)
  BY DEF ReadFile
<1> HIDE DEF state
<1>4. \A g \in Fibers : FiberTraced(fiber'[g], given')
  BY <1>2, <1>3, BecomesTraced, FinishTraced DEF ReadFile, history
<1> QED
  BY <1>4 DEF ReadFile, GivenInv, store, history

LEMMA FetchSecretTraced ==
    ASSUME TypeInv, GivenInv, NEW f \in Fibers, FetchSecret(f) PROVE GivenInv'
<1>1. PICK e \in fiber[f].todo :
        Becomes(f, [fiber[f] EXCEPT !.todo = @ \ {e}, !.accounts = WithSecret(@, e, secrets[e])])
  BY DEF FetchSecret
<1> DEFINE filled == WithSecret(fiber[f].accounts, e, secrets[e])
           state == [fiber[f] EXCEPT !.todo = @ \ {e}, !.accounts = filled]
<1>2. e \in DOMAIN fiber[f].accounts /\ e \in Emails
  BY FiberType DEF FetchSecret, Fit
<1>3. secrets[e] \in Passwords \union {NoPassword}
  BY <1>2 DEF TypeInv, TypeOK
<1>4. /\ DOMAIN filled \subseteq DOMAIN fiber[f].accounts
      /\ \A x \in DOMAIN filled :
            filled[x].password = IF x = e THEN secrets[e] ELSE fiber[f].accounts[x].password
  BY <1>2, <1>3, FiberType, WithSecretType
<1>5. Becomes(f, state)
  BY <1>1
<1> HIDE DEF filled
<1>6. FiberTraced(state, given)
  BY <1>2, <1>4, FiberType DEF FiberTraced, GivenInv, SecretsTraced, FiberState
<1> HIDE DEF state
<1>7. \A g \in Fibers : FiberTraced(fiber'[g], given')
  BY <1>5, <1>6, BecomesTraced DEF FetchSecret, history
<1> QED
  BY <1>7 DEF FetchSecret, GivenInv, store, history

LEMMA AnswerTraced ==
    ASSUME TypeInv, GivenInv, NEW f \in Fibers,
           AnswerStatus(f) \/ AnswerNotFound(f) \/ CheckResume(f) \/ AnswerSaved(f)
    PROVE  GivenInv'
<1> DEFINE state == [fiber[f] EXCEPT !.pc = "read", !.checked = TRUE, !.accounts = NoAccounts]
<1>1. UNCHANGED <<store, given>> /\ (Finish(f) \/ Becomes(f, state))
  BY DEF AnswerStatus, AnswerNotFound, CheckResume, AnswerSaved, history
<1>2. FiberTraced(state, given)
  BY FiberType, NoAccountsType DEF FiberTraced, GivenInv, FiberState
<1> HIDE DEF state
<1>3. \A g \in Fibers : FiberTraced(fiber'[g], given')
  BY <1>1, <1>2, BecomesTraced, FinishTraced
<1> QED
  BY <1>1, <1>3 DEF GivenInv, store

LEMMA ChangeTraced == ASSUME TypeInv, GivenInv, NEW f \in Fibers, Change(f) PROVE GivenInv'
<1> DEFINE cmd == fiber[f].cmd
           changed == Changed(cmd, fiber[f].accounts)
           state == [fiber[f] EXCEPT !.pc = "open", !.accounts = changed]
<1>1. cmd.op # "status" /\ (cmd.op = "add" \/ cmd.email \in DOMAIN fiber[f].accounts)
  BY DEF Change, Found
<1>2. /\ DOMAIN changed = DOMAIN fiber[f].accounts \union {cmd.email}
      /\ \A x \in DOMAIN changed :
            changed[x].password = IF cmd.op = "add" /\ x = cmd.email THEN cmd.password
                                  ELSE fiber[f].accounts[x].password
  BY <1>1, FiberType, ChangedType
<1>3. Becomes(f, state)
  BY DEF Change
<1> HIDE DEF changed
<1>4. cmd.op = "add" => <<cmd.email, cmd.password>> \in given /\ cmd.password \in Passwords
  BY FiberType DEF GivenInv, FiberTraced
<1>5. \A x \in DOMAIN changed :
         Known(x, given) /\ (changed[x].password # NoPassword => <<x, changed[x].password>> \in given)
  BY <1>1, <1>2, <1>4 DEF GivenInv, FiberTraced, Known
<1>6. FiberTraced(state, given)
  BY <1>4, <1>5, FiberType DEF FiberTraced, FiberState
<1> HIDE DEF state
<1>7. \A g \in Fibers : FiberTraced(fiber'[g], given')
  BY <1>3, <1>6, BecomesTraced DEF Change, history
<1> QED
  BY <1>7 DEF Change, GivenInv, store, history

LEMMA OpenTmpTraced == ASSUME TypeInv, GivenInv, NEW f \in Fibers, OpenTmp(f) PROVE GivenInv'
<1> DEFINE state == [fiber[f] EXCEPT !.pc = "write", !.handle = "tmp"]
<1>1. FiberTraced(state, given)
  BY FiberType DEF FiberTraced, GivenInv, FiberState
<1>2. Becomes(f, state)
  BY DEF OpenTmp
<1> HIDE DEF state
<1>3. \A g \in Fibers : FiberTraced(fiber'[g], given')
  BY <1>1, <1>2, BecomesTraced DEF OpenTmp
<1> QED
  BY <1>3, EmptyTraced DEF OpenTmp, GivenInv

LEMMA WriteTmpTraced == ASSUME TypeInv, GivenInv, NEW f \in Fibers, WriteTmp(f) PROVE GivenInv'
<1> DEFINE state == [fiber[f] EXCEPT !.pc = "rename", !.handle = "none"]
           new == Whole(Serialized(fiber[f].accounts))
<1>1. FiberTraced(state, given)
  BY FiberType DEF FiberTraced, GivenInv, FiberState
<1>2. Becomes(f, state)
  BY DEF WriteTmp
<1> HIDE DEF state
<1>3. \A g \in Fibers : FiberTraced(fiber'[g], given')
  BY <1>1, <1>2, BecomesTraced DEF WriteTmp, history
<1>4. ListTraced(new, given)
  BY FiberType, SerializedType DEF ListTraced, Whole, GivenInv, FiberTraced
<1>5. /\ tmp' \in Overwritten(tmp, new) \/ tmp' = tmp
      /\ file' \in Overwritten(file, new) \/ file' = file
  BY DEF WriteTmp
<1> HIDE DEF new
<1>6. ListTraced(tmp', given) /\ ListTraced(file', given)
  BY <1>4, <1>5, EmptyTraced DEF Overwritten, GivenInv
<1> QED
  BY <1>3, <1>6 DEF WriteTmp, GivenInv, history

\* What a rename does to each fiber.
LEMMA RenamedFiber ==
    ASSUME TypeInv, NEW f \in Fibers, RenameTmp(f), tmp # NoFile, NEW g \in Fibers
    PROVE  /\ fiber'[g].accounts = fiber[g].accounts
           /\ fiber'[g].cmd = fiber[g].cmd
           /\ fiber'[g].pc = IF g = f THEN "sync" ELSE fiber[g].pc
           /\ g # f => fiber'[g].handle = Moved(fiber[g].handle)
<1>1. fiber[g] \in FiberState
  BY FiberType
<1>2. fiber'[g] = IF g = f THEN [fiber[f] EXCEPT !.pc = "sync", !.todo = DOMAIN fiber[f].accounts]
                  ELSE [fiber[g] EXCEPT !.handle = Moved(@)]
  BY DEF RenameTmp
<1> QED
  BY <1>1, <1>2 DEF FiberState

LEMMA RenameTmpTraced == ASSUME TypeInv, GivenInv, NEW f \in Fibers, RenameTmp(f) PROVE GivenInv'
<1>1. ListTraced(tmp', given) /\ ListTraced(file', given)
  BY EmptyTraced DEF RenameTmp, GivenInv
<1>2. \A g \in Fibers : FiberTraced(fiber'[g], given')
  <2>1. CASE tmp = NoFile
    BY <2>1, FinishTraced DEF RenameTmp, history
  <2>2. CASE tmp # NoFile
    <3>1. \A g \in Fibers : fiber'[g].accounts = fiber[g].accounts /\ fiber'[g].cmd = fiber[g].cmd
      BY <2>2, RenamedFiber
    <3> QED
      BY <3>1 DEF GivenInv, FiberTraced, RenameTmp, history
  <2> QED
    BY <2>1, <2>2
<1> QED
  BY <1>1, <1>2 DEF RenameTmp, GivenInv, history

LEMMA SyncSecretTraced == ASSUME TypeInv, GivenInv, NEW f \in Fibers, SyncSecret(f) PROVE GivenInv'
<1>1. PICK e \in fiber[f].todo :
        /\ secrets' = [secrets EXCEPT ![e] = SavedSecret(fiber[f].accounts[e])]
        /\ Becomes(f, [fiber[f] EXCEPT !.todo = @ \ {e}])
  BY DEF SyncSecret
<1> DEFINE state == [fiber[f] EXCEPT !.todo = @ \ {e}]
<1>2. e \in DOMAIN fiber[f].accounts /\ e \in Emails
  BY FiberType DEF SyncSecret, Fit
<1>3. FiberTraced(state, given)
  BY FiberType DEF FiberTraced, GivenInv, FiberState
<1>4. Becomes(f, state)
  BY <1>1
<1> HIDE DEF state
<1>5. \A g \in Fibers : FiberTraced(fiber'[g], given')
  BY <1>3, <1>4, BecomesTraced DEF SyncSecret, history
<1>6. SecretsTraced(secrets', given)
  BY <1>1, <1>2 DEF SecretsTraced, GivenInv, FiberTraced, SavedSecret, TypeInv, TypeOK
<1> QED
  BY <1>5, <1>6 DEF SyncSecret, GivenInv, history

LEMMA InitTraced == Init => GivenInv
<1> SUFFICES ASSUME Init PROVE GivenInv
  OBVIOUS
<1>1. TypeInv
  BY InitType
<1>2. DOMAIN file.list \in SUBSET Emails
  BY <1>1, ContentsType, ListElim DEF TypeInv, TypeOK, Registries
<1>3. secrets \in [Emails -> Passwords \union {NoPassword}]
  BY <1>1 DEF TypeInv, TypeOK
<1>4. \A e \in Emails :
        e \in DOMAIN file.list \/ secrets[e] # NoPassword => <<e, secrets[e]>> \in given
  BY DEF Init
<1>5. ListTraced(file, given) /\ SecretsTraced(secrets, given)
  BY <1>2, <1>3, <1>4 DEF ListTraced, SecretsTraced, Known
<1>6. ListTraced(tmp, given) /\ \A f \in Fibers : FiberTraced(fiber[f], given)
  BY EmptyTraced, IdleTraced DEF Init
<1> QED
  BY <1>5, <1>6 DEF GivenInv

LEMMA NextTraced == TypeInv /\ GivenInv /\ [Next]_vars => GivenInv'
<1> SUFFICES ASSUME TypeInv, GivenInv, [Next]_vars PROVE GivenInv'
  OBVIOUS
<1>1. ASSUME NEW f \in Fibers, Receive(f) \/ Step(f) PROVE GivenInv'
  BY <1>1, ReceiveTraced, ReadFileTraced, FetchSecretTraced, AnswerTraced, ChangeTraced,
     OpenTmpTraced, WriteTmpTraced, RenameTmpTraced, SyncSecretTraced DEF Step
<1>2. ASSUME NEW f \in Fibers, Fail(f) PROVE GivenInv'
  BY <1>2, FinishTraced DEF Fail, GivenInv, store, history
<1>3. CASE Crash
  BY <1>3, IdleTraced DEF Crash, GivenInv, store, history
<1>4. CASE UNCHANGED vars
  BY <1>4 DEF vars, store, history, GivenInv
<1> QED
  BY <1>1, <1>2, <1>3, <1>4 DEF Next

(***************************************************************************)
(* However commands overlap and fail, no account appears that nobody set   *)
(* up and no account gets the password of another.                         *)
(***************************************************************************)
THEOREM NothingIsInvented == Spec => []NothingInvented
<1>1. TypeInv /\ GivenInv => NothingInvented
  BY DEF GivenInv, ListTraced, SecretsTraced, Known, NothingInvented
<1> QED
  BY <1>1, InitType, NextType, InitTraced, NextTraced, PTL DEF Spec

-----------------------------------------------------------------------------
(* The temporary file.  While saves have not met, at most one fiber is     *)
(* between open and rename; its descriptor is the one named .tmp, which    *)
(* holds nothing before its write and a whole list after it.               *)

Alone ==
    /\ file.form \in {"missing", "whole"}
    /\ \A f, g \in Fibers : Writing(f) /\ Writing(g) => f = g
    /\ \A f \in Fibers : fiber[f].pc = "write" => fiber[f].handle = "tmp" /\ tmp = Truncated
    /\ \A f \in Fibers : fiber[f].pc = "rename" => tmp.form = "whole"

AloneInv == ~contended => Alone

\* A step that leaves the files alone and takes its fiber to a pc outside the save.
LEMMA OutsideAlone ==
    ASSUME TypeInv, AloneInv, NEW f \in Fibers, NEW state, Becomes(f, state),
           state.pc \notin {"write", "rename"}, UNCHANGED <<file, tmp, contended>>
    PROVE  AloneInv'
<1>1. \A g \in Fibers : fiber'[g] = IF g = f THEN state ELSE fiber[g]
  BY DEF Becomes, TypeInv, TypeOK
<1> QED
  BY <1>1 DEF AloneInv, Alone, Writing

LEMMA FinishAlone ==
    ASSUME TypeInv, AloneInv, NEW f \in Fibers, Finish(f), UNCHANGED <<file, tmp, contended>>
    PROVE  AloneInv'
BY OutsideAlone DEF Finish, Idle

LEMMA ReceiveAlone == ASSUME TypeInv, AloneInv, NEW f \in Fibers, Receive(f) PROVE AloneInv'
<1>1. PICK cmd \in Commands :
        Becomes(f, [Idle EXCEPT !.pc = "read", !.cmd = cmd, !.checked = (cmd.op # "resume")])
  BY DEF Receive
<1> QED
  BY <1>1, OutsideAlone DEF Receive, store, Idle

LEMMA ReadFileAlone == ASSUME TypeInv, AloneInv, NEW f \in Fibers, ReadFile(f) PROVE AloneInv'
<1> DEFINE state == [fiber[f] EXCEPT !.pc = "secrets", !.todo = DOMAIN file.list,
                                     !.accounts = Parsed(file.list)]
<1>1. state.pc = "secrets"
  BY FiberType DEF FiberState
<1>2. Finish(f) \/ Becomes(f, state)
  BY DEF ReadFile
<1> HIDE DEF state
<1> QED
  BY <1>1, <1>2, OutsideAlone, FinishAlone DEF ReadFile, store, history

LEMMA FetchSecretAlone ==
    ASSUME TypeInv, AloneInv, NEW f \in Fibers, FetchSecret(f) PROVE AloneInv'
<1>1. PICK e \in fiber[f].todo :
        Becomes(f, [fiber[f] EXCEPT !.todo = @ \ {e}, !.accounts = WithSecret(@, e, secrets[e])])
  BY DEF FetchSecret
<1> DEFINE state == [fiber[f] EXCEPT !.todo = @ \ {e}, !.accounts = WithSecret(@, e, secrets[e])]
<1>2. state.pc = "secrets"
  BY FiberType DEF FiberState, FetchSecret
<1>3. Becomes(f, state)
  BY <1>1
<1> HIDE DEF state
<1> QED
  BY <1>2, <1>3, OutsideAlone DEF FetchSecret, store, history

LEMMA AnswerAlone ==
    ASSUME TypeInv, AloneInv, NEW f \in Fibers,
           AnswerStatus(f) \/ AnswerNotFound(f) \/ CheckResume(f) \/ AnswerSaved(f)
    PROVE  AloneInv'
<1> DEFINE state == [fiber[f] EXCEPT !.pc = "read", !.checked = TRUE, !.accounts = NoAccounts]
<1>1. UNCHANGED <<file, tmp, contended>> /\ (Finish(f) \/ Becomes(f, state))
  BY DEF AnswerStatus, AnswerNotFound, CheckResume, AnswerSaved, store, history
<1>2. state.pc = "read"
  BY FiberType DEF FiberState
<1> HIDE DEF state
<1> QED
  BY <1>1, <1>2, OutsideAlone, FinishAlone

LEMMA ChangeAlone == ASSUME TypeInv, AloneInv, NEW f \in Fibers, Change(f) PROVE AloneInv'
<1> DEFINE state == [fiber[f] EXCEPT !.pc = "open", !.accounts = Changed(fiber[f].cmd, @)]
<1>1. state.pc = "open"
  BY FiberType DEF FiberState
<1>2. Becomes(f, state)
  BY DEF Change
<1> HIDE DEF state
<1> QED
  BY <1>1, <1>2, OutsideAlone DEF Change, store, history

LEMMA OpenTmpAlone == ASSUME TypeInv, AloneInv, NEW f \in Fibers, OpenTmp(f) PROVE AloneInv'
<1> SUFFICES ASSUME ~contended' PROVE Alone'
  BY DEF AloneInv
<1> DEFINE state == [fiber[f] EXCEPT !.pc = "write", !.handle = "tmp"]
<1>1. ~contended /\ \A g \in Fibers \ {f} : ~Writing(g)
  BY DEF OpenTmp
<1>2. Alone
  BY <1>1 DEF AloneInv
<1>3. state.pc = "write" /\ state.handle = "tmp"
  BY FiberType DEF FiberState
<1>4. \A g \in Fibers : fiber'[g] = IF g = f THEN state ELSE fiber[g]
  BY DEF OpenTmp, Becomes, TypeInv, TypeOK
<1> HIDE DEF state
<1> QED
  BY <1>1, <1>2, <1>3, <1>4 DEF Alone, Writing, OpenTmp

LEMMA WriteTmpAlone == ASSUME TypeInv, AloneInv, NEW f \in Fibers, WriteTmp(f) PROVE AloneInv'
<1> SUFFICES ASSUME ~contended' PROVE Alone'
  BY DEF AloneInv
<1> DEFINE state == [fiber[f] EXCEPT !.pc = "rename", !.handle = "none"]
           new == Whole(Serialized(fiber[f].accounts))
<1>1. Alone /\ fiber[f].pc = "write"
  BY DEF WriteTmp, history, AloneInv
<1>2. fiber[f].handle = "tmp" /\ tmp = Truncated
  BY <1>1 DEF Alone
<1>3. file' = file /\ tmp' \in Overwritten(tmp, new)
  BY <1>2 DEF WriteTmp
<1>4. new.form = "whole"
  BY DEF Whole
<1> HIDE DEF new
<1>5. tmp'.form = "whole"
  BY <1>2, <1>3, <1>4 DEF Overwritten
<1>6. state.pc = "rename"
  BY FiberType DEF FiberState
<1>7. \A g \in Fibers : fiber'[g] = IF g = f THEN state ELSE fiber[g]
  BY DEF WriteTmp, Becomes, TypeInv, TypeOK
<1> HIDE DEF state
<1> QED
  BY <1>1, <1>3, <1>5, <1>6, <1>7 DEF Alone, Writing

LEMMA RenameTmpAlone == ASSUME TypeInv, AloneInv, NEW f \in Fibers, RenameTmp(f) PROVE AloneInv'
<1> SUFFICES ASSUME ~contended' PROVE Alone'
  BY DEF AloneInv
<1>1. Alone /\ fiber[f].pc = "rename" /\ tmp.form = "whole"
  BY DEF RenameTmp, history, AloneInv, Alone
<1>2. tmp # NoFile
  BY <1>1 DEF NoFile
<1>3. file' = tmp
  BY <1>2 DEF RenameTmp
<1>4. \A g \in Fibers : fiber'[g].pc = IF g = f THEN "sync" ELSE fiber[g].pc
  BY <1>2, RenamedFiber
<1>5. \A g \in Fibers : ~Writing(g)'
  BY <1>1, <1>4 DEF Alone, Writing
<1> QED
  BY <1>1, <1>3, <1>5 DEF Alone, Writing

LEMMA SyncSecretAlone == ASSUME TypeInv, AloneInv, NEW f \in Fibers, SyncSecret(f) PROVE AloneInv'
<1>1. PICK e \in fiber[f].todo : Becomes(f, [fiber[f] EXCEPT !.todo = @ \ {e}])
  BY DEF SyncSecret
<1> DEFINE state == [fiber[f] EXCEPT !.todo = @ \ {e}]
<1>2. state.pc = "sync"
  BY FiberType DEF FiberState, SyncSecret
<1>3. Becomes(f, state)
  BY <1>1
<1> HIDE DEF state
<1> QED
  BY <1>2, <1>3, OutsideAlone DEF SyncSecret, history

LEMMA NextAlone == TypeInv /\ AloneInv /\ [Next]_vars => AloneInv'
<1> SUFFICES ASSUME TypeInv, AloneInv, [Next]_vars PROVE AloneInv'
  OBVIOUS
<1>1. ASSUME NEW f \in Fibers, Receive(f) \/ Step(f) PROVE AloneInv'
  BY <1>1, ReceiveAlone, ReadFileAlone, FetchSecretAlone, AnswerAlone, ChangeAlone,
     OpenTmpAlone, WriteTmpAlone, RenameTmpAlone, SyncSecretAlone DEF Step
<1>2. ASSUME NEW f \in Fibers, Fail(f) PROVE AloneInv'
  BY <1>2, FinishAlone DEF Fail, store, history
<1>3. CASE Crash
  BY <1>3 DEF Crash, AloneInv, Alone, Writing, Idle, store, history
<1>4. CASE UNCHANGED vars
  BY <1>4 DEF vars, store, history, AloneInv, Alone, Writing
<1> QED
  BY <1>1, <1>2, <1>3, <1>4 DEF Next

(***************************************************************************)
(* One save at a time never leaves the file truncated or torn, whatever    *)
(* fails in the middle of it.                                              *)
(***************************************************************************)
THEOREM FileStaysWhole == Spec => []WholeUnlessContended
<1>1. Init => AloneInv
  BY DEF Init, AloneInv, Alone, Writing, Idle, NoFile, Whole
<1>2. AloneInv => WholeUnlessContended
  BY DEF AloneInv, Alone, WholeUnlessContended
<1> QED
  BY <1>1, <1>2, InitType, NextType, NextAlone, PTL DEF Spec
=============================================================================
