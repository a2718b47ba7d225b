------------------------ MODULE CredentialNoticeProofs ------------------------
(***************************************************************************)
(* Theorems about the notices of refused passwords, for any accounts, any  *)
(* throttle and any number of failures.                                    *)
(***************************************************************************)
EXTENDS CredentialNotice, WellFoundedInduction, TLAPS

-----------------------------------------------------------------------------
(* The inductive invariant.                                                *)

(***************************************************************************)
(* A run asks the limiter only once, so when it does nobody has taken a    *)
(* token: the limiter is as fresh as the process, however much time has    *)
(* passed.                                                                 *)
(***************************************************************************)
LimiterFresh == run.pc \in {"connect", "limit"} => limiter = LongAgo

Inv == TypeOK /\ LimiterFresh

-----------------------------------------------------------------------------
(* The places left in the file.                                            *)

LEMMA PlacesAreNumbers == Places \subseteq Nat /\ \A i \in Places : Order[i] \in Accounts
<1>1. Places = 1 .. Len(Order)
  BY OrderAssumption DEF Places
<1> QED
  BY <1>1 DEF Accounts

LEMMA MinIsLeft ==
    ASSUME NEW S \in SUBSET Nat, S # {}
    PROVE  Min(S) \in S
<1>1. IsWellFoundedOn(OpToRel(<, Nat), Nat)
  BY NatLessThanWellFounded
<1>2. \E x \in S : \A y \in S : ~(<<y, x>> \in OpToRel(<, Nat))
  BY <1>1, WFMin
<1>3. PICK x \in S : \A y \in S : ~(<<y, x>> \in OpToRel(<, Nat))
  BY <1>2
<1>4. \A y \in S : x =< y
  <2>1. OpToRel(<, Nat) = {ss \in Nat \X Nat : ss[1] < ss[2]}
    BY DEF OpToRel
  <2>2. ASSUME NEW y \in S
        PROVE  x =< y
    <3>1. <<y, x>> \in Nat \X Nat /\ <<y, x>> \notin {ss \in Nat \X Nat : ss[1] < ss[2]}
      BY <1>3, <2>1
    <3>2. ~(y < x)
      BY <3>1
    <3> QED
      BY <3>2
  <2> QED
    BY <2>2
<1> QED
  BY <1>4 DEF Min

LEMMA CurrentIsAccount ==
    ASSUME TypeOK, run.left # {}
    PROVE  Min(run.left) \in run.left /\ Current \in Accounts
<1>1. run.left \in SUBSET Nat /\ run.left \subseteq Places
  BY PlacesAreNumbers DEF TypeOK
<1> QED
  BY <1>1, MinIsLeft, PlacesAreNumbers DEF Current

RunState == [pc : PCs, left : SUBSET Places, bad : SUBSET Accounts]

LEMMA StoppedTyped == Stopped \in RunState
BY DEF Stopped, RunState, PCs

\* The types of a run in a state of its own and one outside of a notice.
LEMMA Between ==
    ASSUME NEW state \in RunState, state.pc \in {"idle", "connect"}, run' = state,
           TypeOK, UNCHANGED <<accounts, told>>, limiter' \in [Accounts -> Ages],
           faults' \in 0 .. MaxFaults
    PROVE  TypeOK'
BY DEF TypeOK, RunState, accounts, Current, PCs

-----------------------------------------------------------------------------
(* Every step keeps the invariant.                                         *)

LEMMA InvInit == Init => Inv
BY StoppedTyped, ThrottleAssumption DEF Init, Inv, TypeOK, LimiterFresh, Stopped, RunState, LongAgo, Ages, PCs

LEMMA AgesGrow ==
    ASSUME NEW n \in Ages
    PROVE  (IF n < Throttle THEN n + 1 ELSE Throttle) \in Ages
BY ThrottleAssumption DEF Ages

LEMMA TickKeeps ==
    ASSUME Inv, Tick
    PROVE  Inv'
<1>1. limiter' \in [Accounts -> Ages] /\ told' \in [Accounts -> Ages]
  BY AgesGrow DEF Inv, TypeOK, Tick
<1>2. limiter = LongAgo => limiter' = LongAgo
  BY ThrottleAssumption DEF Tick, LongAgo
<1>3. UNCHANGED <<refused, paused, run, faults>>
  BY DEF Tick, accounts
<1>4. TypeOK'
  BY <1>1, <1>3 DEF Inv, TypeOK, Current
<1> QED
  BY <1>2, <1>3, <1>4 DEF Inv, LimiterFresh

LEMMA RevokeKeeps ==
    ASSUME Inv, NEW a \in Accounts, Revoke(a)
    PROVE  Inv'
<1>1. UNCHANGED <<paused, limiter, told, faults>> /\ refused' = refused \cup {a}
  BY DEF Revoke
<1>2. /\ run' \in RunState
      /\ run'.pc = run.pc /\ run'.left = run.left
  <2>1. run \in RunState
    BY DEF Inv, TypeOK, RunState
  <2>2. CASE run.pc = "idle"
    BY <2>1, <2>2 DEF Revoke
  <2>3. CASE run.pc # "idle"
    <3>1. run' = [run EXCEPT !.bad = run.bad \cup {a}]
      BY <2>3 DEF Revoke
    <3>2. run.bad \cup {a} \in SUBSET Accounts
      BY <2>1 DEF RunState
    <3> QED
      BY <2>1, <3>1, <3>2 DEF RunState
  <2> QED
    BY <2>2, <2>3
<1>3. TypeOK'
  BY <1>1, <1>2 DEF Inv, TypeOK, RunState, Current
<1> QED
  BY <1>1, <1>2, <1>3 DEF Inv, LimiterFresh

LEMMA CommandKeeps ==
    ASSUME Inv, NEW a \in Accounts, Renew(a) \/ Pause(a) \/ Resume(a)
    PROVE  Inv'
<1>1. /\ UNCHANGED <<run, limiter, told, faults>>
      /\ refused' \subseteq Accounts /\ paused' \subseteq Accounts
  BY DEF Inv, TypeOK, Renew, Pause, Resume
<1> QED
  BY <1>1 DEF Inv, TypeOK, LimiterFresh, Current

LEMMA StartRunKeeps ==
    ASSUME Inv, StartRun
    PROVE  Inv'
<1> DEFINE state == [pc |-> "connect", left |-> ActiveAccounts, bad |-> refused]
<1>1. state \in RunState /\ state.pc = "connect"
  BY DEF Inv, TypeOK, RunState, PCs, ActiveAccounts
<1>2. /\ run' = state /\ UNCHANGED <<accounts, told, faults>>
      /\ limiter' = LongAgo
  BY DEF StartRun, FreshLimiter
<1>3. limiter' \in [Accounts -> Ages]
  BY <1>2, ThrottleAssumption DEF LongAgo, Ages
<1> HIDE DEF state
<1>4. TypeOK'
  BY <1>1, <1>2, <1>3, Between DEF Inv, TypeOK
<1> QED
  BY <1>2, <1>4 DEF Inv, LimiterFresh, LongAgo

\* A run that stops, whatever for.
LEMMA StopKeeps ==
    ASSUME Inv, run' = Stopped, UNCHANGED <<accounts, told>>,
           limiter' \in [Accounts -> Ages], faults' \in 0 .. MaxFaults
    PROVE  Inv'
<1>1. Stopped.pc = "idle"
  BY DEF Stopped
<1>2. TypeOK'
  BY <1>1, StoppedTyped, Between DEF Inv
<1> QED
  BY <1>1, <1>2 DEF Inv, LimiterFresh

LEMMA AccountWorksKeeps ==
    ASSUME Inv, AccountWorks
    PROVE  Inv'
<1> DEFINE state == [run EXCEPT !.left = @ \ {Min(@)}]
<1>1. run \in RunState /\ run.left \ {Min(run.left)} \in SUBSET Places
  BY DEF Inv, TypeOK, RunState
<1>2. state \in RunState /\ state.pc = run.pc
  BY <1>1 DEF RunState
<1>3. /\ run' = state /\ run.pc = "connect"
      /\ UNCHANGED <<accounts, limiter, told, faults>>
  BY DEF AccountWorks
<1> HIDE DEF state
<1>4. TypeOK'
  BY <1>2, <1>3, Between DEF Inv, TypeOK
<1> QED
  BY <1>2, <1>3, <1>4 DEF Inv, LimiterFresh

\* A run that goes on with the notice about its account.
LEMMA NoticeKeeps ==
    ASSUME Inv, run.left # {}, Current \in Owned,
           NEW pc \in {"limit", "account", "send"}, run' = [run EXCEPT !.pc = pc],
           UNCHANGED <<accounts, told, faults>>, limiter' \in [Accounts -> Ages],
           pc = "limit" => limiter' = LongAgo
    PROVE  Inv'
<1>1. /\ run' \in RunState
      /\ run'.pc = pc /\ run'.left = run.left
  BY DEF Inv, TypeOK, RunState, PCs
<1>2. Current' = Current
  BY <1>1 DEF Current
<1>3. TypeOK'
  BY <1>1, <1>2 DEF Inv, TypeOK, RunState, accounts
<1> QED
  BY <1>1, <1>3 DEF Inv, LimiterFresh, LongAgo

LEMMA LoginRefusedKeeps ==
    ASSUME Inv, LoginRefused
    PROVE  Inv'
<1>1. /\ run.left # {} /\ run.pc = "connect" /\ limiter = LongAgo
      /\ UNCHANGED <<accounts, limiter, told, faults>>
      /\ limiter' \in [Accounts -> Ages] /\ faults' \in 0 .. MaxFaults
  BY DEF LoginRefused, Inv, LimiterFresh, TypeOK
<1>2. CASE Current \in Owned
  <2>1. run' = [run EXCEPT !.pc = "limit"]
    BY <1>2 DEF LoginRefused
  <2> QED
    BY <1>1, <1>2, <2>1, NoticeKeeps
<1>3. CASE Current \notin Owned
  BY <1>1, <1>3, StopKeeps DEF LoginRefused
<1> QED
  BY <1>2, <1>3

\* The account a notice is about, and the token that is there for it.
LEMMA NoticeIsAbout ==
    ASSUME Inv, run.pc \in {"limit", "account", "send"}
    PROVE  /\ run.left # {} /\ Current \in Owned /\ Current \in Accounts
           /\ run.pc = "limit" => limiter[Current] = Throttle
<1>1. run.left # {} /\ Current \in Owned
  BY DEF Inv, TypeOK, PCs
<1>2. Current \in Accounts
  BY <1>1, CurrentIsAccount DEF Inv
<1> QED
  BY <1>1, <1>2 DEF Inv, LimiterFresh, LongAgo

LEMMA TakeTokenKeeps ==
    ASSUME Inv, TakeToken
    PROVE  Inv' /\ run'.pc = "account"
<1>1. run.pc = "limit" /\ run.left # {} /\ Current \in Owned /\ Current \in Accounts
      /\ limiter[Current] = Throttle
  BY NoticeIsAbout DEF TakeToken
<1>2. /\ limiter' = [limiter EXCEPT ![Current] = 0]
      /\ run' = [run EXCEPT !.pc = "account"]
      /\ UNCHANGED <<accounts, told, faults>>
  BY <1>1 DEF TakeToken
<1>3. limiter' \in [Accounts -> Ages]
  <2>1. 0 \in Ages
    BY ThrottleAssumption DEF Ages
  <2> QED
    BY <1>1, <1>2, <2>1 DEF Inv, TypeOK
<1>4. run'.pc = "account"
  BY <1>2 DEF Inv, TypeOK
<1> QED
  BY <1>1, <1>2, <1>3, <1>4, NoticeKeeps

LEMMA GetAccountKeeps ==
    ASSUME Inv, GetAccount
    PROVE  Inv'
<1>1. run.left # {} /\ Current \in Owned
  BY NoticeIsAbout DEF GetAccount
<1>2. limiter' \in [Accounts -> Ages]
  BY DEF GetAccount, Inv, TypeOK
<1> QED
  BY <1>1, <1>2, NoticeKeeps DEF GetAccount

LEMMA SendMessageKeeps ==
    ASSUME Inv, SendMessage
    PROVE  Inv' /\ told'[Current] = 0
<1>1. Current \in Accounts
  BY NoticeIsAbout DEF SendMessage
<1>2. 0 \in Ages
  BY ThrottleAssumption DEF Ages
<1>3. told' \in [Accounts -> Ages] /\ told'[Current] = 0
  BY <1>1, <1>2 DEF SendMessage, Inv, TypeOK
<1>4. run' = Stopped /\ UNCHANGED <<accounts, limiter, faults>>
  BY DEF SendMessage
<1>5. /\ run' \in RunState /\ run'.pc = "idle"
  BY <1>4, StoppedTyped DEF Stopped
<1>6. TypeOK'
  BY <1>3, <1>4, <1>5 DEF Inv, TypeOK, RunState, accounts, PCs
<1> QED
  BY <1>3, <1>5, <1>6 DEF Inv, LimiterFresh

LEMMA RunFailsKeeps ==
    ASSUME Inv, RunFails
    PROVE  Inv' /\ faults' > faults
<1>1. faults' \in 0 .. MaxFaults /\ faults' > faults
  BY ThrottleAssumption DEF RunFails, Inv, TypeOK
<1>2. limiter' \in [Accounts -> Ages]
  BY DEF RunFails, Inv, TypeOK
<1> QED
  BY <1>1, <1>2, StopKeeps DEF RunFails

LEMMA InvNext ==
    ASSUME Inv, [Next]_vars
    PROVE  Inv'
<1>1. CASE EndRun
  BY <1>1, StopKeeps DEF EndRun, Inv, TypeOK
<1>2. CASE UNCHANGED vars
  BY <1>2 DEF vars, accounts, Inv, TypeOK, LimiterFresh, Current
<1> QED
  BY <1>1, <1>2, TickKeeps, RevokeKeeps, CommandKeeps, StartRunKeeps, AccountWorksKeeps, LoginRefusedKeeps,
     TakeTokenKeeps, GetAccountKeeps, SendMessageKeeps, RunFailsKeeps DEF Next, RunStep

(***************************************************************************)
(* Every variable has its type in every state; in particular a run that is *)
(* about to tell somebody has an account left, and one that has an owner.  *)
(***************************************************************************)
THEOREM NoticesTyped == Spec => []TypeOK
<1>1. Inv => TypeOK
  BY DEF Inv
<1> QED
  BY <1>1, InvInit, InvNext, PTL DEF Spec

-----------------------------------------------------------------------------
(* Who is told.                                                            *)

LEMMA StepTells ==
    ASSUME Inv, [Next]_vars, run.pc \in {"limit", "account", "send"}, run'.pc = "idle"
    PROVE  told'[Current] = 0 \/ faults' > faults
<1>1. CASE SendMessage
  BY <1>1, SendMessageKeeps
<1>2. CASE RunFails
  BY <1>2, RunFailsKeeps
<1>3. ~TakeToken
  BY TakeTokenKeeps
<1>4. ~GetAccount
  BY DEF GetAccount, Inv, TypeOK
<1>5. ~StartRun /\ ~EndRun /\ ~AccountWorks /\ ~LoginRefused
  BY DEF StartRun, EndRun, AccountWorks, LoginRefused
<1>6. ASSUME NEW a \in Accounts
      PROVE  ~Revoke(a) /\ ~Renew(a) /\ ~Pause(a) /\ ~Resume(a)
  BY DEF Revoke, Renew, Pause, Resume, Inv, TypeOK
<1>7. ~Tick /\ ~UNCHANGED vars
  BY DEF Tick, vars
<1> QED
  BY <1>1, <1>2, <1>3, <1>4, <1>5, <1>6, <1>7 DEF Next, RunStep

(***************************************************************************)
(* The token a run takes for a notice silences no later one: whenever a    *)
(* run that met a refused login of an owned account comes to its end, its  *)
(* owner has been told or something else has failed.                       *)
(***************************************************************************)
THEOREM OwnersAreTold == Spec => RefusalIsTold
<1>1. ASSUME Inv, [Next]_vars
      PROVE  [run.pc \in {"limit", "account", "send"} /\ run'.pc = "idle"
                  => told'[Current] = 0 \/ faults' > faults]_vars
  BY <1>1, StepTells
<1>2. Inv /\ [Next]_vars => Inv'
  BY InvNext
<1> QED
  BY <1>1, <1>2, InvInit, PTL DEF Spec, RefusalIsTold
=============================================================================
