------------------------- MODULE SignalServiceProofs -------------------------
(***************************************************************************)
(* Theorems about the bot's process, for any users and any keys of the     *)
(* configuration, and for any number of crashes.                           *)
(***************************************************************************)
EXTENDS SignalService, TLAPS

-----------------------------------------------------------------------------
(* Type correctness.                                                       *)

LEMMA ProcessType ==
    \A pc \in PCs : /\ Process(pc) \in Bots
                    /\ Process(pc).pc = pc
                    /\ pc \in {"down", "off", "keychain"} => Process(pc) = Process(Process(pc).pc)
BY DEF Process, Bots, PCs

LEMMA InitType == Init => TypeOK
BY ProcessType, KillAssumption DEF Init, TypeOK, PCs, Process

\* A process that becomes another of the type, with all else as it was.
LEMMA BecomesType ==
    ASSUME TypeOK, NEW process \in Bots, Becomes(process),
           process.pc \in {"down", "off", "keychain"} => process = Process(process.pc)
    PROVE  TypeOK'
BY DEF TypeOK, Becomes, surroundings

\* A step of the start either goes on to a process of the type or ends.
LEMMA StepType ==
    ASSUME TypeOK, NEW next \in Bots, next.pc \notin {"down", "off", "keychain"},
           Becomes(next) \/ Becomes(Process(Failed))
    PROVE  TypeOK'
BY BecomesType, ProcessType DEF Failed, PCs

LEMMA StartType == ASSUME TypeOK, Start \/ Restart PROVE TypeOK'
<1>1. bot = Process(bot.pc) /\ bot.pc \in {"off", "down"} /\ Goes("keychain")
  BY DEF Start, Restart, TypeOK
<1>2. [bot EXCEPT !.pc = "keychain"] = Process("keychain")
  BY <1>1 DEF Process
<1>3. Becomes(Process("keychain"))
  BY <1>1, <1>2 DEF Goes
<1> QED
  BY <1>3, BecomesType, ProcessType DEF PCs

LEMMA ProgressType == ASSUME TypeOK, Progress PROVE TypeOK'
<1>1. bot \in Bots /\ keychain \in BOOLEAN /\ port \in BOOLEAN /\ skip \in BOOLEAN
  BY DEF TypeOK
<1>2. CASE Restart
  BY <1>2, StartType
<1>3. CASE LoadKeychain
  BY <1>1, <1>3, StepType DEF Step, LoadKeychain, Bots, PCs
<1>4. CASE ReadConfig
  BY <1>1, <1>4, StepType DEF Step, ReadConfig, ConfigIsGood, Bots, PCs
<1>5. CASE ReadUsers
  <2>1. users.holds \subseteq Numbers
    BY DEF TypeOK, Files
  <2> QED
    BY <1>1, <1>5, <2>1, StepType DEF Step, ReadUsers, Bots, PCs
<1>6. CASE Validate
  BY <1>1, <1>6, StepType DEF Step, Validate, HasUsers, Bots, PCs
<1>7. ASSUME NEW service \in Services, NEW next \in {"signal", "listen"}, Probe(service, next)
      PROVE  TypeOK'
  <2> DEFINE probed == [bot EXCEPT !.pc = next, !.answered = @ \cup {service}]
  <2>1. probed \in Bots /\ probed.pc \notin {"down", "off", "keychain"}
    BY <1>1 DEF Bots, PCs
  <2>2. Step(service, service \in up, probed)
    BY <1>7 DEF Probe
  <2> HIDE DEF probed
  <2> QED
    BY <2>1, <2>2, StepType DEF Step
<1>8. CASE ProbePaperless \/ ProbeSignal
  BY <1>7, <1>8 DEF ProbePaperless, ProbeSignal, Services
<1>9. CASE Listen
  BY <1>1, <1>9, StepType DEF Step, Listen, Bots, PCs
<1> QED
  BY <1>2, <1>3, <1>4, <1>5, <1>6, <1>8, <1>9 DEF Progress

LEMMA NextType == TypeOK /\ [Next]_vars => TypeOK'
<1> SUFFICES ASSUME TypeOK, [Next]_vars PROVE TypeOK'
  OBVIOUS
<1>1. CASE Progress
  BY <1>1, ProgressType
<1>2. CASE Start
  BY <1>2, StartType
<1>3. CASE Terminate \/ Stop
  BY <1>3, BecomesType, ProcessType DEF Terminate, Stop, PCs
<1>4. CASE Kill
  <2>1. Process("down") \in Bots /\ Process("down").pc = "down"
    BY ProcessType DEF PCs
  <2>2. kills' \in 0 .. MaxKills
    BY <1>4, KillAssumption DEF Kill, TypeOK
  <2> QED
    BY <1>4, <2>1, <2>2 DEF Kill, TypeOK, surroundings
<1>5. CASE Change
  BY <1>5 DEF Change, TypeOK
<1>6. CASE UNCHANGED vars
  BY <1>6 DEF vars, surroundings, TypeOK
<1> QED
  BY <1>1, <1>2, <1>3, <1>4, <1>5, <1>6 DEF Next

\* Every state of the process is one of those declared, however files and services change.
THEOREM TypeCorrect == Spec => []TypeOK
BY InitType, NextType, PTL DEF Spec

-----------------------------------------------------------------------------
(* What a process that serves has checked.                                 *)

(***************************************************************************)
(* Each step of the start keeps what the ones before it have established:  *)
(* from the check of the users on the registry is not empty, and behind    *)
(* each probe stands the answer of its service.                            *)
(***************************************************************************)
Founded ==
    /\ bot.pc \in {"paperless", "signal", "listen", "serving"} => bot.registry # {}
    /\ bot.pc = "signal" => "paperless" \in bot.answered
    /\ bot.pc \in {"listen", "serving"} => skip \/ bot.answered = Services

LEMMA InitFounded == Init => Founded
BY DEF Init, Founded, Process

\* A process that has ended has nothing to account for.
LEMMA EndedFounded == ASSUME bot' = Process(Failed) PROVE Founded'
BY DEF Process, Failed, Founded

LEMMA ProbeFounded ==
    ASSUME TypeOK, Founded,
           \/ Probe("paperless", "signal")
           \/ Probe("signal", "listen")
    PROVE  Founded'
<1> DEFINE Answered(service, pc) ==
             bot' = [bot EXCEPT !.pc = pc, !.answered = @ \cup {service}]
<1>1. CASE bot.pc = "paperless" /\ Answered("paperless", "signal")
  BY <1>1 DEF TypeOK, Bots, Founded
<1>2. CASE bot.pc = "signal" /\ Answered("signal", "listen")
  <2>1. /\ bot'.pc = "listen" /\ bot'.registry = bot.registry
        /\ bot'.answered = bot.answered \cup {"signal"}
    BY <1>2 DEF TypeOK, Bots
  <2>2. bot'.answered = Services
    BY <1>2, <2>1 DEF TypeOK, Bots, Services, Founded
  <2> QED
    BY <1>2, <2>1, <2>2 DEF Founded
<1> QED
  BY <1>1, <1>2, EndedFounded DEF Probe, Step, Becomes

LEMMA ProgressFounded == ASSUME TypeOK, Founded, Progress PROVE Founded'
<1>1. bot \in Bots
  BY DEF TypeOK
<1>2. CASE Restart
  BY <1>1, <1>2 DEF Restart, Goes, Becomes, Bots, Founded
<1>3. CASE LoadKeychain \/ ReadConfig
  BY <1>1, <1>3, EndedFounded DEF LoadKeychain, ReadConfig, Step, Becomes, Bots, Founded
<1>4. CASE ReadUsers
  <2>1. CASE bot' = [bot EXCEPT !.pc = "validate", !.registry = users.holds]
    BY <1>1, <2>1 DEF Bots, Founded
  <2> QED
    BY <1>4, <2>1, EndedFounded DEF ReadUsers, Step, Becomes
<1>5. CASE Validate
  BY <1>1, <1>5, EndedFounded DEF Validate, HasUsers, Step, Becomes, surroundings, Bots, Founded
<1>6. CASE ProbePaperless \/ ProbeSignal
  BY <1>6, ProbeFounded DEF ProbePaperless, ProbeSignal
<1>7. CASE Listen
  BY <1>1, <1>7, EndedFounded DEF Listen, Step, Becomes, surroundings, Bots, Founded
<1> QED
  BY <1>2, <1>3, <1>4, <1>5, <1>6, <1>7 DEF Progress

LEMMA NextFounded == TypeOK /\ Founded /\ [Next]_vars => Founded'
<1> SUFFICES ASSUME TypeOK, Founded, [Next]_vars PROVE Founded'
  OBVIOUS
<1>1. CASE Progress
  BY <1>1, ProgressFounded
<1>2. CASE Start
  BY <1>2 DEF Start, Goes, Becomes, TypeOK, Bots, Founded
<1>3. CASE Terminate \/ Stop \/ Kill
  BY <1>3 DEF Terminate, Stop, Kill, Becomes, Process, Founded
<1>4. CASE Change \/ UNCHANGED vars
  BY <1>4 DEF Change, vars, surroundings, Founded
<1> QED
  BY <1>1, <1>2, <1>3, <1>4 DEF Next

(***************************************************************************)
(* A bot that serves has users, and both services have answered it unless  *)
(* it skips the check; no edit, outage, crash or restart in the middle of  *)
(* a start changes that.                                                   *)
(***************************************************************************)
THEOREM ServesWhatItChecked == Spec => []ServingIsFounded
<1>1. Founded => ServingIsFounded
  BY DEF Founded, ServingIsFounded
<1> QED
  BY <1>1, InitType, NextType, InitFounded, NextFounded, PTL DEF Spec
=============================================================================
