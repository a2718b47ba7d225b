---------------------------- MODULE SignalService ----------------------------
(***************************************************************************)
(* The life of the bot's process: systemd starts it, it reads its          *)
(* configuration and its users, checks that there are users and that       *)
(* Paperless and the Signal API answer, and opens its port.  A start that  *)
(* fails ends with a status systemd answers by another start; a signal     *)
(* ends the process with status 0, which systemd takes for the end.        *)
(*                                                                         *)
(* What it reads it reads once.  Meanwhile somebody edits the files, and   *)
(* the services come and go.                                               *)
(***************************************************************************)
EXTENDS Naturals, FiniteSets

CONSTANTS
    Numbers,    \* Signal numbers a user may have
    Keys,       \* the required keys of the configuration
    Env,        \* the keys an environment variable gives
    MaxKills    \* bound on crashes

Services == {"paperless", "signal"}

ASSUME EnvAssumption == Env \subseteq Keys
ASSUME KillAssumption == MaxKills \in Nat

VARIABLES
    config,   \* config.json: the keys it gives, or what is wrong with it
    users,    \* users.json: the numbers in it, or what is wrong with it
    keychain, \* whether the module of the keychain loads
    port,     \* whether the port is free for the bot
    up,       \* the services that answer
    skip,     \* whether the command says --skip-reachability-check
    bot,      \* the process
    kills     \* crashes so far

surroundings == <<config, users, keychain, port, up, skip>>
vars == <<surroundings, bot, kills>>

(***************************************************************************)
(* pc: "down" until systemd starts it, also after a failure; "off" after a *)
(* clean end.  registry: the users read; answered: services that have      *)
(* answered this process.                                                  *)
(***************************************************************************)
PCs == {"down", "keychain", "config", "users", "validate", "paperless", "signal", "listen",
        "serving", "off"}
Bots == [pc : PCs, registry : SUBSET Numbers, answered : SUBSET Services]
Process(pc) == [pc |-> pc, registry |-> {}, answered |-> {}]

Faulty == {"missing", "broken"}
Files(contents) == [fault : Faulty, holds : {{}}] \cup [fault : {"none"}, holds : contents]

TypeOK ==
    /\ config \in Files(SUBSET Keys)
    /\ users \in Files(SUBSET Numbers)
    /\ keychain \in BOOLEAN /\ port \in BOOLEAN
    /\ up \subseteq Services
    /\ skip \in BOOLEAN
    /\ bot \in Bots
    /\ bot.pc \in {"down", "off", "keychain"} => bot = Process(bot.pc)
    /\ kills \in 0 .. MaxKills

Init ==
    /\ config \in Files(SUBSET Keys)
    /\ users \in Files(SUBSET Numbers)
    /\ keychain \in BOOLEAN /\ port \in BOOLEAN
    /\ up \in SUBSET Services
    /\ skip \in BOOLEAN
    /\ bot = Process("off")
    /\ kills = 0

-----------------------------------------------------------------------------
\* Files are edited, services come and go, another process takes the port.
Change ==
    /\ \/ config' \in Files(SUBSET Keys) /\ UNCHANGED <<users, keychain, port, up>>
       \/ users' \in Files(SUBSET Numbers) /\ UNCHANGED <<config, keychain, port, up>>
       \/ keychain' \in BOOLEAN /\ UNCHANGED <<config, users, port, up>>
       \/ bot.pc # "serving" /\ port' \in BOOLEAN /\ UNCHANGED <<config, users, keychain, up>>
       \/ up' \in SUBSET Services /\ UNCHANGED <<config, users, keychain, port>>
    /\ UNCHANGED <<skip, bot, kills>>

-----------------------------------------------------------------------------
(* The process.                                                            *)

Becomes(process) == bot' = process /\ UNCHANGED <<surroundings, kills>>
Goes(pc) == Becomes([bot EXCEPT !.pc = pc])

\* runMain ends a failed program with status 1: Restart=on-failure.
Failed == "down"

\* Mutant: a process that is started again finds what the last one has read.
BugStep(at, succeeds, next) ==
    /\ bot.pc = at
    /\ IF succeeds THEN Becomes(next) ELSE Goes(Failed)

\* A step of the start: it is gone on with, or the process ends.
Step(at, succeeds, next) ==
    /\ bot.pc = at
    /\ IF succeeds THEN Becomes(next) ELSE Becomes(Process(Failed))

\* systemctl start, and systemd's own start after a failure.
Start == bot.pc = "off" /\ Goes("keychain")
Restart == bot.pc = "down" /\ Goes("keychain")

LoadKeychain == Step("keychain", keychain, [bot EXCEPT !.pc = "config"])

(***************************************************************************)
(* The file is to be there and to be JSON, even when the environment gives *)
(* every key; a key is looked up there first and in the file then.         *)
(***************************************************************************)
ConfigIsGood == config.fault = "none" /\ config.holds \cup Env = Keys
ReadConfig == Step("config", ConfigIsGood, [bot EXCEPT !.pc = "users"])

ReadUsers ==
    Step("users", users.fault = "none", [bot EXCEPT !.pc = "validate", !.registry = users.holds])

\* Mutant: the file is looked at, and not what was read of it.
BugHasUsers == users.holds # {}

\* An array without users is read without an error and refused here.
HasUsers == bot.registry # {}

\* Mutant: the services are probed whatever the command says.
BugValidate == Step("validate", HasUsers, [bot EXCEPT !.pc = "paperless"])

Validate ==
    Step("validate", HasUsers, [bot EXCEPT !.pc = IF skip THEN "listen" ELSE "paperless"])

\* A HEAD request that fails to the last of its retries, or a status of 500 or more.
Probe(service, next) ==
    Step(service, service \in up,
         [bot EXCEPT !.pc = next, !.answered = @ \cup {service}])
ProbePaperless == Probe("paperless", "signal")
ProbeSignal == Probe("signal", "listen")

Listen == Step("listen", port, [bot EXCEPT !.pc = "serving"])

\* SIGTERM and SIGINT: process.exit with status 0, whatever goes on.
Terminate == bot.pc \notin {"down", "off"} /\ Becomes(Process("off"))
\* systemctl stop between two starts.
Stop == bot.pc = "down" /\ Becomes(Process("off"))

\* A crash, or a kill nobody can handle.
Kill ==
    /\ bot.pc \notin {"down", "off"}
    /\ kills < MaxKills
    /\ kills' = kills + 1
    /\ bot' = Process("down")
    /\ UNCHANGED surroundings

-----------------------------------------------------------------------------
Progress ==
    \/ Restart \/ LoadKeychain \/ ReadConfig \/ ReadUsers \/ Validate
    \/ ProbePaperless \/ ProbeSignal \/ Listen

Next == Progress \/ Start \/ Terminate \/ Stop \/ Kill \/ Change

(***************************************************************************)
(* systemd starts the bot again five seconds after a failure, which is too *)
(* seldom for its limit on starts; a start goes on to its end.  Nobody has *)
(* to start or stop it, or to put things right.                            *)
(***************************************************************************)
Spec == Init /\ [][Next]_vars /\ WF_vars(Progress)

-----------------------------------------------------------------------------
(***************************************************************************)
(* A bot that serves has users, those of the file it has read, whatever is *)
(* made of the file meanwhile; and unless it is told to skip the check     *)
(* both services have answered this very process.                          *)
(***************************************************************************)
ServingIsFounded ==
    bot.pc = "serving" => bot.registry # {} /\ (skip \/ bot.answered = Services)

(***************************************************************************)
(* Once the files are good, the services needed are up and the port is     *)
(* free, and stay so, a bot nobody stops comes to serve, for good, however *)
(* many starts have failed before.  With --skip-reachability-check it does *)
(* not wait for the services.                                              *)
(***************************************************************************)
Sound ==
    /\ keychain /\ port /\ ConfigIsGood
    /\ users.fault = "none" /\ users.holds # {}
    /\ skip \/ up = Services

EventuallyServes == <>[](Sound /\ bot.pc # "off") => <>[](bot.pc = "serving")
=============================================================================
