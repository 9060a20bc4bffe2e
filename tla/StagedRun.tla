------------------------------- MODULE StagedRun -------------------------------
(***************************************************************************)
(* run_ctest_staged.py in its binary mode, with a campaign as the command: *)
(* it starts the command in a stage directory, classifies how it ended by  *)
(* words in its output and by its exit code, starts it again when it takes *)
(* the end for a failure of the infrastructure and has retries left, and   *)
(* removes the stage unless it was told to keep it.  A command that takes  *)
(* too long is killed.  The campaign's files are in the stage.  What it    *)
(* records beside the status (return codes, outputs) is left out.          *)
(***************************************************************************)
EXTENDS CampaignCheckpoint

CONSTANT
  Commands      \* what it may be told to run: settings, resuming or starting
                \* the campaign, keeping the stage, retries

ASSUME StagedRunAssumption ==
  Commands \subseteq [opts : CommandLines, resume : BOOLEAN, keep : BOOLEAN, retries : Nat]

VARIABLES
  runner,       \* what the runner does; "idle" when there is none
  command,      \* its command
  retriesLeft,
  status        \* final_status

runnerVars == <<runner, command, retriesLeft, status>>
vars == <<campaignVars, runnerVars>>

Infra == "wrapper_infra_failure"
Semantic == "semantic_failure"
Pass == "pass"

NoCommand == [opts |-> NoOpts, resume |-> FALSE, keep |-> TRUE, retries |-> 0]

StagedInit ==
  /\ Init
  /\ runner = "idle" /\ command = NoCommand /\ retriesLeft = 0 /\ status = Infra

Gone == runner' = "idle" /\ command' = NoCommand /\ retriesLeft' = 0 /\ status' = Infra

-----------------------------------------------------------------------------
Launch(c) ==
  /\ runner = "idle" /\ pc = "idle"
  /\ runner' = "spawn"
  /\ command' = c
  /\ retriesLeft' = c.retries /\ status' = Infra
  /\ UNCHANGED campaignVars

(***************************************************************************)
(* run_once: the command starts, or its file is not found, which is not    *)
(* tried again.                                                            *)
(***************************************************************************)
Spawn ==
  /\ runner = "spawn"
  /\ IF command.resume THEN Resume(command.opts) ELSE Start(command.opts)
  /\ runner' = "wait"
  /\ UNCHANGED <<command, retriesLeft, status>>

NotFound ==
  /\ runner = "spawn"
  /\ runner' = "report" /\ status' = Infra
  /\ UNCHANGED <<campaignVars, command, retriesLeft>>

(***************************************************************************)
(* The limit of time: the command is killed, and not tried again either.   *)
(***************************************************************************)
TimesOut ==
  /\ runner = "wait"
  /\ Kill
  /\ runner' = "report" /\ status' = Infra
  /\ UNCHANGED <<command, retriesLeft>>

\* Mutant: the return code is not looked at.
ClassifiedByWords(code, mentions) == IF mentions THEN Infra ELSE Pass

(***************************************************************************)
(* classify_failure.  A session that fails may print any of the words it   *)
(* looks for, as part of an error text or of a path.                       *)
(***************************************************************************)
Classified(code, mentions) ==
  IF mentions THEN Infra ELSE IF code # 0 THEN Semantic ELSE Pass

\* Mutant: a retry is not counted.
JudgeForgets ==
  /\ runner = "wait" /\ pc = "idle"
  /\ \E mentions \in IF exit = 0 THEN {FALSE} ELSE BOOLEAN :
       status' = Classified(exit, mentions)
  /\ IF status' # Infra \/ retriesLeft = 0 THEN runner' = "report" ELSE runner' = "spawn"
  /\ UNCHANGED <<campaignVars, command, retriesLeft>>

Judge ==
  /\ runner = "wait" /\ pc = "idle"
  /\ \E mentions \in IF exit = 0 THEN {FALSE} ELSE BOOLEAN :
       status' = Classified(exit, mentions)
  /\ IF status' # Infra \/ retriesLeft = 0
     THEN runner' = "report" /\ UNCHANGED retriesLeft
     ELSE runner' = "spawn" /\ retriesLeft' = retriesLeft - 1
  /\ UNCHANGED <<campaignVars, command>>

(***************************************************************************)
(* The result is written and the stage removed, unless it is kept.         *)
(***************************************************************************)
Conclude ==
  /\ runner = "report"
  /\ Gone
  /\ IF command.keep THEN UNCHANGED diskVars
     ELSE /\ EmptyDirectory
          /\ stats' = [r \in RunIds |-> 0]
          /\ report' = [iterations |-> [r \in RunIds |-> 0], reason |-> NoReason]
  /\ UNCHANGED <<config, memVars, exit>>

RunnerStep == Spawn \/ NotFound \/ Judge \/ Conclude

-----------------------------------------------------------------------------
(***************************************************************************)
(* What goes wrong around them: the session alone is killed, the machine   *)
(* goes down with both, and someone clears the checkpoint directory.       *)
(***************************************************************************)
SessionKilled == Kill /\ UNCHANGED runnerVars

MachineDown ==
  /\ runner # "idle"
  /\ IF pc = "idle" THEN UNCHANGED campaignVars ELSE Kill
  /\ Gone

Cleared == runner = "idle" /\ FreshDirectory /\ UNCHANGED runnerVars

Works == SessionStep /\ UNCHANGED runnerVars

Next ==
  \/ \E c \in Commands : Launch(c)
  \/ RunnerStep \/ TimesOut
  \/ Works
  \/ SessionKilled \/ MachineDown \/ Cleared

(***************************************************************************)
(* The operating system lets the session and the runner, each a single     *)
(* thread, go on.                                                          *)
(***************************************************************************)
Spec == StagedInit /\ [][Next]_vars /\ WF_vars(Works) /\ WF_vars(RunnerStep)

-----------------------------------------------------------------------------
(***************************************************************************)
(* "pass" for a campaign nobody asked to stop early means that the         *)
(* campaign is complete.  With CompletedExactly: no sequence of retries,   *)
(* kills and resumptions hides a failing iteration.                        *)
(***************************************************************************)
AskedToStop ==
  \/ command.opts.stopAfter \/ command.opts.wall
  \/ IF command.resume THEN manifest # <<>> /\ manifest[1].maxPartial # 0
     ELSE command.opts.maxPartial # 0

PassMeansDone ==
  runner = "report" /\ status = Pass /\ ~AskedToStop => report.reason = "completed"

(***************************************************************************)
(* Every staged run comes to an end, whatever its command does.            *)
(***************************************************************************)
LaunchEnds == (runner # "idle") ~> (runner = "idle")
===============================================================================
