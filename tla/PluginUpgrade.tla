--------------------------- MODULE PluginUpgrade ---------------------------
(***************************************************************************)
(* Installing and upgrading the LoxBerry plugin: preupgrade.sh, then       *)
(* postupgrade.sh with the postinstall.sh it runs, which builds a new      *)
(* runtime (a virtual environment) and switches the link venv to it.  The  *)
(* hooks call bridge_ctl.sh like any other caller, while a web page may    *)
(* call it too.  Any command but an rm may fail, a signal may reach the    *)
(* hook and the power may go.                                              *)
(***************************************************************************)
EXTENDS BridgeCtl

CONSTANTS
    Upgrader,     \* the caller of bridge_ctl.sh that is the upgrade
    Runtimes,     \* directories .venv-runtime-XXXXXX and .venv-legacy-XXXXXX
    NoRuntime,    \* nothing: no directory, no link
    Legacy,       \* venv is a directory of its own, from an older release
    MaxUpgrades, MaxCalls, MaxPowerCuts, MaxSignals  \* bounds

ASSUME UpgradeAssumption ==
    /\ Upgrader \in Callers
    /\ {NoRuntime, Legacy} \cap Runtimes = {} /\ NoRuntime # Legacy
    /\ MaxUpgrades \in Nat /\ MaxCalls \in Nat
    /\ MaxPowerCuts \in Nat /\ MaxSignals \in Nat

VARIABLES
    runtime,      \* runtime[r]: what is on disk in directory r
    venv,         \* what the link venv names
    previous,     \* what the link venv.previous names
    hook,         \* where the upgrade stands, with its shell variables
    runningFile,  \* does /tmp/...-was-running exist?
    runs,         \* runs[p]: the runtime that the bridge p was started from
    leaving,      \* history: the bridges told to end, while they ran from what
                  \* venv names, since the last upgrade began
    cutOff,       \* history: did the power go between the removal of the
                  \* previous runtime and that of its link?
    meddled,      \* history: did a web page start the bridge during this
                  \* upgrade?
    upgrades, calls, powerCuts, signals  \* counters for the bounds

disk == <<runtime, venv, previous>>
counters == <<upgrades, calls, powerCuts, signals>>
history == <<leaving, cutOff, meddled>>
upgradeVars == <<disk, hook, runningFile, runs, history, counters>>
vars == <<ctlVars, upgradeVars>>

Steps == {"none", "asked", "stopping", "platform", "asked again",
          "stopping again", "install", "unlink", "allocate", "build",
          "validated", "swap", "switched", "activated", "links", "restart",
          "starting"}

TypeOK ==
    /\ CtlTypeOK
    /\ runtime \in [Runtimes -> {"none", "partial", "valid", "legacy"}]
    /\ venv \in Runtimes \cup {NoRuntime, Legacy}
    /\ previous \in Runtimes \cup {NoRuntime}
    /\ hook \in [step : Steps, candidate : Runtimes \cup {NoRuntime},
                 previous_runtime : Runtimes \cup {NoRuntime},
                 restart : BOOLEAN]
    /\ runningFile \in BOOLEAN
    /\ runs \in [Pids -> Runtimes \cup {NoRuntime, Legacy}]
    /\ leaving \subseteq Pids /\ cutOff \in BOOLEAN /\ meddled \in BOOLEAN
    /\ upgrades \in 0..MaxUpgrades /\ calls \in 0..MaxCalls
    /\ powerCuts \in 0..MaxPowerCuts /\ signals \in 0..MaxSignals

NoHook == [step |-> "none", candidate |-> NoRuntime,
           previous_runtime |-> NoRuntime, restart |-> FALSE]

\* Nothing installed, or the runtime of an older release and perhaps a
\* bridge that runs from it.
Init ==
    /\ CtlInit
    /\ runtime = [r \in Runtimes |-> "none"]
    /\ venv \in {NoRuntime, Legacy}
    /\ venv = NoRuntime => pidFile = NoPid
    /\ previous = NoRuntime
    /\ hook = NoHook
    /\ runningFile = FALSE
    /\ runs = [p \in Pids |-> IF p = pidFile THEN venv ELSE NoRuntime]
    /\ leaving = {} /\ cutOff = FALSE /\ meddled = FALSE
    /\ upgrades = 0 /\ calls = 0 /\ powerCuts = 0 /\ signals = 0

-----------------------------------------------------------------------------
(* Helpers.                                                                *)

\* $VENV_BIN holds the commands of a runtime.
Usable == venv = Legacy \/ (venv \in Runtimes /\ runtime[venv] = "valid")

InStep(steps) == hook.step \in steps

GoOn(step) == hook' = [hook EXCEPT !.step = step]

CalledBack == At(Upgrader, {"idle"})

\* The hook ends; cleanup_candidate removes a candidate not yet activated.
Ends(activated) ==
    /\ hook' = NoHook
    /\ runtime' = [r \in Runtimes |->
                     IF r = hook.candidate /\ ~activated THEN "none" ELSE runtime[r]]

\* bridge_ctl.sh called by a hook or by the page, and its own steps.
Calls(c, command) ==
    /\ Invoke(c, command)
    /\ UNCHANGED <<disk, runs>>

Free(r) == runtime[r] = "none"

-----------------------------------------------------------------------------
(* preupgrade.sh                                                           *)

BeginUpgrade ==
    /\ InStep({"none"}) /\ CalledBack
    /\ upgrades < MaxUpgrades /\ upgrades' = upgrades + 1
    /\ runningFile' = FALSE
    /\ leaving' = {} /\ meddled' = FALSE
    /\ Calls(Upgrader, "is-running")
    /\ GoOn("asked")
    /\ UNCHANGED <<cutOff, calls, powerCuts, signals>>

\* A first installation has no preupgrade hook and starts nothing.
BeginInstall ==
    /\ InStep({"none"}) /\ CalledBack /\ venv = NoRuntime
    /\ upgrades < MaxUpgrades /\ upgrades' = upgrades + 1
    /\ leaving' = {}
    /\ GoOn("install")
    /\ UNCHANGED <<ctlVars, disk, runningFile, runs, cutOff, meddled, calls, powerCuts, signals>>

\* Mutant: a running bridge is noted, not stopped.
StopBeforeUpgrade_NoStop ==
    /\ InStep({"asked"}) /\ CalledBack
    /\ runningFile' = ctl[Upgrader].ok
    /\ GoOn("platform")
    /\ UNCHANGED <<ctlVars, disk, runs, history, counters>>

StopBeforeUpgrade ==
    /\ InStep({"asked"}) /\ CalledBack
    /\ IF ctl[Upgrader].ok
       THEN runningFile' = TRUE /\ Calls(Upgrader, "stop") /\ GoOn("stopping")
       ELSE GoOn("platform") /\ UNCHANGED <<ctlVars, runningFile, disk, runs>>
    /\ UNCHANGED <<history, counters>>

\* A hook that fails may end the upgrade or not: the platform decides.
Stopped ==
    /\ InStep({"stopping"}) /\ CalledBack
    /\ \/ GoOn("platform")
       \/ ~ctl[Upgrader].ok /\ hook' = NoHook
    /\ UNCHANGED <<ctlVars, disk, runningFile, runs, history, counters>>

(* preinstall.sh and the first part of postupgrade.sh                      *)

\* python3 is missing or too old.
PreinstallFails ==
    /\ InStep({"platform"})
    /\ hook' = NoHook
    /\ UNCHANGED <<ctlVars, disk, runningFile, runs, history, counters>>

DecideRestart ==
    /\ InStep({"platform"})
    /\ IF runningFile
       THEN /\ hook' = [hook EXCEPT !.restart = TRUE, !.step = "install"]
            /\ UNCHANGED <<ctlVars, disk, runs>>
       ELSE Calls(Upgrader, "is-running") /\ GoOn("asked again")
    /\ UNCHANGED <<runningFile, history, counters>>

StopBeforeInstall ==
    /\ InStep({"asked again"}) /\ CalledBack
    /\ IF ctl[Upgrader].ok
       THEN /\ hook' = [hook EXCEPT !.restart = TRUE, !.step = "stopping again"]
            /\ Calls(Upgrader, "stop")
       ELSE GoOn("install") /\ UNCHANGED <<ctlVars, disk, runs>>
    /\ UNCHANGED <<runningFile, history, counters>>

StoppedBeforeInstall ==
    /\ InStep({"stopping again"}) /\ CalledBack
    /\ IF ctl[Upgrader].ok THEN GoOn("install") ELSE hook' = NoHook
    /\ UNCHANGED <<ctlVars, disk, runningFile, runs, history, counters>>

-----------------------------------------------------------------------------
(* postinstall.sh                                                          *)

\* The package or its requirements are missing, or no directory can be made.
CheckFails ==
    /\ InStep({"install", "allocate"})
    /\ Ends(FALSE)
    /\ UNCHANGED <<ctlVars, venv, previous, runningFile, runs, history, counters>>

\* rm -rf of the runtime behind venv.previous, unless venv names it too.
cleanup_previous_runtime ==
    /\ InStep({"install"})
    /\ runtime' = [r \in Runtimes |->
                     IF r = previous /\ r # venv THEN "none" ELSE runtime[r]]
    /\ GoOn("unlink")
    /\ UNCHANGED <<ctlVars, venv, previous, runningFile, runs, history, counters>>

\* Mutant: the link to the removed runtime stays.
UnlinkPrevious_Stays ==
    /\ InStep({"unlink"})
    /\ GoOn("allocate")
    /\ UNCHANGED <<ctlVars, disk, runningFile, runs, history, counters>>

UnlinkPrevious ==
    /\ InStep({"unlink"})
    /\ previous' = NoRuntime /\ cutOff' = FALSE
    /\ GoOn("allocate")
    /\ UNCHANGED <<ctlVars, runtime, venv, runningFile, runs, leaving, meddled, counters>>

MakeCandidate ==
    /\ InStep({"allocate"})
    /\ \E r \in Runtimes :
          /\ Free(r)
          /\ runtime' = [runtime EXCEPT ![r] = "partial"]
          /\ hook' = [hook EXCEPT !.candidate = r, !.step = "build"]
    /\ UNCHANGED <<ctlVars, venv, previous, runningFile, runs, history, counters>>

\* venv, pip and the import check all succeed.
Build ==
    /\ InStep({"build"}) /\ runtime[hook.candidate] = "partial"
    /\ runtime' = [runtime EXCEPT ![hook.candidate] = "valid"]
    /\ GoOn("validated")
    /\ UNCHANGED <<ctlVars, venv, previous, runningFile, runs, history, counters>>

\* One of them fails, or ln, mktemp or mv does.
BuildFails ==
    /\ InStep({"build", "validated"})
    /\ Ends(FALSE)
    /\ UNCHANGED <<ctlVars, venv, previous, runningFile, runs, history, counters>>

\* Mutant: the test that venv is a link is missing.
SwitchLink_AnyVenv ==
    /\ InStep({"validated"})
    /\ venv' = hook.candidate
    /\ hook' = [hook EXCEPT !.previous_runtime = venv, !.step = "switched"]
    /\ UNCHANGED <<ctlVars, runtime, previous, runningFile, runs, history, counters>>

\* venv is a link, which mv -T replaces, or does not exist yet.
SwitchLink ==
    /\ InStep({"validated"}) /\ venv # Legacy
    /\ venv' = hook.candidate
    /\ hook' = [hook EXCEPT !.previous_runtime = venv, !.step = "switched"]
    /\ UNCHANGED <<ctlVars, runtime, previous, runningFile, runs, history, counters>>

\* venv is a directory, which makes room first.
MoveLegacy ==
    /\ InStep({"validated"}) /\ venv = Legacy
    /\ \E r \in Runtimes :
          /\ Free(r) /\ r # hook.candidate
          /\ runtime' = [runtime EXCEPT ![r] = "legacy"]
          /\ hook' = [hook EXCEPT !.previous_runtime = r, !.step = "swap"]
          /\ runs' = [p \in Pids |-> IF runs[p] = Legacy THEN r ELSE runs[p]]
    /\ venv' = NoRuntime
    /\ UNCHANGED <<ctlVars, previous, runningFile, history, counters>>

SwapIn ==
    /\ InStep({"swap"}) /\ runtime[hook.candidate] = "valid"
    /\ venv' = hook.candidate
    /\ GoOn("switched")
    /\ UNCHANGED <<ctlVars, runtime, previous, runningFile, runs, history, counters>>

RollBack ==
    /\ InStep({"swap"})
    /\ venv' = Legacy
    /\ hook' = NoHook
    /\ runtime' = [runtime EXCEPT ![hook.candidate] = "none",
                                  ![hook.previous_runtime] = "none"]
    /\ runs' = [p \in Pids |->
                  IF runs[p] = hook.previous_runtime THEN Legacy ELSE runs[p]]
    /\ UNCHANGED <<ctlVars, previous, runningFile, history, counters>>

\* ACTIVATED=true: from here on cleanup_candidate keeps the runtime.
Activate ==
    /\ InStep({"switched"})
    /\ GoOn("activated")
    /\ UNCHANGED <<ctlVars, disk, runningFile, runs, history, counters>>

LinkPrevious ==
    /\ InStep({"activated"})
    /\ previous' = IF hook.previous_runtime \in Runtimes
                      /\ runtime[hook.previous_runtime] # "none"
                   THEN hook.previous_runtime ELSE previous
    /\ GoOn("links")
    /\ UNCHANGED <<ctlVars, runtime, venv, runningFile, runs, history, counters>>

\* The command links, and the MQTT subscriptions, which need the runtime.
Finish ==
    /\ InStep({"links"})
    /\ IF hook.restart THEN GoOn("restart") ELSE hook' = NoHook
    /\ UNCHANGED <<ctlVars, disk, runningFile, runs, history, counters>>

\* Mutant: ACTIVATED is still false at the end.
FinishFails_NotActivated ==
    /\ InStep({"activated", "links"})
    /\ Ends(FALSE)
    /\ UNCHANGED <<ctlVars, venv, previous, runningFile, runs, history, counters>>

FinishFails ==
    /\ InStep({"activated", "links"})
    /\ Ends(TRUE)
    /\ UNCHANGED <<ctlVars, venv, previous, runningFile, runs, history, counters>>

(* The end of postupgrade.sh                                               *)

StartAfterUpgrade ==
    /\ InStep({"restart"}) /\ CalledBack
    /\ Calls(Upgrader, "start")
    /\ GoOn("starting")
    /\ UNCHANGED <<runningFile, history, counters>>

Restarted ==
    /\ InStep({"starting"}) /\ CalledBack
    /\ runningFile' = (runningFile /\ ~ctl[Upgrader].ok)
    /\ hook' = NoHook
    /\ UNCHANGED <<ctlVars, disk, runs, history, counters>>

-----------------------------------------------------------------------------
(* What else happens.                                                      *)

\* A signal runs cleanup_candidate at the end of the current command, and
\* the script goes on.
Signalled ==
    /\ InStep({"build", "validated", "swap", "switched"})
    /\ signals < MaxSignals /\ signals' = signals + 1
    /\ runtime' = [runtime EXCEPT ![hook.candidate] = "none"]
    /\ UNCHANGED <<ctlVars, venv, previous, hook, runningFile, runs, history,
                   upgrades, calls, powerCuts>>

\* The page runs the script.
PageCalls(c, command) ==
    /\ calls < MaxCalls /\ calls' = calls + 1
    /\ Calls(c, command)
    /\ meddled' = (meddled \/ command \in {"start", "restart"})
    /\ UNCHANGED <<hook, runningFile, leaving, cutOff, upgrades, powerCuts, signals>>

\* A bridge runs from the runtime that venv named when it was started, until
\* its process is gone.
FollowRuns ==
    /\ runs' = [p \in Pids |->
                  IF proc'[p] \notin {"shell", "bridge", "dying", "stray"}
                  THEN NoRuntime
                  ELSE IF proc[p] = "none" THEN venv ELSE runs[p]]
    /\ leaving' = {p \in Pids :
                     proc'[p] = "dying"
                     /\ (p \in leaving \/ (proc[p] # "dying" /\ runs[p] = venv))}

\* The script of one caller; its preflight needs a usable runtime.
ScriptStep(c) ==
    /\ \/ CtlScript(c)
       \/ \E ok \in {FALSE, Usable} : Preflight(c, ok)
    /\ FollowRuns
    /\ UNCHANGED <<disk, hook, runningFile, cutOff, meddled, counters>>

ProcessStep ==
    /\ Processes
    /\ FollowRuns
    /\ UNCHANGED <<disk, hook, runningFile, cutOff, meddled, counters>>

\* Everything stops where it is; /tmp may be lost.
PowerGoes ==
    /\ powerCuts < MaxPowerCuts /\ powerCuts' = powerCuts + 1
    /\ PowerCut
    /\ hook' = NoHook
    /\ runningFile' \in {FALSE, runningFile}
    /\ runs' = [p \in Pids |-> NoRuntime] /\ leaving' = {}
    /\ cutOff' = (cutOff \/ InStep({"unlink"}))
    /\ UNCHANGED <<disk, meddled, upgrades, calls, signals>>

preupgrade == BeginUpgrade \/ BeginInstall \/ StopBeforeUpgrade \/ Stopped

postinstall ==
    \/ CheckFails \/ cleanup_previous_runtime \/ UnlinkPrevious
    \/ MakeCandidate \/ Build \/ BuildFails \/ SwitchLink \/ MoveLegacy
    \/ SwapIn \/ RollBack \/ Activate \/ LinkPrevious \/ Finish \/ FinishFails

postupgrade ==
    \/ DecideRestart \/ StopBeforeInstall \/ StoppedBeforeInstall
    \/ postinstall \/ StartAfterUpgrade \/ Restarted

Next ==
    \/ preupgrade \/ PreinstallFails \/ postupgrade
    \/ Signalled \/ PowerGoes \/ ProcessStep
    \/ \E c \in Callers : ScriptStep(c)
    \/ \E c \in Callers \ {Upgrader}, command \in Commands : PageCalls(c, command)

Spec == Init /\ [][Next]_vars

-----------------------------------------------------------------------------
(* Properties.                                                             *)

\* Whatever fails or is cut off where, venv never names a runtime that is
\* partial, removed or not validated (unless a signal hit the hook).
VenvIsValidated ==
    signals = 0 /\ venv \in Runtimes => runtime[venv] = "valid"

\* The link venv.previous is a way back: it names a runtime that is complete
\* and is not the one in use, from the switch on the one that was in use
\* before.  It may name a removed one while it is being replaced or after the
\* power went between these two steps (or after a signal).
PreviousIsAWayBack ==
    signals = 0 =>
        /\ previous # NoRuntime /\ ~InStep({"unlink"}) /\ ~cutOff
             => previous # venv /\ runtime[previous] \in {"valid", "legacy"}
        /\ InStep({"links", "restart", "starting"}) => previous = hook.previous_runtime

\* The previous runtime remains available until the next successful
\* installation (TECHNICAL.MD, LoxBerry Bridge Control).
PreviousUntilSuccess ==
    [][previous # NoRuntime /\ runtime[previous] # "none"
       /\ ~InStep({"activated", "links"}) => runtime'[previous] # "none"]_vars

\* As long as no two control scripts overlapped, no installation removes the
\* runtime that a bridge is running from, be it that preupgrade stopped it two
\* upgrades before its runtime goes or that it was told to end since this
\* upgrade began and has not ended (except a stray, which no script can stop).
BridgeKeepsItsRuntime ==
    ~overlap /\ signals = 0 =>
        \A p \in Pids :
            (proc[p] \in {"shell", "bridge"} \/ p \in leaving) /\ runs[p] \in Runtimes
                => runtime[runs[p]] # "none"

\* An upgrade that ends with the bridge restarted has it run the new runtime,
\* unless the page started the old one meanwhile (a stray and a bridge told to
\* end may still run the old one).
UpgradeRunsNewCode ==
    [][InStep({"starting"}) /\ InStep({"none"})' /\ ctl[Upgrader].ok
       /\ ~meddled /\ ~overlap /\ powerCuts' = powerCuts
         => \A p \in Pids : proc[p] = "bridge" => runs[p] = venv]_vars
=============================================================================
