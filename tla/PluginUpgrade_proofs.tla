------------------------ MODULE PluginUpgrade_proofs ------------------------
(* The upgrade: the link venv names a validated runtime, venv.previous is  *)
(* a way back, a bridge keeps its runtime and ends up on the new one.      *)
EXTENDS PluginUpgrade, BridgeCtl_proofs

Running == {"shell", "bridge"}

(* What the hook's variables and venv.previous hold at each step.          *)
HookFits ==
  /\ InStep({"none", "asked", "stopping", "platform", "asked again", "stopping again",
             "install", "unlink", "allocate"}) => hook.candidate = NoRuntime
  /\ InStep({"build", "validated", "swap", "switched", "activated"})
       => hook.candidate \in Runtimes
  /\ InStep({"swap"}) => /\ venv = NoRuntime
                         /\ hook.previous_runtime \in Runtimes \ {hook.candidate}
  /\ InStep({"allocate", "build", "validated", "swap", "switched", "activated"})
       => previous = NoRuntime
  /\ ~InStep({"asked", "stopping", "asked again", "stopping again", "starting"})
       => CalledBack
  /\ InStep({"asked", "asked again"}) => Runs(Upgrader, {"is-running"})
  /\ InStep({"stopping", "stopping again"}) => Runs(Upgrader, {"stop"})

(* The link never names a directory that a step can remove or leave half   *)
(* built: the candidate is another one until it is valid.                  *)
LinkIsSafe ==
  signals = 0 =>
    /\ venv \in Runtimes => runtime[venv] = "valid"
    /\ InStep({"build", "validated", "swap"}) => hook.candidate # venv
    /\ InStep({"validated", "swap"}) => runtime[hook.candidate] = "valid"

AfterTheSwitch == {"links", "restart", "starting"}

(* The way back is kept apart from the link, and from what may be removed. *)
WayBackIsKept ==
  signals = 0 =>
    /\ previous # NoRuntime /\ ~InStep({"unlink"}) /\ ~cutOff
         => previous # venv /\ runtime[previous] \in {"valid", "legacy"}
    /\ InStep({"swap"}) => runtime[hook.previous_runtime] = "legacy"
    /\ InStep({"switched", "activated"}) =>
         /\ venv = hook.candidate
         /\ hook.previous_runtime \in Runtimes
              => /\ hook.previous_runtime # venv
                 /\ runtime[hook.previous_runtime] \in {"valid", "legacy"}
    /\ InStep(AfterTheSwitch) => previous = hook.previous_runtime

(* Without a runtime there is no bridge, and none is about to start.       *)
RunsFit ==
  venv = NoRuntime /\ ~InStep({"swap"}) =>
    NoBridge /\ \A c \in Callers : ~At(c, {"spawn"})

(* The bridges of which no runtime may be taken away.                      *)
Attached(p) == proc[p] \in Running \/ p \in leaving

FromVenv == \A p \in Pids : Attached(p) => runs[p] \in {NoRuntime, venv}

LeaveVenv == \A p \in leaving : runs[p] \in {NoRuntime, venv}

(* By the time the previous runtime is removed every bridge was started    *)
(* from venv: the older ones were stopped, or there were none.             *)
OldBridgesAreStopped ==
  ~overlap =>
    /\ InStep({"asked"}) /\ CalledBack /\ ~ctl[Upgrader].ok => FromVenv
    /\ InStep({"stopping"}) /\ CalledBack => FromVenv
    /\ InStep({"platform", "asked again", "stopping again", "install", "unlink",
               "allocate", "build", "validated"}) => FromVenv
    /\ InStep({"asked", "stopping"}) => LeaveVenv
    /\ InStep({"swap"}) =>
         \A p \in Pids : Attached(p) => runs[p] \in {NoRuntime, hook.previous_runtime}
    /\ signals = 0 =>
         \A p \in Pids : Attached(p) /\ runs[p] \in Runtimes => runtime[runs[p]] # "none"

(* Unless the page starts it, there is no bridge from then until the hook  *)
(* starts one, from the new runtime.                                       *)
NoneUntilStarted ==
  ~overlap /\ ~meddled =>
    /\ \A c \in Callers \ {Upgrader} : ~At(c, {"idle"}) => ~Runs(c, {"start", "restart"})
    /\ InStep({"asked"}) /\ CalledBack /\ ~ctl[Upgrader].ok => NoBridge
    /\ InStep({"stopping"}) /\ CalledBack => NoBridge
    /\ ~InStep({"none", "asked", "stopping", "starting"}) => NoBridge
    /\ InStep({"starting"}) => \A p \in Pids : proc[p] \in Running => runs[p] = venv

UpgradeInv ==
  /\ TypeOK /\ CtlInv
  /\ HookFits /\ LinkIsSafe /\ WayBackIsKept /\ RunsFit
  /\ OldBridgesAreStopped /\ NoneUntilStarted

---------------------------------------------------------------------------
(* What the steps do.                                                      *)

Hook == [step : Steps, candidate : Runtimes \cup {NoRuntime},
         previous_runtime : Runtimes \cup {NoRuntime}, restart : BOOLEAN]

LEMMA NoHookType == NoHook \in Hook
BY DEF NoHook, Hook, Steps

LEMMA GoOnMoves ==
  ASSUME hook \in Hook, NEW step \in Steps, GoOn(step)
  PROVE  /\ hook' \in Hook /\ hook'.step = step /\ hook'.candidate = hook.candidate
         /\ hook'.previous_runtime = hook.previous_runtime
BY DEF GoOn, Hook

(* The hook calls the control script as any other caller does.             *)
LEMMA HookIsACaller ==
  ASSUME NEW command \in Commands, Calls(Upgrader, command)
  PROVE  CtlStep
BY UpgradeAssumption DEF Calls, CtlStep

LEMMA CommandsAre ==
  {"start", "stop", "restart", "status", "is-running"} = Commands
BY DEF Commands

LEMMA CtlFollows ==
  ASSUME [Next]_vars
  PROVE  CtlStep \/ UNCHANGED ctlVars
<1> USE CommandsAre
<1>1. CASE preupgrade
  BY <1>1, HookIsACaller DEF preupgrade, BeginUpgrade, BeginInstall, StopBeforeUpgrade,
                             Stopped, ctlVars
<1>2. CASE PreinstallFails
  BY <1>2 DEF PreinstallFails
<1>3. CASE postupgrade
  <2>1. CASE postinstall
    BY <2>1 DEF postinstall, CheckFails, cleanup_previous_runtime, UnlinkPrevious,
                MakeCandidate, Build, BuildFails, SwitchLink, MoveLegacy, SwapIn, RollBack,
                Activate, LinkPrevious, Finish, FinishFails
  <2>2. CASE ~postinstall
    BY <1>3, <2>2, HookIsACaller DEF postupgrade, DecideRestart, StopBeforeInstall,
                                     StoppedBeforeInstall, StartAfterUpgrade, Restarted
  <2> QED BY <2>1, <2>2
<1>4. CASE Signalled
  BY <1>4 DEF Signalled
<1>5. CASE PowerGoes \/ ProcessStep
  BY <1>5 DEF PowerGoes, ProcessStep, CtlStep
<1>6. ASSUME NEW c \in Callers, ScriptStep(c) PROVE CtlStep
  <2>1. Usable \in BOOLEAN
    BY DEF Usable
  <2>2. CtlScript(c) \/ \E ok \in BOOLEAN : Preflight(c, ok)
    BY <1>6, <2>1 DEF ScriptStep
  <2> QED BY <2>2 DEF CtlStep
<1>7. ASSUME NEW c \in Callers, NEW command \in Commands, PageCalls(c, command) PROVE CtlStep
  BY <1>7 DEF PageCalls, Calls, CtlStep
<1>8. CASE UNCHANGED vars
  BY <1>8 DEF vars
<1> QED BY <1>1, <1>2, <1>3, <1>4, <1>5, <1>6, <1>7, <1>8 DEF Next

LEMMA CtlInvIsKept == CtlInv /\ [Next]_vars => CtlInv'
BY CtlFollows, CtlInvStays

(* A bridge runs from the runtime it was started from.                     *)
LEMMA RunsFollow ==
  ASSUME runs \in [Pids -> Runtimes \cup {NoRuntime, Legacy}],
         venv \in Runtimes \cup {NoRuntime, Legacy}, FollowRuns
  PROVE  /\ runs' \in [Pids -> Runtimes \cup {NoRuntime, Legacy}]
         /\ \A p \in Pids : proc'[p] \in Running =>
              runs'[p] = IF proc[p] = "none" THEN venv ELSE runs[p]
BY DEF FollowRuns, Running

---------------------------------------------------------------------------
(* Types.                                                                  *)

LEMMA UpgradeTypesAtFirst == Init => TypeOK
<1> SUFFICES ASSUME Init PROVE TypeOK
    OBVIOUS
<1>1. CtlTypeOK
  BY CtlInvAtFirst DEF Init, CtlInv
<1>2. hook \in Hook
  BY NoHookType DEF Init
<1>3. /\ upgrades \in 0..MaxUpgrades /\ calls \in 0..MaxCalls
      /\ powerCuts \in 0..MaxPowerCuts /\ signals \in 0..MaxSignals
  BY UpgradeAssumption DEF Init
<1> QED BY <1>1, <1>2, <1>3 DEF Init, TypeOK, Hook

DiskType ==
  /\ runtime \in [Runtimes -> {"none", "partial", "valid", "legacy"}]
  /\ venv \in Runtimes \cup {NoRuntime, Legacy}
  /\ previous \in Runtimes \cup {NoRuntime}
  /\ runs \in [Pids -> Runtimes \cup {NoRuntime, Legacy}]

LEMMA EndsMoves ==
  ASSUME DiskType, NEW activated, Ends(activated)
  PROVE  /\ hook' = NoHook
         /\ runtime' \in [Runtimes -> {"none", "partial", "valid", "legacy"}]
         /\ \A r \in Runtimes : r # hook.candidate \/ activated => runtime'[r] = runtime[r]
BY DEF DiskType, Ends

LEMMA HookTypesStay ==
  ASSUME hook \in Hook, DiskType, CtlTypeOK, [Next]_vars
  PROVE  hook' \in Hook
<1> USE NoHookType DEF Steps
<1>1. CASE preupgrade
  BY <1>1, GoOnMoves DEF preupgrade, BeginUpgrade, BeginInstall, StopBeforeUpgrade, Stopped
<1>2. CASE PreinstallFails
  BY <1>2 DEF PreinstallFails
<1>3. CASE DecideRestart \/ StopBeforeInstall \/ StoppedBeforeInstall
           \/ StartAfterUpgrade \/ Restarted
  <2>1. CASE hook' = [hook EXCEPT !.restart = TRUE, !.step = "install"]
    BY <2>1 DEF Hook
  <2>2. CASE hook' = [hook EXCEPT !.restart = TRUE, !.step = "stopping again"]
    BY <2>2 DEF Hook
  <2> QED BY <1>3, <2>1, <2>2, GoOnMoves
          DEF DecideRestart, StopBeforeInstall, StoppedBeforeInstall, StartAfterUpgrade, Restarted
<1>4. CASE CheckFails \/ BuildFails \/ FinishFails
  BY <1>4 DEF CheckFails, BuildFails, FinishFails, Ends
<1>5. CASE MakeCandidate
  <2>1. PICK r \in Runtimes : hook' = [hook EXCEPT !.candidate = r, !.step = "build"]
    BY <1>5 DEF MakeCandidate
  <2> QED BY <2>1 DEF Hook
<1>6. CASE SwitchLink
  <2>1. /\ hook' = [hook EXCEPT !.previous_runtime = venv, !.step = "switched"]
        /\ venv \in Runtimes \cup {NoRuntime}
    BY <1>6 DEF SwitchLink, DiskType
  <2> QED BY <2>1 DEF Hook
<1>7. CASE MoveLegacy
  <2>1. PICK r \in Runtimes : hook' = [hook EXCEPT !.previous_runtime = r, !.step = "swap"]
    BY <1>7 DEF MoveLegacy
  <2> QED BY <2>1 DEF Hook
<1>8. CASE cleanup_previous_runtime \/ UnlinkPrevious \/ Build \/ SwapIn \/ RollBack
           \/ Activate \/ LinkPrevious \/ Finish
  BY <1>8, GoOnMoves DEF cleanup_previous_runtime, UnlinkPrevious, Build, SwapIn, RollBack,
                         Activate, LinkPrevious, Finish
<1>9. CASE Signalled \/ PowerGoes \/ ProcessStep
  BY <1>9 DEF Signalled, PowerGoes, ProcessStep
<1>10. ASSUME NEW c \in Callers, ScriptStep(c) \/ \E command \in Commands : PageCalls(c, command)
       PROVE hook' = hook
  BY <1>10 DEF ScriptStep, PageCalls
<1>11. CASE UNCHANGED vars
  BY <1>11 DEF vars, upgradeVars
<1> QED BY <1>1, <1>2, <1>3, <1>4, <1>5, <1>6, <1>7, <1>8, <1>9, <1>10, <1>11
        DEF Next, postupgrade, postinstall

LEMMA DiskTypesStay ==
  ASSUME hook \in Hook, DiskType, [Next]_vars
  PROVE  DiskType'
<1> USE DEF DiskType
<1>1. CASE preupgrade \/ PreinstallFails
  BY <1>1 DEF preupgrade, PreinstallFails, BeginUpgrade, BeginInstall, StopBeforeUpgrade,
              Stopped, Calls, disk
<1>2. CASE DecideRestart \/ StopBeforeInstall \/ StoppedBeforeInstall
           \/ StartAfterUpgrade \/ Restarted
  BY <1>2 DEF DecideRestart, StopBeforeInstall, StoppedBeforeInstall, StartAfterUpgrade,
              Restarted, Calls, disk
<1>3. CASE CheckFails \/ BuildFails \/ FinishFails
  BY <1>3, EndsMoves DEF CheckFails, BuildFails, FinishFails
<1>4. CASE cleanup_previous_runtime \/ UnlinkPrevious \/ Activate \/ Finish
  BY <1>4 DEF cleanup_previous_runtime, UnlinkPrevious, Activate, Finish, disk
<1>5. CASE MakeCandidate \/ Build
  BY <1>5 DEF MakeCandidate, Build
<1>6. CASE SwitchLink \/ SwapIn
  <2>1. hook.candidate \in Runtimes \cup {NoRuntime}
    BY DEF Hook
  <2> QED BY <1>6, <2>1 DEF SwitchLink, SwapIn
<1>7. CASE MoveLegacy
  BY <1>7 DEF MoveLegacy
<1>8. CASE RollBack
  BY <1>8 DEF RollBack
<1>9. CASE LinkPrevious
  BY <1>9 DEF LinkPrevious
<1>10. CASE Signalled \/ PowerGoes
  BY <1>10 DEF Signalled, PowerGoes, disk
<1>11. ASSUME NEW c \in Callers,
              ScriptStep(c) \/ ProcessStep \/ \E command \in Commands : PageCalls(c, command)
       PROVE DiskType'
  BY <1>11, RunsFollow DEF ScriptStep, ProcessStep, PageCalls, Calls, disk
<1>12. CASE ProcessStep
  BY <1>12, RunsFollow DEF ProcessStep, disk
<1>13. CASE UNCHANGED vars
  BY <1>13 DEF vars, upgradeVars, disk
<1> QED BY <1>1, <1>2, <1>3, <1>4, <1>5, <1>6, <1>7, <1>8, <1>9, <1>10, <1>11, <1>12, <1>13
        DEF Next, postupgrade, postinstall

LEMMA CountersCount ==
  ASSUME [Next]_vars
  PROVE  /\ upgrades' = upgrades \/ (upgrades < MaxUpgrades /\ upgrades' = upgrades + 1)
         /\ calls' = calls \/ (calls < MaxCalls /\ calls' = calls + 1)
         /\ powerCuts' = powerCuts \/ (powerCuts < MaxPowerCuts /\ powerCuts' = powerCuts + 1)
         /\ signals' = signals \/ (signals < MaxSignals /\ signals' = signals + 1)
<1> USE DEF counters
<1>1. CASE BeginUpgrade \/ BeginInstall
  BY <1>1 DEF BeginUpgrade, BeginInstall
<1>2. CASE StopBeforeUpgrade \/ Stopped \/ PreinstallFails
  BY <1>2 DEF StopBeforeUpgrade, Stopped, PreinstallFails
<1>3. CASE postinstall
  BY <1>3 DEF postinstall, CheckFails, cleanup_previous_runtime, UnlinkPrevious,
       MakeCandidate, Build, BuildFails, SwitchLink, MoveLegacy, SwapIn, RollBack,
       Activate, LinkPrevious, Finish, FinishFails
<1>4. CASE DecideRestart \/ StopBeforeInstall \/ StoppedBeforeInstall
           \/ StartAfterUpgrade \/ Restarted
  BY <1>4 DEF DecideRestart, StopBeforeInstall, StoppedBeforeInstall, StartAfterUpgrade,
              Restarted
<1>5. CASE Signalled
  BY <1>5 DEF Signalled
<1>6. CASE PowerGoes
  BY <1>6 DEF PowerGoes
<1>7. CASE ProcessStep \/ \E c \in Callers : ScriptStep(c)
  BY <1>7 DEF ProcessStep, ScriptStep
<1>8. ASSUME NEW c \in Callers, NEW command \in Commands, PageCalls(c, command)
      PROVE  UNCHANGED <<upgrades, powerCuts, signals>> /\ calls < MaxCalls /\ calls' = calls + 1
  BY <1>8 DEF PageCalls
<1>9. CASE UNCHANGED vars
  BY <1>9 DEF vars, upgradeVars
<1> QED BY <1>1, <1>2, <1>3, <1>4, <1>5, <1>6, <1>7, <1>8, <1>9
        DEF Next, preupgrade, postupgrade

LEMMA CounterTypesStay ==
  ASSUME TypeOK, [Next]_vars
  PROVE  /\ upgrades' \in 0..MaxUpgrades /\ calls' \in 0..MaxCalls
         /\ powerCuts' \in 0..MaxPowerCuts /\ signals' \in 0..MaxSignals
         /\ signals' = 0 => signals = 0
<1>1. /\ upgrades \in 0..MaxUpgrades /\ calls \in 0..MaxCalls
      /\ powerCuts \in 0..MaxPowerCuts /\ signals \in 0..MaxSignals
  BY DEF TypeOK
<1> QED BY <1>1, CountersCount, UpgradeAssumption

LEMMA FlagTypesStay ==
  ASSUME TypeOK, [Next]_vars
  PROVE  /\ runningFile' \in BOOLEAN /\ meddled' \in BOOLEAN
         /\ leaving' \subseteq Pids /\ cutOff' \in BOOLEAN
<1>0. /\ runningFile \in BOOLEAN /\ meddled \in BOOLEAN
      /\ leaving \subseteq Pids /\ cutOff \in BOOLEAN
      /\ \A c \in Callers : ctl[c].ok \in BOOLEAN
  BY DEF TypeOK, CtlTypeOK
<1> USE UpgradeAssumption DEF history
<1>1. CASE preupgrade \/ PreinstallFails
  BY <1>0, <1>1 DEF preupgrade, PreinstallFails, BeginUpgrade, BeginInstall,
                    StopBeforeUpgrade, Stopped
<1>2. CASE postupgrade
  <2>1. CASE Restarted
    BY <1>0, <2>1 DEF Restarted
  <2>2. CASE ~Restarted
    BY <1>0, <1>2, <2>2 DEF postupgrade, postinstall, DecideRestart, StopBeforeInstall,
         StoppedBeforeInstall, StartAfterUpgrade, CheckFails,
         cleanup_previous_runtime, UnlinkPrevious, MakeCandidate, Build, BuildFails,
         SwitchLink, MoveLegacy, SwapIn, RollBack, Activate, LinkPrevious, Finish, FinishFails
  <2> QED BY <2>1, <2>2
<1>3. CASE Signalled \/ PowerGoes
  BY <1>0, <1>3 DEF Signalled, PowerGoes
<1>4. CASE ProcessStep \/ \E c \in Callers : ScriptStep(c)
  BY <1>0, <1>4 DEF ProcessStep, ScriptStep, FollowRuns
<1>5. ASSUME NEW c \in Callers, NEW command \in Commands, PageCalls(c, command)
      PROVE  /\ runningFile' \in BOOLEAN /\ meddled' \in BOOLEAN
             /\ leaving' \subseteq Pids /\ cutOff' \in BOOLEAN
  BY <1>0, <1>5 DEF PageCalls
<1>6. CASE UNCHANGED vars
  BY <1>0, <1>6 DEF vars, upgradeVars
<1> QED BY <1>1, <1>2, <1>3, <1>4, <1>5, <1>6 DEF Next

LEMMA UpgradeTypesStay ==
  ASSUME TypeOK, CtlInv, [Next]_vars
  PROVE  TypeOK'
<1>1. hook \in Hook /\ DiskType /\ CtlTypeOK
  BY DEF TypeOK, Hook, DiskType
<1>2. CtlTypeOK'
  BY CtlInvIsKept DEF CtlInv
<1> QED BY <1>1, <1>2, HookTypesStay, DiskTypesStay, CounterTypesStay, FlagTypesStay
        DEF TypeOK, Hook, DiskType

---------------------------------------------------------------------------
(* The hook's variables.                                                   *)

LEMMA HookFitsAtFirst == Init => HookFits
<1> SUFFICES ASSUME Init PROVE HookFits
    OBVIOUS
<1>1. hook.step = "none" /\ hook.candidate = NoRuntime
  BY DEF Init, NoHook
<1>2. CalledBack
  BY UpgradeAssumption DEF Init, CtlInit, CalledBack, At
<1> QED BY <1>1, <1>2 DEF HookFits, InStep

(* Scripts of others and processes leave the upgrader's script alone.      *)
LEMMA CallIsUnderWay ==
  ASSUME CtlTypeOK, NEW command \in Commands, Calls(Upgrader, command)
  PROVE  Runs(Upgrader, {command})'
<1>1. ctl \in [Callers -> Script] /\ Upgrader \in Callers
  BY UpgradeAssumption DEF CtlTypeOK, Script
<1> QED BY <1>1, InvokeMoves DEF Calls, Runs

LEMMA HookFitsStays ==
  ASSUME TypeOK, CtlInv, HookFits, [Next]_vars
  PROVE  HookFits'
<1>0. /\ hook \in Hook /\ DiskType /\ CtlTypeOK /\ ctl \in [Callers -> Script]
      /\ Upgrader \in Callers
  BY UpgradeAssumption DEF TypeOK, CtlTypeOK, Hook, DiskType, Script
<1>a. NoHook.step = "none" /\ NoHook.candidate = NoRuntime
  BY DEF NoHook
<1> USE CommandsAre DEF HookFits, InStep
<1>1. CASE BeginUpgrade
  <2>1. /\ hook'.step = "asked" /\ hook'.candidate = NoRuntime
    BY <1>0, <1>1, GoOnMoves DEF BeginUpgrade, Steps
  <2>2. Runs(Upgrader, {"is-running"})'
    BY <1>0, <1>1, CallIsUnderWay DEF BeginUpgrade
  <2> QED BY <2>1, <2>2
<1>2. CASE StopBeforeUpgrade
  <2>1. hook'.candidate = NoRuntime /\ hook'.step \in {"stopping", "platform"}
    BY <1>0, <1>2, GoOnMoves DEF StopBeforeUpgrade, Steps
  <2>2. hook'.step = "stopping" => Runs(Upgrader, {"stop"})'
    BY <1>0, <1>2, CallIsUnderWay, GoOnMoves DEF StopBeforeUpgrade, Steps
  <2>3. hook'.step = "platform" => CalledBack'
    BY <1>0, <1>2, GoOnMoves DEF StopBeforeUpgrade, Steps, CalledBack, At, ctlVars
  <2> QED BY <2>1, <2>2, <2>3
<1>3. CASE BeginInstall \/ Stopped \/ PreinstallFails
  <2>1. ctl' = ctl /\ CalledBack
    BY <1>3 DEF BeginInstall, Stopped, PreinstallFails, ctlVars
  <2>2. hook'.step \in {"none", "platform", "install"} /\ hook'.candidate = NoRuntime
    BY <1>0, <1>a, <1>3, GoOnMoves DEF BeginInstall, Stopped, PreinstallFails, Steps
  <2> QED BY <2>1, <2>2 DEF CalledBack, At
<1>4. CASE DecideRestart
  <2>1. CASE runningFile
    <3>1. hook'.step = "install" /\ hook'.candidate = NoRuntime /\ ctl' = ctl /\ CalledBack
      BY <1>0, <1>4, <2>1 DEF DecideRestart, Hook, ctlVars
    <3> QED BY <3>1 DEF CalledBack, At
  <2>2. CASE ~runningFile
    <3>1. hook'.step = "asked again" /\ hook'.candidate = NoRuntime
      BY <1>0, <1>4, <2>2, GoOnMoves DEF DecideRestart, Steps
    <3>2. Runs(Upgrader, {"is-running"})'
      BY <1>0, <1>4, <2>2, CallIsUnderWay DEF DecideRestart
    <3> QED BY <3>1, <3>2
  <2> QED BY <2>1, <2>2
<1>5. CASE StopBeforeInstall
  <2>1. CASE ctl[Upgrader].ok
    <3>1. hook'.step = "stopping again" /\ hook'.candidate = NoRuntime
      BY <1>0, <1>5, <2>1 DEF StopBeforeInstall, Hook
    <3>2. Runs(Upgrader, {"stop"})'
      BY <1>0, <1>5, <2>1, CallIsUnderWay DEF StopBeforeInstall
    <3> QED BY <3>1, <3>2
  <2>2. CASE ~ctl[Upgrader].ok
    <3>1. hook'.step = "install" /\ hook'.candidate = NoRuntime
      BY <1>0, <1>5, <2>2, GoOnMoves DEF StopBeforeInstall, Steps
    <3>2. ctl' = ctl /\ CalledBack
      BY <1>5, <2>2 DEF StopBeforeInstall, ctlVars
    <3> QED BY <3>1, <3>2 DEF CalledBack, At
  <2> QED BY <2>1, <2>2
<1>6. CASE StoppedBeforeInstall \/ Restarted
  <2>1. ctl' = ctl /\ CalledBack
    BY <1>6 DEF StoppedBeforeInstall, Restarted, ctlVars
  <2>2. hook'.step \in {"none", "install"} /\ hook'.candidate = NoRuntime
    BY <1>0, <1>a, <1>6, GoOnMoves DEF StoppedBeforeInstall, Restarted, Steps
  <2> QED BY <2>1, <2>2 DEF CalledBack, At
<1>7. CASE StartAfterUpgrade
  BY <1>0, <1>7, GoOnMoves DEF StartAfterUpgrade, Steps
<1>8. CASE postinstall
  <2>0. ctl' = ctl /\ CalledBack
    BY <1>8 DEF postinstall, CheckFails, cleanup_previous_runtime, UnlinkPrevious,
         MakeCandidate, Build, BuildFails, SwitchLink, MoveLegacy, SwapIn, RollBack,
         Activate, LinkPrevious, Finish, FinishFails, ctlVars
  <2>1. CASE CheckFails \/ BuildFails \/ FinishFails \/ RollBack
    <3>1. hook' = NoHook
      BY <2>1 DEF CheckFails, BuildFails, FinishFails, Ends, RollBack
    <3> QED BY <1>a, <2>0, <3>1 DEF CalledBack, At
  <2>2. CASE cleanup_previous_runtime \/ UnlinkPrevious
    <3>1. /\ hook'.candidate = NoRuntime
          /\ \/ hook'.step = "unlink"
             \/ hook'.step = "allocate" /\ previous' = NoRuntime
      BY <1>0, <2>2, GoOnMoves DEF cleanup_previous_runtime, UnlinkPrevious, Steps
    <3> QED BY <2>0, <3>1 DEF CalledBack, At
  <2>3. CASE MakeCandidate
    <3>1. hook'.step = "build" /\ hook'.candidate \in Runtimes /\ previous' = NoRuntime
      BY <1>0, <2>3 DEF MakeCandidate, Hook
    <3> QED BY <2>0, <3>1 DEF CalledBack, At
  <2>4. CASE Build \/ SwapIn \/ Activate
    <3>1. /\ hook'.step \in {"validated", "switched", "activated"}
          /\ hook'.candidate \in Runtimes /\ previous' = NoRuntime
      BY <1>0, <2>4, GoOnMoves DEF Build, SwapIn, Activate, disk, Steps
    <3> QED BY <2>0, <3>1 DEF CalledBack, At
  <2>5. CASE SwitchLink
    <3>1. hook'.step = "switched" /\ hook'.candidate \in Runtimes /\ previous' = NoRuntime
      BY <1>0, <2>5 DEF SwitchLink, Hook
    <3> QED BY <2>0, <3>1 DEF CalledBack, At
  <2>6. CASE MoveLegacy
    <3>1. PICK r \in Runtimes : /\ r # hook.candidate
                                /\ hook' = [hook EXCEPT !.previous_runtime = r, !.step = "swap"]
      BY <2>6 DEF MoveLegacy
    <3>2. /\ hook'.step = "swap" /\ hook'.candidate = hook.candidate
          /\ hook'.previous_runtime = r
      BY <1>0, <3>1 DEF Hook
    <3>3. venv' = NoRuntime /\ previous' = NoRuntime /\ hook.candidate \in Runtimes
      BY <2>6 DEF MoveLegacy
    <3> QED BY <2>0, <3>1, <3>2, <3>3 DEF CalledBack, At
  <2>7. CASE LinkPrevious
    <3>1. hook'.step = "links"
      BY <1>0, <2>7, GoOnMoves DEF LinkPrevious, Steps
    <3> QED BY <2>0, <3>1 DEF CalledBack, At
  <2>8. CASE Finish
    <3>1. hook'.step = "restart" \/ (hook'.step = "none" /\ hook'.candidate = NoRuntime)
      BY <1>0, <1>a, <2>8, GoOnMoves DEF Finish, Steps
    <3> QED BY <2>0, <3>1 DEF CalledBack, At
  <2> QED BY <1>8, <2>1, <2>2, <2>3, <2>4, <2>5, <2>6, <2>7, <2>8 DEF postinstall
<1>9. CASE Signalled
  BY <1>9 DEF Signalled, CalledBack, At, Runs, ctlVars
<1>10. CASE PowerGoes
  <2>1. CalledBack'
    BY <1>0, <1>10, CutMoves DEF PowerGoes, CalledBack, At
  <2> QED BY <1>a, <1>10, <2>1 DEF PowerGoes
<1>11. CASE ProcessStep
  <2>1. UNCHANGED <<hook, disk, ctl>>
    BY <1>0, <1>11, ProcessMoves DEF ProcessStep
  <2> QED BY <2>1 DEF disk, CalledBack, At, Runs
<1>12. ASSUME NEW c \in Callers, ScriptStep(c) PROVE HookFits'
  <2>0. UNCHANGED <<hook, disk>>
    BY <1>12 DEF ScriptStep
  <2>1. CtlScript(c) \/ \E ok \in BOOLEAN : Preflight(c, ok)
    BY <1>12 DEF ScriptStep, Usable
  <2>2. CASE c = Upgrader
    <3>1. ~CalledBack
      BY <1>0, <2>1, <2>2, ScriptMoves DEF CalledBack, At
    <3>2. InStep({"asked", "stopping", "asked again", "stopping again", "starting"})
      BY <3>1
    <3>3. ~InStep({"starting"}) => ~Runs(Upgrader, {"restart"})
      BY <3>2 DEF Runs
    <3>4. ~InStep({"starting"}) => ctl'[Upgrader].cmd = ctl[Upgrader].cmd
      BY <1>0, <2>1, <2>2, <3>3, CommandStays
    <3> QED BY <2>0, <3>2, <3>4 DEF disk, Runs
  <2>3. CASE c # Upgrader
    <3>1. ctl'[Upgrader] = ctl[Upgrader]
      BY <1>0, <2>1, <2>3, ScriptMoves
    <3> QED BY <2>0, <3>1 DEF disk, CalledBack, At, Runs
  <2> QED BY <2>2, <2>3
<1>13. ASSUME NEW c \in Callers \ {Upgrader}, NEW command \in Commands, PageCalls(c, command)
       PROVE HookFits'
  <2>1. UNCHANGED <<hook, disk>> /\ ctl'[Upgrader] = ctl[Upgrader]
    BY <1>0, <1>13, InvokeMoves DEF PageCalls, Calls
  <2> QED BY <2>1 DEF disk, CalledBack, At, Runs
<1>14. CASE UNCHANGED vars
  BY <1>14 DEF vars, upgradeVars, ctlVars, disk, CalledBack, At, Runs
<1> QED BY <1>1, <1>2, <1>3, <1>4, <1>5, <1>6, <1>7, <1>8, <1>9, <1>10, <1>11, <1>12, <1>13,
           <1>14 DEF Next, preupgrade, postupgrade

---------------------------------------------------------------------------
(* The links.                                                              *)

AtWork == {"unlink", "allocate", "build", "validated", "swap", "switched", "activated"}

(* Outside of postinstall.sh nothing moves the links and the runtimes.     *)
LEMMA QuietSteps ==
  ASSUME TypeOK, CtlTypeOK,
         \/ preupgrade \/ PreinstallFails
         \/ DecideRestart \/ StopBeforeInstall \/ StoppedBeforeInstall
         \/ StartAfterUpgrade \/ Restarted \/ Finish \/ ProcessStep
         \/ \E c \in Callers : ScriptStep(c)
         \/ \E c \in Callers \ {Upgrader}, command \in Commands : PageCalls(c, command)
         \/ UNCHANGED vars
  PROVE  /\ UNCHANGED disk /\ cutOff' = cutOff
         /\ hook' = hook \/ (~InStep({"unlink"}) /\ hook'.step \notin AtWork)
         /\ hook'.step \in AfterTheSwitch => /\ InStep(AfterTheSwitch)
                                            /\ hook'.previous_runtime = hook.previous_runtime
<1>0. hook \in Hook /\ NoHook.step = "none"
  BY DEF TypeOK, Hook, NoHook
<1> USE DEF AtWork, AfterTheSwitch, InStep, Steps, history
<1>1. CASE preupgrade \/ PreinstallFails
  BY <1>0, <1>1, GoOnMoves DEF preupgrade, PreinstallFails, BeginUpgrade, BeginInstall,
                               StopBeforeUpgrade, Stopped, Calls, disk
<1>2. CASE DecideRestart \/ StopBeforeInstall
  <2>1. CASE \/ hook' = [hook EXCEPT !.restart = TRUE, !.step = "install"]
             \/ hook' = [hook EXCEPT !.restart = TRUE, !.step = "stopping again"]
    BY <1>0, <1>2, <2>1 DEF DecideRestart, StopBeforeInstall, Calls, disk, Hook
  <2> QED BY <1>0, <1>2, <2>1, GoOnMoves DEF DecideRestart, StopBeforeInstall, Calls, disk
<1>3. CASE StoppedBeforeInstall \/ StartAfterUpgrade \/ Restarted \/ Finish
  BY <1>0, <1>3, GoOnMoves DEF StoppedBeforeInstall, StartAfterUpgrade, Restarted, Finish,
                               Calls, disk
<1>4. CASE ProcessStep \/ \E c \in Callers : ScriptStep(c)
  BY <1>4 DEF ProcessStep, ScriptStep, disk
<1>5. CASE \E c \in Callers \ {Upgrader}, command \in Commands : PageCalls(c, command)
  BY <1>5 DEF PageCalls, Calls, disk
<1>6. CASE UNCHANGED vars
  BY <1>6 DEF vars, upgradeVars
<1> QED BY <1>1, <1>2, <1>3, <1>4, <1>5, <1>6

LEMMA LinkStaysSafe ==
  ASSUME TypeOK, CtlInv, HookFits, LinkIsSafe, [Next]_vars
  PROVE  LinkIsSafe'
<1> SUFFICES ASSUME signals' = 0 PROVE LinkIsSafe'
    BY DEF LinkIsSafe
<1>0. /\ hook \in Hook /\ DiskType /\ CtlTypeOK /\ signals = 0
      /\ NoHook.step = "none" /\ NoHook.candidate = NoRuntime
      /\ NoRuntime \notin Runtimes /\ Legacy \notin Runtimes
  BY UpgradeAssumption, CounterTypesStay DEF TypeOK, CtlInv, Hook, DiskType, NoHook
<1> USE DEF LinkIsSafe, InStep, Steps
<1>1. CASE \/ preupgrade \/ PreinstallFails
           \/ DecideRestart \/ StopBeforeInstall \/ StoppedBeforeInstall
           \/ StartAfterUpgrade \/ Restarted \/ Finish \/ ProcessStep
           \/ \E c \in Callers : ScriptStep(c)
           \/ \E c \in Callers \ {Upgrader}, command \in Commands : PageCalls(c, command)
           \/ UNCHANGED vars
  BY <1>0, <1>1, QuietSteps DEF disk, AtWork
<1>2. CASE CheckFails
  <2>1. /\ hook' = NoHook /\ venv' = venv /\ hook.candidate = NoRuntime
        /\ \A r \in Runtimes : runtime'[r] = runtime[r]
    BY <1>0, <1>2, EndsMoves DEF CheckFails, HookFits
  <2> QED BY <1>0, <2>1
<1>3. CASE cleanup_previous_runtime
  <2>1. hook'.step = "unlink" /\ venv' = venv
    BY <1>0, <1>3, GoOnMoves DEF cleanup_previous_runtime
  <2>2. venv \in Runtimes => runtime'[venv] = runtime[venv]
    BY <1>3 DEF cleanup_previous_runtime
  <2> QED BY <1>0, <2>1, <2>2
<1>4. CASE UnlinkPrevious \/ Activate \/ LinkPrevious
  <2>1. /\ hook'.step \in {"allocate", "activated", "links"}
        /\ venv' = venv /\ runtime' = runtime
    BY <1>0, <1>4, GoOnMoves DEF UnlinkPrevious, Activate, LinkPrevious, disk
  <2> QED BY <1>0, <2>1
<1>5. CASE MakeCandidate
  <2>1. PICK r \in Runtimes : /\ runtime[r] = "none"
                              /\ runtime' = [runtime EXCEPT ![r] = "partial"]
                              /\ hook' = [hook EXCEPT !.candidate = r, !.step = "build"]
    BY <1>5 DEF MakeCandidate, Free
  <2>2. hook'.candidate = r /\ hook'.step = "build" /\ venv' = venv
    BY <1>0, <1>5, <2>1 DEF MakeCandidate, Hook
  <2>3. r # venv
    BY <1>0, <2>1
  <2> QED BY <1>0, <2>1, <2>2, <2>3 DEF DiskType
<1>6. CASE Build
  <2>1. /\ hook'.step = "validated" /\ hook'.candidate = hook.candidate /\ venv' = venv
        /\ hook.candidate \in Runtimes /\ hook.candidate # venv
        /\ runtime' = [runtime EXCEPT ![hook.candidate] = "valid"]
    BY <1>0, <1>6, GoOnMoves DEF Build, HookFits
  <2> QED BY <1>0, <2>1 DEF DiskType
<1>7. CASE BuildFails
  <2>1. /\ hook' = NoHook /\ venv' = venv /\ hook.candidate # venv
        /\ \A r \in Runtimes : r # hook.candidate => runtime'[r] = runtime[r]
    BY <1>0, <1>7, EndsMoves DEF BuildFails
  <2> QED BY <1>0, <2>1
<1>8. CASE SwitchLink
  <2>1. hook'.step = "switched"
    BY <1>0, <1>8 DEF SwitchLink, Hook
  <2>2. venv' = hook.candidate /\ runtime' = runtime /\ runtime[hook.candidate] = "valid"
    BY <1>0, <1>8 DEF SwitchLink
  <2> QED BY <1>0, <2>1, <2>2
<1>9. CASE MoveLegacy
  <2>1. PICK r \in Runtimes : /\ r # hook.candidate
                              /\ runtime' = [runtime EXCEPT ![r] = "legacy"]
                              /\ hook' = [hook EXCEPT !.previous_runtime = r, !.step = "swap"]
    BY <1>9 DEF MoveLegacy
  <2>2. hook'.candidate = hook.candidate /\ hook'.step = "swap"
    BY <1>0, <2>1 DEF Hook
  <2>3. venv' = NoRuntime /\ hook.candidate \in Runtimes /\ runtime[hook.candidate] = "valid"
    BY <1>0, <1>9 DEF MoveLegacy, HookFits
  <2> QED BY <1>0, <2>1, <2>2, <2>3 DEF DiskType
<1>10. CASE SwapIn
  <2>1. /\ hook'.step = "switched" /\ venv' = hook.candidate /\ runtime' = runtime
        /\ runtime[hook.candidate] = "valid"
    BY <1>0, <1>10, GoOnMoves DEF SwapIn
  <2> QED BY <1>0, <2>1
<1>11. CASE RollBack
  BY <1>0, <1>11 DEF RollBack
<1>12. CASE FinishFails
  <2>1. hook' = NoHook /\ venv' = venv /\ \A r \in Runtimes : runtime'[r] = runtime[r]
    BY <1>0, <1>12, EndsMoves DEF FinishFails
  <2> QED BY <1>0, <2>1
<1>13. ~Signalled
  BY <1>0 DEF Signalled
<1>14. CASE PowerGoes
  BY <1>0, <1>14 DEF PowerGoes, disk
<1> QED BY <1>1, <1>2, <1>3, <1>4, <1>5, <1>6, <1>7, <1>8, <1>9, <1>10, <1>11, <1>12, <1>13,
           <1>14 DEF Next, postupgrade, postinstall

LEMMA WayBackStays ==
  ASSUME TypeOK, CtlInv, HookFits, LinkIsSafe, WayBackIsKept, [Next]_vars
  PROVE  WayBackIsKept'
<1> SUFFICES ASSUME signals' = 0 PROVE WayBackIsKept'
    BY DEF WayBackIsKept
<1>a. signals = 0
  BY CounterTypesStay
<1>0. /\ hook \in Hook /\ DiskType /\ CtlTypeOK
      /\ NoHook.step = "none" /\ NoHook.candidate = NoRuntime
      /\ NoRuntime \notin Runtimes /\ Legacy \notin Runtimes
  BY UpgradeAssumption DEF TypeOK, CtlInv, Hook, DiskType, NoHook
<1> USE DEF WayBackIsKept, AfterTheSwitch, InStep, Steps, history
<1>1. CASE \/ preupgrade \/ PreinstallFails
           \/ DecideRestart \/ StopBeforeInstall \/ StoppedBeforeInstall
           \/ StartAfterUpgrade \/ Restarted \/ Finish \/ ProcessStep
           \/ \E c \in Callers : ScriptStep(c)
           \/ \E c \in Callers \ {Upgrader}, command \in Commands : PageCalls(c, command)
           \/ UNCHANGED vars
  BY <1>0, <1>a, <1>1, QuietSteps DEF disk, AtWork
<1>2. CASE CheckFails
  <2>1. /\ hook' = NoHook /\ UNCHANGED <<venv, previous, cutOff>> /\ ~InStep({"unlink"})
        /\ \A r \in Runtimes : runtime'[r] = runtime[r]
    BY <1>0, <1>2, EndsMoves DEF CheckFails, HookFits
  <2> QED BY <1>0, <1>a, <2>1 DEF DiskType
<1>3. CASE cleanup_previous_runtime
  BY <1>0, <1>3, GoOnMoves DEF cleanup_previous_runtime
<1>4. CASE UnlinkPrevious
  BY <1>0, <1>4, GoOnMoves DEF UnlinkPrevious
<1>5. CASE MakeCandidate
  <2>1. previous' = NoRuntime
    BY <1>5 DEF MakeCandidate, HookFits
  <2>2. hook'.step = "build"
    BY <1>0, <1>5 DEF MakeCandidate, Hook
  <2> QED BY <2>1, <2>2
<1>6. CASE Build
  <2>1. previous' = NoRuntime /\ hook'.step = "validated"
    BY <1>0, <1>6, GoOnMoves DEF Build, HookFits
  <2> QED BY <2>1
<1>7. CASE BuildFails \/ RollBack
  <2>1. previous' = NoRuntime /\ hook' = NoHook
    BY <1>7 DEF BuildFails, RollBack, Ends, HookFits
  <2> QED BY <1>0, <2>1
<1>8. CASE SwitchLink
  <2>1. /\ hook'.step = "switched" /\ hook'.previous_runtime = venv
        /\ hook'.candidate = hook.candidate
    BY <1>0, <1>8 DEF SwitchLink, Hook
  <2>2. /\ venv' = hook.candidate /\ runtime' = runtime /\ previous' = NoRuntime
        /\ hook.candidate # venv /\ (venv \in Runtimes => runtime[venv] = "valid")
    BY <1>0, <1>a, <1>8 DEF SwitchLink, HookFits, LinkIsSafe
  <2>3. venv \in Runtimes => venv # venv' /\ runtime'[venv] = "valid"
    BY <2>2
  <2> QED BY <2>1, <2>2, <2>3
<1>9. CASE MoveLegacy
  <2>1. PICK r \in Runtimes : /\ runtime' = [runtime EXCEPT ![r] = "legacy"]
                              /\ hook' = [hook EXCEPT !.previous_runtime = r, !.step = "swap"]
    BY <1>9 DEF MoveLegacy
  <2>2. hook'.previous_runtime = r /\ hook'.step = "swap"
    BY <1>0, <2>1 DEF Hook
  <2>3. previous' = NoRuntime
    BY <1>9 DEF MoveLegacy, HookFits
  <2> QED BY <1>0, <2>1, <2>2, <2>3 DEF DiskType
<1>10. CASE SwapIn
  <2>1. /\ hook'.step = "switched" /\ hook'.previous_runtime = hook.previous_runtime
        /\ hook'.candidate = hook.candidate
    BY <1>0, <1>10, GoOnMoves DEF SwapIn
  <2>2. /\ venv' = hook.candidate /\ runtime' = runtime /\ previous' = NoRuntime
        /\ hook.previous_runtime # hook.candidate
        /\ runtime[hook.previous_runtime] = "legacy"
    BY <1>a, <1>10 DEF SwapIn, HookFits
  <2> QED BY <2>1, <2>2
<1>11. CASE Activate
  <2>1. /\ hook'.step = "activated" /\ hook'.previous_runtime = hook.previous_runtime
        /\ hook'.candidate = hook.candidate /\ UNCHANGED <<runtime, venv, previous>>
        /\ InStep({"switched"}) /\ previous = NoRuntime
    BY <1>0, <1>11, GoOnMoves DEF Activate, HookFits, disk
  <2> QED BY <1>a, <2>1
<1>12. CASE LinkPrevious
  <2>1. /\ hook'.step = "links" /\ UNCHANGED <<runtime, venv>>
        /\ previous = NoRuntime /\ InStep({"activated"})
        /\ hook'.previous_runtime = hook.previous_runtime
        /\ hook.previous_runtime \in Runtimes => runtime[hook.previous_runtime] # "none"
    BY <1>0, <1>a, <1>12, GoOnMoves DEF LinkPrevious, HookFits
  <2>2. previous' = hook.previous_runtime
    BY <1>0, <1>12, <2>1 DEF LinkPrevious, Hook
  <2>3. previous' # NoRuntime => hook.previous_runtime \in Runtimes
    BY <1>0, <2>2 DEF Hook
  <2>4. previous' # NoRuntime => /\ previous' # venv'
                                 /\ runtime'[previous'] \in {"valid", "legacy"}
    BY <1>a, <2>1, <2>2, <2>3
  <2> QED BY <2>1, <2>2, <2>4
<1>13. CASE FinishFails
  <2>1. /\ hook' = NoHook /\ UNCHANGED <<venv, previous, cutOff>>
        /\ \A r \in Runtimes : runtime'[r] = runtime[r]
        /\ hook.step # "unlink"
        /\ hook.step = "activated" => previous = NoRuntime
    BY <1>0, <1>13, EndsMoves DEF FinishFails, HookFits
  <2> QED BY <1>0, <1>a, <2>1 DEF DiskType
<1>14. ~Signalled
  BY <1>a DEF Signalled
<1>15. CASE PowerGoes
  BY <1>0, <1>a, <1>15 DEF PowerGoes, disk
<1> QED BY <1>1, <1>2, <1>3, <1>4, <1>5, <1>6, <1>7, <1>8, <1>9, <1>10, <1>11, <1>12, <1>13,
           <1>14, <1>15 DEF Next, postupgrade, postinstall

---------------------------------------------------------------------------
(* The bridges and the runtimes they run from.                             *)

LEMMA OverlapStays ==
  ASSUME CtlTypeOK, [Next]_vars, ~overlap'
  PROVE  ~overlap
<1>1. ASSUME NEW c \in Callers, NEW command \in Commands, Invoke(c, command)
      PROVE  ~overlap
  BY <1>1 DEF Invoke
<1>2. ASSUME NEW c \in Callers, CtlScript(c) \/ \E ok \in BOOLEAN : Preflight(c, ok)
      PROVE  ~overlap
  BY <1>2, ScriptMoves
<1>3. CASE Processes
  BY <1>3, ProcessMoves
<1>4. CASE PowerCut
  BY <1>4 DEF PowerCut
<1>5. CASE UNCHANGED ctlVars
  BY <1>5 DEF ctlVars
<1> QED BY <1>1, <1>2, <1>3, <1>4, <1>5, CtlFollows DEF CtlStep

LEMMA ScriptTurns ==
  ASSUME TypeOK, CtlInv, NEW c \in Callers, ScriptStep(c)
  PROVE  /\ CtlScript(c) \/ \E ok \in BOOLEAN : Preflight(c, ok)
         /\ ~Usable => ctl'[c].pc # "spawn"
         /\ ctl[c].pc # "idle" /\ \A d \in Callers \ {c} : ctl'[d] = ctl[d]
         /\ NoBridge /\ (ctl[c].pc # "spawn" \/ ~Runs(c, {"start"})) => NoBridge'
         /\ ~Runs(c, {"restart"}) => ctl'[c].cmd = ctl[c].cmd
<1>1. CtlTypeOK /\ ScriptsAreInOrder /\ Usable \in BOOLEAN
  BY DEF CtlInv, Usable
<1>2. CtlScript(c) \/ \E ok \in BOOLEAN : Preflight(c, ok)
  BY <1>1 DEF ScriptStep
<1>3. ~Usable => ctl'[c].pc # "spawn"
  <2>1. ~Usable => CtlScript(c) \/ Preflight(c, FALSE)
    <3>1. ~Usable => Usable = FALSE
      BY <1>1
    <3>2. PICK ok \in {FALSE, Usable} : CtlScript(c) \/ Preflight(c, ok)
      BY DEF ScriptStep
    <3> QED BY <3>1, <3>2, Zenon
  <2> QED BY <1>1, <2>1, WhoMaySpawn
<1>4. NoBridge /\ (ctl[c].pc # "spawn" \/ ~Runs(c, {"start"})) => NoBridge'
  BY <1>1, <1>2, WhoSpawns DEF NoBridge
<1> QED BY <1>1, <1>2, <1>3, <1>4, ScriptMoves, CommandStays

LEMMA ProcessesSpawnNone ==
  ASSUME TypeOK, ProcessStep
  PROVE  ctl' = ctl /\ (NoBridge => NoBridge')
BY ProcessMoves DEF TypeOK, ProcessStep, NoBridge

LEMMA RunsFitAtFirst == Init => RunsFit
<1> SUFFICES ASSUME Init PROVE RunsFit
    OBVIOUS
<1>1. venv = NoRuntime => NoBridge
  BY CtlAssumption DEF Init, CtlInit, NoBridge
<1>2. \A c \in Callers : ~At(c, {"spawn"})
  BY DEF Init, CtlInit, At
<1> QED BY <1>1, <1>2 DEF RunsFit

(* The hook between its calls of the control script.                       *)
HookAlone ==
  \/ BeginInstall \/ Stopped \/ PreinstallFails \/ StoppedBeforeInstall \/ Restarted
  \/ postinstall \/ Signalled

LEMMA AloneOrCalls ==
  ASSUME [Next]_vars
  PROVE  \/ HookAlone /\ UNCHANGED ctlVars
         \/ /\ \/ BeginUpgrade \/ StopBeforeUpgrade \/ DecideRestart \/ StopBeforeInstall
               \/ StartAfterUpgrade
            /\ UNCHANGED disk /\ UNCHANGED runs
            /\ UNCHANGED ctlVars \/ \E command \in Commands : Invoke(Upgrader, command)
         \/ \E c \in Callers \ {Upgrader}, command \in Commands : PageCalls(c, command)
         \/ ProcessStep \/ PowerGoes \/ \E c \in Callers : ScriptStep(c)
         \/ UNCHANGED vars
<1>1. CASE HookAlone
  BY <1>1 DEF HookAlone, BeginInstall, Stopped, PreinstallFails, StoppedBeforeInstall, Restarted,
       Signalled, postinstall, CheckFails, cleanup_previous_runtime, UnlinkPrevious,
       MakeCandidate, Build, BuildFails, SwitchLink, MoveLegacy, SwapIn, RollBack,
       Activate, LinkPrevious, Finish, FinishFails
<1>2. CASE BeginUpgrade \/ StopBeforeUpgrade \/ DecideRestart \/ StopBeforeInstall
           \/ StartAfterUpgrade
  BY <1>2, CommandsAre DEF BeginUpgrade, StopBeforeUpgrade, DecideRestart, StopBeforeInstall,
       StartAfterUpgrade, Calls
<1> QED BY <1>1, <1>2 DEF HookAlone, Next, preupgrade, postupgrade

LEMMA RunsFitStays ==
  ASSUME TypeOK, CtlInv, HookFits, RunsFit, [Next]_vars
  PROVE  RunsFit'
<1>0. /\ hook \in Hook /\ DiskType /\ CtlTypeOK /\ ctl \in [Callers -> Script]
      /\ NoHook.step = "none" /\ Upgrader \in Callers
      /\ NoRuntime \notin Runtimes /\ Legacy \notin Runtimes /\ NoRuntime # Legacy
  BY UpgradeAssumption DEF TypeOK, CtlTypeOK, Hook, DiskType, NoHook, Script
<1> USE DEF Steps, InStep
<1>1. CASE HookAlone /\ UNCHANGED ctlVars
  <2>0. UNCHANGED <<proc, ctl>>
    BY <1>1 DEF ctlVars
  <2>1. CASE SwitchLink \/ SwapIn
    <3>1. venv' # NoRuntime
      BY <1>0, <2>1 DEF SwitchLink, SwapIn, HookFits
    <3> QED BY <3>1 DEF RunsFit
  <2>2. CASE MoveLegacy
    <3>1. PICK r \in Runtimes :
            hook' = [hook EXCEPT !.previous_runtime = r, !.step = "swap"]
      BY <2>2 DEF MoveLegacy
    <3>2. hook'.step = "swap"
      BY <1>0, <3>1 DEF Hook
    <3> QED BY <3>2 DEF RunsFit
  <2>3. CASE RollBack
    <3>1. venv' # NoRuntime
      BY <1>0, <2>3 DEF RollBack
    <3> QED BY <3>1 DEF RunsFit
  <2>4. CASE BeginInstall \/ Stopped \/ PreinstallFails \/ StoppedBeforeInstall \/ Restarted
             \/ Finish \/ Signalled
    <3>1. /\ venv' = venv
          /\ InStep({"swap"}) => hook' = hook
      BY <2>4 DEF BeginInstall, Stopped, PreinstallFails, StoppedBeforeInstall, Restarted,
                  Finish, Signalled, disk
    <3> QED BY <2>0, <3>1 DEF RunsFit, NoBridge, At
  <2>5. CASE CheckFails \/ cleanup_previous_runtime \/ UnlinkPrevious \/ MakeCandidate
             \/ Build \/ BuildFails \/ Activate \/ LinkPrevious \/ FinishFails
    <3>1. venv' = venv /\ ~InStep({"swap"})
      BY <2>5 DEF CheckFails, cleanup_previous_runtime, UnlinkPrevious, MakeCandidate,
                  Build, BuildFails, Activate, LinkPrevious, FinishFails, disk
    <3> QED BY <2>0, <3>1 DEF RunsFit, NoBridge, At
  <2> QED BY <1>1, <2>1, <2>2, <2>3, <2>4, <2>5 DEF HookAlone, postinstall
<1>2. CASE /\ \/ BeginUpgrade \/ StopBeforeUpgrade \/ DecideRestart \/ StopBeforeInstall
              \/ StartAfterUpgrade
           /\ UNCHANGED disk /\ UNCHANGED runs
           /\ UNCHANGED ctlVars \/ \E command \in Commands : Invoke(Upgrader, command)
  <2>1. ~InStep({"swap"}) /\ venv' = venv
    BY <1>2 DEF BeginUpgrade, StopBeforeUpgrade, DecideRestart, StopBeforeInstall,
                StartAfterUpgrade, disk
  <2>2. proc' = proc /\ \A c \in Callers : At(c, {"spawn"})' => At(c, {"spawn"})
    BY <1>0, <1>2, InvokeMoves DEF Invoke, ctlVars, At
  <2> QED BY <2>1, <2>2 DEF RunsFit, NoBridge
<1>3. ASSUME NEW c \in Callers \ {Upgrader}, NEW command \in Commands, PageCalls(c, command)
      PROVE  RunsFit'
  <2>1. UNCHANGED <<venv, hook, proc>>
    BY <1>3 DEF PageCalls, Calls, Invoke, disk
  <2>2. \A d \in Callers : At(d, {"spawn"})' => At(d, {"spawn"})
    BY <1>0, <1>3, InvokeMoves DEF PageCalls, Calls, At
  <2> QED BY <2>1, <2>2 DEF RunsFit, NoBridge
<1>4. CASE ProcessStep
  <2>1. UNCHANGED <<venv, hook>>
    BY <1>4 DEF ProcessStep, disk
  <2> QED BY <1>4, <2>1, ProcessesSpawnNone DEF RunsFit, At
<1>5. CASE PowerGoes
  <2>1. /\ \A p \in Pids : proc'[p] = "none"
        /\ \A c \in Callers : ctl'[c].pc = "idle"
    BY <1>0, <1>5, CutMoves DEF PowerGoes, PowerCut
  <2> QED BY <2>1 DEF RunsFit, NoBridge, At
<1>6. ASSUME NEW c \in Callers, ScriptStep(c) PROVE RunsFit'
  <2>1. UNCHANGED <<venv, hook>>
    BY <1>6 DEF ScriptStep, disk
  <2>2. ASSUME venv' = NoRuntime, ~InStep({"swap"})'
        PROVE  NoBridge' /\ \A d \in Callers : ~At(d, {"spawn"})'
    <3>1. NoBridge /\ \A d \in Callers : ~At(d, {"spawn"})
      BY <2>1, <2>2 DEF RunsFit
    <3>2. ~Usable
      BY <1>0, <2>1, <2>2 DEF Usable
    <3> QED BY <1>6, <3>1, <3>2, ScriptTurns DEF At
  <2> QED BY <2>2 DEF RunsFit
<1>7. CASE UNCHANGED vars
  BY <1>7 DEF vars, upgradeVars, ctlVars, disk, RunsFit, NoBridge, At
<1> QED BY <1>1, <1>2, <1>3, <1>4, <1>5, <1>6, <1>7, AloneOrCalls

LEMMA OldBridgesAtFirst == Init => OldBridgesAreStopped
<1> SUFFICES ASSUME Init PROVE OldBridgesAreStopped
    OBVIOUS
<1>1. hook.step = "none"
  BY DEF Init, NoHook
<1>2. \A p \in Pids : runs[p] \notin Runtimes
  BY UpgradeAssumption DEF Init
<1> QED BY <1>1, <1>2 DEF OldBridgesAreStopped, InStep

(* A process gets to be a bridge, or one told to end, by being started     *)
(* from venv, by running from it when it is told to, or was one before.    *)
LEMMA FollowsOn ==
  ASSUME TypeOK, CtlInv, ProcessStep \/ \E c \in Callers : ScriptStep(c)
  PROVE  /\ \A p \in Pids : proc'[p] \in Running =>
              runs'[p] = venv \/ (proc[p] \in Running /\ runs'[p] = runs[p])
         /\ \A p \in leaving' :
              runs'[p] = venv \/ (p \in leaving /\ runs'[p] = runs[p])
<1>0. DiskType /\ CtlTypeOK /\ FollowRuns
  BY DEF TypeOK, DiskType, ProcessStep, ScriptStep
<1>1. ASSUME NEW p \in Pids, proc'[p] \in Running
      PROVE  proc[p] \in Running \cup {"none"}
  <2>1. CASE ProcessStep
    BY <1>0, <1>1, <2>1, ProcessMoves DEF ProcessStep, Running
  <2>2. ASSUME NEW c \in Callers, ScriptStep(c)
        PROVE  proc[p] \in Running \cup {"none"}
    BY <1>0, <1>1, <2>2, ScriptTurns, WhoSpawns DEF Running, CtlInv
  <2> QED BY <2>1, <2>2
<1>2. ASSUME NEW p \in leaving'
      PROVE  runs'[p] = venv \/ (p \in leaving /\ runs'[p] = runs[p])
  BY <1>0, <1>2 DEF FollowRuns
<1> QED BY <1>0, <1>1, <1>2, RunsFollow DEF DiskType

HookEnds == {"none", "switched", "activated", "links", "restart", "starting"}
BeforeTheSwitch == {"platform", "asked again", "stopping again", "install", "unlink",
                    "allocate", "build", "validated"}

(* What the hook does on its own.                                          *)
LEMMA OldBridgesStayByHook ==
  ASSUME TypeOK, CtlInv, HookFits, LinkIsSafe, RunsFit, OldBridgesAreStopped, ~overlap,
         HookAlone, UNCHANGED ctlVars, signals' = 0 => signals = 0
  PROVE  OldBridgesAreStopped'
<1>0. /\ hook \in Hook /\ DiskType /\ CtlTypeOK /\ signals \in Nat
      /\ NoHook.step = "none" /\ NoHook.candidate = NoRuntime /\ Upgrader \in Callers
      /\ NoRuntime \notin Runtimes /\ Legacy \notin Runtimes /\ NoRuntime # Legacy
  BY UpgradeAssumption DEF TypeOK, CtlInv, Hook, DiskType, NoHook
<1> DEFINE Kept(run, dir) ==
             signals = 0 =>
               \A p \in Pids : Attached(p) /\ run[p] \in Runtimes => dir[run[p]] # "none"
<1>e. \A p \in Pids : Attached(p)' => Attached(p)
  <2>1. leaving' \subseteq leaving
    BY DEF HookAlone, BeginInstall, Stopped, PreinstallFails, StoppedBeforeInstall, Restarted,
       Signalled, postinstall, CheckFails, cleanup_previous_runtime, UnlinkPrevious,
       MakeCandidate, Build, BuildFails, SwitchLink, MoveLegacy, SwapIn, RollBack,
       Activate, LinkPrevious, Finish, FinishFails, history
  <2> QED BY <2>1 DEF Attached, ctlVars
<1>a. Kept(runs, runtime)
  BY DEF OldBridgesAreStopped
<1>b. ASSUME hook'.step \in HookEnds, Kept(runs', runtime') PROVE OldBridgesAreStopped'
  BY <1>b, <1>e DEF OldBridgesAreStopped, HookEnds, InStep
<1>c. ASSUME hook'.step \in HookEnds \cup BeforeTheSwitch, FromVenv, venv' = venv, runs' = runs,
             Kept(runs', runtime')
      PROVE  OldBridgesAreStopped'
  <2>1. FromVenv'
    BY <1>c, <1>e DEF FromVenv
  <2> QED BY <1>c, <1>e, <2>1 DEF OldBridgesAreStopped, HookEnds, BeforeTheSwitch, InStep
<1>d. InStep(BeforeTheSwitch) => FromVenv
  BY DEF OldBridgesAreStopped, BeforeTheSwitch
<1> USE DEF HookEnds, BeforeTheSwitch, Steps
<1>1. CASE BeginInstall
  <2>1. hook'.step = "install" /\ UNCHANGED <<runs, runtime, venv>>
    BY <1>0, <1>1, GoOnMoves DEF BeginInstall, disk
  <2>2. NoBridge' /\ leaving' = {}
    BY <1>1 DEF BeginInstall, RunsFit, InStep, NoBridge, ctlVars
  <2>3. FromVenv'
    BY <2>2 DEF FromVenv, Attached, NoBridge, Running
  <2> QED BY <1>a, <1>e, <2>1, <2>3 DEF OldBridgesAreStopped, InStep
<1>2. CASE Stopped
  <2>1. hook'.step \in {"none", "platform"} /\ UNCHANGED <<runs, runtime, venv>>
    BY <1>0, <1>2, GoOnMoves DEF Stopped, disk
  <2>2. FromVenv
    BY <1>2 DEF Stopped, OldBridgesAreStopped
  <2> QED BY <1>a, <1>c, <2>1, <2>2
<1>3. CASE PreinstallFails \/ Restarted \/ Finish
  <2>1. hook'.step \in {"none", "restart"} /\ UNCHANGED <<runs, runtime>>
    BY <1>0, <1>3, GoOnMoves DEF PreinstallFails, Restarted, Finish, disk
  <2> QED BY <1>a, <1>b, <2>1
<1>4. CASE StoppedBeforeInstall
  <2>1. /\ hook'.step \in {"none", "install"} /\ UNCHANGED <<runs, runtime, venv>>
        /\ InStep(BeforeTheSwitch)
    BY <1>0, <1>4, GoOnMoves DEF StoppedBeforeInstall, disk, InStep
  <2> QED BY <1>a, <1>c, <1>d, <2>1
<1>5. CASE Signalled
  <2>1. signals' # 0 /\ ctl' = ctl /\ UNCHANGED <<venv, hook, runs, overlap>>
    BY <1>0, <1>5 DEF Signalled, ctlVars
  <2>2. InStep({"build", "validated", "swap", "switched"})
    BY <1>5 DEF Signalled
  <2> QED BY <1>e, <2>1, <2>2 DEF OldBridgesAreStopped, FromVenv, InStep
<1>6. CASE CheckFails \/ FinishFails
  <2>1. /\ hook'.step = "none" /\ runs' = runs
        /\ \A r \in Runtimes : runtime'[r] = runtime[r]
    BY <1>0, <1>6, EndsMoves DEF CheckFails, FinishFails, HookFits, InStep
  <2> QED BY <1>a, <1>b, <2>1
<1>7. CASE cleanup_previous_runtime \/ UnlinkPrevious
  <2>1. /\ hook'.step \in {"unlink", "allocate"} /\ runs' = runs /\ venv' = venv
        /\ InStep(BeforeTheSwitch)
        /\ venv \in Runtimes => runtime'[venv] = runtime[venv]
    BY <1>0, <1>7, GoOnMoves DEF cleanup_previous_runtime, UnlinkPrevious, InStep
  <2>2. FromVenv
    BY <1>d, <2>1
  <2>3. Kept(runs', runtime')
    BY <1>0, <1>a, <2>1, <2>2 DEF FromVenv
  <2> QED BY <1>c, <2>1, <2>2, <2>3
<1>8. CASE MakeCandidate
  <2>1. PICK r \in Runtimes : /\ runtime' = [runtime EXCEPT ![r] = "partial"]
                              /\ hook' = [hook EXCEPT !.candidate = r, !.step = "build"]
    BY <1>8 DEF MakeCandidate
  <2>2. hook'.step = "build"
    BY <1>0, <2>1 DEF Hook
  <2>3. runs' = runs /\ venv' = venv /\ InStep(BeforeTheSwitch)
    BY <1>8 DEF MakeCandidate, InStep
  <2>4. Kept(runs', runtime')
    BY <1>0, <1>a, <2>1, <2>3 DEF DiskType
  <2> QED BY <1>c, <1>d, <2>2, <2>3, <2>4
<1>9. CASE Build
  <2>1. /\ hook'.step = "validated" /\ runs' = runs /\ venv' = venv /\ InStep(BeforeTheSwitch)
        /\ runtime' = [runtime EXCEPT ![hook.candidate] = "valid"]
    BY <1>0, <1>9, GoOnMoves DEF Build, InStep
  <2>2. Kept(runs', runtime')
    BY <1>0, <1>a, <2>1 DEF DiskType
  <2> QED BY <1>c, <1>d, <2>1, <2>2
<1>10. CASE BuildFails
  <2>1. /\ hook'.step = "none" /\ runs' = runs /\ InStep(BeforeTheSwitch)
        /\ signals = 0 => hook.candidate # venv
        /\ \A r \in Runtimes : r # hook.candidate => runtime'[r] = runtime[r]
    BY <1>0, <1>10, EndsMoves DEF BuildFails, InStep, LinkIsSafe
  <2>2. Kept(runs', runtime')
    BY <1>0, <1>a, <1>d, <2>1 DEF FromVenv
  <2> QED BY <1>b, <2>1, <2>2
<1>11. CASE SwitchLink
  <2>1. hook'.step = "switched" /\ UNCHANGED <<runs, runtime>>
    BY <1>0, <1>11 DEF SwitchLink, Hook
  <2> QED BY <1>a, <1>b, <2>1
<1>12. CASE MoveLegacy
  <2>1. PICK r \in Runtimes :
          /\ runtime' = [runtime EXCEPT ![r] = "legacy"]
          /\ hook' = [hook EXCEPT !.previous_runtime = r, !.step = "swap"]
          /\ runs' = [p \in Pids |-> IF runs[p] = Legacy THEN r ELSE runs[p]]
    BY <1>12 DEF MoveLegacy
  <2>2. hook'.step = "swap" /\ hook'.previous_runtime = r
    BY <1>0, <2>1 DEF Hook
  <2>3. FromVenv /\ venv = Legacy
    BY <1>12, <1>d DEF MoveLegacy, InStep
  <2>4. \A p \in Pids : Attached(p)' => runs'[p] \in {NoRuntime, r}
    BY <1>e, <2>1, <2>3 DEF FromVenv
  <2>5. \A p \in Pids :
          Attached(p)' /\ runs'[p] \in Runtimes => runtime'[runs'[p]] # "none"
    BY <1>0, <2>1, <2>4 DEF DiskType
  <2> QED BY <2>2, <2>4, <2>5 DEF OldBridgesAreStopped, InStep
<1>13. CASE SwapIn \/ Activate \/ LinkPrevious
  <2>1. hook'.step \in HookEnds /\ UNCHANGED <<runs, runtime>>
    BY <1>0, <1>13, GoOnMoves DEF SwapIn, Activate, LinkPrevious, disk
  <2> QED BY <1>a, <1>b, <2>1
<1>14. CASE RollBack
  <2>1. \A p \in Pids : Attached(p) => runs[p] \in {NoRuntime, hook.previous_runtime}
    BY <1>14 DEF RollBack, OldBridgesAreStopped, InStep
  <2>2. \A p \in Pids : Attached(p) => runs'[p] \in {NoRuntime, Legacy}
    BY <1>14, <2>1 DEF RollBack
  <2> QED BY <1>0, <1>14, <1>b, <2>2 DEF RollBack
<1> QED BY <1>1, <1>2, <1>3, <1>4, <1>5, <1>6, <1>7, <1>8, <1>9, <1>10, <1>11, <1>12, <1>13,
           <1>14 DEF HookAlone, postinstall

LEMMA OldBridgesStay ==
  ASSUME TypeOK, CtlInv, HookFits, LinkIsSafe, RunsFit, RunsFit', OldBridgesAreStopped,
         [Next]_vars
  PROVE  OldBridgesAreStopped'
<1> SUFFICES ASSUME ~overlap' PROVE OldBridgesAreStopped'
    BY DEF OldBridgesAreStopped
<1>0. /\ hook \in Hook /\ DiskType /\ CtlTypeOK /\ ctl \in [Callers -> Script]
      /\ NoHook.step = "none" /\ Upgrader \in Callers /\ ~overlap
      /\ NoRuntime \notin Runtimes /\ Legacy \notin Runtimes /\ NoRuntime # Legacy
  BY UpgradeAssumption, OverlapStays DEF TypeOK, CtlTypeOK, Hook, DiskType, NoHook, Script
<1>1. CASE HookAlone /\ UNCHANGED ctlVars
  BY <1>0, <1>1, OldBridgesStayByHook, CounterTypesStay
<1>2. CASE /\ \/ BeginUpgrade \/ StopBeforeUpgrade \/ DecideRestart \/ StopBeforeInstall
              \/ StartAfterUpgrade
           /\ UNCHANGED disk /\ UNCHANGED runs
           /\ UNCHANGED ctlVars \/ \E command \in Commands : Invoke(Upgrader, command)
  <2>a. /\ leaving' = {} \/ (~BeginUpgrade /\ leaving' = leaving)
        /\ \A p \in Pids : Attached(p)' => Attached(p)
    <3>1. leaving' = {} \/ (~BeginUpgrade /\ leaving' = leaving)
      BY <1>2 DEF BeginUpgrade, StopBeforeUpgrade, DecideRestart, StopBeforeInstall,
                  StartAfterUpgrade, history
    <3>2. proc' = proc
      BY <1>2 DEF Invoke, ctlVars
    <3> QED BY <3>1, <3>2 DEF Attached
  <2>0. /\ UNCHANGED <<runs, runtime, venv>> /\ (FromVenv => FromVenv')
        /\ LeaveVenv => LeaveVenv'
    BY <1>2, <2>a DEF disk, FromVenv, LeaveVenv
  <2>1. signals' = signals
    BY <1>2 DEF BeginUpgrade, StopBeforeUpgrade, DecideRestart, StopBeforeInstall,
                StartAfterUpgrade, counters
  <2>2. CASE BeginUpgrade
    <3>1. hook'.step = "asked" /\ Invoke(Upgrader, "is-running")
      BY <1>0, <2>2, GoOnMoves DEF BeginUpgrade, Steps, Calls
    <3>2. ~CalledBack'
      BY <1>0, <3>1, InvokeMoves, CommandsAre DEF CalledBack, At
    <3>3. LeaveVenv'
      BY <2>2, <2>a DEF LeaveVenv
    <3> QED BY <1>0, <2>a, <2>0, <2>1, <3>1, <3>2, <3>3 DEF OldBridgesAreStopped, InStep
  <2>3. CASE StopBeforeUpgrade
    <3>1. CASE ctl[Upgrader].ok
      <4>1. hook'.step = "stopping" /\ Invoke(Upgrader, "stop")
        BY <1>0, <2>3, <3>1, GoOnMoves DEF StopBeforeUpgrade, Steps, Calls
      <4>2. ~CalledBack'
        BY <1>0, <4>1, InvokeMoves, CommandsAre DEF CalledBack, At
      <4>3. LeaveVenv'
        BY <1>0, <2>0, <2>3 DEF StopBeforeUpgrade, OldBridgesAreStopped, InStep
      <4> QED BY <1>0, <2>a, <2>0, <2>1, <4>1, <4>2, <4>3 DEF OldBridgesAreStopped, InStep
    <3>2. CASE ~ctl[Upgrader].ok
      <4>1. hook'.step = "platform"
        BY <1>0, <2>3, <3>2, GoOnMoves DEF StopBeforeUpgrade, Steps
      <4>2. FromVenv
        BY <1>0, <2>3, <3>2 DEF StopBeforeUpgrade, OldBridgesAreStopped
      <4> QED BY <1>0, <2>a, <2>0, <2>1, <4>1, <4>2 DEF OldBridgesAreStopped, InStep
    <3> QED BY <3>1, <3>2
  <2>4. CASE DecideRestart \/ StopBeforeInstall
    <3>1. hook'.step \in {"asked again", "stopping again", "install"}
      <4>1. CASE \/ hook' = [hook EXCEPT !.restart = TRUE, !.step = "install"]
                 \/ hook' = [hook EXCEPT !.restart = TRUE, !.step = "stopping again"]
        BY <1>0, <4>1 DEF Hook
      <4> QED BY <1>0, <2>4, <4>1, GoOnMoves DEF DecideRestart, StopBeforeInstall, Steps
    <3>2. FromVenv
      BY <1>0, <2>4 DEF DecideRestart, StopBeforeInstall, OldBridgesAreStopped, InStep
    <3> QED BY <1>0, <2>a, <2>0, <2>1, <3>1, <3>2 DEF OldBridgesAreStopped, InStep
  <2>5. CASE StartAfterUpgrade
    <3>1. hook'.step = "starting"
      BY <1>0, <2>5, GoOnMoves DEF StartAfterUpgrade, Steps
    <3> QED BY <1>0, <2>a, <2>0, <2>1, <3>1 DEF OldBridgesAreStopped, InStep
  <2> QED BY <1>2, <2>2, <2>3, <2>4, <2>5
<1>3. ASSUME NEW c \in Callers \ {Upgrader}, NEW command \in Commands, PageCalls(c, command)
      PROVE  OldBridgesAreStopped'
  <2>1. /\ UNCHANGED <<venv, runtime, runs, hook, signals, proc, leaving>>
        /\ ctl'[Upgrader] = ctl[Upgrader]
    BY <1>0, <1>3, InvokeMoves DEF PageCalls, Calls, Invoke, disk
  <2> QED BY <1>0, <2>1 DEF OldBridgesAreStopped, InStep, FromVenv, LeaveVenv, Attached,
                            CalledBack, At
<1>4. ASSUME UNCHANGED <<disk, hook, signals>>,
             ProcessStep \/ \E c \in Callers : ScriptStep(c),
             ctl'[Upgrader] # ctl[Upgrader] => ~CalledBack,
             CalledBack' /\ ctl'[Upgrader] # ctl[Upgrader] =>
               \/ NoBridge'
               \/ ~Runs(Upgrader, {"stop"}) /\ (Runs(Upgrader, {"is-running"}) => ctl'[Upgrader].ok)
      PROVE  OldBridgesAreStopped'
  <2>a. /\ \A p \in Pids : Attached(p)' =>
             runs'[p] = venv \/ (Attached(p) /\ runs'[p] = runs[p])
        /\ LeaveVenv => LeaveVenv'
    BY <1>4, FollowsOn DEF disk, Attached, LeaveVenv
  <2>1. FromVenv => FromVenv'
    BY <1>4, <2>a DEF disk, FromVenv
  <2>b. InStep({"asked", "stopping"})' => LeaveVenv'
    BY <1>0, <1>4, <2>a DEF OldBridgesAreStopped, InStep
  <2>2. NoBridge' /\ InStep({"asked", "stopping"})' => FromVenv'
    BY <2>b DEF NoBridge, Running, FromVenv, LeaveVenv, Attached
  <2>3. InStep({"asked"})' /\ CalledBack' /\ ~ctl'[Upgrader].ok => FromVenv'
    <3>1. InStep({"asked"})' => InStep({"asked"}) /\ Runs(Upgrader, {"is-running"})
      BY <1>4 DEF HookFits, InStep
    <3>2. CASE ctl'[Upgrader] = ctl[Upgrader]
      BY <1>0, <2>1, <3>1, <3>2 DEF OldBridgesAreStopped, CalledBack, At
    <3> QED BY <1>4, <2>2, <3>1, <3>2 DEF InStep
  <2>4. InStep({"stopping"})' /\ CalledBack' => FromVenv'
    <3>1. InStep({"stopping"})' => InStep({"stopping"}) /\ Runs(Upgrader, {"stop"})
      BY <1>4 DEF HookFits, InStep
    <3>2. CASE ctl'[Upgrader] = ctl[Upgrader]
      BY <1>0, <2>1, <3>1, <3>2 DEF OldBridgesAreStopped, CalledBack, At
    <3> QED BY <1>4, <2>2, <3>1, <3>2 DEF InStep
  <2>5. InStep(BeforeTheSwitch)' => FromVenv'
    BY <1>0, <1>4, <2>1 DEF OldBridgesAreStopped, InStep, BeforeTheSwitch
  <2>6. InStep({"swap"})' =>
          \A p \in Pids : Attached(p)' => runs'[p] \in {NoRuntime, hook'.previous_runtime}
    BY <1>0, <1>4, <2>a DEF OldBridgesAreStopped, InStep, HookFits
  <2>7. signals' = 0 =>
          \A p \in Pids : Attached(p)' /\ runs'[p] \in Runtimes => runtime'[runs'[p]] # "none"
    BY <1>0, <1>4, <2>a DEF OldBridgesAreStopped, LinkIsSafe, disk
  <2> QED BY <2>b, <2>3, <2>4, <2>5, <2>6, <2>7 DEF OldBridgesAreStopped, BeforeTheSwitch
<1>5. CASE ProcessStep
  <2>1. UNCHANGED <<disk, hook, signals, ctl>>
    BY <1>5, ProcessesSpawnNone DEF ProcessStep, counters
  <2> QED BY <1>4, <1>5, <2>1
<1>6. ASSUME NEW c \in Callers, ScriptStep(c) PROVE OldBridgesAreStopped'
  <2>1. UNCHANGED <<disk, hook, signals>>
    BY <1>6 DEF ScriptStep, counters
  <2>2. ctl'[Upgrader] # ctl[Upgrader] => c = Upgrader /\ ~CalledBack
    BY <1>0, <1>6, ScriptTurns DEF CalledBack, At
  <2>3. ASSUME CalledBack', ctl'[Upgrader] # ctl[Upgrader],
               Runs(Upgrader, {"stop"}) \/ (Runs(Upgrader, {"is-running"}) /\ ~ctl'[Upgrader].ok)
        PROVE  NoBridge'
    BY <1>0, <1>6, <2>2, <2>3, ScriptTurns, NoneWhenStopped DEF CalledBack, At
  <2> QED BY <1>4, <1>6, <2>1, <2>2, <2>3
<1>7. CASE PowerGoes
  <2>1. hook'.step = "none" /\ \A p \in Pids : runs'[p] = NoRuntime
    BY <1>0, <1>7 DEF PowerGoes
  <2> QED BY <1>0, <2>1 DEF OldBridgesAreStopped, InStep
<1>8. CASE UNCHANGED vars
  BY <1>0, <1>8 DEF vars, upgradeVars, ctlVars, disk, counters, history, OldBridgesAreStopped,
               FromVenv, LeaveVenv, Attached, InStep, CalledBack, At
<1> QED BY <1>1, <1>2, <1>3, <1>5, <1>6, <1>7, <1>8, AloneOrCalls

LEMMA NoneAtFirst == Init => NoneUntilStarted
<1> SUFFICES ASSUME Init PROVE NoneUntilStarted
    OBVIOUS
<1>1. hook.step = "none" /\ \A c \in Callers : At(c, {"idle"})
  BY DEF Init, NoHook, CtlInit, At
<1> QED BY <1>1 DEF NoneUntilStarted, InStep

(* The page has no start or restart under way.                             *)
PageStartsNone ==
  \A c \in Callers \ {Upgrader} : ~At(c, {"idle"}) => ~Runs(c, {"start", "restart"})

NoneDuring == {"platform", "asked again", "stopping again", "install", "unlink", "allocate",
               "build", "validated", "swap", "switched", "activated", "links", "restart"}

LEMMA NoneStays ==
  ASSUME TypeOK, CtlInv, HookFits, RunsFit, NoneUntilStarted, [Next]_vars
  PROVE  NoneUntilStarted'
<1> SUFFICES ASSUME ~overlap', ~meddled' PROVE NoneUntilStarted'
    BY DEF NoneUntilStarted
<1>0. /\ hook \in Hook /\ DiskType /\ CtlTypeOK /\ ctl \in [Callers -> Script]
      /\ NoHook.step = "none" /\ Upgrader \in Callers /\ ~overlap
  BY UpgradeAssumption, OverlapStays DEF TypeOK, CtlTypeOK, Hook, DiskType, NoHook, Script
<1>a. ASSUME ~meddled
      PROVE  /\ PageStartsNone
             /\ InStep({"asked"}) /\ CalledBack /\ ~ctl[Upgrader].ok => NoBridge
             /\ InStep({"stopping"}) /\ CalledBack => NoBridge
             /\ InStep(NoneDuring) => NoBridge
             /\ InStep({"starting"}) => \A p \in Pids : proc[p] \in Running => runs[p] = venv
  BY <1>0, <1>a DEF NoneUntilStarted, PageStartsNone, NoneDuring, InStep
<1>b. ASSUME PageStartsNone',
             InStep({"asked"})' /\ CalledBack' /\ ~ctl'[Upgrader].ok => NoBridge',
             InStep({"stopping"})' /\ CalledBack' => NoBridge',
             InStep(NoneDuring)' => NoBridge',
             InStep({"starting"})' => \A p \in Pids : proc'[p] \in Running => runs'[p] = venv'
      PROVE  NoneUntilStarted'
  <2>1. hook'.step \in Steps
    BY <1>0, HookTypesStay DEF Hook
  <2> QED BY <1>b, <2>1 DEF NoneUntilStarted, PageStartsNone, NoneDuring, InStep, Steps
<1> USE DEF NoneDuring, Steps, history
<1>1. CASE HookAlone /\ UNCHANGED ctlVars
  <2>0. ~meddled /\ proc' = proc /\ ctl' = ctl /\ (NoBridge => NoBridge')
    <3>1. meddled' = meddled
      BY <1>1 DEF HookAlone, BeginInstall, Stopped, PreinstallFails, StoppedBeforeInstall,
         Restarted, Signalled, postinstall, CheckFails, cleanup_previous_runtime,
         UnlinkPrevious, MakeCandidate, Build, BuildFails, SwitchLink, MoveLegacy, SwapIn,
         RollBack, Activate, LinkPrevious, Finish, FinishFails
    <3>2. proc' = proc /\ ctl' = ctl
      BY <1>1 DEF ctlVars
    <3> QED BY <3>1, <3>2 DEF NoBridge
  <2>1. PageStartsNone'
    BY <1>a, <2>0 DEF PageStartsNone, At, Runs
  <2>2. CASE BeginInstall
    <3>1. hook'.step = "install"
      BY <1>0, <2>2, GoOnMoves DEF BeginInstall
    <3>2. NoBridge
      BY <2>2 DEF BeginInstall, RunsFit, InStep
    <3> QED BY <1>b, <2>0, <2>1, <3>1, <3>2 DEF InStep
  <2>3. CASE Stopped
    <3>1. hook'.step \in {"none", "platform"}
      BY <1>0, <2>3, GoOnMoves DEF Stopped
    <3>2. NoBridge
      BY <1>a, <2>0, <2>3 DEF Stopped
    <3> QED BY <1>b, <2>0, <2>1, <3>1, <3>2 DEF InStep
  <2>4. CASE PreinstallFails \/ StoppedBeforeInstall \/ Restarted
    <3>1. hook'.step = "none" \/ (hook'.step = "install" /\ InStep({"stopping again"}))
      BY <1>0, <2>4, GoOnMoves DEF PreinstallFails, StoppedBeforeInstall, Restarted
    <3>2. hook'.step = "install" => NoBridge
      BY <1>a, <2>0, <3>1 DEF InStep
    <3> QED BY <1>b, <2>0, <2>1, <3>1, <3>2 DEF InStep
  <2>5. CASE Signalled
    <3>1. InStep(NoneDuring) /\ hook' = hook
      BY <2>5 DEF Signalled, InStep
    <3> QED BY <1>a, <1>b, <2>0, <2>1, <3>1 DEF InStep
  <2>6. CASE postinstall
    <3>1. InStep(NoneDuring)
      BY <2>6 DEF postinstall, CheckFails, cleanup_previous_runtime, UnlinkPrevious,
         MakeCandidate, Build, BuildFails, SwitchLink, MoveLegacy, SwapIn, RollBack,
         Activate, LinkPrevious, Finish, FinishFails, InStep
    <3>2. hook'.step \in NoneDuring \cup {"none"}
      <4>1. CASE MakeCandidate
        BY <1>0, <4>1 DEF MakeCandidate, Hook
      <4>2. CASE SwitchLink
        BY <1>0, <4>2 DEF SwitchLink, Hook
      <4>3. CASE MoveLegacy
        BY <1>0, <4>3 DEF MoveLegacy, Hook
      <4>4. CASE CheckFails \/ BuildFails \/ FinishFails \/ RollBack
        BY <1>0, <4>4 DEF CheckFails, BuildFails, FinishFails, RollBack, Ends
      <4>5. CASE \/ cleanup_previous_runtime \/ UnlinkPrevious \/ Build \/ SwapIn
                 \/ Activate \/ LinkPrevious \/ Finish
        BY <1>0, <4>5, GoOnMoves DEF cleanup_previous_runtime, UnlinkPrevious, Build, SwapIn,
             Activate, LinkPrevious, Finish
      <4> QED BY <2>6, <4>1, <4>2, <4>3, <4>4, <4>5 DEF postinstall
    <3> QED BY <1>a, <1>b, <2>0, <2>1, <3>1, <3>2 DEF InStep
  <2> QED BY <1>1, <2>2, <2>3, <2>4, <2>5, <2>6 DEF HookAlone
<1>2. CASE BeginUpgrade
  <2>1. hook'.step = "asked" /\ Invoke(Upgrader, "is-running")
    BY <1>0, <1>2, GoOnMoves DEF BeginUpgrade, Calls
  <2>2. ~CalledBack' /\ \A c \in Callers \ {Upgrader} : ctl'[c] = ctl[c]
    BY <1>0, <2>1, InvokeMoves, CommandsAre DEF CalledBack, At
  <2>3. Idle
    BY <2>1 DEF Invoke
  <2>4. PageStartsNone'
    BY <2>2, <2>3 DEF PageStartsNone, Idle, At
  <2> QED BY <1>b, <2>1, <2>2, <2>4 DEF InStep
<1>3. CASE StopBeforeUpgrade \/ DecideRestart \/ StopBeforeInstall \/ StartAfterUpgrade
  <2>0. /\ ~meddled /\ UNCHANGED <<venv, runs>>
        /\ UNCHANGED ctlVars \/ \E command \in Commands : Invoke(Upgrader, command)
    <3>1. meddled' = meddled
      BY <1>3 DEF StopBeforeUpgrade, DecideRestart, StopBeforeInstall, StartAfterUpgrade
    <3>2. UNCHANGED <<venv, runs>>
      BY <1>3 DEF StopBeforeUpgrade, DecideRestart, StopBeforeInstall, StartAfterUpgrade,
                  Calls, disk
    <3>3. UNCHANGED ctlVars \/ \E command \in Commands : Invoke(Upgrader, command)
      BY <1>3, CommandsAre DEF StopBeforeUpgrade, DecideRestart, StopBeforeInstall,
                               StartAfterUpgrade, Calls
    <3> QED BY <3>1, <3>2, <3>3
  <2>1. /\ proc' = proc /\ (NoBridge => NoBridge')
        /\ \A c \in Callers \ {Upgrader} : ctl'[c] = ctl[c]
    BY <1>0, <2>0, InvokeMoves DEF Invoke, ctlVars, NoBridge
  <2>2. PageStartsNone'
    BY <1>a, <2>0, <2>1 DEF PageStartsNone, At, Runs
  <2>3. CASE StopBeforeUpgrade
    <3>1. CASE ctl[Upgrader].ok
      <4>1. hook'.step = "stopping" /\ Invoke(Upgrader, "stop")
        BY <1>0, <2>3, <3>1, GoOnMoves DEF StopBeforeUpgrade, Calls
      <4>2. ~CalledBack'
        BY <1>0, <4>1, InvokeMoves, CommandsAre DEF CalledBack, At
      <4> QED BY <1>b, <2>2, <4>1, <4>2 DEF InStep
    <3>2. CASE ~ctl[Upgrader].ok
      <4>1. hook'.step = "platform"
        BY <1>0, <2>3, <3>2, GoOnMoves DEF StopBeforeUpgrade
      <4>2. NoBridge
        BY <1>a, <2>0, <2>3, <3>2 DEF StopBeforeUpgrade
      <4> QED BY <1>b, <2>1, <2>2, <4>1, <4>2 DEF InStep
    <3> QED BY <3>1, <3>2
  <2>4. CASE DecideRestart \/ StopBeforeInstall \/ StartAfterUpgrade
    <3>1. hook'.step \in {"asked again", "stopping again", "install", "starting"}
      <4>1. CASE \/ hook' = [hook EXCEPT !.restart = TRUE, !.step = "install"]
                 \/ hook' = [hook EXCEPT !.restart = TRUE, !.step = "stopping again"]
        BY <1>0, <4>1 DEF Hook
      <4> QED BY <1>0, <2>4, <4>1, GoOnMoves
              DEF DecideRestart, StopBeforeInstall, StartAfterUpgrade
    <3>2. NoBridge
      BY <1>a, <2>0, <2>4 DEF DecideRestart, StopBeforeInstall, StartAfterUpgrade, InStep
    <3> QED BY <1>b, <2>1, <2>2, <3>1, <3>2 DEF InStep, NoBridge, Running
  <2> QED BY <1>3, <2>3, <2>4
<1>4. ASSUME NEW c \in Callers \ {Upgrader}, NEW command \in Commands, PageCalls(c, command)
      PROVE  NoneUntilStarted'
  <2>1. /\ UNCHANGED <<venv, runs, hook, proc>> /\ ~meddled
        /\ command \notin {"start", "restart"}
    BY <1>4 DEF PageCalls, Calls, Invoke, disk
  <2>2. /\ ctl'[c].cmd = command /\ \A d \in Callers \ {c} : ctl'[d] = ctl[d]
    BY <1>0, <1>4, InvokeMoves DEF PageCalls, Calls
  <2>3. PageStartsNone'
    BY <1>a, <2>1, <2>2 DEF PageStartsNone, At, Runs
  <2> QED BY <1>0, <1>a, <1>b, <2>1, <2>2, <2>3 DEF InStep, CalledBack, At, NoBridge
<1>5. CASE ProcessStep
  <2>1. UNCHANGED <<disk, hook, meddled, ctl>> /\ FollowRuns /\ (NoBridge => NoBridge')
    BY <1>5, ProcessesSpawnNone DEF ProcessStep
  <2>2. PageStartsNone'
    BY <1>a, <2>1 DEF PageStartsNone, At, Runs
  <2>3. \A p \in Pids : proc'[p] \in Running => proc[p] \in Running
    BY <1>0, <1>5, ProcessMoves DEF ProcessStep, Running
  <2>4. InStep({"starting"})' => \A p \in Pids : proc'[p] \in Running => runs'[p] = venv'
    BY <1>0, <1>a, <2>1, <2>3, RunsFollow DEF DiskType, disk, InStep
  <2> QED BY <1>a, <1>b, <2>1, <2>2, <2>4 DEF InStep, CalledBack, At
<1>6. ASSUME NEW c \in Callers, ScriptStep(c) PROVE NoneUntilStarted'
  <2>1. UNCHANGED <<disk, hook, meddled>> /\ FollowRuns
    BY <1>6 DEF ScriptStep
  <2>2. /\ ~At(c, {"idle"}) /\ \A d \in Callers \ {c} : ctl'[d] = ctl[d]
        /\ ~Runs(c, {"restart"}) => ctl'[c].cmd = ctl[c].cmd
    BY <1>6, ScriptTurns DEF At
  <2>3. PageStartsNone'
    BY <1>a, <2>1, <2>2 DEF PageStartsNone, At, Runs
  <2>4. NoBridge /\ ~Runs(c, {"start"}) => NoBridge'
    BY <1>6, ScriptTurns
  <2>5. c # Upgrader => ~Runs(c, {"start"})
    BY <1>a, <2>1, <2>2 DEF PageStartsNone, Runs
  <2>6. c = Upgrader /\ InStep(NoneDuring) => ~Runs(c, {"start"})
    BY <2>2 DEF HookFits, InStep, CalledBack, At, Runs
  <2>7. c = Upgrader => ~CalledBack
    BY <2>2 DEF CalledBack, At
  <2>8. InStep({"asked"})' /\ CalledBack' /\ ~ctl'[Upgrader].ok => NoBridge'
    <3>1. InStep({"asked"})' => InStep({"asked"}) /\ Runs(Upgrader, {"is-running"})
      BY <2>1 DEF HookFits, InStep
    <3>2. CASE c = Upgrader
      BY <1>0, <1>6, <3>1, <3>2, ScriptTurns, NoneWhenStopped DEF CalledBack, At
    <3>3. CASE c # Upgrader
      BY <1>0, <1>a, <2>1, <2>2, <2>4, <2>5, <3>1, <3>3 DEF CalledBack, At
    <3> QED BY <3>2, <3>3
  <2>9. InStep({"stopping"})' /\ CalledBack' => NoBridge'
    <3>1. InStep({"stopping"})' => InStep({"stopping"}) /\ Runs(Upgrader, {"stop"})
      BY <2>1 DEF HookFits, InStep
    <3>2. CASE c = Upgrader
      BY <1>0, <1>6, <3>1, <3>2, ScriptTurns, NoneWhenStopped DEF CalledBack, At
    <3>3. CASE c # Upgrader
      BY <1>0, <1>a, <2>1, <2>2, <2>4, <2>5, <3>1, <3>3 DEF CalledBack, At
    <3> QED BY <3>2, <3>3
  <2>10. InStep(NoneDuring)' => NoBridge'
    <3>1. InStep(NoneDuring)' => InStep(NoneDuring)
      BY <2>1 DEF InStep
    <3> QED BY <1>a, <2>1, <2>4, <2>5, <2>6, <3>1
  <2>11. ASSUME InStep({"starting"})', NEW p \in Pids, proc'[p] \in Running
         PROVE  runs'[p] = venv'
    <3>1. runs'[p] = (IF proc[p] = "none" THEN venv ELSE runs[p]) /\ venv' = venv
      BY <1>0, <2>1, <2>11, RunsFollow DEF DiskType, disk
    <3>2. proc[p] \notin Running => proc[p] = "none"
      BY <1>0, <1>6, <2>11, ScriptTurns, WhoSpawns DEF Running, CtlInv
    <3>3. proc[p] \in Running => runs[p] = venv
      BY <1>a, <2>1, <2>11 DEF InStep
    <3> QED BY <3>1, <3>2, <3>3
  <2> QED BY <1>b, <2>3, <2>8, <2>9, <2>10, <2>11
<1>7. CASE PowerGoes
  <2>1. /\ hook'.step = "none" /\ \A c \in Callers : ctl'[c].pc = "idle"
    BY <1>0, <1>7, CutMoves DEF PowerGoes
  <2> QED BY <1>b, <2>1 DEF InStep, PageStartsNone, At
<1>8. CASE UNCHANGED vars
  <2>1. UNCHANGED <<hook, proc, ctl, runs, venv, meddled>>
    BY <1>8 DEF vars, upgradeVars, ctlVars, disk
  <2> QED BY <1>a, <1>b, <2>1 DEF PageStartsNone, InStep, CalledBack, At, Runs, NoBridge
<1> QED BY <1>1, <1>2, <1>3, <1>4, <1>5, <1>6, <1>7, <1>8, AloneOrCalls

---------------------------------------------------------------------------
(* The theorems.                                                           *)

LEMMA UpgradeInvAtFirst == Init => UpgradeInv
<1> SUFFICES ASSUME Init PROVE UpgradeInv
    OBVIOUS
<1>1. CtlInv
  BY CtlInvAtFirst DEF Init
<1>2. LinkIsSafe /\ WayBackIsKept
  BY UpgradeAssumption DEF Init, LinkIsSafe, WayBackIsKept, InStep, NoHook
<1> QED BY <1>1, <1>2, UpgradeTypesAtFirst, HookFitsAtFirst, RunsFitAtFirst, OldBridgesAtFirst,
           NoneAtFirst DEF UpgradeInv

LEMMA UpgradeInvStays == UpgradeInv /\ [Next]_vars => UpgradeInv'
<1> SUFFICES ASSUME UpgradeInv, [Next]_vars PROVE UpgradeInv'
    OBVIOUS
<1>1. TypeOK' /\ CtlInv' /\ HookFits'
  BY UpgradeTypesStay, CtlInvIsKept, HookFitsStays DEF UpgradeInv
<1>2. LinkIsSafe' /\ WayBackIsKept'
  BY LinkStaysSafe, WayBackStays DEF UpgradeInv
<1>3. RunsFit'
  BY RunsFitStays DEF UpgradeInv
<1>4. OldBridgesAreStopped' /\ NoneUntilStarted'
  BY <1>3, OldBridgesStay, NoneStays DEF UpgradeInv
<1> QED BY <1>1, <1>2, <1>3, <1>4 DEF UpgradeInv

(* The inductive invariant of the upgrade: where the hook stands, what the *)
(* links and directories hold then, and which bridges may be running, at   *)
(* every step of preupgrade.sh, postinstall.sh and postupgrade.sh and of   *)
(* every other script, signal and power cut in between.                    *)
THEOREM UpgradeInvariant == Spec => []UpgradeInv
BY UpgradeInvAtFirst, UpgradeInvStays, PTL DEF Spec

(* Types: the hook's variables, the directories, the links and the scripts *)
(* of bridge_ctl.sh stay in their domains, however many callers and PIDs.  *)
THEOREM UpgradeIsTyped == Spec => []TypeOK
<1>1. UpgradeInv => TypeOK
  BY DEF UpgradeInv
<1> QED BY <1>1, UpgradeInvariant, PTL

(* Whatever command of postinstall.sh fails and wherever the power goes,   *)
(* the link venv names a runtime that was validated (without a signal).    *)
THEOREM LinkNamesAValidRuntime == Spec => []VenvIsValidated
<1>1. UpgradeInv => VenvIsValidated
  BY DEF UpgradeInv, LinkIsSafe, VenvIsValidated
<1> QED BY <1>1, UpgradeInvariant, PTL

(* venv.previous names a complete runtime other than the one in use, and   *)
(* from the switch on the one in use before, whatever failed and through   *)
(* power cuts, but while it is replaced (or after a cut at that moment).   *)
THEOREM PreviousStaysAWayBack == Spec => []PreviousIsAWayBack
<1>1. UpgradeInv => PreviousIsAWayBack
  BY DEF UpgradeInv, WayBackIsKept, AfterTheSwitch, PreviousIsAWayBack
<1> QED BY <1>1, UpgradeInvariant, PTL

(* Without overlapping control scripts and without a signal no rm of the   *)
(* hooks takes away the runtime a bridge runs from, nor that of one that   *)
(* was told to end since the upgrade began and goes on (except a stray).   *)
THEOREM NoBridgeLosesItsRuntime == Spec => []BridgeKeepsItsRuntime
<1>1. UpgradeInv => BridgeKeepsItsRuntime
  BY DEF UpgradeInv, OldBridgesAreStopped, Attached, Running, BridgeKeepsItsRuntime
<1> QED BY <1>1, UpgradeInvariant, PTL

(* An upgrade that reports the bridge restarted leaves only bridges that   *)
(* run the new runtime, unless the page started one in between (except a   *)
(* stray and a bridge that was told to end).                               *)
THEOREM RestartedOnNewCode == Spec => UpgradeRunsNewCode
<1>1. UpgradeInv /\ [Next]_vars =>
        [InStep({"starting"}) /\ InStep({"none"})' /\ ctl[Upgrader].ok
         /\ ~meddled /\ ~overlap /\ powerCuts' = powerCuts
           => \A p \in Pids : proc[p] = "bridge" => runs[p] = venv]_vars
  BY DEF UpgradeInv, NoneUntilStarted, Running
<1> QED BY <1>1, UpgradeInvariant, PTL DEF Spec, UpgradeRunsNewCode

LEMMA UpgradeStepsAreCtlSteps ==
  UpgradeInv /\ [Next]_vars => CtlInv /\ (CtlStep \/ UNCHANGED ctlVars)
BY CtlFollows DEF UpgradeInv

(* The PID file names the running bridge whenever no script runs, through  *)
(* crashes, failed starts, power cuts and reused PIDs, for as long as no   *)
(* two runs of bridge_ctl.sh have overlapped (except a stray, whose PID    *)
(* its start could not write).                                             *)
THEOREM ControlTracksTheBridge == Spec => []BridgeIsTracked
<1>1. UpgradeInv => BridgeIsTracked
  BY DEF UpgradeInv, CtlInv, BridgeIsTracked, BridgeIsKnown, Settled, Untracked
<1> QED BY <1>1, UpgradeInvariant, PTL

(* A start that exits with a failure leaves no bridge behind, from the     *)
(* page or from postupgrade.sh (except the stray of a PID not written).    *)
THEOREM FailedStartsLeaveNothing == Spec => FailedStartLeavesNothing
<1>1. UpgradeInv /\ [Next]_vars =>
        [\A c \in Callers :
           ~overlap /\ Runs(c, {"start"}) /\ ~At(c, {"idle"}) /\ At(c, {"idle"})' /\ ~ctl'[c].ok
             => \A p \in Pids : proc'[p] \notin {"shell", "bridge"}]_ctlVars
  BY UpgradeStepsAreCtlSteps, CtlKeepsItsWord
<1> QED BY <1>1, UpgradeInvariant, PTL DEF Spec, FailedStartLeavesNothing

===========================================================================
