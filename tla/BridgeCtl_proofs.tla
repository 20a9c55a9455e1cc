-------------------------- MODULE BridgeCtl_proofs --------------------------
(* The control script: every step of it, of the processes and of a power   *)
(* cut keeps the types and keeps track of the bridge.  These are lemmas    *)
(* about steps: who calls the script when is up to the modules that extend *)
(* BridgeCtl.                                                              *)
EXTENDS BridgeCtl, TLAPS

CtlStep ==
  \/ \E c \in Callers :
       \/ \E command \in Commands : Invoke(c, command)
       \/ CtlScript(c)
       \/ \E ok \in BOOLEAN : Preflight(c, ok)
  \/ Processes
  \/ PowerCut

(* A script holds a PID from the moment it has read or spawned one, and    *)
(* only a start gets as far as to spawn one.                               *)
ScriptsAreInOrder ==
  \A c \in Callers :
    /\ At(c, {"check", "running", "stale", "write", "publish", "grace", "reap"})
         => ctl[c].pid \in Pids
    /\ At(c, {"preflight", "spawn", "write", "publish", "grace", "reap"})
         => Runs(c, {"start"})

(* One script at a time, until two have overlapped.                        *)
ScriptsTakeTurns ==
  ~overlap => \A c \in Callers, d \in Callers :
                ~At(c, {"idle"}) /\ ~At(d, {"idle"}) => c = d

NoBridge == \A p \in Pids : proc[p] \notin {"shell", "bridge"}
OnlyBridge(q) == \A p \in Pids : proc[p] \in {"shell", "bridge"} => p = q
Settled == \A p \in Pids : proc[p] # "shell" /\ (proc[p] = "bridge" => pidFile = p)

(* What a script that is alone may rely on at each of its commands.        *)
KnownTo(c) ==
  /\ At(c, {"read", "check", "running", "stale", "missing"}) => Settled
  /\ At(c, {"check", "running", "stale"}) => ctl[c].pid = pidFile
  /\ At(c, {"missing"}) => pidFile = NoPid
  /\ At(c, {"stale"}) => proc[ctl[c].pid] # "bridge"
  /\ At(c, {"unlink", "preflight", "spawn", "reap"}) => NoBridge
  /\ At(c, {"write", "publish", "grace"}) => OnlyBridge(ctl[c].pid)
  /\ At(c, {"publish"}) => pidTmp = ctl[c].pid
  /\ At(c, {"grace"}) => pidFile = ctl[c].pid

BridgeIsKnown ==
  ~overlap => /\ Idle => Settled
              /\ \A c \in Callers : KnownTo(c)

CtlInv ==
  /\ CtlTypeOK
  /\ ScriptsAreInOrder /\ ScriptsTakeTurns /\ BridgeIsKnown

---------------------------------------------------------------------------
(* Where a step of a script leaves the scripts.                            *)

Script == [pc : Labels, cmd : Commands, pid : Pids \cup {NoPid}, ok : BOOLEAN]

(* The ways in which a command changes its script.                         *)
MovedTo(s, label) == [s EXCEPT !.pc = label]
Ended(s, ok) == [s EXCEPT !.pc = "idle", !.pid = NoPid, !.ok = ok]
Restarting(s) == [s EXCEPT !.cmd = "start", !.pc = "read"]
Called(s, command) == [s EXCEPT !.pc = "read", !.cmd = command]
Holds(s, pid, label) == [s EXCEPT !.pid = pid, !.pc = label]

LEMMA ScriptEdits ==
  ASSUME NEW s \in Script, NEW pid \in Pids \cup {NoPid}, NEW ok \in BOOLEAN,
         NEW label \in Labels, NEW command \in Commands
  PROVE  /\ MovedTo(s, label) \in Script /\ Ended(s, ok) \in Script
         /\ Restarting(s) \in Script /\ Called(s, command) \in Script
         /\ Holds(s, pid, label) \in Script
<1>1. MovedTo(s, label) \in Script
  BY DEF Script, MovedTo
<1>2. Ended(s, ok) \in Script
  BY DEF Script, Labels, Ended
<1>3. Restarting(s) \in Script
  BY DEF Script, Labels, Commands, Restarting
<1>4. Called(s, command) \in Script
  BY DEF Script, Labels, Called
<1>5. Holds(s, pid, label) \in Script
  BY DEF Script, Holds
<1> QED BY <1>1, <1>2, <1>3, <1>4, <1>5

LEMMA ScriptFields ==
  ASSUME NEW s \in Script, NEW pid, NEW ok, NEW label, NEW command
  PROVE  /\ MovedTo(s, label).pc = label /\ MovedTo(s, label).pid = s.pid
         /\ MovedTo(s, label).cmd = s.cmd
         /\ Ended(s, ok).pc = "idle" /\ Ended(s, ok).ok = ok /\ Ended(s, ok).cmd = s.cmd
         /\ Restarting(s).pc = "read" /\ Called(s, command).pc = "read"
         /\ Called(s, command).cmd = command
         /\ Holds(s, pid, label).pc = label /\ Holds(s, pid, label).pid = pid
         /\ Holds(s, pid, label).cmd = s.cmd
<1>1. /\ MovedTo(s, label).pc = label /\ MovedTo(s, label).pid = s.pid
      /\ MovedTo(s, label).cmd = s.cmd
  BY DEF Script, MovedTo
<1>2. Ended(s, ok).pc = "idle" /\ Ended(s, ok).ok = ok /\ Ended(s, ok).cmd = s.cmd
  BY DEF Script, Ended
<1>3. /\ Restarting(s).pc = "read" /\ Called(s, command).pc = "read"
      /\ Called(s, command).cmd = command
  BY DEF Script, Restarting, Called
<1>4. /\ Holds(s, pid, label).pc = label /\ Holds(s, pid, label).pid = pid
      /\ Holds(s, pid, label).cmd = s.cmd
  BY DEF Script, Holds
<1> QED BY <1>1, <1>2, <1>3, <1>4

LEMMA GotoMoves ==
  ASSUME ctl \in [Callers -> Script], NEW c \in Callers, NEW label \in Labels, Goto(c, label)
  PROVE  /\ ctl'[c].pc = label /\ ctl'[c].pid = ctl[c].pid /\ ctl'[c].cmd = ctl[c].cmd
         /\ \A d \in Callers \ {c} : ctl'[d] = ctl[d]
         /\ ctl' \in [Callers -> Script]
<1>1. ctl' = [ctl EXCEPT ![c] = MovedTo(ctl[c], label)]
  BY DEF Goto, MovedTo
<1>2. MovedTo(ctl[c], label) \in Script
  BY ScriptEdits DEF Commands
<1> QED BY <1>1, <1>2, ScriptFields

LEMMA ReturnMoves ==
  ASSUME ctl \in [Callers -> Script], NEW c \in Callers, NEW ok \in BOOLEAN, Return(c, ok)
  PROVE  /\ ctl'[c].pc = "idle" /\ ctl'[c].ok = ok /\ ctl'[c].cmd = ctl[c].cmd
         /\ \A d \in Callers \ {c} : ctl'[d] = ctl[d]
         /\ ctl' \in [Callers -> Script]
<1>1. ctl' = [ctl EXCEPT ![c] = Ended(ctl[c], ok)]
  BY DEF Return, Returned, Ended
<1>2. Ended(ctl[c], ok) \in Script
  BY ScriptEdits DEF Labels, Commands
<1> QED BY <1>1, <1>2, ScriptFields

(* A start that cannot write the PID file ends; its child is a stray.      *)
LEMMA StartFailsMoves ==
  ASSUME CtlTypeOK, NEW c \in Callers, StartFails(c)
  PROVE  /\ Return(c, FALSE)
         /\ proc' \in [Pids -> Kinds]
         /\ proc'[ctl[c].pid] \notin {"shell", "bridge"} \/ ctl[c].pid \notin Pids
         /\ \A q \in Pids : /\ proc'[q] \in {"shell", "bridge", "dying"} => proc'[q] = proc[q]
                            /\ proc'[q] = "stray" => proc[q] \in {"shell", "bridge", "stray"}
BY DEF StartFails, CtlTypeOK, Kinds

LEMMA ReportMoves ==
  ASSUME ctl \in [Callers -> Script], NEW c \in Callers, ReportOnly(c)
  PROVE  /\ ctl'[c].pc = "idle" /\ ctl'[c].cmd = ctl[c].cmd
         /\ ctl[c].pc = "running" => ctl'[c].ok = TRUE
         /\ Runs(c, {"start"}) => ctl'[c].ok = TRUE
         /\ \A d \in Callers \ {c} : ctl'[d] = ctl[d]
         /\ ctl' \in [Callers -> Script]
<1>1. CASE At(c, {"running"})
  <2>1. Return(c, TRUE)
    <3>1. At(c, {"running"}) = TRUE
      BY <1>1 DEF At
    <3>2. Return(c, At(c, {"running"}))
      BY DEF ReportOnly
    <3> QED BY <3>1, <3>2
  <2> QED BY <2>1, ReturnMoves
<1>2. CASE ~At(c, {"running"})
  <2>1. Return(c, FALSE)
    <3>1. At(c, {"running"}) = FALSE
      BY <1>2 DEF At
    <3>2. Return(c, At(c, {"running"}))
      BY DEF ReportOnly
    <3> QED BY <3>1, <3>2
  <2>2. ~Runs(c, {"start"}) /\ ctl[c].pc # "running"
    BY <1>2 DEF ReportOnly, Runs, At
  <2> QED BY <2>1, <2>2, ReturnMoves
<1> QED BY <1>1, <1>2

LEMMA EndOfStopMoves ==
  ASSUME ctl \in [Callers -> Script], NEW c \in Callers, EndOfStop(c)
  PROVE  /\ ctl'[c].pc = "read" \/ (ctl'[c].pc = "idle" /\ ctl'[c].ok = TRUE)
         /\ ~Runs(c, {"restart"}) => ctl'[c].cmd = ctl[c].cmd
         /\ \A d \in Callers \ {c} : ctl'[d] = ctl[d]
         /\ ctl' \in [Callers -> Script]
<1>1. CASE Runs(c, {"restart"})
  <2>1. ctl' = [ctl EXCEPT ![c] = Restarting(ctl[c])]
    BY <1>1 DEF EndOfStop, Restarting
  <2>2. Restarting(ctl[c]) \in Script
    BY ScriptEdits DEF Labels, Commands
  <2>3. ctl'[c].pc = "read"
    BY <2>1, ScriptFields
  <2> QED BY <1>1, <2>1, <2>2, <2>3
<1>2. CASE ~Runs(c, {"restart"})
  BY <1>2, ReturnMoves DEF EndOfStop
<1> QED BY <1>1, <1>2

LEMMA InvokeMoves ==
  ASSUME ctl \in [Callers -> Script], NEW c \in Callers, NEW command \in Commands,
         Invoke(c, command)
  PROVE  /\ ctl'[c].pc = "read" /\ ctl'[c].cmd = command
         /\ \A d \in Callers \ {c} : ctl'[d] = ctl[d]
         /\ ctl' \in [Callers -> Script]
<1>1. ctl' = [ctl EXCEPT ![c] = Called(ctl[c], command)]
  BY DEF Invoke, Called
<1>2. Called(ctl[c], command) \in Script
  BY ScriptEdits DEF Labels
<1> QED BY <1>1, <1>2, ScriptFields

LEMMA ReadMoves ==
  ASSUME ctl \in [Callers -> Script], pidFile \in Pids \cup {NoPid},
         NEW c \in Callers, read_bridge_pid(c)
  PROVE  /\ ctl'[c].pc = IF pidFile = NoPid THEN "missing" ELSE "check"
         /\ ctl'[c].pid = pidFile /\ ctl'[c].cmd = ctl[c].cmd
         /\ \A d \in Callers \ {c} : ctl'[d] = ctl[d]
         /\ ctl' \in [Callers -> Script]
<1> DEFINE label == IF pidFile = NoPid THEN "missing" ELSE "check"
<1>1. ctl' = [ctl EXCEPT ![c] = Holds(ctl[c], pidFile, label)]
  BY DEF read_bridge_pid, Holds
<1>2. label \in Labels
  BY DEF Labels
<1> HIDE DEF label
<1>3. Holds(ctl[c], pidFile, label) \in Script
  BY <1>2, ScriptEdits DEF Commands
<1>4. /\ ctl'[c].pc = label /\ ctl'[c].pid = pidFile /\ ctl'[c].cmd = ctl[c].cmd
      /\ \A d \in Callers \ {c} : ctl'[d] = ctl[d]
      /\ ctl' \in [Callers -> Script]
  BY <1>1, <1>3, ScriptFields
<1> QED BY <1>4 DEF label

(* A spawned child has the only PID that changes.                          *)
LEMMA SpawnMoves ==
  ASSUME ctl \in [Callers -> Script], NEW c \in Callers, Spawn(c)
  PROVE  /\ ctl' \in [Callers -> Script]
         /\ \A d \in Callers \ {c} : ctl'[d] = ctl[d]
         /\ ctl'[c].cmd = ctl[c].cmd
         /\ \/ ctl'[c].pc = "idle" /\ ctl'[c].ok = FALSE /\ proc' = proc
            \/ \E p \in Pids : /\ ctl'[c].pc = "write" /\ ctl'[c].pid = p
                               /\ FreePid(p) /\ proc' = [proc EXCEPT ![p] = "shell"]
<1>1. CASE Return(c, FALSE) /\ UNCHANGED proc
  BY <1>1, ReturnMoves
<1>2. ASSUME NEW p \in Pids, proc' = [proc EXCEPT ![p] = "shell"],
             ctl' = [ctl EXCEPT ![c] = [@ EXCEPT !.pid = p, !.pc = "write"]]
      PROVE  /\ ctl'[c].pc = "write" /\ ctl'[c].pid = p /\ ctl'[c].cmd = ctl[c].cmd
             /\ \A d \in Callers \ {c} : ctl'[d] = ctl[d]
             /\ ctl' \in [Callers -> Script]
  <2>1. ctl' = [ctl EXCEPT ![c] = Holds(ctl[c], p, "write")]
    BY <1>2 DEF Holds
  <2>2. Holds(ctl[c], p, "write") \in Script
    BY ScriptEdits DEF Labels, Commands
  <2> QED BY <2>1, <2>2, ScriptFields
<1> QED BY <1>1, <1>2 DEF Spawn

LEMMA CutMoves ==
  ASSUME ctl \in [Callers -> Script], PowerCut
  PROVE  /\ ctl' \in [Callers -> Script]
         /\ \A c \in Callers : ctl'[c].pc = "idle"
<1>1. ctl' = [c \in Callers |-> Ended(ctl[c], FALSE)]
  BY DEF PowerCut, Ended
<1>2. ASSUME NEW c \in Callers
      PROVE  Ended(ctl[c], FALSE) \in Script /\ Ended(ctl[c], FALSE).pc = "idle"
  <2>1. Ended(ctl[c], FALSE) \in Script
    BY ScriptEdits DEF Labels, Commands
  <2>2. ctl[c] \in Script
    OBVIOUS
  <2>3. Ended(ctl[c], FALSE).pc = "idle"
    BY <2>2 DEF Ended, Script
  <2> QED BY <2>1, <2>3
<1> QED BY <1>1, <1>2

---------------------------------------------------------------------------
(* Types.                                                                  *)

LEMMA ScriptMoves ==
  ASSUME CtlTypeOK, NEW c \in Callers,
         CtlScript(c) \/ \E ok \in BOOLEAN : Preflight(c, ok)
  PROVE  /\ ctl \in [Callers -> Script] /\ ctl' \in [Callers -> Script]
         /\ \A d \in Callers \ {c} : ctl'[d] = ctl[d]
         /\ ctl[c].pc # "idle" /\ overlap' = overlap
<1>0. ctl \in [Callers -> Script]
  BY DEF CtlTypeOK, Script
<1> USE DEF At, Labels
<1>1. CASE read_bridge_pid(c)
  BY <1>0, <1>1, ReadMoves DEF CtlTypeOK, read_bridge_pid
<1>2. CASE CheckProcess(c)
  <2>1. \E label \in {"running", "stale"} : Goto(c, label)
    BY <1>2 DEF CheckProcess
  <2> QED BY <1>0, <1>2, <2>1, GotoMoves DEF CheckProcess
<1>3. CASE ReportOnly(c)
  BY <1>0, <1>3, ReportMoves DEF ReportOnly
<1>4. CASE service_status(c)
  BY <1>0, <1>4, ReturnMoves DEF service_status
<1>5. CASE KillBridge(c)
  BY <1>0, <1>5, ReturnMoves, GotoMoves DEF KillBridge
<1>6. CASE stop_bridge(c)
  BY <1>0, <1>6, EndOfStopMoves DEF stop_bridge
<1>7. CASE start_bridge(c)
  BY <1>0, <1>7, GotoMoves DEF start_bridge
<1>8. CASE Spawn(c)
  BY <1>0, <1>8, SpawnMoves DEF Spawn
<1>9. CASE WritePid(c)
  BY <1>0, <1>9, ReturnMoves, GotoMoves DEF WritePid, StartFails
<1>10. CASE PublishPid(c)
  BY <1>0, <1>10, ReturnMoves, GotoMoves DEF PublishPid, StartFails
<1>11. CASE GraceEnds(c)
  BY <1>0, <1>11, ReturnMoves, GotoMoves DEF GraceEnds
<1>12. CASE ReapChild(c)
  BY <1>0, <1>12, ReturnMoves DEF ReapChild
<1>13. CASE \E ok \in BOOLEAN : Preflight(c, ok)
  BY <1>0, <1>13, ReturnMoves, GotoMoves DEF Preflight
<1> QED BY <1>1, <1>2, <1>3, <1>4, <1>5, <1>6, <1>7, <1>8, <1>9, <1>10, <1>11,
           <1>12, <1>13 DEF CtlScript

(* What a kill does to the process table.                                  *)
LEMMA KillMoves ==
  ASSUME CtlTypeOK, NEW c \in Callers, KillBridge(c)
  PROVE  /\ proc' \in [Pids -> Kinds]
         /\ \A q \in Pids : /\ proc'[q] \in {"shell", "bridge", "stray"} => proc'[q] = proc[q]
                            /\ proc'[q] = "dying" => proc[q] \in {"bridge", "stray", "dying"}
<1>0. proc \in [Pids -> Kinds]
  BY DEF CtlTypeOK
<1> DEFINE p == ctl[c].pid
<1>1. CASE proc' = proc
  BY <1>0, <1>1
<1>2. ASSUME NEW k, proc' = [proc EXCEPT ![p] = k],
             \/ k = "dying" /\ proc[p] \in {"bridge", "stray"}
             \/ k \in {"none", "zombie"}
             \/ k = proc[p]
      PROVE  /\ proc' \in [Pids -> Kinds]
             /\ \A q \in Pids : /\ proc'[q] \in {"shell", "bridge", "stray"} => proc'[q] = proc[q]
                                /\ proc'[q] = "dying" => proc[q] \in {"bridge", "stray", "dying"}
  <2>1. CASE p \in Pids
    <3>1. k \in Kinds
      BY <1>0, <1>2, <2>1 DEF Kinds
    <3> QED BY <1>0, <1>2, <3>1
  <2>2. CASE p \notin Pids
    BY <1>0, <1>2, <2>2
  <2> QED BY <2>1, <2>2
<1>3. Gone(p) \in {"none", "zombie"}
  BY DEF Gone
<1>4. CASE proc[p] = "none"
  BY <1>1, <1>4 DEF KillBridge
<1>5. CASE proc[p] \in {"bridge", "stray"}
  BY <1>2, <1>5 DEF KillBridge
<1>6. CASE proc[p] \in {"shell", "tool", "other"}
  BY <1>2, <1>3, <1>6 DEF KillBridge
<1>7. CASE proc[p] \notin {"none", "bridge", "stray", "shell", "tool", "other"}
  BY <1>2, <1>7 DEF KillBridge
<1> QED BY <1>4, <1>5, <1>6, <1>7

LEMMA ScriptKeepsFiles ==
  ASSUME CtlTypeOK, NEW c \in Callers,
         CtlScript(c) \/ \E ok \in BOOLEAN : Preflight(c, ok)
  PROVE  /\ proc' \in [Pids -> Kinds]
         /\ pidFile' \in Pids \cup {NoPid} /\ pidTmp' \in Pids \cup {NoPid}
<1>0. /\ proc \in [Pids -> Kinds] /\ ctl[c].pid \in Pids \cup {NoPid}
      /\ pidFile \in Pids \cup {NoPid} /\ pidTmp \in Pids \cup {NoPid}
  BY DEF CtlTypeOK
<1>1. CASE KillBridge(c)
  BY <1>0, <1>1, KillMoves DEF KillBridge
<1>2. CASE Spawn(c)
  BY <1>0, <1>2 DEF Spawn, Kinds
<1>3. CASE WritePid(c) \/ PublishPid(c)
  BY <1>0, <1>3, StartFailsMoves DEF WritePid, PublishPid
<1>4. CASE GraceEnds(c) \/ ReapChild(c)
  BY <1>0, <1>4 DEF GraceEnds, ReapChild, Kinds
<1>5. CASE \/ read_bridge_pid(c) \/ CheckProcess(c) \/ ReportOnly(c)
           \/ service_status(c) \/ stop_bridge(c) \/ start_bridge(c)
           \/ \E ok \in BOOLEAN : Preflight(c, ok)
  BY <1>0, <1>5 DEF read_bridge_pid, CheckProcess, ReportOnly, service_status,
                    stop_bridge, start_bridge, Preflight
<1> QED BY <1>1, <1>2, <1>3, <1>4, <1>5 DEF CtlScript

LEMMA ProcessMoves ==
  ASSUME CtlTypeOK, Processes
  PROVE  /\ proc' \in [Pids -> Kinds]
         /\ UNCHANGED <<pidFile, pidTmp, ctl, overlap>>
         /\ \A q \in Pids :
              /\ proc'[q] = "shell" => proc[q] = "shell"
              /\ proc'[q] = "bridge" => proc[q] \in {"bridge", "shell"}
              /\ proc'[q] \in {"dying", "stray"} => proc'[q] = proc[q]
<1> PICK p \in Pids : ExecBridge(p) \/ ProcessEnds(p) \/ OtherStarts(p) \/ OtherEnds(p)
  BY DEF Processes
<1>0. proc \in [Pids -> Kinds]
  BY DEF CtlTypeOK
<1>1. CASE ExecBridge(p)
  BY <1>0, <1>1 DEF ExecBridge, Kinds
<1>2. CASE ProcessEnds(p)
  BY <1>0, <1>2 DEF ProcessEnds, Gone, Kinds
<1>3. CASE OtherStarts(p)
  BY <1>0, <1>3 DEF OtherStarts, Kinds
<1>4. CASE OtherEnds(p)
  BY <1>0, <1>4 DEF OtherEnds, Kinds
<1> QED BY <1>1, <1>2, <1>3, <1>4

LEMMA CtlTypesStay ==
  ASSUME CtlTypeOK, CtlStep
  PROVE  CtlTypeOK'
<1>0. /\ ctl \in [Callers -> Script] /\ proc \in [Pids -> Kinds] /\ overlap \in BOOLEAN
      /\ pidFile \in Pids \cup {NoPid} /\ pidTmp \in Pids \cup {NoPid}
  BY DEF CtlTypeOK, Script
<1>1. ASSUME NEW c \in Callers, NEW command \in Commands, Invoke(c, command)
      PROVE  CtlTypeOK'
  <2>1. ctl' \in [Callers -> Script]
    BY <1>0, <1>1, InvokeMoves
  <2>2. overlap' \in BOOLEAN
    BY <1>0, <1>1 DEF Invoke
  <2> QED BY <1>0, <1>1, <2>1, <2>2 DEF CtlTypeOK, Invoke, Script
<1>2. ASSUME NEW c \in Callers, CtlScript(c) \/ \E ok \in BOOLEAN : Preflight(c, ok)
      PROVE  CtlTypeOK'
  BY <1>0, <1>2, ScriptMoves, ScriptKeepsFiles DEF CtlTypeOK, Script
<1>3. CASE Processes
  BY <1>0, <1>3, ProcessMoves DEF CtlTypeOK, Script
<1>4. CASE PowerCut
  <2>1. ctl' \in [Callers -> Script]
    BY <1>0, <1>4, CutMoves
  <2>2. proc' \in [Pids -> Kinds]
    BY <1>4 DEF PowerCut, Kinds
  <2> QED BY <1>0, <1>4, <2>1, <2>2 DEF CtlTypeOK, PowerCut, Script
<1> QED BY <1>1, <1>2, <1>3, <1>4 DEF CtlStep

---------------------------------------------------------------------------
(* The order of the commands, and turns.                                        *)

LEMMA OrderIsKept ==
  ASSUME CtlTypeOK, ScriptsAreInOrder, CtlStep
  PROVE  ScriptsAreInOrder'
<1>0. ctl \in [Callers -> Script] /\ pidFile \in Pids \cup {NoPid}
  BY DEF CtlTypeOK, Script
<1> USE DEF ScriptsAreInOrder, At, Runs
<1>1. ASSUME NEW c \in Callers, NEW command \in Commands, Invoke(c, command)
      PROVE  ScriptsAreInOrder'
  BY <1>0, <1>1, InvokeMoves
<1>2. ASSUME NEW c \in Callers, CtlScript(c) \/ \E ok \in BOOLEAN : Preflight(c, ok)
      PROVE  ScriptsAreInOrder'
  <2>0. \A d \in Callers \ {c} : ctl'[d] = ctl[d]
    BY <1>2, ScriptMoves
  <2> SUFFICES /\ (At(c, {"check", "running", "stale", "write", "publish", "grace", "reap"})
                     => ctl[c].pid \in Pids)'
               /\ (At(c, {"preflight", "spawn", "write", "publish", "grace", "reap"})
                     => Runs(c, {"start"}))'
    BY <2>0
  <2> USE DEF Labels
  <2>1. CASE read_bridge_pid(c)
    BY <1>0, <2>1, ReadMoves
  <2>2. CASE CheckProcess(c)
    <3>1. \E label \in {"running", "stale"} : Goto(c, label)
      BY <2>2 DEF CheckProcess
    <3> QED BY <1>0, <2>2, <3>1, GotoMoves DEF CheckProcess
  <2>3. CASE ReportOnly(c)
    BY <1>0, <2>3, ReportMoves DEF ReportOnly
  <2>4. CASE service_status(c)
    BY <1>0, <2>4, ReturnMoves DEF service_status
  <2>5. CASE KillBridge(c)
    BY <1>0, <2>5, ReturnMoves, GotoMoves DEF KillBridge
  <2>6. CASE stop_bridge(c)
    BY <1>0, <2>6, EndOfStopMoves DEF stop_bridge
  <2>7. CASE start_bridge(c)
    BY <1>0, <2>7, GotoMoves DEF start_bridge
  <2>8. CASE Spawn(c)
    BY <1>0, <2>8, SpawnMoves DEF Spawn
  <2>9. CASE WritePid(c)
    BY <1>0, <2>9, ReturnMoves, GotoMoves DEF WritePid, StartFails
  <2>10. CASE PublishPid(c)
    BY <1>0, <2>10, ReturnMoves, GotoMoves DEF PublishPid, StartFails
  <2>11. CASE GraceEnds(c)
    BY <1>0, <2>11, ReturnMoves, GotoMoves DEF GraceEnds
  <2>12. CASE ReapChild(c)
    BY <1>0, <2>12, ReturnMoves DEF ReapChild
  <2>13. CASE \E ok \in BOOLEAN : Preflight(c, ok)
    BY <1>0, <2>13, ReturnMoves, GotoMoves DEF Preflight
  <2> QED BY <1>2, <2>1, <2>2, <2>3, <2>4, <2>5, <2>6, <2>7, <2>8, <2>9, <2>10, <2>11,
             <2>12, <2>13 DEF CtlScript
<1>3. CASE Processes
  BY <1>3, ProcessMoves
<1>4. CASE PowerCut
  BY <1>0, <1>4, CutMoves
<1> QED BY <1>1, <1>2, <1>3, <1>4 DEF CtlStep

LEMMA TurnsAreKept ==
  ASSUME CtlTypeOK, ScriptsTakeTurns, CtlStep
  PROVE  ScriptsTakeTurns'
<1>0. ctl \in [Callers -> Script]
  BY DEF CtlTypeOK, Script
<1> USE DEF ScriptsTakeTurns, At
<1>1. ASSUME NEW c \in Callers, NEW command \in Commands, Invoke(c, command)
      PROVE  ScriptsTakeTurns'
  <2>1. \A d \in Callers \ {c} : ctl'[d] = ctl[d]
    BY <1>0, <1>1, InvokeMoves
  <2> QED BY <1>1, <2>1 DEF Invoke, Idle
<1>2. ASSUME NEW c \in Callers, CtlScript(c) \/ \E ok \in BOOLEAN : Preflight(c, ok)
      PROVE  ScriptsTakeTurns'
  BY <1>2, ScriptMoves
<1>3. CASE Processes
  BY <1>3, ProcessMoves
<1>4. CASE PowerCut
  BY <1>0, <1>4, CutMoves
<1> QED BY <1>1, <1>2, <1>3, <1>4 DEF CtlStep

---------------------------------------------------------------------------
(* The bridge.                                                             *)

(* A script that is alone answers for all of them.                         *)
LEMMA AloneAnswers ==
  ASSUME ScriptsTakeTurns, ~overlap, NEW c \in Callers, ctl[c].pc # "idle",
         \A d \in Callers \ {c} : ctl'[d] = ctl[d],
         ctl'[c].pc = "idle" => Settled', KnownTo(c)'
  PROVE  /\ Idle' => Settled'
         /\ \A d \in Callers : KnownTo(d)'
<1>1. \A d \in Callers \ {c} : ctl[d].pc = "idle"
  BY DEF ScriptsTakeTurns, At
<1>2. \A d \in Callers \ {c} : KnownTo(d)'
  BY <1>1 DEF KnownTo, At
<1> QED BY <1>2 DEF Idle, At

LEMMA ScriptKnowsBridge ==
  ASSUME CtlTypeOK, ScriptsAreInOrder, NEW c \in Callers, KnownTo(c), ~overlap,
         CtlScript(c) \/ \E ok \in BOOLEAN : Preflight(c, ok)
  PROVE  (ctl'[c].pc = "idle" => Settled') /\ KnownTo(c)'
<1>0. /\ ctl \in [Callers -> Script] /\ proc \in [Pids -> Kinds]
      /\ pidFile \in Pids \cup {NoPid}
  BY DEF CtlTypeOK, Script
<1> USE CtlAssumption DEF At, Labels, KnownTo, Settled
<1>1. CASE read_bridge_pid(c)
  <2>1. Settled /\ UNCHANGED <<proc, pidFile>>
    BY <1>1 DEF read_bridge_pid
  <2>2. /\ ctl'[c].pc = IF pidFile = NoPid THEN "missing" ELSE "check"
        /\ ctl'[c].pid = pidFile
    BY <1>0, <1>1, ReadMoves
  <2>3. CASE pidFile = NoPid
    BY <2>1, <2>2, <2>3
  <2>4. CASE pidFile # NoPid
    BY <2>1, <2>2, <2>4
  <2> QED BY <2>3, <2>4
<1>2. CASE CheckProcess(c)
  <2>1. /\ \/ Goto(c, "running")
           \/ Goto(c, "stale") /\ proc[ctl[c].pid] # "bridge"
        /\ UNCHANGED <<proc, pidFile, pidTmp>> /\ ctl[c].pc = "check"
    BY <1>2 DEF CheckProcess, is_bridge_process, ScriptsAreInOrder
  <2> QED BY <1>0, <2>1, GotoMoves
<1>3. CASE ReportOnly(c)
  BY <1>0, <1>3, ReportMoves DEF ReportOnly
<1>4. CASE service_status(c)
  <2>1. NoBridge
    BY <1>0, <1>4 DEF service_status, NoBridge
  <2> QED BY <1>0, <1>4, <2>1, ReturnMoves DEF service_status, NoBridge
<1>5. CASE KillBridge(c)
  <2>1. /\ ctl[c].pid \in Pids /\ ctl[c].pid = pidFile /\ Settled /\ pidFile' = pidFile
    BY <1>0, <1>5 DEF KillBridge, ScriptsAreInOrder
  <2>2. CASE proc[ctl[c].pid] = "none"
    BY <1>0, <1>5, <2>1, <2>2, ReturnMoves DEF KillBridge
  <2>3. CASE proc[ctl[c].pid] # "none"
    <3>1. Goto(c, "unlink")
      BY <1>5, <2>3 DEF KillBridge
    <3>2. NoBridge'
      BY <1>0, <1>5, <2>1, <2>3 DEF KillBridge, NoBridge, Gone, Kinds
    <3> QED BY <1>0, <3>1, <3>2, GotoMoves
  <2> QED BY <2>2, <2>3
<1>6. CASE stop_bridge(c)
  <2>1. NoBridge
    BY <1>0, <1>6 DEF stop_bridge, NoBridge
  <2> QED BY <1>0, <1>6, <2>1, EndOfStopMoves DEF stop_bridge, NoBridge
<1>7. CASE start_bridge(c)
  <2>1. NoBridge
    BY <1>0, <1>7 DEF start_bridge, NoBridge
  <2> QED BY <1>0, <1>7, <2>1, GotoMoves DEF start_bridge, NoBridge
<1>8. CASE Spawn(c)
  <2>1. NoBridge
    BY <1>8 DEF Spawn
  <2>2. CASE ctl'[c].pc = "idle" /\ proc' = proc
    BY <2>1, <2>2 DEF NoBridge
  <2>3. ASSUME NEW p \in Pids, ctl'[c].pc = "write", ctl'[c].pid = p,
               proc' = [proc EXCEPT ![p] = "shell"]
        PROVE  (ctl'[c].pc = "idle" => Settled') /\ KnownTo(c)'
    <3>1. OnlyBridge(ctl[c].pid)'
      BY <1>0, <2>1, <2>3 DEF NoBridge, OnlyBridge
    <3> QED BY <2>3, <3>1
  <2> QED BY <1>0, <1>8, <2>2, <2>3, SpawnMoves
<1>9. CASE WritePid(c)
  <2>1. CASE Goto(c, "publish") /\ pidTmp' = ctl[c].pid /\ UNCHANGED proc
    BY <1>0, <1>9, <2>1, GotoMoves DEF WritePid, OnlyBridge
  <2>2. CASE StartFails(c)
    <3>1. /\ ctl[c].pid \in Pids /\ OnlyBridge(ctl[c].pid)
      BY <1>9 DEF WritePid, ScriptsAreInOrder
    <3>2. NoBridge'
      BY <2>2, <3>1, StartFailsMoves DEF OnlyBridge, NoBridge
    <3> QED BY <1>0, <2>2, <3>2, StartFailsMoves, ReturnMoves DEF NoBridge
  <2> QED BY <1>9, <2>1, <2>2 DEF WritePid
<1>10. CASE PublishPid(c)
  <2>1. /\ pidTmp = ctl[c].pid /\ ctl[c].pid \in Pids /\ OnlyBridge(ctl[c].pid)
    BY <1>10 DEF PublishPid, ScriptsAreInOrder
  <2>2. CASE Goto(c, "grace") /\ pidFile' = pidTmp /\ UNCHANGED proc
    BY <1>0, <2>1, <2>2, GotoMoves DEF OnlyBridge
  <2>3. CASE StartFails(c)
    <3>1. NoBridge'
      BY <2>1, <2>3, StartFailsMoves DEF OnlyBridge, NoBridge
    <3> QED BY <1>0, <2>3, <3>1, StartFailsMoves, ReturnMoves DEF NoBridge
  <2> QED BY <1>10, <2>2, <2>3 DEF PublishPid
<1>11. CASE GraceEnds(c)
  <2>1. /\ ctl[c].pid \in Pids /\ OnlyBridge(ctl[c].pid) /\ pidFile = ctl[c].pid
        /\ pidFile' = pidFile
    BY <1>11 DEF GraceEnds, ScriptsAreInOrder
  <2>2. CASE is_bridge_process(ctl[c].pid)
    <3>1. Return(c, TRUE) /\ UNCHANGED proc
      BY <1>11, <2>2 DEF GraceEnds
    <3>2. Settled'
      BY <2>1, <2>2, <3>1 DEF is_bridge_process, OnlyBridge
    <3> QED BY <1>0, <3>1, <3>2, ReturnMoves
  <2>3. CASE ~is_bridge_process(ctl[c].pid)
    <3>1. Goto(c, "reap") /\ proc' = [proc EXCEPT ![ctl[c].pid] = "zombie"]
      BY <1>11, <2>3 DEF GraceEnds
    <3>2. NoBridge'
      BY <1>0, <2>1, <3>1 DEF NoBridge, OnlyBridge
    <3> QED BY <1>0, <3>1, <3>2, GotoMoves
  <2> QED BY <2>2, <2>3
<1>12. CASE ReapChild(c)
  <2>1. NoBridge'
    BY <1>0, <1>12 DEF ReapChild, NoBridge
  <2> QED BY <1>0, <1>12, <2>1, ReturnMoves DEF ReapChild, NoBridge
<1>13. CASE \E ok \in BOOLEAN : Preflight(c, ok)
  <2>1. NoBridge /\ UNCHANGED proc /\ (Goto(c, "spawn") \/ Return(c, FALSE))
    BY <1>13 DEF Preflight
  <2> QED BY <1>0, <2>1, GotoMoves, ReturnMoves DEF NoBridge
<1> QED BY <1>1, <1>2, <1>3, <1>4, <1>5, <1>6, <1>7, <1>8, <1>9, <1>10, <1>11,
           <1>12, <1>13 DEF CtlScript

LEMMA BridgeStaysKnown ==
  ASSUME CtlTypeOK, ScriptsAreInOrder, ScriptsTakeTurns, BridgeIsKnown, CtlStep
  PROVE  BridgeIsKnown'
<1> SUFFICES ASSUME ~overlap' PROVE (Idle' => Settled') /\ \A d \in Callers : KnownTo(d)'
    BY DEF BridgeIsKnown
<1>0. ctl \in [Callers -> Script]
  BY DEF CtlTypeOK, Script
<1>1. ASSUME NEW c \in Callers, NEW command \in Commands, Invoke(c, command)
      PROVE  (Idle' => Settled') /\ \A d \in Callers : KnownTo(d)'
  <2>1. ~overlap /\ Idle /\ UNCHANGED <<proc, pidFile, pidTmp>>
    BY <1>1 DEF Invoke
  <2>2. ctl'[c].pc = "read" /\ \A d \in Callers \ {c} : ctl'[d] = ctl[d]
    BY <1>0, <1>1, InvokeMoves
  <2>3. Settled'
    BY <2>1 DEF BridgeIsKnown, Settled
  <2>4. KnownTo(c)'
    BY <2>2, <2>3 DEF KnownTo, At
  <2>5. \A d \in Callers \ {c} : KnownTo(d)'
    BY <2>1, <2>2 DEF KnownTo, At, Idle
  <2> QED BY <2>3, <2>4, <2>5
<1>2. ASSUME NEW c \in Callers, CtlScript(c) \/ \E ok \in BOOLEAN : Preflight(c, ok)
      PROVE  (Idle' => Settled') /\ \A d \in Callers : KnownTo(d)'
  <2>1. /\ ~overlap /\ ctl[c].pc # "idle"
        /\ \A d \in Callers \ {c} : ctl'[d] = ctl[d]
    BY <1>2, ScriptMoves
  <2>2. KnownTo(c)
    BY <2>1 DEF BridgeIsKnown
  <2>3. (ctl'[c].pc = "idle" => Settled') /\ KnownTo(c)'
    BY <1>2, <2>1, <2>2, ScriptKnowsBridge
  <2> QED BY <2>1, <2>3, AloneAnswers
<1>3. CASE Processes
  <2>1. ~overlap /\ UNCHANGED <<pidFile, pidTmp, ctl>>
    BY <1>3, ProcessMoves
  <2>2. \A q \in Pids : /\ proc'[q] = "shell" => proc[q] = "shell"
                        /\ proc'[q] = "bridge" => proc[q] \in {"bridge", "shell"}
    BY <1>3, ProcessMoves
  <2>3. /\ Settled => Settled'
        /\ NoBridge => NoBridge'
        /\ \A q : OnlyBridge(q) => OnlyBridge(q)'
    BY <2>1, <2>2 DEF Settled, NoBridge, OnlyBridge
  <2>4. Idle' => Settled'
    BY <2>1, <2>3 DEF BridgeIsKnown, Idle, At
  <2>5. ASSUME NEW d \in Callers PROVE KnownTo(d)'
    <3>1. KnownTo(d)
      BY <2>1 DEF BridgeIsKnown
    <3>2. At(d, {"stale"}) => proc'[ctl[d].pid] # "bridge"
      BY <2>2, <3>1 DEF KnownTo, At, ScriptsAreInOrder, Settled
    <3> QED BY <2>1, <2>3, <3>1, <3>2 DEF KnownTo, At
  <2> QED BY <2>4, <2>5
<1>4. CASE PowerCut
  <2>1. Settled'
    BY <1>4 DEF PowerCut, Settled
  <2>2. \A d \in Callers : KnownTo(d)'
    BY <1>0, <1>4, CutMoves DEF KnownTo, At
  <2> QED BY <2>1, <2>2
<1> QED BY <1>1, <1>2, <1>3, <1>4 DEF CtlStep

---------------------------------------------------------------------------
(* What the modules that extend BridgeCtl use.                             *)

(* A bridge appears where there was none only when a start spawns it.      *)
LEMMA WhoSpawns ==
  ASSUME CtlTypeOK, ScriptsAreInOrder, NEW c \in Callers,
         CtlScript(c) \/ \E ok \in BOOLEAN : Preflight(c, ok),
         NEW q \in Pids, proc'[q] \in {"shell", "bridge"}, proc[q] \notin {"shell", "bridge"}
  PROVE  /\ ctl[c].pc = "spawn" /\ Runs(c, {"start"}) /\ proc[q] = "none"
         /\ \A p \in Pids \ {q} : proc'[p] = proc[p]
<1>0. proc \in [Pids -> Kinds]
  BY DEF CtlTypeOK
<1>1. ~KillBridge(c)
  BY KillMoves
<1>2. CASE Spawn(c)
  BY <1>0, <1>2 DEF Spawn, FreePid, ScriptsAreInOrder, At
<1>3. ~WritePid(c) /\ ~PublishPid(c)
  BY <1>0, StartFailsMoves DEF WritePid, PublishPid
<1>4. ~GraceEnds(c) /\ ~ReapChild(c)
  BY <1>0 DEF GraceEnds, ReapChild
<1>5. ~(\/ read_bridge_pid(c) \/ CheckProcess(c) \/ ReportOnly(c)
        \/ service_status(c) \/ stop_bridge(c) \/ start_bridge(c)
        \/ \E ok \in BOOLEAN : Preflight(c, ok))
  BY DEF read_bridge_pid, CheckProcess, ReportOnly, service_status,
         stop_bridge, start_bridge, Preflight
<1> QED BY <1>1, <1>2, <1>3, <1>4, <1>5 DEF CtlScript

(* No script gets to the spawn but through a preflight that succeeds.      *)
LEMMA WhoMaySpawn ==
  ASSUME CtlTypeOK, NEW c \in Callers, CtlScript(c) \/ Preflight(c, FALSE)
  PROVE  ctl'[c].pc # "spawn"
<1>0. ctl \in [Callers -> Script]
  BY DEF CtlTypeOK, Script
<1> USE DEF Labels
<1>1. CASE read_bridge_pid(c)
  BY <1>0, <1>1, ReadMoves DEF CtlTypeOK
<1>2. CASE CheckProcess(c)
  <2>1. \E label \in {"running", "stale"} : Goto(c, label)
    BY <1>2 DEF CheckProcess
  <2> QED BY <1>0, <2>1, GotoMoves
<1>3. CASE ReportOnly(c) \/ stop_bridge(c) \/ Spawn(c)
  BY <1>0, <1>3, ReportMoves, EndOfStopMoves, SpawnMoves DEF stop_bridge
<1>4. CASE service_status(c) \/ KillBridge(c) \/ start_bridge(c)
  BY <1>0, <1>4, ReturnMoves, GotoMoves DEF service_status, KillBridge, start_bridge
<1>5. CASE WritePid(c) \/ PublishPid(c)
  BY <1>0, <1>5, ReturnMoves, GotoMoves DEF WritePid, PublishPid, StartFails
<1>6. CASE GraceEnds(c) \/ ReapChild(c)
  BY <1>0, <1>6, ReturnMoves, GotoMoves DEF GraceEnds, ReapChild
<1>7. CASE Preflight(c, FALSE)
  BY <1>0, <1>7, ReturnMoves DEF Preflight
<1> QED BY <1>1, <1>2, <1>3, <1>4, <1>5, <1>6, <1>7 DEF CtlScript

(* A script keeps its command, but for a restart that goes on as a start.  *)
LEMMA CommandStays ==
  ASSUME CtlTypeOK, NEW c \in Callers, ~Runs(c, {"restart"}),
         CtlScript(c) \/ \E ok \in BOOLEAN : Preflight(c, ok)
  PROVE  ctl'[c].cmd = ctl[c].cmd
<1>0. ctl \in [Callers -> Script]
  BY DEF CtlTypeOK, Script
<1> USE DEF Labels
<1>1. CASE read_bridge_pid(c)
  BY <1>0, <1>1, ReadMoves DEF CtlTypeOK
<1>2. CASE CheckProcess(c)
  <2>1. \E label \in {"running", "stale"} : Goto(c, label)
    BY <1>2 DEF CheckProcess
  <2> QED BY <1>0, <2>1, GotoMoves
<1>3. CASE ReportOnly(c) \/ stop_bridge(c) \/ Spawn(c)
  BY <1>0, <1>3, ReportMoves, EndOfStopMoves, SpawnMoves DEF stop_bridge
<1>4. CASE service_status(c) \/ KillBridge(c) \/ start_bridge(c)
  BY <1>0, <1>4, ReturnMoves, GotoMoves DEF service_status, KillBridge, start_bridge
<1>5. CASE WritePid(c) \/ PublishPid(c)
  BY <1>0, <1>5, ReturnMoves, GotoMoves DEF WritePid, PublishPid, StartFails
<1>6. CASE GraceEnds(c) \/ ReapChild(c)
  BY <1>0, <1>6, ReturnMoves, GotoMoves DEF GraceEnds, ReapChild
<1>7. CASE \E ok \in BOOLEAN : Preflight(c, ok)
  BY <1>0, <1>7, ReturnMoves, GotoMoves DEF Preflight
<1> QED BY <1>1, <1>2, <1>3, <1>4, <1>5, <1>6, <1>7 DEF CtlScript

(* A stop that has ended, whatever its exit status, and an is-running that *)
(* has answered no mean that there is no bridge.                           *)
LEMMA NoneWhenStopped ==
  ASSUME CtlInv, NEW c \in Callers, ~overlap,
         CtlScript(c) \/ \E ok \in BOOLEAN : Preflight(c, ok),
         ctl'[c].pc = "idle",
         Runs(c, {"stop"}) \/ (Runs(c, {"is-running"}) /\ ~ctl'[c].ok)
  PROVE  NoBridge /\ NoBridge'
<1>0. /\ ctl \in [Callers -> Script] /\ proc \in [Pids -> Kinds] /\ KnownTo(c)
      /\ CtlTypeOK /\ ScriptsAreInOrder
  BY DEF CtlInv, CtlTypeOK, Script, BridgeIsKnown
<1> USE CtlAssumption DEF At, Labels, Runs
<1>1. \/ ReportOnly(c) /\ ctl[c].pc \in {"stale", "missing"}
      \/ stop_bridge(c)
      \/ KillBridge(c) /\ proc[ctl[c].pid] = "none"
  <2>1. ~read_bridge_pid(c)
    BY <1>0, ReadMoves DEF CtlTypeOK
  <2>2. ~CheckProcess(c)
    <3>1. ASSUME CheckProcess(c)
          PROVE  \E label \in {"running", "stale"} : Goto(c, label)
      BY <3>1 DEF CheckProcess
    <3> QED BY <1>0, <3>1, GotoMoves
  <2>3. ReportOnly(c) => ctl[c].pc \in {"stale", "missing"}
    BY <1>0, ReportMoves DEF ReportOnly
  <2>4. ~service_status(c) /\ ~start_bridge(c)
    BY DEF service_status, start_bridge
  <2>5. KillBridge(c) => proc[ctl[c].pid] = "none"
    BY <1>0, GotoMoves DEF KillBridge
  <2>6. ~Spawn(c) /\ ~ \E ok \in BOOLEAN : Preflight(c, ok)
    BY <1>0 DEF Spawn, Preflight, ScriptsAreInOrder
  <2>7. ~WritePid(c) /\ ~PublishPid(c) /\ ~GraceEnds(c) /\ ~ReapChild(c)
    BY <1>0 DEF WritePid, PublishPid, GraceEnds, ReapChild, ScriptsAreInOrder
  <2> QED BY <2>1, <2>2, <2>3, <2>4, <2>5, <2>6, <2>7 DEF CtlScript
<1>2. NoBridge
  BY <1>0, <1>1 DEF KnownTo, NoBridge, Settled, ReportOnly, stop_bridge, KillBridge,
                    ScriptsAreInOrder
<1>3. UNCHANGED proc
  BY <1>1 DEF ReportOnly, stop_bridge, KillBridge
<1> QED BY <1>2, <1>3 DEF NoBridge

LEMMA CtlInvAtFirst == CtlInit => CtlInv
<1> SUFFICES ASSUME CtlInit PROVE CtlInv
    OBVIOUS
<1>1. [pc |-> "idle", cmd |-> "status", pid |-> NoPid, ok |-> TRUE] \in Script
  BY DEF Script, Labels, Commands
<1>2. ctl \in [Callers -> Script] /\ \A c \in Callers : ctl[c].pc = "idle"
  BY <1>1 DEF CtlInit
<1>3. CtlTypeOK
  BY <1>2 DEF CtlInit, CtlTypeOK, Script, Kinds
<1>4. Settled
  BY DEF CtlInit, Settled
<1>5. \A c \in Callers : KnownTo(c)
  BY <1>2 DEF KnownTo, At
<1> QED BY <1>2, <1>3, <1>4, <1>5
        DEF CtlInv, ScriptsAreInOrder, ScriptsTakeTurns, BridgeIsKnown, At

LEMMA CtlInvStays ==
  CtlInv /\ (CtlStep \/ UNCHANGED ctlVars) => CtlInv'
<1>1. ASSUME CtlInv, CtlStep PROVE CtlInv'
  BY <1>1, CtlTypesStay, OrderIsKept, TurnsAreKept, BridgeStaysKnown
     DEF CtlInv
<1>2. ASSUME CtlInv, UNCHANGED ctlVars PROVE CtlInv'
  BY <1>2 DEF CtlInv, ctlVars, CtlTypeOK, ScriptsAreInOrder, ScriptsTakeTurns, BridgeIsKnown,
              At, Runs, Idle, Settled, KnownTo, NoBridge, OnlyBridge
<1> QED BY <1>1, <1>2

(* Nobody but the script itself, an Invoke or a power cut moves a script.  *)
LEMMA WhoMoves ==
  ASSUME CtlTypeOK, CtlStep, NEW c \in Callers, ctl'[c] # ctl[c]
  PROVE  \/ CtlScript(c) \/ \E ok \in BOOLEAN : Preflight(c, ok)
         \/ ctl[c].pc = "idle"
         \/ PowerCut
<1>0. ctl \in [Callers -> Script]
  BY DEF CtlTypeOK, Script
<1>1. ASSUME NEW d \in Callers, NEW command \in Commands, Invoke(d, command)
      PROVE  ctl[c].pc = "idle"
  BY <1>0, <1>1, InvokeMoves DEF Invoke, At
<1>2. ASSUME NEW d \in Callers, CtlScript(d) \/ \E ok \in BOOLEAN : Preflight(d, ok)
      PROVE  d = c
  BY <1>2, ScriptMoves
<1>3. ~Processes
  BY ProcessMoves
<1> QED BY <1>1, <1>2, <1>3 DEF CtlStep

(* A script that ends a start without success leaves no bridge.            *)
LEMMA FailureLeavesNothing ==
  ASSUME CtlInv, NEW c \in Callers, ~overlap, Runs(c, {"start"}),
         CtlScript(c) \/ \E ok \in BOOLEAN : Preflight(c, ok),
         ctl'[c].pc = "idle", ~ctl'[c].ok
  PROVE  NoBridge'
<1>0. /\ ctl \in [Callers -> Script] /\ proc \in [Pids -> Kinds] /\ KnownTo(c)
      /\ CtlTypeOK /\ ScriptsAreInOrder
  BY DEF CtlInv, CtlTypeOK, Script, BridgeIsKnown
<1> USE DEF At, Labels, Runs
<1>1. CASE \/ read_bridge_pid(c) \/ CheckProcess(c) \/ ReportOnly(c)
           \/ service_status(c) \/ stop_bridge(c) \/ KillBridge(c)
           \/ start_bridge(c)
  <2>1. ~read_bridge_pid(c)
    BY <1>0, ReadMoves DEF CtlTypeOK
  <2>2. ~CheckProcess(c)
    <3>1. ASSUME CheckProcess(c)
          PROVE  \E label \in {"running", "stale"} : Goto(c, label)
      BY <3>1 DEF CheckProcess
    <3> QED BY <1>0, <3>1, GotoMoves
  <2>3. ~ReportOnly(c)
    BY <1>0, ReportMoves
  <2>4. ~service_status(c) /\ ~stop_bridge(c) /\ ~KillBridge(c)
    BY DEF service_status, stop_bridge, KillBridge
  <2>5. ~start_bridge(c)
    BY <1>0, GotoMoves DEF start_bridge
  <2> QED BY <1>1, <2>1, <2>2, <2>3, <2>4, <2>5
<1>2. CASE Spawn(c)
  BY <1>0, <1>2, SpawnMoves DEF Spawn, KnownTo, NoBridge
<1>3. CASE WritePid(c) \/ PublishPid(c)
  <2>1. StartFails(c)
    BY <1>0, <1>3, GotoMoves DEF WritePid, PublishPid
  <2>2. ctl[c].pid \in Pids /\ OnlyBridge(ctl[c].pid)
    BY <1>0, <1>3 DEF WritePid, PublishPid, KnownTo, ScriptsAreInOrder
  <2> QED BY <1>0, <2>1, <2>2, StartFailsMoves DEF OnlyBridge, NoBridge
<1>4. CASE GraceEnds(c)
  <2>1. Return(c, TRUE) \/ Goto(c, "reap")
    BY <1>4 DEF GraceEnds
  <2> QED BY <1>0, <2>1, ReturnMoves, GotoMoves
<1>5. CASE ReapChild(c)
  BY <1>0, <1>5 DEF ReapChild, KnownTo, NoBridge
<1>6. CASE \E ok \in BOOLEAN : Preflight(c, ok)
  BY <1>0, <1>6 DEF Preflight, KnownTo, NoBridge
<1> QED BY <1>1, <1>2, <1>3, <1>4, <1>5, <1>6 DEF CtlScript

LEMMA CtlKeepsItsWord ==
  ASSUME CtlInv, CtlStep \/ UNCHANGED ctlVars
  PROVE  /\ BridgeIsTracked
         /\ [\A c \in Callers :
              ~overlap /\ Runs(c, {"start"}) /\ ~At(c, {"idle"}) /\ At(c, {"idle"})' /\ ~ctl'[c].ok
                => \A p \in Pids : proc'[p] \notin {"shell", "bridge"}]_ctlVars
<1>1. BridgeIsTracked
  BY DEF CtlInv, BridgeIsTracked, BridgeIsKnown, Settled, Untracked
<1>2. ASSUME NEW c \in Callers, CtlStep, ~overlap, Runs(c, {"start"}), ~At(c, {"idle"}),
             At(c, {"idle"})', ~ctl'[c].ok
      PROVE  \A p \in Pids : proc'[p] \notin {"shell", "bridge"}
  <2>1. ctl'[c] # ctl[c]
    BY <1>2 DEF At
  <2>2. CASE PowerCut
    BY <2>2 DEF PowerCut
  <2>3. CASE CtlScript(c) \/ \E ok \in BOOLEAN : Preflight(c, ok)
    BY <1>2, <2>3, FailureLeavesNothing DEF At, NoBridge
  <2> QED BY <1>2, <2>1, <2>2, <2>3, WhoMoves DEF CtlInv, At
<1> QED BY <1>1, <1>2

=============================================================================
