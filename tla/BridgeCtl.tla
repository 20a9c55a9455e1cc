----------------------------- MODULE BridgeCtl -----------------------------
(***************************************************************************)
(* The control script of the LoxBerry plugin, bin/bridge_ctl.sh, run by    *)
(* several callers at once: the web page of each browser session, and the  *)
(* upgrade hooks.  The state is what the script reads and writes, the PID  *)
(* file and the process table, and where each running script stands.       *)
(* Processes end, and their PIDs are handed out again, at any moment; the  *)
(* commands that write the PID file may fail, but no rm does.              *)
(***************************************************************************)
EXTENDS Naturals, FiniteSets

CONSTANTS
    Callers,    \* who runs the script: browser sessions, the upgrade hooks
    Pids,       \* the process identifiers of the machine
    NoPid       \* no identifier: the file is missing or holds no number

ASSUME CtlAssumption == NoPid \notin Pids

VARIABLES
    proc,     \* proc[p]: what runs under PID p
    pidFile,  \* contents of smart-home-bridge.pid
    pidTmp,   \* contents of smart-home-bridge.pid.tmp
    ctl,      \* ctl[c]: the script c runs, its BRIDGE_PID and its exit status
    overlap   \* have two scripts ever been running at once?

ctlVars == <<proc, pidFile, pidTmp, ctl, overlap>>

Commands == {"start", "stop", "restart", "status", "is-running"}

\* "shell" is the background child of start before it executes the bridge,
\* "dying" a bridge that SIGTERM was sent to, "zombie" a child of a running
\* script that has ended, "tool" one of the bridge's other commands
\* (smart-home-bridge-status, -config-check, -door-command), "other" a
\* process that has nothing to do with it.  "stray" is a bridge whose start
\* failed to record it.
Kinds == {"none", "shell", "bridge", "dying", "zombie", "tool", "other", "stray"}

Labels == {"idle", "read", "check", "running", "stale", "missing", "unlink",
           "preflight", "spawn", "write", "publish", "grace", "reap"}

CtlTypeOK ==
    /\ proc \in [Pids -> Kinds]
    /\ pidFile \in Pids \cup {NoPid}
    /\ pidTmp \in Pids \cup {NoPid}
    /\ ctl \in [Callers -> [pc : Labels, cmd : Commands,
                            pid : Pids \cup {NoPid}, ok : BOOLEAN]]
    /\ overlap \in BOOLEAN

\* No bridge, or one that start left running.
CtlInit ==
    /\ pidFile \in Pids \cup {NoPid}
    /\ proc = [p \in Pids |-> IF p = pidFile THEN "bridge" ELSE "none"]
    /\ pidTmp = NoPid
    /\ ctl = [c \in Callers |->
                [pc |-> "idle", cmd |-> "status", pid |-> NoPid, ok |-> TRUE]]
    /\ overlap = FALSE

-----------------------------------------------------------------------------
(* Helpers.                                                                *)

At(c, labels) == ctl[c].pc \in labels

Runs(c, commands) == ctl[c].cmd \in commands

Idle == \A c \in Callers : At(c, {"idle"})

Goto(c, label) == ctl' = [ctl EXCEPT ![c].pc = label]

\* The script ends with exit status 0 (ok) or another one.
Returned(c, ok) ==
    [ctl EXCEPT ![c] = [@ EXCEPT !.pc = "idle", !.pid = NoPid, !.ok = ok]]

Return(c, ok) == ctl' = Returned(c, ok)

\* restart is stop_bridge, then start_bridge.
EndOfStop(c) ==
    IF Runs(c, {"restart"})
    THEN ctl' = [ctl EXCEPT ![c] = [@ EXCEPT !.cmd = "start", !.pc = "read"]]
    ELSE Return(c, TRUE)

\* kill -0 succeeds and the command line contains $VENV_BIN/smart-home-bridge,
\* as those of the other commands do.
is_bridge_process(p) ==
    p \in Pids /\ proc[p] \in {"bridge", "dying", "stray", "tool"}

\* The script whose background child p is.
HasChild(c, p) ==
    ctl[c].pid = p /\ At(c, {"write", "publish", "grace", "reap"})

\* A process that has ended is a zombie until its parent is gone or waits.
Gone(p) == IF \E c \in Callers : HasChild(c, p) THEN "zombie" ELSE "none"

FreePid(p) == proc[p] = "none"

\* set -e ends a start that cannot write the PID file; its child goes on.
StartFails(c) ==
    /\ Return(c, FALSE)
    /\ proc' = [proc EXCEPT ![ctl[c].pid] =
                  IF @ \in {"shell", "bridge"} THEN "stray"
                  ELSE IF @ = "zombie" THEN "none" ELSE @]

-----------------------------------------------------------------------------
(* The script, one action per command of it that touches shared state.     *)

Invoke(c, command) ==
    /\ At(c, {"idle"})
    /\ ctl' = [ctl EXCEPT ![c] = [@ EXCEPT !.pc = "read", !.cmd = command]]
    /\ overlap' = (overlap \/ ~Idle)
    /\ UNCHANGED <<proc, pidFile, pidTmp>>

read_bridge_pid(c) ==
    /\ At(c, {"read"})
    /\ ctl' = [ctl EXCEPT ![c] =
                [@ EXCEPT !.pid = pidFile,
                          !.pc = IF pidFile = NoPid THEN "missing" ELSE "check"]]
    /\ UNCHANGED <<proc, pidFile, pidTmp, overlap>>

\* Mutant: start does not look for a bridge that runs already.
CheckProcess_NotForStart(c) ==
    /\ At(c, {"check"})
    /\ Goto(c, IF is_bridge_process(ctl[c].pid) /\ ~Runs(c, {"start"})
               THEN "running" ELSE "stale")
    /\ UNCHANGED <<proc, pidFile, pidTmp, overlap>>

CheckProcess(c) ==
    /\ At(c, {"check"})
    /\ Goto(c, IF is_bridge_process(ctl[c].pid) THEN "running" ELSE "stale")
    /\ UNCHANGED <<proc, pidFile, pidTmp, overlap>>

\* is-running, the status of a running bridge, and start on one.
ReportOnly(c) ==
    /\ \/ At(c, {"running"}) /\ Runs(c, {"start", "status", "is-running"})
       \/ At(c, {"stale", "missing"}) /\ Runs(c, {"is-running"})
    /\ Return(c, At(c, {"running"}))
    /\ UNCHANGED <<proc, pidFile, pidTmp, overlap>>

service_status(c) ==
    /\ At(c, {"stale", "missing"}) /\ Runs(c, {"status"})
    /\ pidFile' = NoPid
    /\ Return(c, FALSE)
    /\ UNCHANGED <<proc, pidTmp, overlap>>

\* Mutant: the PID file goes, the process stays.
KillBridge_NoKill(c) ==
    /\ At(c, {"running"}) /\ Runs(c, {"stop", "restart"})
    /\ Goto(c, "unlink")
    /\ UNCHANGED <<proc, pidFile, pidTmp, overlap>>

\* kill reaches whatever has the PID by now; on a PID that is gone it fails
\* and set -e ends the script before it removes the PID file.
KillBridge(c) ==
    LET p == ctl[c].pid IN
    /\ At(c, {"running"}) /\ Runs(c, {"stop", "restart"})
    /\ IF proc[p] = "none"
       THEN Return(c, FALSE) /\ UNCHANGED proc
       ELSE /\ Goto(c, "unlink")
            /\ proc' = [proc EXCEPT ![p] =
                          CASE @ \in {"bridge", "stray"} -> "dying"
                            [] @ \in {"shell", "tool", "other"} -> Gone(p)
                            [] OTHER -> @]
    /\ UNCHANGED <<pidFile, pidTmp, overlap>>

stop_bridge(c) ==
    /\ Runs(c, {"stop", "restart"})
    /\ \/ At(c, {"unlink", "stale"}) /\ pidFile' = NoPid
       \/ At(c, {"missing"}) /\ UNCHANGED pidFile
    /\ EndOfStop(c)
    /\ UNCHANGED <<proc, pidTmp, overlap>>

start_bridge(c) ==
    /\ At(c, {"stale", "missing"}) /\ Runs(c, {"start"})
    /\ pidFile' = NoPid
    /\ Goto(c, "preflight")
    /\ UNCHANGED <<proc, pidTmp, overlap>>

\* smart-home-bridge-config-check accepts the configuration or not.
Preflight(c, ok) ==
    /\ At(c, {"preflight"})
    /\ IF ok THEN Goto(c, "spawn") ELSE Return(c, FALSE)
    /\ UNCHANGED <<proc, pidFile, pidTmp, overlap>>

\* A fork that finds no PID ends the script.
Spawn(c) ==
    /\ At(c, {"spawn"})
    /\ \/ \E p \in Pids :
            /\ FreePid(p)
            /\ proc' = [proc EXCEPT ![p] = "shell"]
            /\ ctl' = [ctl EXCEPT ![c] = [@ EXCEPT !.pid = p, !.pc = "write"]]
       \/ /\ ~ \E p \in Pids : FreePid(p)
          /\ Return(c, FALSE)
          /\ UNCHANGED proc
    /\ UNCHANGED <<pidFile, pidTmp, overlap>>

\* printf to the temporary file may fail, before or after it is emptied.
WritePid(c) ==
    /\ At(c, {"write"})
    /\ \/ Goto(c, "publish") /\ pidTmp' = ctl[c].pid /\ UNCHANGED proc
       \/ StartFails(c) /\ pidTmp' \in {pidTmp, NoPid}
    /\ UNCHANGED <<pidFile, overlap>>

\* mv of the temporary file, which another start may have moved away.
PublishPid(c) ==
    /\ At(c, {"publish"})
    /\ \/ /\ Goto(c, "grace") /\ pidFile' = pidTmp /\ pidTmp' = NoPid
          /\ UNCHANGED proc
       \/ StartFails(c) /\ UNCHANGED <<pidFile, pidTmp>>
    /\ UNCHANGED overlap

\* Mutant: a child that is not a bridge is left alone.
GraceEnds_NoKill(c) ==
    /\ At(c, {"grace"})
    /\ Return(c, is_bridge_process(ctl[c].pid))
    /\ UNCHANGED <<proc, pidFile, pidTmp, overlap>>

\* After the grace period: success, or kill of a child that is not a bridge.
GraceEnds(c) ==
    LET p == ctl[c].pid IN
    /\ At(c, {"grace"})
    /\ IF is_bridge_process(p)
       THEN Return(c, TRUE) /\ UNCHANGED proc
       ELSE /\ Goto(c, "reap")
            /\ proc' = [proc EXCEPT ![p] = "zombie"]
    /\ UNCHANGED <<pidFile, pidTmp, overlap>>

\* wait returns, the PID file goes, start reports the failure.
ReapChild(c) ==
    /\ At(c, {"reap"})
    /\ proc' = [proc EXCEPT ![ctl[c].pid] = "none"]
    /\ pidFile' = NoPid
    /\ Return(c, FALSE)
    /\ UNCHANGED <<pidTmp, overlap>>

-----------------------------------------------------------------------------
(* The processes.                                                          *)

\* The child executes nohup and then the bridge.
ExecBridge(p) ==
    /\ proc[p] = "shell"
    /\ proc' = [proc EXCEPT ![p] = "bridge"]
    /\ UNCHANGED <<pidFile, pidTmp, ctl, overlap>>

\* A process ends: a fatal startup error, a crash, or SIGTERM.  The child of
\* a script that still runs is not reaped yet.
ProcessEnds(p) ==
    /\ proc[p] \in {"shell", "bridge", "dying", "stray"}
    /\ proc' = [proc EXCEPT ![p] = Gone(p)]
    /\ UNCHANGED <<pidFile, pidTmp, ctl, overlap>>

\* The machine hands a PID to another program; one such program at a time.
OtherStarts(p) ==
    /\ FreePid(p)
    /\ \A q \in Pids : proc[q] \notin {"tool", "other"}
    /\ \E kind \in {"tool", "other"} : proc' = [proc EXCEPT ![p] = kind]
    /\ UNCHANGED <<pidFile, pidTmp, ctl, overlap>>

OtherEnds(p) ==
    /\ proc[p] \in {"tool", "other"}
    /\ proc' = [proc EXCEPT ![p] = "none"]
    /\ UNCHANGED <<pidFile, pidTmp, ctl, overlap>>

CtlScript(c) ==
    \/ read_bridge_pid(c) \/ CheckProcess(c) \/ ReportOnly(c)
    \/ service_status(c) \/ KillBridge(c) \/ stop_bridge(c)
    \/ start_bridge(c) \/ Spawn(c) \/ WritePid(c) \/ PublishPid(c)
    \/ GraceEnds(c) \/ ReapChild(c)

Processes ==
    \E p \in Pids :
        ExecBridge(p) \/ ProcessEnds(p) \/ OtherStarts(p) \/ OtherEnds(p)

\* A power cut: every process and every script is gone, the files stay.
PowerCut ==
    /\ proc' = [p \in Pids |-> "none"]
    /\ ctl' = [c \in Callers |-> [ctl[c] EXCEPT !.pc = "idle", !.pid = NoPid, !.ok = FALSE]]
    /\ UNCHANGED <<pidFile, pidTmp, overlap>>

-----------------------------------------------------------------------------
(* Properties.                                                             *)

Untracked(p) == proc[p] \in {"shell", "bridge"} /\ pidFile # p

\* As long as no two scripts have overlapped, the PID file names the bridge
\* that runs whenever no script is running: at most one bridge runs, and stop
\* finds it, whatever crashed, failed to start or left a stale PID behind
\* (except a stray, whose PID could not be written, bridge_ctl.sh:65-66).
BridgeIsTracked == ~overlap /\ Idle => ~ \E p \in Pids : Untracked(p)

\* A start that reports failure leaves no bridge running (without overlap),
\* whether the preflight or the grace period found the fault, except the
\* stray of a start that could not write the PID file.
FailedStartLeavesNothing ==
    [][\A c \in Callers :
        ~overlap /\ Runs(c, {"start"}) /\ ~At(c, {"idle"}) /\ At(c, {"idle"})' /\ ~ctl'[c].ok
            => \A p \in Pids : proc'[p] \notin {"shell", "bridge"}]_ctlVars
=============================================================================
