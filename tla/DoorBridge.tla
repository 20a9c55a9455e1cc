---------------------------- MODULE DoorBridge ----------------------------
(***************************************************************************)
(* The chicken-door bridge device: door_controller and its commands, the   *)
(* MQTT publisher, the polling service, and the part of the runtime that   *)
(* starts and stops them.                                                  *)
(*                                                                         *)
(* Threads.  A command runs to its end inside the paho network thread that *)
(* received it (asyncio.run in on_message): CommandThreads, one per MQTT   *)
(* client.  The poll task runs on the main event loop: Poller.  Both enter *)
(* the controller through one try-lock that is retried every 10 ms, and    *)
(* hold it over the gateway call, which runs in a worker thread, and over  *)
(* the publication.  The main task starts the device and stops it: it      *)
(* cancels the poll task first and disconnects MQTT second.                *)
(*                                                                         *)
(* One step of the model is the code between two points where the other    *)
(* threads can be seen: taking and releasing the lock, starting and        *)
(* collecting the gateway call, handing one message to the MQTT client.    *)
(***************************************************************************)
EXTENDS DoorGateway

CONSTANTS CommandThreads,  \* network threads that run commands
          Poller,          \* the poll task
          NoThread,        \* the lock is free
          Requests,        \* command payloads that arrive
          MaxRequests,     \* bound on the number of commands
          MaxDrops,        \* bound on the number of lost connections
          MaxFailedWrites  \* bound on the number of failed file writes

ASSUME ThreadsAssumption == /\ Poller \notin CommandThreads
                            /\ NoThread \notin CommandThreads \cup {Poller}
                            /\ Callers = CommandThreads \cup {Poller}
ASSUME BoundsAssumption == /\ MaxRequests \in Nat /\ MaxDrops \in Nat
                           /\ MaxFailedWrites \in Nat

VARIABLES pc,         \* where each thread is
          lock,       \* door_controller._operation_lock: its holder
          hasGateway, \* FALSE: the local fallback, gateway is None
          work,       \* the local variables of the operation of a thread
          position,   \* chicken_door.position
          retained,   \* per topic, the last message the MQTT client took
          lastStatus, \* DoorStatePollingService._last_status
          statusFile, \* the content of door-poll-status.json
          mqtt,       \* the connection of the MQTT client
          subscribed, \* the broker holds the command subscription
          main,       \* where the main task is
          requests, drops, failedWrites  \* counters for the bounds

controlVars == <<pc, lock>>
pollVars    == <<lastStatus, statusFile, failedWrites>>
sessionVars == <<mqtt, subscribed, drops>>
outsideVars == <<hasGateway, pollVars, sessionVars, main, requests>>
vars == <<gatewayVars, controlVars, work, position, retained, outsideVars>>

(* COMMANDS and what each calls on the gateway.                            *)
Operation == [c \in {"open_door", "close_door", "stop_door", "get_door_state"} |->
                CASE c = "open_door"      -> "open"
                  [] c = "close_door"     -> "close"
                  [] c = "stop_door"      -> "stop"
                  [] c = "get_door_state" -> "get_state"]

Commands == DOMAIN Operation

(* chicken_door.open, close and stop, and get_device_state.                *)
LocalPosition(command) ==
  CASE command = "open_door"  -> "open"
    [] command = "close_door" -> "closed"
    [] command \in {"stop_door", "get_door_state"} -> position

Locked == {"dispatch", "gateway", "publish", "release"}
CommandPoints == {"idle", "acquire", "report"} \cup Locked
PollPoints == {"new", "acquire", "record", "sleep", "cancelled"} \cup Locked

(* request: the command payload; status: what is applied and published, {} *)
(* before there is one; sent: how many of its topics were handed over;     *)
(* end: how the operation ended, in a command_result or in an exception    *)
(* that leaves the controller; data: the position in the command_result.   *)
Work == [request : Requests \cup {"none"}, status : Option(Status),
         sent : 0..(Len(TopicOrder) - 1),
         end : {"open", "success", "failure", "raised"}, data : Positions]

NoWork == [request |-> "none", status |-> {}, sent |-> 0,
           end |-> "open", data |-> "unknown"]

Message(t, s) == [payload |-> Payload(t, s.data), epoch |-> s.epoch]

Goto(p, from, to) == pc[p] = from /\ pc' = [pc EXCEPT ![p] = to]

(* The operation under the lock ends; the lock is still held.              *)
Finish(p, end) == work' = [work EXCEPT ![p].end = end, ![p].data = position]

Forget(p) == work' = [work EXCEPT ![p] = NoWork]

---------------------------------------------------------------------------
(* Before the last step of the runtime's start the client is connected and *)
(* subscribed; a broker that outlived an earlier process may still retain  *)
(* that process's statuses.                                                *)
Init ==
  /\ GatewayInit
  /\ hasGateway \in BOOLEAN
  /\ pc = [p \in Callers |-> IF p = Poller THEN "new" ELSE "idle"]
  /\ lock = NoThread
  /\ work = [p \in Callers |-> NoWork]
  /\ position = "unknown"
  /\ \/ retained = [t \in Topics |-> {}]
     \/ \E d \in VendorData :
          retained = [t \in Topics |-> {Message(t, [data |-> d, epoch |-> 0])}]
  /\ lastStatus = {} /\ statusFile = {}
  /\ mqtt = "connected" /\ subscribed = TRUE
  /\ main = "starting"
  /\ requests = 0 /\ drops = 0 /\ failedWrites = 0

---------------------------------------------------------------------------
(* Entering the controller.                                                *)

(* on_message starts a command.  Retained messages and payloads that do    *)
(* not decode leave everything as it is.                                   *)
OnMessage(c) ==
  /\ Goto(c, "idle", "acquire")
  /\ mqtt = "connected" /\ subscribed
  /\ requests < MaxRequests
  /\ requests' = requests + 1
  /\ \E m \in Requests : work' = [work EXCEPT ![c].request = m]
  /\ UNCHANGED <<gatewayVars, hasGateway, lock, position, retained, pollVars,
                 sessionVars, main>>

StartPoll ==
  /\ Goto(Poller, "sleep", "acquire")
  /\ UNCHANGED <<gatewayVars, lock, work, position, retained, outsideVars>>

(* Mutant: the poll task enters without the lock.                          *)
AcquireUnlessPolling(p) ==
  /\ Goto(p, "acquire", "dispatch")
  /\ p = Poller \/ lock = NoThread
  /\ lock' = p
  /\ UNCHANGED <<gatewayVars, work, position, retained, outsideVars>>

(* One successful attempt on the try-lock; failed attempts change nothing. *)
Acquire(p) ==
  /\ Goto(p, "acquire", "dispatch")
  /\ lock = NoThread
  /\ lock' = p
  /\ UNCHANGED <<gatewayVars, work, position, retained, outsideVars>>

(* get_command raises ValueError.                                          *)
RejectCommand(p) ==
  /\ Goto(p, "dispatch", "release")
  /\ p # Poller /\ work[p].request \notin Commands
  /\ Finish(p, "raised")
  /\ UNCHANGED <<gatewayVars, lock, position, retained, outsideVars>>

CallGateway(p) ==
  /\ Goto(p, "dispatch", "gateway")
  /\ hasGateway
  /\ \/ p = Poller /\ Invoke(p, "get_state")
     \/ /\ p # Poller /\ work[p].request \in Commands
        /\ Invoke(p, Operation[work[p].request])
  /\ UNCHANGED <<lock, work, position, retained, outsideVars>>

(* Mutant: the raw code is stored instead of the door_position.            *)
ApplyCode(p, s) == /\ position' = to_status_code(s.data)
                   /\ work' = [work EXCEPT ![p].status = {s}]

(* apply_status, or set_device_state in poll_state.                        *)
Apply(p, s) == /\ position' = s.data.position
               /\ work' = [work EXCEPT ![p].status = {s}]

(* The local fallback: the device answers for itself.                      *)
UseLocalDoor(p) ==
  /\ Goto(p, "dispatch", "publish")
  /\ ~hasGateway
  /\ \/ p = Poller /\ Apply(p, [data |-> BareStatus(position), epoch |-> 0])
     \/ /\ p # Poller /\ work[p].request \in Commands
        /\ Apply(p, [data  |-> BareStatus(LocalPosition(work[p].request)),
                     epoch |-> 0])
  /\ UNCHANGED <<gatewayVars, lock, retained, outsideVars>>

---------------------------------------------------------------------------
(* The gateway's answer and the publication.                               *)

(* Mutant: a poll publishes after it has left the lock.                    *)
ApplyAndUnlock(p) ==
  /\ Goto(p, "gateway", "publish")
  /\ Collect(p)
  /\ \E s \in call[p].result : Apply(p, s)
  /\ lock' = IF p = Poller THEN NoThread ELSE lock
  /\ UNCHANGED <<retained, outsideVars>>

(* Mutant: a poll publishes only what differs from the last poll.          *)
ApplyChanges(p) ==
  /\ pc[p] = "gateway"
  /\ Collect(p)
  /\ \E s \in call[p].result :
       IF p = Poller /\ lastStatus = {s.data}
       THEN /\ Goto(p, "gateway", "release")
            /\ position' = s.data.position
            /\ work' = [work EXCEPT ![p].status = {s}, ![p].end = "success"]
       ELSE Goto(p, "gateway", "publish") /\ Apply(p, s)
  /\ UNCHANGED <<lock, retained, outsideVars>>

ApplyStatus(p) ==
  /\ Goto(p, "gateway", "publish")
  /\ Collect(p)
  /\ \E s \in call[p].result : Apply(p, s)
  /\ UNCHANGED <<lock, retained, outsideVars>>

GatewayFailed(p) ==
  /\ Goto(p, "gateway", "release")
  /\ Collect(p)
  /\ call[p].result = {}
  /\ Finish(p, "failure")
  /\ UNCHANGED <<lock, position, retained, outsideVars>>

Retain(p) == \E s \in work[p].status :
               LET t == TopicOrder[work[p].sent + 1]
               IN  retained' = [retained EXCEPT ![t] = {Message(t, s)}]

(* Once disconnect has been called, what the MQTT client accepts is queued *)
(* behind the DISCONNECT and lost.                                         *)
HandOver(p) == IF mqtt = "connected" THEN Retain(p) ELSE UNCHANGED retained

PublishTopic(p) ==
  /\ pc[p] = "publish" /\ mqtt # "lost"
  /\ work[p].sent + 1 < Len(TopicOrder)
  /\ HandOver(p)
  /\ work' = [work EXCEPT ![p].sent = @ + 1]
  /\ UNCHANGED <<gatewayVars, controlVars, position, outsideVars>>

PublishLastTopic(p) ==
  /\ Goto(p, "publish", "release") /\ mqtt # "lost"
  /\ work[p].sent + 1 = Len(TopicOrder)
  /\ HandOver(p)
  /\ Finish(p, "success")
  /\ UNCHANGED <<gatewayVars, lock, position, outsideVars>>

(* Mutant: a failed publication is ignored.                                *)
PublishFailureIgnored(p) ==
  /\ Goto(p, "publish", "release")
  /\ mqtt # "connected"
  /\ UNCHANGED retained
  /\ Finish(p, "success")
  /\ UNCHANGED <<gatewayVars, lock, position, outsideVars>>

(* publish raises RuntimeError without a connection; the client may have   *)
(* queued the message all the same and delivers it once connected again.   *)
(* The remaining topics are skipped.  Only the local fallback of a command *)
(* lets the exception out.                                                 *)
PublishFails(p) ==
  /\ Goto(p, "publish", "release")
  /\ mqtt # "connected"
  /\ \/ mqtt = "lost" /\ Retain(p)
     \/ UNCHANGED retained
  /\ Finish(p, IF hasGateway \/ p = Poller THEN "failure" ELSE "raised")
  /\ UNCHANGED <<gatewayVars, lock, position, outsideVars>>

---------------------------------------------------------------------------
(* Leaving the controller: the lock is released on every path.             *)

ReleaseAnd(p, to) == /\ Goto(p, "release", to)
                     /\ lock' = NoThread
                     /\ UNCHANGED <<gatewayVars, position, retained,
                                    outsideVars>>

(* There is a result to report, or a polled status to record.              *)
ReleaseWithResult(p) ==
  /\ IF p = Poller THEN work[p].end = "success" ELSE work[p].end # "raised"
  /\ ReleaseAnd(p, IF p = Poller THEN "record" ELSE "report")
  /\ UNCHANGED work

(* Mutant: the lock is released on the path without an exception only.     *)
EndWithoutRelease(p) ==
  /\ IF p = Poller THEN work[p].end # "success" ELSE work[p].end = "raised"
  /\ Goto(p, "release", IF p = Poller THEN "sleep" ELSE "idle")
  /\ Forget(p)
  /\ UNCHANGED <<gatewayVars, lock, position, retained, outsideVars>>

(* The exception ends the command; poll_state returned None.               *)
ReleaseAndEnd(p) ==
  /\ IF p = Poller THEN work[p].end # "success" ELSE work[p].end = "raised"
  /\ ReleaseAnd(p, IF p = Poller THEN "sleep" ELSE "idle")
  /\ Forget(p)

(* The usage event carries the command, the success flag and data.  It is  *)
(* published outside the lock and a failure to do so is swallowed.         *)
ReportUsage(p) ==
  /\ Goto(p, "report", "idle")
  /\ Forget(p)
  /\ UNCHANGED <<gatewayVars, lock, position, retained, outsideVars>>

(* Mutant: the status is compared after _last_status was set.              *)
WriteNothing(s) == UNCHANGED <<statusFile, failedWrites>>

(* run_once after a successful poll: a status that differs from the last   *)
(* one is written to the panel's file, in a worker thread; a failed write  *)
(* is swallowed and _last_status moves on all the same.                    *)
WriteStatusFile(s) == /\ lastStatus # {s.data}
                      /\ statusFile' = {s.data}
                      /\ UNCHANGED failedWrites

WriteFails(s) == /\ lastStatus # {s.data}
                 /\ failedWrites < MaxFailedWrites
                 /\ failedWrites' = failedWrites + 1
                 /\ UNCHANGED statusFile

NothingToWrite(s) == /\ lastStatus = {s.data}
                     /\ UNCHANGED <<statusFile, failedWrites>>

RecordStatus ==
  /\ Goto(Poller, "record", "sleep")
  /\ \E s \in work[Poller].status :
       /\ WriteStatusFile(s) \/ WriteFails(s) \/ NothingToWrite(s)
       /\ lastStatus' = {s.data}
  /\ Forget(Poller)
  /\ UNCHANGED <<gatewayVars, hasGateway, lock, position, retained,
                 sessionVars, main, requests>>

---------------------------------------------------------------------------
(* The MQTT session.                                                       *)

LoseConnection ==
  /\ mqtt = "connected" /\ mqtt' = "lost"
  /\ subscribed' = FALSE
  /\ drops < MaxDrops /\ drops' = drops + 1
  /\ UNCHANGED <<hasGateway, gatewayVars, controlVars, work, position,
                 retained, pollVars, main, requests>>

(* paho reconnects by itself.  on_connect only prints, so nothing renews   *)
(* the subscription that went with the session.                            *)
Reconnect ==
  /\ mqtt = "lost" /\ mqtt' = "connected"
  /\ UNCHANGED <<hasGateway, gatewayVars, controlVars, work, position,
                 retained, pollVars, subscribed, drops, main, requests>>

---------------------------------------------------------------------------
(* The main task: the last step of BridgeDeviceRuntime.start, and stop.    *)

StartPolling ==
  /\ main = "starting" /\ main' = "running"
  /\ Goto(Poller, "new", "acquire")
  /\ UNCHANGED <<gatewayVars, hasGateway, lock, work, position, retained,
                 pollVars, sessionVars, requests>>

(* The points where the poll task awaits something, so that the main task  *)
(* can run and a cancellation can reach it.                                *)
PollAwaits == \/ pc[Poller] \in {"acquire", "gateway", "sleep"}
              \/ /\ pc[Poller] = "record"
                 /\ \A s \in work[Poller].status : lastStatus # {s.data}

(* Mutant: a cancellation leaves the lock taken.                           *)
StopKeepingLock ==
  /\ main = "running" /\ main' = "services_stopped"
  /\ PollAwaits
  /\ pc' = [pc EXCEPT ![Poller] = "cancelled"]
  /\ Forget(Poller)
  /\ UNCHANGED <<gatewayVars, hasGateway, lock, position, retained, pollVars,
                 sessionVars, requests>>

(* DoorStatePollingService.stop.  CancelledError leaves the lock's context *)
(* manager, which releases the lock; the worker thread of a gateway call   *)
(* or of a file write runs on, and nobody takes its answer.                *)
StopPolling ==
  /\ main = "running" /\ main' = "services_stopped"
  /\ PollAwaits
  /\ pc' = [pc EXCEPT ![Poller] = "cancelled"]
  /\ lock' = IF lock = Poller THEN NoThread ELSE lock
  /\ \/ \E s \in work[Poller].status : statusFile' = {s.data}
     \/ UNCHANGED statusFile
  /\ Forget(Poller)
  /\ UNCHANGED <<gatewayVars, hasGateway, position, retained, lastStatus,
                 failedWrites, sessionVars, requests>>

DisconnectMqtt ==
  /\ main = "services_stopped" /\ main' = "joining"
  /\ mqtt' = "closed" /\ subscribed' = FALSE
  /\ UNCHANGED <<hasGateway, gatewayVars, controlVars, work, position,
                 retained, pollVars, drops, requests>>

(* loop_stop joins the network thread, the event loop its worker threads.  *)
Exit ==
  /\ main = "joining" /\ main' = "exited"
  /\ \A c \in CommandThreads : pc[c] = "idle"
  /\ \A p \in Callers : ~Running(p)
  /\ UNCHANGED <<hasGateway, gatewayVars, controlVars, work, position,
                 retained, pollVars, sessionVars, requests>>

---------------------------------------------------------------------------
(* What a thread does by itself once it has entered the controller.        *)
Proceed(p) == \/ RejectCommand(p) \/ CallGateway(p) \/ UseLocalDoor(p)
              \/ ApplyStatus(p) \/ GatewayFailed(p)
              \/ PublishTopic(p) \/ PublishLastTopic(p) \/ PublishFails(p)
              \/ ReleaseWithResult(p) \/ ReleaseAndEnd(p)

(* The vendor and the worker threads; the bridge sees none of it yet.      *)
GatewayWorks == /\ \/ hasGateway /\ VendorMoves
                   \/ \E p \in Callers : TakeEffect(p) \/ Answer(p)
                /\ UNCHANGED <<controlVars, work, position, retained,
                               outsideVars>>

Main == StartPolling \/ StopPolling \/ DisconnectMqtt \/ Exit

Next == \/ \E p \in Callers : Acquire(p) \/ Proceed(p)
        \/ \E c \in CommandThreads : OnMessage(c) \/ ReportUsage(c)
        \/ StartPoll \/ RecordStatus
        \/ GatewayWorks
        \/ LoseConnection \/ Reconnect
        \/ Main

Spec == Init /\ [][Next]_vars

(* Threads keep running, a gateway call ends (each HTTP request has a      *)
(* timeout) and the main task finishes a stop it began.  A command waiting *)
(* for the lock retries every 10 ms and the lock stays free for a whole    *)
(* poll interval, seconds, between two polls: it gets the lock if the lock *)
(* is free again and again.  Nothing is assumed of the door, of a lost     *)
(* connection, of commands arriving or of the decision to stop.            *)
Fairness ==
  /\ \A c \in CommandThreads : /\ SF_vars(Acquire(c))
                               /\ WF_vars(Proceed(c) \/ ReportUsage(c))
  /\ WF_vars(StartPoll \/ Acquire(Poller) \/ Proceed(Poller) \/ RecordStatus)
  /\ WF_vars(GatewayWorks /\ \E p \in Callers : Answer(p))
  /\ WF_vars(StartPolling \/ DisconnectMqtt \/ Exit)

FairSpec == Spec /\ Fairness

---------------------------------------------------------------------------
(* Properties.                                                             *)

(* Every variable has its type: in particular a network thread is never at *)
(* a point of the poll loop, and the device holds one of the eight         *)
(* door_position values, whatever the vendor answered; a retained topic    *)
(* only ever carries a payload its subscribers know.                       *)
TypeOK ==
  /\ GatewayTypeOK
  /\ hasGateway \in BOOLEAN
  /\ pc \in [Callers -> CommandPoints \cup PollPoints]
  /\ pc[Poller] \in PollPoints
  /\ \A c \in CommandThreads : pc[c] \in CommandPoints
  /\ lock \in Callers \cup {NoThread}
  /\ work \in [Callers -> Work]
  /\ position \in Positions
  /\ retained = [t \in Topics |-> retained[t]]
  /\ \A t \in Topics :
       retained[t] \in Option([payload : PayloadRange(t), epoch : Nat])
  /\ lastStatus \in Option(StatusData) /\ statusFile \in Option(StatusData)
  /\ mqtt \in {"connected", "lost", "closed"} /\ subscribed \in BOOLEAN
  /\ main \in {"starting", "running", "services_stopped", "joining", "exited"}
  /\ requests \in 0..MaxRequests /\ drops \in 0..MaxDrops
  /\ failedWrites \in 0..MaxFailedWrites

(* The lock names exactly the thread between Acquire and its release: no   *)
(* second thread is in the controller, and no path out of it, an unknown   *)
(* command, a failed call or a cancelled poll, leaves the lock taken       *)
(* (_serialized_operation).                                                *)
LockIsHeldInside == \A p \in Callers : pc[p] \in Locked <=> lock = p

AtMostOneCall == \A p, q \in Callers : Running(p) /\ Running(q) => p = q

(* Until the device is stopped, two gateway calls never run at once,       *)
(* although each runs in a worker thread of its own.                       *)
SerializedUntilStop == main \in {"starting", "running"} => AtMostOneCall

(* test_gateway_calls_do_not_block_event_loop_and_are_serialized asserts a *)
(* maximum concurrency of 1 for the gateway.                               *)
GatewayCallsAreSerialized == AtMostOneCall

(* What a subscriber sees never goes back: a message published later for a *)
(* topic never tells of an older state of the door than the one before it, *)
(* whichever thread published either and whatever was cancelled.           *)
NoStalePublish ==
  [][\A t \in Topics : \A m \in retained[t] :
       \E n \in retained'[t] : m.epoch <= n.epoch]_vars

(* A usage event that reports success comes after the six topics were      *)
(* published with that command's status or a newer one (unless the MQTT    *)
(* client was closed meanwhile), and it carries that status's position.    *)
SuccessIsPublished ==
  \A c \in CommandThreads : pc[c] = "report" /\ work[c].end = "success" =>
    \E s \in work[c].status :
      /\ work[c].data = s.data.position
      /\ mqtt = "closed" \/ \A t \in Topics : \E m \in retained[t] : s.epoch <= m.epoch

(* The data a status can have.                                             *)
KnownData == VendorData \cup {BareStatus(q) : q \in Positions}

(* While the connection was never lost and the lock is free, the six       *)
(* retained topics tell of one and the same status, and its position is    *)
(* the position of the device object (unknown before the first answer).    *)
RetainedIsOneStatus ==
  lock = NoThread /\ drops = 0 /\ mqtt = "connected" =>
    \/ position = "unknown" /\ \A t \in Topics : retained[t] = {}
    \/ \E d \in KnownData, e \in 0..MaxEpoch :
         /\ \A t \in Topics : retained[t] = {Message(t, [data |-> d, epoch |-> e])}
         /\ position \in {d.position, "unknown"}

(* While no write failed, the panel's file holds the status that the last  *)
(* successful poll returned, also when a poll after it failed.             *)
PanelShowsLastPoll ==
  failedWrites = 0 /\ pc[Poller] # "cancelled" => statusFile = lastStatus

(* The panel is labelled "Latest polled state": if polls go on succeeding, *)
(* its file comes to hold the state they return.  (Writes fail finitely    *)
(* often.)                                                                 *)
PanelShowsLatestPolledState ==
  hasGateway /\ []<>(pc[Poller] = "record") => <>[](statusFile = {vendor.data})

(* A command that arrived ends, although polls take the lock again and     *)
(* again.                                                                  *)
CommandsEnd == \A c \in CommandThreads : pc[c] = "acquire" ~> pc[c] = "idle"

(* A stop that cancelled the polling ends, although a command or a worker  *)
(* thread may be in the middle of a gateway call.                          *)
StopEnds == main = "services_stopped" ~> main = "exited"

(* The heartbeat: if polls go on succeeding, the retained topics come to   *)
(* tell of the door as it is, whatever commands, lost connections and      *)
(* failed publications did before.  The door moves finitely often.         *)
RetainedConverges ==
  hasGateway /\ []<>(pc[Poller] = "record") =>
    <>[](\A t \in Topics : retained[t] = {Message(t, vendor)})
===========================================================================
