-------------------------- MODULE DetectorBridge --------------------------
(***************************************************************************)
(* The threat-detector bridge device: its controller and MQTT messages,    *)
(* the camera pipeline, and the part of the runtime that starts and stops  *)
(* them.                                                                   *)
(*                                                                         *)
(* Two threads work on the one assessment of the device, without a lock:   *)
(* the paho network thread, which handles one message of the detection     *)
(* topic after the other, and the pipeline task on the main event loop.    *)
(* Both first set the assessment and then publish it, on the very topic    *)
(* that the bridge is subscribed to.                                       *)
(***************************************************************************)
EXTENDS DangerScoring

CONSTANTS Frames,         \* frames of detections that messages or the
                          \* inference backend can carry
          MaxDetections,  \* MAX_DETECTIONS_PER_MESSAGE
          MaxInbox,       \* bound on messages waiting for the network thread
          MaxInputs,      \* bound on messages from other clients
          MaxDrops        \* bound on the number of lost connections

ASSUME FramesAssumption == Frames \subseteq Seq(Detection) /\ Frames # {}
ASSUME LimitsAssumption == /\ MaxDetections \in Nat /\ MaxInbox \in Nat \ {0}
                           /\ MaxInputs \in Nat /\ MaxDrops \in Nat

VARIABLES assessment,  \* chicken_thread_detector.assessment
          inbox,       \* messages on their way to the network thread
          answer,      \* what the network thread is about to publish, or {}
          pipe,        \* where the pipeline task is
          scan,        \* the assessment of the poll under way, or {}
          published,   \* the last message the MQTT client took, or {}
          mqtt, subscribed, main, inputs, drops

deviceVars  == <<assessment, answer, scan, published>>
sessionVars == <<mqtt, subscribed, drops>>
vars == <<deviceVars, sessionVars, inbox, pipe, main, inputs>>

Commands == {"get_detector_state", "reset_detector_state"}

(* A message of the detection topic: a frame, a command, an assessment     *)
(* (JSON without detections) or anything that makes parsing raise.         *)
Message == [kind : Commands \cup {"assessment", "malformed"},
            detections : {<<>>}, retained : BOOLEAN]
           \cup [kind : {"frame"}, detections : Frames, retained : BOOLEAN]

(* DangerScorer.score of the detections that a message can carry.          *)
Scores == [ds \in Frames \cup {<<>>} |-> Score(ds)]

Plain(kind) == [kind |-> kind, detections |-> <<>>, retained |-> FALSE]

(* CHICKEN_THREAT_ENABLED, without which there is no pipeline.             *)
Init ==
  /\ assessment = NoThreat
  /\ inbox = <<>> /\ answer = {} /\ scan = {} /\ published = {}
  /\ \/ pipe = "health" /\ main = "starting"
     \/ pipe = "disabled" /\ main = "running"
  /\ mqtt = "connected" /\ subscribed = TRUE
  /\ inputs = 0 /\ drops = 0

---------------------------------------------------------------------------
(* The broker and the MQTT client.                                         *)

(* Another client publishes.                                               *)
Inject(m) ==
  /\ mqtt = "connected" /\ subscribed /\ Len(inbox) < MaxInbox
  /\ inputs < MaxInputs /\ inputs' = inputs + 1
  /\ inbox' = Append(inbox, m)
  /\ UNCHANGED <<deviceVars, sessionVars, pipe, main>>

(* The bridge receives what it publishes itself; the subscription is       *)
(* QoS 0, so that a message too many is dropped.                           *)
Echo == inbox' = IF subscribed /\ Len(inbox) < MaxInbox
                 THEN Append(inbox, Plain("assessment")) ELSE inbox

(* MqttGate.publish succeeds ...                                           *)
Publish(a) == \/ mqtt = "connected" /\ published' = {a} /\ Echo
              \/ mqtt = "closed" /\ UNCHANGED <<published, inbox>>

(* ... or raises, and the client may deliver the message later.            *)
PublishFails(a) == /\ mqtt # "connected"
                   /\ \/ mqtt = "lost" /\ published' = {a}
                      \/ UNCHANGED published
                   /\ UNCHANGED inbox

LoseConnection ==
  /\ mqtt = "connected" /\ mqtt' = "lost"
  /\ drops < MaxDrops /\ drops' = drops + 1
  /\ subscribed' = FALSE /\ inbox' = <<>>
  /\ UNCHANGED <<deviceVars, pipe, main, inputs>>

(* Nothing subscribes again.                                               *)
Reconnect ==
  /\ mqtt = "lost" /\ mqtt' = "connected"
  /\ UNCHANGED <<deviceVars, subscribed, drops, inbox, pipe, main, inputs>>

---------------------------------------------------------------------------
(* The network thread: on_message and what it calls.                       *)

(* Mutant: a message without detections counts as an empty frame.          *)
EmptyFrameUnderstood(m) ==
  ~m.retained /\ (m.kind \in Commands \cup {"frame", "assessment"})

(* Retained, malformed and oversized messages and foreign JSON are left.   *)
Understood(m) ==
  /\ ~m.retained
  /\ \/ m.kind \in Commands
     \/ m.kind = "frame" /\ Len(m.detections) <= MaxDetections

TakeMessage == answer = {} /\ inbox # <<>> /\ inbox' = Tail(inbox)

IgnoreMessage ==
  /\ TakeMessage /\ ~Understood(Head(inbox))
  /\ UNCHANGED <<deviceVars, sessionVars, pipe, main, inputs>>

(* score_frame, up to the publication.                                     *)
SetFromFrame ==
  /\ TakeMessage /\ Understood(Head(inbox)) /\ Head(inbox).kind \notin Commands
  /\ \E a \in Scores[Head(inbox).detections] : assessment' = a /\ answer' = {a}
  /\ UNCHANGED <<scan, published, sessionVars, pipe, main, inputs>>

GetDetectorState ==
  /\ TakeMessage /\ Understood(Head(inbox)) /\ Head(inbox).kind = "get_detector_state"
  /\ answer' = {assessment}
  /\ UNCHANGED <<assessment, scan, published, sessionVars, pipe, main, inputs>>

(* Mutant: the reset is published but not stored.                          *)
ResetWithoutSet ==
  /\ TakeMessage /\ Understood(Head(inbox)) /\ Head(inbox).kind = "reset_detector_state"
  /\ answer' = {NoThreat}
  /\ UNCHANGED <<assessment, scan, published, sessionVars, pipe, main, inputs>>

ResetDetectorState ==
  /\ TakeMessage /\ Understood(Head(inbox)) /\ Head(inbox).kind = "reset_detector_state"
  /\ assessment' = NoThreat /\ answer' = {NoThreat}
  /\ UNCHANGED <<scan, published, sessionVars, pipe, main, inputs>>

(* A failed publication ends the handler; on_message catches it.           *)
PublishAnswer ==
  /\ \E a \in answer : Publish(a) \/ PublishFails(a)
  /\ answer' = {}
  /\ UNCHANGED <<assessment, scan, sessionVars, pipe, main, inputs>>

---------------------------------------------------------------------------
(* The pipeline task.                                                      *)

Goto(from, to) == pipe = from /\ pipe' = to

(* ChickenThreatDetectionPipeline.start, awaited by the runtime's start.   *)
HealthCheck ==
  /\ pipe' \in {"fetch", "not_started"} /\ pipe = "health"
  /\ main' = "running"
  /\ UNCHANGED <<deviceVars, sessionVars, inbox, inputs>>

(* health only catches RuntimeError: a camera that closes the connection   *)
(* makes start raise, and main goes on with the stop.                      *)
HealthRaises ==
  /\ Goto("health", "not_started")
  /\ main' = "services_stopped"
  /\ UNCHANGED <<deviceVars, sessionVars, inbox, inputs>>

FetchJpeg ==
  /\ Goto("fetch", "detect")
  /\ UNCHANGED <<deviceVars, sessionVars, inbox, main, inputs>>

(* Mutant: an exception leaves the loop.                                   *)
ScanFailsForGood ==
  /\ pipe \in {"fetch", "detect"} /\ pipe' = "not_started"
  /\ UNCHANGED <<deviceVars, sessionVars, inbox, main, inputs>>

(* Camera or inference backend fails; _poll catches it.                    *)
ScanFails ==
  /\ pipe \in {"fetch", "detect"} /\ pipe' = "sleep"
  /\ UNCHANGED <<deviceVars, sessionVars, inbox, main, inputs>>

(* Mutant: an unchanged assessment is not published again.                 *)
DetectChanges ==
  /\ pipe = "detect"
  /\ \E f \in Frames : \E a \in Scores[f] :
       /\ assessment' = a
       /\ IF a = assessment THEN pipe' = "sleep" /\ UNCHANGED scan
          ELSE pipe' = "publish" /\ scan' = {a}
  /\ UNCHANGED <<answer, published, sessionVars, inbox, main, inputs>>

(* The backend's frame, of any length, goes to score_frame.                *)
Detect ==
  /\ Goto("detect", "publish")
  /\ \E f \in Frames : \E a \in Scores[f] : assessment' = a /\ scan' = {a}
  /\ UNCHANGED <<answer, published, sessionVars, inbox, main, inputs>>

(* After a success the usage event follows, whose failure is swallowed.    *)
PublishScan ==
  /\ Goto("publish", "sleep")
  /\ \E a \in scan : Publish(a) \/ PublishFails(a)
  /\ scan' = {}
  /\ UNCHANGED <<assessment, answer, sessionVars, main, inputs>>

NextPoll ==
  /\ Goto("sleep", "fetch")
  /\ UNCHANGED <<deviceVars, sessionVars, inbox, main, inputs>>

---------------------------------------------------------------------------
(* The main task.                                                          *)

(* A cancellation reaches the pipeline where it awaits; the answer of a    *)
(* camera or inference call that is still under way is dropped.            *)
StopPipeline ==
  /\ main \in {"starting", "running"} /\ main' = "services_stopped"
  /\ pipe # "publish"
  /\ pipe' = IF pipe \in {"disabled", "not_started"} THEN pipe ELSE "cancelled"
  /\ UNCHANGED <<deviceVars, sessionVars, inbox, inputs>>

DisconnectMqtt ==
  /\ main = "services_stopped" /\ main' = "joining"
  /\ mqtt' = "closed" /\ subscribed' = FALSE /\ inbox' = <<>>
  /\ UNCHANGED <<deviceVars, drops, pipe, inputs>>

Exit ==
  /\ main = "joining" /\ main' = "exited"
  /\ answer = {}
  /\ UNCHANGED <<deviceVars, sessionVars, inbox, pipe, inputs>>

---------------------------------------------------------------------------
NetworkThread == \/ IgnoreMessage \/ SetFromFrame \/ GetDetectorState
                 \/ ResetDetectorState \/ PublishAnswer

Pipeline == \/ HealthCheck \/ HealthRaises \/ FetchJpeg \/ ScanFails \/ Detect
            \/ PublishScan \/ NextPoll

Next == \/ \E m \in Message : Inject(m)
        \/ LoseConnection \/ Reconnect
        \/ NetworkThread \/ Pipeline
        \/ StopPipeline \/ DisconnectMqtt \/ Exit

Spec == Init /\ [][Next]_vars

(* Both threads keep running, camera and inference calls have a timeout,   *)
(* and main finishes a stop it began.                                      *)
FairSpec == /\ Spec
            /\ WF_vars(NetworkThread) /\ WF_vars(Pipeline)
            /\ WF_vars(DisconnectMqtt \/ Exit)

---------------------------------------------------------------------------
(* The properties.                                                         *)

(* Whatever arrives, what is stored, about to be published or published is *)
(* an assessment with a score between 0 and 1 (DangerScorer.score).        *)
TypeOK ==
  /\ assessment \in DangerAssessment
  /\ \A taken \in {answer, scan, published} :
       taken \subseteq DangerAssessment /\ Cardinality(taken) <= 1
  /\ inbox \in Seq(Message) /\ Len(inbox) <= MaxInbox
  /\ pipe \in {"disabled", "health", "not_started", "fetch", "detect",
               "publish", "sleep", "cancelled"}
  /\ mqtt \in {"connected", "lost", "closed"} /\ subscribed \in BOOLEAN
  /\ main \in {"starting", "running", "services_stopped", "joining", "exited"}
  /\ inputs \in 0..MaxInputs /\ drops \in 0..MaxDrops

(* Every published assessment has the level and the rounded score of the   *)
(* worst of its detections, all of which are threats; it is "none" with a  *)
(* score of 0 only without any, there are not more of them than were       *)
(* counted, and the rounding of the score never moves it below the level   *)
(* (danger_scoring.py, score).                                             *)
PublishedIsWorstDetection ==
  \A a \in published :
    /\ a.level # "none" => \E i \in DOMAIN a.triggering_detections :
         LET s == DetectionScore(a.triggering_detections[i])
         IN  /\ a.level = LevelForScore(s) /\ a.score \in Rounded(s)
             /\ \A j \in DOMAIN a.triggering_detections :
                  DetectionScore(a.triggering_detections[j]) \in 1..s
    /\ a.level = "none" => a.triggering_detections = <<>> /\ a.score = 0
    /\ Len(a.triggering_detections) <= a.detection_count
    /\ Danger(a.level) <= Danger(LevelForScore(a.score * 1000))

(* Without a pipeline and while the connection lasts, the last published   *)
(* assessment is the detector's state whenever the network thread is       *)
(* between two messages: no command and no frame changes the one without   *)
(* the other (the controller's set_device_state and publish).              *)
PublishedIsState ==
  pipe = "disabled" /\ answer = {} /\ mqtt = "connected" /\ drops = 0 =>
    \/ published = {assessment}
    \/ published = {} /\ assessment = NoThreat

(* The bridge hears its own assessments and does not answer them: once the *)
(* other clients are silent the detection topic falls silent, too          *)
(* (chicken_thread_detector_message.handle).                               *)
EchoesEnd == <>(pipe = "disabled") => <>[](inbox = <<>> /\ answer = {})

(* A pipeline that polls goes on polling until it is cancelled, whatever   *)
(* the camera, the inference backend and MQTT do (pipeline._poll).         *)
PollingGoesOn == <>(pipe = "fetch") => []<>(pipe = "fetch") \/ <>(pipe = "cancelled")

(* If scans go on succeeding and the connection comes to stay, subscribers *)
(* see the detector's state again and again, whatever was lost before:     *)
(* every scan is published, not only a changed one (score_frame).          *)
StateIsRepublished ==
  <>[](mqtt = "connected") /\ []<><<Detect>>_vars => []<>(published = {assessment})

(* A camera that fails its health check keeps the pipeline from starting,  *)
(* and nothing else: the bridge goes on (TECHNICAL.MD, Startup behavior).  *)
HealthFailureOnlyStopsPipeline ==
  [][pipe = "health" /\ pipe' = "not_started" => main' = "running"]_vars
===========================================================================
