# SmartHomeBridge in TLA+

SmartHomeBridge connects a chicken coop to a LoxBerry home-automation server: it
relays commands for an Omlet coop door from MQTT to the vendor's cloud, publishes
the state of the door, and looks for threats in the pictures of a barn camera.
This directory models the parts of it where threads, failures and the order of
things decide whether it is correct, model-checks them with TLC on small instances
and proves the main results with TLAPS for every value of the constants.

Paths are relative to the repository; `bridge/` is `src/smart_home_bridge/`.

## 1. The system

| Component | State | Operations | Talks to |
|---|---|---|---|
| Chicken-door device, `bridge/bridge_devices/chicken_door/` | the position of `chicken_door`; `_operation_lock`; `_last_status` and the poll task; the panel's `door-poll-status.json`; six retained topics at the broker | `open_door`, `close_door`, `stop_door`, `get_door_state`; `poll_state`; start and stop of the polling | gateway (worker thread), MQTT client (publish), runtime (start, stop), web panel (file) |
| Door gateway, `door_gateway.py` | none in the code | `get_state`, `open`, `close`, `stop` | vendor |
| Omlet client, `bridge/infrastructure/omlet/` | none but the call under way | GET device, POST action, GET device | Omlet's cloud over HTTP with a timeout |
| MQTT client and gate, `bridge/infrastructure/mqtt/` | connection, subscription, paho's queue, the network thread | connect, subscribe, publish, disconnect | broker; calls `on_message` in the network thread |
| Device runtime and `App`, `bridge_devices/runtime.py`, `__main__.py` | which runtimes, services and gates run | start, stop, status snapshot | all devices |
| Threat detector, `bridge/bridge_devices/chicken_thread_detector/` | the last assessment; the pipeline task | `score_frame`, `get_detector_state`, `reset_detector_state`; scan loop | camera, inference service, MQTT |
| Danger scoring, `danger_scoring.py`, `model_config.py` | none | `score` | - |
| Camera client, `infrastructure/camera/` | none | `fetch_jpeg`, `health` | firmware over HTTP |
| Inference service, `src/smart_home_inference/` | the lazily loaded model | `/health`, `/ready`, `/infer` | thread pool |
| LoxBerry control, `deploy/loxberry/shared/bin/bridge_ctl.sh` | the PID file | start, stop, restart, status | the bridge process |
| LoxBerry installation, `postinstall.sh` and its siblings | runtime directories and the links to them | install, upgrade, uninstall | process control |
| Camera firmware, `src/firmware/` | `camera_ready`, counters, frame buffers | `/health`, `/jpg`, heartbeat | - |
| Web interface, `deploy/.../htmlauth/index.php` | `smart-home-bridge.ini`, `mqtt_subscriptions.cfg` | save the settings; run the control script | bridge and MQTT Gateway (files), process control |
| Configuration, `config.py`, `loxberry_mqtt.py` | none | load the settings; derive the topics | the same files |
| ML tooling, `src/smart_home_ml/chicken_threat/` | the workspace: images, manifests, the combined CSV, the report, the dataset | download, prepare | providers over HTTP |
| Release scripts | none | packaging | - |

Who runs where decides most of the hard behaviour. A command runs to its end
inside paho's network thread (`asyncio.run` in `on_message`). The poll task runs
on the main event loop. A gateway call runs in a third thread
(`asyncio.to_thread`). The two event loops meet in one `threading.Lock` that is
tried every 10 ms and never waited for. A cancellation reaches a task only where
it awaits, and does not reach the worker thread it waits for.

What is hard, and what must hold:

- **Door device.** The lock must be held exactly inside the controller, on every
  path out of it. Gateway calls must not overlap. A message must never overwrite
  one that tells of a newer door. A success that is reported must have been
  published. One status is six messages, and a failure between two of them mixes
  two statuses until a heartbeat repairs it. A command must not starve. Stopping
  must end although the network thread or a worker thread is busy.
- **Omlet client.** An action that failed may have been carried out, or be carried
  out later; a status that is returned must not be older than the action.
- **Detector.** State and publication are two steps that two threads do without a
  lock. Scoring must be monotonic and take the level of the worst detection.
- **Lifecycle.** One component that fails to start or to stop must not leave the
  rest running.
- **Process control.** A PID file outlives the process it names, and the PID may
  belong to another program by then. At most one bridge runs, stop finds it and hits
  nothing else, and a failed start leaves nothing behind - if it could write the file.
- **Installation.** It can fail or be cut off at each command and must leave a
  runtime that was validated, and a way back; it removes an old runtime, from which
  no bridge may still run.
- **Settings.** Three programs and the installer read and write one file, each with
  its own rules, and two of them derive the Gateway's topics from it.
- **Dataset.** Every file is written in place, so that a run that is cut off leaves
  files of different runs; nothing finished may be lost, nothing omitted silently,
  and no image or capture group may be in two splits. A
  download and a preparation share these files without a lock.

`PROJECT.json` lists each hazard at its line with the properties that cover it.

## 2. Modules

| Module | Models |
|---|---|
| `DoorTypes` | the values: positions, `door_status`, the payload of each topic |
| `DoorGateway` | the abstract gateway: what the controller relies on |
| `DoorBridge` | the door device, its poll task, its MQTT session and its main task, on top of `DoorGateway` |
| `OmletDoorClient` | the vendor client, which implements `DoorGateway` |
| `DangerScoring` | what a frame of detections means: `DangerScorer`, in fixed-point numbers |
| `DetectorBridge` | the threat detector: its messages, its camera pipeline, its MQTT session and its main task, on top of `DangerScoring` |
| `BridgeCtl` | the control script `bridge_ctl.sh`, run by several callers, against the process table |
| `PluginUpgrade` | the upgrade hooks and `postinstall.sh`, which call that script, on top of `BridgeCtl` |
| `PluginSettings` | the settings form, the upgrade's backup, the MQTT topics, and what the bridge reads of it all |
| `DatasetPipeline` | the downloader of training data and the preparation of the dataset, with interrupts |
| `MC...` | small values for the constants of the module they are named after |
| `*_proofs` | the theorems of the module they are named after; that of `DoorGateway` is in `DoorBridge_proofs`, those of `DangerScoring` are in `DetectorBridge_proofs` |

`DoorBridge` EXTENDS `DoorGateway` and takes its actions `Invoke`, `Collect`,
`TakeEffect` and `Answer` as they are; `OmletDoorClient` implements `DoorGateway`
under a refinement mapping (`Gateway == INSTANCE DoorGateway WITH ...`). Whatever
holds of the bridge with any gateway holds with this one.

### How the model corresponds to the code

A thread has a program counter, `pc`. One step is the code between two points
where another thread can see a difference: the lock, the start and the end of the
gateway call, one message handed to paho, one file replaced.

| In the code | In `DoorBridge` |
|---|---|
| `on_message` starts a command | `OnMessage` |
| `_serialized_operation` entered, left | `Acquire`, `ReleaseAnd` |
| `get_command` raises | `RejectCommand` |
| `asyncio.to_thread(operation)` begins, its result is taken | `CallGateway`, `ApplyStatus` or `GatewayFailed` |
| the commands and `poll_state` without a gateway | `UseLocalDoor` |
| `publish_status`, topic by topic | `PublishTopic`, `PublishLastTopic`, `PublishFails` |
| the usage event | `ReportUsage` |
| `run_once` after the poll, `_write_status` | `RecordStatus` |
| paho loses and regains the connection | `LoseConnection`, `Reconnect` |
| `BridgeDeviceRuntime.start`, `.stop`, the end of `main()` | `StartPolling`, `StopPolling`, `DisconnectMqtt`, `Exit` |

Decisions a reader should know:

- *Epochs.* The vendor's state carries the number of changes of the door so far,
  and so does everything derived from it. The number, and `acted` and `since` of a
  call, are not in the code; they let a property say which of two statuses is older.
- *An optional value* is a set with at most one element. `power_source`,
  `wifi_strength` and the two timestamps are never published and only take part in
  comparisons: they are one field, `other`. The fault texts are the empty one,
  `"none"` and one more.
- *`retained`* is, per topic, the last message the MQTT client accepted, which is
  what the broker retains once it is delivered. paho keeps QoS 1 messages in
  order, and queues a message also when `publish` returns an error because the
  connection is gone: `PublishFails` may or may not change `retained`. After
  `disconnect` the queue is never sent.
- *A lost connection* is possible at any time, also between two messages, although
  paho's network thread would notice it between two callbacks only: a command and
  the polls share the client, and the poll's messages can meet it anywhere.
- *The subscription* goes with the session, and `on_connect` does not renew it:
  after a reconnect no command arrives. No document promises otherwise, so this is
  recorded as a hazard and not as a finding.
- *`hasGateway`* is chosen at the start: the controller also works without a
  gateway, and then answers for the local `chicken_door` object.
- *Stopping.* `asyncio` delivers a cancellation where the task awaits: while it
  waits for the lock, for the gateway's thread, for the thread that writes the
  file, or between two polls. Publishing never suspends, since `MqttClient.publish`
  has no await of its own: `PollAwaits` excludes it.
- *Exit* waits for the network thread (`loop_stop` joins it) and for the worker
  threads (the interpreter joins them), and for nothing else.

`DetectorBridge` has the same main task and the same session as `DoorBridge`, and
two threads: the network thread, which takes one message after the other from
`inbox` and may have an `answer` to publish, and the pipeline task, at `pipe`.
Between setting the assessment and publishing it the other thread can run; within
either it cannot.

| In the code | In `DetectorBridge` |
|---|---|
| `on_message` of a frame, up to the publication | `SetFromFrame` |
| `get_detector_state`, `reset_detector_state` | `GetDetectorState`, `ResetDetectorState` |
| retained, malformed and oversized messages, JSON without `detections` | `IgnoreMessage` |
| the publication in `score_frame` and in the commands | `PublishAnswer`, `PublishScan` |
| `pipeline.start` | `HealthCheck`, `HealthRaises` |
| `_poll`: fetch, detect and score, sleep; an exception | `FetchJpeg`, `Detect`, `NextPoll`; `ScanFails` |
| `pipeline.stop`, `BridgeDeviceRuntime.stop`, the end of `main()` | `StopPipeline`, `DisconnectMqtt`, `Exit` |

- *The echo.* The broker sends every assessment back to the bridge, which is
  subscribed to the topic it publishes on. An echo is a message of kind
  `"assessment"`: nothing in the code looks further into it.
- *Numbers.* Confidences are multiples of 0.00001 and scores exact products. No
  product of a risk with such a confidence below 1 meets a threshold exactly, so
  that the error of the binary product decides nothing but the direction of a
  rounding tie: `Rounded` allows both.
- *The score of a frame* is a pure function, which the model tabulates once per frame
  (`Scores`). The comprehensions of `score` are `Those`, a recursive function, so that
  something can be proved of them.
- *Confidences* lie between 0 and 1, as the inference service sends them. The code
  does not check it of an MQTT message; the model says nothing of other values.

`PluginUpgrade` EXTENDS `BridgeCtl`: the upgrade is one caller of the script, the web
page another. A step is one shell command that reads or writes something shared.

| In the code | In `BridgeCtl` and `PluginUpgrade` |
|---|---|
| `bridge_is_running`: the file is read, the process looked at | `read_bridge_pid`, `CheckProcess` |
| `stop_bridge`: `kill`, `rm` | `KillBridge`, `stop_bridge` |
| `start_bridge`: `rm`, preflight, `nohup ... &`, the PID file, the grace period | `start_bridge`, `Preflight`, `Spawn`, `WritePid`, `PublishPid`, `GraceEnds`, `ReapChild` |
| the child between the fork and the bridge; the bridge ends | `ExecBridge`; `ProcessEnds` |
| `preupgrade.sh`; `postupgrade.sh` around the installation | `BeginUpgrade`, `StopBeforeUpgrade`; `DecideRestart`, `StopBeforeInstall`, `StartAfterUpgrade`, `Restarted` |
| `cleanup_previous_runtime` | `cleanup_previous_runtime`, `UnlinkPrevious` |
| `mktemp`, `venv` and `pip`, the link | `MakeCandidate`, `Build`, `SwitchLink`, or `MoveLegacy`, `SwapIn`, `RollBack` for a directory |
| `cleanup_candidate` | in `Ends` and `Signalled` |

- *A bridge that runs* keeps the runtime it was started from (`runs`), whatever
  `venv` names later; a legacy directory that is renamed takes its bridges with it.
- *Processes.* A `"tool"` is one of the bridge's other commands, whose command line
  passes the check of `bridge_ctl.sh:45`; a `"dying"` one is a bridge that was told to
  end. PIDs are given away again at any time, also between the check and the `kill`.
- *A stray* is a bridge whose start could not write the PID file (`WritePid`,
  `PublishPid`: `set -e` ends the script, the child goes on). No script can find it
  again, so the properties about bridges except it by name.
- *History.* Nothing in the scripts keeps two of them apart, and a trap without `exit`
  lets a script go on after a signal. `overlap` records that two scripts ran at once,
  `meddled` that the page started a bridge during the upgrade, `cutOff` that the power
  went between the removal of the previous runtime and that of its link, and `leaving`
  the bridges told to end since the upgrade began that ran from the runtime in use. A
  property that one of these breaks excludes it by name, so that what it says is what
  the scripts guarantee. An `rm` does not fail.

| In the code | In `PluginSettings` |
|---|---|
| the POST action: `validate_settings`; `save_settings`: `load_settings`, `file_put_contents`, the topics | `Validate`; `Load`, `OpenIni`, `WriteIni`, `save_mqtt_subscriptions` |
| `ini_value`; `parse_ini_file`; `ConfigParser` | `ini_value`; `load_settings`; `load_loxberry_config`, `_read_ini_settings_raises` |
| `preupgrade.sh`, the installer, `postupgrade.sh`, the sync of `postinstall.sh` | `preupgrade`, `InstallFiles`, `OpenRestore`, `Restore`, `SyncReads`, `SyncReplaces` |

- *A value* in the file is a text with or without quotes: the form's reader drops
  them, the bridge's keeps them and fails on a `%`. The form escapes what it quotes and
  does not undo it when it reads, so that a value with a space and a backslash or a
  quote changes at each save: `Escaped`. That conversion is modelled; the characters
  are not. A value is *plain* if every reader sees the same, and *steady* if it is at
  least the same after each save.
- *The installer* is LoxBerry's: it may lay the package's settings, remove the plugin's
  files or leave them, and install the package's topics or not.
- *Failures.* A hook may fail before, in or after the copy of the settings, and the
  installer may give up or go on (`preupgrade`); every command of the installation up
  to the sync may fail (`UpgradeFails`). The form ignores what `file_put_contents`
  returns: `OpenIni`, `WriteFails`, `save_mqtt_subscriptions`.
- *History.* `wanted` is the settings as the user saved them, a secret left blank being
  the one before. `overlapped`: two writers overlapped. `interrupted`: a writer was cut
  short; `lost`: the installer replaced the settings or removed the only copy; both
  until a save that posts every secret. `unsynced`: the last writer of the topics was
  cut short. The code has no lock across programs and does not write this file atomically.

| In the code | In `DatasetPipeline` |
|---|---|
| `download_datasets`, source by source | `BeginDownload`; `Reuse`, `Unreadable`, `BeginSource`, `SourceFails` |
| `_download_source`: refresh, the images, `_write_manifest` | `Refresh`, `Fetch`, `OpenManifest`, `write_manifest` |
| unselected sources; the report; the CSV; the report again | `Retain`; `WriteReport`; `OpenCsv`, `write_source_metadata`; `UpdateReport` |
| one of these writes fails | `ManifestFails`, `RunFails` |
| `prepare_local_dataset_main`: the coverage check; `build_dataset`: the validation, each row, the manifest | `BeginPrepare`; `BeginBuild`, `CopyImage`, `FinishBuild` |

- *Two programs.* The downloader (`run`) and the preparation (`prep`) share the files
  and no lock: a download may begin at any step of a preparation, and the other way round.
- *An image* is its content's digest or nothing; its label goes with it. A digest in
  `Broken` stands for an image or a label that the validation rejects; `Group` is the
  capture group. A source that resumes (LILA) keeps an image that is there, the others
  copy it again.
- *Twins.* A manifest is a list: two records of a source may share their path, and
  both count where the code counts (`Count`), though the path is written once.
- *A refresh* removes the images in some order and whatever it cannot remove stays
  (`rmtree` with `ignore_errors`).
- *A disabled source* is one of `skipped`: the downloader passes over its manifest, the
  coverage check does not.
- *A file written in place* is emptied in one step and written in the next, so that
  `Interrupt` can leave it empty. The rows of the CSV may be cut off anywhere.
- *History.* `stale`: a run was cut off since the last report. `torn`: the sources whose
  refresh was left between the first removal and the unlinking of the manifest.
  `mixed`: a download ran while the dataset was built.

## 3. Runs

| Run | Asks | Result |
|---|---|---|
| `door_bridge` | safety with one command (known or unknown) against the poll loop, two changes of the door, a lost connection, a failed write, start and stop, both kinds of gateway | holds |
| `door_liveness` | do commands end, does a stop end, does the heartbeat repair the topics? | holds |
| `door_serialization` | do gateway calls never overlap, as the test `..._are_serialized` asserts? | violated by a stop during a poll |
| `door_panel` | does the panel come to show the latest polled state, as its label says? | violated by a failed write |
| `omlet_client` | does the vendor client implement the gateway contract, and does every call end? | holds |
| `detector_bridge` | do state and publications tell of the worst detection, and the same, with three messages of any kind, echoes, the pipeline and a lost connection; do echoes die out, does the polling outlive failures, do scans repair what was lost? | holds |
| `camera_health` | does a failed health check only keep the pipeline from starting? | violated by a closed connection |
| `plugin_upgrade` | two installations with failures at any command, the PID file's included, a power cut, a signal and a command from the page: one bridge, tracked, on a runtime that stays; validated runtimes behind both links; the new code after an upgrade? | holds |
| `previous_runtime` | does the previous runtime stay until the next successful installation? | violated by an installation that fails |
| `plugin_settings` | two saves from two sessions, two upgrades that may fail anywhere, failing writes, a power cut: are the settings, the secrets and the topics the saved ones, for the form, the bridge and the Gateway? | holds |
| `dataset_pipeline` | two downloads, one of them cut off, and a preparation at any moment of them: nothing lost, nothing omitted, no leakage between splits? | holds |
| `coverage_omission` | does the preparation reject every omission, as its docstring says? | violated after a refresh was cut off |

The properties, and what would break them:

- `LockIsHeldInside` - a path out of the controller that keeps the lock, or one
  into it that does not take it.
- `SerializedUntilStop` - two worker threads in the gateway at once.
- `NoStalePublish` - an answer published after the lock was given away: then an
  older status overwrites a newer one.
- `SuccessIsPublished` - a success reported for messages that were never sent, or
  with another status's position.
- `RetainedIsOneStatus` - the six topics of one status interleaved with another's.
- `PanelShowsLastPoll` - a status that is remembered but not written.
- `CommandsEnd`, `StopEnds` - starvation on the try-lock; a stop that waits for a
  thread that waits for the lock.
- `RetainedConverges` - a heartbeat that publishes changes only, so that a message
  lost to a failure is lost for good. `poll_state` is passed `None` for that reason.
- `ImplementsDoorGateway` - a status returned for an action that failed.

- `PublishedIsWorstDetection` - a level taken from another than the worst detection,
  or a rounding that understates it. (It may overstate it: 0.94735 for a fox is
  `high`, with a published score of 0.9.)
- `PublishedIsState` - a command that publishes without storing or stores without
  publishing. With the pipeline it does not hold: two threads set and publish
  without a lock, and the older assessment may be published last. What holds then is
- `StateIsRepublished` - every successful scan publishes, so the difference lasts
  until the next one. It fails if only changes were published.
- `EchoesEnd` - an assessment taken for an empty frame would be answered for ever.
- `PollingGoesOn` - an exception that leaves the loop ends the detection silently.

- `BridgeIsTracked`, `FailedStartLeavesNothing` - a start that trusts a stale PID
  file, or leaves a child behind that it does not know to be the bridge.
- `VenvIsValidated`, `PreviousIsAWayBack` - a candidate that is removed after it was
  activated; a link to a runtime that is gone. They hold after every failure and power
  cut; a signal breaks both, and a cut between removal and unlinking the second until
  the next installation. That there *is* a way back is what `previous_runtime` refutes.
- `BridgeKeepsItsRuntime`, `UpgradeRunsNewCode` - an upgrade that does not stop the
  bridge first: its runtime is removed while it is still ending, or two installations
  later, and start finds it running and leaves the old code there.
- `SavedIsKept`, `RequiredSecretStays` - a form that saves a secret left blank, or
  accepts it blank: after the failure that emptied the file the user must be asked.
- `StartSeesWholeSettings` - a bridge that starts with defaults while the file is
  being written.
- `SubscriptionsFollowSettings` - topics of the package after an upgrade.
- `NoLeakage` - a dataset check by name instead of content: a refreshed image may now
  equal one of another split, under an older CSV. The capture groups hold even if a
  download ran while the images were copied, since they are in the rows that were read
  once; the contents hold if none did.
- `SuccessIsComplete`, `AcceptedIsComplete` - a CSV of the selected sources only; a
  count of duplicates that outlives the records it counted. The first includes runs
  whose optional sources failed; what it must except is a source that fails *after* an
  earlier refresh of it was left half way: its manifest may be complete again, and the
  run has not collected it.
- `FinishedWorkIsKept` - a refresh that removes more than its own source.

**Findings.** `door_serialization`: stopping cancels the poll while it awaits the
gateway's thread; the lock is released, the HTTP request is not cancelled, MQTT is
still connected, and a command calls the gateway at the same time. The model shows
the overlap is confined to the stop (`SerializedUntilStop`) and that it does not
bring a stale publication (`NoStalePublish` holds through a stop): the answer of
the orphaned call is dropped. `door_panel`: `_last_status` advances even when the
write of the file failed, so that the file stays behind as long as the door does
not change. `camera_health`: `CameraClient.health` turns the failures `urllib`
wraps into `False`; a camera that accepts the connection and closes it raises
`http.client.RemoteDisconnected`, which no caller catches: `App.start` fails and
the bridge, the door included, stops. `coverage_omission`: the
preparation allows as many missing records as the last report counted duplicates, and
that report is older than the manifest when a refresh was cut off in between.
`previous_runtime`: `postinstall.sh` removes the previous runtime before it builds the
next one, so that a failed installation leaves none.

*Known, without a run.* Four more statements of the documents are not so, and the models
have the behaviour. No property speaks of the first; those that would fail of the others
exclude them by name. The process check of `bridge_ctl.sh:45` matches a part of the command
line, which the bridge's other commands share, and it is not one step with the `kill`
(against `TECHNICAL.MD:612-614`). Where the installer lays the packaged settings before the
hook, the backup is not restored and the topics are those of the package
(`TECHNICAL.MD:554-556`). A save that reads the file another session has just emptied writes
a key left blank as blank (`omlet_chicken_door/.../plugin.php:18`). A blank token with none
saved is written as two quotes, which the bridge sends as the token
(`chicken_barn_camera/.../plugin.php:19`).

**Bounds.** One network thread, since each `MqttClient` has one, and one command:
the threads meet in the lock and in the gateway, and a command against the endless
poll loop is the smallest instance with every pair of points. `MaxEpoch = 2`
gives a state before, during and after an action. `MaxDrops = 1` and
`MaxFailedWrites = 1`: one failure is what the code has to recover from. Two door
states differ in every topic that is published. Every bound is in a guard
(`MoveDoor`, `OnMessage`, `LoseConnection`, `WriteFails`, `PerformFails`), polls
are not bounded. The system really stops (`Exit`), so deadlock is not checked.

For the detector, three messages from others let a frame, a reset and a query meet between
two scans; an inbox of two holds a message and an echo (QoS 0: what does not fit is lost);
the frames are a low, a high (rounded up) and a medium threat, and no threat, with a
rounding tie, a confidence just below its threshold and one frame too long for a message.

For the installation, a second one is what it takes to remove a runtime that was once in
use, the one the first replaced; the three directories are the current, the previous and a
candidate (a fourth adds no state). Two PIDs: the bridge and another program, or two
bridges. One command of the page, one power cut and one signal, which meet every step of
both. For the settings, two sessions with two saves and two upgrades: a save that sets a
secret and one that leaves it blank, an upgrade that fails and one that follows it; a secret,
a number and two topics, with values that are plain, blank, spaced, escaped and with a
`%`, under the rules of the door and of the camera plugin. For the dataset, two sources, one
required and one resuming, with three images in two splits, one of them shared by two
records and two of them a capture group, of three contents, one of which is broken. Two runs,
one interrupt and one preparation: a run that is cut off, one after it, and the dataset at
any moment of them. `coverage_omission` has three runs, so that a duplicate can outlive a
refresh that was cut off. The theorems hold for every value of these bounds. These counters
are bounds of the guards `BeginUpgrade`, `BeginInstall`, `PageCalls`, `PowerGoes`,
`Signalled`, `Post`, `preupgrade`, `PowerCut`, `BeginDownload`, `BeginPrepare` and `Interrupt`.
Deadlock is not checked for settings and dataset, which rest when the bounds are used up.

**Fairness.** A thread that can take a step of its own takes it (WF): threads are
preempted, not stopped. A gateway call is answered (WF), since each HTTP request has a
timeout. The main task goes on with a stop it began (WF). A command gets the lock if it is
free again and again (SF): it retries every 10 ms, and a poll leaves the lock free for a
poll interval, which the configuration requires to be positive and which is seconds in
practice. The network thread and the pipeline of the detector take their steps (WF) for
the same reasons: camera and inference requests have timeouts. Nothing is assumed of the
door, of lost connections returning, of commands or of a stop being asked for:
`RetainedConverges` says only what follows if polls go on succeeding. `PluginUpgrade`,
`PluginSettings` and `DatasetPipeline` state no fairness: a user, an installer and a power
supply promise nothing.

## 4. Proofs

`tlapm` checks every step of the `*_proofs` modules.

| Theorem | Says |
|---|---|
| `TypesHold` | `Spec => []TypeOK` for the bridge |
| `LockExcludes` | `Spec => []LockIsHeldInside` |
| `CallsAreSerialized` | `Spec => []SerializedUntilStop` |
| `PublicationsAdvance` | `Spec => NoStalePublish` |
| `SuccessesArePublished` | `Spec => []SuccessIsPublished` |
| `TopicsTellOfOneStatus` | `Spec => []RetainedIsOneStatus` |
| `PanelIsCurrent` | `Spec => []PanelShowsLastPoll` |
| `GatewayAnswersAreFresh` | `GatewaySpec => []AnswerIsFresh` |
| `ClientTypesHold` | `Spec => []TypeOK` for the vendor client |
| `ClientImplementsGateway` | `Spec => ImplementsDoorGateway`, the refinement |
| `SettingsAreTyped` | `Spec => []TypeOK` for the settings |
| `SavedSettingsStay` | `Spec => []SavedIsKept` |
| `RequiredSecretsStay` | `Spec => []RequiredSecretStays` |
| `StartsSeeWholeSettings` | `Spec => []StartSeesWholeSettings` |
| `TopicsFollowSettings` | `Spec => []SubscriptionsFollowSettings` |
| `UpgradeIsTyped` | `Spec => []TypeOK` for the upgrade and the control scripts |
| `LinkNamesAValidRuntime` | `Spec => []VenvIsValidated` |
| `PreviousStaysAWayBack` | `Spec => []PreviousIsAWayBack` |
| `NoBridgeLosesItsRuntime` | `Spec => []BridgeKeepsItsRuntime` |
| `RestartedOnNewCode` | `Spec => UpgradeRunsNewCode` |
| `ControlTracksTheBridge` | `Spec => []BridgeIsTracked` |
| `FailedStartsLeaveNothing` | `Spec => FailedStartLeavesNothing` |
| `WorkspaceIsTyped` | `Spec => []TypeOK` for the dataset |
| `NothingLeaks` | `Spec => []NoLeakage` |
| `SuccessesAreComplete` | `Spec => []SuccessIsComplete` |
| `AcceptedCsvIsComplete` | `Spec => []AcceptedIsComplete` |
| `FinishedWorkStays` | `Spec => FinishedWorkIsKept` |
| `DetectorIsTyped` | `Spec => []TypeOK` for the detector |
| `StateIsPublished` | `Spec => []PublishedIsState` for the detector |
| `WorstDetectionIsPublished` | `Spec => []PublishedIsWorstDetection` |
| `NoThreatIsMissed` | a frame's level is at least that of each detection at or above the threshold, for frames of every length |
| `RoundedScoreFitsLevel` | rounding a detection's score never moves it below its level |
| `WorseScoreWorseLevel` | the level is monotonic in the score |

`BridgeInvariant`, `SettingsInvariant` and `UpgradeInvariant` state the inductive
invariants, and so do the lemmas `PublicationInvariant`, `PipelineInvariant` and
`DetectorInvariant`, whose invariants were model-checked before they were proved.
`BridgeCtl_proofs` has no theorem of its own: its lemmas are about one step of the script,
since only a module that calls the script has a specification.

Assumptions: those named in the modules. The threads are distinct and no thread is
`NoThread`; the bounds are natural numbers; the vendor's data are well-formed and not
empty; a pending text means the action it belongs to, or nothing the bridge knows. There
is no bound on the number of network threads, of sessions of the page, of callers of the
script, PIDs and runtimes, of sources and images, on the length of a frame, and the bounds
of the guards are arbitrary.

The properties of the bridge are not inductive alone. `BridgeInv` adds why the first
four hold:

- `CallsBelongToThreads`: a gateway call is under way only for the thread that
  waits for it, or for a cancelled poll. With `LockIsHeldInside`, at most one
  thread waits, so at most one call runs; `CancelledByStop` says that a cancelled
  poll means a stop. That gives `SerializedUntilStop`.
- `GatewayInv`: an answer lies between the start of its call and the vendor's present.
- `RetainedIsPast`, `StatusIsPast`: what a thread between answer and publication
  holds is not older than any retained message. It holds when the answer is taken
  because the call began under the lock, when everything retained was already
  there and past; it is kept because nobody else publishes while the lock is held.
  That is the argument for `NoStalePublish`, and it is where a poll that published
  outside the lock would fail. `LocalDoorIsStill` does the same for the local
  fallback, in which time does not pass.

`PublicationInv`, inductive on top of `BridgeInv`, is about what was published.
`BeingPublished`: the device holds the position of the status that is being published,
and the topics handed over so far tell of that status. Since the lock lets only one
thread publish, nobody else hands a message over until the last one, so that they come
to tell of it all (`SuccessWasPublished`, `TopicsAgree`). After that
`RetainedIsPast` lets only newer statuses overtake it. A failed publication, which leaves
the topics mixed, comes with a lost connection (`LostIsCounted`).

The client's invariant is `RequestsInOrder`: `acted`, `since` and the answer agree
with the step of the request. The refinement then maps each request that answers
to an answer of the gateway and the others to stuttering steps.

`SettingsInv` follows the saved values to the one place where they are at each step: the
file, the request that is writing it, the backup of `preupgrade.sh`, or the copy that
`postupgrade.sh` puts back (`WantedIsSomewhere`, and `SecretsAreSomewhere` for what must
survive a failed write or a power cut; it gives up only when writers overlap or the
installer replaces the file). `RequestsFit` says that what is no secret left blank will be
written as it was posted. A file agrees with `wanted` field by field, for the steady
values only (`Agrees`). `FilesAreWritten` says that a whole file has the quotes its
writers give it, so that the form and the bridge read the same plain values, and
`TopicsAreCurrent` that whoever is about to write topics holds those of the file, unless
the last writer was cut short.

`UpgradeInv` includes `CtlInv`, which is about the scripts: each of them takes its turn,
and `KnownTo` says what a script that is alone may rely on at each of its commands, down
to "no bridge runs" before it starts one. On top of it `HookFits` ties the shell variables
of the hook to its step, `LinkIsSafe` and `WayBackIsKept` keep the directories behind both
links out of reach of what is built and removed, and `RunsFit` says that without a runtime
there is no bridge and no script is about to start one. `OldBridgesAreStopped` is the
argument that an `rm -rf` hits no running bridge: a stop that returned, or an `is-running`
that said no, leaves none but strays, so until the link moves every bridge, and every one
told to end since the upgrade began (`Attached`), is one that ran from `venv`
(`FromVenv`), and `cleanup_previous_runtime` spares what `venv` names. `NoneUntilStarted`
is the same argument for `UpgradeRunsNewCode`, and needs that the page starts nothing.

`PipelineInv` rests on one fact about every step, `OthersUntouched`: a run changes the
files and the manifest of the source it is fetching and of no other, and a run that does
not fetch changes none. So what a run has collected stays complete until the CSV is
written (`RecordsAreComplete`), and when it is written the run has collected every
complete manifest, selected or not (`CollectedIsRecorded`): that is `SuccessIsComplete`.
`TornFits` is why a failed source does not spoil it: without a refresh that was left half
way a manifest that lists images has them all, and a source that failed has nothing
complete. The invariant has two halves, `DownloadInv` and `BuildInv`, as there are two
programs: a step of one leaves the files of the other alone. `BuildFits` says what the
rows that are still to be copied and those that are copied have in common: they are the
validated rows, so their groups keep to one split whatever the downloader does, and the
copies are what was validated if no download ran. That is `NoLeakage`. For
`AcceptedIsComplete` the report must be current (`ReportIsCurrent`): the records that the
last CSV skipped as duplicates alone make up the number that the coverage check allows to
be missing, so that one more missing row exceeds it. That is a count of two finite sets,
one strictly inside the other (`CountGrows`), where a path that two records share counts
twice; `CountOfTheRest` takes the CSV from the records, and needs that no row of it is
such a path. `FinishedWorkIsKept` is `OthersUntouched` read from the other side.

`AnswerInv` of the detector says that what the network thread is about to publish is the
assessment it stored. `DetectorInv` says that every assessment that is anywhere in the
detector is `Faithful`, which is what `PublishedIsWorstDetection` says of the published
one, exactly the level and the rounded score of a detection that no other exceeds: it is
`NoThreat` or a score, and none is changed on its way. That scores are faithful follows
from the lemmas about `DangerScorer`: the two filters keep what they should and nothing
else (`ThoseAreKept`), the maximum exists and is reached (`ScoreIsLargest`), and rounding
does not leave the level (`RoundingKeepsTheLevel`). The library's induction theorems take
an operator, which no installed prover instantiates, so these lemmas use that `<` is
well-founded and look at a least counterexample (`UpTo`).

Only model-checked: liveness under fairness, which is out of the prover's reach like
everything that needs ENABLED. These are `CommandsEnd`, `StopEnds` and `RetainedConverges`
of the door, `CallsEnd` of the client, and `EchoesEnd`, `PollingGoesOn` and
`StateIsRepublished` of the detector. The runs that expect a violation have nothing to
prove. Every other property of a run is stated by a theorem.

## 5. Not modelled, and what could be added

Not modelled, and why:

- What the scripts cannot prevent is in the model, and excluded by name where a property
  fails of it: strays, overlapping scripts, a page start during an upgrade (a recorded
  hazard), signals, builds during a download.
- `App` with several runtimes, their failing starts and stops, and the window between
  subscription and callback: `App.stop` stops at the first runtime that fails (a
  recorded hazard); a lifecycle module would show no more than that loop.
- The inference service: it answers each request on its own; its one model is loaded
  lazily, and a double load changes no answer.
- The camera firmware: one loop, one request at a time, differences of unsigned
  milliseconds that a wrap-around does not disturb.
- The HTTP gate, which nothing calls; the release scripts; the uninstall script;
  diagnostics and layout of the web page; logging and wording.
- Training, evaluation and promotion of a model: single sequential runs over files
  that nothing else writes. How each provider's images are found and its boxes are
  converted is a choice of the images in `DatasetPipeline`.
- The training notebook, `ml/chicken_threat/notebooks/train_candidate.ipynb`: of its
  15 000 lines of JSON only some 70 are code, the rest is recorded output.

What a next step would add:

1. `BridgeLifecycle`: `App` and several runtimes, the status snapshot.
2. The broker's settings in the server's `general.json`, and the precedence of sources.
