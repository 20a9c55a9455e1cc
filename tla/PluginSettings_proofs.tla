----------------------- MODULE PluginSettings_proofs -----------------------
(* The settings of the plugin: what was saved stays saved, secrets are not *)
(* lost, a bridge that starts sees whole settings, and the Gateway's       *)
(* topics follow them.                                                     *)
EXTENDS PluginSettings, TLAPS

(* What a text in the file may look like: only the form quotes, and it     *)
(* quotes what is blank or spaced.                                         *)
Written(file) ==
  /\ file.state # "whole" => file.text = NoText
  /\ \A f \in Fields : file.text[f].quoted => file.text[f].value \in Spaced \cup {Blank}

FilesAreWritten == Written(ini) /\ Written(backup)

(* Until two writers have overlapped, there is one at a time.              *)
OneWriter ==
  ~overlapped => \A p \in Sessions : Saving(p) =>
                    /\ upgrade.step = "idle"
                    /\ \A q \in Sessions \ {p} : ~Saving(q)

MandatorySecrets == Secrets \cap profile.mandatory

LeftBlank(p, f) == f \in Secrets /\ request[p].posted[f] = Blank

(* What is not a secret left blank will be written as it was posted.       *)
RequestsFit ==
  \A p \in Sessions : request[p].step \in {"open", "write"} =>
    \A f \in Fields : ~LeftBlank(p, f) => request[p].settings[f] = request[p].posted[f]

HoldsSecrets(file) ==
  file.state = "whole" =>
    \A s \in MandatorySecrets : wanted[s] # Blank => file.text[s].value # Blank

(* A mandatory secret is in the file, or in the backup that will replace   *)
(* it, or in the request that is about to write it.                        *)
SecretsAreSomewhere ==
  ~overlapped /\ ~lost =>
    /\ HoldsSecrets(ini)
    /\ ini.state = "absent" \/ upgrade.step = "copy" => HoldsSecrets(backup)
    /\ \A p \in Sessions, s \in MandatorySecrets :
         /\ At(p, "load") /\ request[p].posted[s] = Blank => load_settings[s] # Blank
         /\ request[p].step \in {"open", "write"} => request[p].settings[s] # Blank

Agrees(file) == \A f \in Fields : Steady(wanted[f]) => file.text[f].value = wanted[f]

(* The settings the user wanted are in the file, in the backup or in the   *)
(* request, at each step of a save and of an upgrade.                      *)
WantedIsSomewhere ==
  Undisturbed =>
    /\ ini.state = "whole" => Agrees(ini)
    /\ ini.state # "whole" => \/ upgrade.step \in {"restore", "copy"}
                              \/ \E p \in Sessions : At(p, "write")
    /\ upgrade.step = "restore" => ini.state # "empty"
    /\ upgrade.step = "copy" \/ (upgrade.step = "restore" /\ ini.state = "absent") =>
         backup.state = "whole" /\ Agrees(backup)
    /\ \A p \in Sessions, f \in Fields : Steady(wanted[f]) =>
         /\ request[p].step \in {"open", "write"} /\ LeftBlank(p, f) =>
              request[p].settings[f] = wanted[f]
         /\ At(p, "subscribe") => request[p].settings[f] = wanted[f]

Quiet == upgrade.step \in {"idle", "files"} /\ \A p \in Sessions : ~Saving(p)

(* The topics are those of the file when nobody has begun to change them,  *)
(* or about to be.                                                         *)
TopicsAreCurrent ==
  Undisturbed =>
    /\ ~unsynced /\ Quiet /\ PlainTopics /\ ~sync_raises =>
         subscriptions = build_mqtt_subscriptions
    /\ upgrade.step = "replace" => upgrade.topics = build_mqtt_subscriptions

SettingsInv ==
  /\ TypeOK
  /\ FilesAreWritten /\ OneWriter /\ RequestsFit
  /\ SecretsAreSomewhere /\ WantedIsSomewhere /\ TopicsAreCurrent

---------------------------------------------------------------------------
(* Types of the pieces.                                                    *)

LEMMA TextType ==
  \A v \in Values : Plain(v) \in Text /\ ini_value(v) \in Text
BY SettingsAssumption DEF Plain, ini_value, Text

LEMMA FileType ==
  /\ NoText \in [Fields -> Text]
  /\ Absent \in File /\ Empty \in File /\ Packaged \in File
  /\ \A text \in [Fields -> Text] : Holding(text) \in File
BY TextType, SettingsAssumption DEF NoText, Absent, Empty, Packaged, Holding, File

LEMMA FormTopicsType ==
  ASSUME NEW settings \in [Fields -> Values]
  PROVE  FormTopics(settings) \in SUBSET (Text \X Text)
BY TextType, SettingsAssumption DEF FormTopics

LEMMA TopicsOfFileType ==
  ASSUME ini \in File
  PROVE  build_mqtt_subscriptions \in SUBSET (Text \X Text)
BY SettingsAssumption DEF build_mqtt_subscriptions, File

LEMMA LoadedType ==
  ASSUME ini \in File
  PROVE  /\ load_settings \in [Fields -> Values]
         /\ \A f \in Fields : load_settings[f] = ini.text[f].value
BY DEF load_settings, File, Text

Request == [step : {"idle", "validate", "load", "open", "write", "subscribe"},
            posted : [Fields -> Values], settings : [Fields -> Values]]

LEMMA RequestType ==
  /\ NoRequest \in Request
  /\ \A form \in Forms :
       [NoRequest EXCEPT !.step = "validate", !.posted = form] \in Request
BY SettingsAssumption DEF NoRequest, Request

LEMMA GoToType ==
  ASSUME request \in [Sessions -> Request], NEW p \in Sessions, NEW step, GoTo(p, step),
         step \in {"idle", "validate", "load", "open", "write", "subscribe"}
  PROVE  request' \in [Sessions -> Request]
BY DEF GoTo, Request

LEMMA OpenedType ==
  ASSUME NEW r \in Request, NEW v \in [Fields -> Values]
  PROVE  [r EXCEPT !.step = "open", !.settings = v] \in Request
<1>1. [r EXCEPT !.step = "open"] \in Request
  BY DEF Request
<1>2. \A q \in Request : [q EXCEPT !.settings = v] \in Request
  BY DEF Request
<1>3. [r EXCEPT !.step = "open", !.settings = v]
        = [[r EXCEPT !.step = "open"] EXCEPT !.settings = v]
  OBVIOUS
<1> QED BY <1>1, <1>2, <1>3

LEMMA InitHasTypes == Init => TypeOK
<1> SUFFICES ASSUME Init PROVE TypeOK
    OBVIOUS
<1>1. ini \in File /\ backup \in File
  BY FileType DEF Init
<1>2. subscriptions \in SUBSET (Text \X Text)
  BY FormTopicsType, SettingsAssumption DEF Init
<1>3. /\ request \in [Sessions -> Request]
      /\ upgrade.step = "idle" /\ upgrade = NoUpgrade
  BY RequestType DEF Init, NoUpgrade
<1>4. {overlapped, interrupted, lost, unsynced} \subseteq BOOLEAN
  BY DEF Init
<1>5. /\ wanted \in [Fields -> Values] /\ profile \in Profiles
      /\ saves \in 0..MaxSaves /\ upgrades \in 0..MaxUpgrades
      /\ powerCuts \in 0..MaxPowerCuts
  BY SettingsAssumption DEF Init
<1>6. NoUpgrade \in [step : {"idle", "files", "restore", "copy", "sync", "replace"},
                    topics : SUBSET (Text \X Text)]
  BY DEF NoUpgrade
<1> QED BY <1>1, <1>2, <1>3, <1>4, <1>5, <1>6 DEF TypeOK, Request

LEMMA NextKeepsTypes == TypeOK /\ [Next]_vars => TypeOK'
<1> SUFFICES ASSUME TypeOK, [Next]_vars PROVE TypeOK'
    OBVIOUS
<1> USE SettingsAssumption
<1>1. ASSUME NEW p \in Sessions, NEW form \in Forms, Post(p, form) PROVE TypeOK'
  <2>1. request' \in [Sessions -> Request]
    BY <1>1, RequestType DEF TypeOK, Post, Request
  <2>2. saves' \in 0..MaxSaves
    BY <1>1 DEF TypeOK, Post
  <2> QED BY <1>1, <2>1, <2>2 DEF TypeOK, Post, Request, flags
<1>2. ASSUME NEW p \in Sessions, Validate(p) PROVE TypeOK'
  <2>1. request' \in [Sessions -> Request]
    <3>1. [request[p] EXCEPT !.step = "load"] \in Request
      BY DEF TypeOK, Request
    <3>2. \/ request' = [request EXCEPT ![p] = [request[p] EXCEPT !.step = "load"]]
          \/ request' = [request EXCEPT ![p] = NoRequest]
      BY <1>2 DEF Validate, GoTo, End, TypeOK
    <3>3. request \in [Sessions -> Request]
      BY DEF TypeOK, Request
    <3> QED BY <3>1, <3>2, <3>3, RequestType
  <2>2. overlapped' \in BOOLEAN
    BY <1>2 DEF TypeOK, Validate
  <2> QED BY <1>2, <2>1, <2>2 DEF TypeOK, Validate, Request, counters
<1>3. ASSUME NEW p \in Sessions, Load(p) PROVE TypeOK'
  <2> DEFINE settings == [f \in Fields |->
                IF f \in Secrets /\ request[p].posted[f] = Blank
                THEN load_settings[f] ELSE request[p].posted[f]]
  <2>1. settings \in [Fields -> Values]
    BY LoadedType DEF TypeOK
  <2>2. request' = [request EXCEPT ![p] =
                      [@ EXCEPT !.step = "open", !.settings = settings]]
    BY <1>3 DEF Load
  <2> HIDE DEF settings
  <2>3. request' \in [Sessions -> Request]
    <3>1. [request[p] EXCEPT !.step = "open", !.settings = settings] \in Request
      <4>1. request[p] \in Request
        BY DEF TypeOK, Request
      <4> QED BY <2>1, <4>1, OpenedType
    <3> QED BY <2>2, <3>1 DEF TypeOK, Request
  <2> QED BY <1>3, <2>3 DEF TypeOK, Load, Request, flags, counters
<1>4. ASSUME NEW p \in Sessions, OpenIni(p) PROVE TypeOK'
  <2>1. ini' \in File
    BY <1>4, FileType DEF TypeOK, OpenIni
  <2>2. {overlapped', interrupted', lost', unsynced'} \subseteq BOOLEAN
    BY <1>4 DEF TypeOK, OpenIni
  <2>3. request' \in [Sessions -> Request]
    <3>1. GoTo(p, "write") \/ GoTo(p, "subscribe")
      BY <1>4 DEF OpenIni
    <3>2. request \in [Sessions -> Request]
      BY DEF TypeOK, Request
    <3> QED BY <3>1, <3>2, GoToType
  <2> QED BY <1>4, <2>1, <2>2, <2>3 DEF TypeOK, Request, OpenIni, counters
<1>5. ASSUME NEW p \in Sessions, WriteIni(p) PROVE TypeOK'
  <2>1. [f \in Fields |-> ini_value(request[p].settings[f])] \in [Fields -> Text]
    BY TextType DEF TypeOK
  <2>2. ini' \in File
    BY <1>5, <2>1, FileType DEF WriteIni
  <2>3. wanted' \in [Fields -> Values]
    BY <1>5 DEF WriteIni, TypeOK
  <2>4. {overlapped', interrupted', lost', unsynced'} \subseteq BOOLEAN
    BY <1>5 DEF TypeOK, WriteIni
  <2>5. request' \in [Sessions -> Request]
    BY <1>5 DEF TypeOK, Request, WriteIni, GoTo
  <2> QED BY <1>5, <2>2, <2>3, <2>4, <2>5 DEF TypeOK, Request, WriteIni, counters
<1>6. ASSUME NEW p \in Sessions, save_mqtt_subscriptions(p) PROVE TypeOK'
  <2>1. subscriptions' \in SUBSET (Text \X Text)
    BY <1>6, FormTopicsType DEF TypeOK, save_mqtt_subscriptions
  <2>2. {overlapped', interrupted', lost', unsynced'} \subseteq BOOLEAN
    BY <1>6 DEF TypeOK, save_mqtt_subscriptions
  <2>3. request' \in [Sessions -> Request]
    BY <1>6, RequestType DEF TypeOK, Request, save_mqtt_subscriptions, End
  <2> QED BY <1>6, <2>1, <2>2, <2>3 DEF TypeOK, Request, save_mqtt_subscriptions, counters
<1>7. CASE preupgrade
  <2>1. {overlapped', interrupted', lost', unsynced'} \subseteq BOOLEAN
    BY <1>7 DEF TypeOK, preupgrade
  <2>2. upgrades' \in 0..MaxUpgrades /\ backup' \in File
    BY <1>7, FileType DEF TypeOK, preupgrade
  <2>3. upgrade' \in [step : {"idle", "files"}, topics : SUBSET (Text \X Text)]
    BY <1>7 DEF TypeOK, preupgrade, UpgradeGoesTo
  <2> QED BY <1>7, <2>1, <2>2, <2>3 DEF TypeOK, preupgrade
<1>8. CASE InstallFiles
  <2>1. ini' \in File /\ subscriptions' \in SUBSET (Text \X Text)
    BY <1>8, FileType, FormTopicsType DEF TypeOK, InstallFiles
  <2>2. {overlapped', interrupted', lost', unsynced'} \subseteq BOOLEAN
    BY <1>8 DEF TypeOK, InstallFiles
  <2> QED BY <1>8, <2>1, <2>2 DEF TypeOK, InstallFiles, UpgradeGoesTo, counters
<1>9. CASE OpenRestore
  <2>1. ini' \in File
    BY <1>9, FileType DEF TypeOK, OpenRestore
  <2> QED BY <1>9, <2>1 DEF TypeOK, OpenRestore, UpgradeGoesTo, flags, counters
<1>10. CASE Restore
  BY <1>10 DEF TypeOK, Restore, UpgradeGoesTo, flags, counters
<1>11. CASE SyncReads
  <2>1. upgrade' \in [step : {"idle", "replace"}, topics : SUBSET (Text \X Text)]
    BY <1>11, TopicsOfFileType DEF TypeOK, SyncReads, NoUpgrade
  <2> QED BY <1>11, <2>1 DEF TypeOK, SyncReads, flags, counters
<1>12. CASE SyncReplaces
  BY <1>12 DEF TypeOK, SyncReplaces, NoUpgrade, counters
<1>13. CASE PowerCut
  <2>1. backup' \in File
    BY <1>13, FileType DEF TypeOK, PowerCut
  <2> QED BY <1>13, <2>1 DEF TypeOK, PowerCut, NoRequest, NoUpgrade, AtRest, Saving, At
<1>14. CASE UNCHANGED vars
  BY <1>14 DEF TypeOK, vars, flags, counters
<1>15. ASSUME NEW p \in Sessions, WriteFails(p) PROVE TypeOK'
  <2>1. {overlapped', interrupted', lost', unsynced'} \subseteq BOOLEAN
    BY <1>15 DEF TypeOK, WriteFails
  <2>2. request' \in [Sessions -> Request]
    BY <1>15 DEF TypeOK, Request, WriteFails, GoTo
  <2> QED BY <1>15, <2>1, <2>2 DEF TypeOK, Request, WriteFails, counters
<1>16. CASE UpgradeFails
  <2>1. {overlapped', interrupted', lost', unsynced'} \subseteq BOOLEAN
    BY <1>16 DEF TypeOK, UpgradeFails
  <2> QED BY <1>16, <2>1 DEF TypeOK, UpgradeFails, NoUpgrade, counters
<1> QED BY <1>1, <1>2, <1>3, <1>4, <1>5, <1>6, <1>7, <1>8, <1>9, <1>10, <1>11,
           <1>12, <1>13, <1>14, <1>15, <1>16 DEF Next

---------------------------------------------------------------------------
(* What the steps of a request do to the requests.                         *)

LEMMA GoToChanges ==
  ASSUME request \in [Sessions -> Request], NEW p \in Sessions, NEW step, GoTo(p, step)
  PROVE  /\ request'[p].step = step
         /\ request'[p].posted = request[p].posted
         /\ request'[p].settings = request[p].settings
         /\ \A q \in Sessions \ {p} : request'[q] = request[q]
BY DEF GoTo, Request

LEMMA EndChanges ==
  ASSUME request \in [Sessions -> Request], NEW p \in Sessions, End(p)
  PROVE  /\ request'[p].step = "idle"
         /\ \A q \in Sessions \ {p} : request'[q] = request[q]
BY DEF End, NoRequest

LEMMA PostChanges ==
  ASSUME request \in [Sessions -> Request], NEW p \in Sessions, NEW form, Post(p, form)
  PROVE  /\ request'[p].step = "validate"
         /\ \A q \in Sessions \ {p} : request'[q] = request[q]
BY DEF Post, NoRequest

LEMMA LoadChanges ==
  ASSUME request \in [Sessions -> Request], NEW p \in Sessions, Load(p)
  PROVE  /\ request'[p].step = "open"
         /\ request'[p].posted = request[p].posted
         /\ request'[p].settings =
              [f \in Fields |-> IF f \in Secrets /\ request[p].posted[f] = Blank
                                THEN load_settings[f] ELSE request[p].posted[f]]
         /\ \A q \in Sessions \ {p} : request'[q] = request[q]
BY DEF Load, Request

LEMMA CutChanges ==
  PowerCut => \A p \in Sessions : request'[p].step = "idle"
BY DEF PowerCut, NoRequest

---------------------------------------------------------------------------
(* The files.                                                              *)

LEMMA HoldingIsWritten ==
  ASSUME NEW settings \in [Fields -> Values]
  PROVE  /\ Written(Holding([f \in Fields |-> Plain(settings[f])]))
         /\ Written(Holding([f \in Fields |-> ini_value(settings[f])]))
BY SettingsAssumption DEF Written, Holding, Plain, ini_value

LEMMA EmptyIsWritten == Written(Absent) /\ Written(Empty) /\ Written(Packaged)
<1>1. Written(Packaged)
  BY HoldingIsWritten, SettingsAssumption DEF Packaged
<1> QED BY <1>1 DEF Written, Absent, Empty, NoText, Plain

LEMMA FilesStayWritten ==
  ASSUME TypeOK, FilesAreWritten, [Next]_vars
  PROVE  FilesAreWritten'
<1> USE DEF FilesAreWritten
<1>1. \/ ini' \in {ini, backup, Absent, Empty, Packaged}
      \/ \E p \in Sessions : WriteIni(p)
  BY DEF Next, vars, Post, Validate, Load, OpenIni, WriteFails, save_mqtt_subscriptions,
         preupgrade, InstallFiles, OpenRestore, Restore, SyncReads, SyncReplaces,
         UpgradeFails, PowerCut, counters
<1>2. Written(ini')
  <2>1. CASE \E p \in Sessions : WriteIni(p)
    <3> PICK p \in Sessions : WriteIni(p)
      BY <2>1
    <3>1. request[p].settings \in [Fields -> Values]
      BY DEF TypeOK
    <3>2. ini' = Holding([f \in Fields |-> ini_value(request[p].settings[f])])
      BY DEF WriteIni
    <3> QED BY <3>1, <3>2, HoldingIsWritten
  <2> QED BY <1>1, <2>1, EmptyIsWritten
<1>3. backup' \in {ini, backup, Absent, Empty}
  BY DEF Next, vars, Post, Validate, Load, OpenIni, WriteIni, WriteFails,
         save_mqtt_subscriptions, preupgrade, InstallFiles, OpenRestore, Restore, SyncReads,
         SyncReplaces, UpgradeFails, PowerCut
<1>4. Written(backup')
  BY <1>3, EmptyIsWritten
<1> QED BY <1>2, <1>4 DEF Written, NoText, Plain

LEMMA OneWriterStays ==
  ASSUME TypeOK, OneWriter, [Next]_vars
  PROVE  OneWriter'
<1> SUFFICES ASSUME ~overlapped' PROVE OneWriter'
    BY DEF OneWriter
<1>0. request \in [Sessions -> Request]
  BY DEF TypeOK, Request
<1> USE DEF OneWriter, Saving, At
<1>1. ASSUME NEW p \in Sessions, NEW form \in Forms, Post(p, form) PROVE OneWriter'
  BY <1>0, <1>1, PostChanges DEF Post, flags
<1>2. ASSUME NEW p \in Sessions, Validate(p) PROVE OneWriter'
  <2>1. CASE validate_settings(request[p].posted)
    <3>1. /\ upgrade' = upgrade /\ upgrade.step = "idle" /\ ~overlapped
          /\ \A q \in Sessions \ {p} : ~Saving(q)
      BY <1>2, <2>1 DEF Validate
    <3>2. GoTo(p, "load")
      BY <1>2, <2>1 DEF Validate
    <3> QED BY <1>0, <3>1, <3>2, GoToChanges
  <2>2. CASE ~validate_settings(request[p].posted)
    BY <1>0, <1>2, <2>2, EndChanges DEF Validate
  <2> QED BY <2>1, <2>2
<1>3. ASSUME NEW p \in Sessions, Load(p) PROVE OneWriter'
  BY <1>0, <1>3, LoadChanges DEF Load, flags
<1>4. ASSUME NEW p \in Sessions, OpenIni(p) PROVE OneWriter'
  BY <1>0, <1>4, GoToChanges DEF OpenIni
<1>5. ASSUME NEW p \in Sessions, WriteIni(p) \/ WriteFails(p) PROVE OneWriter'
  BY <1>0, <1>5, GoToChanges DEF WriteIni, WriteFails
<1>6. ASSUME NEW p \in Sessions, save_mqtt_subscriptions(p) PROVE OneWriter'
  BY <1>0, <1>6, EndChanges DEF save_mqtt_subscriptions
<1>7. CASE preupgrade
  BY <1>7 DEF preupgrade
<1>8. CASE InstallFiles \/ OpenRestore \/ Restore \/ SyncReads \/ SyncReplaces \/ UpgradeFails
  <2>1. upgrade.step # "idle" /\ request' = request /\ ~overlapped
    BY <1>8 DEF InstallFiles, OpenRestore, Restore, SyncReads, SyncReplaces, UpgradeFails, flags
  <2>2. \A p \in Sessions : request[p].step \in {"idle", "validate"}
    BY <2>1
  <2> QED BY <2>1, <2>2
<1>9. CASE PowerCut
  BY <1>9, CutChanges
<1>10. CASE UNCHANGED vars
  BY <1>10 DEF vars, flags
<1> QED BY <1>1, <1>2, <1>3, <1>4, <1>5, <1>6, <1>7, <1>8, <1>9, <1>10 DEF Next

---------------------------------------------------------------------------
(* Secrets.                                                                *)

LEMMA WriterIsAlone ==
  ASSUME OneWriter, ~overlapped, NEW p \in Sessions, Saving(p)
  PROVE  /\ upgrade.step = "idle"
         /\ \A q \in Sessions \ {p} : request[q].step \in {"idle", "validate"}
BY DEF OneWriter, Saving, At

LEMMA UpgradeIsAlone ==
  ASSUME OneWriter, ~overlapped, upgrade.step # "idle"
  PROVE  \A p \in Sessions : request[p].step \in {"idle", "validate"}
BY DEF OneWriter, Saving, At

LEMMA RequestsStayFit ==
  ASSUME TypeOK, RequestsFit, [Next]_vars
  PROVE  RequestsFit'
<1>0. request \in [Sessions -> Request]
  BY DEF TypeOK, Request
<1> USE DEF RequestsFit, LeftBlank
<1>1. ASSUME NEW p \in Sessions, NEW form \in Forms, Post(p, form) PROVE RequestsFit'
  BY <1>0, <1>1, PostChanges
<1>2. ASSUME NEW p \in Sessions, Validate(p) PROVE RequestsFit'
  BY <1>0, <1>2, GoToChanges, EndChanges DEF Validate
<1>3. ASSUME NEW p \in Sessions, Load(p) PROVE RequestsFit'
  <2>1. /\ request'[p].posted = request[p].posted
        /\ \A q \in Sessions \ {p} : request'[q] = request[q]
    BY <1>0, <1>3, LoadChanges
  <2>2. request'[p].settings =
          [f \in Fields |-> IF f \in Secrets /\ request[p].posted[f] = Blank
                            THEN load_settings[f] ELSE request[p].posted[f]]
    BY <1>0, <1>3, LoadChanges
  <2> QED BY <2>1, <2>2
<1>4. ASSUME NEW p \in Sessions, OpenIni(p) PROVE RequestsFit'
  BY <1>0, <1>4, GoToChanges DEF OpenIni, At
<1>5. ASSUME NEW p \in Sessions, WriteIni(p) \/ WriteFails(p) PROVE RequestsFit'
  BY <1>0, <1>5, GoToChanges DEF WriteIni, WriteFails
<1>6. ASSUME NEW p \in Sessions, save_mqtt_subscriptions(p) PROVE RequestsFit'
  BY <1>0, <1>6, EndChanges DEF save_mqtt_subscriptions
<1>7. CASE UNCHANGED request
  BY <1>7
<1>8. CASE PowerCut
  BY <1>8, CutChanges
<1> QED BY <1>1, <1>2, <1>3, <1>4, <1>5, <1>6, <1>7, <1>8
        DEF Next, vars, preupgrade, InstallFiles, OpenRestore, Restore, SyncReads, SyncReplaces,
            UpgradeFails

LEMMA SecretsStay ==
  ASSUME TypeOK, OneWriter, RequestsFit, SecretsAreSomewhere, [Next]_vars
  PROVE  SecretsAreSomewhere'
<1> SUFFICES ASSUME ~overlapped', ~lost' PROVE SecretsAreSomewhere'
    BY DEF SecretsAreSomewhere
<1>0. /\ request \in [Sessions -> Request]
      /\ MandatorySecrets \subseteq Secrets /\ MandatorySecrets \subseteq Fields
  BY SettingsAssumption DEF TypeOK, Request, MandatorySecrets
<1> USE DEF SecretsAreSomewhere, HoldsSecrets, At
<1>1. ASSUME NEW p \in Sessions, NEW form \in Forms, Post(p, form)
      PROVE SecretsAreSomewhere'
  BY <1>0, <1>1, PostChanges DEF Post, MandatorySecrets, load_settings, flags
<1>2. ASSUME NEW p \in Sessions, Validate(p) PROVE SecretsAreSomewhere'
  <2>0. UNCHANGED <<profile, ini, backup, upgrade, wanted>> /\ ~overlapped /\ ~lost
    BY <1>2 DEF Validate
  <2>1. CASE validate_settings(request[p].posted)
    <3>1. \A s \in MandatorySecrets : request[p].posted[s] = Blank => load_settings[s] # Blank
      BY <1>0, <2>1 DEF validate_settings, IsMissing, MandatorySecrets
    <3>2. GoTo(p, "load")
      BY <1>2, <2>1 DEF Validate
    <3>3. /\ MandatorySecrets' = MandatorySecrets
          /\ \A s \in MandatorySecrets : load_settings'[s] = load_settings[s]
      BY <2>0 DEF MandatorySecrets, load_settings
    <3>4. /\ request'[p].step = "load" /\ request'[p].posted = request[p].posted
          /\ \A q \in Sessions \ {p} : request'[q] = request[q]
      BY <1>0, <3>2, GoToChanges
    <3> QED BY <2>0, <3>1, <3>3, <3>4
  <2>2. CASE ~validate_settings(request[p].posted)
    BY <1>0, <1>2, <2>0, <2>2, EndChanges DEF Validate, MandatorySecrets, load_settings
  <2> QED BY <2>1, <2>2
<1>3. ASSUME NEW p \in Sessions, Load(p) PROVE SecretsAreSomewhere'
  <2>1. UNCHANGED <<profile, ini, backup, upgrade, wanted>> /\ ~overlapped /\ ~lost
    BY <1>3 DEF Load, flags
  <2>2. At(p, "load")
    BY <1>3 DEF Load
  <2>3. /\ request'[p].step = "open"
        /\ \A f \in Fields : request'[p].settings[f] =
             IF f \in Secrets /\ request[p].posted[f] = Blank
             THEN load_settings[f] ELSE request[p].posted[f]
        /\ \A q \in Sessions \ {p} : request'[q] = request[q]
    BY <1>0, <1>3, LoadChanges
  <2>4. \A s \in MandatorySecrets : request[p].posted[s] = Blank => load_settings[s] # Blank
    BY <2>1, <2>2
  <2>5. \A s \in MandatorySecrets : request'[p].settings[s] # Blank
    BY <1>0, <2>3, <2>4
  <2>6. /\ MandatorySecrets' = MandatorySecrets
        /\ \A s \in MandatorySecrets : load_settings'[s] = load_settings[s]
    BY <2>1 DEF MandatorySecrets, load_settings
  <2> QED BY <2>1, <2>3, <2>5, <2>6
<1>4. ASSUME NEW p \in Sessions, OpenIni(p) \/ WriteFails(p) PROVE SecretsAreSomewhere'
  <2>1. /\ UNCHANGED <<profile, backup, upgrade, wanted>> /\ ini' \in {ini, Empty}
        /\ ~overlapped /\ ~lost /\ Saving(p) /\ request[p].step \in {"open", "write"}
        /\ GoTo(p, "write") \/ GoTo(p, "subscribe")
    BY <1>4 DEF OpenIni, WriteFails, Saving
  <2>2. /\ upgrade.step = "idle"
        /\ \A q \in Sessions \ {p} : request[q].step \in {"idle", "validate"}
    BY <2>1, WriterIsAlone
  <2>3. /\ request'[p].step \in {"write", "subscribe"}
        /\ request'[p].settings = request[p].settings
        /\ \A q \in Sessions \ {p} : request'[q] = request[q]
    BY <1>0, <2>1, GoToChanges
  <2> QED BY <2>1, <2>2, <2>3 DEF MandatorySecrets, Empty
<1>5. ASSUME NEW p \in Sessions, WriteIni(p) PROVE SecretsAreSomewhere'
  <2>1. /\ UNCHANGED <<profile, backup, upgrade>>
        /\ ~overlapped /\ Saving(p) /\ GoTo(p, "subscribe") /\ At(p, "write")
        /\ ~lost \/ \A s \in Secrets : request[p].posted[s] # Blank
    BY <1>5 DEF WriteIni, Saving
  <2>2. upgrade.step = "idle" /\ \A q \in Sessions \ {p} : request[q].step \in {"idle", "validate"}
    BY <2>1, WriterIsAlone
  <2>3. \A s \in MandatorySecrets : request[p].settings[s] # Blank
    BY <1>0, <2>1 DEF RequestsFit, LeftBlank
  <2>4. \A v \in Values : v # Blank => ini_value(v).value # Blank
    BY SettingsAssumption DEF ini_value, Plain
  <2>5. /\ ini'.state = "whole"
        /\ \A f \in Fields : ini'.text[f] = ini_value(request[p].settings[f])
    BY <1>5 DEF WriteIni, Holding
  <2>6. \A s \in MandatorySecrets : ini'.text[s].value # Blank
    BY <1>0, <2>3, <2>4, <2>5 DEF Request
  <2> QED BY <1>0, <2>1, <2>2, <2>5, <2>6, GoToChanges DEF MandatorySecrets
<1>6. ASSUME NEW p \in Sessions, save_mqtt_subscriptions(p) PROVE SecretsAreSomewhere'
  BY <1>0, <1>6, EndChanges DEF save_mqtt_subscriptions, MandatorySecrets, load_settings
<1>7. CASE preupgrade
  <2>1. /\ UNCHANGED <<profile, ini, wanted, request>> /\ ~overlapped /\ ~lost
        /\ upgrade'.step \in {"idle", "files"}
        /\ ini.state = "absent" => backup' = backup
        /\ \A p \in Sessions : request[p].step \in {"idle", "validate"}
    BY <1>7 DEF preupgrade, UpgradeGoesTo, Saving, TypeOK
  <2> QED BY <1>0, <2>1 DEF MandatorySecrets
<1>8. CASE InstallFiles \/ OpenRestore \/ Restore \/ SyncReads \/ SyncReplaces \/ UpgradeFails
  <2>0. /\ UNCHANGED <<profile, backup, wanted, request>> /\ upgrade.step # "idle"
        /\ ~overlapped
    BY <1>8
       DEF InstallFiles, OpenRestore, Restore, SyncReads, SyncReplaces, UpgradeFails, flags
  <2>8. ~lost
    <3>1. CASE InstallFiles
      BY <3>1 DEF InstallFiles
    <3>2. CASE lost' = lost
      BY <3>2
    <3> QED BY <1>8, <3>1, <3>2
            DEF OpenRestore, Restore, SyncReads, SyncReplaces, UpgradeFails, flags
  <2>1. /\ UNCHANGED <<profile, backup, wanted, request>> /\ ~overlapped /\ ~lost
        /\ \A p \in Sessions : request[p].step \in {"idle", "validate"}
    BY <2>0, <2>8, UpgradeIsAlone
  <2>2. CASE InstallFiles
    <3>1. ini' = ini \/ (ini' = Absent /\ backup = ini)
      BY <2>1, <2>2 DEF InstallFiles
    <3>2. upgrade'.step = "restore"
      BY <2>2 DEF InstallFiles, UpgradeGoesTo, TypeOK
    <3> QED BY <2>1, <3>1, <3>2 DEF MandatorySecrets, Absent
  <2>3. CASE OpenRestore \/ Restore
    BY <1>0, <2>1, <2>3
       DEF OpenRestore, Restore, UpgradeGoesTo, TypeOK, MandatorySecrets, Empty
  <2>4. CASE SyncReads \/ SyncReplaces \/ UpgradeFails
    BY <1>0, <2>1, <2>4 DEF SyncReads, SyncReplaces, UpgradeFails, MandatorySecrets, NoUpgrade
  <2> QED BY <1>8, <2>2, <2>3, <2>4
<1>9. CASE PowerCut
  BY <1>9, CutChanges DEF PowerCut, Absent, NoUpgrade, MandatorySecrets
<1>10. CASE UNCHANGED vars
  BY <1>10 DEF vars, flags, MandatorySecrets, load_settings
<1> QED BY <1>1, <1>2, <1>3, <1>4, <1>5, <1>6, <1>7, <1>8, <1>9, <1>10 DEF Next

---------------------------------------------------------------------------
(* The settings the user wanted.                                           *)

(* Nobody writes, so the file is whole.                                    *)
LEMMA WholeWhenNoneWrites ==
  ASSUME WantedIsSomewhere, Undisturbed, upgrade.step \notin {"restore", "copy"},
         \A p \in Sessions : request[p].step # "write"
  PROVE  ini.state = "whole" /\ Agrees(ini)
BY DEF WantedIsSomewhere, At

LEMMA WantedStays ==
  ASSUME TypeOK, OneWriter, RequestsFit, WantedIsSomewhere, [Next]_vars
  PROVE  WantedIsSomewhere'
<1> SUFFICES ASSUME Undisturbed' PROVE WantedIsSomewhere'
    BY DEF WantedIsSomewhere
<1>0. request \in [Sessions -> Request]
  BY DEF TypeOK, Request
<1> USE DEF WantedIsSomewhere, At, LeftBlank, Agrees
<1>1. ASSUME NEW p \in Sessions, NEW form \in Forms, Post(p, form)
      PROVE WantedIsSomewhere'
  <2>1. UNCHANGED <<ini, backup, upgrade, wanted>> /\ Undisturbed
    BY <1>1 DEF Post, Undisturbed, flags
  <2>2. /\ request[p].step = "idle" /\ request'[p].step = "validate"
        /\ \A q \in Sessions \ {p} : request'[q] = request[q]
    BY <1>0, <1>1, PostChanges DEF Post, flags
  <2> QED BY <2>1, <2>2
<1>2. ASSUME NEW p \in Sessions, Validate(p) PROVE WantedIsSomewhere'
  <2>1. /\ UNCHANGED <<ini, backup, upgrade, wanted>> /\ Undisturbed
        /\ request[p].step = "validate"
    BY <1>2 DEF Validate, Undisturbed
  <2>2. /\ request'[p].step \in {"idle", "load"}
        /\ \A q \in Sessions \ {p} : request'[q] = request[q]
    BY <1>0, <1>2, GoToChanges, EndChanges DEF Validate
  <2> QED BY <2>1, <2>2
<1>3. ASSUME NEW p \in Sessions, Load(p) PROVE WantedIsSomewhere'
  <2>1. /\ UNCHANGED <<ini, backup, upgrade, wanted>> /\ Undisturbed
        /\ request[p].step = "load" /\ Saving(p)
    BY <1>3 DEF Load, Undisturbed, Saving, flags
  <2>2. /\ upgrade.step = "idle"
        /\ \A q \in Sessions \ {p} : request[q].step \in {"idle", "validate"}
    BY <2>1, WriterIsAlone DEF Undisturbed
  <2>3. ini.state = "whole" /\ Agrees(ini)
    BY <2>1, <2>2, WholeWhenNoneWrites
  <2>4. /\ request'[p].step = "open" /\ request'[p].posted = request[p].posted
        /\ request'[p].settings =
             [f \in Fields |-> IF f \in Secrets /\ request[p].posted[f] = Blank
                               THEN load_settings[f] ELSE request[p].posted[f]]
        /\ \A q \in Sessions \ {p} : request'[q] = request[q]
    BY <1>0, <1>3, LoadChanges
  <2>5. \A f \in Fields : load_settings[f] = ini.text[f].value
    BY DEF load_settings
  <2>6. \A f \in Fields : Steady(wanted[f]) /\ LeftBlank(p, f) =>
          request'[p].settings[f] = wanted[f]
    BY <2>3, <2>4, <2>5
  <2> QED BY <2>1, <2>2, <2>3, <2>4, <2>6
<1>4. ASSUME NEW p \in Sessions, OpenIni(p) PROVE WantedIsSomewhere'
  <2>1. /\ UNCHANGED <<backup, upgrade, wanted>> /\ Undisturbed /\ ini' = Empty
        /\ request[p].step = "open" /\ Saving(p) /\ GoTo(p, "write")
    BY <1>4 DEF OpenIni, Undisturbed, Saving
  <2>2. /\ upgrade.step = "idle"
        /\ \A q \in Sessions \ {p} : request[q].step \in {"idle", "validate"}
    BY <2>1, WriterIsAlone DEF Undisturbed
  <2>3. /\ request'[p].step = "write"
        /\ request'[p].posted = request[p].posted
        /\ request'[p].settings = request[p].settings
        /\ \A q \in Sessions \ {p} : request'[q] = request[q]
    BY <1>0, <2>1, GoToChanges
  <2> QED BY <2>1, <2>2, <2>3 DEF Empty
<1>5. ASSUME NEW p \in Sessions, WriteIni(p) PROVE WantedIsSomewhere'
  <2>1. /\ UNCHANGED <<backup, upgrade>> /\ ~overlapped
        /\ request[p].step = "write" /\ Saving(p) /\ GoTo(p, "subscribe")
        /\ \A f \in Fields : wanted'[f] = IF LeftBlank(p, f) THEN wanted[f]
                                          ELSE request[p].posted[f]
        /\ Undisturbed \/ \A f \in Fields : ~LeftBlank(p, f)
    BY <1>5 DEF WriteIni, Undisturbed, Saving
  <2>2. /\ upgrade.step = "idle"
        /\ \A q \in Sessions \ {p} : request[q].step \in {"idle", "validate"}
    BY <2>1, WriterIsAlone
  <2>3. \A f \in Fields : Steady(wanted'[f]) => request[p].settings[f] = wanted'[f]
    BY <2>1 DEF RequestsFit
  <2>4. \A v \in Values : Steady(v) => ini_value(v).value = v
    BY SettingsAssumption DEF Steady, ini_value, Plain
  <2>5. /\ ini'.state = "whole"
        /\ \A f \in Fields : ini'.text[f] = ini_value(request[p].settings[f])
    BY <1>5 DEF WriteIni, Holding
  <2>6. \A f \in Fields : Steady(wanted'[f]) => ini'.text[f].value = wanted'[f]
    <3>1. \A f \in Fields : request[p].settings[f] \in Values
      BY <1>0 DEF Request
    <3> QED BY <2>3, <2>4, <2>5, <3>1
  <2>7. /\ request'[p].step = "subscribe" /\ request'[p].settings = request[p].settings
        /\ \A q \in Sessions \ {p} : request'[q] = request[q]
    BY <1>0, <2>1, GoToChanges
  <2> QED BY <2>1, <2>2, <2>3, <2>5, <2>6, <2>7
<1>6. ASSUME NEW p \in Sessions, save_mqtt_subscriptions(p) PROVE WantedIsSomewhere'
  <2>1. /\ UNCHANGED <<ini, backup, upgrade, wanted>> /\ Undisturbed
        /\ request[p].step = "subscribe" /\ End(p)
    BY <1>6 DEF save_mqtt_subscriptions, Undisturbed
  <2> QED BY <1>0, <2>1, EndChanges
<1>7. CASE preupgrade
  <2>1. /\ UNCHANGED <<ini, wanted, request>> /\ Undisturbed
        /\ upgrade.step = "idle" /\ upgrade'.step \in {"idle", "files"}
        /\ \A p \in Sessions : request[p].step \in {"idle", "validate"}
    BY <1>7 DEF preupgrade, Undisturbed, UpgradeGoesTo, Saving, TypeOK
  <2>2. ini.state = "whole" /\ Agrees(ini)
    BY <2>1, WholeWhenNoneWrites
  <2> QED BY <2>1, <2>2
<1>8. ASSUME InstallFiles \/ OpenRestore \/ Restore \/ SyncReads \/ SyncReplaces \/ UpgradeFails
      PROVE  WantedIsSomewhere'
  <2>7. UNCHANGED <<backup, wanted, request, overlapped>> /\ upgrade.step # "idle"
    BY <1>8
       DEF InstallFiles, OpenRestore, Restore, SyncReads, SyncReplaces, UpgradeFails, flags
  <2>8. Undisturbed
    <3>1. CASE InstallFiles
      <4>1. UNCHANGED <<overlapped, interrupted>>
        BY <3>1 DEF InstallFiles
      <4>2. lost => lost'
        BY <3>1 DEF InstallFiles
      <4> QED BY <4>1, <4>2 DEF Undisturbed
    <3>2. CASE UpgradeFails
      BY <3>2 DEF UpgradeFails, Undisturbed
    <3>3. CASE UNCHANGED <<overlapped, interrupted, lost>>
      BY <3>3 DEF Undisturbed
    <3> QED BY <1>8, <3>1, <3>2, <3>3 DEF OpenRestore, Restore, SyncReads, SyncReplaces, flags
  <2>0. UNCHANGED <<backup, wanted, request>> /\ Undisturbed /\ upgrade.step # "idle"
    BY <2>7, <2>8
  <2>1. /\ UNCHANGED <<backup, wanted, request>> /\ Undisturbed
        /\ \A p \in Sessions : request[p].step \in {"idle", "validate"}
    BY <2>0, UpgradeIsAlone DEF Undisturbed
  <2>2. CASE InstallFiles
    <3>1. ini.state = "whole" /\ Agrees(ini)
      BY <2>1, <2>2, WholeWhenNoneWrites DEF InstallFiles
    <3>2. ini' = ini \/ (ini' = Absent /\ backup = ini)
      BY <2>1, <2>2 DEF InstallFiles, Undisturbed
    <3>3. upgrade.step = "files" /\ upgrade'.step = "restore"
      BY <2>2 DEF InstallFiles, UpgradeGoesTo, TypeOK
    <3> QED BY <2>1, <3>1, <3>2, <3>3 DEF Absent
  <2>3. CASE OpenRestore
    <3>1. upgrade.step = "restore" /\ ini.state \in {"whole", "absent"}
      BY <2>1, <2>3 DEF OpenRestore, TypeOK, File
    <3>2. CASE ini.state = "absent"
      <4>1. backup.state = "whole" /\ Agrees(backup)
        BY <2>1, <3>1, <3>2
      <4>2. ini' = Empty /\ upgrade'.step = "copy"
        BY <2>3, <3>2, <4>1 DEF OpenRestore, UpgradeGoesTo, TypeOK
      <4> QED BY <2>1, <4>1, <4>2 DEF Empty
    <3>3. CASE ini.state = "whole"
      <4>1. ini' = ini /\ upgrade'.step = "sync"
        BY <2>3, <3>3 DEF OpenRestore, UpgradeGoesTo, TypeOK
      <4> QED BY <2>1, <3>3, <4>1
    <3> QED BY <3>1, <3>2, <3>3
  <2>4. CASE Restore
    <3>1. ini' = backup /\ upgrade.step = "copy" /\ upgrade'.step = "sync"
      BY <2>4 DEF Restore, UpgradeGoesTo, TypeOK
    <3>2. backup.state = "whole" /\ Agrees(backup)
      BY <2>1, <3>1
    <3> QED BY <2>1, <3>1, <3>2
  <2>5. CASE SyncReads \/ SyncReplaces
    <3>1. ini.state = "whole" /\ Agrees(ini)
      BY <2>1, <2>5, WholeWhenNoneWrites DEF SyncReads, SyncReplaces
    <3>2. ini' = ini /\ upgrade'.step \in {"idle", "replace"}
      BY <2>5 DEF SyncReads, SyncReplaces, NoUpgrade
    <3> QED BY <2>1, <3>1, <3>2
  <2>6. CASE UpgradeFails
    <3>1. ini' = ini /\ ini.state = "whole" /\ upgrade'.step = "idle"
      BY <2>6 DEF UpgradeFails, Undisturbed, NoUpgrade
    <3> QED BY <2>1, <3>1
  <2> QED BY <1>8, <2>2, <2>3, <2>4, <2>5, <2>6
<1>9. CASE PowerCut
  <2>1. UNCHANGED <<ini, wanted>> /\ Undisturbed /\ AtRest
    BY <1>9 DEF PowerCut, Undisturbed
  <2>2. ini.state = "whole" /\ Agrees(ini)
    BY <2>1, WholeWhenNoneWrites DEF AtRest, Saving
  <2>3. upgrade'.step = "idle" /\ \A p \in Sessions : request'[p].step = "idle"
    BY <1>9, CutChanges DEF PowerCut, NoUpgrade
  <2> QED BY <2>1, <2>2, <2>3
<1>10. CASE UNCHANGED vars
  <2>1. UNCHANGED <<ini, backup, upgrade, wanted, request>> /\ Undisturbed
    BY <1>10 DEF vars, flags, Undisturbed
  <2> QED BY <2>1
<1>11. ASSUME NEW p \in Sessions, WriteFails(p) PROVE FALSE
  BY <1>11 DEF WriteFails, Undisturbed
<1> QED BY <1>1, <1>2, <1>3, <1>4, <1>5, <1>6, <1>7, <1>8, <1>9, <1>10, <1>11 DEF Next

---------------------------------------------------------------------------
(* The topics.                                                             *)

(* Topics that are plain are steady: whoever agrees with what was saved    *)
(* has them.                                                               *)
LEMMA PlainTopicsAreSteady ==
  ASSUME PlainTopics, NEW t \in Topics \cup {BaseTopic}
  PROVE  /\ t \in Fields /\ Steady(wanted[t])
         /\ wanted[t] \notin Spaced \cup {Blank}
BY SettingsAssumption DEF PlainTopics, IsPlain, Steady

(* From whole settings that are plain, the bridge's topics are the form's. *)
LEMMA TopicsOfPlainSettings ==
  ASSUME TypeOK, Written(ini), Agrees(ini), PlainTopics
  PROVE  build_mqtt_subscriptions = FormTopics(wanted)
<1>1. ASSUME NEW t \in Topics \cup {BaseTopic}
      PROVE  ini.text[t] = Plain(wanted[t]) /\ wanted[t] # Blank
  <2>1. /\ t \in Fields /\ ini.text[t] \in Text
        /\ Steady(wanted[t]) /\ wanted[t] \notin Spaced \cup {Blank}
    BY PlainTopicsAreSteady DEF TypeOK, File
  <2>2. ini.text[t].value = wanted[t]
    BY <2>1 DEF Agrees
  <2>3. ini.text[t].quoted = FALSE
    BY <2>1, <2>2 DEF Written, Text
  <2> QED BY <2>1, <2>2, <2>3 DEF Text, Plain
<1>2. \A t \in Topics \cup {BaseTopic} : ini.text[t] # Plain(Blank)
  <2>1. \A v : Plain(v).value = v
    BY DEF Plain
  <2> QED BY <1>1, <2>1
<1>3. {u \in Topics : ini.text[u] # Plain(Blank)} = Topics
  BY <1>2
<1>4. {u \in Topics : wanted[u] # Blank /\ wanted[BaseTopic] # Blank} = Topics
  BY <1>1
<1>5. build_mqtt_subscriptions = {<<ini.text[BaseTopic], ini.text[t]>> : t \in Topics}
  BY <1>3 DEF build_mqtt_subscriptions
<1>6. \A t \in Topics : <<ini.text[BaseTopic], ini.text[t]>>
                         = <<Plain(wanted[BaseTopic]), Plain(wanted[t])>>
  BY <1>1
<1>7. FormTopics(wanted) = {<<Plain(wanted[BaseTopic]), Plain(wanted[t])>> : t \in Topics}
  BY <1>4 DEF FormTopics
<1> QED BY <1>5, <1>6, <1>7

(* What the bridge makes of the file depends on the file alone.            *)
LEMMA TopicsAreSame ==
  ASSUME UNCHANGED <<ini, wanted>>
  PROVE  UNCHANGED <<build_mqtt_subscriptions, sync_raises, PlainTopics>>
BY DEF build_mqtt_subscriptions, sync_raises, _read_ini_settings_raises, PlainTopics

LEMMA TopicsStay ==
  ASSUME TypeOK, FilesAreWritten, OneWriter, WantedIsSomewhere, TopicsAreCurrent, [Next]_vars
  PROVE  TopicsAreCurrent'
<1> SUFFICES ASSUME Undisturbed' PROVE TopicsAreCurrent'
    BY DEF TopicsAreCurrent
<1>0. request \in [Sessions -> Request]
  BY DEF TypeOK, Request
<1> USE DEF TopicsAreCurrent
<1>1. ASSUME NEW p \in Sessions, NEW form \in Forms, Post(p, form)
      PROVE TopicsAreCurrent'
  <2>1. /\ UNCHANGED <<ini, wanted, upgrade, subscriptions, unsynced>> /\ Undisturbed
        /\ request[p].step = "idle"
    BY <1>1 DEF Post, Undisturbed, At, flags
  <2>2. Quiet' => Quiet
    BY <1>0, <1>1, <2>1, PostChanges DEF Quiet, Saving, At
  <2> QED BY <2>1, <2>2, TopicsAreSame
<1>2. ASSUME NEW p \in Sessions, Validate(p) PROVE TopicsAreCurrent'
  <2>1. /\ UNCHANGED <<ini, wanted, upgrade, subscriptions, unsynced>> /\ Undisturbed
        /\ request[p].step = "validate"
    BY <1>2 DEF Validate, Undisturbed, At
  <2>2. \A q \in Sessions \ {p} : request'[q] = request[q]
    BY <1>0, <1>2, GoToChanges, EndChanges DEF Validate
  <2>3. Quiet' => Quiet
    BY <2>1, <2>2 DEF Quiet, Saving, At
  <2> QED BY <2>1, <2>3, TopicsAreSame
<1>3. ASSUME NEW p \in Sessions, Load(p) \/ OpenIni(p) \/ WriteIni(p) PROVE TopicsAreCurrent'
  <2>1. /\ UNCHANGED upgrade /\ ~overlapped
        /\ request[p].step \in {"load", "open", "write"}
    BY <1>3 DEF Load, OpenIni, WriteIni, Undisturbed, At, flags
  <2>2. upgrade.step = "idle"
    BY <2>1, WriterIsAlone DEF Saving, At
  <2>3. request'[p].step \in {"open", "write", "subscribe"}
    BY <1>0, <1>3, LoadChanges, GoToChanges DEF OpenIni, WriteIni
  <2> QED BY <2>1, <2>2, <2>3 DEF Quiet, Saving, At
<1>4. ASSUME NEW p \in Sessions, save_mqtt_subscriptions(p) PROVE TopicsAreCurrent'
  <2>1. /\ UNCHANGED <<ini, wanted, upgrade>> /\ Undisturbed /\ At(p, "subscribe")
        /\ ~unsynced' => subscriptions' = FormTopics(request[p].settings)
    BY <1>4 DEF save_mqtt_subscriptions, Undisturbed
  <2>2. /\ upgrade.step = "idle"
        /\ \A q \in Sessions \ {p} : request[q].step \in {"idle", "validate"}
    BY <2>1, WriterIsAlone DEF Undisturbed, Saving, At
  <2>3. Agrees(ini)
    BY <2>1, <2>2, WholeWhenNoneWrites DEF At
  <2>4. PlainTopics => FormTopics(request[p].settings) = FormTopics(wanted)
    <3>1. \A f \in Fields : Steady(wanted[f]) => request[p].settings[f] = wanted[f]
      BY <2>1 DEF WantedIsSomewhere
    <3>2. PlainTopics => \A t \in Topics \cup {BaseTopic} : request[p].settings[t] = wanted[t]
      BY <3>1, PlainTopicsAreSteady
    <3>3. ASSUME \A t \in Topics \cup {BaseTopic} : request[p].settings[t] = wanted[t]
          PROVE  FormTopics(request[p].settings) = FormTopics(wanted)
      <4>1. {u \in Topics : request[p].settings[u] # Blank
                              /\ request[p].settings[BaseTopic] # Blank}
              = {u \in Topics : wanted[u] # Blank /\ wanted[BaseTopic] # Blank}
        BY <3>3
      <4> QED BY <3>3, <4>1 DEF FormTopics
    <3> QED BY <3>2, <3>3
  <2>5. PlainTopics => build_mqtt_subscriptions = FormTopics(wanted)
    BY <2>3, TopicsOfPlainSettings DEF FilesAreWritten
  <2> QED BY <2>1, <2>2, <2>4, <2>5, TopicsAreSame
<1>5. CASE preupgrade
  <2>1. /\ UNCHANGED <<ini, wanted, subscriptions, request, unsynced>> /\ Undisturbed
        /\ upgrade.step = "idle" /\ upgrade'.step \in {"idle", "files"}
    BY <1>5 DEF preupgrade, UpgradeGoesTo, Undisturbed, TypeOK
  <2>2. Quiet' => Quiet
    BY <2>1 DEF Quiet, Saving, At
  <2> QED BY <2>1, <2>2, TopicsAreSame
<1>6. CASE InstallFiles \/ OpenRestore \/ Restore
  <2>1. upgrade'.step \in {"restore", "copy", "sync"}
    BY <1>6 DEF InstallFiles, OpenRestore, Restore, UpgradeGoesTo, TypeOK
  <2> QED BY <2>1 DEF Quiet
<1>7. CASE SyncReads
  <2>1. UNCHANGED <<ini, wanted>>
    BY <1>7 DEF SyncReads
  <2>2. CASE sync_raises
    BY <1>7, <2>1, <2>2, TopicsAreSame DEF SyncReads, NoUpgrade
  <2>3. CASE ~sync_raises
    <3>1. upgrade'.step = "replace" /\ upgrade'.topics = build_mqtt_subscriptions
      BY <1>7, <2>3 DEF SyncReads
    <3> QED BY <2>1, <3>1, TopicsAreSame DEF Quiet
  <2> QED BY <2>2, <2>3
<1>8. CASE SyncReplaces
  <2>1. /\ UNCHANGED <<ini, wanted>> /\ Undisturbed /\ upgrade.step = "replace"
        /\ subscriptions' = upgrade.topics /\ upgrade'.step = "idle"
    BY <1>8 DEF SyncReplaces, Undisturbed, NoUpgrade
  <2> QED BY <2>1, TopicsAreSame
<1>9. CASE PowerCut
  <2>1. /\ UNCHANGED <<ini, wanted, subscriptions, unsynced>> /\ Undisturbed /\ Quiet
        /\ upgrade'.step = "idle"
    BY <1>9 DEF PowerCut, Undisturbed, NoUpgrade, AtRest, Quiet
  <2> QED BY <2>1, TopicsAreSame
<1>10. CASE UNCHANGED vars
  <2>1. UNCHANGED <<ini, wanted, subscriptions, upgrade, request, unsynced>> /\ Undisturbed
    BY <1>10 DEF vars, flags, Undisturbed
  <2> QED BY <2>1, TopicsAreSame DEF Quiet, Saving, At
<1>11. ASSUME NEW p \in Sessions, WriteFails(p) PROVE FALSE
  BY <1>11 DEF WriteFails, Undisturbed
<1>12. CASE UpgradeFails
  <2>1. /\ UNCHANGED <<ini, wanted, subscriptions, request>> /\ Undisturbed
        /\ upgrade'.step = "idle"
        /\ ~unsynced' => ~unsynced /\ upgrade.step = "files"
    BY <1>12 DEF UpgradeFails, Undisturbed, NoUpgrade
  <2>2. ~unsynced' /\ Quiet' => Quiet
    BY <2>1 DEF Quiet, Saving, At
  <2> QED BY <2>1, <2>2, TopicsAreSame
<1> QED BY <1>1, <1>2, <1>3, <1>4, <1>5, <1>6, <1>7, <1>8, <1>9, <1>10, <1>11, <1>12 DEF Next

---------------------------------------------------------------------------
(* The theorems.                                                           *)

LEMMA InitInv == Init => SettingsInv
<1> SUFFICES ASSUME Init PROVE SettingsInv
    OBVIOUS
<1>1. TypeOK
  BY InitHasTypes
<1>2. FilesAreWritten
  BY HoldingIsWritten, EmptyIsWritten, SettingsAssumption DEF Init, FilesAreWritten
<1>3. \A p \in Sessions : request[p].step = "idle"
  BY DEF Init, NoRequest
<1>4. OneWriter
  BY <1>3 DEF OneWriter, Saving, At
<1>5. /\ ini.state = "whole" /\ upgrade.step = "idle"
      /\ \A f \in Fields : ini.text[f].value = wanted[f]
  BY SettingsAssumption DEF Init, Packaged, Holding, Plain, NoUpgrade
<1>6. SecretsAreSomewhere
  <2>1. MandatorySecrets \subseteq Fields
    BY SettingsAssumption DEF MandatorySecrets
  <2> QED BY <1>3, <1>5, <2>1 DEF SecretsAreSomewhere, HoldsSecrets, At
<1>7. WantedIsSomewhere
  BY <1>3, <1>5 DEF WantedIsSomewhere, Agrees, At
<1>8. TopicsAreCurrent
  <2>1. subscriptions = FormTopics(wanted)
    BY DEF Init
  <2> QED BY <1>1, <1>2, <1>5, <2>1, TopicsOfPlainSettings
             DEF TopicsAreCurrent, FilesAreWritten, Agrees
<1>9. RequestsFit
  BY <1>3 DEF RequestsFit
<1> QED BY <1>1, <1>2, <1>4, <1>6, <1>7, <1>8, <1>9 DEF SettingsInv

(* The inductive invariant of the form, the upgrade scripts and power cuts *)
(* (index.php, preupgrade.sh, postupgrade.sh): at each step of a save or   *)
(* an upgrade, the settings are in one of the places they pass through.    *)
THEOREM SettingsInvariant == Spec => []SettingsInv
<1>1. SettingsInv /\ [Next]_vars => SettingsInv'
  BY NextKeepsTypes, FilesStayWritten, OneWriterStays, RequestsStayFit, SecretsStay,
     WantedStays, TopicsStay
     DEF SettingsInv
<1> QED BY InitInv, <1>1, PTL DEF Spec

(* The requests, the files and the upgrade have their types.               *)
THEOREM SettingsAreTyped == Spec => []TypeOK
<1>1. SettingsInv => TypeOK
  BY DEF SettingsInv
<1> QED BY SettingsInvariant, <1>1, PTL

(* The saved settings stay those of the last save, through the steps of    *)
(* save_settings and of an upgrade that removes the file and puts it back, *)
(* as long as writers do not overlap and no power cut hits one.            *)
THEOREM SavedSettingsStay == Spec => []SavedIsKept
<1>1. SettingsInv => SavedIsKept
  BY WholeWhenNoneWrites
     DEF SettingsInv, SavedIsKept, WantedIsSomewhere, Agrees, load_settings, AtRest, Saving, At
<1> QED BY SettingsInvariant, <1>1, PTL

(* A mandatory secret that was saved is never blank in a whole file, power *)
(* cuts included: save_settings keeps it when the form leaves it blank.    *)
THEOREM RequiredSecretsStay == Spec => []RequiredSecretStays
<1>1. SettingsInv => RequiredSecretStays
  BY SettingsAssumption
     DEF SettingsInv, RequiredSecretStays, SecretsAreSomewhere, HoldsSecrets,
         MandatorySecrets, load_settings
<1> QED BY SettingsInvariant, <1>1, PTL

(* When load_loxberry_config returns, in the middle of a save or of an     *)
(* upgrade, every plain setting is the one that was saved.                 *)
THEOREM StartsSeeWholeSettings == Spec => []StartSeesWholeSettings
<1>1. SettingsInv => StartSeesWholeSettings
  <2> SUFFICES ASSUME SettingsInv, Undisturbed, load_loxberry_config,
                      NEW f \in Fields, IsPlain(wanted[f])
               PROVE  ini.text[f] = Plain(wanted[f])
      BY DEF StartSeesWholeSettings
  <2>1. ini.state = "whole"
    <3>1. ini.text[BaseTopic] # Plain(Blank)
      BY SettingsAssumption DEF load_loxberry_config, SettingsInv, TypeOK
    <3> QED BY <3>1, SettingsAssumption DEF SettingsInv, FilesAreWritten, Written, NoText
  <2>2. ini.text[f] \in Text /\ ini.text[f].value = wanted[f]
    BY <2>1 DEF SettingsInv, WantedIsSomewhere, Agrees, IsPlain, Steady, TypeOK, File
  <2>3. ini.text[f].quoted = FALSE
    BY <2>2 DEF SettingsInv, FilesAreWritten, Written, IsPlain, Text
  <2> QED BY <2>2, <2>3 DEF Text, Plain
<1> QED BY SettingsInvariant, <1>1, PTL

(* When nobody writes, the Gateway's topics are those the bridge builds    *)
(* from the file, whoever wrote them last: the form or the upgrade.        *)
THEOREM TopicsFollowSettings == Spec => []SubscriptionsFollowSettings
<1>1. SettingsInv => SubscriptionsFollowSettings
  BY DEF SettingsInv, SubscriptionsFollowSettings, TopicsAreCurrent, Quiet, AtRest
<1> QED BY SettingsInvariant, <1>1, PTL
=============================================================================
