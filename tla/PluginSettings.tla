--------------------------- MODULE PluginSettings ---------------------------
(***************************************************************************)
(* The settings of a LoxBerry plugin: the settings form of index.php, which *)
(* writes smart-home-bridge.ini and then the topics the MQTT Gateway        *)
(* subscribes to, the upgrade scripts, which save the file, put it back     *)
(* and regenerate the topics, and the two readers of the file: the form     *)
(* (parse_ini_file) and the bridge (ConfigParser), which does not know of   *)
(* the quotes that the form writes.                                         *)
(***************************************************************************)
EXTENDS Naturals, FiniteSets

CONSTANTS
    Sessions,   \* browser sessions; PHP serializes the requests of one
    Fields,     \* the settings of the form
    Secrets,    \* those that the form does not show and may leave blank
    Numbers,    \* those that hold a number
    BaseTopic, Topics,  \* MQTT_BASE_TOPIC and the other topics
    Profiles,   \* [mandatory : required by the form, essential : by the bridge]
    Values, Blank, Numerals,
    Spaced,     \* values with white space, # or ;
    Escaped,    \* Escaped[v]: v with its backslashes and quotes escaped
    Percent,    \* values with a % sign
    Forms,      \* what a session may post
    Shipped,    \* the settings of the package
    MaxSaves, MaxUpgrades, MaxPowerCuts  \* bounds

ASSUME SettingsAssumption ==
    /\ Secrets \subseteq Fields /\ Numbers \subseteq Fields
    /\ Topics \subseteq Fields /\ BaseTopic \in Fields \ Topics
    /\ \A p \in Profiles : BaseTopic \in p.essential /\ p.essential \subseteq p.mandatory
    /\ Blank \in Values /\ Blank \notin Spaced \cup Percent
    /\ Escaped \in [Values -> Values]
    /\ \A v \in Values : Escaped[v] = Blank <=> v = Blank
    /\ \A v \in Spaced \cap Values : Escaped[v] \in Spaced
    /\ Numerals \subseteq Values \ (Spaced \cup Percent \cup {Blank})
    /\ Forms \subseteq [Fields -> Values] /\ Shipped \in [Fields -> Values]
    /\ MaxSaves \in Nat /\ MaxUpgrades \in Nat /\ MaxPowerCuts \in Nat

VARIABLES
    profile,        \* the plugin that is installed
    ini,            \* smart-home-bridge.ini
    subscriptions,  \* mqtt_subscriptions.cfg
    backup,         \* the copy in /tmp
    request,        \* request[p]: the POST request of session p
    upgrade,        \* the upgrade scripts
    wanted,         \* history: the saved settings, a blank secret being the one before
    overlapped,     \* history: did two writers of the settings ever overlap?
    interrupted,    \* history: was a writer cut short since the settings were
                    \* last saved with every secret?
    lost,           \* history: or did the installer replace them or remove
                    \* the only copy?
    unsynced,       \* history: was the last writer of the topics cut short?
    saves, upgrades, powerCuts  \* counters for the bounds

counters == <<saves, upgrades, powerCuts>>
flags == <<overlapped, interrupted, lost, unsynced>>
vars == <<profile, ini, subscriptions, backup, request, upgrade,
          wanted, flags, counters>>

\* The text after KEY= : a value, or one between double quotes.
Text == [quoted : BOOLEAN, value : Values]
Plain(v) == [quoted |-> FALSE, value |-> v]

NoText == [f \in Fields |-> Plain(Blank)]
File == [state : {"absent", "empty", "whole"}, text : [Fields -> Text]]
Absent == [state |-> "absent", text |-> NoText]
Empty == [state |-> "empty", text |-> NoText]
Holding(text) == [state |-> "whole", text |-> text]
Packaged == Holding([f \in Fields |-> Plain(Shipped[f])])

NoRequest == [step |-> "idle", posted |-> Shipped, settings |-> Shipped]
NoUpgrade == [step |-> "idle", topics |-> {}]

TypeOK ==
    /\ profile \in Profiles
    /\ ini \in File /\ backup \in File
    /\ subscriptions \in SUBSET (Text \X Text)
    /\ request \in [Sessions -> [step : {"idle", "validate", "load", "open", "write",
                                         "subscribe"},
                                 posted : [Fields -> Values],
                                 settings : [Fields -> Values]]]
    /\ upgrade \in [step : {"idle", "files", "restore", "copy", "sync", "replace"},
                    topics : SUBSET (Text \X Text)]
    /\ wanted \in [Fields -> Values]
    /\ {overlapped, interrupted, lost, unsynced} \subseteq BOOLEAN
    /\ saves \in 0..MaxSaves /\ upgrades \in 0..MaxUpgrades
    /\ powerCuts \in 0..MaxPowerCuts

-----------------------------------------------------------------------------
(* What the two programs make of the file.                                 *)

\* The form's reader: a file that is not there or empty has blank settings.
load_settings == [f \in Fields |-> ini.text[f].value]

\* The form's writer escapes what it quotes; the reader above takes the
\* quotes off again, but not the escapes.
ini_value(v) == IF v = Blank \/ v \in Spaced THEN [quoted |-> TRUE, value |-> Escaped[v]]
                                            ELSE Plain(v)

\* The bridge's reader keeps the quotes, and interpolates: a % sign raises.
_read_ini_settings_raises ==
    ini.state = "absent" \/ \E f \in Fields : ini.text[f].value \in Percent

\* Mutant: a setting that is missing has a default.
load_loxberry_config_NoneRequired ==
    /\ ~_read_ini_settings_raises
    /\ \A f \in Numbers : \E v \in Numerals \cup {Blank} : ini.text[f] = Plain(v)

\* load_loxberry_config returns: what it requires is there and numbers are
\* numbers, or there is nothing and the default holds.
load_loxberry_config ==
    /\ ~_read_ini_settings_raises
    /\ \A f \in profile.essential : ini.text[f] # Plain(Blank)
    /\ \A f \in Numbers : \E v \in Numerals \cup {Blank} : ini.text[f] = Plain(v)

\* The topics the bridge uses, and sync_mqtt_subscriptions writes.
build_mqtt_subscriptions ==
    {<<ini.text[BaseTopic], ini.text[t]>> : t \in {u \in Topics : ini.text[u] # Plain(Blank)}}

sync_raises == _read_ini_settings_raises \/ ini.text[BaseTopic] = Plain(Blank)

\* The topics save_mqtt_subscriptions writes.
FormTopics(settings) ==
    {<<Plain(settings[BaseTopic]), Plain(settings[t])>> :
        t \in {u \in Topics : settings[u] # Blank /\ settings[BaseTopic] # Blank}}

Init ==
    /\ profile \in Profiles
    /\ ini = Packaged
    /\ subscriptions = FormTopics(Shipped)
    /\ backup = Absent
    /\ request = [p \in Sessions |-> NoRequest]
    /\ upgrade = NoUpgrade
    /\ wanted = Shipped
    /\ overlapped = FALSE /\ interrupted = FALSE /\ lost = FALSE /\ unsynced = FALSE
    /\ saves = 0 /\ upgrades = 0 /\ powerCuts = 0

-----------------------------------------------------------------------------
(* A POST with action=save-settings.                                       *)

At(p, step) == request[p].step = step
Saving(p) == ~At(p, "idle") /\ ~At(p, "validate")
GoTo(p, step) == request' = [request EXCEPT ![p].step = step]
End(p) == request' = [request EXCEPT ![p] = NoRequest]

Post(p, form) ==
    /\ At(p, "idle")
    /\ saves < MaxSaves /\ saves' = saves + 1
    /\ request' = [request EXCEPT ![p] = [NoRequest EXCEPT !.step = "validate",
                                                          !.posted = form]]
    /\ UNCHANGED <<profile, ini, subscriptions, backup, upgrade, wanted,
                   flags, upgrades, powerCuts>>

\* Mutant: a secret may be left blank.
IsMissing_NeverASecret(form, f) == f \in profile.mandatory \ Secrets /\ form[f] = Blank

\* A required secret may be left blank once it is saved.
IsMissing(form, f) ==
    f \in profile.mandatory /\ form[f] = Blank /\ (f \in Secrets => load_settings[f] = Blank)

validate_settings(form) ==
    /\ \A f \in Fields : ~IsMissing(form, f)
    /\ \A f \in Numbers : form[f] \in Numerals \cup {Blank}

Validate(p) ==
    /\ At(p, "validate")
    /\ IF validate_settings(request[p].posted)
       THEN GoTo(p, "load") /\ overlapped' = (overlapped \/ upgrade.step # "idle"
                                              \/ \E q \in Sessions \ {p} : Saving(q))
       ELSE End(p) /\ UNCHANGED overlapped
    /\ UNCHANGED <<profile, ini, subscriptions, backup, upgrade, wanted,
                   interrupted, lost, unsynced, counters>>

\* Mutant: a secret left blank is saved like that.
Load_PostedOnly(p) ==
    /\ At(p, "load")
    /\ request' = [request EXCEPT ![p] = [@ EXCEPT !.step = "open", !.settings = request[p].posted]]
    /\ UNCHANGED <<profile, ini, subscriptions, backup, upgrade, wanted, flags, counters>>

\* Mutant: a secret left blank is not among the settings.
Load_LeftOut(p) ==
    /\ At(p, "load")
    /\ LET posted == request[p].posted
       IN request' = [request EXCEPT ![p] =
            [@ EXCEPT !.step = "open",
                      !.settings = [f \in {g \in Fields : g \in Secrets => posted[g] # Blank}
                                        |-> posted[f]]]]
    /\ UNCHANGED <<profile, ini, subscriptions, backup, upgrade, wanted, flags, counters>>

\* save_settings reads the file again, for the secrets left blank.
Load(p) ==
    /\ At(p, "load")
    /\ LET posted == request[p].posted
       IN request' = [request EXCEPT ![p] =
            [@ EXCEPT !.step = "open",
                      !.settings = [f \in Fields |-> IF f \in Secrets /\ posted[f] = Blank
                                                     THEN load_settings[f] ELSE posted[f]]]]
    /\ UNCHANGED <<profile, ini, subscriptions, backup, upgrade, wanted, flags, counters>>

\* file_put_contents with LOCK_EX: opened, locked, emptied, then written.  The
\* readers do not lock.  Its result is ignored: after a failure the request
\* goes on, and reports that the settings are saved.
OpenIni(p) ==
    /\ At(p, "open")
    /\ \A q \in Sessions : ~At(q, "write")
    /\ \/ ini' = Empty /\ GoTo(p, "write") /\ UNCHANGED interrupted
       \/ UNCHANGED ini /\ GoTo(p, "subscribe") /\ interrupted' = TRUE
    /\ UNCHANGED <<profile, subscriptions, backup, upgrade, wanted,
                   overlapped, lost, unsynced, counters>>

WriteIni(p) ==
    /\ At(p, "write")
    /\ ini' = Holding([f \in Fields |-> ini_value(request[p].settings[f])])
    /\ wanted' = [f \in Fields |->
                    IF f \in Secrets /\ request[p].posted[f] = Blank
                    THEN wanted[f] ELSE request[p].posted[f]]
    /\ LET inPart == \E s \in Secrets : request[p].posted[s] = Blank
       IN interrupted' = (interrupted /\ inPart) /\ lost' = (lost /\ inPart)
    /\ GoTo(p, "subscribe")
    /\ UNCHANGED <<profile, subscriptions, backup, upgrade, overlapped, unsynced, counters>>

\* No room left: the file stays empty.
WriteFails(p) ==
    /\ At(p, "write")
    /\ GoTo(p, "subscribe") /\ interrupted' = TRUE
    /\ UNCHANGED <<profile, ini, subscriptions, backup, upgrade, wanted,
                   overlapped, lost, unsynced, counters>>

\* Written in the same way, a failure being ignored again.
save_mqtt_subscriptions(p) ==
    /\ At(p, "subscribe")
    /\ \/ subscriptions' = FormTopics(request[p].settings) /\ unsynced' = FALSE
       \/ subscriptions' \in {subscriptions, {}} /\ unsynced' = TRUE
    /\ End(p)
    /\ UNCHANGED <<profile, ini, backup, upgrade, wanted,
                   overlapped, interrupted, lost, counters>>

-----------------------------------------------------------------------------
(* The upgrade: preupgrade.sh, the installer's own work, postupgrade.sh    *)
(* with the end of postinstall.sh.                                         *)

UpgradeGoesTo(step) == upgrade' = [upgrade EXCEPT !.step = step]

\* The hook saves the file; or it ends before that, at a stop that fails, or
\* in the middle of the copy, and the installer gives up or goes on.
preupgrade ==
    /\ upgrade.step = "idle"
    /\ upgrades < MaxUpgrades /\ upgrades' = upgrades + 1
    /\ \/ /\ backup' = IF ini.state = "absent" THEN backup ELSE ini
          /\ UpgradeGoesTo("files")
       \/ /\ backup' = backup \/ (ini.state # "absent" /\ backup' = Empty)
          /\ UpgradeGoesTo("files") \/ UNCHANGED upgrade
    /\ overlapped' = (overlapped \/ \E p \in Sessions : Saving(p))
    /\ UNCHANGED <<profile, ini, subscriptions, request, wanted, interrupted, lost, unsynced,
                   saves, powerCuts>>

\* LoxBerry lays the file of the package, or removes the plugin's files, or
\* leaves the settings alone; and it installs the package's topics, or not.
InstallFiles ==
    /\ upgrade.step = "files"
    /\ \/ UNCHANGED <<ini, lost>>
       \/ ini' = Absent /\ lost' = (lost \/ backup # ini)
       \/ ini' = Packaged /\ lost' = (lost \/ ini # Packaged)
    /\ subscriptions' \in {subscriptions, FormTopics(Shipped)}
    /\ UpgradeGoesTo("restore")
    /\ UNCHANGED <<profile, backup, request, wanted, overlapped, interrupted, unsynced, counters>>

\* Only a file that is not there is put back.
OpenRestore ==
    /\ upgrade.step = "restore"
    /\ IF ini.state = "absent" /\ backup.state # "absent"
       THEN ini' = Empty /\ UpgradeGoesTo("copy")
       ELSE UNCHANGED ini /\ UpgradeGoesTo("sync")
    /\ UNCHANGED <<profile, subscriptions, backup, request, wanted, flags, counters>>

Restore ==
    /\ upgrade.step = "copy"
    /\ ini' = backup
    /\ UpgradeGoesTo("sync")
    /\ UNCHANGED <<profile, subscriptions, backup, request, wanted, flags, counters>>

\* Any command up to the sync, the whole build of the runtime, may fail, and
\* that ends the scripts; so may the sync itself.
UpgradeFails ==
    /\ upgrade.step # "idle"
    /\ upgrade' = NoUpgrade
    /\ interrupted' = (interrupted \/ ini.state # "whole")
    /\ unsynced' = (unsynced \/ upgrade.step # "files")
    /\ UNCHANGED <<profile, ini, subscriptions, backup, request, wanted,
                   overlapped, lost, counters>>

\* Mutant: the topics are those of the package.
SyncReads_Never ==
    /\ upgrade.step = "sync"
    /\ upgrade' = NoUpgrade
    /\ UNCHANGED <<profile, ini, subscriptions, backup, request, wanted, flags, counters>>

\* sync_mqtt_subscriptions reads the settings; raising ends the scripts.
SyncReads ==
    /\ upgrade.step = "sync"
    /\ upgrade' = IF sync_raises THEN NoUpgrade
                  ELSE [step |-> "replace", topics |-> build_mqtt_subscriptions]
    /\ UNCHANGED <<profile, ini, subscriptions, backup, request, wanted, flags, counters>>

SyncReplaces ==
    /\ upgrade.step = "replace"
    /\ subscriptions' = upgrade.topics
    /\ upgrade' = NoUpgrade
    /\ unsynced' = FALSE
    /\ UNCHANGED <<profile, ini, backup, request, wanted,
                   overlapped, interrupted, lost, counters>>

AtRest == upgrade.step = "idle" /\ \A p \in Sessions : ~Saving(p)

\* The files stay as they are; /tmp may be a RAM disk.
PowerCut ==
    /\ powerCuts < MaxPowerCuts /\ powerCuts' = powerCuts + 1
    /\ request' = [p \in Sessions |-> NoRequest]
    /\ upgrade' = NoUpgrade
    /\ backup' \in {backup, Absent}
    /\ interrupted' = (interrupted \/ ~AtRest)
    /\ UNCHANGED <<profile, ini, subscriptions, wanted, overlapped, lost, unsynced,
                   saves, upgrades>>

Next ==
    \/ \E p \in Sessions :
        \/ \E form \in Forms : Post(p, form)
        \/ Validate(p) \/ Load(p) \/ OpenIni(p)
        \/ WriteIni(p) \/ WriteFails(p) \/ save_mqtt_subscriptions(p)
    \/ preupgrade \/ InstallFiles \/ OpenRestore \/ Restore \/ SyncReads \/ SyncReplaces
    \/ UpgradeFails
    \/ PowerCut

Spec == Init /\ [][Next]_vars

-----------------------------------------------------------------------------
(* Properties.                                                             *)

Undisturbed == ~overlapped /\ ~interrupted /\ ~lost

\* A value is plain when no reader sees anything else, and steady when it is
\* at least the same after every save.
IsPlain(v) == v \notin Spaced \cup Percent \cup {Blank}
Steady(v) == v \in Spaced => Escaped[v] = v

\* Whatever saves, upgrades, failures and power cuts there were, the settings
\* are those of the last save, with the secrets it left blank as they were, as
\* long as writers did not overlap, and none was cut short and the installer
\* replaced nothing since the last save that posted every secret.
SavedIsKept ==
    Undisturbed =>
        /\ ini.state = "whole" =>
              \A f \in Fields : Steady(wanted[f]) => load_settings[f] = wanted[f]
        /\ AtRest => ini.state = "whole"

\* A required secret that was saved is never blank again, writes that fail and
\* power cuts in the middle of a save or an upgrade included: the form then
\* asks for it.  Only an overlap or the installer can make it blank.
RequiredSecretStays ==
    ~overlapped /\ ~lost /\ ini.state = "whole" =>
        \A s \in Secrets \cap profile.mandatory :
            wanted[s] # Blank => load_settings[s] # Blank

\* The bridge can be started at any moment of a save or an upgrade: it fails,
\* or it runs with the last settings, as far as they are plain.
StartSeesWholeSettings ==
    Undisturbed /\ load_loxberry_config =>
        \A f \in Fields : IsPlain(wanted[f]) => ini.text[f] = Plain(wanted[f])

PlainTopics == \A t \in Topics \cup {BaseTopic} : IsPlain(wanted[t])

\* The Gateway subscribes to the topics the bridge uses, when these are plain
\* and the last to write them, a request or an upgrade, was not cut short.
SubscriptionsFollowSettings ==
    Undisturbed /\ ~unsynced /\ AtRest /\ ~sync_raises /\ PlainTopics
        => subscriptions = build_mqtt_subscriptions
=============================================================================
