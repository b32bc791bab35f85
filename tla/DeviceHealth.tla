------------------------------ MODULE DeviceHealth -----------------------------
(***************************************************************************)
(* What the user is told about the reception of one device: the            *)
(* diagnostics download (diagnostics.py) and the warning of a device that  *)
(* cannot be parsed (_warn_parse_failure), while the entry is set up,      *)
(* reloaded with another key, refuses to unload or fails to start, and     *)
(* while the dialogues of config_flow.py try keys on the last              *)
(* advertisement.                                                          *)
(*                                                                         *)
(* hass.data, the entry's state and the Bluetooth history are Home         *)
(* Assistant's.  Ages and failures saturate.                               *)
(***************************************************************************)
EXTENDS Naturals

CONSTANTS
    Key,            \* well-formed advertisement keys with different key-check bytes
    Nothing,        \* no coordinator, no advertisement, no success, no download
    Garbled,        \* an advertisement that does not parse under any key
    Unrelated,      \* an advertisement without an instant-readout record
    Fresh,          \* 120 s, in ticks of the clock
    Cap,            \* bound: ages are counted up to here
    MaxFailures,    \* bound: consecutive failures are counted up to here
    MaxReloads      \* bound: reloads that wait at the same time

ASSUME BoundAssumption ==
    /\ Fresh \in Nat /\ Cap \in Nat /\ MaxFailures \in Nat \ {0} /\ MaxReloads \in Nat
    /\ Fresh <= Cap

\* VictronCoordinator, the part of it that diagnostics shows: ticks since the last
\* success, failures since, and whether Bluetooth has the device in range.
Coordinators ==
    [key : Key, since : 0..Cap \cup {Nothing}, failures : 0..MaxFailures, inRange : BOOLEAN]

ASSUME KeyAssumption ==
    /\ Garbled \notin Key /\ Unrelated \notin Key /\ Garbled # Unrelated
    /\ Nothing \notin Key \cup {Garbled, Unrelated} \cup Nat
    /\ Nothing \notin BOOLEAN /\ Nothing \notin Coordinators

VARIABLES
    deviceKey,      \* the key the device encrypts with
    lastAd,         \* the last advertisement, by its key; forgotten when out of range
    entryKey,       \* entry.data["key"]
    state,          \* of the entry; "loading" waits for the checkpoint, "starting"
                    \* for the platforms, "stuck" refused to unload
    setUpKey,       \* the key of the data object a set-up has created
    reloads,        \* reloads that are scheduled
    coordinator,    \* hass.data[DOMAIN][entry_id] with its device_data
    warned,         \* the device's address is in _WARNED_PARSE_FAILURES
    download        \* a diagnostics download that waits for the integration

VARIABLES broken, warnings \* history: since the device last parsed, for anyone

vars == <<deviceKey, lastAd, entryKey, state, setUpKey, reloads, coordinator,
          warned, download, broken, warnings>>

Advertisement == Key \cup {Garbled, Unrelated}

\* VictronCoordinator.__init__ around a new data object.
VictronCoordinator(k, inRange) ==
    [key |-> k, since |-> Nothing, failures |-> 0, inRange |-> inRange]

\* VictronCoordinator.available
Available(c) == c.since # Nothing /\ c.since < Fresh /\ c.inRange

Listening == state \in {"loaded", "unloading", "stuck"}

AtMost(n, bound) == IF n > bound THEN bound ELSE n

Older(age) == IF age = Nothing THEN Nothing ELSE AtMost(age + 1, Cap)

Idle == [waiting |-> FALSE, found |-> FALSE, former |-> Nothing, age |-> Nothing,
         renewed |-> FALSE]

\* A waiting download keeps the coordinator it found when hass.data drops it.
Detached ==
    IF download.waiting /\ download.found /\ download.former = Nothing
    THEN [download EXCEPT !.former = coordinator]
    ELSE download

--------------------------------------------------------------------------------
(* Advertisements                                                          *)

\* A frame that parses, for the coordinator or for a dialogue.
Parsed ==
    /\ warned' = FALSE
    /\ broken' = FALSE
    /\ warnings' = 0

WarnParseFailure ==
    /\ warned' = TRUE
    /\ broken' = TRUE
    /\ warnings' = IF warned THEN warnings ELSE AtMost(warnings + 1, 2)

\* Every failure counts, also of an advertisement that is not ours, and that one
\* without a warning.
Decode(ad) ==
    IF ad = coordinator.key
    THEN /\ coordinator' = [coordinator EXCEPT !.since = 0, !.failures = 0, !.inRange = TRUE]
         /\ download' = [download EXCEPT !.renewed = @ \/ (download.waiting /\ download.former = Nothing)]
         /\ Parsed
    ELSE /\ coordinator' = [coordinator EXCEPT !.failures = AtMost(@ + 1, MaxFailures),
                                               !.inRange = TRUE]
         /\ IF ad = Unrelated THEN UNCHANGED <<warned, broken, warnings>> ELSE WarnParseFailure
         /\ UNCHANGED download

Hear(ad) ==
    /\ lastAd' = ad
    /\ IF Listening THEN Decode(ad)
       ELSE UNCHANGED <<coordinator, warned, download, broken, warnings>>
    /\ UNCHANGED <<deviceKey, entryKey, state, setUpKey, reloads>>

\* The Bluetooth integration has not heard the device for too long.
Lose ==
    /\ lastAd # Nothing
    /\ lastAd' = Nothing
    /\ coordinator' = IF Listening THEN [coordinator EXCEPT !.inRange = FALSE] ELSE coordinator
    /\ UNCHANGED <<deviceKey, entryKey, state, setUpKey, reloads, warned, download, broken, warnings>>

Tick ==
    /\ coordinator' = IF coordinator = Nothing THEN Nothing
                      ELSE [coordinator EXCEPT !.since = Older(@)]
    /\ download' = IF download.former = Nothing THEN download
                   ELSE [download EXCEPT !.former.since = Older(@)]
    /\ UNCHANGED <<deviceKey, lastAd, entryKey, state, setUpKey, reloads, warned, broken, warnings>>

\* Instant readout is paired again, which gives the device another key.
RePair(k) ==
    /\ deviceKey' = k
    /\ UNCHANGED <<lastAd, entryKey, state, setUpKey, reloads, coordinator, warned,
                   download, broken, warnings>>

--------------------------------------------------------------------------------
(* Dialogues                                                               *)

\* _check_key_against_live_advertisement decodes the last advertisement with a
\* strict decoder: it does not warn, but a success clears the latch.
KeyCheck(k) ==
    IF lastAd = k THEN Parsed ELSE UNCHANGED <<warned, broken, warnings>>

Accepted(k) == lastAd \in Key => lastAd = k

\* A set-up dialogue for the device that is already configured: it aborts, but
\* only after the check.
TryKey(k) ==
    /\ KeyCheck(k)
    /\ UNCHANGED <<deviceKey, lastAd, entryKey, state, setUpKey, reloads, coordinator, download>>

\* Seeded bug: the reload of a new key is left to the update listener.
BugSubmitKey(k) ==
    /\ Accepted(k) /\ KeyCheck(k)
    /\ entryKey' = k
    /\ reloads' = IF k # entryKey /\ state \in {"loaded", "unloading"} THEN reloads + 1 ELSE reloads
    /\ reloads' <= MaxReloads
    /\ UNCHANGED <<deviceKey, lastAd, state, setUpKey, coordinator, download>>

\* async_update_reload_and_abort; the update listener reloads a changed entry too.
\* Home Assistant refuses to reload an entry that is stuck.
SubmitKey(k) ==
    /\ Accepted(k) /\ KeyCheck(k)
    /\ entryKey' = k
    /\ reloads' = IF state = "stuck" THEN 0
                  ELSE IF k # entryKey /\ state \in {"loaded", "unloading"} THEN reloads + 2
                  ELSE reloads + 1
    /\ reloads' <= MaxReloads
    /\ UNCHANGED <<deviceKey, lastAd, state, setUpKey, coordinator, download>>

--------------------------------------------------------------------------------
(* The entry                                                               *)

\* Seeded bug: an entry reloads although nothing asks for it.
BugBeginReload ==
    /\ state \in {"loaded", "failed"}
    /\ reloads' = reloads - 1
    /\ state' = IF state = "loaded" THEN "unloading" ELSE "down"
    /\ UNCHANGED <<deviceKey, lastAd, entryKey, setUpKey, coordinator, warned, download,
                   broken, warnings>>

\* A scheduled reload: a failed entry has nothing to unload.
BeginReload ==
    /\ reloads > 0 /\ state \in {"loaded", "failed"}
    /\ reloads' = reloads - 1
    /\ state' = IF state = "loaded" THEN "unloading" ELSE "down"
    /\ UNCHANGED <<deviceKey, lastAd, entryKey, setUpKey, coordinator, warned, download,
                   broken, warnings>>

\* async_unload_entry: platforms unloaded, totals saved, coordinator dropped.
Unloaded ==
    /\ state = "unloading"
    /\ state' = "down"
    /\ coordinator' = Nothing
    /\ download' = Detached
    /\ UNCHANGED <<deviceKey, lastAd, entryKey, setUpKey, reloads, warned, broken, warnings>>

\* async_unload_platforms returns False: the coordinator stays and keeps listening.
UnloadRefused ==
    /\ state = "unloading"
    /\ state' = "stuck"
    /\ reloads' = 0
    /\ UNCHANGED <<deviceKey, lastAd, entryKey, setUpKey, coordinator, warned, download,
                   broken, warnings>>

\* async_setup_entry up to the first await.
BeginSetUp ==
    /\ state = "down"
    /\ state' = "loading"
    /\ setUpKey' = entryKey
    /\ UNCHANGED <<deviceKey, lastAd, entryKey, reloads, coordinator, warned, download,
                   broken, warnings>>

\* Seeded bug: a set-up forgets what was warned about.
BugStoreCoordinator ==
    /\ state = "loading"
    /\ state' = "starting"
    /\ coordinator' = VictronCoordinator(setUpKey, lastAd # Nothing)
    /\ download' = Detached
    /\ warned' = FALSE
    /\ UNCHANGED <<deviceKey, lastAd, entryKey, setUpKey, reloads, broken, warnings>>

\* The checkpoint is loaded and the coordinator stored, in the place of one that a
\* failed set-up left behind; it does not listen yet.
StoreCoordinator ==
    /\ state = "loading"
    /\ state' = "starting"
    /\ coordinator' = VictronCoordinator(setUpKey, lastAd # Nothing)
    /\ download' = Detached
    /\ UNCHANGED <<deviceKey, lastAd, entryKey, setUpKey, reloads, warned, broken, warnings>>

\* The platforms are set up and the coordinator starts: Bluetooth hands it the last
\* advertisement at once.
Started ==
    /\ state = "starting"
    /\ state' = "loaded"
    /\ IF lastAd = Nothing THEN UNCHANGED <<coordinator, warned, download, broken, warnings>>
       ELSE Decode(lastAd)
    /\ UNCHANGED <<deviceKey, lastAd, entryKey, setUpKey, reloads>>

\* Loading the checkpoint or setting up the platforms raises.  What was stored
\* stays in hass.data.
SetUpFails ==
    /\ state \in {"loading", "starting"}
    /\ state' = "failed"
    /\ UNCHANGED <<deviceKey, lastAd, entryKey, setUpKey, reloads, coordinator, warned,
                   download, broken, warnings>>

--------------------------------------------------------------------------------
(* async_get_config_entry_diagnostics                                      *)

\* Up to the await: the coordinator is looked up and the age computed.
StartDownload ==
    /\ ~download.waiting
    /\ download' = [Idle EXCEPT !.waiting = TRUE, !.found = coordinator # Nothing,
                        !.age = IF coordinator = Nothing THEN Nothing ELSE coordinator.since]
    /\ UNCHANGED <<deviceKey, lastAd, entryKey, state, setUpKey, reloads, coordinator,
                   warned, broken, warnings>>

FinishDownload ==
    /\ download.waiting
    /\ download' = Idle
    /\ UNCHANGED <<deviceKey, lastAd, entryKey, state, setUpKey, reloads, coordinator,
                   warned, broken, warnings>>

\* Health of the coordinator c, as far as it is read after the await.
Health(c) ==
    [available |-> IF c = Nothing THEN Nothing ELSE Available(c),
     last_success_utc |-> c # Nothing /\ c.since # Nothing,
     last_success_age_seconds |-> download.age,
     consecutive_failures |-> IF c = Nothing THEN Nothing ELSE c.failures]

\* Seeded bug: the coordinator is looked up again after the await.
BugReport == Health(coordinator)

\* The answer, if the download finishes now.
Report ==
    Health(IF ~download.found THEN Nothing
           ELSE IF download.former # Nothing THEN download.former ELSE coordinator)

--------------------------------------------------------------------------------

Init ==
    /\ deviceKey \in Key /\ entryKey \in Key
    /\ lastAd \in {Nothing, deviceKey}
    /\ state = "down"
    /\ setUpKey = entryKey
    /\ reloads = 0
    /\ coordinator = Nothing
    /\ warned = FALSE
    /\ download = Idle
    /\ broken = FALSE /\ warnings = 0

\* Home Assistant's part of a set-up or a reload.
SetUp == BeginSetUp \/ StoreCoordinator \/ Started \/ SetUpFails
Unload == Unloaded \/ UnloadRefused

Next ==
    \/ \E ad \in {deviceKey, Garbled, Unrelated} : Hear(ad)
    \/ Lose \/ Tick
    \/ \E k \in Key : RePair(k) \/ TryKey(k) \/ SubmitKey(k)
    \/ BeginReload \/ Unloaded \/ UnloadRefused
    \/ BeginSetUp \/ StoreCoordinator \/ Started \/ SetUpFails
    \/ StartDownload \/ FinishDownload

Spec == Init /\ [][Next]_vars

\* Scheduled reloads, set-ups and unloads that are on their way get done, if only
\* by failing.
FairSpec == Spec /\ WF_vars(BeginReload) /\ WF_vars(Unload) /\ WF_vars(SetUp)

--------------------------------------------------------------------------------
(* Properties                                                              *)

Downloads ==
    [waiting : BOOLEAN, found : BOOLEAN, former : Coordinators \cup {Nothing},
     age : 0..Cap \cup {Nothing}, renewed : BOOLEAN]

TypeOK ==
    /\ deviceKey \in Key /\ entryKey \in Key /\ setUpKey \in Key
    /\ lastAd \in Advertisement \cup {Nothing}
    /\ state \in {"down", "loading", "starting", "loaded", "unloading", "failed", "stuck"}
    /\ reloads \in 0..MaxReloads
    /\ coordinator \in Coordinators \cup {Nothing}
    /\ download \in Downloads
    /\ warned \in BOOLEAN /\ broken \in BOOLEAN /\ warnings \in 0..2

\* A download whose age was read before it waited and whose other fields were read
\* after it speaks of one coordinator: unless a frame was decoded meanwhile, age and
\* time stamp are both there or both missing, and a device called available
\* was heard within the last two minutes.  A set-up that failed is never shown as
\* available or as receiving.
ReportIsCoherent ==
    download.waiting =>
        /\ ~download.renewed =>
               /\ Report.last_success_age_seconds # Nothing <=> Report.last_success_utc
               /\ Report.available = TRUE => Report.last_success_age_seconds < Fresh
        /\ Report.available = TRUE => Report.last_success_utc
        /\ state = "failed" /\ download.former = Nothing =>
               Report.available # TRUE /\ ~Report.last_success_utc

\* device.py:85, "a ~1 Hz advertisement stream produces one log line per device":
\* from one frame that parses to the next a broken device is reported exactly once,
\* whichever decoders fail on it and however often the entry is reloaded.
OneWarningPerOutage == warnings = IF broken THEN 1 ELSE 0

\* An entry that has settled decodes with the key that was saved last: no reload is
\* lost, whenever it was asked for.
SettledEntryUsesItsKey == state = "loaded" /\ reloads = 0 => coordinator.key = entryKey

\* A key that is saved gets used, unless another is saved, the set-up fails or the
\* entry refuses to unload: also when it is saved while the entry is being set up
\* with the old one.
KeyTakesEffect ==
    \A k \in Key : entryKey = k ~>
        \/ entryKey # k \/ state \in {"failed", "stuck"}
        \/ coordinator # Nothing /\ coordinator.key = k
================================================================================
