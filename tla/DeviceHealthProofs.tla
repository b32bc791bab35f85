--------------------------- MODULE DeviceHealthProofs --------------------------
(***************************************************************************)
(* What a diagnostics download and the warnings say, for any keys, bounds  *)
(* and interleaving.  The invariants need two facts about the entry: a     *)
(* coordinator that listens is in hass.data, and one that was stored by a  *)
(* set-up that has not ended well never heard anything (SetUpInv).         *)
(***************************************************************************)
EXTENDS DeviceHealth, TLAPS

SetUpInv ==
    /\ state \in {"starting", "loaded", "unloading", "stuck"} => coordinator # Nothing
    /\ state \in {"down", "loading", "starting", "failed"} /\ coordinator # Nothing =>
           coordinator.since = Nothing

\* The coordinator whose health the download will report.
Held == IF download.former # Nothing THEN download.former ELSE coordinator

DownloadInv ==
    /\ download.former # Nothing => download.waiting /\ download.found
    /\ download.waiting /\ download.found => Held # Nothing
    /\ ~download.found => download.age = Nothing
    /\ download.waiting /\ download.found /\ ~download.renewed =>
           IF download.age = Nothing THEN Held.since = Nothing
           ELSE Held.since # Nothing /\ download.age <= Held.since

WarnInv ==
    /\ warned <=> broken
    /\ broken => warnings = 1
    /\ ~broken => warnings = 0

IInv == TypeOK /\ SetUpInv /\ DownloadInv /\ WarnInv

--------------------------------------------------------------------------------
(* Parts of a step                                                         *)

LEMMA OlderType ==
    ASSUME NEW age \in 0..Cap \cup {Nothing}
    PROVE  /\ Older(age) \in 0..Cap \cup {Nothing}
           /\ (Older(age) = Nothing) = (age = Nothing)
           /\ age # Nothing => age <= Older(age)
BY BoundAssumption, KeyAssumption DEF Older, AtMost

\* The fields of a coordinator, and that it is something.
LEMMA CoordinatorFields ==
    ASSUME NEW c \in Coordinators
    PROVE  /\ c # Nothing
           /\ c.key \in Key /\ c.since \in 0..Cap \cup {Nothing}
           /\ c.failures \in 0..MaxFailures /\ c.inRange \in BOOLEAN
BY KeyAssumption DEF Coordinators

\* A coordinator with another age is one again.
LEMMA CoordinatorAged ==
    ASSUME NEW c \in Coordinators, NEW since \in 0..Cap \cup {Nothing}
    PROVE  /\ [c EXCEPT !.since = since] \in Coordinators
           /\ [c EXCEPT !.since = since].since = since
BY DEF Coordinators

\* What a decoded advertisement does to the coordinator and the download.
LEMMA DecodeStep ==
    ASSUME IInv, coordinator # Nothing, NEW ad \in Advertisement, Decode(ad)
    PROVE  /\ coordinator' \in Coordinators
           /\ download' \in Downloads
           /\ \E renewed \in BOOLEAN :
                  /\ download' = [download EXCEPT !.renewed = renewed]
                  /\ download.renewed => renewed
                  /\ \/ coordinator'.since = coordinator.since
                     \/ download.waiting /\ download.former = Nothing => renewed
<1>1. coordinator \in Coordinators /\ download \in Downloads
    BY DEF IInv, TypeOK
<1>2. CASE ad = coordinator.key
  <2> DEFINE renewed == download.renewed \/ (download.waiting /\ download.former = Nothing)
  <2>1. coordinator' = [coordinator EXCEPT !.since = 0, !.failures = 0, !.inRange = TRUE]
      BY <1>2 DEF Decode
  <2>2. coordinator' \in Coordinators
    <3>1. coordinator' = [key |-> coordinator.key, since |-> 0, failures |-> 0, inRange |-> TRUE]
        BY <1>1, <2>1 DEF Coordinators
    <3>2. 0 \in 0..Cap /\ 0 \in 0..MaxFailures
        BY BoundAssumption
    <3> QED
        BY <1>1, <3>1, <3>2, CoordinatorFields DEF Coordinators
  <2>3. download' = [download EXCEPT !.renewed = renewed]
      BY <1>2 DEF Decode
  <2>4. renewed \in BOOLEAN
      OBVIOUS
  <2>5. download' \in Downloads
      BY <1>1, <2>3, <2>4 DEF Downloads
  <2> QED
      BY <2>2, <2>3, <2>4, <2>5
<1>3. CASE ad # coordinator.key
  <2>1. /\ coordinator' = [coordinator EXCEPT !.failures = AtMost(coordinator.failures + 1, MaxFailures),
                                              !.inRange = TRUE]
        /\ download' = download
      BY <1>3 DEF Decode
  <2>2. AtMost(coordinator.failures + 1, MaxFailures) \in 0..MaxFailures
      BY <1>1, CoordinatorFields, BoundAssumption DEF AtMost
  <2>3. coordinator' \in Coordinators /\ coordinator'.since = coordinator.since
      BY <1>1, <2>1, <2>2 DEF Coordinators
  <2>4. download' = [download EXCEPT !.renewed = download.renewed] /\ download.renewed \in BOOLEAN
      BY <1>1, <2>1 DEF Downloads
  <2> QED
      BY <1>1, <2>1, <2>3, <2>4
<1> QED
    BY <1>2, <1>3

\* What the warnings may do in a step of an action.
Warnings == Parsed \/ WarnParseFailure \/ UNCHANGED <<warned, broken, warnings>>

LEMMA DecodeWarns == ASSUME NEW ad, Decode(ad) PROVE Warnings
BY DEF Decode, Warnings

WarnType == warned \in BOOLEAN /\ broken \in BOOLEAN /\ warnings \in 0..2

LEMMA WarningsKeepInv == ASSUME WarnType, WarnInv, Warnings PROVE WarnType' /\ WarnInv'
<1>1. CASE Parsed
  <2>1. ~warned' /\ ~broken' /\ warnings' = 0
      BY <1>1 DEF Parsed
  <2>2. warned' \in BOOLEAN /\ broken' \in BOOLEAN
      BY <1>1, Zenon DEF Parsed
  <2> QED
      BY <2>1, <2>2 DEF WarnType, WarnInv
<1>2. CASE WarnParseFailure
  <2>1. warned' /\ broken' /\ warnings' = 1
      BY <1>2 DEF WarnParseFailure, WarnInv, AtMost
  <2>2. warned' \in BOOLEAN /\ broken' \in BOOLEAN
      BY <1>2, Zenon DEF WarnParseFailure
  <2> QED
      BY <2>1, <2>2 DEF WarnType, WarnInv
<1>3. CASE UNCHANGED <<warned, broken, warnings>>
    BY <1>3 DEF WarnType, WarnInv
<1> QED
    BY <1>1, <1>2, <1>3 DEF Warnings

\* The download part of the invariant across a decoded advertisement.
LEMMA DecodeKeepsDownload ==
    ASSUME IInv, coordinator # Nothing, NEW ad \in Advertisement, Decode(ad)
    PROVE  DownloadInv'
<1>1. coordinator' # Nothing
    BY DecodeStep, CoordinatorFields
<1>2. PICK renewed \in BOOLEAN :
          /\ download' = [download EXCEPT !.renewed = renewed]
          /\ download.renewed => renewed
          /\ \/ coordinator'.since = coordinator.since
             \/ download.waiting /\ download.former = Nothing => renewed
    BY DecodeStep
<1>3. download \in Downloads
    BY DEF IInv, TypeOK
<1>4. /\ download'.waiting = download.waiting /\ download'.found = download.found
      /\ download'.former = download.former /\ download'.age = download.age
      /\ download'.renewed = renewed
    BY <1>2, <1>3 DEF Downloads
<1>5. CASE download.former # Nothing
    BY <1>2, <1>4, <1>5 DEF IInv, DownloadInv, Held
<1>6. CASE download.former = Nothing
  <2>1. Held = coordinator /\ Held' = coordinator'
      BY <1>4, <1>6 DEF Held
  <2> QED
      BY <1>1, <1>2, <1>4, <1>6, <2>1 DEF IInv, DownloadInv
<1> QED
    BY <1>5, <1>6

\* The coordinator is dropped or replaced.
LEMMA DetachKeepsDownload ==
    ASSUME IInv, download' = Detached
    PROVE  download' \in Downloads /\ DownloadInv'
<1>1. download \in Downloads /\ coordinator \in Coordinators \cup {Nothing}
    BY DEF IInv, TypeOK
<1>2. CASE download.waiting /\ download.found /\ download.former = Nothing
  <2>1. download' = [download EXCEPT !.former = coordinator]
      BY <1>2 DEF Detached
  <2>2. Held = coordinator /\ coordinator # Nothing
      BY <1>2 DEF Held, IInv, DownloadInv
  <2>3. /\ download' \in Downloads
        /\ download'.former = coordinator /\ download'.waiting = download.waiting
        /\ download'.found = download.found /\ download'.age = download.age
        /\ download'.renewed = download.renewed
      BY <1>1, <2>1 DEF Downloads
  <2>4. Held' = coordinator
      BY <2>2, <2>3 DEF Held
  <2> QED
      BY <1>2, <2>2, <2>3, <2>4 DEF IInv, DownloadInv
<1>3. CASE ~(download.waiting /\ download.found /\ download.former = Nothing)
  <2>1. download' = download
      BY <1>3 DEF Detached
  <2>2. CASE download.former # Nothing
    <3>1. Held' = Held
        BY <2>1, <2>2 DEF Held
    <3> QED
        BY <1>1, <2>1, <2>2, <3>1 DEF IInv, DownloadInv
  <2>3. CASE download.former = Nothing /\ ~(download.waiting /\ download.found)
      BY <1>1, <2>1, <2>3 DEF IInv, DownloadInv
  <2> QED
      BY <1>3, <2>2, <2>3
<1> QED
    BY <1>2, <1>3

--------------------------------------------------------------------------------
(* The invariant                                                           *)

LEMMA Initially == Init => IInv
<1> SUFFICES ASSUME Init PROVE IInv
    OBVIOUS
<1>1. Idle \in Downloads
    BY DEF Idle, Downloads
<1>2. warned \in BOOLEAN /\ broken \in BOOLEAN
    BY Zenon DEF Init
<1>3. TypeOK
    BY <1>1, <1>2, BoundAssumption DEF Init, TypeOK, Advertisement
<1>4. ~warned /\ ~broken
    BY DEF Init
<1>5. SetUpInv /\ WarnInv
    BY <1>4 DEF Init, SetUpInv, WarnInv
<1>6. DownloadInv
  <2>1. ~download.waiting /\ ~download.found /\ download.former = Nothing /\ download.age = Nothing
      BY DEF Init, Idle
  <2> QED
      BY <2>1 DEF DownloadInv
<1> QED
    BY <1>3, <1>5, <1>6 DEF IInv

\* The clock moves the coordinator and one that a download has kept.
LEMMA TickStep == ASSUME IInv, Tick PROVE IInv'
<1>1. /\ coordinator' \in Coordinators \cup {Nothing}
      /\ coordinator = Nothing => coordinator' = Nothing
      /\ coordinator # Nothing => /\ coordinator' # Nothing
                                  /\ coordinator'.since = Older(coordinator.since)
  <2>1. CASE coordinator = Nothing
      BY <2>1 DEF Tick
  <2>2. CASE coordinator # Nothing
    <3>1. coordinator \in Coordinators
        BY <2>2 DEF IInv, TypeOK
    <3>2. Older(coordinator.since) \in 0..Cap \cup {Nothing}
        BY <3>1, CoordinatorFields, OlderType
    <3>3. coordinator' = [coordinator EXCEPT !.since = Older(coordinator.since)]
        BY <2>2 DEF Tick
    <3>4. coordinator' \in Coordinators /\ coordinator'.since = Older(coordinator.since)
        BY <3>1, <3>2, <3>3, CoordinatorAged
    <3> QED
        BY <2>2, <3>4, CoordinatorFields
  <2> QED
      BY <2>1, <2>2
<1>2. /\ download' \in Downloads
      /\ download'.waiting = download.waiting /\ download'.found = download.found
      /\ download'.age = download.age /\ download'.renewed = download.renewed
      /\ download.former = Nothing => download'.former = Nothing
      /\ download.former # Nothing => /\ download'.former # Nothing
                                      /\ download'.former.since = Older(download.former.since)
  <2>1. download \in Downloads
      BY DEF IInv, TypeOK
  <2>2. CASE download.former = Nothing
      BY <2>1, <2>2 DEF Tick
  <2>3. CASE download.former # Nothing
    <3> DEFINE aged == [download.former EXCEPT !.since = Older(download.former.since)]
    <3>1. download.former \in Coordinators
        BY <2>1, <2>3 DEF Downloads
    <3>2. Older(download.former.since) \in 0..Cap \cup {Nothing}
        BY <3>1, CoordinatorFields, OlderType
    <3>3. aged \in Coordinators /\ aged.since = Older(download.former.since)
        BY <3>1, <3>2, CoordinatorAged
    <3>4. download' = [download EXCEPT !.former = aged]
        BY <2>3 DEF Tick
    <3> HIDE DEF aged
    <3>5. aged # Nothing
        BY <3>3, CoordinatorFields
    <3> QED
        BY <2>1, <2>3, <3>3, <3>4, <3>5 DEF Downloads
  <2> QED
      BY <2>2, <2>3
<1>3. TypeOK' /\ WarnInv'
    BY <1>1, <1>2 DEF Tick, IInv, TypeOK, WarnInv
<1>4. SetUpInv'
  <2>1. Older(Nothing) = Nothing
      BY DEF Older
  <2>2. state' = state
      BY DEF Tick
  <2> QED
      BY <1>1, <2>1, <2>2 DEF IInv, SetUpInv
<1>5. DownloadInv'
  <2>1. Held # Nothing => /\ Held \in Coordinators
                          /\ Held' # Nothing /\ Held'.since = Older(Held.since)
      BY <1>1, <1>2 DEF Held, IInv, TypeOK, Downloads
  <2>2. Held # Nothing => /\ Held.since \in 0..Cap \cup {Nothing}
                          /\ Held'.since \in 0..Cap \cup {Nothing}
                          /\ (Held'.since = Nothing) = (Held.since = Nothing)
                          /\ Held.since # Nothing => Held.since <= Held'.since
      BY <2>1, CoordinatorFields, OlderType
  <2>3. download.age \in 0..Cap \cup {Nothing}
      BY DEF IInv, TypeOK, Downloads
  <2> QED
      BY <1>2, <2>1, <2>2, <2>3, BoundAssumption DEF IInv, DownloadInv
<1> QED
    BY <1>3, <1>4, <1>5 DEF IInv

\* An advertisement that reaches the coordinator, or comes while nobody listens.
LEMMA HearStep ==
    ASSUME IInv, NEW ad \in Advertisement, Hear(ad) \/ (Started /\ lastAd = ad)
    PROVE  IInv'
<1>1. CASE (Hear(ad) /\ Listening) \/ Started
  <2>1. coordinator # Nothing
      BY <1>1 DEF IInv, SetUpInv, Listening, Started
  <2>2. Decode(ad)
      BY <1>1, KeyAssumption DEF Hear, Started, Advertisement
  <2>3. state' \in {"loaded", "unloading", "stuck"}
      BY <1>1 DEF Hear, Started, Listening
  <2>4. coordinator' \in Coordinators /\ download' \in Downloads /\ coordinator' # Nothing
      BY <2>1, <2>2, DecodeStep, CoordinatorFields
  <2>5. WarnType' /\ WarnInv'
      BY <2>2, DecodeWarns, WarningsKeepInv DEF IInv, TypeOK, WarnType
  <2>6. TypeOK'
      BY <2>4, <2>5 DEF Hear, Started, IInv, TypeOK, WarnType
  <2>7. SetUpInv'
      BY <2>3, <2>4 DEF SetUpInv
  <2>8. DownloadInv'
      BY <2>1, <2>2, DecodeKeepsDownload
  <2> QED
      BY <2>5, <2>6, <2>7, <2>8 DEF IInv
<1>2. CASE Hear(ad) /\ ~Listening
  <2>1. UNCHANGED <<state, coordinator, warned, download, broken, warnings>>
      BY <1>2 DEF Hear
  <2>2. TypeOK'
      BY <1>2, <2>1 DEF Hear, IInv, TypeOK
  <2> QED
      BY <2>1, <2>2 DEF IInv, SetUpInv, DownloadInv, Held, WarnInv
<1> QED
    BY <1>1, <1>2

\* Out of range: the coordinator keeps its age.
LEMMA LoseStep == ASSUME IInv, Lose PROVE IInv'
<1>1. CASE ~Listening
    BY <1>1 DEF Lose, IInv, TypeOK, SetUpInv, DownloadInv, Held, WarnInv
<1>2. CASE Listening
  <2>1. coordinator \in Coordinators
      BY <1>2 DEF IInv, TypeOK, SetUpInv, Listening
  <2>2. coordinator' = [coordinator EXCEPT !.inRange = FALSE]
      BY <1>2 DEF Lose
  <2>3. coordinator' \in Coordinators /\ coordinator'.since = coordinator.since
      BY <2>1, <2>2 DEF Coordinators
  <2>4. coordinator # Nothing /\ coordinator' # Nothing
      BY <2>1, <2>3, CoordinatorFields
  <2>5. TypeOK'
      BY <2>3 DEF Lose, IInv, TypeOK
  <2>6. SetUpInv' /\ WarnInv'
      BY <2>3, <2>4 DEF Lose, IInv, SetUpInv, WarnInv
  <2>7. DownloadInv'
    <3>1. /\ download' = download /\ Held' # Nothing /\ Held # Nothing
          /\ Held'.since = Held.since
        BY <2>3, <2>4 DEF Lose, Held
    <3> QED
        BY <3>1 DEF IInv, DownloadInv
  <2> QED
      BY <2>5, <2>6, <2>7 DEF IInv
<1> QED
    BY <1>1, <1>2

\* The dialogues touch the entry, its reloads and the warnings only.
LEMMA DialogueStep == ASSUME IInv, NEW k \in Key, TryKey(k) \/ SubmitKey(k) PROVE IInv'
<1>1. Warnings
    BY DEF TryKey, SubmitKey, KeyCheck, Warnings
<1>2. WarnType' /\ WarnInv'
    BY <1>1, WarningsKeepInv DEF IInv, TypeOK, WarnType
<1>3. UNCHANGED <<deviceKey, lastAd, state, setUpKey, coordinator, download>>
    BY DEF TryKey, SubmitKey
<1>4. entryKey' \in Key /\ reloads' \in 0..MaxReloads
  <2>1. CASE TryKey(k)
      BY <2>1 DEF TryKey, IInv, TypeOK
  <2>2. CASE SubmitKey(k)
    <3>1. entryKey' = k /\ reloads' <= MaxReloads
        BY <2>2 DEF SubmitKey
    <3>2. reloads' \in {0, reloads + 1, reloads + 2} /\ reloads \in Nat
        BY <2>2 DEF SubmitKey, IInv, TypeOK
    <3> QED
        BY <3>1, <3>2, BoundAssumption
  <2> QED
      BY <2>1, <2>2
<1>5. TypeOK'
    BY <1>2, <1>3, <1>4 DEF IInv, TypeOK, WarnType
<1> QED
    BY <1>2, <1>3, <1>5 DEF IInv, SetUpInv, DownloadInv, Held

\* hass.data gets or loses a coordinator.
LEMMA StoreStep == ASSUME IInv, Unloaded \/ StoreCoordinator PROVE IInv'
<1>1. download' \in Downloads /\ DownloadInv'
    BY DetachKeepsDownload DEF Unloaded, StoreCoordinator
<1>2. WarnInv' /\ WarnType'
    BY DEF Unloaded, StoreCoordinator, IInv, TypeOK, WarnInv, WarnType
<1>3. CASE Unloaded
  <2>1. state' = "down" /\ coordinator' = Nothing
      BY <1>3 DEF Unloaded
  <2>2. TypeOK'
      BY <1>1, <1>2, <1>3 DEF Unloaded, IInv, TypeOK, WarnType
  <2> QED
      BY <1>1, <1>2, <2>1, <2>2 DEF IInv, SetUpInv
<1>4. CASE StoreCoordinator
  <2>1. /\ state' = "starting"
        /\ coordinator' = [key |-> setUpKey, since |-> Nothing, failures |-> 0,
                           inRange |-> lastAd # Nothing]
      BY <1>4 DEF StoreCoordinator, VictronCoordinator
  <2>2. coordinator' \in Coordinators /\ coordinator'.since = Nothing
      BY <2>1, BoundAssumption DEF IInv, TypeOK, Coordinators
  <2>3. coordinator' # Nothing
      BY <2>2, CoordinatorFields
  <2>4. TypeOK'
      BY <1>1, <1>2, <1>4, <2>1, <2>2 DEF StoreCoordinator, IInv, TypeOK, WarnType
  <2> QED
      BY <1>1, <1>2, <2>1, <2>2, <2>3, <2>4 DEF IInv, SetUpInv
<1> QED
    BY <1>3, <1>4

\* The download begins and ends.
LEMMA DownloadStep == ASSUME IInv, StartDownload \/ FinishDownload PROVE IInv'
<1>1. CASE StartDownload
  <2> DEFINE found == coordinator # Nothing
             age == IF coordinator = Nothing THEN Nothing ELSE coordinator.since
  <2>1. download' = [waiting |-> TRUE, found |-> found, former |-> Nothing, age |-> age,
                     renewed |-> FALSE]
      BY <1>1 DEF StartDownload, Idle
  <2>2. age \in 0..Cap \cup {Nothing}
      BY CoordinatorFields DEF IInv, TypeOK
  <2>3. download' \in Downloads
      BY <2>1, <2>2 DEF Downloads
  <2>4. /\ UNCHANGED <<state, coordinator, warned, broken, warnings>>
        /\ TypeOK'
      BY <1>1, <2>3 DEF StartDownload, IInv, TypeOK
  <2>5. DownloadInv'
    <3>1. /\ download'.waiting /\ download'.former = Nothing /\ download'.age = age
          /\ download'.found <=> found
        BY <2>1
    <3>2. Held' = coordinator
        BY <2>4, <3>1 DEF Held
    <3>3. coordinator # Nothing /\ coordinator.since # Nothing =>
              coordinator.since <= coordinator.since
        BY CoordinatorFields, BoundAssumption DEF IInv, TypeOK
    <3> QED
        BY <3>1, <3>2, <3>3 DEF DownloadInv
  <2> QED
      BY <2>4, <2>5 DEF IInv, SetUpInv, WarnInv
<1>2. CASE FinishDownload
  <2>1. /\ download' = Idle /\ Idle \in Downloads
        /\ UNCHANGED <<state, coordinator, warned, broken, warnings>>
      BY <1>2 DEF FinishDownload, Idle, Downloads
  <2>2. TypeOK'
      BY <1>2, <2>1 DEF FinishDownload, IInv, TypeOK
  <2>3. ~download'.waiting /\ ~download'.found /\ download'.former = Nothing /\ download'.age = Nothing
      BY <2>1 DEF Idle
  <2>4. DownloadInv'
      BY <2>3 DEF DownloadInv
  <2> QED
      BY <2>1, <2>2, <2>4 DEF IInv, SetUpInv, WarnInv
<1> QED
    BY <1>1, <1>2

\* The other steps of the entry leave coordinator, download and warnings alone.
LEMMA EntryStep ==
    ASSUME IInv, BeginReload \/ UnloadRefused \/ BeginSetUp \/ SetUpFails
                 \/ (Started /\ lastAd = Nothing) \/ (\E k \in Key : RePair(k)) \/ UNCHANGED vars
    PROVE  IInv'
<1>1. UNCHANGED <<coordinator, download, warned, broken, warnings>>
    BY DEF BeginReload, UnloadRefused, BeginSetUp, SetUpFails, Started, RePair, vars
<1>2. TypeOK'
    BY BoundAssumption DEF IInv, TypeOK, BeginReload, UnloadRefused, BeginSetUp, SetUpFails,
                           Started, RePair, vars
<1>3. SetUpInv'
    BY <1>1 DEF IInv, TypeOK, SetUpInv, BeginReload, UnloadRefused, BeginSetUp, SetUpFails,
                Started, RePair, vars
<1> QED
    BY <1>1, <1>2, <1>3 DEF IInv, DownloadInv, Held, WarnInv

LEMMA InvariantStep == IInv /\ [Next]_vars => IInv'
<1> SUFFICES ASSUME IInv, [Next]_vars PROVE IInv'
    OBVIOUS
<1>1. lastAd \in Advertisement \cup {Nothing} /\ deviceKey \in Key
    BY DEF IInv, TypeOK
<1>2. ASSUME NEW ad \in {deviceKey, Garbled, Unrelated}, Hear(ad) PROVE IInv'
    BY <1>1, <1>2, HearStep DEF Advertisement
<1>3. CASE Started
    BY <1>1, <1>3, HearStep, EntryStep
<1>4. CASE Lose
    BY <1>4, LoseStep
<1>5. CASE Tick
    BY <1>5, TickStep
<1>6. ASSUME NEW k \in Key, TryKey(k) \/ SubmitKey(k) PROVE IInv'
    BY <1>6, DialogueStep
<1>7. CASE Unloaded \/ StoreCoordinator
    BY <1>7, StoreStep
<1>8. CASE StartDownload \/ FinishDownload
    BY <1>8, DownloadStep
<1>9. CASE BeginReload \/ UnloadRefused \/ BeginSetUp \/ SetUpFails
           \/ (\E k \in Key : RePair(k)) \/ UNCHANGED vars
    BY <1>9, EntryStep
<1> QED
    BY <1>2, <1>3, <1>4, <1>5, <1>6, <1>7, <1>8, <1>9 DEF Next

LEMMA Invariance == Spec => []IInv
BY Initially, InvariantStep, PTL DEF Spec

--------------------------------------------------------------------------------
(* No reload is lost                                                       *)

\* A set-up that no reload follows was begun with the key that is saved.
KeyInv ==
    /\ state \in {"starting", "loaded"} => coordinator.key = setUpKey
    /\ state \in {"loading", "starting", "loaded"} /\ reloads = 0 => setUpKey = entryKey

\* Advertisements, lost devices and the clock change a coordinator, not its key.
LEMMA KeyIsKept ==
    ASSUME IInv, coordinator # Nothing,
           (\E ad : Hear(ad)) \/ Started \/ Lose \/ Tick
    PROVE  coordinator'.key = coordinator.key
<1>1. coordinator \in Coordinators
    BY DEF IInv, TypeOK
<1>2. ASSUME NEW ad, Decode(ad) PROVE coordinator'.key = coordinator.key
    BY <1>1, <1>2 DEF Decode, Coordinators
<1>3. CASE (\E ad : Hear(ad)) \/ Started
    BY <1>2, <1>3 DEF Hear, Started
<1>4. CASE Lose \/ Tick
    BY <1>1, <1>4 DEF Lose, Tick, Coordinators
<1> QED
    BY <1>3, <1>4

LEMMA KeyStep == IInv /\ KeyInv /\ [Next]_vars => KeyInv'
<1> SUFFICES ASSUME IInv, KeyInv, [Next]_vars PROVE KeyInv'
    OBVIOUS
<1>1. reloads \in Nat /\ (state \in {"starting", "loaded"} => coordinator # Nothing)
    BY DEF IInv, TypeOK, SetUpInv
<1>2. ASSUME (\E ad : Hear(ad)) \/ Lose \/ Tick PROVE KeyInv'
  <2>1. UNCHANGED <<state, reloads, setUpKey, entryKey>>
      BY <1>2 DEF Hear, Lose, Tick
  <2> QED
      BY <1>1, <1>2, <2>1, KeyIsKept DEF KeyInv
<1>3. CASE Started
  <2>1. state = "starting" /\ state' = "loaded" /\ UNCHANGED <<reloads, setUpKey, entryKey>>
      BY <1>3 DEF Started
  <2> QED
      BY <1>1, <1>3, <2>1, KeyIsKept DEF KeyInv
<1>4. ASSUME NEW k \in Key, SubmitKey(k) PROVE KeyInv'
  <2>1. UNCHANGED <<state, setUpKey, coordinator>>
      BY <1>4 DEF SubmitKey
  <2>2. state # "stuck" => reloads' # 0
      BY <1>1, <1>4 DEF SubmitKey
  <2> QED
      BY <2>1, <2>2 DEF KeyInv
<1>5. ASSUME NEW k \in Key, RePair(k) \/ TryKey(k) PROVE KeyInv'
    BY <1>5 DEF RePair, TryKey, KeyInv
<1>6. CASE BeginReload \/ Unloaded \/ UnloadRefused \/ BeginSetUp \/ SetUpFails
    BY <1>6 DEF BeginReload, Unloaded, UnloadRefused, BeginSetUp, SetUpFails, KeyInv
<1>7. CASE StoreCoordinator
    BY <1>7 DEF StoreCoordinator, VictronCoordinator, KeyInv
<1>8. CASE StartDownload \/ FinishDownload \/ UNCHANGED vars
    BY <1>8 DEF StartDownload, FinishDownload, vars, KeyInv
<1> QED
    BY <1>2, <1>3, <1>4, <1>5, <1>6, <1>7, <1>8 DEF Next

--------------------------------------------------------------------------------
(* Theorems                                                                *)

\* Every variable keeps its type (async_setup_entry, diagnostics, the dialogues).
THEOREM TypeCorrect == Spec => []TypeOK
<1>1. IInv => TypeOK
    BY DEF IInv
<1> QED
    BY <1>1, Invariance, PTL

\* _warn_parse_failure: one line per device from one frame that parses to the next,
\* over reloads and dialogues.
THEOREM OutagesAreReportedOnce == Spec => []OneWarningPerOutage
<1>1. IInv => OneWarningPerOutage
    BY DEF IInv, WarnInv, OneWarningPerOutage
<1> QED
    BY <1>1, Invariance, PTL

\* async_update_reload_and_abort and the update listener: whenever a key is saved, an
\* entry that has settled decodes with it.
THEOREM NoReloadIsLost == Spec => []SettledEntryUsesItsKey
<1>1. Init => KeyInv
    BY DEF Init, KeyInv
<1>2. IInv /\ KeyInv => SettledEntryUsesItsKey
    BY DEF KeyInv, SettledEntryUsesItsKey
<1> QED
    BY <1>1, <1>2, KeyStep, Invariance, PTL DEF Spec

\* async_get_config_entry_diagnostics: the fields read before and after the await fit
\* together, whatever happened to the entry meanwhile.
THEOREM DownloadsAreCoherent == Spec => []ReportIsCoherent
<1>1. ASSUME IInv, download.waiting PROVE ReportIsCoherent
  <2> DEFINE shown == IF ~download.found THEN Nothing ELSE Held
  <2>1. Report = Health(shown)
      BY DEF Report, Held
  <2>2. /\ Report.available = (IF shown = Nothing THEN Nothing ELSE Available(shown))
        /\ Report.last_success_utc = (shown # Nothing /\ shown.since # Nothing)
        /\ Report.last_success_age_seconds = download.age
    <3> HIDE DEF shown
    <3> QED
        BY <2>1, Zenon DEF Health
  <2>3. Report.available = TRUE => shown # Nothing /\ Available(shown)
      BY <2>2, KeyAssumption
  <2>4. shown # Nothing => shown = Held /\ Held \in Coordinators /\ download.found
    <3>1. download \in Downloads /\ coordinator \in Coordinators \cup {Nothing}
        BY <1>1 DEF IInv, TypeOK
    <3>2. Held \in Coordinators \cup {Nothing}
        BY <3>1 DEF Held, Downloads
    <3> QED
        BY <3>2
  <2>5. ~download.renewed =>
            /\ (download.age # Nothing) <=> (shown # Nothing /\ shown.since # Nothing)
            /\ shown # Nothing /\ Available(shown) => download.age < Fresh
    <3>1. CASE shown = Nothing
        BY <1>1, <2>4, <3>1 DEF IInv, DownloadInv
    <3>2. CASE shown # Nothing
      <4>1. Held.since \in 0..Cap \cup {Nothing} /\ download.age \in 0..Cap \cup {Nothing}
          BY <1>1, <2>4, <3>2, CoordinatorFields DEF IInv, TypeOK, Downloads
      <4>2. ~download.renewed =>
                IF download.age = Nothing THEN Held.since = Nothing
                ELSE Held.since # Nothing /\ download.age <= Held.since
          BY <1>1, <2>4, <3>2 DEF IInv, DownloadInv
      <4> QED
          BY <2>4, <3>2, <4>1, <4>2, BoundAssumption DEF Available
    <3> QED
        BY <3>1, <3>2
  <2>6. Report.available = TRUE => Report.last_success_utc
      BY <2>2, <2>3 DEF Available
  <2>7. state = "failed" /\ download.former = Nothing =>
            Report.available # TRUE /\ ~Report.last_success_utc
    <3>1. state = "failed" /\ download.former = Nothing /\ shown # Nothing => shown.since = Nothing
        BY <1>1, <2>4 DEF Held, IInv, SetUpInv
    <3> QED
        BY <2>2, <2>3, <3>1 DEF Available
  <2> HIDE DEF shown
  <2>8. (Report.last_success_age_seconds # Nothing) <=> (download.age # Nothing)
      BY <2>2
  <2> QED
      BY <2>2, <2>3, <2>5, <2>6, <2>7 DEF ReportIsCoherent
<1>2. IInv => ReportIsCoherent
    BY <1>1 DEF ReportIsCoherent
<1> QED
    BY <1>2, Invariance, PTL
================================================================================
