# A TLA+ model of the Victron BLE integration

This directory specifies `custom_components/victron_ble`, a Home Assistant
integration that listens to the Bluetooth advertisements of Victron devices. It
holds TLA+ modules for its components, configurations that model-check them with
TLC, and proofs checked by TLAPS. `PROJECT.json` lists the runs, the lines each
definition stands for, the findings and the hazards.

```
tlasany M.tla                       parse a module
tlc -config X.cfg MCModule.tla      model-check; PROJECT.json pairs module and cfg
tlapm XProofs.tla                   check the proofs
```

## 1. The system

| Component | State | Operations | What makes it hard |
| --- | --- | --- | --- |
| Decoder (`device.py`) | the parent class's value dictionaries, failure count, last success, warn-once set, energy accumulator | `update(advertisement)` | dictionaries live across advertisements; decoding may break off half-way |
| Energy accumulator (`energy.py`) | two totals, the last power sample | `update`, `restore`, `as_dict` | outages, duplicates, restarts |
| Checkpoint and entry (`__init__.py`) | `saved_energy`, Home Assistant's `Store`, the file, the entry's state | set-up, 60 s timer, unload, stop | writes take time, fail, or are cut off; a set-up waits twice and may fail; reloads make a second `Store` |
| Throttle (`__init__.py`) | last send, last state-like values, per-key send times | one call per advertisement | alarms must pass, slow keys must wait, recovery overrides both |
| Coordinator (`__init__.py`) | `_last_available`, last success, Bluetooth availability | `_process_update`, `check_freshness` every 15 s | reception and decoding fail separately |
| Sensor entities (`sensor.py`) | `_published_value`, the written state | `_handle_processor_update`, first write | rounding and deadband, unavailability, late addition |
| Description table (`sensor.py`) | none | lookup by (key, unit) | an unknown pair is skipped with a log line; precision and band follow from device and state class |
| Config flows (`config_flow.py`) | open forms, entries | discovery, manual set-up, reconfigure, options | a form stays open while devices, entries and other forms change |
| Diagnostics (`diagnostics.py`) | none | a read-only download | reads on both sides of an await |

An advertisement goes decoder -> throttle -> processor (Home Assistant) ->
entities, all in one call on the event loop. The decoder feeds the accumulator on
the way; timers save it and check freshness. Config flows create, change and
reload the entry that owns all of this. Only four things suspend: file access,
setting up or unloading the platforms, a download looking up the integration, and
waiting for the user. That is where the interleavings are.

Correctness, per component: energy is neither invented nor lost more than
documented; suppression hides no alarm and delays nothing beyond its interval;
stale values are not shown as current; a frame is published whole or not at all;
no key proven wrong is saved, and coordinators run with what is configured; a
broken device is reported once and its diagnostics speak of one coordinator.

## 2. Modules

| Module | Models | Used by |
| --- | --- | --- |
| `EnergyAccumulator` | `energy.py` | `EnergyCheckpoint` |
| `EnergyCheckpoint` | set-up, save, unload, stop, crash | `MCEnergyCheckpoint`, `EnergyCheckpointProofs` |
| `MeteredEnergy` | abstract specification: a meter with a durable copy that integrates tick by tick | instantiated by `EnergyCheckpoint` |
| `Throttle` | `_make_throttled_update` | the next two, `ThrottleProofs` |
| `ThrottledFeed` | throttle and the processor's merged data | `MCThrottledFeed`, `ThrottledFeedProofs` |
| `SensorEntity` | one entity of any step and band, and every call it may get | extended by `GaugeEntity`; instantiated per key by `Publication` |
| `Publication` | throttle, coordinator, processor, entities composed | `MCPublication`, `PublicationProofs` |
| `Rounding` | `quantize` at one step, shared by the entity models | `Publication`, `SensorEntity` |
| `SensorTable` | every row of the description table: unit, device and state class, precision, band | `GaugeEntity` |
| `GaugeEntity` | `SensorEntity` with any row of the table | `MCGaugeEntity`, `GaugeEntityProofs` |
| `DeviceLayouts` | what each kind of device publishes; the pairs of the table | `Decoder` |
| `Decoder` | `update()`, warn-once, failure count, energy sample | `MCDecoder`, `DecoderProofs` |
| `ConfigFlow` | the three flows, and set-ups and reloads they cause | `MCConfigFlow`, `ConfigFlowProofs` |
| `DeviceHealth` | diagnostics, the process-wide warning latch, keys from dialogue to decoder | `MCDeviceHealth`, `DeviceHealthProofs` |

Each component's proofs are in a module of their own, named after it; `ThrottleProofs`
holds the lemmas that `ThrottledFeedProofs` and `PublicationProofs` share.

Operators named `Bug...` are not part of any specification. Each stands in front
of the definition it would replace and is that definition with one plausible bug;
put in its place, one property of a run fails (the pairs are the `mutants` of
`PROJECT.json`).

### Conventions

- **Time** is a number of ticks. Only differences of the monotonic clock matter to
  the code, so each stored time is an age, saturated above the largest interval it
  is compared with (`Cap`, `MaxGap + 1`). No behaviour is lost by saturating.
- **A step** is what runs between two suspensions of the event loop.
- **History variables** are read by properties only and marked as such.
- **Home Assistant** (Store, processor, Bluetooth manager, flow manager) is
  modelled from how this code uses it; those definitions are `external` in the map.
- **Numbers** are integers in the finest resolution. The running sums of the
  counters are exact; floating-point rounding is not modelled.

### Correspondence

*EnergyAccumulator.* `charged`, `discharged` are the two totals, `sample`/`age` the
pair `_sample`. `Measure` is `update` with a finite power, `Forget` with none;
`Held` is the energy credited. A payload `restore` refuses is `NoFile`.

*MeteredEnergy.* Not a translation: it says tick by tick what `energy.py` promises
and what a durable copy may do (arrive late, get lost, never be invented).

*EnergyCheckpoint.* `phase` tells where set-up, unload or stop stands. A `Store` has
data handed over (`pending`), a scheduled delayed write (`due`) and a write in the
executor (`writing`); `Slot` distinguishes the store in use from the one a reload
left behind. `SaveTick` and `PlatformsUnloaded` are `save_energy` with its early
return for unchanged totals; `UnloadWrites` is `async_save` getting the store's
lock, and `ours` marks the write the unload awaits. A set-up is `SetUp` (the file
is read) and then `Start`, or `SetUpFails` when a platform raises. `Stop` may come
in any step of an unload, as the stop listener is removed last. At most one
superseded store with work left is followed, and save ticks while stopping are left
out because they find nothing to save.

*Throttle, ThrottledFeed.* A frame maps every key to a number, a label, `Missing`
(None) or `Absent` (not in the update). `Send` carries all three assignments of
`_throttled`; `Forwarded` is its filter. `Merge` is the processor's dictionary
update: a key not handed over keeps its value.

*Publication.* `ReceiveFrame` runs the call chain of a valid advertisement, `force()`
being evaluated before the success of this frame is noted. `ReceiveInvalid` is an
empty update; `UpdateEntities` the entities' `_handle_processor_update`, called for
changed keys, or for all on recovery and on flushes; `AddEntity` the entity's first
state write, which does not pass through it. `last_update_success` of the processor,
which changes only when conversion raises, is left out. `Entity(k)` is the refinement
mapping to `SensorEntity`: the entity of key `k` sees its own data (`Held`), its own
memory and state, and the coordinator's two answers.

*SensorEntity.* `Handle` is `_handle_processor_update` with `native_value` and
`available` in its parts; `flush` is the call with `new_data` None, which may follow
data in the same step. The actions are what the code around an entity may do to it:
data arrives while the device is, or becomes, available (`Receive`); an advertisement
does not decode while it is not (`ReceiveNothing`); Bluetooth loses the device; the data
expires, which nobody announces (`Expire`); the timer runs; the entity is added late.
`step` and `band` are what its row says and never change; they are variables because
`GaugeEntity` starts with any row. The slack of 1e-9 in the comparison is for floats and
has no counterpart.

*SensorTable, Rounding, GaugeEntity.* `SensorTable` derives a row's device class,
state class, precision and band the way the table and its dictionaries do, exceptions
by key first; the derivation agrees with the table of `sensor.py` for all 59 rows.
`GaugeEntity` runs the entity for each such row, with the readings the row may have.

*DeviceLayouts, Decoder.* A layout lists the sensor updates of one branch in program
order, each with the fields it reads and what an unreadable one does: None, skip
or raise. A value is known by its origin: fresh, none, or stale from an older frame.
`collected` is the pair of dictionaries of the parent class.

*ConfigFlow.* `dialog` is the open form of a flow; each submission repeats the checks
of the code. Entries, coordinators, set-ups on their way and scheduled reloads are per address. `heard`
is the key-check byte of the last advertisement, the only thing about it that can refute a
key (`CheckByte`); in `DeviceHealth` all keys differ in it.
`BeginSetUp` reads key and options, `EndSetUp` adds the update listener. Set-ups that
fail and unloads that are refused are in `DeviceHealth` and `EnergyCheckpoint`.

*DeviceHealth.* One entry and the device behind it. The entry's `state` has two
waiting places of a set-up, before (`loading`) and after (`starting`) the coordinator
is stored in `hass.data`. `warned` is the process-wide latch: coordinators and the
strict decoders of the dialogues (`KeyCheck`) share it. A `download` remembers what
diagnostics read before its await; `former` is the coordinator it holds on to after
`hass.data` has dropped it. The number of the failures stops at `MaxFailures`.

## 3. Runs

| Run | Bounds | Shows |
| --- | --- | --- |
| `energy_checkpoint` | 3 ticks, gap limit 2, 1 failed write, 2 restarts, power -1 to 1 | safety of counters and file under reloads, stops, crashes, failed writes and set-ups; refinement of the meter; counted energy reaches the file |
| `throttled_feed` | window 2, slow interval 5, 4 keys | what suppression may hide |
| `publication` | window 2, slow 4, freshness 3, timer 2, 3 keys | the whole chain; refinement of one `SensorEntity` per key |
| `gauge_entity` | every row, one cell; 24 readings around the boundaries | rounding and bands of the real table |
| `decoder` | all 13 kinds, 2 cells, at most 2 unreadable fields | decoding sequences |
| `config_flow` | 2 dialogues, 2 devices, 3 keys with 2 check bytes, 2 waiting reloads | interleaved dialogues and set-ups |
| `device_health` | 2 keys, freshness 2, 2 waiting reloads | downloads, warnings and keys across the entry's life |

The bounds are the smallest with the interesting cases: one tick more than the gap
limit makes an outage; two restarts let a superseded store meet a crash; a slow
interval that is no multiple of the window makes a slow key wait for both; a
freshness limit above the timer period lets a frame arrive between expiry and
check; readings lie on both sides of every rounding boundary and band edge of the
three banded classes, halves included; two unreadable fields break a frame behind an
already collected None; two dialogues and two devices let each dialogue be about its
own, the same or a retyped device. Two reloads is what one reconfiguration
schedules. `device_health` needs one address only, because the latch is per address,
and two keys, so that entry, coordinator and device may differ pairwise.
`config_flow` uses symmetry over dialogues, devices and keys; it checks safety only.

Deadlock is checked except in the `EnergyCheckpoint` configurations, where the
process really ends (`Exit`, `Crash`) once the restarts are used up.

**Fairness** (`energy_checkpoint`): the save timer keeps firing, scheduled writes
start, executor writes end (well or badly), an unload that got its turn writes.
Event loop, `async_track_time_interval` and executor give just that. No frame has to
arrive, and nobody has to reload or stop. `device_health`: scheduled reloads begin,
and unloads and set-ups that are on their way end, if only by being refused or
failing; these are tasks of the event loop. Advertisements, users and downloads owe
nothing.

`Started` in `DeviceHealth` lets the Bluetooth manager hand the last advertisement to
a coordinator that starts. That is Home Assistant's; the comment at `__init__.py:236`
relies on it.

### Runs that end in a violation

Each states what a comment or document of the repository says and shows a behaviour
of the code against it; `PROJECT.json` quotes both.

| Run | Disagreement |
| --- | --- |
| `energy_reload_race` | A reload during a periodic write skips its own save (`saved_energy` is already equal) and restores the older file. |
| `energy_failed_write` | `saved_energy` advances before the write, so a failed write is not retried until the totals change. |
| `publication_invalid_frame` | After Bluetooth loss, an undecodable advertisement revives the old values. |
| `decoder_missing` | A measurement skipped because it is None keeps its older value. |
| `config_options` | The update listener is added after two awaits: an option saved before that is not applied by any reload. |

The modules also show, without a run of their own:

- a set-up that fails at the platforms leaves its coordinator in `hass.data`
  (`DeviceHealth!SetUpFails` from `starting`), where `__init__.py:250` says that a
  failed set-up "never stored anything"; diagnostics show it, as never heard;
- a slow key that becomes None is held back by its interval and shows its old number
  (`SlowKeyDue`);
- a gauge alternating with None is state-like and lets all others through
  (`StateLike`, `Due`); `StatesAreWrittenAtTheirPace` names this as its exception;
- a throttle option of 0, which README.md:96 says disables the throttle, is raised to
  the minimum (`ConfigFlow!Throttle`);
- when the data has expired and a valid frame comes before anyone was told (the timer
  runs every 15 s), nobody flushes: a reading within the band of the number shown
  before is not written, where the docstring at sensor.py:709 has the first reading
  after a recovery publish (`SensorEntity!Expire`, then `Receive`);
- after a flush or an entity's first state, `_published_value` is empty and a reading
  within the band is written (sensor.py:713, `SensorEntity!Handle`);
- a wrong key whose check byte happens to be the device's is accepted and saved; the
  dialogue has nothing else to tell it by (config_flow.py:91, `ConfigFlow!KeyCheck`);
- the band of a current, 0.5 A, is below its rounding step of 1 A, so it absorbs
  nothing (sensor.py:539): `DitherIsNotWritten` promises nothing for it.

## 4. Properties

- *Energy.* `NeverInflated` bounds the counters by the time a usable reading was held,
  over all restarts. `OrderlyRestartKeepsTotals` and `FileNeverRegresses` say what
  survives; both except set-ups that raced a write, which is the first finding.
  `DiskHoldsLastTick` is the documented loss window. `IntegratesObservedPower` is the
  refinement of `MeteredEnergy`, life cycle included. `CountedEnergyIsSaved` is the
  liveness of the checkpoint.
- *Throttle.* `StatesAreCurrent`, `GaugesAreRecent`, `SlowKeysAreRecent`: alarms and
  labels of the last frame are shown whatever was suppressed; a gauge lags by less
  than a window, a slow key by less than its interval plus a window.
  `AlarmsDoNotAccelerateSlowKeys`. Proved only: `RecoveryShowsWholeFrame`, and
  `NumbersArePaced`, that a gauge moves inside a window only with a state change.
- *Publication.* `StatesFollowData`: while the device is available each state is within
  its band of the data. `ExpiredDataIsNotShown`: after the limit plus one timer period
  everything is unavailable. `AlarmsReachTheStateMachine`.
  `StatesAreWrittenAtTheirPace` and `StatesKeepUpWithFrames` are the throttle seen from
  the state machine: nothing is written too early, nothing too late, and the frame that
  ends an expiry is shown whole (`ExpiryEndsWithWholeFrame`, proved only).
  `EntitiesSeeOnlyTheirCalls` is the refinement of one `SensorEntity` per key.
- *GaugeEntity.* `DriftIsShown`: a number that is shown is off by at most a band and half
  a step, however slowly the readings parted from it. `DitherIsNotWritten` is its
  counterpart. `OnlyMeasurementsAreHeldBack`. `BandEndsWithUnavailability`: a
  reading is shown as it is unless a number within its band is shown already; an expiry
  nobody was told of shows nothing unavailable and does not end the band.
- *Decoder.* `NothingStaleIsPublished`, `OnlyCompleteFramesAreShown`,
  `OnlyConditionalSensorsGoStale`, `ComputedSensorsHaveTheirOperands`,
  `EverySensorIsDescribed`, `EnergyIntervalsAreObserved`, `OneWarningPerFailure`.
- *ConfigFlow.* `RefutedKeysAreNotSaved`: the last advertisement refutes a key by its
  check byte only, of the device the form names. `SetupNeverReplacesAnEntry`,
  `CoordinatorsFollowEntries`.
- *DeviceHealth.* `ReportIsCoherent`: the fields of a download read before and after
  its await fit together, although coordinators come and go meanwhile.
  `OneWarningPerOutage`: across reloads and dialogues. `KeyTakesEffect`: a saved key
  gets used, also one saved in the middle of a set-up; its safety half
  `SettledEntryUsesItsKey`, a loaded entry that no reload waits for is using it, is
  proved only.

## 5. Proofs

The theorems hold for every value of the constants that meets the named assumptions:
powers are integers, `MaxGap` is positive, `MaxPower` bounds every power, the
sentinels are no data; for the throttle, frames are functions on the keys, intervals
are positive and `Cap` lies above them; readings are integers, and neither None nor a
label is one; the freshness limit does not exceed the ages counted; at least one
reload may wait; the cell keys are a sequence.

*EnergyCheckpointProofs.* `TypeCorrect` is inductive by itself. `NeverInflated` is not:
the energy a held sample will still be credited with must be counted as well, and so
must every copy of the totals that a later set-up may restore. `InflationInv` bounds
each copy (file, pending, being written, saved) by the same budget.
`TotalsSurviveOrderlyRestart` and `CheckpointCoversLastTick` follow from `SavedInv`,
which orders those copies: the newest one that will reach the file covers what was
shown and ticked. `CheckpointNeverRegresses` needs `OrderInv` besides, which orders
the writes of one store.

`LifeCycleImplementsMeter`: initial states map to initial states,
and every step of accumulator, timer, stores and life cycle to a step of the meter or
a stutter. The mapping takes `sample * age` for the provisional energy; its one
arithmetic fact is `(age + 1) * sample = age * sample + sample`. The copies underway
are what both stores hold. Type correctness is the only invariant needed.

*ThrottledFeedProofs.* `FeedInv` ties the throttle's memory to what the processor
shows: `lastStates` are the state-like values shown, and the age of a shown value is
bounded by the throttle's own ages. Together with the type invariant it gives the
properties of the run, `RecoveryShowsWholeFrame` and `NumbersArePaced`.

*PublicationProofs.* The properties speak of available devices; that they hold when a
device comes back depends on what its entities remembered meanwhile. `ShownInv` says it
per entity: whoever may still compare with a remembered value shows that value.
`TimerInv` relates the coordinator's last answer to the time since the last success and
the last check; with it `ExpiredDataIsNotShown` is arithmetic. `FrameInv` says that the
throttle's memory is the states of the last frame and that they have arrived in the
data, which gives `AlarmsReachTheStateMachine`. `StatesKeepUpWithFrames` needs one more
fact, `LagInv`: the last frame came less than a window after one that was forwarded.

`ImplementsSensorEntity` is the refinement: for every key, initial states map to initial
states and every step of the device to a step of that key's entity or a stutter.
`EntityReads` says that both modules round, compare and show alike, `UpdateIsHandle` that
the one loop over the entities treats each as if it were alone, and
`ProcessUpdateIsEntityStep` sorts what an advertisement means to an entity. Two invariants
are needed: an entity the processor passes over belongs to an available device whose
coordinator knows it (`TimerInv`), or an advertisement could flush it unseen; and all
values have their types. `EntitiesSeeOnlyTheirCalls` is the same for all keys at once, in
the form that TLC reads; the entity's liveness is not part of it.

*GaugeEntityProofs.* Rounding to any step moves a number by at most half of it
(`RoundIsNear`). `BandInv` says who may be compared with what: an entity with a remembered
value that is not about to be flushed shows that value, and its data is rounded to it or
within the band of it; an entity that remembers nothing shows its data or is
unavailable. Adding the half step and the band gives `DriftIsShown`, subtracting them
`DitherIsNotWritten`. What an expiry leaves behind unannounced is harmless because
`lastAvailable` stays set until somebody flushes. By `ImplementsSensorEntity` the entity
proved about here is the one `Publication` composes, once for each key.

*DeviceHealthProofs.* The invariant has three parts besides the types: where in the
entry's life a coordinator exists and has heard nothing yet; that a waiting download
saw the age of the coordinator it still holds, unless a frame came between; and that
the latch is set exactly while an outage has been reported. `KeyInv` adds for
`SettledEntryUsesItsKey` that a set-up no reload follows was begun with the saved key.

*ConfigFlowProofs.* That coordinators follow entries once nothing is scheduled is not
inductive. `EntryInv` says at every moment which coordinator an entry will be left with,
the running one or the one being set up, and that it has the entry's key unless a reload
is scheduled; `DialogInv` says that a reconfigure or options form is about an entry that
exists, without which `SubmitReconfigure` could schedule reloads for none.

*DecoderProofs.* Three facts about the rows are read off the layouts kind by kind: each
is described and fails in one of three ways (`LayoutIsSound`), two auxiliary modes differ
only in their own row (`OtherModes`), and the rows of a computed sensor's key read the
same operands, which have rows of their own (`ComputedRows`). They hold for any cell keys.
The frame's properties follow from them and from what merging does to one key
(`MergedValue`); the latch and the sample are inductive by themselves.

Every invariant and action property of the passing runs is proved. Only model-checked:
liveness (`CountedEnergyIsSaved`, `KeyTakesEffect`), which is out of the prover's reach; of
`KeyTakesEffect` the safety half is proved.

Four properties are proved and in no run, because a run checks what the user sees of
them, named in brackets:
`RecoveryShowsWholeFrame` and `ExpiryEndsWithWholeFrame` (`StatesKeepUpWithFrames`),
`NumbersArePaced` (`StatesAreWrittenAtTheirPace`), `SettledEntryUsesItsKey`
(`KeyTakesEffect`).

## 6. Not modelled

The contents of advertisements and their decryption (library `victron_ble`), entity
restoration and the state machine (Home Assistant), the rounding of floating-point
sums, and icons, names and texts, which no state depends on. Addresses are model
values: that another spelling makes a second entry is not expressible. Files damaged
from outside are one refused value and do not arise in the runs.

## 7. Plan

Done: all components above, with a proof of every invariant and action property, and both
refinements (energy meter, sensor entity). The second one showed where an earlier
`GaugeEntity` was too narrow: it knew no expiry without an announcement, no undecodable
advertisement that makes an unavailable entity remember a value, and no late addition;
its properties were weaker for it.

Left: one abstract life cycle of an entry for `EnergyCheckpoint`, `DeviceHealth` and
`ConfigFlow`, which each model the part of it they need.
