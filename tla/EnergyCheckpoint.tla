---------------------------- MODULE EnergyCheckpoint ----------------------------
(***************************************************************************)
(* One config entry's life cycle around its energy counters (__init__.py): *)
(* set-up restores the last checkpoint, a timer writes one every minute,   *)
(* unloading the entry or stopping Home Assistant writes a last one.       *)
(*                                                                         *)
(* The integration runs on one event loop.  A step here is what runs       *)
(* between two suspensions; the file is written by an executor thread, so  *)
(* a write has a beginning and an end and other steps come between.  Every *)
(* set-up makes a new Store, so a write begun by the previous one may      *)
(* still be on its way: Slot "superseded" is that store, "current" the     *)
(* one save_energy uses.  Store itself is Home Assistant's.                *)
(***************************************************************************)
EXTENDS EnergyAccumulator

CONSTANTS
    Nothing,      \* an empty slot of a store
    Horizon,      \* bound: ticks of the clock in one behaviour
    FaultBound,   \* bound: writes that fail
    RestartBound  \* bound: set-ups after the first

CONSTANT MaxPower \* the strongest reading, in or out

ASSUME MaxPowerAssumption == MaxPower \in Nat /\ \A p \in Power : -MaxPower <= p /\ p <= MaxPower
ASSUME NothingAssumption == Nothing \notin [charged : Nat, discharged : Nat]
ASSUME BoundsAssumption == Horizon \in Nat /\ FaultBound \in Nat /\ RestartBound \in Nat

Slot == {"current", "superseded"}

VARIABLES
    phase,      \* where set-up, unload or shutdown stands
    saved,      \* coordinator.saved_energy
    disk,       \* the checkpoint file
    pending,    \* per store: data handed over, not yet being written
    due,        \* per store: a delayed write is scheduled
    writing,    \* per store: data the executor is writing, or Nothing
    ours        \* the running write is the one the unload awaits

storeVars == <<disk, pending, due, writing, ours>>

VARIABLES       \* bounds
    clock, faults, restarts

boundVars == <<clock, faults, restarts>>

VARIABLES       \* history, read by properties only
    observed,   \* ticks during which a usable sample was held
    shown,      \* the totals last published as sensor states
    ticked,     \* the totals at the last save tick or set-up
    damaged,    \* a process died with work in it, or a write failed
    raced,      \* a set-up read the file under an outstanding write
    failedSince \* a write failed after the last save tick

historyVars == <<observed, shown, ticked, damaged, raced, failedSince>>

vars == <<accumulatorVars, phase, saved, storeVars, boundVars, historyVars>>

(***************************************************************************)
(* The counters are restored and the platforms are being set up            *)
(* ("starting"), the entry is "running", its platforms are being unloaded  *)
(* ("platforms"), the last save waits for the store's lock ("saving") or   *)
(* for the file ("flushing"), the entry is not loaded ("down"), Home       *)
(* Assistant is stopping ("stopping"), or the process has ended ("off").   *)
(***************************************************************************)
Phase == {"starting", "running", "platforms", "saving", "flushing", "down", "stopping", "off"}

\* The timers and the advertisement callback are cancelled only after
\* async_unload_entry has returned True, by the entry's on-unload callbacks.
\* While Home Assistant stops no frame is processed, so a save tick finds the
\* totals Stop has saved and does nothing: it is left out.
Listening == phase \in {"running", "platforms", "saving", "flushing"}

Idle(s) == pending[s] = Nothing /\ writing[s] = Nothing

Init ==
    /\ AccumulatorInit
    /\ phase = "running"
    /\ saved = NoTotals
    /\ disk = NoFile
    /\ pending = [s \in Slot |-> Nothing]
    /\ due = [s \in Slot |-> FALSE]
    /\ writing = [s \in Slot |-> Nothing]
    /\ ours = FALSE
    /\ clock = 0 /\ faults = 0 /\ restarts = 0
    /\ observed = 0
    /\ shown = NoTotals
    /\ ticked = NoTotals
    /\ damaged = FALSE /\ raced = FALSE /\ failedSince = FALSE

--------------------------------------------------------------------------------
(* Frames and time                                                         *)

ReceivePower(p) ==
    /\ Listening
    /\ Measure(p)
    /\ UNCHANGED <<phase, saved, storeVars, boundVars, historyVars>>

\* A frame without power, or an advertisement that is no valid frame.
ReceiveNoPower ==
    /\ Listening
    /\ Forget
    /\ UNCHANGED <<phase, saved, storeVars, boundVars, historyVars>>

\* The sensors show the totals only of a frame that carries power, and only
\* while the sensor platform is loaded; the throttle decides when.
Publish ==
    /\ phase = "running"
    /\ sample # NoSample
    /\ shown' = Totals
    /\ UNCHANGED <<accumulatorVars, phase, saved, storeVars, boundVars,
                   observed, ticked, damaged, raced, failedSince>>

Clock ==
    /\ clock < Horizon
    /\ clock' = clock + 1
    /\ Elapse
    /\ observed' = IF Listening /\ sample # NoSample /\ age < MaxGap
                     THEN observed + 1 ELSE observed
    /\ UNCHANGED <<phase, saved, storeVars, faults, restarts,
                   shown, ticked, damaged, raced, failedSince>>

--------------------------------------------------------------------------------
(* Checkpoints while running                                               *)

\* Seeded bug: only the charge decides whether there is something to save.
BugSaveTick ==
    /\ Listening
    /\ IF charged = saved.charged
         THEN UNCHANGED <<saved, storeVars>>
         ELSE /\ saved' = Totals
              /\ pending' = [pending EXCEPT !["current"] = Totals]
              /\ due' = [due EXCEPT !["current"] = TRUE]
              /\ UNCHANGED <<disk, writing, ours>>
    /\ ticked' = Totals
    /\ failedSince' = FALSE
    /\ UNCHANGED <<accumulatorVars, phase, boundVars, observed, shown, damaged, raced>>

\* save_energy from the timer: an unchanged total is not written again.
SaveTick ==
    /\ Listening
    /\ IF Totals = saved
         THEN UNCHANGED <<saved, storeVars>>
         ELSE /\ saved' = Totals
              /\ pending' = [pending EXCEPT !["current"] = Totals]
              /\ due' = [due EXCEPT !["current"] = TRUE]
              /\ UNCHANGED <<disk, writing, ours>>
    /\ ticked' = Totals
    /\ failedSince' = FALSE
    /\ UNCHANGED <<accumulatorVars, phase, boundVars, observed, shown, damaged, raced>>

\* Store: the scheduled write takes the lock.  A store that is shutting down
\* leaves its data to the final write instead.
DelayedWrite(s) ==
    /\ due[s]
    /\ writing[s] = Nothing
    /\ phase \notin {"stopping", "off"}
    /\ due' = [due EXCEPT ![s] = FALSE]
    /\ writing' = [writing EXCEPT ![s] = pending[s]]
    /\ pending' = [pending EXCEPT ![s] = Nothing]
    /\ UNCHANGED <<accumulatorVars, phase, saved, disk, ours, boundVars, historyVars>>

\* The unload's own write, once over, lets the unload return.
Returned(s) == s = "current" /\ ours

EndWrite(s) ==
    /\ writing[s] # Nothing
    /\ disk' = writing[s]
    /\ writing' = [writing EXCEPT ![s] = Nothing]
    /\ phase' = IF Returned(s) THEN "down" ELSE phase
    /\ ours' = (ours /\ ~Returned(s))
    /\ UNCHANGED <<accumulatorVars, saved, pending, due, boundVars, historyVars>>

\* A write error is logged by Store and goes no further.
FailWrite(s) ==
    /\ writing[s] # Nothing
    /\ faults < FaultBound
    /\ faults' = faults + 1
    /\ writing' = [writing EXCEPT ![s] = Nothing]
    /\ phase' = IF Returned(s) THEN "down" ELSE phase
    /\ ours' = (ours /\ ~Returned(s))
    /\ damaged' = TRUE
    /\ failedSince' = TRUE
    /\ UNCHANGED <<accumulatorVars, saved, disk, pending, due, clock, restarts,
                   observed, shown, ticked, raced>>

--------------------------------------------------------------------------------
(* Unload and set-up (reload, reconfigure, disable)                        *)

BeginUnload ==
    /\ phase = "running"
    /\ phase' = "platforms"
    /\ UNCHANGED <<accumulatorVars, saved, storeVars, boundVars, historyVars>>

UnloadRefused ==
    /\ phase = "platforms"
    /\ phase' = "running"
    /\ UNCHANGED <<accumulatorVars, saved, storeVars, boundVars, historyVars>>

\* Seeded bug: unloading does not save.
BugUnload ==
    /\ phase = "platforms"
    /\ phase' = "down"
    /\ UNCHANGED <<accumulatorVars, saved, storeVars, boundVars, historyVars>>

\* save_energy(immediate=True) up to the store's lock.
PlatformsUnloaded ==
    /\ phase = "platforms"
    /\ IF Totals = saved
         THEN /\ phase' = "down"
              /\ UNCHANGED <<saved, pending>>
         ELSE /\ phase' = "saving"
              /\ saved' = Totals
              /\ pending' = [pending EXCEPT !["current"] = Totals]
    /\ UNCHANGED <<accumulatorVars, disk, due, writing, ours, boundVars, historyVars>>

\* async_save has the lock.  A delayed write that was queued before it may
\* have taken the data already; then there is nothing left to await.
UnloadWrites ==
    /\ phase = "saving"
    /\ writing["current"] = Nothing
    /\ IF pending["current"] = Nothing
         THEN /\ phase' = "down"
              /\ UNCHANGED <<pending, due, writing, ours>>
         ELSE /\ phase' = "flushing"
              /\ writing' = [writing EXCEPT !["current"] = pending["current"]]
              /\ pending' = [pending EXCEPT !["current"] = Nothing]
              /\ due' = [due EXCEPT !["current"] = FALSE]
              /\ ours' = TRUE
    /\ UNCHANGED <<accumulatorVars, saved, disk, boundVars, historyVars>>

\* Seeded bug: the counters restart at zero.
BugSetUp ==
    /\ phase \in {"down", "off"}
    /\ restarts < RestartBound
    /\ Idle("superseded") /\ Idle("current")
    /\ restarts' = restarts + 1
    /\ phase' = "starting"
    /\ Restore(NoFile)
    /\ saved' = NoTotals
    /\ ticked' = NoTotals
    /\ UNCHANGED <<storeVars, clock, faults, observed, shown, damaged, raced, failedSince>>

\* async_setup_entry: a new Store reads the file and the counters restart
\* from it.  At most one earlier store with work left is followed.
SetUp ==
    /\ phase \in {"down", "off"}
    /\ restarts < RestartBound
    /\ Idle("superseded")
    /\ restarts' = restarts + 1
    /\ phase' = "starting"
    /\ Restore(disk)
    /\ saved' = Accepted(disk)
    /\ pending' = [s \in Slot |-> IF s = "current" THEN Nothing ELSE pending["current"]]
    /\ writing' = [s \in Slot |-> IF s = "current" THEN Nothing ELSE writing["current"]]
    /\ due' = [s \in Slot |-> IF s = "current" THEN FALSE ELSE due["current"]]
    /\ raced' = (raced \/ ~Idle("current"))
    /\ ticked' = Accepted(disk)
    /\ UNCHANGED <<disk, ours, clock, faults, observed, shown, damaged, failedSince>>

\* The platforms are up: the timers, the stop listener and reception begin.
Start ==
    /\ phase = "starting"
    /\ phase' = "running"
    /\ UNCHANGED <<accumulatorVars, saved, storeVars, boundVars, historyVars>>

\* A platform raised.  No timer or listener was registered yet; the
\* coordinator stays in hass.data until the next set-up replaces it.
SetUpFails ==
    /\ phase = "starting"
    /\ phase' = "down"
    /\ UNCHANGED <<accumulatorVars, saved, storeVars, boundVars, historyVars>>

--------------------------------------------------------------------------------
(* Shutdown                                                                *)

\* Seeded bug: nothing listens to EVENT_HOMEASSISTANT_STOP.
BugStop ==
    /\ Listening
    /\ phase' = "stopping"
    /\ ours' = FALSE
    /\ UNCHANGED <<accumulatorVars, saved, disk, pending, due, writing, boundVars, historyVars>>

\* EVENT_HOMEASSISTANT_STOP runs save_energy_on_stop, also while an unload is
\* on its way: the listener goes last.  In this state Store keeps the data for
\* the final write, which stands for the unload's own write as well.
Stop ==
    /\ Listening
    /\ phase' = "stopping"
    /\ saved' = Totals
    /\ pending' = [pending EXCEPT !["current"] = IF Totals = saved THEN @ ELSE Totals]
    /\ ours' = FALSE
    /\ UNCHANGED <<accumulatorVars, disk, due, writing, boundVars, historyVars>>

\* An entry that is not loaded has no listener; only its store has work.
StopUnloaded ==
    /\ phase \in {"down", "starting"}
    /\ phase' = "stopping"
    /\ UNCHANGED <<accumulatorVars, saved, storeVars, boundVars, historyVars>>

FinalWrite(s) ==
    /\ phase = "stopping"
    /\ writing[s] = Nothing
    /\ pending[s] # Nothing
    /\ writing' = [writing EXCEPT ![s] = pending[s]]
    /\ pending' = [pending EXCEPT ![s] = Nothing]
    /\ due' = [due EXCEPT ![s] = FALSE]
    /\ UNCHANGED <<accumulatorVars, phase, saved, disk, ours, boundVars, historyVars>>

Discard ==
    /\ pending' = [s \in Slot |-> Nothing]
    /\ due' = [s \in Slot |-> FALSE]
    /\ writing' = [s \in Slot |-> Nothing]
    /\ ours' = FALSE

Exit ==
    /\ phase = "stopping"
    /\ \A s \in Slot : Idle(s)
    /\ phase' = "off"
    /\ Discard
    /\ UNCHANGED <<accumulatorVars, saved, disk, boundVars, historyVars>>

\* The process is killed.  Store replaces the file atomically, so the file
\* is the old one or the new one.
Crash ==
    /\ phase # "off"
    /\ phase' = "off"
    /\ damaged' = TRUE
    /\ Discard
    /\ UNCHANGED <<accumulatorVars, saved, disk, boundVars,
                   observed, shown, ticked, raced, failedSince>>

Next ==
    \/ \E p \in Power : ReceivePower(p)
    \/ ReceiveNoPower
    \/ Publish
    \/ Clock
    \/ SaveTick
    \/ \E s \in Slot : DelayedWrite(s) \/ EndWrite(s) \/ FailWrite(s) \/ FinalWrite(s)
    \/ BeginUnload \/ UnloadRefused \/ PlatformsUnloaded \/ UnloadWrites
    \/ SetUp \/ Start \/ SetUpFails
    \/ Stop \/ StopUnloaded \/ Exit \/ Crash

(***************************************************************************)
(* The timer keeps ticking, the event loop runs what is scheduled and the  *)
(* executor finishes its writes.  Nothing obliges a frame to arrive, an    *)
(* entry to be reloaded or Home Assistant to stop.                         *)
(***************************************************************************)
Fairness ==
    /\ WF_vars(SaveTick)
    /\ \A s \in Slot : WF_vars(DelayedWrite(s)) /\ WF_vars(FinalWrite(s))
    /\ \A s \in Slot : WF_vars(EndWrite(s) \/ FailWrite(s))
    /\ WF_vars(UnloadWrites)

Spec == Init /\ [][Next]_vars

FairSpec == Spec /\ Fairness

--------------------------------------------------------------------------------
(* Properties                                                              *)

Checkpoint == [charged : Nat, discharged : Nat]

TypeOK ==
    /\ AccumulatorTypeOK
    /\ phase \in Phase
    /\ saved \in Checkpoint
    /\ disk \in Checkpoint \cup {NoFile}
    /\ pending \in [Slot -> Checkpoint \cup {Nothing}]
    /\ due \in [Slot -> BOOLEAN]
    /\ writing \in [Slot -> Checkpoint \cup {Nothing}]
    /\ ours \in BOOLEAN
    /\ clock \in Nat /\ faults \in Nat /\ restarts \in Nat
    /\ observed \in Nat
    /\ shown \in Checkpoint
    /\ ticked \in Checkpoint
    /\ damaged \in BOOLEAN /\ raced \in BOOLEAN /\ failedSince \in BOOLEAN

Covers(new, old) == new.charged >= old.charged /\ new.discharged >= old.discharged

\* The counters never hold more energy than the strongest reading could have
\* moved during the time a usable reading was held: an outage is not
\* extrapolated, no interval is credited twice, and neither a restart nor an
\* old file brings energy back that was counted already.
NeverInflated == charged + discharged <= MaxPower * observed

\* A counter that was shown never comes back smaller as long as no process
\* died, no write failed and no set-up read the file under an outstanding
\* write: unloading and stopping save everything that was shown.
OrderlyRestartKeepsTotals == ~damaged /\ ~raced => Covers(Totals, shown)

\* With the stores at rest the file holds at least the totals of the last save
\* tick, so a crash costs what was counted since (README: up to 60 seconds).
DiskHoldsLastTick ==
    faults = 0 /\ ~raced /\ Listening /\ Idle("current")
        => Covers(Accepted(disk), ticked)

\* The file never goes back to older totals, whatever fails: writes of one
\* store do not overtake each other and a new store starts from the file.
FileNeverRegresses ==
    [][~raced => Covers(Accepted(disk'), Accepted(disk))]_vars

\* Energy counted while the entry runs reaches the file, also when the entry
\* is unloaded or Home Assistant stops right away.
CountedEnergyIsSaved ==
    \A n \in 1..(MaxPower * Horizon) :
        (phase = "running" /\ charged >= n)
            ~> (Accepted(disk).charged >= n \/ damaged \/ raced)

\* A reading older than MaxGap is no longer flowing, for the meter.
Flowing == sample # NoSample /\ age <= MaxGap

\* The copies the stores of this process still hold.
Underway == ({pending[s] : s \in Slot} \cup {writing[s] : s \in Slot}) \ {Nothing}

Meter == INSTANCE MeteredEnergy WITH
    Patience    <- MaxGap,
    NoFlow      <- NoSample,
    NoCopy      <- NoFile,
    flow        <- IF Flowing THEN sample ELSE NoSample,
    provisional <- IF Flowing THEN sample * age ELSE 0,
    silent      <- age,
    underway    <- Underway,
    durable     <- disk

\* Accumulator, timer, stores and life cycle together implement the ideal meter
\* with its copies: one multiplication per frame books what integration tick by
\* tick would have booked, only totals that were booked get to the file, and
\* every set-up goes on from the file.
IntegratesObservedPower == Meter!Spec

\* __init__.py:207 says of the save at teardown that "the next setup reads the
\* file back, so it has to be on disk before this coroutine returns or a reload
\* restores stale totals from the previous checkpoint": without a crash or a
\* failed write no reload brings back totals below those shown.
ReloadRestoresShownTotals == ~damaged => Covers(Totals, shown)

\* README.md:27: an unclean shutdown "can lose up to 60 seconds since the last
\* checkpoint": after a save tick without a failed write since, the file holds
\* the totals of that tick, even if an earlier write had failed.
TickLeavesNothingBehind ==
    ~raced /\ ~failedSince /\ Listening /\ Idle("current")
        => Covers(Accepted(disk), ticked)
================================================================================
