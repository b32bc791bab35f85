----------------------------- MODULE MeteredEnergy -----------------------------
(***************************************************************************)
(* What the integration promises of its energy counters: energy.py is to   *)
(* "integrate observed battery power without extrapolating outages", and   *)
(* the totals are to outlive the process.  An ideal meter reads the power  *)
(* tick by tick.  The energy of the interval since the last reading stays  *)
(* provisional: the next reading books it, an outage or an unreadable      *)
(* frame voids it.  Copies of the totals are underway to a durable store;  *)
(* any of them may get lost or arrive late, and a restarted meter goes on  *)
(* from the durable copy and from nothing else.                            *)
(***************************************************************************)
EXTENDS Integers

CONSTANTS Power, Patience, NoFlow, NoCopy

VARIABLES
    charged, discharged,  \* booked energy, in and out
    flow,                 \* the power now flowing, or NoFlow when unknown
    provisional,          \* energy since the last reading, not yet booked
    silent,               \* ticks since the last reading
    underway,             \* the copies on their way to the durable store
    durable               \* the copy it holds, or NoCopy

meterVars == <<charged, discharged, flow, provisional, silent>>
copyVars == <<underway, durable>>

Booked == [charged |-> charged, discharged |-> discharged]

Init ==
    /\ charged = 0 /\ discharged = 0
    /\ flow = NoFlow
    /\ provisional = 0
    /\ silent = 0
    /\ underway = {}
    /\ durable = NoCopy

In(energy)  == IF energy > 0 THEN energy ELSE 0
Out(energy) == IF energy < 0 THEN -energy ELSE 0

\* One tick of flow is added; past its patience the meter gives the interval up.
Tick ==
    /\ flow # NoFlow
    /\ silent' = silent + 1
    /\ IF silent < Patience
         THEN provisional' = provisional + flow /\ flow' = flow
         ELSE provisional' = 0 /\ flow' = NoFlow
    /\ UNCHANGED <<charged, discharged, copyVars>>

Book(p) ==
    /\ charged' = charged + In(provisional)
    /\ discharged' = discharged + Out(provisional)
    /\ flow' = p
    /\ provisional' = 0
    /\ silent' = 0
    /\ UNCHANGED copyVars

Interrupt ==
    /\ flow' = NoFlow
    /\ provisional' = 0
    /\ silent' = 0

Void == Interrupt /\ UNCHANGED <<charged, discharged, copyVars>>

\* Copies leave with the totals booked so far, arrive, or get lost.
Copy ==
    /\ underway' \subseteq underway \cup {Booked}
    /\ durable' \in underway \cup {durable}
    /\ UNCHANGED meterVars

\* The meter is restarted; copies still underway stay underway.
Resume ==
    /\ Interrupt
    /\ charged' = IF durable = NoCopy THEN 0 ELSE durable.charged
    /\ discharged' = IF durable = NoCopy THEN 0 ELSE durable.discharged
    /\ UNCHANGED copyVars

Next == Tick \/ (\E p \in Power : Book(p)) \/ Void \/ Copy \/ Resume

Spec == Init /\ [][Next]_<<meterVars, copyVars>>
================================================================================
