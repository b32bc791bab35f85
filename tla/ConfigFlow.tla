------------------------------- MODULE ConfigFlow ------------------------------
(***************************************************************************)
(* The user's dialogues about devices: discovery, manual setup,            *)
(* reconfiguration of the key and the throttle option (config_flow.py),    *)
(* and what they do to the config entries and the coordinators that run    *)
(* for them (async_setup_entry, async_reload_entry).                       *)
(*                                                                         *)
(* A dialogue waits for the user between its form and each submission, so  *)
(* several of them, advertisements and reloads interleave.  Flow manager,  *)
(* entry store and Bluetooth history are Home Assistant's.                 *)
(***************************************************************************)
EXTENDS Naturals

CONSTANTS
    Flow,           \* dialogues
    Address,        \* devices
    Key,            \* well-formed advertisement keys
    Byte,           \* key-check bytes
    CheckByte,      \* per key: the byte that advertisements encrypted with it carry
    Malformed,      \* a key validate_key rejects
    Option,         \* throttle options an older entry may hold
    MinThrottle,    \* 60: the form's minimum, and the default
    MaxThrottle,    \* 3600: the form's maximum
    Unset,          \* the entry has no throttle option
    Nothing,        \* no entry, no coordinator, no unique id, no byte
    MaxReloads      \* bound: reloads of one entry that wait at the same time

ASSUME OptionAssumption ==
    /\ Option \subseteq Nat /\ MinThrottle \in Nat /\ MaxThrottle \in Nat
    /\ MinThrottle <= MaxThrottle /\ Unset \notin Nat /\ MaxReloads \in Nat \ {0}
ASSUME KeyAssumption ==
    /\ CheckByte \in [Key -> Byte]
    /\ Malformed \notin Key /\ Nothing \notin Address
    /\ Nothing \notin Byte
ASSUME NothingAssumption ==
    /\ Nothing \notin [key : Key, option : Option \cup {Unset}]
    /\ Nothing \notin [key : Key, throttle : Nat]

VARIABLES
    heard,     \* per address: the key-check byte of the last advertisement; Nothing
               \* if there is none, or one that fails before its byte is read
    entry,     \* per address: the config entry whose unique id it is
    loaded,    \* per address: key and throttle interval of the running coordinator
    starting,  \* per address: those of a set-up that is on its way
    reloads,   \* per address: set-ups and reloads that are scheduled
    dialog     \* per flow: its form and, in "about", its unique id or entry

VARIABLE unheeded \* history: addresses whose option changed during the last set-up

vars == <<heard, entry, loaded, starting, reloads, dialog, unheeded>>

Idle == [form |-> "none", about |-> Nothing]
Dialog(form, about) == [form |-> form, about |-> about]

\* validate_key
ValidKey(k) == k # Malformed

\* _check_key_against_live_advertisement: only another key-check byte in the last
\* advertisement refutes a key.  Without an advertisement, with one that fails in
\* another way, and with a wrong key that shares the byte, it passes.
KeyCheck(a, k) == heard[a] \in Byte => heard[a] = CheckByte[k]

Accepted(a, k) == ValidKey(k) /\ KeyCheck(a, k)

InProgress(f, a) == \E g \in Flow \ {f} : dialog[g] = Dialog("user", a)

\* Seeded bug: the option is used as it is.
BugThrottle(option) == IF option = Unset THEN MinThrottle ELSE option

\* async_setup_entry: the part of the entry the coordinator is built from.
Throttle(option) ==
    IF option = Unset \/ option < MinThrottle THEN MinThrottle ELSE option

Coordinator(e) == IF e = Nothing THEN Nothing ELSE [key |-> e.key, throttle |-> Throttle(e.option)]

--------------------------------------------------------------------------------
(* async_step_bluetooth, async_step_user                                   *)

\* A discovered device; aborted at once when known or already asked about.
Discover(f, a) ==
    /\ dialog[f] = Idle
    /\ ~InProgress(f, a) /\ entry[a] = Nothing
    /\ dialog' = [dialog EXCEPT ![f] = Dialog("user", a)]
    /\ UNCHANGED <<heard, entry, loaded, starting, reloads, unheeded>>

StartUser(f) ==
    /\ dialog[f] = Idle
    /\ dialog' = [dialog EXCEPT ![f] = Dialog("user", Nothing)]
    /\ UNCHANGED <<heard, entry, loaded, starting, reloads, unheeded>>

\* Home Assistant ends the other dialogues about a device that was set up.
EndOthers(f, a) ==
    [g \in Flow |-> IF g = f \/ dialog[g] = Dialog("user", a) THEN Idle ELSE dialog[g]]

CreateEntry(f, a, k) ==
    /\ entry' = [entry EXCEPT ![a] = [key |-> k, option |-> Unset]]
    /\ reloads' = [reloads EXCEPT ![a] = 1]
    /\ dialog' = EndOthers(f, a)
    /\ UNCHANGED <<heard, loaded, starting, unheeded>>

\* Seeded bug: the unique id is only checked when the dialogue starts.
BugSubmitUser(f, a, k) ==
    /\ dialog[f].form = "user"
    /\ Accepted(a, k)
    /\ CreateEntry(f, a, k)

\* Seeded bug: the key is tried on the device that was discovered, whatever address
\* the form names.
BugSubmitUserTriesDiscovered(f, a, k) ==
    /\ dialog[f].form = "user"
    /\ Accepted(IF dialog[f].about = Nothing THEN a ELSE dialog[f].about, k)
    /\ IF InProgress(f, a) \/ entry[a] # Nothing
       THEN /\ dialog' = [dialog EXCEPT ![f] = Idle]
            /\ UNCHANGED <<heard, entry, loaded, starting, reloads, unheeded>>
       ELSE CreateEntry(f, a, k)

\* The form may name any address.  A rejected key shows the form again; a device
\* another dialogue asks about, or one set up in the meantime, aborts.
SubmitUser(f, a, k) ==
    /\ dialog[f].form = "user"
    /\ Accepted(a, k)
    /\ IF InProgress(f, a) \/ entry[a] # Nothing
       THEN /\ dialog' = [dialog EXCEPT ![f] = Idle]
            /\ UNCHANGED <<heard, entry, loaded, starting, reloads, unheeded>>
       ELSE CreateEntry(f, a, k)

--------------------------------------------------------------------------------
(* async_step_reconfigure, OptionsFlowHandler.async_step_init              *)

StartChange(f, a) ==
    /\ dialog[f] = Idle
    /\ entry[a] # Nothing
    /\ \E form \in {"reconfigure", "options"} :
           dialog' = [dialog EXCEPT ![f] = Dialog(form, a)]
    /\ UNCHANGED <<heard, entry, loaded, starting, reloads, unheeded>>

\* The update listener reloads the entry when it changed.  It is added at the
\* end of a set-up and removed by an unload.
ListenerReload(a, changed) == IF changed /\ loaded[a] # Nothing THEN 1 ELSE 0

\* async_update_reload_and_abort schedules a reload of its own, changed or not.
SubmitReconfigure(f, a, k) ==
    /\ dialog[f] = Dialog("reconfigure", a)
    /\ Accepted(a, k)
    /\ entry' = [entry EXCEPT ![a].key = k]
    /\ reloads' = [reloads EXCEPT ![a] = @ + 1 + ListenerReload(a, k # entry[a].key)]
    /\ reloads'[a] <= MaxReloads
    /\ dialog' = [dialog EXCEPT ![f] = Idle]
    /\ UNCHANGED <<heard, loaded, starting, unheeded>>

\* Seeded bug: saving the options leaves the coordinator as it is.
BugSubmitOptions(f, a, o) ==
    /\ dialog[f] = Dialog("options", a)
    /\ o \in MinThrottle..MaxThrottle
    /\ entry' = [entry EXCEPT ![a].option = o]
    /\ dialog' = [dialog EXCEPT ![f] = Idle]
    /\ UNCHANGED <<heard, loaded, starting, reloads, unheeded>>

\* The options rely on the listener alone.
SubmitOptions(f, a, o) ==
    /\ dialog[f] = Dialog("options", a)
    /\ o \in MinThrottle..MaxThrottle
    /\ entry' = [entry EXCEPT ![a].option = o]
    /\ reloads' = [reloads EXCEPT ![a] = @ + ListenerReload(a, o # entry[a].option)]
    /\ reloads'[a] <= MaxReloads
    /\ dialog' = [dialog EXCEPT ![f] = Idle]
    /\ unheeded' = IF o # entry[a].option /\ starting[a] # Nothing
                     THEN unheeded \cup {a} ELSE unheeded
    /\ UNCHANGED <<heard, loaded, starting>>

\* The user closes the form.
Cancel(f) ==
    /\ dialog[f] # Idle
    /\ dialog' = [dialog EXCEPT ![f] = Idle]
    /\ UNCHANGED <<heard, entry, loaded, starting, reloads, unheeded>>

--------------------------------------------------------------------------------
(* Home Assistant                                                          *)

\* A scheduled set-up or reload, once the old coordinator is unloaded: key and
\* option are read before the checkpoint is loaded and the platforms set up.
BeginSetUp(a) ==
    /\ reloads[a] > 0 /\ starting[a] = Nothing
    /\ reloads' = [reloads EXCEPT ![a] = @ - 1]
    /\ starting' = [starting EXCEPT ![a] = Coordinator(entry[a])]
    /\ loaded' = [loaded EXCEPT ![a] = Nothing]
    /\ unheeded' = unheeded \ {a}
    /\ UNCHANGED <<heard, entry, dialog>>

EndSetUp(a) ==
    /\ starting[a] # Nothing
    /\ loaded' = [loaded EXCEPT ![a] = starting[a]]
    /\ starting' = [starting EXCEPT ![a] = Nothing]
    /\ UNCHANGED <<heard, entry, reloads, dialog, unheeded>>

\* The entry is removed, after a set-up that is on its way: unloaded, and its
\* reloads and dialogues find it gone.
Remove(a) ==
    /\ entry[a] # Nothing /\ starting[a] = Nothing
    /\ entry' = [entry EXCEPT ![a] = Nothing]
    /\ loaded' = [loaded EXCEPT ![a] = Nothing]
    /\ reloads' = [reloads EXCEPT ![a] = 0]
    /\ dialog' = [g \in Flow |->
           IF dialog[g].form # "user" /\ dialog[g].about = a THEN Idle ELSE dialog[g]]
    /\ unheeded' = unheeded \ {a}
    /\ UNCHANGED <<heard, starting>>

\* The device is heard, with the byte of whatever key it has now, or forgotten.
Hear(a, h) ==
    /\ heard[a] # h
    /\ heard' = [heard EXCEPT ![a] = h]
    /\ UNCHANGED <<entry, loaded, starting, reloads, dialog, unheeded>>

Entries == [key : Key, option : Option \cup {Unset}]

\* Home Assistant starts: the stored entries wait to be set up.
Init ==
    /\ heard = [a \in Address |-> Nothing]
    /\ entry \in [Address -> Entries \cup {Nothing}]
    /\ loaded = [a \in Address |-> Nothing]
    /\ starting = [a \in Address |-> Nothing]
    /\ reloads = [a \in Address |-> IF entry[a] = Nothing THEN 0 ELSE 1]
    /\ dialog = [f \in Flow |-> Idle]
    /\ unheeded = {}

Next ==
    \/ \E f \in Flow : StartUser(f) \/ Cancel(f)
    \/ \E f \in Flow, a \in Address : Discover(f, a) \/ StartChange(f, a)
    \/ \E f \in Flow, a \in Address, k \in Key \cup {Malformed} :
           SubmitUser(f, a, k) \/ SubmitReconfigure(f, a, k)
    \/ \E f \in Flow, a \in Address, o \in Option : SubmitOptions(f, a, o)
    \/ \E a \in Address : BeginSetUp(a) \/ EndSetUp(a) \/ Remove(a)
    \/ \E a \in Address, h \in Byte \cup {Nothing} : Hear(a, h)

Spec == Init /\ [][Next]_vars

--------------------------------------------------------------------------------
(* Properties                                                              *)

Coordinators == [key : Key, throttle : {n \in Nat : n >= MinThrottle}]

TypeOK ==
    /\ heard \in [Address -> Byte \cup {Nothing}]
    /\ entry \in [Address -> Entries \cup {Nothing}]
    /\ loaded \in [Address -> Coordinators \cup {Nothing}]
    /\ starting \in [Address -> Coordinators \cup {Nothing}]
    /\ reloads \in [Address -> 0..MaxReloads]
    /\ dialog \in [Flow -> [form : {"none", "user", "reconfigure", "options"},
                            about : Address \cup {Nothing}]]
    /\ unheeded \subseteq Address

\* No dialogue leaves an entry with a key that the last advertisement of the entry's
\* own device refutes, if only by the key-check byte: not for another address than
\* the one discovered, and not after the device was paired again while the form was
\* open.  That another wrong key passes is how the check is meant (config_flow.py:78).
RefutedKeysAreNotSaved ==
    [][\A a \in Address :
          /\ entry'[a] # Nothing
          /\ entry[a] = Nothing \/ entry[a].key # entry'[a].key
          /\ heard[a] \in Byte
          => CheckByte[entry'[a].key] = heard[a]]_vars

\* Of several dialogues about one device only one sets it up: an entry's key and
\* options are changed by reconfiguring it and never by a second setup.
SetupNeverReplacesAnEntry ==
    [][\A f \in Flow, a \in Address :
          dialog[f].form = "user" /\ dialog'[f] = Idle /\ entry[a] # Nothing
              => entry'[a] = entry[a]]_vars

Settled(a) == reloads[a] = 0 /\ starting[a] = Nothing

\* Once no reload is pending the coordinators run with the keys configured,
\* whatever was submitted while they reloaded, and with the throttle intervals
\* configured unless an option was saved during the set-up.
CoordinatorsFollowEntries ==
    \A a \in Address : Settled(a) =>
        /\ a \notin unheeded => loaded[a] = Coordinator(entry[a])
        /\ entry[a] # Nothing => loaded[a].key = entry[a].key

\* __init__.py:241: "Reload the entry when its options change."
OptionsTakeEffect ==
    \A a \in Address : Settled(a) => loaded[a] = Coordinator(entry[a])
================================================================================
