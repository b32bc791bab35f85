---------------------------- MODULE ConfigFlowProofs ----------------------------
(***************************************************************************)
(* Entries, dialogues and coordinators agree, for any number of dialogues, *)
(* devices, keys and options.  That the coordinators follow the entries    *)
(* once nothing is scheduled is not inductive: it needs to be known at     *)
(* every moment which coordinator, running or being set up, an entry will  *)
(* be left with (EntryInv), and that a form is about an entry that exists  *)
(* (DialogInv).                                                            *)
(***************************************************************************)
EXTENDS ConfigFlow, TLAPS

\* The coordinator an entry is left with if no further reload comes.
Successor(a) == IF starting[a] # Nothing THEN starting[a] ELSE loaded[a]

Consistent(a) ==
    /\ starting[a] # Nothing => loaded[a] = Nothing
    /\ entry[a] = Nothing => loaded[a] = Nothing /\ starting[a] = Nothing /\ reloads[a] = 0
    /\ entry[a] # Nothing /\ reloads[a] = 0 =>
           /\ Successor(a) # Nothing
           /\ Successor(a).key = entry[a].key
           /\ a \notin unheeded => Successor(a) = Coordinator(entry[a])

EntryInv == \A a \in Address : Consistent(a)

DialogInv ==
    \A f \in Flow : dialog[f].form \in {"reconfigure", "options"} =>
        dialog[f].about \in Address /\ entry[dialog[f].about] # Nothing

IInv == TypeOK /\ DialogInv /\ EntryInv

--------------------------------------------------------------------------------
(* Entries and what is built from them                                     *)

LEMMA EntryFields ==
    ASSUME NEW e \in Entries
    PROVE  e # Nothing /\ e.key \in Key /\ e.option \in Option \cup {Unset}
BY NothingAssumption DEF Entries

LEMMA MakeEntry ==
    ASSUME NEW k \in Key, NEW o \in Option \cup {Unset}
    PROVE  [key |-> k, option |-> o] \in Entries
BY DEF Entries

LEMMA CoordinatorIsSomething == Nothing \notin Coordinators
BY NothingAssumption DEF Coordinators

\* A coordinator is built from every entry, with its key and an interval that
\* is at least the minimum.
LEMMA CoordinatorOf ==
    ASSUME NEW e \in Entries
    PROVE  /\ Coordinator(e) \in Coordinators
           /\ Coordinator(e) # Nothing
           /\ Coordinator(e).key = e.key
<1>1. e # Nothing /\ e.key \in Key /\ e.option \in Option \cup {Unset}
    BY EntryFields
<1>2. Throttle(e.option) \in {n \in Nat : n >= MinThrottle}
  <2> DEFINE o == e.option
  <2>1. CASE o = Unset
      BY <2>1, OptionAssumption DEF Throttle
  <2>2. CASE o \in Nat
    <3>1. Throttle(o) \in Nat /\ Throttle(o) >= MinThrottle
        BY <2>2, OptionAssumption DEF Throttle
    <3> QED
        BY <3>1
  <2> QED
      BY <1>1, <2>1, <2>2, OptionAssumption
<1>3. Coordinator(e) = [key |-> e.key, throttle |-> Throttle(e.option)]
    BY <1>1 DEF Coordinator
<1>4. Coordinator(e) \in Coordinators
    BY <1>1, <1>2, <1>3 DEF Coordinators
<1> QED
    BY <1>3, <1>4, CoordinatorIsSomething

\* An address nothing happens to stays consistent.
LEMMA Undisturbed ==
    ASSUME NEW a \in Address, Consistent(a),
           entry'[a] = entry[a], loaded'[a] = loaded[a], starting'[a] = starting[a],
           reloads'[a] = reloads[a], a \in unheeded' <=> a \in unheeded
    PROVE  Consistent(a)'
BY DEF Consistent, Successor

\* With a reload scheduled nothing more is asked of an entry.
LEMMA ReloadScheduled ==
    ASSUME NEW a \in Address, Consistent(a),
           entry'[a] # Nothing, loaded'[a] = loaded[a], starting'[a] = starting[a],
           reloads'[a] # 0
    PROVE  Consistent(a)'
BY DEF Consistent

--------------------------------------------------------------------------------
(* Initial states and steps                                                *)

LEMMA InitInv == ASSUME Init PROVE IInv
<1>1. TypeOK
  <2>1. \A a \in Address : reloads[a] \in 0..MaxReloads
      BY OptionAssumption DEF Init
  <2> QED
      BY <2>1 DEF Init, TypeOK, Idle
<1>2. DialogInv
    BY DEF Init, DialogInv, Idle
<1>3. EntryInv
    BY DEF Init, EntryInv, Consistent, Successor
<1> QED
    BY <1>1, <1>2, <1>3 DEF IInv

\* Steps of the dialogues that leave entries and coordinators alone.
LEMMA TalkKeepsInv ==
    ASSUME IInv, UNCHANGED <<entry, loaded, starting, reloads, unheeded>>,
           heard' \in [Address -> Byte \cup {Nothing}],
           dialog' \in [Flow -> [form : {"none", "user", "reconfigure", "options"},
                                 about : Address \cup {Nothing}]],
           \A f \in Flow :
               \/ dialog'[f] = dialog[f]
               \/ dialog'[f].form \in {"none", "user"}
               \/ dialog'[f].about \in Address /\ entry[dialog'[f].about] # Nothing
    PROVE  IInv'
<1>1. TypeOK'
    BY DEF IInv, TypeOK
<1>2. DialogInv'
    BY DEF IInv, DialogInv
<1>3. EntryInv'
    BY Undisturbed DEF IInv, EntryInv
<1> QED
    BY <1>1, <1>2, <1>3 DEF IInv

LEMMA CreateEntryKeepsInv ==
    ASSUME IInv, NEW f \in Flow, NEW a \in Address, NEW k \in Key,
           entry[a] = Nothing, CreateEntry(f, a, k)
    PROVE  IInv'
<1> DEFINE e == [key |-> k, option |-> Unset]
<1>1. e \in Entries /\ e # Nothing
    BY MakeEntry, EntryFields
<1>2. /\ entry' = [entry EXCEPT ![a] = e]
      /\ reloads' = [reloads EXCEPT ![a] = 1]
      /\ dialog' = EndOthers(f, a)
      /\ UNCHANGED <<heard, loaded, starting, unheeded>>
    BY DEF CreateEntry
<1>3. TypeOK'
  <2>1. entry' \in [Address -> Entries \cup {Nothing}]
      BY <1>1, <1>2 DEF IInv, TypeOK
  <2>2. reloads' \in [Address -> 0..MaxReloads]
      BY <1>2, OptionAssumption DEF IInv, TypeOK
  <2>3. dialog' \in [Flow -> [form : {"none", "user", "reconfigure", "options"},
                             about : Address \cup {Nothing}]]
      BY <1>2 DEF IInv, TypeOK, EndOthers, Idle
  <2> QED
      BY <1>2, <2>1, <2>2, <2>3 DEF IInv, TypeOK
<1>4. DialogInv'
  <2>1. ASSUME NEW g \in Flow, dialog'[g].form \in {"reconfigure", "options"}
        PROVE  dialog'[g].about \in Address /\ entry'[dialog'[g].about] # Nothing
    <3>1. dialog'[g] = dialog[g]
        BY <1>2, <2>1 DEF EndOthers, Idle
    <3>2. dialog[g].about \in Address /\ entry[dialog[g].about] # Nothing
        BY <2>1, <3>1 DEF IInv, DialogInv
    <3> QED
        BY <1>1, <1>2, <3>1, <3>2 DEF IInv, TypeOK
  <2> QED
      BY <2>1 DEF DialogInv
<1>5. EntryInv'
  <2>1. ASSUME NEW b \in Address PROVE Consistent(b)'
    <3>1. Consistent(b)
        BY DEF IInv, EntryInv
    <3>2. CASE b = a
      <4>1. entry'[b] # Nothing /\ reloads'[b] # 0
          BY <1>1, <1>2, <3>2 DEF IInv, TypeOK
      <4> QED
          BY <1>2, <3>1, <4>1, ReloadScheduled
    <3>3. CASE b # a
      <4>1. entry'[b] = entry[b] /\ reloads'[b] = reloads[b]
          BY <1>2, <3>3 DEF IInv, TypeOK
      <4> QED
          BY <1>2, <3>1, <4>1, Undisturbed
    <3> QED
        BY <3>2, <3>3
  <2> QED
      BY <2>1 DEF EntryInv
<1> QED
    BY <1>3, <1>4, <1>5 DEF IInv

\* A form is about an entry, of the type entries have.
LEMMA FormIsAboutEntry ==
    ASSUME IInv, NEW f \in Flow, NEW a \in Address,
           NEW form \in {"reconfigure", "options"}, dialog[f] = Dialog(form, a)
    PROVE  entry[a] \in Entries /\ entry[a] # Nothing
<1>1. dialog[f].form = form /\ dialog[f].about = a
    BY DEF Dialog
<1> QED
    BY <1>1 DEF IInv, DialogInv, TypeOK

\* A submission that replaces one entry and ends its dialogue.
LEMMA ChangeKeepsInv ==
    ASSUME IInv, NEW f \in Flow, NEW a \in Address, NEW e \in Entries,
           entry[a] # Nothing,
           entry' = [entry EXCEPT ![a] = e],
           NEW n \in Nat, reloads' = [reloads EXCEPT ![a] = n], n <= MaxReloads,
           dialog' = [dialog EXCEPT ![f] = Idle],
           unheeded' \subseteq Address,
           \A b \in Address \ {a} : b \in unheeded' <=> b \in unheeded,
           UNCHANGED <<heard, loaded, starting>>,
           Consistent(a)'
    PROVE  IInv'
<1>1. e # Nothing
    BY EntryFields
<1>2. TypeOK'
  <2>1. n \in 0..MaxReloads
      BY OptionAssumption
  <2> QED
      BY <2>1 DEF IInv, TypeOK, Idle
<1>3. DialogInv'
  <2>1. ASSUME NEW g \in Flow, dialog'[g].form \in {"reconfigure", "options"}
        PROVE  dialog'[g].about \in Address /\ entry'[dialog'[g].about] # Nothing
    <3>1. dialog'[g] = dialog[g]
        BY <2>1 DEF IInv, TypeOK, Idle
    <3>2. dialog[g].about \in Address /\ entry[dialog[g].about] # Nothing
        BY <2>1, <3>1 DEF IInv, DialogInv
    <3> QED
        BY <1>1, <3>1, <3>2 DEF IInv, TypeOK
  <2> QED
      BY <2>1 DEF DialogInv
<1>4. EntryInv'
  <2>1. ASSUME NEW b \in Address, b # a PROVE Consistent(b)'
    <3>1. Consistent(b)
        BY DEF IInv, EntryInv
    <3>2. entry'[b] = entry[b] /\ reloads'[b] = reloads[b]
        BY <2>1 DEF IInv, TypeOK
    <3>3. b \in unheeded' <=> b \in unheeded
        BY <2>1
    <3> QED
        BY <3>1, <3>2, <3>3, Undisturbed
  <2> QED
      BY <2>1 DEF EntryInv
<1> QED
    BY <1>2, <1>3, <1>4 DEF IInv

LEMMA ListenerReloadType ==
    ASSUME NEW a, NEW changed \in BOOLEAN
    PROVE  /\ ListenerReload(a, changed) \in Nat
           /\ changed /\ loaded[a] # Nothing => ListenerReload(a, changed) = 1
           /\ ~(changed /\ loaded[a] # Nothing) => ListenerReload(a, changed) = 0
BY DEF ListenerReload

LEMMA SubmitReconfigureKeepsInv ==
    ASSUME IInv, NEW f \in Flow, NEW a \in Address, NEW k \in Key \cup {Malformed},
           SubmitReconfigure(f, a, k)
    PROVE  IInv'
<1> DEFINE e == [entry[a] EXCEPT !.key = k]
           n == reloads[a] + 1 + ListenerReload(a, k # entry[a].key)
<1>1. entry[a] \in Entries /\ entry[a] # Nothing
    BY FormIsAboutEntry DEF SubmitReconfigure
<1>2. k \in Key
    BY DEF SubmitReconfigure, Accepted, ValidKey
<1>3. e \in Entries /\ e # Nothing
  <2>1. e \in Entries
      BY <1>1, <1>2 DEF Entries
  <2> QED
      BY <2>1, EntryFields
<1>4. entry' = [entry EXCEPT ![a] = e]
    BY DEF SubmitReconfigure
<1>5. reloads' = [reloads EXCEPT ![a] = n] /\ reloads'[a] <= MaxReloads
    BY DEF SubmitReconfigure
<1>6. n \in Nat /\ n # 0
  <2>1. reloads[a] \in Nat /\ (k # entry[a].key) \in BOOLEAN
      BY DEF IInv, TypeOK
  <2>2. ListenerReload(a, k # entry[a].key) \in Nat
      BY <2>1, ListenerReloadType
  <2> QED
      BY <2>1, <2>2
<1>7. reloads'[a] = n /\ entry'[a] = e
    BY <1>4, <1>5 DEF IInv, TypeOK
<1>8. dialog' = [dialog EXCEPT ![f] = Idle] /\ UNCHANGED <<heard, loaded, starting, unheeded>>
    BY DEF SubmitReconfigure
<1>9. Consistent(a)'
    BY <1>3, <1>6, <1>7, <1>8, ReloadScheduled DEF IInv, EntryInv
<1>10. unheeded' \subseteq Address /\ n <= MaxReloads
    BY <1>5, <1>7, <1>8 DEF IInv, TypeOK
<1> HIDE DEF e, n
<1> QED
    BY <1>1, <1>3, <1>4, <1>5, <1>6, <1>8, <1>9, <1>10, ChangeKeepsInv

LEMMA SubmitOptionsKeepsInv ==
    ASSUME IInv, NEW f \in Flow, NEW a \in Address, NEW o \in Option, SubmitOptions(f, a, o)
    PROVE  IInv'
<1> DEFINE e == [entry[a] EXCEPT !.option = o]
           changed == o # entry[a].option
           n == reloads[a] + ListenerReload(a, changed)
<1>1. entry[a] \in Entries /\ entry[a] # Nothing
    BY FormIsAboutEntry DEF SubmitOptions
<1>2. e \in Entries /\ e # Nothing /\ e.key = entry[a].key /\ (~changed => e = entry[a])
  <2>1. e \in Entries /\ e.key = entry[a].key /\ (~changed => e = entry[a])
      BY <1>1 DEF Entries
  <2> QED
      BY <2>1, EntryFields
<1>3. entry' = [entry EXCEPT ![a] = e]
    BY DEF SubmitOptions
<1>4. reloads' = [reloads EXCEPT ![a] = n] /\ reloads'[a] <= MaxReloads
    BY DEF SubmitOptions
<1>5. reloads[a] \in Nat
    BY DEF IInv, TypeOK
<1>6. /\ n \in Nat
      /\ changed /\ loaded[a] # Nothing => n # 0
      /\ ~(changed /\ loaded[a] # Nothing) => n = reloads[a]
  <2>1. changed \in BOOLEAN
      OBVIOUS
  <2> HIDE DEF changed
  <2> QED
      BY <1>5, <2>1, ListenerReloadType
<1>7. reloads'[a] = n /\ entry'[a] = e
    BY <1>3, <1>4 DEF IInv, TypeOK
<1>8. dialog' = [dialog EXCEPT ![f] = Idle] /\ UNCHANGED <<heard, loaded, starting>>
    BY DEF SubmitOptions
<1>9. unheeded' = IF changed /\ starting[a] # Nothing THEN unheeded \cup {a} ELSE unheeded
    BY DEF SubmitOptions
<1>10. unheeded' \subseteq Address /\ \A b \in Address \ {a} : b \in unheeded' <=> b \in unheeded
    BY <1>9 DEF IInv, TypeOK
<1>11. Consistent(a)'
  <2> HIDE DEF e, n, changed
  <2>1. Consistent(a)
      BY DEF IInv, EntryInv
  <2>2. CASE reloads'[a] # 0
      BY <1>2, <1>7, <1>8, <2>1, <2>2, ReloadScheduled
  <2>3. CASE reloads'[a] = 0 /\ ~changed
    <3>1. entry'[a] = entry[a] /\ reloads'[a] = reloads[a] /\ unheeded' = unheeded
        BY <1>2, <1>6, <1>7, <1>9, <2>3
    <3> QED
        BY <1>8, <2>1, <3>1, Undisturbed
  <2>4. CASE reloads'[a] = 0 /\ changed
    <3>1. loaded[a] = Nothing /\ reloads[a] = 0
        BY <1>6, <1>7, <2>4
    <3>2. starting[a] # Nothing /\ starting[a].key = entry[a].key
        BY <1>1, <2>1, <3>1 DEF Consistent, Successor
    <3>3. a \in unheeded'
        BY <1>9, <2>4, <3>2
    <3> QED
        BY <1>2, <1>7, <1>8, <3>1, <3>2, <3>3 DEF Consistent, Successor
  <2> QED
      BY <2>2, <2>3, <2>4
<1>12. n <= MaxReloads
    BY <1>4, <1>7
<1> HIDE DEF e, n, changed
<1> QED
    BY <1>1, <1>2, <1>3, <1>4, <1>6, <1>8, <1>10, <1>11, <1>12, ChangeKeepsInv

LEMMA BeginSetUpKeepsInv ==
    ASSUME IInv, NEW a \in Address, BeginSetUp(a)
    PROVE  IInv'
<1> DEFINE c == Coordinator(entry[a])
<1>1. Consistent(a) /\ reloads[a] \in 0..MaxReloads /\ reloads[a] > 0
    BY DEF IInv, EntryInv, TypeOK, BeginSetUp
<1>2. entry[a] \in Entries /\ entry[a] # Nothing
    BY <1>1 DEF IInv, TypeOK, Consistent
<1>3. c \in Coordinators /\ c # Nothing /\ c.key = entry[a].key
    BY <1>2, CoordinatorOf
<1>4. /\ reloads' = [reloads EXCEPT ![a] = reloads[a] - 1]
      /\ starting' = [starting EXCEPT ![a] = c]
      /\ loaded' = [loaded EXCEPT ![a] = Nothing]
      /\ unheeded' = unheeded \ {a}
      /\ UNCHANGED <<heard, entry, dialog>>
    BY DEF BeginSetUp
<1> HIDE DEF c
<1>5. TypeOK'
  <2>1. reloads[a] - 1 \in 0..MaxReloads
      BY <1>1, OptionAssumption
  <2> QED
      BY <1>3, <1>4, <2>1 DEF IInv, TypeOK
<1>6. DialogInv'
    BY <1>4 DEF IInv, DialogInv
<1>7. EntryInv'
  <2>1. ASSUME NEW b \in Address PROVE Consistent(b)'
    <3>1. CASE b = a
      <4>1. starting'[b] = c /\ loaded'[b] = Nothing /\ entry'[b] = entry[a]
          BY <1>4, <3>1 DEF IInv, TypeOK
      <4>2. c = Coordinator(entry[a])
          BY DEF c
      <4> QED
          BY <1>2, <1>3, <4>1, <4>2 DEF Consistent, Successor
    <3>2. CASE b # a
      <4>1. /\ entry'[b] = entry[b] /\ loaded'[b] = loaded[b] /\ starting'[b] = starting[b]
            /\ reloads'[b] = reloads[b] /\ (b \in unheeded' <=> b \in unheeded)
          BY <1>4, <3>2 DEF IInv, TypeOK
      <4>2. Consistent(b)
          BY DEF IInv, EntryInv
      <4> QED
          BY <4>1, <4>2, Undisturbed
    <3> QED
        BY <3>1, <3>2
  <2> QED
      BY <2>1 DEF EntryInv
<1> QED
    BY <1>5, <1>6, <1>7 DEF IInv

LEMMA EndSetUpKeepsInv ==
    ASSUME IInv, NEW a \in Address, EndSetUp(a)
    PROVE  IInv'
<1>1. /\ starting[a] # Nothing
      /\ loaded' = [loaded EXCEPT ![a] = starting[a]]
      /\ starting' = [starting EXCEPT ![a] = Nothing]
      /\ UNCHANGED <<heard, entry, reloads, dialog, unheeded>>
    BY DEF EndSetUp
<1>2. TypeOK'
    BY <1>1 DEF IInv, TypeOK
<1>3. DialogInv'
    BY <1>1 DEF IInv, DialogInv
<1>4. EntryInv'
  <2>1. ASSUME NEW b \in Address PROVE Consistent(b)'
    <3>1. Consistent(b)
        BY DEF IInv, EntryInv
    <3>2. CASE b = a
      <4>1. loaded'[b] = starting[b] /\ starting'[b] = Nothing
          BY <1>1, <3>2 DEF IInv, TypeOK
      <4> QED
          BY <1>1, <3>1, <3>2, <4>1 DEF Consistent, Successor
    <3>3. CASE b # a
      <4>1. loaded'[b] = loaded[b] /\ starting'[b] = starting[b]
          BY <1>1, <3>3 DEF IInv, TypeOK
      <4> QED
          BY <1>1, <3>1, <4>1, Undisturbed
    <3> QED
        BY <3>2, <3>3
  <2> QED
      BY <2>1 DEF EntryInv
<1> QED
    BY <1>2, <1>3, <1>4 DEF IInv

LEMMA RemoveKeepsInv ==
    ASSUME IInv, NEW a \in Address, Remove(a)
    PROVE  IInv'
<1>1. /\ starting[a] = Nothing
      /\ entry' = [entry EXCEPT ![a] = Nothing]
      /\ loaded' = [loaded EXCEPT ![a] = Nothing]
      /\ reloads' = [reloads EXCEPT ![a] = 0]
      /\ dialog' = [g \in Flow |->
             IF dialog[g].form # "user" /\ dialog[g].about = a THEN Idle ELSE dialog[g]]
      /\ unheeded' = unheeded \ {a}
      /\ UNCHANGED <<heard, starting>>
    BY DEF Remove
<1>2. TypeOK'
  <2>1. 0 \in 0..MaxReloads
      BY OptionAssumption
  <2> QED
      BY <1>1, <2>1 DEF IInv, TypeOK, Idle
<1>3. DialogInv'
  <2>1. ASSUME NEW g \in Flow, dialog'[g].form \in {"reconfigure", "options"}
        PROVE  dialog'[g].about \in Address /\ entry'[dialog'[g].about] # Nothing
    <3>1. dialog'[g] = dialog[g] /\ dialog[g].about # a
        BY <1>1, <2>1 DEF Idle
    <3>2. dialog[g].about \in Address /\ entry[dialog[g].about] # Nothing
        BY <2>1, <3>1 DEF IInv, DialogInv
    <3> QED
        BY <1>1, <3>1, <3>2 DEF IInv, TypeOK
  <2> QED
      BY <2>1 DEF DialogInv
<1>4. EntryInv'
  <2>1. ASSUME NEW b \in Address PROVE Consistent(b)'
    <3>1. CASE b = a
      <4>1. /\ entry'[b] = Nothing /\ loaded'[b] = Nothing /\ starting'[b] = Nothing
            /\ reloads'[b] = 0
          BY <1>1, <3>1 DEF IInv, TypeOK
      <4> QED
          BY <4>1 DEF Consistent
    <3>2. CASE b # a
      <4>1. /\ entry'[b] = entry[b] /\ loaded'[b] = loaded[b] /\ starting'[b] = starting[b]
            /\ reloads'[b] = reloads[b] /\ (b \in unheeded' <=> b \in unheeded)
          BY <1>1, <3>2 DEF IInv, TypeOK
      <4>2. Consistent(b)
          BY DEF IInv, EntryInv
      <4> QED
          BY <4>1, <4>2, Undisturbed
    <3> QED
        BY <3>1, <3>2
  <2> QED
      BY <2>1 DEF EntryInv
<1> QED
    BY <1>2, <1>3, <1>4 DEF IInv

--------------------------------------------------------------------------------
(* Every step keeps the invariant                                          *)

LEMMA NextInv == ASSUME IInv, Next PROVE IInv'
<1>1. ASSUME NEW f \in Flow, StartUser(f) \/ Cancel(f) PROVE IInv'
    BY <1>1, TalkKeepsInv DEF StartUser, Cancel, Dialog, Idle, IInv, TypeOK
<1>2. ASSUME NEW f \in Flow, NEW a \in Address, Discover(f, a) PROVE IInv'
    BY <1>2, TalkKeepsInv DEF Discover, Dialog, IInv, TypeOK
<1>3. ASSUME NEW f \in Flow, NEW a \in Address, StartChange(f, a) PROVE IInv'
  <2>1. PICK form \in {"reconfigure", "options"} :
            dialog' = [dialog EXCEPT ![f] = Dialog(form, a)]
      BY <1>3 DEF StartChange
  <2> QED
      BY <1>3, <2>1, TalkKeepsInv DEF StartChange, Dialog, IInv, TypeOK
<1>4. ASSUME NEW f \in Flow, NEW a \in Address, NEW k \in Key \cup {Malformed},
             SubmitUser(f, a, k)
      PROVE  IInv'
  <2>1. k \in Key
      BY <1>4 DEF SubmitUser, Accepted, ValidKey
  <2>2. CASE InProgress(f, a) \/ entry[a] # Nothing
      BY <1>4, <2>2, TalkKeepsInv DEF SubmitUser, Idle, IInv, TypeOK
  <2>3. CASE ~(InProgress(f, a) \/ entry[a] # Nothing)
    <3>1. CreateEntry(f, a, k)
        BY <1>4, <2>3 DEF SubmitUser
    <3> QED
        BY <2>1, <2>3, <3>1, CreateEntryKeepsInv
  <2> QED
      BY <2>2, <2>3
<1>5. ASSUME NEW f \in Flow, NEW a \in Address, NEW k \in Key \cup {Malformed},
             SubmitReconfigure(f, a, k)
      PROVE  IInv'
    BY <1>5, SubmitReconfigureKeepsInv
<1>6. ASSUME NEW f \in Flow, NEW a \in Address, NEW o \in Option, SubmitOptions(f, a, o)
      PROVE  IInv'
    BY <1>6, SubmitOptionsKeepsInv
<1>7. ASSUME NEW a \in Address, BeginSetUp(a) \/ EndSetUp(a) \/ Remove(a) PROVE IInv'
    BY <1>7, BeginSetUpKeepsInv, EndSetUpKeepsInv, RemoveKeepsInv
<1>8. ASSUME NEW a \in Address, NEW h \in Byte \cup {Nothing}, Hear(a, h) PROVE IInv'
    BY <1>8, TalkKeepsInv DEF Hear, IInv, TypeOK
<1> QED
    BY <1>1, <1>2, <1>3, <1>4, <1>5, <1>6, <1>7, <1>8 DEF Next

LEMMA StutterInv == ASSUME IInv, UNCHANGED vars PROVE IInv'
BY DEF vars, IInv, TypeOK, DialogInv, EntryInv, Consistent, Successor

\* The invariant holds in every state of every behaviour.
THEOREM Invariance == Spec => []IInv
<1>1. Init => IInv
    BY InitInv
<1>2. IInv /\ [Next]_vars => IInv'
    BY NextInv, StutterInv
<1> QED
    BY <1>1, <1>2, PTL DEF Spec

--------------------------------------------------------------------------------
(* Theorems                                                                *)

\* Every variable of dialogues, entries and coordinators keeps its type: a
\* coordinator never runs with an interval below the minimum.
THEOREM TypeCorrect == Spec => []TypeOK
<1>1. IInv => TypeOK
    BY DEF IInv
<1> QED
    BY <1>1, Invariance, PTL

\* Once nothing is scheduled the coordinators run with what is configured,
\* except for an option saved during the set-up (config_flow.py:162,
\* __init__.py:222).
THEOREM CoordinatorsAgree == Spec => []CoordinatorsFollowEntries
<1>1. IInv => CoordinatorsFollowEntries
  <2> SUFFICES ASSUME IInv, NEW a \in Address, Settled(a)
               PROVE  /\ a \notin unheeded => loaded[a] = Coordinator(entry[a])
                      /\ entry[a] # Nothing => loaded[a].key = entry[a].key
      BY DEF CoordinatorsFollowEntries
  <2>1. Consistent(a) /\ reloads[a] = 0 /\ starting[a] = Nothing
      BY DEF IInv, EntryInv, Settled
  <2> QED
      BY <2>1 DEF Consistent, Successor, Coordinator
<1> QED
    BY <1>1, Invariance, PTL

\* No dialogue leaves an entry with a key that the key-check byte of its device's
\* last advertisement refutes, whatever bytes the keys have (config_flow.py:91).
THEOREM RefutedKeysStayOut == Spec => RefutedKeysAreNotSaved
<1> DEFINE Rejects ==
        \A a \in Address :
            /\ entry'[a] # Nothing
            /\ entry[a] = Nothing \/ entry[a].key # entry'[a].key
            /\ heard[a] \in Byte
            => CheckByte[entry'[a].key] = heard[a]
<1>1. IInv /\ [Next]_vars => Rejects
  <2> SUFFICES ASSUME IInv, [Next]_vars, NEW a \in Address,
                      entry'[a] # Nothing,
                      entry[a] = Nothing \/ entry[a].key # entry'[a].key,
                      heard[a] \in Byte
               PROVE  CheckByte[entry'[a].key] = heard[a]
      OBVIOUS
  <2>1. CASE entry' = entry
      BY <2>1
  <2>2. ASSUME NEW f \in Flow, NEW b \in Address, NEW k, SubmitUser(f, b, k), entry' # entry
        PROVE  CheckByte[entry'[a].key] = heard[a]
      BY <2>2 DEF SubmitUser, CreateEntry, Accepted, KeyCheck, IInv, TypeOK
  <2>3. ASSUME NEW f \in Flow, NEW b \in Address, NEW k, SubmitReconfigure(f, b, k)
        PROVE  CheckByte[entry'[a].key] = heard[a]
    <3>1. entry[b] \in Entries
        BY <2>3, FormIsAboutEntry DEF SubmitReconfigure
    <3> QED
        BY <2>3, <3>1 DEF SubmitReconfigure, Accepted, KeyCheck, IInv, TypeOK, Entries
  <2>4. ASSUME NEW f \in Flow, NEW b \in Address, NEW o, SubmitOptions(f, b, o)
        PROVE  CheckByte[entry'[a].key] = heard[a]
    <3>1. entry[b] \in Entries /\ entry[b] # Nothing
        BY <2>4, FormIsAboutEntry DEF SubmitOptions
    <3> QED
        BY <2>4, <3>1 DEF SubmitOptions, IInv, TypeOK, Entries
  <2>5. ASSUME NEW b \in Address, Remove(b) PROVE CheckByte[entry'[a].key] = heard[a]
      BY <2>5 DEF Remove, IInv, TypeOK
  <2> QED
      BY <2>1, <2>2, <2>3, <2>4, <2>5
      DEF Next, vars, StartUser, Cancel, Discover, StartChange, BeginSetUp, EndSetUp, Hear
<1> QED
    BY <1>1, Invariance, PTL DEF Spec, RefutedKeysAreNotSaved

\* A set-up dialogue leaves an entry that exists as it is, however many
\* dialogues are about its device (config_flow.py:123).
THEOREM SetupLeavesEntriesAlone == Spec => SetupNeverReplacesAnEntry
<1> DEFINE Leaves ==
        \A f \in Flow, a \in Address :
            dialog[f].form = "user" /\ dialog'[f] = Idle /\ entry[a] # Nothing
                => entry'[a] = entry[a]
<1>1. IInv /\ [Next]_vars => Leaves
  <2> SUFFICES ASSUME IInv, [Next]_vars, NEW f \in Flow, NEW a \in Address,
                      dialog[f].form = "user", dialog'[f] = Idle, entry[a] # Nothing
               PROVE  entry'[a] = entry[a]
      OBVIOUS
  <2>1. CASE entry' = entry
      BY <2>1
  <2>2. dialog'[f] # dialog[f]
      BY DEF Idle
  <2>3. ASSUME NEW g \in Flow, NEW b \in Address, NEW k, SubmitUser(g, b, k)
        PROVE  entry'[a] = entry[a]
      BY <2>3 DEF SubmitUser, CreateEntry, IInv, TypeOK
  <2>4. ASSUME NEW g \in Flow, NEW b \in Address, NEW k,
               SubmitReconfigure(g, b, k) \/ SubmitOptions(g, b, k)
        PROVE  FALSE
    <3>1. dialog[g].form # "user" /\ dialog' = [dialog EXCEPT ![g] = Idle]
        BY <2>4 DEF SubmitReconfigure, SubmitOptions, Dialog
    <3> QED
        BY <2>2, <3>1 DEF IInv, TypeOK
  <2>5. ASSUME NEW b \in Address, Remove(b) PROVE FALSE
      BY <2>2, <2>5 DEF Remove
  <2> QED
      BY <2>1, <2>3, <2>4, <2>5
      DEF Next, vars, StartUser, Cancel, Discover, StartChange, BeginSetUp, EndSetUp, Hear
<1> QED
    BY <1>1, Invariance, PTL DEF Spec, SetupNeverReplacesAnEntry
================================================================================
