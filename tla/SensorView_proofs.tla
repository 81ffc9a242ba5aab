------------------------- MODULE SensorView_proofs --------------------------
(***************************************************************************)
(* Theorems of SensorView and of the buttons in it, for any number of      *)
(* buttons and modes, any buffer and any width of the reference counts.    *)
(***************************************************************************)
EXTENDS SensorView, Button_proofs

\* One sensor is required, or none.
Only(s) == ref = [t \in Sensors |-> IF t = s THEN 1 ELSE 0]
NoneRequired == ref = [t \in Sensors |-> 0]

\* What the view's thread holds at each place, where no key comes while it switches.
HoldsAt ==
  /\ ui = "menu" => pc = "none"
  /\ pc \in {"none", "start", "gone"} => listed = {} /\ NoneRequired
  /\ pc = "require" => listed = {old_mode} /\ kind = old_mode /\ old_mode = MODE_ACC /\ NoneRequired
  /\ pc \in {"compare", "pick", "receive", "end"} =>
       listed = {old_mode} /\ kind = old_mode /\ Only(old_mode)
  /\ pc = "register" => listed = {} /\ picked = mode /\ Only(picked)
  /\ pc = "remember" => listed = {picked} /\ kind = picked /\ picked = mode /\ Only(picked)
  /\ pc = "leave" => listed = {old_mode} /\ NoneRequired

HoldsInv == TypeOK /\ HoldsAt

-----------------------------------------------------------------------------
(* Types.                                                                  *)

\* The mode the view starts with is one.
LEMMA ACCIsSensor == MODE_ACC \in Sensors
  BY ViewAssumption DEF MODE_ACC, Sensors

\* So is every one an arrow leads to.
LEMMA ModeIsSensor ==
  ASSUME NEW i \in 1 .. Len(Modes)
  PROVE  Modes[i] \in Sensors
  BY DEF Sensors

\* Counts stay counts.
LEMMA Counts ==
  ASSUME NEW n \in Nat
  PROVE  n % RefMod \in 0 .. RefMod - 1
  BY ViewAssumption

\* The counts the view needs: up from none, down to none, and both at once.
LEMMA Residues ==
  /\ (0 + 1) % RefMod = 1
  /\ (1 + RefMod - 1) % RefMod = 0
  /\ (0 + RefMod - 1) % RefMod = RefMod - 1
  /\ (0 + 0 + 0) % RefMod = 0
  /\ (0 + 1 + 0) % RefMod = 1
  /\ (1 + 0 + (RefMod - 1)) % RefMod = 0
  /\ (1 + 1 + (RefMod - 1)) % RefMod = 1
  BY ViewAssumption

\* Every step of the system is one of the buttons', or takes at most an event from them.
LEMMA ButtonPart ==
  ASSUME [Next]_vars
  PROVE  \/ ButtonNext
         \/ events' \subseteq events /\ UNCHANGED <<pin, state, channels, armed, looked, boot, due, missed>>
<1> USE DEF buttonVars, channels
<1>1. CASE UIThread
  BY <1>1 DEF UIThread, exec, arrow, menu, select, joined, Takes
<1>2. CASE thread_action
  BY <1>2 DEF thread_action
<1>3. CASE \E s \in Sensors : put(s)
  BY <1>3 DEF put
<1>4. CASE UNCHANGED vars
  BY <1>4 DEF vars
<1> QED
  BY <1>1, <1>2, <1>3, <1>4 DEF Next

\* The variables of the buttons keep their types in every step of the system.
LEMMA ButtonTypes ==
  ASSUME ButtonTypeOK, [Next]_vars
  PROVE  ButtonTypeOK'
  BY ButtonPart, ButtonTypeStep DEF ButtonTypeOK, channels

\* The view's own variables.
ViewTypes ==
  /\ ui \in {"menu", "loop", "joining"} /\ terminate \in BOOLEAN
  /\ {mode, old_mode, picked, kind} \subseteq Sensors
  /\ pc \in Places
  /\ listed \subseteq Sensors /\ cnt \in 0 .. buffer_len
  /\ ref \in [Sensors -> 0 .. RefMod - 1]

\* The steps of the UI thread keep the types.
LEMMA ViewTypesUI ==
  ASSUME ViewTypes, UIThread
  PROVE  ViewTypes'
<1> USE DEF ViewTypes, Places, view, thread
<1>1. CASE exec
  BY <1>1 DEF exec
<1>2. CASE arrow
  BY <1>2, ModeIsSensor DEF arrow
<1>3. CASE menu \/ joined
  BY <1>3 DEF menu, joined
<1>4. CASE select
  BY <1>4 DEF select
<1> QED
  BY <1>1, <1>2, <1>3, <1>4 DEF UIThread

\* Requiring and giving back leave the counts of the other sensors as they are.
LEMMA ViewTypesThread ==
  ASSUME ViewTypes, thread_action
  PROVE  ViewTypes'
<1> USE DEF ViewTypes, Places, Goto
<1>0. buffer_len \in Nat /\ RefMod \in Nat
  BY ViewAssumption
<1>1. CASE start
  BY <1>0, <1>1, ACCIsSensor DEF thread_action, start, registered
<1>2. CASE require
  <2>1. ref' \in [Sensors -> 0 .. RefMod - 1]
    <3>1. \A s \in Sensors : ref[s] + 1 \in Nat
      BY <1>0
    <3>2. \A s \in Sensors : (ref[s] + 1) % RefMod \in 0 .. RefMod - 1
      BY <3>1, Counts
    <3> HIDE DEF Places
    <3> QED
      BY <1>2, <3>2, ACCIsSensor DEF require, require_sources
  <2> QED
    BY <1>2, <2>1 DEF thread_action, require
<1>3. CASE compare
  BY <1>3 DEF thread_action, compare
<1>4. CASE pick
  <2>1. ref' \in [Sensors -> 0 .. RefMod - 1]
    BY <1>0, <1>4, Counts DEF pick
  <2> QED
    BY <1>0, <1>4, <2>1 DEF thread_action, pick, unregister_queue
<1>5. CASE register
  BY <1>0, <1>5 DEF thread_action, register, registered
<1>6. CASE remember
  BY <1>6 DEF thread_action, remember
<1>7. CASE receive_to
  BY <1>0, <1>7 DEF thread_action, receive_to
<1>8. CASE end
  <2>1. ref' \in [Sensors -> 0 .. RefMod - 1]
    <3>1. \A s \in Sensors : ref[s] + RefMod - 1 \in Nat
      BY <1>0, ViewAssumption
    <3> QED
      BY <1>8, <3>1, Counts DEF end, norequire_sources
  <2> QED
    BY <1>8, <2>1 DEF thread_action, end
<1>9. CASE leave
  BY <1>0, <1>9 DEF thread_action, leave, unregister_queue
<1> QED
  BY <1>1, <1>2, <1>3, <1>4, <1>5, <1>6, <1>7, <1>8, <1>9 DEF thread_action

\* So does every other step.
LEMMA ViewTypesStep ==
  ASSUME ViewTypes, [Next]_vars
  PROVE  ViewTypes'
<1>1. ASSUME NEW s \in Sensors, put(s)
      PROVE  ViewTypes'
  BY <1>1, ViewAssumption DEF ViewTypes, put, thread
<1>2. CASE UNCHANGED view
  BY <1>2 DEF ViewTypes, view, thread
<1> QED
  BY <1>1, <1>2, ViewTypesUI, ViewTypesThread DEF Next, vars

\* Every variable keeps its type: no reference count or buffer leaves its range.
THEOREM TypeCorrect == Spec => []TypeOK
<1>1. Init => TypeOK
  <2>1. Init => ViewTypes
    <3>1. 0 \in 0 .. buffer_len /\ 0 \in 0 .. RefMod - 1
      BY ViewAssumption
    <3>2. Init => terminate \in BOOLEAN
      BY DEF Init
    <3> QED
      BY <3>1, <3>2, ACCIsSensor DEF Init, ViewTypes, Places
  <2>2. Init => ButtonTypeOK
    BY KnowsAtFirst DEF Init, KnowsInv
  <2> QED
    BY <2>1, <2>2 DEF TypeOK, ViewTypes
<1>2. TypeOK /\ [Next]_vars => TypeOK'
  BY ViewTypesStep, ButtonTypes DEF TypeOK, ViewTypes
<1> QED
  BY <1>1, <1>2, PTL DEF Spec

-----------------------------------------------------------------------------
(* What the view holds.                                                    *)

\* At first there is no thread, and it holds nothing.
LEMMA HoldsAtFirst == Init => HoldsAt
  BY DEF Init, HoldsAt, NoneRequired

\* A step of another thread keeps what the view holds, if it keeps mode as well, or the
\* view's thread is not switching.
LEMMA HoldsElsewhere ==
  ASSUME HoldsAt, UNCHANGED <<thread, ui>>, mode' = mode \/ ~ Switching
  PROVE  HoldsAt'
<1> USE DEF HoldsAt, thread, Only, NoneRequired
<1>1. CASE mode' = mode
  BY <1>1
<1>2. CASE ~ Switching
  BY <1>2 DEF Switching
<1> QED
  BY <1>1, <1>2

\* The UI thread starts the view once, and changes mode only outside the switch.
LEMMA HoldsUI ==
  ASSUME KeyInSwitch = FALSE, HoldsInv, UIThread
  PROVE  HoldsAt'
<1>1. CASE exec
  BY <1>1 DEF exec, HoldsInv, HoldsAt, Only, NoneRequired
<1>2. CASE arrow
  BY <1>2, HoldsElsewhere DEF arrow, HoldsInv
<1>3. CASE menu
  BY <1>3, HoldsElsewhere DEF menu, view, HoldsInv
<1>4. CASE select \/ joined
  BY <1>4 DEF select, joined, thread, HoldsInv, HoldsAt, Only, NoneRequired
<1> QED
  BY <1>1, <1>2, <1>3, <1>4 DEF UIThread

\* The reference counts after the switch are those of the sensor that is picked.
LEMMA OnlyAfterPick ==
  ASSUME HoldsInv, pick
  PROVE  Only(picked)'
<1> DEFINE n(s) == IF s = old_mode THEN 1 ELSE 0
           up(s) == IF s = mode THEN 1 ELSE 0
           down(s) == IF s = old_mode THEN RefMod - 1 ELSE 0
<1>1. ref = [s \in Sensors |-> n(s)]
  BY DEF HoldsInv, HoldsAt, Only, pick, Goto
<1>2. ref' = [s \in Sensors |-> (ref[s] + up(s) + down(s)) % RefMod]
  BY DEF pick
<1>3. ASSUME NEW s \in Sensors
      PROVE  (ref[s] + up(s) + down(s)) % RefMod = up(s)
  <2>1. ref[s] = n(s)
    BY <1>1
  <2>2. CASE s = old_mode
    BY <2>1, <2>2, Residues
  <2>3. CASE s # old_mode
    BY <2>1, <2>3, Residues
  <2> QED
    BY <2>2, <2>3
<1>4. ref' = [s \in Sensors |-> up(s)]
  BY <1>2, <1>3
<1> QED
  BY <1>4 DEF Only, pick

\* Each step of the thread leads from what it holds at one place to what it holds at the next.
LEMMA HoldsThread ==
  ASSUME HoldsInv, thread_action
  PROVE  HoldsAt'
<1> USE DEF HoldsInv, HoldsAt, Goto
<1>0. UNCHANGED <<ui, mode>> /\ (ui = "menu" => pc = "none")
  BY DEF thread_action
<1>1. CASE start
  BY <1>0, <1>1 DEF start, registered, NoneRequired
<1>2. CASE require
  <2>1. ref' = [ref EXCEPT ![MODE_ACC] = 1]
    BY <1>2, Residues, ACCIsSensor DEF require, require_sources, NoneRequired
  <2>2. Only(MODE_ACC)'
    BY <1>2, <2>1, ACCIsSensor DEF require, NoneRequired, Only
  <2> QED
    BY <1>0, <1>2, <2>2 DEF require, Only
<1>3. CASE compare
  BY <1>0, <1>3 DEF compare, Only, NoneRequired
<1>4. CASE pick
  BY <1>0, <1>4, OnlyAfterPick DEF pick, unregister_queue
<1>5. CASE register
  BY <1>0, <1>5 DEF register, registered, Only
<1>6. CASE remember
  BY <1>0, <1>6 DEF remember, Only
<1>7. CASE receive_to
  BY <1>0, <1>7 DEF receive_to, Only
<1>8. CASE end
  <2>1. old_mode \in Sensors
    BY DEF TypeOK
  <2>2. ref' = [ref EXCEPT ![old_mode] = 0]
    BY <1>8, <2>1, Residues DEF end, norequire_sources, Only
  <2>3. NoneRequired'
    BY <1>8, <2>2 DEF end, NoneRequired, Only
  <2> QED
    BY <1>0, <1>8, <2>3 DEF end
<1>9. CASE leave
  BY <1>0, <1>9 DEF leave, unregister_queue, NoneRequired
<1> QED
  BY <1>1, <1>2, <1>3, <1>4, <1>5, <1>6, <1>7, <1>8, <1>9 DEF thread_action

\* Samples and the buttons change nothing of it.
LEMMA HoldsStep ==
  ASSUME KeyInSwitch = FALSE, HoldsInv, [Next]_vars
  PROVE  HoldsAt'
<1>1. ASSUME NEW s \in Sensors, put(s)
      PROVE  HoldsAt'
  BY <1>1, HoldsElsewhere DEF put, HoldsInv
<1>2. CASE UNCHANGED view
  BY <1>2, HoldsElsewhere DEF view, HoldsInv
<1> QED
  BY <1>1, <1>2, HoldsUI, HoldsThread DEF Next, vars

\* Where no key comes while the thread changes the sensor, the view requires and listens
\* to the sensor it shows and no other, and leaves nothing behind.
THEOREM Holds ==
  ASSUME KeyInSwitch = FALSE
  PROVE  Spec => []HoldsWhatItShows
<1>1. Init => HoldsAt
  BY HoldsAtFirst
<1>2. TypeOK /\ HoldsAt /\ [Next]_vars => HoldsAt'
  BY HoldsStep DEF HoldsInv
<1>3. HoldsAt => HoldsWhatItShows
  BY DEF HoldsAt, HoldsWhatItShows, Only, NoneRequired
<1> QED
  BY <1>1, <1>2, <1>3, TypeCorrect, PTL DEF Spec

\* "A count of the number of tasks that indicate that they require each sensor": without
\* keys in a switch, the fault of run view_race, no count of the view leaves 0 and 1.
THEOREM Tasks ==
  ASSUME KeyInSwitch = FALSE
  PROVE  Spec => []CountsTasks
<1>1. Init => HoldsAt
  BY HoldsAtFirst
<1>2. TypeOK /\ HoldsAt /\ [Next]_vars => HoldsAt'
  BY HoldsStep DEF HoldsInv
<1>3. TypeOK /\ HoldsAt => CountsTasks
  <2> SUFFICES ASSUME TypeOK, HoldsAt
               PROVE  NoneRequired \/ Only(old_mode) \/ Only(picked)
    BY DEF NoneRequired, Only, CountsTasks
  <2> QED
    BY DEF TypeOK, HoldsAt, Places
<1> QED
  BY <1>1, <1>2, <1>3, TypeCorrect, PTL DEF Spec

-----------------------------------------------------------------------------
(* The buttons of the view.                                                *)

\* A button that waits for an edge knows its pin, or has counted a missed edge, whether
\* the pins move before the handlers are set or not.
THEOREM Knows == Spec => []IdleKnowsPin
<1>1. Init => KnowsInv
  BY KnowsAtFirst DEF Init
<1>2. KnowsInv /\ [Next]_vars => KnowsInv'
  BY ButtonPart, KnowsStep, KnowsWithoutEvents
<1>3. KnowsInv => IdleKnowsPin
  BY DEF KnowsInv
<1> QED
  BY <1>1, <1>2, <1>3, PTL DEF Spec

\* What is known of the buttons in every state, where no pin moves before the handlers
\* are set.
THEOREM Debounced ==
  ASSUME BootPress = FALSE
  PROVE  Spec => []DebounceInv
<1>1. Init => DebounceInv
  BY DebounceAtFirst DEF Init
<1>2. DebounceInv /\ [Next]_vars => DebounceInv'
  BY ButtonPart, DebounceStep, DebounceWithoutEvents
<1> QED
  BY <1>1, <1>2, PTL DEF Spec

\* A button's timer is never set while it is in the kernel's list.
THEOREM Timer ==
  ASSUME BootPress = FALSE
  PROVE  Spec => []TimerNotReused
  BY Debounced, TimerFromInv, PTL

\* A key is reported only for a push of a button at rest, and once, unless an edge has
\* been missed.
THEOREM Reports ==
  ASSUME BootPress = FALSE
  PROVE  Spec => OneReportPerPush
<1>1. DebounceInv /\ [Next]_vars =>
        [\A b \in Buttons : b \in events' /\ b \notin events => b \in due \union missed]_buttonVars
  BY ButtonPart, ReportIsDue
<1> QED
  BY <1>1, Debounced, PTL DEF Spec, OneReportPerPush

=============================================================================
