------------------------- MODULE SensorLog_proofs ---------------------------
(***************************************************************************)
(* Theorems of SensorLog, for any number of entries, any sources and       *)
(* rates, with or without a flash that fails, and for any user.            *)
(***************************************************************************)
EXTENDS SensorLog, FiniteSetTheorems, TLAPS

\* The sources that are enabled.
Logged == enabled \intersect Sourced

\* The arrows do nothing while the screen shows a running log.
RunsOnRunScreen == log_state = "LOG_RUNNING" => current_index = num_sensors

\* Where there is no screen there is no log thread.
NoScreenNoThread == ui = "menu" => task = "none"

\* The places of a log that goes on.
Writing == {"opening", "counting", "describing", "registering", "top", "receive"}

\* A START that is alone is what the screen shows, and a log goes on under a screen that
\* shows it stopped only until the thread takes the STOP, unless it has dropped it.
StopComes ==
  /\ actions = {START} => log_state = "LOG_RUNNING"
  /\ task \in Writing /\ Undisturbed => log_state = "LOG_RUNNING"

\* What the log thread holds at each place.
HoldsAt ==
  /\ task \notin Registered => required = {}
  /\ task \in Registered => required = mask /\ mask \subseteq linked
  /\ task \in Resting \union {"opening"} => ~ file
  /\ task \notin Resting \union {"opening"} => file

\* A sensor that is not toggled under a log is logged as long as its listener is linked.
LinksAt ==
  task \in Registered => \A i \in Sourced \ toggled : i \in mask <=> i \in enabled

\* The header describes what is logged, and a row has what is due of it so far.
DescribesAt ==
  Undisturbed =>
    /\ task \in {"describing", "registering", "top", "receive"} => header.count = Cardinality(enabled)
    /\ task \in {"registering", "top", "receive"} => header.sensors = Logged
    /\ task \in Logging =>
         /\ mask = Logged
         /\ row = {i \in Logged : i < cursor /\ t % Rate[i] = 0}

IInv ==
  /\ TypeOK /\ RunsOnRunScreen /\ NoScreenNoThread /\ StopComes
  /\ HoldsAt /\ LinksAt /\ ListsSound /\ DescribesAt

-----------------------------------------------------------------------------
(* Types.                                                                  *)

\* What is logged are entries.
LEMMA Bounds ==
  /\ num_sensors \in Nat
  /\ \A i \in Logged : i \in Nat /\ i < num_sensors
<1>1. num_sensors \in Nat /\ Sourced \subseteq Entries
  BY LogAssumption
<1>2. \A i \in Logged : i \in Entries
  BY <1>1 DEF Logged
<1>3. \A i \in Entries : i \in Nat /\ i < num_sensors
  BY <1>1 DEF Entries
<1> QED
  BY <1>1, <1>2, <1>3

\* The variables are typed at first.
LEMMA TypeAtFirst == Init => TypeOK
<1>1. 0 \in 0 .. num_sensors /\ 0 \in 0 .. Period - 1
  BY Bounds, LogAssumption
<1>2. Init => {err_msg, terminating, file, crossed} \subseteq BOOLEAN
  BY DEF Init
<1>3. Init => header \in [count : 0 .. num_sensors, sensors : SUBSET Sourced]
  BY <1>1 DEF Init
<1> QED
  BY <1>1, <1>2, <1>3 DEF Init, TypeOK, Tasks

\* The header's count of the enabled sensors is at most the number of entries.
LEMMA CountOfEntries ==
  ASSUME NEW S \in SUBSET Entries
  PROVE  Cardinality(S) \in 0 .. num_sensors
<1>1. IsFiniteSet(Entries) /\ Cardinality(Entries) = num_sensors
  <2>1. num_sensors \in Nat
    BY LogAssumption
  <2> QED
    BY <2>1, FS_Interval DEF Entries
<1> QED
  BY <1>1, FS_Subset, FS_CardinalityType, LogAssumption

\* The steps of the log thread keep the types.
LEMMA TypeLogThread ==
  ASSUME TypeOK, LogThread
  PROVE  TypeOK'
<1> USE DEF TypeOK, LogStep, Tasks, screenVars
<1>0. num_sensors \in Nat /\ Sourced \subseteq Entries /\ Period \in {1, 2, 4}
  BY LogAssumption
<1>1. CASE Mount
  BY <1>1 DEF Mount, logVars
<1>2. CASE Unmounted
  BY <1>2 DEF Unmounted, logVars
<1>3. CASE Idle
  BY <1>3 DEF Idle, logVars
<1>4. CASE IdleEnd
  BY <1>4 DEF IdleEnd, logVars
<1>5. CASE Open
  BY <1>5 DEF Open
<1>6. CASE CountSensors
  <2>1. Cardinality(enabled) \in 0 .. num_sensors
    BY CountOfEntries
  <2> QED
    BY <1>6, <2>1 DEF CountSensors
<1>7. CASE DescribeSensors
  BY <1>7 DEF DescribeSensors
<1>8. CASE Register
  BY <1>0, <1>8 DEF Register
<1>9. CASE Top
  BY <1>9 DEF Top
<1>10. CASE Receive
  <2>1. cursor' \in 0 .. num_sensors /\ cursor \in Entries
    BY <1>0, <1>10 DEF Receive, Entries
  <2>2. row' \subseteq Entries
    BY <1>10, <2>1 DEF Receive
  <2>3. broken' \subseteq Sourced
    BY <1>10 DEF Receive, Due
  <2>4. UNCHANGED <<ui, screenVars, err_msg, actions, terminating, task, header, file, mask,
                    required, linked, t, crossed>>
    BY <1>10 DEF Receive
  <2> QED
    BY <2>1, <2>2, <2>3, <2>4
<1>11. CASE RowEnd
  BY <1>0, <1>11 DEF RowEnd
<1>12. CASE Close
  <2>1. header' \in [count : 0 .. num_sensors, sensors : SUBSET Sourced]
    BY <1>0, <1>12 DEF Close, Forgotten
  <2>2. mask' = {} /\ t' \in 0 .. Period - 1 /\ cursor' \in 0 .. num_sensors /\ row' = {}
    BY <1>0, <1>12 DEF Close, Forgotten
  <2>3. required' \subseteq Sourced /\ linked' \subseteq Sourced /\ broken' \subseteq Sourced
    BY <1>12 DEF Close
  <2> QED
    BY <1>12, <2>1, <2>2, <2>3 DEF Close
<1> QED
  BY <1>1, <1>2, <1>3, <1>4, <1>5, <1>6, <1>7, <1>8, <1>9, <1>10, <1>11, <1>12 DEF LogThread

\* The steps of the screen keep the types.
LEMMA TypeScreen ==
  ASSUME TypeOK, Launch \/ Arrow \/ Toggle \/ StartStop \/ ShowError \/ Back \/ Joined
  PROVE  TypeOK'
<1> USE DEF TypeOK, logVars, screenVars, START, STOP
<1>0. num_sensors \in Nat
  BY LogAssumption
<1>1. CASE Launch
  <2>1. 0 \in 0 .. num_sensors
    BY <1>0
  <2>2. err_msg' \in BOOLEAN /\ terminating' \in BOOLEAN
    BY <1>1 DEF Launch
  <2> QED
    BY <1>1, <2>1, <2>2 DEF Launch, Tasks
<1>2. CASE Arrow
  BY <1>2 DEF Arrow
<1>3. CASE Toggle
  <2>1. current_index \in Entries
    BY <1>0, <1>3 DEF Toggle, Entries
  <2> QED
    BY <1>3, <2>1 DEF Toggle
<1>4. CASE StartStop
  BY <1>4 DEF StartStop
<1>5. CASE ShowError
  BY <1>5 DEF ShowError
<1>6. CASE Back \/ Joined
  BY <1>6 DEF Back, Joined
<1> QED
  BY <1>1, <1>2, <1>3, <1>4, <1>5, <1>6

\* Every variable keeps its type, whatever keys come when.
THEOREM TypeCorrect == Spec => []TypeOK
<1>1. Init => TypeOK
  BY TypeAtFirst
<1>2. TypeOK /\ [Next]_vars => TypeOK'
  <2>1. TypeOK /\ UNCHANGED vars => TypeOK'
    BY DEF TypeOK, vars, screenVars, logVars
  <2> QED
    BY <2>1, TypeLogThread, TypeScreen DEF Next
<1> QED
  BY <1>1, <1>2, PTL DEF Spec

-----------------------------------------------------------------------------
(* What a log holds, and what the keys can change of it.                   *)

\* What the screen keeps of the variables of a log.
ScreenInv == RunsOnRunScreen /\ NoScreenNoThread /\ StopComes

LogInv == HoldsAt /\ LinksAt /\ ListsSound /\ DescribesAt

\* No sensor is toggled under a log that goes on, before the user has stopped it: the
\* arrows that lead to a sensor work only once the screen has.
LEMMA NotToggledUnder ==
  ASSUME IInv, Toggle
  PROVE  ~ (task \in Writing /\ Undisturbed)
<1>1. current_index # num_sensors
  BY LogAssumption DEF IInv, TypeOK, Toggle
<1> QED
  BY <1>1 DEF IInv, RunsOnRunScreen, StopComes

\* The keys, the messages and the coming and going of the screen.
LEMMA ScreenStep ==
  ASSUME IInv, Launch \/ Arrow \/ Toggle \/ StartStop \/ ShowError \/ Back \/ Joined
  PROVE  ScreenInv'
<1> USE DEF IInv, ScreenInv, RunsOnRunScreen, NoScreenNoThread, StopComes, Undisturbed, Writing,
            START, STOP, logVars, screenVars
<1>1. CASE Launch
  BY <1>1 DEF Launch
<1>2. CASE Arrow
  BY <1>2 DEF Arrow
<1>3. CASE Toggle
  BY <1>3 DEF Toggle
<1>4. CASE StartStop
  BY <1>4 DEF StartStop, Key
<1>5. CASE ShowError
  BY <1>5 DEF ShowError
<1>6. CASE Back \/ Joined
  BY <1>6 DEF Back, Joined
<1> QED
  BY <1>1, <1>2, <1>3, <1>4, <1>5, <1>6

\* A sensor that is toggled under a log is one more of the toggled; the others are
\* enabled as before.
LEMMA ToggleKeepsOthers ==
  ASSUME IInv, Toggle
  PROVE  LinksAt' /\ ListsSound'
<1>1. \A i \in Entries : i # current_index => (i \in enabled <=> i \in enabled')
  BY DEF Toggle
<1>2. toggled \subseteq toggled'
  BY DEF Toggle
<1>3. UNCHANGED <<task, mask, linked, broken>>
  BY DEF Toggle, logVars
<1>4. Sourced \subseteq Entries
  BY LogAssumption
<1>5. ASSUME task \in Registered, NEW i \in Sourced \ toggled'
      PROVE  i # current_index
  BY <1>5 DEF Toggle
<1>6. LinksAt'
  BY <1>1, <1>2, <1>3, <1>4, <1>5 DEF IInv, LinksAt
<1>7. ListsSound'
  BY <1>2, <1>3 DEF IInv, ListsSound
<1> QED
  BY <1>6, <1>7

\* They change nothing that a log depends on, before the user has stopped it.
LEMMA LogUnderScreen ==
  ASSUME IInv, Launch \/ Arrow \/ Toggle \/ StartStop \/ ShowError \/ Back \/ Joined
  PROVE  LogInv'
<1>1. CASE Launch
  <2>1. task = "none" /\ task' = "mount"
    BY <1>1 DEF Launch, IInv, NoScreenNoThread
  <2>2. UNCHANGED <<toggled, logVars>>
    BY <1>1 DEF Launch
  <2> QED
    BY <2>1, <2>2 DEF IInv, LogInv, HoldsAt, LinksAt, ListsSound, DescribesAt, Registered, Resting,
                      Logging, logVars
<1>2. CASE Toggle
  <2>1. UNCHANGED <<task, actions, logVars>>
    BY <1>2 DEF Toggle
  <2>2. HoldsAt'
    BY <2>1 DEF IInv, HoldsAt, logVars
  <2>3. DescribesAt'
    BY <1>2, <2>1, NotToggledUnder DEF DescribesAt, Writing, Logging, Undisturbed, logVars
  <2> QED
    BY <1>2, <2>2, <2>3, ToggleKeepsOthers DEF LogInv
<1>3. CASE Arrow \/ StartStop \/ ShowError \/ Back \/ Joined
  <2>1. UNCHANGED <<task, enabled, toggled, logVars>>
    BY <1>3 DEF Arrow, StartStop, ShowError, Back, Joined, screenVars
  <2>2. STOP \in actions => STOP \in actions'
    BY <1>3 DEF Arrow, StartStop, ShowError, Back, Joined
  <2>3. HoldsAt' /\ LinksAt' /\ ListsSound'
    BY <2>1 DEF IInv, HoldsAt, LinksAt, ListsSound, logVars
  <2>4. DescribesAt'
    BY <2>1, <2>2 DEF IInv, DescribesAt, Undisturbed, Logged, logVars
  <2> QED
    BY <2>3, <2>4 DEF LogInv
<1> QED
  BY <1>1, <1>2, <1>3

-----------------------------------------------------------------------------
(* The log thread.                                                         *)

\* It leaves the screen as it is: a START that is alone begins a log, a STOP that comes
\* before the next row ends it.
LEMMA LogThreadScreen ==
  ASSUME IInv, LogThread
  PROVE  ScreenInv'
<1> USE DEF IInv, ScreenInv, RunsOnRunScreen, NoScreenNoThread, StopComes, Undisturbed, Writing,
            START, STOP, LogStep, screenVars
<1>1. CASE Mount \/ Unmounted \/ IdleEnd
  BY <1>1 DEF Mount, Unmounted, IdleEnd, logVars
<1>2. CASE Idle
  <2>1. actions = {STOP} \/ actions = {START} \/ actions = {START, STOP}
    BY <1>2 DEF Idle, TypeOK
  <2> QED
    BY <1>2, <2>1 DEF Idle
<1>3. CASE Open \/ CountSensors \/ DescribeSensors \/ Register
  BY <1>3 DEF Open, CountSensors, DescribeSensors, Register
<1>4. CASE Top
  BY <1>4 DEF Top
<1>5. CASE Receive \/ RowEnd \/ Close
  BY <1>5 DEF Receive, RowEnd, Close
<1> QED
  BY <1>1, <1>2, <1>3, <1>4, <1>5 DEF LogThread

\* What it requires, links and opens it gives back, unlinks and closes.
LEMMA HoldsStep ==
  ASSUME IInv, LogThread
  PROVE  HoldsAt'
<1> USE DEF IInv, HoldsAt, Registered, Resting, LogStep
<1>1. CASE Mount \/ Unmounted \/ IdleEnd
  BY <1>1 DEF Mount, Unmounted, IdleEnd, logVars
<1>2. CASE Idle
  BY <1>2 DEF Idle
<1>3. CASE Open \/ CountSensors \/ DescribeSensors
  BY <1>3 DEF Open, CountSensors, DescribeSensors
<1>4. CASE Register
  BY <1>4 DEF Register
<1>5. CASE Top
  BY <1>5 DEF Top
<1>6. CASE Receive \/ RowEnd
  BY <1>6 DEF Receive, RowEnd
<1>7. CASE Close
  BY <1>7 DEF Close, Forgotten
<1> QED
  BY <1>1, <1>2, <1>3, <1>4, <1>5, <1>6, <1>7 DEF LogThread

\* A listener that is linked when it is registered, or not linked when it is received
\* from or unregistered, is one of a sensor that was toggled under a log.
LEMMA LinksStep ==
  ASSUME IInv, LogThread
  PROVE  LinksAt' /\ ListsSound'
<1> USE DEF IInv, LinksAt, ListsSound, Registered, LogStep, screenVars
<1>1. CASE Mount \/ Unmounted \/ IdleEnd
  BY <1>1 DEF Mount, Unmounted, IdleEnd, logVars
<1>2. CASE Idle
  BY <1>2 DEF Idle
<1>3. CASE Open \/ CountSensors \/ DescribeSensors
  BY <1>3 DEF Open, CountSensors, DescribeSensors
<1>4. CASE Register
  BY <1>4 DEF Register
<1>5. CASE Top
  BY <1>5 DEF Top
<1>6. CASE Receive
  <2>1. Due(cursor) /\ cursor \notin linked => cursor \in toggled
    BY <1>6 DEF Receive, Due
  <2> QED
    BY <1>6, <2>1 DEF Receive
<1>7. CASE RowEnd
  BY <1>7 DEF RowEnd
<1>8. CASE Close
  BY <1>8 DEF Close, Forgotten
<1> QED
  BY <1>1, <1>2, <1>3, <1>4, <1>5, <1>6, <1>7, <1>8 DEF LogThread

\* The next entry is written if it is due, and the row has come one entry further.
LEMMA RowGrows ==
  ASSUME IInv, Receive, Undisturbed
  PROVE  row' = {i \in Logged : i < cursor + 1 /\ t % Rate[i] = 0}
<1>1. cursor \in Entries /\ row = {i \in Logged : i < cursor /\ t % Rate[i] = 0}
  BY LogAssumption DEF IInv, TypeOK, DescribesAt, Receive, LogStep, Logging, Entries
<1>2. \A i \in Logged : i < cursor + 1 <=> i < cursor \/ i = cursor
  BY <1>1, Bounds DEF Entries
<1>3. Due(cursor) <=> cursor \in Logged /\ t % Rate[cursor] = 0
  BY DEF Due, Logged
<1>4. row' = IF Due(cursor) THEN row \union {cursor} ELSE row
  BY DEF Receive
<1>5. cursor \in Nat /\ ~ (cursor < cursor)
  BY <1>1, LogAssumption DEF Entries
<1>6. CASE Due(cursor)
  BY <1>1, <1>2, <1>3, <1>4, <1>5, <1>6
<1>7. CASE ~ Due(cursor)
  BY <1>1, <1>2, <1>3, <1>4, <1>5, <1>7
<1> QED
  BY <1>6, <1>7

\* The header and the rows follow the enabled sensors.
LEMMA DescribesStep ==
  ASSUME IInv, LogThread
  PROVE  DescribesAt'
<1> USE DEF IInv, DescribesAt, Logging, Logged, LogStep, Undisturbed, screenVars
<1>0. \A i \in Logged : ~ (i < 0)
  BY Bounds
<1>1. CASE Mount \/ Unmounted \/ IdleEnd
  BY <1>1 DEF Mount, Unmounted, IdleEnd, logVars
<1>2. CASE Idle
  BY <1>2 DEF Idle
<1>3. CASE Open
  BY <1>3 DEF Open
<1>4. CASE CountSensors
  BY <1>4 DEF CountSensors, TypeOK
<1>5. CASE DescribeSensors
  BY <1>5 DEF DescribeSensors, TypeOK
<1>6. CASE Register
  <2>1. Logged' = Logged /\ mask' = Logged /\ row' = {i \in Logged : i < 0 /\ t' % Rate[i] = 0}
    BY <1>0, <1>6 DEF Register
  <2> QED
    BY <1>6, <2>1 DEF Register
<1>7. CASE Top
  <2>1. task' = "closing" \/ (task' = "receive" /\ (Undisturbed' => Undisturbed))
    BY <1>7 DEF Top
  <2>2. UNCHANGED <<enabled, header, mask, row, cursor, t>>
    BY <1>7 DEF Top
  <2>3. CASE task' = "closing"
    BY <2>3
  <2>4. CASE task' = "receive" /\ (Undisturbed' => Undisturbed)
    <3>1. task = "top"
      BY <1>7 DEF Top
    <3> QED
      BY <2>2, <2>4, <3>1
  <2> QED
    BY <2>1, <2>3, <2>4
<1>8. CASE Receive
  BY <1>8, RowGrows DEF Receive
<1>9. CASE RowEnd
  <2>1. Logged' = Logged /\ row' = {i \in Logged : i < 0 /\ t' % Rate[i] = 0}
    BY <1>0, <1>9 DEF RowEnd
  <2> QED
    BY <1>9, <2>1 DEF RowEnd
<1>10. CASE Close
  BY <1>10 DEF Close
<1> QED
  BY <1>1, <1>2, <1>3, <1>4, <1>5, <1>6, <1>7, <1>8, <1>9, <1>10 DEF LogThread

-----------------------------------------------------------------------------
(* The theorems.                                                           *)

\* The invariant that carries the rest.
THEOREM Invariance == Spec => []IInv
<1>1. Init => IInv
  <2>1. Init => RunsOnRunScreen /\ NoScreenNoThread /\ StopComes
    BY DEF Init, RunsOnRunScreen, NoScreenNoThread, StopComes, Writing, START
  <2>2. Init => HoldsAt /\ LinksAt /\ ListsSound /\ DescribesAt
    BY DEF Init, HoldsAt, LinksAt, ListsSound, DescribesAt, Registered, Resting, Logging
  <2> QED
    BY <2>1, <2>2, TypeAtFirst DEF IInv
<1>2. IInv /\ [Next]_vars => IInv'
  <2> SUFFICES ASSUME IInv, [Next]_vars PROVE IInv'
    OBVIOUS
  <2>1. CASE LogThread
    BY <2>1, TypeLogThread, LogThreadScreen, HoldsStep, LinksStep, DescribesStep
       DEF IInv, ScreenInv
  <2>2. CASE Launch \/ Arrow \/ Toggle \/ StartStop \/ ShowError \/ Back \/ Joined
    BY <2>2, TypeScreen, ScreenStep, LogUnderScreen DEF IInv, ScreenInv, LogInv
  <2>3. CASE UNCHANGED vars
    BY <2>3 DEF IInv, RunsOnRunScreen, NoScreenNoThread, StopComes, HoldsAt, LinksAt, ListsSound,
                DescribesAt, Undisturbed, Logged, TypeOK, vars, screenVars, logVars
  <2> QED
    BY <2>1, <2>2, <2>3 DEF Next
<1> QED
  BY <1>1, <1>2, PTL DEF Spec

\* Whatever the user does, what a log has required is given back, and it has what it
\* reads until the user stops it.
THEOREM Holds == Spec => []HoldsWhatItLogs
<1>1. IInv => HoldsWhatItLogs
  BY DEF IInv, HoldsAt, DescribesAt, HoldsWhatItLogs, Logging, Resting, Registered, Logged
<1> QED
  BY <1>1, Invariance, PTL

\* Whatever the user does, every row that is complete before the user stops the log is
\* as its header describes it.
THEOREM Rows == Spec => []RowsMatchHeader
<1>1. IInv => RowsMatchHeader
  <2> SUFFICES ASSUME IInv, task = "receive", cursor = num_sensors, Undisturbed
               PROVE  /\ RowMatches /\ header.sensors = required
                      /\ header.count = Cardinality(header.sensors \union (enabled \ Sourced))
    BY DEF RowsMatchHeader
  <2>1. header.sensors = Logged /\ mask = Logged /\ header.count = Cardinality(enabled)
    BY DEF IInv, DescribesAt, Logging
  <2>2. \A i \in Logged : i < cursor
    BY Bounds
  <2>3. RowMatches
    BY <2>1, <2>2 DEF IInv, DescribesAt, Logging, RowMatches
  <2>4. header.sensors = required
    BY <2>1 DEF IInv, HoldsAt, Registered
  <2>5. enabled = Logged \union (enabled \ Sourced)
    BY DEF Logged
  <2> QED
    BY <2>1, <2>3, <2>4, <2>5
<1> QED
  BY <1>1, Invariance, PTL

\* Whatever the user does, the list and the listener of a sensor that is never toggled
\* under a log stay sound.
THEOREM Lists == Spec => []ListsSound
  BY Invariance, PTL DEF IInv

=============================================================================
