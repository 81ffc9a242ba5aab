----------------------------- MODULE SensorLog -----------------------------
(***************************************************************************)
(* The logger screen of sw_imu/src/ui/sensorlog.cpp and its LogThread.     *)
(*                                                                         *)
(* The UI thread tells the log thread to start and to stop with two event  *)
(* bits and shows the new state at once, without waiting for it.  The log  *)
(* thread, of a higher priority, blocks in the flash and on its listeners; *)
(* while it does, the user goes on.  Both threads read the set of enabled  *)
(* sensors: the header of a log, its rows, and the listeners registered    *)
(* and unregistered all follow what the set is when they look.             *)
(*                                                                         *)
(* What the file system does inside, the samples and their queues          *)
(* (DataListener) and the sensor threads (Acquisition) are not here: a     *)
(* receive returns, with a sample or after its timeout.                    *)
(***************************************************************************)
EXTENDS Naturals, FiniteSets

CONSTANTS
  num_sensors,  \* the entries of the screen
  Sourced,      \* the entries that have a source, a listener and a description
  Rate,         \* the rate divider of each entry, a power of two
  Period,       \* the largest of them, 4 in the code
  FlashFails    \* may mounting the flash and opening a file fail?

Entries == 0 .. num_sensors - 1

ASSUME LogAssumption ==
  /\ num_sensors \in Nat
  /\ Sourced \subseteq Entries
  /\ Period \in {1, 2, 4} /\ Rate \in [Entries -> {1, 2, 4} \intersect 1 .. Period]
  /\ FlashFails \in BOOLEAN

VARIABLES
  ui,             \* the UI thread: "menu", in the "screen", or "joining" LogThread
  current_index,  \* the entry shown, num_sensors for the run screen
  enabled,        \* the entries that are enabled
  log_state,      \* what the screen shows
  err_msg,        \* the log thread has left a message
  actions,        \* p_epending of the log thread
  terminating,    \* chThdShouldTerminate() of the log thread
  task,           \* where the log thread is
  header,         \* the number of sensors in the header and those described
  file,           \* write_file is open
  mask,           \* sensor_enable_mask
  required,       \* the sources the log thread has required
  linked,         \* the sources with its listener in their list
  broken,         \* the sources whose list or listener is not what the code takes it for
  t,              \* t modulo the period
  cursor,         \* the entry a row has come to
  row,            \* the entries written in the current row
  crossed,        \* history: the log thread took a START and a STOP together
  toggled         \* history: the sources toggled while their listeners were registered

\* The history variables are for the properties; no guard reads them.
screenVars == <<current_index, enabled, log_state, toggled>>
logVars == <<header, file, mask, required, linked, broken, t, cursor, row, crossed>>
vars == <<ui, screenVars, err_msg, actions, terminating, task, logVars>>

START == "ACTION_START"
STOP == "ACTION_STOP"

\* The places of the log thread. Between "opening" and "registering", and in
\* "closing", it is blocked in the flash; "receive" is blocked on a listener.
Tasks == {"none", "mount", "unmounted", "idle", "opening", "counting", "describing",
          "registering", "top", "receive", "closing"}

Logging == {"top", "receive"}
Registered == {"top", "receive", "closing"}
Resting == {"none", "mount", "unmounted", "idle"}

TypeOK ==
  /\ ui \in {"menu", "screen", "joining"}
  /\ current_index \in 0 .. num_sensors
  /\ enabled \subseteq Entries
  /\ log_state \in {"LOG_STOPPED", "LOG_RUNNING"}
  /\ err_msg \in BOOLEAN
  /\ actions \subseteq {START, STOP}
  /\ terminating \in BOOLEAN
  /\ task \in Tasks
  /\ header \in [count : 0 .. num_sensors, sensors : SUBSET Sourced]
  /\ file \in BOOLEAN
  /\ mask \subseteq Sourced /\ required \subseteq Sourced /\ linked \subseteq Sourced
  /\ broken \subseteq Sourced /\ toggled \subseteq Sourced /\ crossed \in BOOLEAN
  /\ t \in 0 .. Period - 1
  /\ cursor \in 0 .. num_sensors
  /\ row \subseteq Entries

Init ==
  /\ ui = "menu"
  /\ current_index = 0 /\ enabled = {} /\ log_state = "LOG_STOPPED"
  /\ err_msg = FALSE /\ actions = {} /\ terminating = FALSE
  /\ task = "none"
  /\ header = [count |-> 0, sensors |-> {}]
  /\ file = FALSE
  /\ mask = {} /\ required = {} /\ linked = {} /\ broken = {}
  /\ t = 0 /\ cursor = 0 /\ row = {}
  /\ crossed = FALSE /\ toggled = {}

-----------------------------------------------------------------------------
(* The log thread.                                                         *)

\* The next sample put into a list that is linked to itself never leaves its loop, under
\* the system lock; a null pointer, or a listener that was never initialised, may do
\* anything.  What follows is not modelled: all stops.
Sound == broken = {}

LogStep(from, to) ==
  /\ Sound
  /\ task = from
  /\ task' = to
  /\ UNCHANGED <<ui, screenVars>>

\* flogfs_mount; on failure the thread only repeats its message until it is ended.
Mount ==
  /\ \/ LogStep("mount", "idle")
     \/ FlashFails /\ LogStep("mount", "unmounted")
  /\ UNCHANGED <<err_msg, actions, terminating, logVars>>

Unmounted ==
  /\ IF terminating
     THEN LogStep("unmounted", "none") /\ UNCHANGED <<err_msg, actions>>
     ELSE LogStep("unmounted", "unmounted") /\ err_msg' = TRUE /\ actions' = {}
  /\ UNCHANGED <<terminating, logVars>>

\* chEvtWaitAnyTimeout(ACTION_START | ACTION_STOP) takes both; only a lone STOP is
\* passed over, so START with STOP starts a log, in whatever order they came.
Idle ==
  /\ actions # {}
  /\ LogStep("idle", IF actions = {STOP} THEN "idle" ELSE "opening")
  /\ actions' = {}
  /\ crossed' = ({START, STOP} \subseteq actions)
  /\ UNCHANGED <<err_msg, terminating, header, file, mask, required, linked, broken, t,
                 cursor, row>>

IdleEnd ==
  /\ terminating
  /\ LogStep("idle", "none")
  /\ UNCHANGED <<err_msg, actions, terminating, logVars>>

\* flogfs_open_write
Open ==
  /\ \/ LogStep("opening", "counting") /\ file' = TRUE /\ UNCHANGED err_msg
     \/ FlashFails /\ LogStep("opening", "idle") /\ err_msg' = TRUE /\ UNCHANGED file
  /\ UNCHANGED <<actions, terminating, header, mask, required, linked, broken, t, cursor, row,
                 crossed>>

\* write_header counts the enabled entries, writes the count, then describes them.
CountSensors ==
  /\ LogStep("counting", "describing")
  /\ header' = [header EXCEPT !.count = Cardinality(enabled)]
  /\ UNCHANGED <<err_msg, actions, terminating, file, mask, required, linked, broken, t,
                 cursor, row, crossed>>

DescribeSensors ==
  /\ LogStep("describing", "registering")
  /\ header' = [header EXCEPT !.sensors = enabled \intersect Sourced]
  /\ UNCHANGED <<err_msg, actions, terminating, file, mask, required, linked, broken, t,
                 cursor, row, crossed>>

\* Fault: a source is required only when its listener is already in the list.
RegisterUnrequired ==
  /\ LogStep("registering", "top")
  /\ mask' = enabled \intersect Sourced
  /\ linked' = linked \union mask'
  /\ broken' = broken \union (linked \intersect mask')
  /\ required' = mask' \intersect linked
  /\ t' = 0 /\ cursor' = 0 /\ row' = {}
  /\ UNCHANGED <<err_msg, actions, terminating, header, file, crossed>>

\* The listeners of the enabled sensors are registered and their sources required.
\* Registering a listener that is in the list links it to itself.
Register ==
  /\ LogStep("registering", "top")
  /\ mask' = enabled \intersect Sourced
  /\ linked' = linked \union mask'
  /\ broken' = broken \union (linked \intersect mask')
  /\ required' = mask'
  /\ t' = 0 /\ cursor' = 0 /\ row' = {}
  /\ UNCHANGED <<err_msg, actions, terminating, header, file, crossed>>


\* The head of the loop, which takes all events and looks only at STOP.
Top ==
  /\ LogStep("top", IF terminating \/ STOP \in actions THEN "closing" ELSE "receive")
  /\ actions' = IF terminating THEN actions ELSE {}
  /\ crossed' = (crossed \/ (~terminating /\ {START, STOP} \subseteq actions))
  /\ UNCHANGED <<err_msg, terminating, header, file, mask, required, linked, broken, t,
                 cursor, row>>

\* The entry at the cursor is enabled and due, and its sample is written, or what the
\* buffer held before if the receive timed out.  A listener that is not in its list may
\* have been initialised for an earlier log, or never.
Due(i) == i \in enabled \intersect Sourced /\ t % Rate[i] = 0

Receive ==
  /\ cursor < num_sensors
  /\ LogStep("receive", "receive")
  /\ cursor' = cursor + 1
  /\ row' = IF Due(cursor) THEN row \union {cursor} ELSE row
  /\ \/ broken' = broken
     \/ Due(cursor) /\ cursor \notin linked /\ broken' = broken \union {cursor}
  /\ UNCHANGED <<err_msg, actions, terminating, header, file, mask, required, linked, t,
                 crossed>>

RowEnd ==
  /\ cursor = num_sensors
  /\ LogStep("receive", "top")
  /\ t' = (t + 1) % Period
  /\ cursor' = 0 /\ row' = {}
  /\ UNCHANGED <<err_msg, actions, terminating, header, file, mask, required, linked,
                 broken, crossed>>

\* The header, the mask and the row are of one log: the next has its own.
Forgotten ==
  /\ header' = [count |-> 0, sensors |-> {}]
  /\ mask' = {} /\ t' = 0 /\ cursor' = 0 /\ row' = {}

\* Fault: the listeners stay registered.
CloseLinked ==
  /\ LogStep("closing", "idle")
  /\ file' = FALSE
  /\ required' = required \ mask
  /\ Forgotten
  /\ UNCHANGED <<err_msg, actions, terminating, linked, broken, crossed>>

\* The file is closed, the mask released, and the listeners of the sensors that are
\* enabled NOW unregistered. Unregistering from an empty list is a null pointer.
Close ==
  /\ LogStep("closing", "idle")
  /\ file' = FALSE
  /\ required' = required \ mask
  /\ linked' = linked \ (enabled \intersect Sourced)
  /\ broken' = broken \union ((enabled \intersect Sourced) \ linked)
  /\ Forgotten
  /\ UNCHANGED <<err_msg, actions, terminating, crossed>>

LogThread ==
  \/ Mount \/ Unmounted \/ Idle \/ IdleEnd \/ Open \/ CountSensors \/ DescribeSensors
  \/ Register \/ Top \/ Receive \/ RowEnd \/ Close

-----------------------------------------------------------------------------
(* The screen.                                                             *)

\* The UI thread runs only while the log thread is blocked.
UIRuns == Sound /\ task # "top" /\ (task = "idle" => actions = {})

\* Launching the screen makes a new SensorLogUI and a new thread.
Launch ==
  /\ ui = "menu"
  /\ ui' = "screen"
  /\ current_index' = 0 /\ enabled' = {} /\ log_state' = "LOG_STOPPED"
  /\ err_msg' = FALSE /\ actions' = {} /\ terminating' = FALSE
  /\ task' = "mount"
  /\ UNCHANGED <<toggled, logVars>>

Key ==
  /\ ui = "screen" /\ UIRuns
  /\ ~(err_msg /\ current_index = num_sensors)

\* Fault: the arrows work while the log runs.
ArrowAlways ==
  /\ Key
  /\ current_index' \in {current_index - 1, current_index + 1} \intersect (0 .. num_sensors)
  /\ UNCHANGED <<ui, enabled, log_state, toggled, err_msg, actions, terminating, task, logVars>>

\* Fault: RIGHT does not stop at the run screen.
ArrowPast ==
  /\ Key
  /\ log_state = "LOG_STOPPED"
  /\ current_index' \in {current_index - 1, current_index + 1} \intersect Nat
  /\ UNCHANGED <<ui, enabled, log_state, toggled, err_msg, actions, terminating, task, logVars>>

\* LEFT and RIGHT, which the code ignores while the screen shows a running log.
Arrow ==
  /\ Key
  /\ log_state = "LOG_STOPPED"
  /\ current_index' \in {current_index - 1, current_index + 1} \intersect (0 .. num_sensors)
  /\ UNCHANGED <<ui, enabled, log_state, toggled, err_msg, actions, terminating, task, logVars>>

\* SELECT on a sensor toggles it, whatever the log is doing.
Toggle ==
  /\ Key
  /\ current_index < num_sensors
  /\ enabled' = IF current_index \in enabled
                THEN enabled \ {current_index} ELSE enabled \union {current_index}
  /\ toggled' = IF task \in Registered
                THEN toggled \union ({current_index} \intersect Sourced) ELSE toggled
  /\ UNCHANGED <<ui, current_index, log_state, err_msg, actions, terminating, task, logVars>>

\* SELECT on the run screen; log_state changes here so the UI does not have to wait.
StartStop ==
  /\ Key
  /\ current_index = num_sensors
  /\ \/ /\ log_state = "LOG_STOPPED"
        /\ actions' = actions \union {START}
        /\ log_state' = "LOG_RUNNING"
     \/ /\ log_state = "LOG_RUNNING"
        /\ actions' = actions \union {STOP}
        /\ log_state' = "LOG_STOPPED"
  /\ UNCHANGED <<ui, current_index, enabled, toggled, err_msg, terminating, task, logVars>>

\* Fault: the screen goes on showing a running log after an error.
ShowErrorRunning ==
  /\ ui = "screen" /\ UIRuns
  /\ err_msg /\ current_index = num_sensors
  /\ actions' = actions \union {STOP}
  /\ err_msg' = FALSE
  /\ UNCHANGED <<ui, screenVars, terminating, task, logVars>>

\* On the run screen a message stops the log and is shown before any key.
ShowError ==
  /\ ui = "screen" /\ UIRuns
  /\ err_msg /\ current_index = num_sensors
  /\ actions' = actions \union {STOP}
  /\ log_state' = "LOG_STOPPED"
  /\ err_msg' = FALSE
  /\ UNCHANGED <<ui, current_index, enabled, toggled, terminating, task, logVars>>

\* BACK, at any time: terminate() waits until the log thread has ended.
Back ==
  /\ ui = "screen" /\ UIRuns
  /\ ui' = "joining"
  /\ terminating' = TRUE
  /\ UNCHANGED <<screenVars, err_msg, actions, task, logVars>>

Joined ==
  /\ ui = "joining"
  /\ task = "none"
  /\ ui' = "menu"
  /\ UNCHANGED <<screenVars, err_msg, actions, terminating, task, logVars>>

-----------------------------------------------------------------------------

Next ==
  \/ LogThread
  \/ Launch \/ Arrow \/ Toggle \/ StartStop \/ ShowError \/ Back \/ Joined

\* Every wait of the log thread has a timeout and the flash answers; the UI thread
\* polls. The user does not have to press anything.
Fairness == WF_vars(LogThread) /\ WF_vars(ShowError) /\ WF_vars(Joined)

Spec == Init /\ [][Next]_vars /\ Fairness

-----------------------------------------------------------------------------
(* Properties.                                                             *)

\* Nobody has told the log thread to stop, and it has not dropped a STOP.
Undisturbed == STOP \notin actions /\ ~crossed

\* While a log is open its file is, and the thread has required what its mask says, to
\* give back just that, and has its listeners in their lists; at rest, and above all
\* once the thread has ended, the file is closed and nothing is required, whatever the
\* user did in between.  Until the user stops it, the sensors it reads, which it looks
\* up anew for every row, are those.
HoldsWhatItLogs ==
  /\ task \in Registered => required = mask /\ mask \subseteq linked /\ file
  /\ task \in Resting => required = {} /\ ~file
  /\ task \in Logging /\ Undisturbed => mask = enabled \intersect Sourced

\* A row of the sensors the header describes that are due in it.
RowMatches == row = {i \in header.sensors : t % Rate[i] = 0}

\* A row that is complete before the user presses STOP is as the header describes it,
\* and of sensors that are required; and the header counts the sensors it describes and,
\* beyond those, only the enabled entries that have no description.
RowsMatchHeader ==
  task = "receive" /\ cursor = num_sensors /\ Undisturbed =>
    /\ RowMatches /\ header.sensors = required
    /\ header.count = Cardinality(header.sensors \union (enabled \ Sourced))

\* Over any number of logs and screens, a sensor nobody toggles under a log has its
\* listener in the list of its source exactly while it is logged: its list is never
\* broken, and no listener stays in it when the thread is gone.  What is done to the
\* other sensors cannot change that.
ListsSound ==
  /\ broken \subseteq toggled
  /\ \A i \in Sourced \ toggled : i \in linked <=> task \in Registered /\ i \in mask


\* Where the log thread is when what the screen shows is true.
Shown(s) == IF s = "LOG_RUNNING" THEN Logging ELSE Resting

\* What the screen shows comes true, through failures, messages and any number of logs,
\* unless the user changes it or leaves, or the log thread has taken a START and a STOP
\* together: it never stays what it is and untrue for ever.
ShownComesTrue ==
  \/ []<>(task \in Shown(log_state) \/ ui # "screen" \/ crossed \/ ~Sound)
  \/ []<><<log_state' # log_state>>_vars


=============================================================================
