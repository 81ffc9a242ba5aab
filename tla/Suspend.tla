------------------------------ MODULE Suspend ------------------------------
(***************************************************************************)
(* The display and the threads that draw on it: the UI thread with its     *)
(* screens (sw_imu/src/ui), the monitor thread that redraws the top row,   *)
(* and the thread of the sensor view, over the two mutexes of              *)
(* sw_imu/imu/ssd1306.cpp and framebuffer.cpp.                             *)
(*                                                                         *)
(* Suspending the display takes the panel's suspend_lock and KEEPS it: the *)
(* UI thread goes back to its event loop as its owner, and resuming is a   *)
(* chMtxUnlock(), which names no mutex but releases the one this thread    *)
(* locked last.  A thread that draws meanwhile waits with the framebuffer  *)
(* locked; if it is the UI thread, it waits for itself.                    *)
(*                                                                         *)
(* The state of a thread is the list of the calls it has still to make     *)
(* before it waits again.                                                  *)
(***************************************************************************)
EXTENDS FrameBuffer, Sequences

CONSTANTS
  Environments,  \* what the log thread and the user may do, chosen once
  Bars           \* does the sensor view draw bars, and not numbers?

\* logFails: the log thread may fail to mount or to open a file.
\* userIdles: the user may leave the keys alone for the 30 s of the timer.
Environment == [logFails : BOOLEAN, userIdles : BOOLEAN]

ASSUME EnvironmentAssumption == Environments \subseteq Environment /\ Bars \in BOOLEAN

VARIABLES
  screen,           \* the screen whose exec() the UI thread is in
  at,               \* the wait the UI thread is in, or on its way to
  todo,             \* the calls each thread has still to make
  events,           \* p_epending of the UI thread
  armed,            \* timer.vt_func is set
  suspend_enabled,
  is_suspended,
  panel,            \* the display is driven
  owner,            \* m_owner of each mutex
  stack,            \* p_mtxlist of each thread, the mutex locked last first
  waits,            \* the mutex each thread is queued on
  drawing,          \* the thread of the sensor view has not been terminated
  err_msg,          \* the log thread has a message for the logger screen
  limits,           \* the dirty limits of the frame buffer
  unsent,           \* the pages drawn since they were sent to the panel
  env               \* the environment

suspension == <<armed, suspend_enabled, is_suspended>>
mutexes == <<owner, stack, waits>>
place == <<screen, at>>
logger == <<err_msg, env>>
pixels == <<limits, unsent>>
vars == <<screen, at, todo, events, armed, suspend_enabled, is_suspended, panel,
          owner, stack, waits, drawing, err_msg, limits, unsent, env>>

Threads == {"ui", "monitor", "view"}
Mutexes == {"fb", "suspend_lock"}
None == "none"

Keys == {"ARROW", "SELECT"}           \* MASK_LEFT and MASK_RIGHT are one here
Masks == Keys \union {"BACK", "RESUME", "SUSPEND"}

\* The bit order of the masks, by which chEvtWaitOne chooses.
Bit == [ARROW |-> 0, SELECT |-> 1, BACK |-> 2, RESUME |-> 3, SUSPEND |-> 4]

\* The calls: locking one of the mutexes; unlocking; a transfer of pixels;
\* switching the panel; and the assignments and tests of the UI functions.
Drawings == {"row", "wipe", "text", "bar"}
Ops == Mutexes \union Drawings \union
  {"unlock", "data", "off", "on", "mark", "resume", "clear", "clear keys", "inhibit",
   "enable", "spawn", "terminate", "join", "error", "shown", "check"}

Screens == {"menu", "view", "test", "sensors", "run"}
Waits == {"loop", "asleep", "button", "button asleep"}

TypeOK ==
  /\ screen \in Screens
  /\ at \in Waits
  /\ todo \in [Threads -> Seq(Ops)]
  /\ events \subseteq Masks
  /\ armed \in BOOLEAN /\ suspend_enabled \in BOOLEAN /\ is_suspended \in BOOLEAN
  /\ panel \in BOOLEAN
  /\ owner \in [Mutexes -> Threads \union {None}]
  /\ stack \in [Threads -> Seq(Mutexes)]
  /\ waits \in [Threads -> Mutexes \union {None}]
  /\ \A t \in Threads, m \in Mutexes :
       owner[m] = t <=> \E i \in DOMAIN stack[t] : stack[t][i] = m
  /\ drawing \in BOOLEAN
  /\ err_msg \in BOOLEAN
  /\ limits \in Limits /\ unsent \subseteq Page
  /\ env \in Environments

-----------------------------------------------------------------------------
(* The calls a thread strings together.                                    *)

\* A framebuffer operation, each under the lock of its own.
Drawing(op) == <<"fb", op, "unlock">>

\* A screen clears the pages below the top row and writes on them.
Draw == Drawing("wipe") \o Drawing("text")

\* Fault: the panel is not locked.
updateUnlocked == <<"fb", "data", "unlock">>

\* SSD1306::update()
update == <<"fb", "suspend_lock", "data", "unlock", "unlock">>

Redraw == Draw \o update

\* Fault: resume() does not unlock the panel.
wakeLocked == <<"on">>

\* SSD1306::sleep() and the end of SSD1306::resume()
sleep == <<"suspend_lock", "off">>
wake == <<"on", "unlock">>

suspend == sleep \o <<"mark">>

\* UI::handle_evt
handle_evt(e) ==
  CASE e = "RESUME"  -> <<"resume">>
    [] e = "SUSPEND" -> suspend
    [] OTHER         -> << >>

\* On the run screen the logger looks at err_msg before it acts on an event.
Seen(e) == handle_evt(e) \o IF screen = "run" THEN <<"error">> ELSE << >>

Init ==
  /\ screen = "menu" /\ at = "loop"
  /\ todo = [t \in Threads |-> IF t = "ui" THEN Redraw \o <<"clear keys">> ELSE << >>]
  /\ events = {}
  /\ armed = TRUE /\ suspend_enabled = TRUE /\ is_suspended = FALSE
  /\ panel = TRUE
  /\ owner = [m \in Mutexes |-> None]
  /\ stack = [t \in Threads |-> << >>]
  /\ waits = [t \in Threads |-> None]
  /\ drawing = FALSE
  /\ err_msg = FALSE
  /\ limits = Synced /\ unsent = {}
  /\ env \in Environments

\* The next call of a running thread is op.
Calls(t, op) ==
  /\ waits[t] = None
  /\ todo[t] # << >>
  /\ Head(todo[t]) = op

\* The call returns, and the calls in more come before the rest.
Returns(t, more) == todo' = [todo EXCEPT ![t] = more \o Tail(@)]

-----------------------------------------------------------------------------
(* The mutexes.                                                            *)

chMtxLock(t, m) ==
  /\ Calls(t, m)
  /\ Returns(t, << >>)
  /\ IF owner[m] = None
     THEN /\ owner' = [owner EXCEPT ![m] = t]
          /\ stack' = [stack EXCEPT ![t] = <<m>> \o @]
          /\ waits' = waits
     ELSE /\ waits' = [waits EXCEPT ![t] = m]
          /\ UNCHANGED <<owner, stack>>
  /\ UNCHANGED <<place, events, suspension, panel, drawing, pixels, logger>>

\* Fault: m_owner is left as it was when nobody waits.
chMtxUnlockOwned(t) ==
  /\ Calls(t, "unlock")
  /\ Returns(t, << >>)
  /\ stack' = [stack EXCEPT ![t] = Tail(@)]
  /\ UNCHANGED <<owner, waits, place, events, suspension, panel, drawing, pixels, logger>>

\* The mutex this thread locked last goes to the waiting thread of the highest
\* priority; the thread of the sensor view has the lowest.
chMtxUnlock(t) ==
  LET m == Head(stack[t])
      Queued == {u \in Threads : waits[u] = m}
  IN  /\ Calls(t, "unlock")
      /\ Returns(t, << >>)
      /\ \/ /\ Queued = {}
            /\ owner' = [owner EXCEPT ![m] = None]
            /\ stack' = [stack EXCEPT ![t] = Tail(@)]
            /\ waits' = waits
         \/ \E u \in Queued :
              /\ u = "view" => Queued = {"view"}
              /\ owner' = [owner EXCEPT ![m] = u]
              /\ stack' = [stack EXCEPT ![t] = Tail(@), ![u] = <<m>> \o @]
              /\ waits' = [waits EXCEPT ![u] = None]
      /\ UNCHANGED <<place, events, suspension, panel, drawing, pixels, logger>>

\* The pages an operation draws, and the limits it leaves.
Drawn(op) == IF op = "row" THEN {0} ELSE IF op = "bar" THEN {1} ELSE Page \ {0}

Marks(op) ==
  CASE op = "row"   -> write_text(limits, 0, 1)
    [] op = "wipe"  -> clear_area(limits, 1, Pages - 1)
    [] op = "text"  -> write_text(limits, 1, Pages - 1)
    [] op = "bar"   -> draw_pos_neg_bar(limits, 1)

draw(t) ==
  \E op \in Drawings :
    /\ Calls(t, op)
    /\ Returns(t, << >>)
    /\ limits' = Marks(op)
    /\ unsent' = unsent \union Drawn(op)
    /\ UNCHANGED <<place, events, suspension, panel, mutexes, drawing, logger>>

\* Fault: the last dirty page is not sent.
transmit_data_syncShort(t) ==
  /\ Calls(t, "data")
  /\ Returns(t, << >>)
  /\ unsent' = unsent \ (Dirty(limits) \ {limits.y_max})
  /\ limits' = Synced
  /\ UNCHANGED <<place, events, suspension, panel, mutexes, drawing, logger>>

\* The dirty pages go out, if there are any, and the limits are reset.
transmit_data_sync(t) ==
  /\ Calls(t, "data")
  /\ Returns(t, << >>)
  /\ unsent' = unsent \ Dirty(limits)
  /\ limits' = IF limits.y_min <= limits.y_max THEN Synced ELSE limits
  /\ UNCHANGED <<place, events, suspension, panel, mutexes, drawing, logger>>

-----------------------------------------------------------------------------
(* The calls of the UI thread.                                             *)

\* CMD_DISPLAYOFF and CMD_DISPLAYON
SwitchPanel ==
  /\ \/ Calls("ui", "off") /\ panel' = FALSE
     \/ Calls("ui", "on") /\ panel' = TRUE
  /\ Returns("ui", << >>)
  /\ UNCHANGED <<place, events, suspension, mutexes, drawing, pixels, logger>>

\* The second statement of suspend().
MarkSuspended ==
  /\ Calls("ui", "mark")
  /\ is_suspended' = TRUE
  /\ Returns("ui", << >>)
  /\ UNCHANGED <<place, events, armed, suspend_enabled, panel, mutexes, drawing, pixels, logger>>

\* The timer is started again, and the panel resumed if it was suspended.
resume ==
  /\ Calls("ui", "resume")
  /\ armed' = (armed \/ suspend_enabled)
  /\ is_suspended' = FALSE
  /\ Returns("ui", IF is_suspended THEN wake ELSE << >>)
  /\ UNCHANGED <<place, events, suspend_enabled, panel, mutexes, drawing, pixels, logger>>

\* Fault: the timer is left running.
inhibit_suspendOnly ==
  /\ Calls("ui", "inhibit")
  /\ suspend_enabled' = FALSE
  /\ Returns("ui", << >>)
  /\ UNCHANGED <<place, events, armed, is_suspended, panel, mutexes, drawing, pixels, logger>>

inhibit_suspend ==
  /\ Calls("ui", "inhibit")
  /\ suspend_enabled' = FALSE
  /\ armed' = FALSE
  /\ Returns("ui", << >>)
  /\ UNCHANGED <<place, events, is_suspended, panel, mutexes, drawing, pixels, logger>>

enable_suspend ==
  /\ Calls("ui", "enable")
  /\ suspend_enabled' = TRUE
  /\ Returns("ui", <<"resume">>)
  /\ UNCHANGED <<place, events, armed, is_suspended, panel, mutexes, drawing, pixels, logger>>

\* chEvtGetAndClearEvents, of every event or of the keys.
ClearEvents ==
  /\ \/ Calls("ui", "clear") /\ events' = {}
     \/ Calls("ui", "clear keys") /\ events' = events \ Keys
  /\ Returns("ui", << >>)
  /\ UNCHANGED <<place, suspension, panel, mutexes, drawing, pixels, logger>>

\* The thread of the sensor view is created, told to end, and waited for.
ViewThread ==
  /\ \/ Calls("ui", "spawn") /\ drawing' = TRUE
     \/ Calls("ui", "terminate") /\ drawing' = FALSE
     \/ Calls("ui", "join") /\ todo["view"] = << >> /\ drawing' = drawing
  /\ Returns("ui", << >>)
  /\ UNCHANGED <<place, events, suspension, panel, mutexes, pixels, logger>>

\* Fault: the message is not forgotten.
ShowErrorAgain ==
  /\ \/ /\ Calls("ui", "error")
        /\ Returns("ui", IF err_msg THEN Redraw \o Redraw \o <<"shown">> ELSE << >>)
     \/ Calls("ui", "shown") /\ Returns("ui", << >>)
  /\ UNCHANGED <<place, events, suspension, panel, mutexes, drawing, pixels, logger>>

\* The message of the log thread is shown, then forgotten.
ShowError ==
  /\ \/ /\ Calls("ui", "error")
        /\ Returns("ui", IF err_msg THEN Redraw \o Redraw \o <<"shown">> ELSE << >>)
        /\ err_msg' = err_msg
     \/ /\ Calls("ui", "shown")
        /\ Returns("ui", << >>)
        /\ err_msg' = FALSE
  /\ UNCHANGED <<place, events, suspension, panel, mutexes, drawing, pixels, env>>

-----------------------------------------------------------------------------
(* The event loops of the screens.                                         *)

\* The UI thread is in the wait w and chEvtWaitOne(mask) returns e.
Receives(w, mask, e) ==
  /\ waits["ui"] = None /\ todo["ui"] = << >> /\ at = w
  /\ e \in events \intersect mask
  /\ \A f \in events \intersect mask : Bit[e] <= Bit[f]
  /\ events' = events \ {e}

\* The UI thread goes on with the calls in ops, then waits at w in screen s.
Goes(s, w, ops) ==
  /\ screen' = s
  /\ at' = w
  /\ todo' = [todo EXCEPT !["ui"] = ops]
  /\ UNCHANGED <<suspension, panel, mutexes, drawing, pixels, logger>>

\* Fault: a suspended loop does not wait for RESUME.
GlobalEventNoWait ==
  \E e \in {"RESUME", "SUSPEND"} :
    /\ Receives("loop", Masks, e)
    /\ Goes(screen, "loop", Seen(e))

\* RESUME and SUSPEND, in every screen: after SUSPEND the thread waits for RESUME.
GlobalEvent ==
  \E e \in {"RESUME", "SUSPEND"} :
    /\ Receives("loop", Masks, e)
    /\ Goes(screen, IF e = "SUSPEND" THEN "asleep" ELSE "loop", Seen(e))

\* Fault: the wait for RESUME forgets what is pending first.
WokenForgetting ==
  /\ waits["ui"] = None /\ todo["ui"] = << >> /\ at = "asleep"
  /\ events # {}
  /\ events' = {}
  /\ Goes(screen, "asleep", << >>)

\* chEvtWaitOne(MASK_RESUME), chEvtGetAndClearEvents(ALL_EVENTS), handle_evt(MASK_RESUME)
Woken ==
  /\ Receives("asleep", {"RESUME"}, "RESUME")
  /\ Goes(screen, "loop", <<"clear", "resume">>)

\* A menu: an arrow draws the next item, BACK does nothing in the main menu,
\* and SELECT launches the view, a test or the logger.
MenuKey ==
  /\ screen = "menu"
  /\ \/ Receives("loop", Masks, "ARROW") /\ Goes("menu", "loop", Redraw)
     \/ Receives("loop", Masks, "BACK") /\ Goes("menu", "loop", << >>)
     \/ /\ Receives("loop", Masks, "SELECT")
        /\ \/ Goes("view", "loop", <<"inhibit">> \o Drawing("wipe") \o <<"spawn", "clear">>)
           \/ Goes("test", "button", <<"inhibit">> \o Redraw \o <<"clear keys">>)
           \/ Goes("test", "button", Redraw \o <<"clear keys">>)

\* err_msg is emptied on entry to the logger.
LaunchLogger ==
  /\ screen = "menu"
  /\ Receives("loop", Masks, "SELECT")
  /\ screen' = "sensors" /\ at' = "loop"
  /\ todo' = [todo EXCEPT !["ui"] = Draw \o Redraw \o <<"clear">>]
  /\ err_msg' = FALSE
  /\ UNCHANGED <<suspension, panel, mutexes, drawing, pixels, env>>

\* The sensor view: BACK and SELECT end its thread, but the loop goes on.
ViewKey ==
  /\ screen = "view"
  /\ \/ Receives("loop", Masks, "ARROW") /\ Goes("view", "loop", << >>)
     \/ \E e \in {"SELECT", "BACK"} :
          /\ Receives("loop", Masks, e)
          /\ Goes("view", "loop", <<"terminate", "join", "enable">>)

\* The logger: an arrow moves between the sensors and the run screen unless the
\* log is running; SELECT toggles a sensor or the log, then falls through to the
\* wait for RESUME; BACK leaves.
LoggerKey ==
  /\ screen \in {"sensors", "run"}
  /\ \/ /\ Receives("loop", Masks, "ARROW")
        /\ \/ \E s \in {"sensors", "run"} : Goes(s, "loop", Seen("ARROW") \o Redraw)
           \/ Goes(screen, "loop", Seen("ARROW"))
     \/ Receives("loop", Masks, "SELECT") /\ Goes(screen, "asleep", Seen("SELECT") \o Redraw)
     \/ Receives("loop", Masks, "BACK") /\ Goes("menu", "loop", Seen("BACK") \o Redraw)

\* The logger's wait times out and there is a message.
LoggerPoll ==
  /\ screen = "run" /\ at = "loop"
  /\ waits["ui"] = None /\ todo["ui"] = << >>
  /\ events = {} /\ err_msg
  /\ Goes("run", "loop", <<"error">>)
  /\ UNCHANGED events

\* UI::wait_for_button(MASK_SELECT) in a test.  The test goes on to another wait,
\* perhaps with the panel off around a measurement, or back to its menu.
TestKey ==
  /\ Receives("button", {"SELECT", "SUSPEND"}, "SELECT")
  /\ \/ \E measure \in {<< >>, sleep \o wake, suspend \o <<"resume">>} :
          Goes("test", "button", <<"clear keys">> \o measure \o Redraw \o <<"clear keys">>)
     \/ LET done == IF suspend_enabled THEN << >> ELSE <<"enable">>
        IN  Goes("menu", "loop", <<"clear keys">> \o done \o Redraw)

TestSuspend ==
  /\ Receives("button", {"SELECT", "SUSPEND"}, "SUSPEND")
  /\ Goes(screen, "button asleep", suspend)

TestWoken ==
  /\ Receives("button asleep", {"RESUME"}, "RESUME")
  /\ Goes(screen, "button", <<"resume", "clear">>)

-----------------------------------------------------------------------------
(* The other threads and the interrupts.                                   *)

\* Fault: the monitor leaves sending to the screens.
run_monitorDraws ==
  /\ \/ /\ waits["monitor"] = None /\ todo["monitor"] = << >>
        /\ todo' = [todo EXCEPT !["monitor"] = Drawing("row") \o <<"check">>]
     \/ /\ Calls("monitor", "check")
        /\ Returns("monitor", << >>)
  /\ UNCHANGED <<place, events, suspension, panel, mutexes, drawing, pixels, logger>>

\* The monitor thread draws its row, and sends it unless the display is suspended.
run_monitor ==
  /\ \/ /\ waits["monitor"] = None /\ todo["monitor"] = << >>
        /\ todo' = [todo EXCEPT !["monitor"] = Drawing("row") \o <<"check">>]
     \/ /\ Calls("monitor", "check")
        /\ Returns("monitor", IF is_suspended THEN << >> ELSE update)
  /\ UNCHANGED <<place, events, suspension, panel, mutexes, drawing, pixels, logger>>

\* The thread of the sensor view draws every sample.
ViewSample ==
  /\ drawing /\ waits["view"] = None /\ todo["view"] = << >>
  /\ todo' = [todo EXCEPT !["view"] = Draw \o (IF Bars THEN Drawing("bar") ELSE << >>) \o update]
  /\ UNCHANGED <<place, events, suspension, panel, mutexes, drawing, pixels, logger>>

\* The log thread cannot mount or open a file.
LogError ==
  /\ env.logFails /\ screen \in {"sensors", "run"} /\ ~err_msg
  /\ err_msg' = TRUE
  /\ UNCHANGED <<place, todo, events, suspension, panel, mutexes, drawing, pixels, env>>

\* Fault: a key does not ask to resume.
handle_keyAlone ==
  /\ \E k \in Keys \union {"BACK"} : events' = events \union {k}
  /\ UNCHANGED <<place, todo, suspension, panel, mutexes, drawing, pixels, logger>>

\* handle_left, handle_right, handle_select and handle_back, in the interrupt.
handle_key ==
  /\ \E k \in Keys \union {"BACK"} : events' = events \union {k, "RESUME"}
  /\ UNCHANGED <<place, todo, suspension, panel, mutexes, drawing, pixels, logger>>

\* The suspend timer expires.
handle_suspend ==
  /\ env.userIdles /\ armed
  /\ armed' = FALSE
  /\ events' = events \union {"SUSPEND"}
  /\ UNCHANGED <<place, todo, suspend_enabled, is_suspended, panel, mutexes, drawing, pixels, logger>>

-----------------------------------------------------------------------------

Common(t) == (\E m \in Mutexes : chMtxLock(t, m)) \/ chMtxUnlock(t) \/ draw(t) \/ transmit_data_sync(t)

UIThread ==
  \/ Common("ui") \/ SwitchPanel \/ MarkSuspended \/ resume \/ inhibit_suspend
  \/ enable_suspend \/ ClearEvents \/ ViewThread \/ ShowError
  \/ GlobalEvent \/ Woken \/ MenuKey \/ LaunchLogger \/ ViewKey \/ LoggerKey \/ LoggerPoll
  \/ TestKey \/ TestSuspend \/ TestWoken

MonitorThread == Common("monitor") \/ run_monitor

SensorViewThread == Common("view") \/ ViewSample

Next ==
  \/ UIThread \/ MonitorThread \/ SensorViewThread
  \/ LogError \/ handle_key \/ handle_suspend

\* The UI and monitor threads have one priority and share the processor in time
\* slices; the view's thread runs while they wait.  Nobody has to press a key.
Fairness == WF_vars(UIThread) /\ WF_vars(MonitorThread) /\ WF_vars(SensorViewThread)

Spec == Init /\ [][Next]_vars /\ Fairness

-----------------------------------------------------------------------------
(* Properties.                                                             *)

\* "The mutex is checked, if the mutex is not owned by some other thread then it is
\* associated to the locking thread": no thread is queued on a mutex it owns, though
\* the UI thread returns to its event loop with the suspend_lock.
NoSelfDeadlock == \A t \in Threads : waits[t] # None => owner[waits[t]] # t

\* There are no threads that all wait for mutexes owned by one of them.
NoDeadlock ==
  ~ \E W \in (SUBSET Threads) \ {{}} :
      \A t \in W : waits[t] # None /\ owner[waits[t]] \in W

\* Back in an event wait, the UI thread owns the suspend_lock exactly when the
\* display is suspended, and owns nothing else: every anonymous unlock released
\* the mutex it was meant for.
SuspendedHoldsLock ==
  todo["ui"] = << >> /\ waits["ui"] = None =>
    stack["ui"] = IF is_suspended THEN <<"suspend_lock">> ELSE << >>

\* Nobody sends pixels to a panel that is switched off, although the monitor tests
\* is_suspended long before it draws.
NoDataToSleepingPanel == \A t \in Threads : Calls(t, "data") => panel

\* The panel stays lit while the sensor view draws, whatever was pending when
\* suspending was inhibited.
ViewStaysLit == drawing => panel

\* Whatever is drawn and not yet on the panel is between the dirty limits, although
\* three threads draw, and any of them sends and resets what the others have drawn.
UnsentIsDirty == unsent \subseteq Dirty(limits)

\* A loop that is not suspended never waits for a key that was already pressed:
\* the logger's SELECT falls through to the wait for RESUME.
AwakeLoopNotStuck ==
  at = "asleep" /\ todo["ui"] = << >> => is_suspended \/ "RESUME" \in events

\* A key pressed while the display is suspended resumes it, and the threads that
\* waited to draw go on.
KeyResumes ==
  (at \in {"asleep", "button asleep"} /\ "RESUME" \in events)
    ~> (~is_suspended /\ waits["monitor"] # "suspend_lock")

\* What is drawn reaches the panel, at the latest with the monitor's next turn, unless
\* the display is suspended.
DrawnIsShown == \A p \in Page : (p \in unsent /\ ~is_suspended) ~> (p \notin unsent \/ is_suspended)

\* "On run screen and error has occurred": the message of the log thread is shown
\* and forgotten if the user stays on the run screen.
ErrorShown == (err_msg /\ screen = "run" /\ ~env.userIdles) ~> (~err_msg \/ screen # "run")

=============================================================================
