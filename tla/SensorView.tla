----------------------------- MODULE SensorView -----------------------------
(***************************************************************************)
(* The sensor view, sw_imu/src/ui/sensor_view.cpp, from the pins of the    *)
(* buttons to the reference counts of the sensors.  The UI thread changes  *)
(* mode on a key; the view's thread, of a lower priority, reads mode when  *)
(* it compares it with the mode it shows, when it registers its listener   *)
(* and when it remembers what it shows, with no lock.                      *)
(*                                                                         *)
(* The four listeners of the object share their memory, so there is one    *)
(* listener, of the kind it was initialised as.  A required sensor         *)
(* samples, as Acquisition shows; its thread, of the highest priority,     *)
(* puts samples in between any two steps.                                  *)
(***************************************************************************)
EXTENDS Button, Sequences

CONSTANTS
  Modes,        \* the sequence of the modes, mode_t
  Timed,        \* the modes whose receive_to has a timeout
  Reliable,     \* the sensors that go on sampling while they are required
  buffer_len,   \* 8 in the code
  RefMod,       \* a reference count has 32 bits in the code
  KeyInSwitch   \* may a key be taken while the view's thread changes the sensor?

ASSUME ViewAssumption ==
  /\ {"ARROW", "SELECT"} \subseteq Buttons
  /\ Modes \in Seq(STRING) /\ Len(Modes) > 1
  /\ buffer_len \in Nat \ {0} /\ RefMod \in Nat /\ RefMod > 2
  /\ KeyInSwitch \in BOOLEAN

Sensors == {Modes[i] : i \in 1 .. Len(Modes)}
MODE_ACC == Modes[1]

VARIABLES
  ui,         \* the UI thread: in the "menu", in the view's "loop" or "joining" its thread
  terminate,  \* chThdTerminate() of the view's thread
  mode,       \* what the user chose
  old_mode,   \* what the view's thread shows
  picked,     \* the mode it has registered for
  pc,         \* where it is
  listed,     \* the sources that have the listener in their list
  kind,       \* the sensor the listener was initialised for
  cnt,        \* the samples in its buffer
  ref         \* the reference counts of Acquisition

thread == <<old_mode, picked, pc, listed, kind, ref>>
view == <<ui, terminate, mode, thread, cnt>>
vars == <<view, buttonVars>>

Places == {"none", "start", "require", "compare", "pick", "register", "remember",
           "receive", "end", "leave", "gone"}

TypeOK ==
  /\ ButtonTypeOK
  /\ ui \in {"menu", "loop", "joining"} /\ terminate \in BOOLEAN
  /\ {mode, old_mode, picked, kind} \subseteq Sensors
  /\ pc \in Places
  /\ listed \subseteq Sensors /\ cnt \in 0 .. buffer_len
  /\ ref \in [Sensors -> 0 .. RefMod - 1]

Init ==
  /\ ButtonInit
  /\ ui = "menu" /\ terminate = FALSE
  /\ mode = MODE_ACC /\ old_mode = MODE_ACC /\ picked = MODE_ACC /\ kind = MODE_ACC
  /\ pc = "none" /\ listed = {} /\ cnt = 0
  /\ ref = [s \in Sensors |-> 0]

-----------------------------------------------------------------------------
(* The UI thread: every step of it takes a key.                            *)

\* The events are bits, and the arrows' are lower than SELECT's.
Takes(k) ==
  /\ booted /\ k \in events
  /\ k = "SELECT" => "ARROW" \notin events
  /\ events' = events \ {k}
  /\ UNCHANGED <<pin, state, channels, armed, looked, boot, due, missed>>

\* The switch of the view's thread, from comparing mode to remembering it.
Switching == pc \in {"pick", "register", "remember"}

\* SELECT in the main menu starts the thread and forgets the other keys.
exec ==
  /\ ui = "menu" /\ Takes("SELECT")
  /\ ui' = "loop" /\ pc' = "start"
  /\ UNCHANGED <<terminate, mode, old_mode, picked, listed, kind, cnt, ref>>

\* LEFT and RIGHT move through the modes in a circle.
arrow ==
  /\ ui = "loop" /\ Takes("ARROW")
  /\ Switching => KeyInSwitch
  /\ \E i, j \in 1 .. Len(Modes) :
       /\ Modes[i] = mode /\ mode' = Modes[j]
       /\ (i - j) % Len(Modes) = 1 \/ (j - i) % Len(Modes) = 1
  /\ UNCHANGED <<ui, terminate, thread, cnt>>

\* The menu moves on an arrow.
menu ==
  /\ ui = "menu" /\ Takes("ARROW")
  /\ UNCHANGED view

\* SELECT and BACK join the thread, at once if it has ended before.
select ==
  /\ ui = "loop" /\ Takes("SELECT")
  /\ terminate' = TRUE
  /\ ui' = "joining"
  /\ UNCHANGED <<mode, thread, cnt>>

\* The loop goes on: it tests the UI thread's own flag, which nobody sets.
joined ==
  /\ ui = "joining" /\ pc = "gone"
  /\ ui' = "loop"
  /\ UNCHANGED <<terminate, mode, thread, cnt, buttonVars>>

UIThread == exec \/ arrow \/ menu \/ select \/ joined

-----------------------------------------------------------------------------
(* The view's thread.                                                      *)

Goto(from, to) == pc = from /\ pc' = to

require_sources(s) == ref' = [ref EXCEPT ![s] = (@ + 1) % RefMod]
norequire_sources(s) == ref' = [ref EXCEPT ![s] = (@ + RefMod - 1) % RefMod]

\* The listener is initialised, and linked at once.
registered(s) == kind' = s /\ cnt' = 0 /\ listed' = listed \union {s}

\* It is alone in its list and is reset.  Where it is not in the list, the empty list
\* is read through a null pointer: what follows is not modelled, and the thread stops.
unregister_queue(s) ==
  /\ s \in listed
  /\ listed' = listed \ {s}
  /\ cnt' = 0

start ==
  /\ Goto("start", "require")
  /\ old_mode' = MODE_ACC
  /\ registered(MODE_ACC)
  /\ UNCHANGED <<picked, ref>>

require ==
  /\ Goto("require", "compare")
  /\ require_sources(MODE_ACC)
  /\ UNCHANGED <<old_mode, picked, listed, kind, cnt>>

compare ==
  /\ pc = "compare"
  /\ pc' = IF terminate THEN "end" ELSE IF mode # old_mode THEN "pick" ELSE "receive"
  /\ UNCHANGED <<old_mode, picked, listed, kind, cnt, ref>>

\* Fault: the old sensor stays required.
pickOnly ==
  /\ Goto("pick", "register")
  /\ unregister_queue(old_mode)
  /\ picked' = mode
  /\ require_sources(mode)
  /\ UNCHANGED <<old_mode, kind>>

\* The old sensor is given back, then mode is read again and the new one is required.
pick ==
  /\ Goto("pick", "register")
  /\ unregister_queue(old_mode)
  /\ picked' = mode
  /\ ref' = [s \in Sensors |->
       (ref[s] + (IF s = mode THEN 1 ELSE 0) + (IF s = old_mode THEN RefMod - 1 ELSE 0)) % RefMod]
  /\ UNCHANGED <<old_mode, kind>>

register ==
  /\ Goto("register", "remember")
  /\ registered(picked)
  /\ UNCHANGED <<old_mode, picked, ref>>

\* And mode is read for the third time.
remember ==
  /\ Goto("remember", "receive")
  /\ old_mode' = mode
  /\ UNCHANGED <<picked, listed, kind, cnt, ref>>

\* Fault: every mode waits for its sample.
receive_toForever ==
  /\ Goto("receive", "compare")
  /\ cnt > 0
  /\ cnt' = cnt - 1
  /\ UNCHANGED <<old_mode, picked, listed, kind, ref>>

\* A sample is taken and drawn; without one, two of the modes give up after 100 ms.
receive_to ==
  /\ Goto("receive", "compare")
  /\ cnt > 0 \/ old_mode \in Timed
  /\ cnt' = IF cnt > 0 THEN cnt - 1 ELSE 0
  /\ UNCHANGED <<old_mode, picked, listed, kind, ref>>

end ==
  /\ Goto("end", "leave")
  /\ norequire_sources(old_mode)
  /\ UNCHANGED <<old_mode, picked, listed, kind, cnt>>

leave ==
  /\ Goto("leave", "gone")
  /\ unregister_queue(old_mode)
  /\ UNCHANGED <<old_mode, picked, kind, ref>>

thread_action ==
  /\ start \/ require \/ compare \/ pick \/ register \/ remember \/ receive_to \/ end \/ leave
  /\ UNCHANGED <<ui, terminate, mode, buttonVars>>

\* Fault: a full buffer takes another sample.
putUnchecked(s) ==
  /\ s \in listed /\ ref[s] # 0
  /\ cnt' = cnt + 1
  /\ UNCHANGED <<ui, terminate, mode, thread, buttonVars>>

\* The sensor's thread, if the sensor is required and its source has the listener.
put(s) ==
  /\ s \in listed /\ ref[s] # 0
  /\ cnt < buffer_len
  /\ cnt' = cnt + 1
  /\ UNCHANGED <<ui, terminate, mode, thread, buttonVars>>

Next ==
  \/ UIThread
  \/ thread_action
  \/ \E s \in Sensors : put(s)
  \/ ButtonNext /\ UNCHANGED view

Spec ==
  /\ Init /\ [][Next]_vars
  /\ ButtonFairness
  /\ WF_vars(UIThread) /\ WF_vars(thread_action)
  /\ \A s \in Reliable : WF_vars(put(s))

-----------------------------------------------------------------------------
(* Properties.                                                             *)

\* While it receives, the view requires and listens to the sensor it shows, with a
\* listener of that kind, and no other; when it has ended, nothing is left behind.
HoldsWhatItShows ==
  /\ pc = "receive" =>
       /\ listed = {old_mode} /\ kind = old_mode
       /\ ref = [s \in Sensors |-> IF s = old_mode THEN 1 ELSE 0]
  /\ pc = "gone" => listed = {} /\ ref = [s \in Sensors |-> 0]

\* "A count of the number of tasks that indicate that they require each sensor": the
\* view is the only task here.
CountsTasks == \A s \in Sensors : ref[s] \in {0, 1}

\* The mode the user has chosen is shown, unless another is chosen or the view left.
ShowsChosenMode ==
  \A m \in Sensors :
    (ui = "loop" /\ mode = m) ~>
      ((old_mode = m /\ pc = "receive") \/ mode # m \/ terminate)

\* terminate() returns: SELECT and BACK end the view's thread wherever it is, if the
\* sensor it waits for without a timeout goes on sampling, and the UI thread takes keys
\* again.  It does so in the view, whose loop goes on without its thread: that the screen
\* is left is not what this says, nor what the code does.
TerminateReturns == ui = "joining" ~> ui = "loop"

=============================================================================
