------------------------------- MODULE Button -------------------------------
(***************************************************************************)
(* The push buttons of sw_imu/imu/button.cpp.  An edge of a pin interrupts *)
(* and, if the button has changed, switches its own interrupt off and      *)
(* starts a timer of 20 ms; when that expires the pin is read again, a     *)
(* press that is still there is reported to the UI thread, and the         *)
(* interrupt is switched on again.                                         *)
(*                                                                         *)
(* Each function reads the pin once and acts on what it read: between the  *)
(* two the pin may move, and the handlers may interrupt the UI thread,     *)
(* which switches the interrupts on when they are already on.              *)
(***************************************************************************)
EXTENDS Naturals, FiniteSets

CONSTANTS
  Buttons,
  Hands,        \* bound: the buttons that may be touched at the same time
  BootPress     \* may a pin move before UI::run() has set the handlers?

ASSUME ButtonAssumption ==
  /\ "none" \notin Buttons
  /\ Hands \in Nat /\ BootPress \in BOOLEAN

VARIABLES
  pin,       \* check_gpio() of each button
  state,     \* what the button's object remembers of it
  enabled,   \* the buttons whose channel is enabled
  pr,        \* the pending register: edges of enabled channels
  isr,       \* the channels the running interrupt has still to call
  armed,     \* the buttons whose timer is set
  looked,    \* what each of three functions has read of a pin and not yet used
  boot,      \* how far UI::run() is with each button
  events,    \* the keys in p_epending of the UI thread
  due,       \* the buttons pushed from rest and not yet reported
  missed     \* the buttons that have moved between the last reading and its use

channels == <<enabled, pr, isr>>
buttonVars == <<pin, state, enabled, pr, isr, armed, looked, boot, events, due, missed>>

Pins == {"PRESSED", "RELEASED"}
Nobody == "none"
Nothing == [button |-> Nobody, read |-> Nobody]
Functions == {"handle_callback", "handle_debounce", "enable"}

ButtonTypeOK ==
  /\ pin \in [Buttons -> Pins] /\ state \in [Buttons -> Pins]
  /\ enabled \subseteq Buttons /\ pr \subseteq Buttons /\ isr \subseteq Buttons
  /\ armed \subseteq Buttons
  /\ looked \in [Functions -> [button : Buttons, read : Pins] \union {Nothing}]
  /\ boot \in [Buttons -> {"enable", "state", "handler", "done"}]
  /\ events \subseteq Buttons /\ due \subseteq Buttons /\ missed \subseteq Buttons

\* The channels start with extStart(), before the UI thread.  The constructor reads
\* a port that has no clock yet: state is anything.
ButtonInit ==
  /\ pin = [b \in Buttons |-> "RELEASED"]
  /\ state \in [Buttons -> Pins]
  /\ enabled = Buttons /\ pr = {} /\ isr = {} /\ armed = {}
  /\ looked = [f \in Functions |-> Nothing]
  /\ boot = [b \in Buttons |-> "enable"]
  /\ events = {} /\ due = {} /\ missed = {}

booted == \A b \in Buttons : boot[b] = "done"

Looks(f, b) == looked' = [looked EXCEPT ![f] = [button |-> b, read |-> pin[b]]]
Acted(f) == looked' = [looked EXCEPT ![f] = Nothing]

\* The state is set to what was read; an edge since then is lost.
Settled(l) ==
  /\ state' = [state EXCEPT ![l.button] = l.read]
  /\ missed' = IF pin[l.button] = l.read THEN missed \ {l.button} ELSE missed \union {l.button}

Looking(b) == \E f \in Functions : looked[f].button = b

\* The button's channel waits for an edge, and nothing else is to happen to it.
Idle(b) ==
  /\ boot[b] \in {"handler", "done"} /\ b \in enabled
  /\ b \notin pr \union isr \union armed /\ ~ Looking(b)

\* Nothing is going on with the button.
AtRest(b) == Idle(b) /\ pin[b] = "RELEASED" /\ state[b] = "RELEASED"

\* The pin moves, by the user's hand or by bouncing; an enabled channel sees both edges.
move(b) ==
  /\ booted \/ BootPress
  /\ Cardinality({c \in Buttons \ {b} : ~ AtRest(c) \/ c \in events}) < Hands
  /\ pin' = [pin EXCEPT ![b] = IF @ = "PRESSED" THEN "RELEASED" ELSE "PRESSED"]
  /\ pr' = pr \union ({b} \intersect enabled)
  /\ due' = IF booted /\ AtRest(b) THEN due \union {b} ELSE due
  /\ UNCHANGED <<state, enabled, isr, armed, looked, boot, events, missed>>

\* The buttons of a board share an interrupt, which takes all pending channels.
interrupt ==
  /\ isr = {} /\ pr # {}
  /\ isr' = pr
  /\ pr' = {}
  /\ UNCHANGED <<pin, state, enabled, armed, looked, boot, events, due, missed>>

\* Fault: the channel stays enabled while the timer runs.
handle_callbackOn ==
  \/ \E b \in isr :
       /\ looked["handle_callback"] = Nothing
       /\ Looks("handle_callback", b)
       /\ UNCHANGED <<pin, state, channels, armed, boot, events, due, missed>>
  \/ LET l == looked["handle_callback"]
         b == l.button
     IN  /\ l # Nothing
         /\ Acted("handle_callback")
         /\ isr' = isr \ {b}
         /\ state' = [state EXCEPT ![b] = l.read]
         /\ armed' = IF state[b] # l.read THEN armed \union {b} ELSE armed
         /\ UNCHANGED <<pin, enabled, pr, boot, events, due, missed>>

\* The first half reads the pin; in the second a transition disables the channel,
\* which forgets its edges, and sets the timer.
handle_callback ==
  \/ \E b \in isr :
       /\ looked["handle_callback"] = Nothing
       /\ Looks("handle_callback", b)
       /\ UNCHANGED <<pin, state, channels, armed, boot, events, due, missed>>
  \/ LET l == looked["handle_callback"]
         b == l.button
     IN  /\ l # Nothing
         /\ Acted("handle_callback")
         /\ isr' = isr \ {b}
         /\ IF state[b] # l.read
            THEN /\ state' = [state EXCEPT ![b] = l.read]
                 /\ enabled' = enabled \ {b} /\ pr' = pr \ {b}
                 /\ armed' = armed \union {b}
            ELSE UNCHANGED <<state, enabled, pr, armed>>
         /\ UNCHANGED <<pin, boot, events, due, missed>>

\* handle_left, handle_right, handle_select of the UI, if they are set already.
press_handler(b) ==
  /\ events' = IF boot[b] = "done" THEN events \union {b} ELSE events
  /\ due' = due \ {b}

\* The timer expires in the tick, which the channels' interrupt may interrupt.
expire(b) ==
  /\ b \in armed
  /\ isr = {} /\ looked["handle_debounce"] = Nothing
  /\ armed' = armed \ {b}
  /\ Looks("handle_debounce", b)
  /\ UNCHANGED <<pin, state, channels, boot, events, due, missed>>

\* Fault: what the timer finds is not remembered.
handle_debounceStale ==
  LET l == looked["handle_debounce"]
      b == l.button
  IN  /\ l # Nothing /\ isr = {}
      /\ Acted("handle_debounce")
      /\ IF state[b] = l.read /\ l.read = "PRESSED"
         THEN press_handler(b)
         ELSE UNCHANGED <<events, due>>
      /\ enabled' = enabled \union {b}
      /\ UNCHANGED <<pin, state, pr, isr, armed, boot, missed>>

\* A state that has lasted is reported; no release handler is ever set.
handle_debounce ==
  LET l == looked["handle_debounce"]
      b == l.button
  IN  /\ l # Nothing /\ isr = {}
      /\ Acted("handle_debounce")
      /\ IF state[b] = l.read /\ l.read = "PRESSED"
         THEN press_handler(b)
         ELSE UNCHANGED <<events, due>>
      /\ Settled(l)
      /\ enabled' = enabled \union {b}
      /\ UNCHANGED <<pin, pr, isr, armed, boot>>

\* The UI thread starts, with no interrupt running: enable() switches the channel on
\* and takes the pin for the state; then all handlers are set.
UIStarts ==
  /\ isr = {} /\ looked["handle_debounce"] = Nothing
  /\ \/ \E b \in Buttons :
          /\ looked["enable"] = Nothing /\ boot[b] = "enable"
          /\ enabled' = enabled \union {b}
          /\ boot' = [boot EXCEPT ![b] = "state"]
          /\ Looks("enable", b)
          /\ UNCHANGED <<state, missed>>
     \/ LET l == looked["enable"] IN
          /\ l # Nothing
          /\ Settled(l)
          /\ boot' = [boot EXCEPT ![l.button] = "handler"]
          /\ Acted("enable")
          /\ UNCHANGED enabled
     \/ /\ \A b \in Buttons : boot[b] = "handler"
        /\ boot' = [b \in Buttons |-> "done"]
        /\ UNCHANGED <<state, enabled, looked, missed>>
  /\ UNCHANGED <<pin, pr, isr, armed, events, due>>

ButtonNext ==
  \/ interrupt \/ handle_callback \/ handle_debounce \/ UIStarts
  \/ \E b \in Buttons : expire(b) \/ move(b)

\* The tick may be held up by the channels' interrupts, but not for ever.
ButtonFairness ==
  /\ WF_buttonVars(interrupt) /\ WF_buttonVars(handle_callback) /\ WF_buttonVars(UIStarts)
  /\ SF_buttonVars(handle_debounce)
  /\ \A b \in Buttons : SF_buttonVars(expire(b))

-----------------------------------------------------------------------------
(* Properties.                                                             *)

\* A button whose channel waits for an edge knows its pin, so that the next edge is a
\* transition and is not taken for a bounce; unless the pin moved while the last
\* handle_debounce() was between reading it and enabling the channel.
IdleKnowsPin == \A b \in Buttons : Idle(b) /\ b \notin missed => state[b] = pin[b]

\* "After invoking the callback the timer is disabled and the structure can be
\* disposed or reused": a button's timer is not set while it is in the kernel's list.
TimerNotReused ==
  LET l == looked["handle_callback"]
  IN  l # Nothing /\ state[l.button] # l.read => l.button \notin armed

\* A key is reported only for a push of a button at rest, and once for each, however
\* the pin bounces; unless an edge has been missed.
OneReportPerPush ==
  [][\A b \in Buttons : b \in events' /\ b \notin events => b \in due \union missed]_buttonVars

\* A push is reported if the pin stays down in the end, unless an edge has been missed.
PushReported ==
  \A b \in Buttons : b \in due ~> (b \notin due \/ pin[b] = "RELEASED" \/ b \in missed)

=============================================================================
