--------------------------- MODULE Button_proofs ----------------------------
(***************************************************************************)
(* Lemmas on the steps of Button, from which SensorView_proofs has the     *)
(* theorems: the buttons are part of the view there.                       *)
(***************************************************************************)
EXTENDS Button, TLAPS

\* What handle_callback() has read is still so, or another edge is pending.
Fresh ==
  LET l == looked["handle_callback"]
  IN  l # Nothing =>
        /\ l.button \in isr
        /\ l.button \in enabled \ pr => l.read = pin[l.button]

KnowsInv == ButtonTypeOK /\ Fresh /\ IdleKnowsPin

-----------------------------------------------------------------------------
(* A button knows its pin.                                                 *)

\* The value of looked that means nothing is the reading of no button.
LEMMA NobodyIsNoButton == Nobody \notin Buttons
  BY ButtonAssumption DEF Nobody

\* At power-up nothing has been read, and no button is through UI::run().
LEMMA KnowsAtFirst == ButtonInit => KnowsInv
  BY DEF ButtonInit, KnowsInv, ButtonTypeOK, Fresh, IdleKnowsPin, Idle, Functions, Pins,
         Nothing, Nobody

\* The types are kept by every step of the buttons.
LEMMA ButtonTypeStep ==
  ASSUME ButtonTypeOK, ButtonNext
  PROVE  ButtonTypeOK'
<1> USE DEF ButtonTypeOK, Pins, Functions, Nothing, Nobody, channels
<1>1. CASE interrupt
  BY <1>1 DEF interrupt
<1>2. CASE handle_callback
  BY <1>2 DEF handle_callback, Looks, Acted
<1>3. CASE handle_debounce
  BY <1>3 DEF handle_debounce, Acted, Settled, press_handler
<1>4. CASE UIStarts
  BY <1>4 DEF UIStarts, Looks, Acted, Settled
<1>5. ASSUME NEW b \in Buttons, expire(b)
      PROVE  ButtonTypeOK'
  BY <1>5 DEF expire, Looks
<1>6. ASSUME NEW b \in Buttons, move(b)
      PROVE  ButtonTypeOK'
  BY <1>6 DEF move
<1> QED
  BY <1>1, <1>2, <1>3, <1>4, <1>5, <1>6 DEF ButtonNext

\* No edge seen between two steps is forgotten while the handler holds what it read.
LEMMA FreshStep ==
  ASSUME ButtonTypeOK, Fresh, ButtonNext
  PROVE  Fresh'
<1> USE DEF ButtonTypeOK, Fresh, Pins, Functions, Nothing, Nobody, channels
<1>1. CASE interrupt
  BY <1>1, ButtonAssumption DEF interrupt
<1>2. CASE handle_callback
  BY <1>2, ButtonAssumption DEF handle_callback, Looks, Acted
<1>3. CASE handle_debounce
  BY <1>3, ButtonAssumption DEF handle_debounce, Acted
<1>4. CASE UIStarts
  BY <1>4, ButtonAssumption DEF UIStarts, Looks, Acted
<1>5. ASSUME NEW b \in Buttons, expire(b)
      PROVE  Fresh'
  BY <1>5, ButtonAssumption DEF expire, Looks
<1>6. ASSUME NEW b \in Buttons, move(b)
      PROVE  Fresh'
  BY <1>6, ButtonAssumption DEF move
<1> QED
  BY <1>1, <1>2, <1>3, <1>4, <1>5, <1>6 DEF ButtonNext

\* A button that waits for an edge after a step waited before it, or the step has
\* just set its state from a reading that is the pin still, or has counted it missed.
LEMMA IdleKnowsPinStep ==
  ASSUME ButtonTypeOK, Fresh, IdleKnowsPin, ButtonNext
  PROVE  IdleKnowsPin'
<1> USE DEF ButtonTypeOK, IdleKnowsPin, Idle, Looking, Pins, Functions, Nothing, Nobody, channels
<1>1. CASE interrupt
  BY <1>1, ButtonAssumption DEF interrupt
<1>2. CASE handle_callback
  BY <1>2, ButtonAssumption DEF handle_callback, Looks, Acted, Fresh
<1>3. CASE handle_debounce
  BY <1>3, ButtonAssumption DEF handle_debounce, Acted, Settled
<1>4. CASE UIStarts
  BY <1>4, ButtonAssumption DEF UIStarts, Looks, Acted, Settled
<1>5. ASSUME NEW b \in Buttons, expire(b)
      PROVE  IdleKnowsPin'
  BY <1>5, ButtonAssumption DEF expire, Looks
<1>6. ASSUME NEW b \in Buttons, move(b)
      PROVE  IdleKnowsPin'
  BY <1>6, ButtonAssumption DEF move
<1> QED
  BY <1>1, <1>2, <1>3, <1>4, <1>5, <1>6 DEF ButtonNext

\* The three together are kept by every step of the buttons.
LEMMA KnowsStep ==
  ASSUME KnowsInv, ButtonNext
  PROVE  KnowsInv'
  BY ButtonTypeStep, FreshStep, IdleKnowsPinStep DEF KnowsInv

\* Taking a key of the UI thread's events changes none of it.
LEMMA KnowsWithoutEvents ==
  ASSUME KnowsInv, events' \subseteq events,
         UNCHANGED <<pin, state, channels, armed, looked, boot, due, missed>>
  PROVE  KnowsInv'
  BY DEF KnowsInv, ButtonTypeOK, Fresh, IdleKnowsPin, Idle, Looking, channels, Functions, Nothing

-----------------------------------------------------------------------------
(* The timer and the reports, where no pin moves before the handlers are   *)
(* set.                                                                    *)

\* While the UI thread has not set the handlers, nothing else has run.
QuietBoot ==
  /\ ~ booted => /\ armed = {} /\ pr = {} /\ isr = {}
                 /\ looked["handle_callback"] = Nothing /\ looked["handle_debounce"] = Nothing
                 /\ \A b \in Buttons : pin[b] = "RELEASED"
  /\ looked["enable"] # Nothing => boot[looked["enable"].button] = "state"

\* A button has its channel enabled, its timer set or its timer's function running, and
\* only an enabled channel has edges.
OneOfThem ==
  /\ armed \intersect enabled = {}
  /\ pr \union isr \subseteq enabled
  /\ looked["handle_debounce"].button \notin armed \union enabled

\* An enabled button that is thought released and counts nothing due is at rest, and a
\* press that is being timed is due.
DueInv ==
  \A b \in Buttons \ (due \union missed) :
    /\ booted /\ b \in enabled /\ state[b] = "RELEASED" =>
         pin[b] = "RELEASED" /\ b \notin pr \union isr
    /\ b \in armed \/ looked["handle_debounce"].button = b => state[b] = "RELEASED"

DebounceInv == KnowsInv /\ QuietBoot /\ OneOfThem /\ DueInv

\* At power-up everything is quiet, and the handlers are not set.
LEMMA DebounceAtFirst == ButtonInit => DebounceInv
<1> SUFFICES ASSUME ButtonInit PROVE DebounceInv
  OBVIOUS
<1>1. KnowsInv
  BY KnowsAtFirst
<1>2. QuietBoot /\ OneOfThem
  BY ButtonAssumption DEF ButtonInit, QuietBoot, OneOfThem, Functions, Nothing, Nobody
<1>3. DueInv
  BY ButtonAssumption DEF ButtonInit, DueInv, booted, Functions, Nothing, Nobody
<1> QED
  BY <1>1, <1>2, <1>3 DEF DebounceInv

\* The handler sets the timer of a button that is enabled, and so not armed.
LEMMA TimerFromInv == DebounceInv => TimerNotReused
  BY DEF DebounceInv, KnowsInv, Fresh, OneOfThem, TimerNotReused, ButtonTypeOK

\* Before the handlers are set only UI::run() takes steps: no pin moves, so no edge comes.
LEMMA QuietBootStep ==
  ASSUME BootPress = FALSE, DebounceInv, ButtonNext
  PROVE  QuietBoot'
<1> USE DEF DebounceInv, KnowsInv, ButtonTypeOK, QuietBoot, booted, Pins, Functions, Nothing,
            Nobody, channels
<1>1. CASE interrupt
  BY <1>1, ButtonAssumption DEF interrupt
<1>2. CASE handle_callback
  BY <1>2, ButtonAssumption DEF handle_callback, Looks, Acted, Fresh
<1>3. CASE handle_debounce
  BY <1>3, ButtonAssumption DEF handle_debounce, Acted
<1>4. CASE UIStarts
  BY <1>4, ButtonAssumption DEF UIStarts, Looks, Acted
<1>5. ASSUME NEW b \in Buttons, expire(b)
      PROVE  QuietBoot'
  BY <1>5, ButtonAssumption DEF expire, Looks
<1>6. ASSUME NEW b \in Buttons, move(b)
      PROVE  QuietBoot'
  BY <1>6, ButtonAssumption DEF move
<1> QED
  BY <1>1, <1>2, <1>3, <1>4, <1>5, <1>6 DEF ButtonNext

\* The handler disables the channel it arms, handle_debounce() enables it after the timer.
LEMMA OneOfThemStep ==
  ASSUME DebounceInv, ButtonNext
  PROVE  OneOfThem'
<1> USE DEF DebounceInv, KnowsInv, ButtonTypeOK, OneOfThem, Pins, Functions, Nothing, Nobody,
            channels
<1>1. CASE interrupt
  BY <1>1, ButtonAssumption DEF interrupt
<1>2. CASE handle_callback
  BY <1>2, ButtonAssumption DEF handle_callback, Looks, Acted, Fresh
<1>3. CASE handle_debounce
  BY <1>3, ButtonAssumption DEF handle_debounce, Acted
<1>4. CASE UIStarts
  BY <1>4, ButtonAssumption DEF UIStarts, Looks, Acted, QuietBoot, booted
<1>5. ASSUME NEW b \in Buttons, expire(b)
      PROVE  OneOfThem'
  BY <1>5, ButtonAssumption DEF expire, Looks
<1>6. ASSUME NEW b \in Buttons, move(b)
      PROVE  OneOfThem'
  BY <1>6, ButtonAssumption DEF move
<1> QED
  BY <1>1, <1>2, <1>3, <1>4, <1>5, <1>6 DEF ButtonNext

\* A push is counted before it is timed, and stays so until it is reported.
LEMMA DueStep ==
  ASSUME BootPress = FALSE, DebounceInv, ButtonNext
  PROVE  DueInv'
<1> USE DEF DebounceInv, KnowsInv, ButtonTypeOK, DueInv, OneOfThem, booted, Pins, Functions,
            Nothing, Nobody, channels
<1>1. CASE interrupt
  BY <1>1, ButtonAssumption DEF interrupt
<1>2. CASE handle_callback
  BY <1>2, ButtonAssumption DEF handle_callback, Looks, Acted, Fresh, QuietBoot
<1>3. CASE handle_debounce
  BY <1>3, ButtonAssumption DEF handle_debounce, Acted, Settled, press_handler
<1>4. CASE UIStarts
  BY <1>4, ButtonAssumption DEF UIStarts, Looks, Acted, Settled, QuietBoot
<1>5. ASSUME NEW b \in Buttons, expire(b)
      PROVE  DueInv'
  BY <1>5, ButtonAssumption DEF expire, Looks
<1>6. ASSUME NEW b \in Buttons, move(b)
      PROVE  DueInv'
  BY <1>6, ButtonAssumption DEF move, AtRest, Idle, Looking, Fresh, QuietBoot
<1> QED
  BY <1>1, <1>2, <1>3, <1>4, <1>5, <1>6 DEF ButtonNext

\* The whole invariant is kept by every step of the buttons.
LEMMA DebounceStep ==
  ASSUME BootPress = FALSE, DebounceInv, ButtonNext
  PROVE  DebounceInv'
<1>1. KnowsInv'
  BY KnowsStep DEF DebounceInv
<1> QED
  BY <1>1, QuietBootStep, OneOfThemStep, DueStep DEF DebounceInv

\* The UI thread keeps it when it takes a key.
LEMMA DebounceWithoutEvents ==
  ASSUME DebounceInv, events' \subseteq events,
         UNCHANGED <<pin, state, channels, armed, looked, boot, due, missed>>
  PROVE  DebounceInv'
<1>1. KnowsInv'
  BY KnowsWithoutEvents DEF DebounceInv
<1> QED
  BY <1>1 DEF DebounceInv, QuietBoot, OneOfThem, DueInv, booted, channels

\* A report comes from handle_debounce() only, of a press that is due.
LEMMA ReportIsDue ==
  ASSUME DebounceInv, ButtonNext, NEW b \in Buttons, b \in events', b \notin events
  PROVE  b \in due \union missed
<1>1. CASE handle_debounce
  BY <1>1 DEF handle_debounce, press_handler, DebounceInv, KnowsInv, ButtonTypeOK, DueInv, Pins,
              Functions
<1>2. CASE interrupt \/ handle_callback \/ UIStarts
  BY <1>2 DEF interrupt, handle_callback, UIStarts
<1>3. ASSUME NEW c \in Buttons, expire(c) \/ move(c)
      PROVE  FALSE
  BY <1>3 DEF expire, move
<1> QED
  BY <1>1, <1>2, <1>3 DEF ButtonNext

=============================================================================
