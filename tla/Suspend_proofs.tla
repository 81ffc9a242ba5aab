--------------------------- MODULE Suspend_proofs ---------------------------
(***************************************************************************)
(* For any number of pages: what is drawn and not yet sent is between the  *)
(* dirty limits, where no screen draws bars (theorem Unsent, from lemmas   *)
(* on the operators of FrameBuffer and on the lists of calls).             *)
(*                                                                         *)
(* Where the log thread does not fail while the user idles, with bars or   *)
(* without: the locks, suspending and resuming.  The invariant is that the *)
(* calls in every thread's list are in order: each finds the mutexes held  *)
(* that it needs, and the UI thread's lead to a state its next wait may be *)
(* in.  What is in order is the relation Effect on a finite set of states. *)
(***************************************************************************)
EXTENDS Suspend, SequenceTheorems, TLAPS

\* Lists of calls without the one that forgets y_max.
Calm == Ops \ {"bar"}
Programs == Seq(Calm)

CallsAreCalm == todo \in [Threads -> Programs]
DrawnPages == limits \in Limits /\ unsent \subseteq Page

DrawInv == CallsAreCalm /\ DrawnPages /\ UnsentIsDirty

-----------------------------------------------------------------------------
(* The dirty limits.                                                       *)

\* The lower limit and the upper one.
LEMMA MinMax ==
  ASSUME NEW a \in Nat, NEW b \in Nat
  PROVE  /\ min(a, b) \in {a, b} /\ min(a, b) <= a /\ min(a, b) <= b
         /\ max(a, b) \in {a, b} /\ max(a, b) >= a /\ max(a, b) >= b
  BY DEF min, max

\* Clearing an area widens the limits by its pages.
LEMMA ClearWidens ==
  ASSUME NEW l \in Limits, NEW first \in Page, NEW last \in Page
  PROVE  /\ clear_area(l, first, last) \in Limits
         /\ Dirty(l) \subseteq Dirty(clear_area(l, first, last))
         /\ first .. last \subseteq Dirty(clear_area(l, first, last))
<1> DEFINE m == clear_area(l, first, last)
<1>1. Pages \in Nat
  BY PagesAssumption
<1>2. /\ m \in Limits /\ m.y_min <= l.y_min /\ m.y_min <= first
      /\ l.y_max <= m.y_max /\ last <= m.y_max
  BY <1>1, MinMax DEF clear_area, Limits, Page
<1> HIDE DEF m
<1>3. Dirty(l) \subseteq Dirty(m) /\ first .. last \subseteq Dirty(m)
  BY <1>1, <1>2 DEF Dirty, Limits, Page
<1> QED
  BY <1>2, <1>3 DEF m

\* So does writing, by the pages of the text, although it may set y_max one past the
\* last page.
LEMMA TextWidens ==
  ASSUME NEW l \in Limits, NEW p \in Page, NEW n \in Nat
  PROVE  /\ write_text(l, p, n) \in Limits
         /\ Dirty(l) \subseteq Dirty(write_text(l, p, n))
         /\ (p .. p + n) \intersect Page \subseteq Dirty(write_text(l, p, n))
<1> DEFINE m == write_text(l, p, n)
<1>1. Pages \in Nat
  BY PagesAssumption
<1>2. m \in Limits /\ m.y_min <= l.y_min /\ m.y_min <= p
  BY <1>1, MinMax DEF write_text, Limits, Page
<1>3. m.y_max = Pages \/ (l.y_max <= m.y_max /\ p + n <= m.y_max)
  BY <1>1, MinMax DEF write_text, Limits, Page
<1> HIDE DEF m
<1>4. Dirty(l) \subseteq Dirty(m) /\ (p .. p + n) \intersect Page \subseteq Dirty(m)
  BY <1>1, <1>2, <1>3 DEF Dirty, Limits, Page
<1> QED
  BY <1>2, <1>4 DEF m

\* What any operation but the bar draws is within the limits it leaves.
LEMMA MarksWiden ==
  ASSUME limits \in Limits, NEW op \in Drawings, op # "bar"
  PROVE  /\ Marks(op) \in Limits
         /\ Dirty(limits) \union Drawn(op) \subseteq Dirty(Marks(op))
<1>1. /\ 0 \in Page /\ 1 \in Page /\ Pages - 1 \in Page /\ 1 \in Nat /\ Pages - 1 \in Nat
      /\ Page \ {0} = 1 .. Pages - 1
  BY PagesAssumption DEF Page
<1>2. CASE op = "row"
  <2>1. Marks(op) = write_text(limits, 0, 1) /\ Drawn(op) = {0}
    BY <1>2 DEF Marks, Drawn
  <2>2. 0 \in (0 .. 0 + 1) \intersect Page
    BY <1>1
  <2>3. /\ write_text(limits, 0, 1) \in Limits
        /\ Dirty(limits) \subseteq Dirty(write_text(limits, 0, 1))
        /\ (0 .. 0 + 1) \intersect Page \subseteq Dirty(write_text(limits, 0, 1))
    BY <1>1, TextWidens
  <2> QED
    BY <2>1, <2>2, <2>3
<1>3. CASE op = "wipe"
  <2>1. Marks(op) = clear_area(limits, 1, Pages - 1) /\ Drawn(op) = 1 .. Pages - 1
    BY <1>1, <1>3 DEF Marks, Drawn
  <2> QED
    BY <1>1, <2>1, ClearWidens
<1>4. CASE op = "text"
  <2>1. Marks(op) = write_text(limits, 1, Pages - 1) /\ Drawn(op) = 1 .. Pages - 1
    BY <1>1, <1>4 DEF Marks, Drawn
  <2>2. 1 .. Pages - 1 \subseteq (1 .. 1 + (Pages - 1)) \intersect Page
    BY PagesAssumption DEF Page
  <2> QED
    BY <1>1, <2>1, <2>2, TextWidens
<1> QED
  BY <1>2, <1>3, <1>4 DEF Drawings

-----------------------------------------------------------------------------
(* The lists of calls.                                                     *)

\* The pieces they are made of.
LEMMA Pieces ==
  /\ << >> \in Programs
  /\ \A op \in Calm : <<op>> \in Programs
  /\ \A op \in Calm \intersect Drawings : Drawing(op) \in Programs
  /\ update \in Programs /\ wake \in Programs /\ sleep \in Programs /\ suspend \in Programs
  /\ Draw \in Programs /\ Redraw \in Programs
<1>1. {"fb", "suspend_lock", "data", "unlock", "on", "off", "mark", "wipe", "text"} \subseteq Calm
  BY DEF Calm, Ops, Mutexes, Drawings
<1>2. /\ << >> \in Programs
      /\ \A op \in Calm : <<op>> \in Programs
      /\ \A op \in Calm \intersect Drawings : Drawing(op) \in Programs
  BY <1>1 DEF Programs, Drawing
<1>3. update \in Programs /\ wake \in Programs /\ sleep \in Programs
  BY <1>1 DEF Programs, update, wake, sleep
<1>4. suspend \in Programs
  BY <1>1, <1>2, <1>3 DEF Programs, suspend
<1>5. Draw \in Programs
  BY <1>1, <1>2, ConcatProperties DEF Programs, Draw, Drawings
<1>6. Redraw \in Programs
  BY <1>3, <1>5, ConcatProperties DEF Programs, Redraw
<1> QED
  BY <1>2, <1>3, <1>4, <1>5, <1>6

\* Two lists in a row are one.
LEMMA Joined ==
  ASSUME NEW p \in Programs, NEW q \in Programs
  PROVE  p \o q \in Programs
  BY ConcatProperties DEF Programs

\* A call that returns leaves the rest, after what it adds.
LEMMA ReturnsCalm ==
  ASSUME CallsAreCalm, NEW t \in Threads, NEW op, Calls(t, op),
         NEW more \in Programs, Returns(t, more)
  PROVE  CallsAreCalm'
<1>1. todo[t] \in Programs /\ todo[t] # << >>
  BY DEF CallsAreCalm, Calls
<1>2. Tail(todo[t]) \in Programs
  BY <1>1 DEF Programs
<1>3. more \o Tail(todo[t]) \in Programs
  BY <1>2, Joined
<1> QED
  BY <1>3 DEF CallsAreCalm, Returns

\* A thread that starts on a new list has that list.
LEMMA StartsCalm ==
  ASSUME CallsAreCalm, NEW t \in Threads, NEW p \in Programs, todo' = [todo EXCEPT ![t] = p]
  PROVE  CallsAreCalm'
  BY DEF CallsAreCalm

\* A thread never calls what is not in its list: no bar is drawn.
LEMMA CallsCalm ==
  ASSUME CallsAreCalm, NEW t \in Threads, NEW op, Calls(t, op)
  PROVE  op \in Calm
<1>1. todo[t] \in Seq(Calm) /\ todo[t] # << >>
  BY DEF CallsAreCalm, Calls, Programs
<1>2. Head(todo[t]) \in Calm
  BY <1>1
<1> QED
  BY <1>2 DEF Calls

\* The calls every thread makes.
LEMMA CommonStep ==
  ASSUME DrawInv, NEW t \in Threads, Common(t)
  PROVE  DrawInv'
<1> USE DEF DrawInv
<1>0. << >> \in Programs
  BY Pieces
<1>1. ASSUME NEW m \in Mutexes, chMtxLock(t, m)
      PROVE  DrawInv'
  <2>1. CallsAreCalm'
    BY <1>0, <1>1, ReturnsCalm DEF chMtxLock
  <2> QED
    BY <1>1, <2>1 DEF chMtxLock, pixels, DrawnPages, UnsentIsDirty
<1>2. CASE chMtxUnlock(t)
  <2>1. CallsAreCalm'
    BY <1>0, <1>2, ReturnsCalm DEF chMtxUnlock
  <2> QED
    BY <1>2, <2>1 DEF chMtxUnlock, pixels, DrawnPages, UnsentIsDirty
<1>3. CASE draw(t)
  <2>1. PICK op \in Drawings : Calls(t, op) /\ Returns(t, << >>) /\ limits' = Marks(op)
                                 /\ unsent' = unsent \union Drawn(op)
    BY <1>3 DEF draw
  <2>2. CallsAreCalm'
    BY <1>0, <2>1, ReturnsCalm
  <2>3. op # "bar"
    BY <2>1, CallsCalm DEF Calm
  <2>4. limits' \in Limits /\ unsent' \subseteq Dirty(limits')
    BY <2>1, <2>3, MarksWiden DEF DrawnPages, UnsentIsDirty
  <2> QED
    BY <2>2, <2>4 DEF DrawnPages, UnsentIsDirty, Dirty
<1>4. CASE transmit_data_sync(t)
  <2>1. CallsAreCalm'
    BY <1>0, <1>4, ReturnsCalm DEF transmit_data_sync
  <2>2. unsent' = {}
    BY <1>4 DEF transmit_data_sync, UnsentIsDirty
  <2>3. limits' \in Limits
    BY <1>4, PagesAssumption DEF transmit_data_sync, DrawnPages, Synced, Limits, Page
  <2> QED
    BY <2>1, <2>2, <2>3 DEF DrawnPages, UnsentIsDirty
<1> QED
  BY <1>1, <1>2, <1>3, <1>4 DEF Common

\* Every other step draws nothing and starts or continues a list without bars.
LEMMA OthersDrawNothing ==
  ASSUME DrawInv, UNCHANGED pixels, CallsAreCalm'
  PROVE  DrawInv'
  BY DEF DrawInv, pixels, DrawnPages, UnsentIsDirty

\* The calls of the UI thread.
LEMMA UICalls ==
  ASSUME DrawInv,
         \/ SwitchPanel \/ MarkSuspended \/ resume \/ inhibit_suspend \/ enable_suspend
         \/ ClearEvents \/ ViewThread \/ ShowError
  PROVE  DrawInv'
<1> USE DEF DrawInv
<1>0. "ui" \in Threads /\ << >> \in Programs
  BY Pieces DEF Threads
<1>1. CASE SwitchPanel
  BY <1>0, <1>1, ReturnsCalm, OthersDrawNothing DEF SwitchPanel
<1>2. CASE MarkSuspended
  BY <1>0, <1>2, ReturnsCalm, OthersDrawNothing DEF MarkSuspended
<1>3. CASE resume
  <2>1. CASE is_suspended
    BY <1>0, <1>3, <2>1, Pieces, ReturnsCalm, OthersDrawNothing DEF resume
  <2>2. CASE ~ is_suspended
    BY <1>0, <1>3, <2>2, ReturnsCalm, OthersDrawNothing DEF resume
  <2> QED
    BY <2>1, <2>2
<1>4. CASE inhibit_suspend
  BY <1>0, <1>4, ReturnsCalm, OthersDrawNothing DEF inhibit_suspend
<1>5. CASE enable_suspend
  <2>1. <<"resume">> \in Programs
    BY Pieces DEF Calm, Ops
  <2> QED
    BY <1>0, <1>5, <2>1, ReturnsCalm, OthersDrawNothing DEF enable_suspend
<1>6. CASE ClearEvents
  BY <1>0, <1>6, ReturnsCalm, OthersDrawNothing DEF ClearEvents
<1>7. CASE ViewThread
  BY <1>0, <1>7, ReturnsCalm, OthersDrawNothing DEF ViewThread
<1>8. CASE ShowError
  <2>1. <<"shown">> \in Programs
    BY Pieces DEF Calm, Ops
  <2>2. Redraw \o Redraw \o <<"shown">> \in Programs
    BY <2>1, Pieces, Joined
  <2>3. \E more \in Programs, op \in {"error", "shown"} : Calls("ui", op) /\ Returns("ui", more)
    BY <1>0, <1>8, <2>2 DEF ShowError
  <2> QED
    BY <1>0, <1>8, <2>3, ReturnsCalm, OthersDrawNothing DEF ShowError
<1> QED
  BY <1>1, <1>2, <1>3, <1>4, <1>5, <1>6, <1>7, <1>8

\* A step that leads the UI thread to another wait.
LEMMA GoesStep ==
  ASSUME DrawInv, NEW s, NEW w, NEW p \in Programs, Goes(s, w, p)
  PROVE  DrawInv'
<1>1. "ui" \in Threads
  BY DEF Threads
<1> QED
  BY <1>1, StartsCalm, OthersDrawNothing DEF Goes, DrawInv

\* What the screens do with an event before their own calls.
LEMMA SeenCalm ==
  ASSUME NEW e \in Masks
  PROVE  handle_evt(e) \in Programs /\ Seen(e) \in Programs
<1>1. <<"resume">> \in Programs /\ <<"error">> \in Programs
  BY Pieces DEF Calm, Ops
<1>2. handle_evt(e) \in Programs
  BY <1>1, Pieces DEF handle_evt
<1>3. CASE screen = "run"
  BY <1>1, <1>2, <1>3, Joined DEF Seen
<1>4. CASE screen # "run"
  BY <1>2, <1>4, Pieces, Joined DEF Seen
<1> QED
  BY <1>2, <1>3, <1>4

\* The calls of the UI functions by themselves.
LEMMA Singles ==
  /\ {<<"inhibit">>, <<"enable">>, <<"resume">>, <<"clear keys">>, <<"clear">>} \subseteq Programs
  /\ <<"spawn", "clear">> \in Programs /\ <<"clear", "resume">> \in Programs
  /\ <<"resume", "clear">> \in Programs /\ <<"terminate", "join", "enable">> \in Programs
  /\ Drawing("wipe") \in Programs /\ Drawing("row") \in Programs
  /\ <<"check">> \in Programs /\ <<"error">> \in Programs
<1>1. {"inhibit", "enable", "resume", "clear keys", "clear", "spawn", "terminate", "join", "check",
       "error", "wipe", "row"} \subseteq Calm
  BY DEF Calm, Ops, Drawings
<1>2. /\ <<"spawn", "clear">> \in Programs /\ <<"clear", "resume">> \in Programs
      /\ <<"resume", "clear">> \in Programs /\ <<"terminate", "join", "enable">> \in Programs
  <2>1. \A a, b \in Calm : <<a, b>> \in Programs
    BY DEF Programs
  <2>2. \A a, b, c \in Calm : <<a, b, c>> \in Programs
    BY DEF Programs
  <2> QED
    BY <1>1, <2>1, <2>2
<1>3. Drawing("wipe") \in Programs /\ Drawing("row") \in Programs
  BY <1>1, Pieces DEF Drawings
<1> QED
  BY <1>1, <1>2, <1>3, Pieces

\* The event loops.
LEMMA GlobalStep ==
  ASSUME DrawInv, GlobalEvent \/ Woken
  PROVE  DrawInv'
<1>1. CASE GlobalEvent
  <2>1. PICK e \in {"RESUME", "SUSPEND"} :
          Goes(screen, IF e = "SUSPEND" THEN "asleep" ELSE "loop", Seen(e))
    BY <1>1 DEF GlobalEvent
  <2>2. Seen(e) \in Programs
    BY SeenCalm DEF Masks
  <2> QED
    BY <2>1, <2>2, GoesStep
<1>2. CASE Woken
  BY <1>2, Singles, GoesStep DEF Woken
<1> QED
  BY <1>1, <1>2

\* A menu starts a screen with that screen's list.
LEMMA MenuStep ==
  ASSUME DrawInv, MenuKey
  PROVE  DrawInv'
<1> DEFINE toView == <<"inhibit">> \o Drawing("wipe") \o <<"spawn", "clear">>
           toTest == <<"inhibit">> \o Redraw \o <<"clear keys">>
           toOther == Redraw \o <<"clear keys">>
<1>1. toView \in Programs /\ toTest \in Programs /\ toOther \in Programs
  BY Pieces, Singles, Joined
<1>2. Redraw \in Programs /\ << >> \in Programs
  BY Pieces
<1>3. \/ Goes("menu", "loop", Redraw) \/ Goes("menu", "loop", << >>)
      \/ Goes("view", "loop", toView) \/ Goes("test", "button", toTest)
      \/ Goes("test", "button", toOther)
  BY DEF MenuKey
<1> HIDE DEF toView, toTest, toOther
<1> QED
  BY <1>1, <1>2, <1>3, GoesStep

\* So does the logger, which also forgets its message.
LEMMA LaunchStep ==
  ASSUME DrawInv, LaunchLogger
  PROVE  DrawInv'
<1> DEFINE p == Draw \o Redraw \o <<"clear">>
<1>1. p \in Programs
  BY Pieces, Singles, Joined
<1>2. todo' = [todo EXCEPT !["ui"] = p] /\ UNCHANGED pixels /\ "ui" \in Threads
  BY DEF LaunchLogger, Threads
<1> HIDE DEF p
<1> QED
  BY <1>1, <1>2, StartsCalm, OthersDrawNothing DEF DrawInv

\* The keys of the sensor view.
LEMMA ViewStep ==
  ASSUME DrawInv, ViewKey
  PROVE  DrawInv'
<1>1. << >> \in Programs /\ <<"terminate", "join", "enable">> \in Programs
  BY Pieces, Singles
<1>2. \/ Goes("view", "loop", << >>)
      \/ Goes("view", "loop", <<"terminate", "join", "enable">>)
  BY DEF ViewKey
<1> QED
  BY <1>1, <1>2, GoesStep

\* The keys of the logger, and its poll for a message.
LEMMA LoggerStep ==
  ASSUME DrawInv, LoggerKey \/ LoggerPoll
  PROVE  DrawInv'
<1>1. \A e \in Masks : Seen(e) \in Programs /\ Seen(e) \o Redraw \in Programs
  BY SeenCalm, Pieces, Joined
<1>2. CASE LoggerKey
  <2>1. \E e \in Masks, w \in Waits :
          \E s : Goes(s, w, Seen(e) \o Redraw) \/ Goes(s, w, Seen(e))
    BY <1>2 DEF LoggerKey, Masks, Keys, Waits
  <2> QED
    BY <1>1, <2>1, GoesStep
<1>3. CASE LoggerPoll
  BY <1>3, Singles, GoesStep DEF LoggerPoll
<1> QED
  BY <1>2, <1>3

\* The waits of a test, with what it may do between them.
LEMMA TestStep ==
  ASSUME DrawInv, TestKey \/ TestSuspend \/ TestWoken
  PROVE  DrawInv'
<1> DEFINE again(measure) == <<"clear keys">> \o measure \o Redraw \o <<"clear keys">>
           done == IF suspend_enabled THEN << >> ELSE <<"enable">>
           back == <<"clear keys">> \o done \o Redraw
<1>1. {<< >>, sleep \o wake, suspend \o <<"resume">>} \subseteq Programs
  BY Pieces, Singles, Joined
<1>2. \A measure \in Programs : again(measure) \in Programs
  BY Pieces, Singles, Joined
<1>3. done \in Programs
  BY Pieces, Singles
<1>4. back \in Programs
  BY <1>3, Pieces, Singles, Joined
<1>5. CASE TestKey
  <2>1. \/ \E measure \in {<< >>, sleep \o wake, suspend \o <<"resume">>} :
             Goes("test", "button", again(measure))
        \/ Goes("menu", "loop", back)
    BY <1>5 DEF TestKey
  <2> HIDE DEF again, back
  <2> QED
    BY <1>1, <1>2, <1>4, <2>1, GoesStep
<1>6. CASE TestSuspend
  BY <1>6, Pieces, GoesStep DEF TestSuspend
<1>7. CASE TestWoken
  BY <1>7, Singles, GoesStep DEF TestWoken
<1> QED
  BY <1>5, <1>6, <1>7

\* The monitor draws its row; the view draws no bars.
LEMMA OthersStep ==
  ASSUME Bars = FALSE, DrawInv, run_monitor \/ ViewSample
  PROVE  DrawInv'
<1> USE DEF DrawInv
<1>0. {"monitor", "view"} \subseteq Threads
  BY DEF Threads
<1>1. CASE run_monitor
  <2> DEFINE row == Drawing("row") \o <<"check">>
  <2>1. row \in Programs /\ << >> \in Programs /\ update \in Programs
    BY Pieces, Singles, Joined
  <2>2. \/ todo' = [todo EXCEPT !["monitor"] = row]
        \/ Calls("monitor", "check") /\ (Returns("monitor", << >>) \/ Returns("monitor", update))
    BY <1>1 DEF run_monitor
  <2>3. UNCHANGED pixels
    BY <1>1 DEF run_monitor
  <2> HIDE DEF row
  <2> QED
    BY <1>0, <2>1, <2>2, <2>3, StartsCalm, ReturnsCalm, OthersDrawNothing
<1>2. CASE ViewSample
  <2> DEFINE p == Draw \o << >> \o update
  <2>1. p \in Programs
    BY Pieces, Joined
  <2>2. todo' = [todo EXCEPT !["view"] = p] /\ UNCHANGED pixels
    BY <1>2 DEF ViewSample
  <2> HIDE DEF p
  <2> QED
    BY <1>0, <2>1, <2>2, StartsCalm, OthersDrawNothing
<1> QED
  BY <1>1, <1>2

-----------------------------------------------------------------------------

\* Where no bars are drawn, whatever is drawn and not yet on the panel is between the
\* dirty limits, for any number of pages.
THEOREM Unsent ==
  ASSUME Bars = FALSE
  PROVE  Spec => []UnsentIsDirty
<1>1. Init => DrawInv
  <2> SUFFICES ASSUME Init PROVE DrawInv
    OBVIOUS
  <2>1. Redraw \o <<"clear keys">> \in Programs /\ << >> \in Programs
    BY Pieces, Singles, Joined
  <2>2. CallsAreCalm
    BY <2>1 DEF Init, CallsAreCalm
  <2>3. Pages - 1 \in Page /\ 0 \in 0 .. Pages
    BY PagesAssumption DEF Page
  <2>4. Synced \in Limits
    BY <2>3 DEF Synced, Limits
  <2>5. DrawnPages /\ UnsentIsDirty
    BY <2>4 DEF Init, DrawnPages, UnsentIsDirty
  <2> QED
    BY <2>2, <2>5 DEF DrawInv
<1>2. DrawInv /\ [Next]_vars => DrawInv'
  <2> SUFFICES ASSUME DrawInv, [Next]_vars PROVE DrawInv'
    OBVIOUS
  <2>1. {"ui", "monitor", "view"} \subseteq Threads
    BY DEF Threads
  <2>2. CASE UIThread
    BY <2>1, <2>2, CommonStep, UICalls, GlobalStep, MenuStep, LaunchStep, ViewStep, LoggerStep,
       TestStep DEF UIThread
  <2>3. CASE MonitorThread \/ SensorViewThread
    BY <2>1, <2>3, CommonStep, OthersStep DEF MonitorThread, SensorViewThread
  <2>4. CASE LogError \/ handle_key \/ handle_suspend
    <3>1. UNCHANGED <<todo, pixels>>
      BY <2>4 DEF LogError, handle_key, handle_suspend
    <3> QED
      BY <3>1, OthersDrawNothing DEF DrawInv, CallsAreCalm
  <2>5. CASE UNCHANGED vars
    BY <2>5, OthersDrawNothing DEF vars, pixels, DrawInv, CallsAreCalm
  <2> QED
    BY <2>2, <2>3, <2>4, <2>5 DEF Next
<1>3. DrawInv => UnsentIsDirty
  BY DEF DrawInv
<1> QED
  BY <1>1, <1>2, <1>3, PTL DEF Spec

-----------------------------------------------------------------------------
(* What a thread's calls do, one after the other.                          *)

\* What a list of calls goes by: the mutexes held and what is done to the panel under
\* them, the sensor view, and flags.
Locks == {"free", "fb", "both", "lock", "dark", "asleep"}
Dark == {"dark", "asleep"}

\* stale: the timer may be running, or its event be pending.  loose: SELECT may be
\* pending without RESUME.  woken: RESUME is pending.  fails: the log thread may fail.
Flags == {"stale", "loose", "woken", "fails"}

\* Suspending is not enabled unless the timer may run, and nothing views in the dark.
Holding ==
  {a \in [lock : Locks, view : {"enabled", "inhibited", "viewing"}, flags : SUBSET Flags] :
     /\ a.view = "enabled" => "stale" \in a.flags
     /\ a.view = "viewing" => a.lock \notin Dark}

\* The threads that only draw.
Awake == {a \in Holding : a.lock \in {"free", "fb", "both"}}

\* The same, with the mutexes and the panel as l says.
At(a, l) == [a EXCEPT !.lock = l]

\* The call op is in order in a, and leaves b.
Effect(op, a, b) ==
  \/ op = "fb" /\ a.lock = "free" /\ b = At(a, "fb")
  \/ op = "suspend_lock" /\ a.lock = "free" /\ b = At(a, "lock")
  \/ op = "suspend_lock" /\ a.lock = "fb" /\ b = At(a, "both")
  \/ op = "unlock" /\ a.lock \in {"fb", "lock"} /\ b = At(a, "free")
  \/ op = "unlock" /\ a.lock = "both" /\ b = At(a, "fb")
  \/ op \in Drawings /\ a.lock = "fb" /\ b = a
  \/ op = "data" /\ a.lock = "both" /\ b = a
  \/ op = "off" /\ a.lock = "lock" /\ b = At(a, "dark")
  \/ op = "on" /\ a.lock = "dark" /\ b = At(a, "lock")
  \/ op = "mark" /\ a.lock = "dark" /\ b = At(a, "asleep")
  \/ op = "resume" /\ a.lock \in {"free", "asleep"} /\ b = At(a, "free")
  \/ op = "inhibit" /\ a.view # "viewing" /\ b = [a EXCEPT !.view = "inhibited"]
  \/ /\ op = "enable" /\ a.lock = "free" /\ a.view # "viewing"
     /\ b = [a EXCEPT !.view = "enabled", !.flags = a.flags \union {"stale"}]
  \/ op = "spawn" /\ a.view = "inhibited" /\ b = [a EXCEPT !.view = "viewing"]
  \/ op = "terminate" /\ a.view = "viewing" /\ b = [a EXCEPT !.view = "inhibited"]
  \/ op = "terminate" /\ a.view # "viewing" /\ b = a
  \/ /\ op = "clear"
     /\ b = [a EXCEPT !.flags = IF a.view = "enabled" THEN a.flags \ {"loose", "woken"}
                                                       ELSE a.flags \intersect {"fails"}]
  \/ op = "error" /\ (a.lock = "free" \/ "fails" \notin a.flags) /\ b = a
  \/ op = "check" /\ a.lock = "free" /\ b = a
  \/ op \in {"clear keys", "join", "shown"} /\ b = a

\* The calls in p are in order one after the other, through states in S from a to b.
Path(S, p, a, b) ==
  /\ p \in Seq(Ops)
  /\ \E d \in [0 .. Len(p) -> S] :
       d[0] = a /\ d[Len(p)] = b /\ \A i \in 1 .. Len(p) : Effect(p[i], d[i - 1], d[i])

\* The empty list leads nowhere.
LEMMA PathEmpty ==
  ASSUME NEW S, NEW a \in S
  PROVE  Path(S, << >>, a, a) /\ \A b \in S : Path(S, << >>, a, b) => a = b
<1>1. << >> \in Seq(Ops) /\ Len(<< >>) = 0
  BY EmptySeq
<1>2. \E d \in [0 .. 0 -> S] : d[0] = a
  <2>1. [i \in 0 .. 0 |-> a] \in [0 .. 0 -> S] /\ [i \in 0 .. 0 |-> a][0] = a
    OBVIOUS
  <2> QED
    BY <2>1
<1>3. Path(S, << >>, a, a)
  BY <1>1, <1>2 DEF Path
<1>4. \A b \in S : Path(S, << >>, a, b) => a = b
  BY <1>1 DEF Path
<1> QED
  BY <1>3, <1>4

\* A list of one call goes as far as the call.
LEMMA PathOne ==
  ASSUME NEW S, NEW a \in S, NEW b \in S, NEW op \in Ops, Effect(op, a, b)
  PROVE  Path(S, <<op>>, a, b)
<1> DEFINE d == [i \in 0 .. 1 |-> IF i = 0 THEN a ELSE b]
<1>1. d \in [0 .. 1 -> S] /\ d[0] = a /\ d[1] = b
  OBVIOUS
<1>2. <<op>> \in Seq(Ops) /\ Len(<<op>>) = 1 /\ <<op>>[1] = op
  OBVIOUS
<1> HIDE DEF d
<1>3. \A i \in 1 .. 1 : Effect(<<op>>[i], d[i - 1], d[i])
  BY <1>1, <1>2
<1> QED
  BY <1>1, <1>2, <1>3 DEF Path

\* Two lists in order, the second where the first one ends, are one list in order.
LEMMA PathJoin ==
  ASSUME NEW S, NEW a \in S, NEW b \in S, NEW c \in S, NEW p, NEW q,
         Path(S, p, a, b), Path(S, q, b, c)
  PROVE  Path(S, p \o q, a, c)
<1> DEFINE n == Len(p)
           m == Len(q)
<1>1. p \in Seq(Ops) /\ q \in Seq(Ops) /\ n \in Nat /\ m \in Nat
  BY LenProperties DEF Path
<1>2. /\ p \o q \in Seq(Ops) /\ Len(p \o q) = n + m
      /\ \A i \in 1 .. n + m : (p \o q)[i] = IF i <= n THEN p[i] ELSE q[i - n]
  BY <1>1, ConcatProperties
<1>3. PICK d \in [0 .. n -> S] :
        d[0] = a /\ d[n] = b /\ \A i \in 1 .. n : Effect(p[i], d[i - 1], d[i])
  BY DEF Path
<1>4. PICK e \in [0 .. m -> S] :
        e[0] = b /\ e[m] = c /\ \A i \in 1 .. m : Effect(q[i], e[i - 1], e[i])
  BY DEF Path
<1> DEFINE f == [i \in 0 .. n + m |-> IF i <= n THEN d[i] ELSE e[i - n]]
<1> HIDE DEF n, m
<1>5. f \in [0 .. n + m -> S] /\ f[0] = a /\ f[n + m] = c
  BY <1>1, <1>3, <1>4
<1>6. \A i \in 1 .. n : f[i - 1] = d[i - 1] /\ f[i] = d[i] /\ (p \o q)[i] = p[i]
  BY <1>1, <1>2
<1>7. \A i \in n + 1 .. n + m :
        /\ f[i - 1] = e[i - n - 1] /\ f[i] = e[i - n] /\ (p \o q)[i] = q[i - n]
        /\ i - n \in 1 .. m /\ i \notin 1 .. n
  <2> TAKE i \in n + 1 .. n + m
  <2>1. /\ i - n \in 1 .. m /\ i \notin 1 .. n /\ ~ (i <= n) /\ i \in 1 .. n + m
        /\ i \in 0 .. n + m /\ i - 1 \in 0 .. n + m
    BY <1>1
  <2>2. f[i] = e[i - n] /\ (p \o q)[i] = q[i - n]
    BY <1>2, <2>1
  <2>3. f[i - 1] = e[i - n - 1]
    <3>1. CASE i - 1 <= n
      <4>1. i - 1 = n /\ i - n - 1 = 0 /\ f[i - 1] = d[i - 1]
        BY <1>1, <2>1, <3>1
      <4> QED
        BY <1>3, <1>4, <4>1
    <3>2. CASE ~ (i - 1 <= n)
      <4>1. f[i - 1] = e[(i - 1) - n] /\ (i - 1) - n = i - n - 1
        BY <1>1, <2>1, <3>2
      <4> QED
        BY <4>1
    <3> QED
      BY <3>1, <3>2
  <2> QED
    BY <2>1, <2>2, <2>3
<1> HIDE DEF f
<1>8. ASSUME NEW i \in 1 .. n + m PROVE Effect((p \o q)[i], f[i - 1], f[i])
  <2>1. CASE i \in 1 .. n
    BY <2>1, <1>3, <1>6
  <2>2. CASE i \in n + 1 .. n + m
    <3>1. Effect(q[i - n], e[i - n - 1], e[i - n])
      BY <2>2, <1>4, <1>7
    <3> QED
      BY <2>2, <3>1, <1>7
  <2>3. i \in 1 .. n \/ i \in n + 1 .. n + m
    BY <1>1
  <2> QED
    BY <2>1, <2>2, <2>3
<1> QED
  BY <1>2, <1>5, <1>8 DEF Path

\* The first call of a list in order is in order, and so is the rest after it.
LEMMA PathHead ==
  ASSUME NEW S, NEW a \in S, NEW b \in S, NEW p, Path(S, p, a, b), p # << >>
  PROVE  \E c \in S : Effect(Head(p), a, c) /\ Path(S, Tail(p), c, b)
<1>1. p \in Seq(Ops) /\ Len(p) \in Nat \ {0}
  BY EmptySeq DEF Path
<1> DEFINE q == Tail(p)
           n == Len(p)
<1>2. /\ q \in Seq(Ops) /\ Len(q) = n - 1 /\ Head(p) = p[1]
      /\ \A i \in 1 .. n - 1 : q[i] = p[i + 1]
  BY <1>1, HeadTailProperties
<1>3. PICK d \in [0 .. n -> S] :
        d[0] = a /\ d[n] = b /\ \A i \in 1 .. n : Effect(p[i], d[i - 1], d[i])
  BY DEF Path
<1> DEFINE e == [i \in 0 .. n - 1 |-> d[i + 1]]
<1> HIDE DEF n, q
<1>4. n \in Nat \ {0}
  BY <1>1 DEF n
<1>5. e \in [0 .. n - 1 -> S] /\ e[0] = d[1] /\ e[n - 1] = b
  BY <1>3, <1>4
<1>6. \A i \in 1 .. n - 1 : e[i - 1] = d[i + 1 - 1] /\ e[i] = d[i + 1] /\ i + 1 \in 1 .. n
  BY <1>4
<1> HIDE DEF e
<1>7. \A i \in 1 .. n - 1 : Effect(q[i], e[i - 1], e[i])
  BY <1>2, <1>3, <1>6
<1>8. Path(S, q, d[1], b)
  BY <1>2, <1>5, <1>7 DEF Path
<1>9. 1 \in 1 .. n /\ 1 - 1 = 0 /\ 1 \in 0 .. n
  BY <1>4
<1>10. Effect(p[1], a, d[1]) /\ d[1] \in S
  BY <1>3, <1>9
<1> QED
  BY <1>2, <1>8, <1>10 DEF q

\* A state with other mutexes is a state, unless the sensor view is to draw in the dark.
LEMMA AtHolding ==
  ASSUME NEW a \in Holding
  PROVE  /\ \A l \in Locks : At(a, l).lock = l /\ At(a, l).view = a.view /\ At(a, l).flags = a.flags
         /\ \A l \in Locks : l \notin Dark \/ a.view # "viewing" => At(a, l) \in Holding
         /\ \A l, k \in Locks : At(At(a, l), k) = At(a, k)
         /\ At(a, a.lock) = a
         /\ a.lock \in Locks /\ a.flags \subseteq Flags
  BY DEF Holding, At

\* A thread that only draws is a thread.
LEMMA AwakeHolding ==
  /\ Awake \subseteq Holding
  /\ \A a \in Holding : a.lock = "free" => a \in Awake
  /\ \A a \in Awake, l \in {"free", "fb", "both"} : At(a, l) \in Awake
<1>1. {"free", "fb", "both"} \subseteq Locks /\ {"free", "fb", "both"} \intersect Dark = {}
  BY DEF Locks, Dark
<1> QED
  BY <1>1, AtHolding DEF Awake

\* A path through some states is one through more of them.
LEMMA PathWidens ==
  ASSUME NEW S, NEW T, S \subseteq T, NEW p, NEW a, NEW b, Path(S, p, a, b)
  PROVE  Path(T, p, a, b)
<1>1. [0 .. Len(p) -> S] \subseteq [0 .. Len(p) -> T]
  OBVIOUS
<1> QED
  BY <1>1 DEF Path

\* Short lists, joined.
LEMMA Lists ==
  ASSUME NEW x \in Ops, NEW y \in Ops
  PROVE  /\ <<x>> \o <<y>> = <<x, y>>
         /\ \A z \in Ops : <<x, y>> \o <<z>> = <<x, y, z>>
<1>1. ASSUME NEW s \in Seq(Ops), NEW t \in Seq(Ops), NEW u \in Seq(Ops), Len(u) = Len(s) + Len(t),
             \A i \in 1 .. Len(s) + Len(t) : u[i] = IF i <= Len(s) THEN s[i] ELSE t[i - Len(s)]
      PROVE  s \o t = u
  BY <1>1, ConcatProperties, SeqEqual
<1>2. <<x>> \o <<y>> = <<x, y>>
  <2> DEFINE s == <<x>>
             t == <<y>>
             u == <<x, y>>
  <2>1. s \in Seq(Ops) /\ t \in Seq(Ops) /\ u \in Seq(Ops)
        /\ Len(s) = 1 /\ Len(t) = 1 /\ Len(u) = 2
        /\ s[1] = x /\ t[1] = y /\ u[1] = x /\ u[2] = y
    OBVIOUS
  <2> HIDE DEF s, t, u
  <2>2. \A i \in 1 .. 2 : u[i] = IF i <= 1 THEN s[i] ELSE t[i - 1]
    <3>1. \A i \in 1 .. 2 : i = 1 \/ i = 2
      OBVIOUS
    <3> QED
      BY <2>1, <3>1
  <2>3. /\ Len(u) = Len(s) + Len(t)
        /\ \A i \in 1 .. Len(s) + Len(t) : u[i] = IF i <= Len(s) THEN s[i] ELSE t[i - Len(s)]
    BY <2>1, <2>2
  <2>4. s \o t = u
    BY <1>1, <2>1, <2>3
  <2> QED
    BY <2>4 DEF s, t, u
<1>3. ASSUME NEW z \in Ops PROVE <<x, y>> \o <<z>> = <<x, y, z>>
  <2> DEFINE s == <<x, y>>
             t == <<z>>
             u == <<x, y, z>>
  <2>1. s \in Seq(Ops) /\ t \in Seq(Ops) /\ u \in Seq(Ops)
        /\ Len(s) = 2 /\ Len(t) = 1 /\ Len(u) = 3
        /\ s[1] = x /\ s[2] = y /\ t[1] = z /\ u[1] = x /\ u[2] = y /\ u[3] = z
    OBVIOUS
  <2> HIDE DEF s, t, u
  <2>2. \A i \in 1 .. 3 : u[i] = IF i <= 2 THEN s[i] ELSE t[i - 2]
    <3>1. \A i \in 1 .. 3 : i = 1 \/ i = 2 \/ i = 3
      OBVIOUS
    <3> QED
      BY <2>1, <3>1
  <2>3. /\ Len(u) = Len(s) + Len(t)
        /\ \A i \in 1 .. Len(s) + Len(t) : u[i] = IF i <= Len(s) THEN s[i] ELSE t[i - Len(s)]
    BY <2>1, <2>2
  <2>4. s \o t = u
    BY <1>1, <2>1, <2>3
  <2> QED
    BY <2>4 DEF s, t, u
<1> QED
  BY <1>2, <1>3

\* Lists of two calls, and of three.
LEMMA PathTwo ==
  ASSUME NEW S, NEW a \in S, NEW b \in S, NEW c \in S, NEW x \in Ops, NEW y \in Ops,
         Effect(x, a, b), Effect(y, b, c)
  PROVE  Path(S, <<x, y>>, a, c)
<1>1. Path(S, <<x>>, a, b) /\ Path(S, <<y>>, b, c)
  BY PathOne
<1>2. <<x>> \o <<y>> = <<x, y>>
  BY Lists
<1> QED
  BY <1>1, <1>2, PathJoin

\* The same for three calls.
LEMMA PathThree ==
  ASSUME NEW S, NEW a \in S, NEW b \in S, NEW c \in S, NEW d \in S,
         NEW x \in Ops, NEW y \in Ops, NEW z \in Ops,
         Effect(x, a, b), Effect(y, b, c), Effect(z, c, d)
  PROVE  Path(S, <<x, y, z>>, a, d)
<1>1. Path(S, <<x, y>>, a, c) /\ Path(S, <<z>>, c, d)
  BY PathOne, PathTwo
<1>2. <<x, y>> \o <<z>> = <<x, y, z>>
  BY Lists
<1> QED
  BY <1>1, <1>2, PathJoin

\* Drawing and sending starts and ends with no mutex.
LEMMA DrawPaths ==
  ASSUME NEW a \in Awake, a.lock = "free"
  PROVE  /\ \A op \in Drawings : Path(Awake, Drawing(op), a, a)
         /\ Path(Awake, Draw, a, a) /\ Path(Awake, update, a, a) /\ Path(Awake, Redraw, a, a)
<1> DEFINE f == At(a, "fb")
           t == At(a, "both")
<1>0. /\ {"free", "fb", "both"} \subseteq Locks
      /\ {"fb", "suspend_lock", "unlock", "data"} \union Drawings \subseteq Ops
      /\ {"wipe", "text"} \subseteq Drawings
  BY DEF Locks, Ops, Mutexes, Drawings
<1>1. a \in Holding /\ f \in Awake /\ t \in Awake
  BY AwakeHolding
<1>2. f.lock = "fb" /\ t.lock = "both" /\ a = At(f, "free") /\ f = At(t, "fb") /\ t = At(f, "both")
  BY <1>0, <1>1, AtHolding
<1>3. /\ Effect("fb", a, f) /\ Effect("unlock", f, a)
      /\ \A op \in Drawings : Effect(op, f, f)
      /\ Effect("suspend_lock", f, t) /\ Effect("data", t, t) /\ Effect("unlock", t, f)
  BY <1>2 DEF Effect
<1> HIDE DEF f, t
<1>4. ASSUME NEW op \in Drawings PROVE Path(Awake, Drawing(op), a, a)
  BY <1>0, <1>1, <1>3, PathThree DEF Drawing
<1>5. Path(Awake, Draw, a, a)
  BY <1>0, <1>4, PathJoin DEF Draw
<1>6. Path(Awake, update, a, a)
  <2>1. update = <<"fb", "suspend_lock", "data">> \o <<"unlock", "unlock">>
    BY DEF update
  <2>2. Path(Awake, <<"fb", "suspend_lock", "data">>, a, t) /\ Path(Awake, <<"unlock", "unlock">>, t, a)
    BY <1>0, <1>1, <1>3, PathThree, PathTwo
  <2> QED
    BY <1>1, <2>1, <2>2, PathJoin
<1>7. Path(Awake, Redraw, a, a)
  BY <1>5, <1>6, PathJoin DEF Redraw
<1> QED
  BY <1>4, <1>5, <1>6, <1>7

\* The same for the UI thread.
LEMMA UIDrawPaths ==
  ASSUME NEW a \in Holding, a.lock = "free"
  PROVE  /\ \A op \in Drawings : Path(Holding, Drawing(op), a, a)
         /\ Path(Holding, Draw, a, a) /\ Path(Holding, update, a, a) /\ Path(Holding, Redraw, a, a)
<1>1. a \in Awake /\ Awake \subseteq Holding
  BY AwakeHolding
<1>2. \A p : Path(Awake, p, a, a) => Path(Holding, p, a, a)
  BY <1>1, PathWidens
<1> QED
  BY <1>1, <1>2, DrawPaths

\* Suspending takes the panel's mutex and keeps it; resuming gives it back.
LEMMA Slept ==
  ASSUME NEW a \in Holding, a.view # "viewing"
  PROVE  /\ \A l \in Locks : At(a, l) \in Holding
         /\ a.lock = "free" => /\ Path(Holding, sleep, a, At(a, "dark"))
                               /\ Path(Holding, suspend, a, At(a, "asleep"))
         /\ Path(Holding, wake, At(a, "dark"), At(a, "free"))
         /\ Path(Holding, <<"resume">>, At(a, "asleep"), At(a, "free"))
<1> DEFINE l == At(a, "lock")
           d == At(a, "dark")
           s == At(a, "asleep")
           f == At(a, "free")
<1>0. /\ {"free", "lock", "dark", "asleep"} \subseteq Locks
      /\ {"suspend_lock", "unlock", "off", "on", "mark", "resume"} \subseteq Ops
  BY DEF Locks, Ops, Mutexes
<1>1. \A k \in Locks : At(a, k) \in Holding
  BY AtHolding
<1>2. l \in Holding /\ d \in Holding /\ s \in Holding /\ f \in Holding
  BY <1>0, <1>1
<1>3. /\ l.lock = "lock" /\ d.lock = "dark" /\ s.lock = "asleep"
      /\ d = At(l, "dark") /\ s = At(d, "asleep") /\ l = At(d, "lock") /\ f = At(l, "free")
      /\ f = At(s, "free")
  BY <1>0, AtHolding
<1>4. /\ a.lock = "free" => Effect("suspend_lock", a, l)
      /\ Effect("off", l, d) /\ Effect("mark", d, s) /\ Effect("on", d, l) /\ Effect("unlock", l, f)
      /\ Effect("resume", s, f)
  BY <1>3 DEF Effect
<1> HIDE DEF l, d, s, f
<1>5. Path(Holding, wake, d, f) /\ Path(Holding, <<"resume">>, s, f)
  BY <1>0, <1>2, <1>4, PathOne, PathTwo DEF wake
<1>6. ASSUME a.lock = "free" PROVE Path(Holding, sleep, a, d) /\ Path(Holding, suspend, a, s)
  <2>1. Path(Holding, sleep, a, d)
    BY <1>0, <1>2, <1>4, <1>6, PathTwo DEF sleep
  <2>2. Path(Holding, <<"mark">>, d, s)
    BY <1>0, <1>2, <1>4, PathOne
  <2> QED
    BY <1>2, <2>1, <2>2, PathJoin DEF suspend
<1> QED
  BY <1>1, <1>5, <1>6 DEF l, d, s, f

-----------------------------------------------------------------------------
(* The mutexes.                                                            *)

\* The mutexes a thread may own, the last one first: the panel's under the frame buffer's.
Stacks == {<< >>, <<"fb">>, <<"suspend_lock">>, <<"suspend_lock", "fb">>}

\* A list has a mutex.
Has(s, m) == \E i \in DOMAIN s : s[i] = m

\* The mutexes of a thread when it gets the one it waits for.
Held == [t \in Threads |-> IF waits[t] = None THEN stack[t] ELSE <<waits[t]>> \o stack[t]]

\* The mutexes, their owners and their queues agree.
MutexInv ==
  /\ owner \in [Mutexes -> Threads \union {None}]
  /\ stack \in [Threads -> Stacks]
  /\ waits \in [Threads -> Mutexes \union {None}]
  /\ \A t \in Threads, m \in Mutexes : owner[m] = t <=> Has(stack[t], m)
  /\ \A t \in Threads : Held[t] \in Stacks /\ (waits[t] # None => owner[waits[t]] # None)

\* The mutexes in a list, and those left of it.
LEMMA StackFacts ==
  /\ \A s \in Stacks : /\ Has(s, "fb") <=> s \in {<<"fb">>, <<"suspend_lock", "fb">>}
                       /\ Has(s, "suspend_lock") <=> s \in {<<"suspend_lock">>, <<"suspend_lock", "fb">>}
  /\ \A s \in Stacks, m \in Mutexes : <<m>> \o s \in Stacks =>
       \/ s = << >> /\ <<m>> \o s = <<m>>
       \/ m = "suspend_lock" /\ s = <<"fb">> /\ <<m>> \o s = <<"suspend_lock", "fb">>
  /\ \A m \in Mutexes : <<m>> \o << >> = <<m>>
  /\ <<"suspend_lock">> \o <<"fb">> = <<"suspend_lock", "fb">>
  /\ Head(<<"fb">>) = "fb" /\ Tail(<<"fb">>) = << >>
  /\ Head(<<"suspend_lock">>) = "suspend_lock" /\ Tail(<<"suspend_lock">>) = << >>
  /\ Head(<<"suspend_lock", "fb">>) = "suspend_lock" /\ Tail(<<"suspend_lock", "fb">>) = <<"fb">>
<1>0. Mutexes \subseteq Ops /\ Mutexes = {"fb", "suspend_lock"}
  BY DEF Ops, Mutexes
<1>1. \A s \in Stacks : /\ Has(s, "fb") <=> s \in {<<"fb">>, <<"suspend_lock", "fb">>}
                        /\ Has(s, "suspend_lock") <=> s \in {<<"suspend_lock">>, <<"suspend_lock", "fb">>}
  BY DEF Stacks, Has
<1>2. \A m \in Mutexes : <<m>> \o << >> = <<m>>
  OBVIOUS
<1>3. \A m, x \in Mutexes : <<m>> \o <<x>> = <<m, x>>
  BY <1>0, Lists
<1>4. \A m \in Mutexes : <<m>> \o <<"suspend_lock", "fb">> \notin Stacks
  <2>1. \A m \in Mutexes : <<m>> \in Seq(Ops) /\ Len(<<m>>) = 1
    BY <1>0
  <2>2. <<"suspend_lock", "fb">> \in Seq(Ops) /\ Len(<<"suspend_lock", "fb">>) = 2
    BY <1>0
  <2>3. \A m \in Mutexes : Len(<<m>> \o <<"suspend_lock", "fb">>) = 3
    BY <2>1, <2>2, ConcatProperties
  <2>4. \A s \in Stacks : Len(s) # 3
    BY DEF Stacks
  <2> QED
    BY <2>3, <2>4
<1>5. \A m, x \in Mutexes : <<m, x>> \in Stacks => m = "suspend_lock" /\ x = "fb"
  BY DEF Stacks
<1>6. \A s \in Stacks, m \in Mutexes : <<m>> \o s \in Stacks =>
       \/ s = << >> /\ <<m>> \o s = <<m>>
       \/ m = "suspend_lock" /\ s = <<"fb">> /\ <<m>> \o s = <<"suspend_lock", "fb">>
  <2> SUFFICES ASSUME NEW s \in Stacks, NEW m \in Mutexes, <<m>> \o s \in Stacks
               PROVE  \/ s = << >> /\ <<m>> \o s = <<m>>
                      \/ m = "suspend_lock" /\ s = <<"fb">> /\ <<m>> \o s = <<"suspend_lock", "fb">>
    OBVIOUS
  <2>1. CASE s = << >>
    BY <1>2, <2>1
  <2>2. CASE s = <<"fb">>
    <3>1. <<m>> \o s = <<m, "fb">>
      BY <1>0, <1>3, <2>2
    <3> QED
      BY <1>0, <1>5, <2>2, <3>1
  <2>3. CASE s = <<"suspend_lock">>
    <3>1. <<m>> \o s = <<m, "suspend_lock">>
      BY <1>0, <1>3, <2>3
    <3> QED
      BY <1>0, <1>5, <3>1
  <2>4. CASE s = <<"suspend_lock", "fb">>
    BY <1>4, <2>4
  <2> QED
    BY <2>1, <2>2, <2>3, <2>4 DEF Stacks
<1>7. <<"suspend_lock">> \o <<"fb">> = <<"suspend_lock", "fb">>
  BY <1>0, <1>3
<1>8. /\ Head(<<"fb">>) = "fb" /\ Tail(<<"fb">>) = << >>
      /\ Head(<<"suspend_lock">>) = "suspend_lock" /\ Tail(<<"suspend_lock">>) = << >>
      /\ Head(<<"suspend_lock", "fb">>) = "suspend_lock" /\ Tail(<<"suspend_lock", "fb">>) = <<"fb">>
  OBVIOUS
<1> QED
  BY <1>1, <1>2, <1>6, <1>7, <1>8

\* Pushing and popping a mutex changes what the list has by that mutex.
LEMMA Pushed ==
  ASSUME NEW s \in Stacks, NEW m \in Mutexes, <<m>> \o s \in Stacks
  PROVE  \A n \in Mutexes : Has(<<m>> \o s, n) <=> n = m \/ Has(s, n)
<1>1. << >> \in Stacks /\ <<"fb">> \in Stacks /\ <<"suspend_lock">> \in Stacks
      /\ <<"suspend_lock", "fb">> \in Stacks
  BY DEF Stacks
<1>2. /\ << >> # <<"fb">> /\ << >> # <<"suspend_lock">> /\ << >> # <<"suspend_lock", "fb">>
      /\ <<"fb">> # <<"suspend_lock">> /\ <<"fb">> # <<"suspend_lock", "fb">>
      /\ <<"suspend_lock">> # <<"suspend_lock", "fb">>
  OBVIOUS
<1>3. \A n \in Mutexes : n = "fb" \/ n = "suspend_lock"
  BY DEF Mutexes
<1>4. CASE s = << >> /\ <<m>> \o s = <<m>>
  <2>1. \A n \in Mutexes : ~ Has(<< >>, n)
    BY DEF Has
  <2>2. \A n \in Mutexes : Has(<<m>>, n) <=> n = m
    BY DEF Has
  <2> QED
    BY <1>4, <2>1, <2>2
<1>5. CASE m = "suspend_lock" /\ s = <<"fb">> /\ <<m>> \o s = <<"suspend_lock", "fb">>
  <2>1. \A n \in Mutexes : Has(<<"suspend_lock", "fb">>, n) /\ (Has(<<"fb">>, n) <=> n = "fb")
    BY <1>1, <1>2, <1>3, StackFacts
  <2> QED
    BY <1>3, <1>5, <2>1
<1> QED
  BY <1>4, <1>5, StackFacts

\* Popping takes that mutex from the list, and no other.
LEMMA Popped ==
  ASSUME NEW s \in Stacks, s # << >>
  PROVE  /\ Head(s) \in Mutexes /\ Tail(s) \in Stacks
         /\ \A n \in Mutexes : Has(Tail(s), n) <=> n # Head(s) /\ Has(s, n)
         /\ Has(s, Head(s))
<1>1. << >> \in Stacks /\ <<"fb">> \in Stacks /\ <<"suspend_lock">> \in Stacks
      /\ <<"suspend_lock", "fb">> \in Stacks
  BY DEF Stacks
<1>2. /\ << >> # <<"fb">> /\ << >> # <<"suspend_lock">> /\ << >> # <<"suspend_lock", "fb">>
      /\ <<"fb">> # <<"suspend_lock">> /\ <<"fb">> # <<"suspend_lock", "fb">>
      /\ <<"suspend_lock">> # <<"suspend_lock", "fb">>
  OBVIOUS
<1>3. Mutexes = {"fb", "suspend_lock"}
  BY DEF Mutexes
<1>4. s = <<"fb">> \/ s = <<"suspend_lock">> \/ s = <<"suspend_lock", "fb">>
  BY DEF Stacks
<1>5. CASE s = <<"fb">>
  <2>1. Head(s) = "fb" /\ Tail(s) = << >>
    BY <1>5, StackFacts
  <2>2. \A n \in Mutexes : (Has(s, n) <=> n = "fb") /\ ~ Has(<< >>, n)
    BY <1>1, <1>2, <1>3, <1>5, StackFacts
  <2> QED
    BY <1>1, <1>3, <2>1, <2>2
<1>6. CASE s = <<"suspend_lock">>
  <2>1. Head(s) = "suspend_lock" /\ Tail(s) = << >>
    BY <1>6, StackFacts
  <2>2. \A n \in Mutexes : (Has(s, n) <=> n = "suspend_lock") /\ ~ Has(<< >>, n)
    BY <1>1, <1>2, <1>3, <1>6, StackFacts
  <2> QED
    BY <1>1, <1>3, <2>1, <2>2
<1>7. CASE s = <<"suspend_lock", "fb">>
  <2>1. Head(s) = "suspend_lock" /\ Tail(s) = <<"fb">>
    BY <1>7, StackFacts
  <2>2. \A n \in Mutexes : Has(s, n) /\ (Has(<<"fb">>, n) <=> n = "fb")
    BY <1>1, <1>2, <1>3, <1>7, StackFacts
  <2> QED
    BY <1>1, <1>3, <2>1, <2>2
<1> QED
  BY <1>4, <1>5, <1>6, <1>7

\* Whether a thread gets the mutex or waits for it, it will have it.
LEMMA Locked ==
  ASSUME MutexInv, NEW t \in Threads, NEW m \in Mutexes, chMtxLock(t, m), <<m>> \o stack[t] \in Stacks
  PROVE  /\ MutexInv'
         /\ Held'[t] = <<m>> \o stack[t]
         /\ \A u \in Threads \ {t} : Held'[u] = Held[u]
<1> USE DEF MutexInv
<1>0. m # None /\ t # None /\ waits[t] = None
  BY DEF Mutexes, Threads, None, chMtxLock, Calls
<1>1. CASE owner[m] = None
  <2>1. /\ owner' = [owner EXCEPT ![m] = t]
        /\ stack' = [stack EXCEPT ![t] = <<m>> \o @]
        /\ waits' = waits
    BY <1>1 DEF chMtxLock
  <2>2. stack'[t] = <<m>> \o stack[t] /\ \A u \in Threads \ {t} : stack'[u] = stack[u]
    BY <2>1
  <2>3. Held'[t] = <<m>> \o stack[t] /\ \A u \in Threads \ {t} : Held'[u] = Held[u]
    BY <1>0, <2>1, <2>2 DEF Held
  <2>4. owner' \in [Mutexes -> Threads \union {None}] /\ stack' \in [Threads -> Stacks]
    BY <2>1
  <2>5. ASSUME NEW u \in Threads, NEW n \in Mutexes
        PROVE  owner'[n] = u <=> Has(stack'[u], n)
    <3>1. CASE u = t
      <4>1. Has(stack'[t], n) <=> n = m \/ Has(stack[t], n)
        BY <2>2, Pushed
      <4> QED
        BY <2>1, <3>1, <4>1
    <3>2. CASE u # t
      BY <1>0, <1>1, <2>1, <2>2, <3>2 DEF Threads, None
    <3> QED
      BY <3>1, <3>2
  <2>6. \A u \in Threads : waits'[u] # None => owner'[waits'[u]] # None
    BY <1>0, <2>1
  <2>7. \A u \in Threads : Held'[u] \in Stacks
    BY <2>3
  <2> QED
    BY <2>1, <2>3, <2>4, <2>5, <2>6, <2>7
<1>2. CASE owner[m] # None
  <2>1. waits' = [waits EXCEPT ![t] = m] /\ owner' = owner /\ stack' = stack
    BY <1>2 DEF chMtxLock
  <2>2. Held'[t] = <<m>> \o stack[t] /\ \A u \in Threads \ {t} : Held'[u] = Held[u]
    BY <1>0, <2>1 DEF Held
  <2>3. waits' \in [Threads -> Mutexes \union {None}]
    BY <2>1
  <2>4. \A u \in Threads : waits'[u] # None => owner'[waits'[u]] # None
    BY <1>2, <2>1
  <2>5. \A u \in Threads : Held'[u] \in Stacks
    BY <2>2
  <2> QED
    BY <2>1, <2>2, <2>3, <2>4, <2>5
<1> QED
  BY <1>1, <1>2

\* Unlocking gives the mutex to a thread that was to have it.
LEMMA Unlocked ==
  ASSUME MutexInv, NEW t \in Threads, chMtxUnlock(t), stack[t] # << >>
  PROVE  /\ MutexInv'
         /\ Held'[t] = Tail(stack[t])
         /\ \A u \in Threads \ {t} : Held'[u] = Held[u]
<1> USE DEF MutexInv
<1> DEFINE m == Head(stack[t])
           Queued == {u \in Threads : waits[u] = m}
<1>0. /\ m \in Mutexes /\ m # None /\ waits[t] = None /\ Tail(stack[t]) \in Stacks
      /\ \A n \in Mutexes : Has(Tail(stack[t]), n) <=> n # m /\ Has(stack[t], n)
      /\ owner[m] = t
  BY Popped DEF Mutexes, None, chMtxUnlock, Calls
<1>1. ASSUME Queued = {},
             owner' = [owner EXCEPT ![m] = None],
             stack' = [stack EXCEPT ![t] = Tail(@)],
             waits' = waits
      PROVE  /\ MutexInv'
             /\ Held'[t] = Tail(stack[t])
             /\ \A u \in Threads \ {t} : Held'[u] = Held[u]
  <2> HIDE DEF m
  <2>1. stack'[t] = Tail(stack[t]) /\ \A u \in Threads \ {t} : stack'[u] = stack[u]
    BY <1>1
  <2>2. Held'[t] = Tail(stack[t]) /\ \A u \in Threads \ {t} : Held'[u] = Held[u]
    BY <1>0, <1>1, <2>1 DEF Held
  <2>3. owner' \in [Mutexes -> Threads \union {None}] /\ stack' \in [Threads -> Stacks]
    BY <1>0, <1>1
  <2>4. ASSUME NEW u \in Threads, NEW n \in Mutexes
        PROVE  owner'[n] = u <=> Has(stack'[u], n)
    <3>1. u # None
      BY DEF Threads, None
    <3>2. CASE u = t
      BY <1>0, <1>1, <2>1, <3>1, <3>2
    <3>3. CASE u # t
      BY <1>0, <1>1, <2>1, <3>1, <3>3
    <3> QED
      BY <3>2, <3>3
  <2>5. \A u \in Threads : waits'[u] # None => owner'[waits'[u]] # None
    BY <1>0, <1>1
  <2>6. \A u \in Threads : Held'[u] \in Stacks
    BY <1>0, <2>2
  <2> QED
    BY <1>1, <2>2, <2>3, <2>4, <2>5, <2>6
<1>2. ASSUME NEW u \in Queued,
             owner' = [owner EXCEPT ![m] = u],
             stack' = [stack EXCEPT ![t] = Tail(@), ![u] = <<m>> \o @],
             waits' = [waits EXCEPT ![u] = None]
      PROVE  /\ MutexInv'
             /\ Held'[t] = Tail(stack[t])
             /\ \A v \in Threads \ {t} : Held'[v] = Held[v]
  <2>0. u \in Threads /\ waits[u] = m /\ u # t /\ u # None
    BY <1>0 DEF Threads, None
  <2>1. Held[u] = <<m>> \o stack[u] /\ <<m>> \o stack[u] \in Stacks
    BY <1>0, <2>0 DEF Held
  <2> HIDE DEF m
  <2>2. /\ stack'[t] = Tail(stack[t]) /\ stack'[u] = <<m>> \o stack[u]
        /\ \A v \in Threads \ {t, u} : stack'[v] = stack[v]
    BY <1>2, <2>0
  <2>3. Held'[t] = Tail(stack[t])
    BY <1>0, <1>2, <2>0, <2>2 DEF Held
  <2>4. ASSUME NEW v \in Threads \ {t} PROVE Held'[v] = Held[v]
    <3>1. CASE v = u
      BY <1>0, <1>2, <2>0, <2>1, <2>2, <3>1 DEF Held
    <3>2. CASE v # u
      <4>1. waits'[v] = waits[v] /\ stack'[v] = stack[v]
        BY <1>2, <2>2, <3>2
      <4> QED
        BY <4>1 DEF Held
    <3> QED
      BY <3>1, <3>2
  <2>5. /\ owner' \in [Mutexes -> Threads \union {None}] /\ stack' \in [Threads -> Stacks]
        /\ waits' \in [Threads -> Mutexes \union {None}]
    BY <1>0, <1>2, <2>0, <2>1
  <2>6. ASSUME NEW v \in Threads, NEW n \in Mutexes
        PROVE  owner'[n] = v <=> Has(stack'[v], n)
    <3>1. CASE v = t
      <4>1. Has(stack'[t], n) <=> n # m /\ Has(stack[t], n)
        BY <1>0, <2>2
      <4>2. owner[n] = t <=> Has(stack[t], n)
        OBVIOUS
      <4>3. (n = m => owner'[n] # t) /\ (n # m => owner'[n] = owner[n])
        BY <1>0, <1>2, <2>0
      <4> QED
        BY <3>1, <4>1, <4>2, <4>3
    <3>2. CASE v = u
      <4>1. Has(stack'[u], n) <=> n = m \/ Has(stack[u], n)
        BY <1>0, <2>0, <2>1, <2>2, Pushed
      <4>2. owner[m] = t /\ (owner[n] = u <=> Has(stack[u], n))
        BY <1>0, <2>0
      <4>3. owner'[m] = u /\ (n # m => owner'[n] = owner[n])
        BY <1>0, <1>2
      <4> QED
        BY <3>2, <4>1, <4>2, <4>3
    <3>3. CASE v \notin {t, u}
      <4>1. stack'[v] = stack[v]
        BY <2>2, <3>3
      <4>2. owner[n] = v <=> Has(stack[v], n)
        OBVIOUS
      <4>3. n = m => owner[n] # v /\ owner'[n] # v
        BY <1>0, <1>2, <2>0, <3>3
      <4>4. n # m => owner'[n] = owner[n]
        BY <1>0, <1>2
      <4> QED
        BY <4>1, <4>2, <4>3, <4>4
    <3> QED
      BY <3>1, <3>2, <3>3
  <2>7. \A v \in Threads : waits'[v] # None => owner'[waits'[v]] # None
    BY <1>0, <1>2, <2>0
  <2>8. \A v \in Threads : Held'[v] \in Stacks
    <3>1. \A v \in Threads \ {t} : Held[v] \in Stacks
      OBVIOUS
    <3> QED
      BY <1>0, <2>3, <2>4, <3>1
  <2> QED
    BY <2>3, <2>4, <2>5, <2>6, <2>7, <2>8
<1> HIDE DEF m
<1>3. \/ /\ Queued = {}
         /\ owner' = [owner EXCEPT ![m] = None]
         /\ stack' = [stack EXCEPT ![t] = Tail(@)]
         /\ waits' = waits
      \/ \E u \in Queued :
           /\ owner' = [owner EXCEPT ![m] = u]
           /\ stack' = [stack EXCEPT ![t] = Tail(@), ![u] = <<m>> \o @]
           /\ waits' = [waits EXCEPT ![u] = None]
  BY DEF chMtxUnlock, m
<1> QED
  BY <1>1, <1>2, <1>3

\* The frame buffer's mutex is always locked before the panel's, and the thread that
\* owns the panel's waits for nothing.
LEMMA LockOrder ==
  ASSUME MutexInv
  PROVE  NoDeadlock /\ NoSelfDeadlock
<1> USE DEF MutexInv
<1>0. \A t \in Threads : t # None
  BY DEF Threads, None
<1>1. ASSUME NEW t \in Threads, NEW m \in Mutexes, owner[m] = t, waits[t] # None
      PROVE  m = "fb" /\ waits[t] = "suspend_lock"
  <2>1. <<waits[t]>> \o stack[t] \in Stacks /\ waits[t] \in Mutexes /\ Has(stack[t], m)
    BY <1>1 DEF Held
  <2>2. ~ Has(<< >>, m)
    BY DEF Has
  <2>3. waits[t] = "suspend_lock" /\ stack[t] = <<"fb">>
    BY <2>1, <2>2, StackFacts
  <2>4. <<"fb">> \in Stacks /\ <<"fb">> # <<"suspend_lock">> /\ <<"fb">> # <<"suspend_lock", "fb">>
    BY DEF Stacks
  <2> QED
    BY <2>1, <2>3, <2>4, StackFacts DEF Mutexes
<1>2. NoSelfDeadlock
  <2> SUFFICES ASSUME NEW t \in Threads, waits[t] # None, owner[waits[t]] = t PROVE FALSE
    BY DEF NoSelfDeadlock
  <2>1. waits[t] \in Mutexes
    OBVIOUS
  <2> QED
    BY <1>1, <2>1
<1>3. NoDeadlock
  <2> SUFFICES ASSUME NEW W \in (SUBSET Threads) \ {{}},
                      \A t \in W : waits[t] # None /\ owner[waits[t]] \in W
               PROVE  FALSE
    BY DEF NoDeadlock
  <2>0. W # {}
    OBVIOUS
  <2>1. \A t \in W : t \in Threads /\ waits[t] \in Mutexes
    OBVIOUS
  <2>2. PICK t \in W : t \in Threads
    BY <2>0, <2>1
  <2>3. PICK u \in W : u = owner[waits[t]]
    OBVIOUS
  <2>4. waits[t] = "fb" /\ waits[u] = "suspend_lock"
    BY <1>1, <2>1, <2>2, <2>3
  <2>5. PICK v \in W : v = owner[waits[u]]
    BY <2>3
  <2> QED
    BY <1>1, <2>1, <2>4, <2>5
<1> QED
  BY <1>2, <1>3

-----------------------------------------------------------------------------
(* The invariant: every thread's calls are in order, and the UI thread's   *)
(* lead from what the variables say to its next wait.                      *)

\* The mutexes held in a state.
Stk(l) ==
  CASE l = "free" -> << >>
    [] l = "fb"   -> <<"fb">>
    [] l = "both" -> <<"suspend_lock", "fb">>
    [] OTHER      -> <<"suspend_lock">>

\* What the UI thread's state says of the variables.
Matches(a) ==
  /\ panel <=> a.lock \notin Dark
  /\ is_suspended <=> a.lock = "asleep"
  /\ suspend_enabled <=> a.view = "enabled"
  /\ drawing <=> a.view = "viewing"
  /\ armed \/ "SUSPEND" \in events => "stale" \in a.flags
  /\ "SELECT" \in events /\ "RESUME" \notin events => "loose" \in a.flags
  /\ "woken" \in a.flags => "RESUME" \in events
  /\ env.logFails => "fails" \in a.flags

\* The state in which it waits for events.
Rests(b) ==
  /\ "loose" \notin b.flags
  /\ at \in {"loop", "button"} => b.lock = "free"
  /\ at = "asleep" => b.lock = "asleep" \/ (b.lock = "free" /\ "woken" \in b.flags)
  /\ at = "button asleep" => b.lock = "asleep"
  /\ screen \notin {"view", "test"} => b.view = "enabled"
  /\ screen = "view" => b.view # "inhibited"
  /\ screen = "test" => b.view # "viewing"
  /\ b.view = "viewing" => "stale" \notin b.flags
  /\ at \in {"button", "button asleep"} <=> screen = "test"

\* The states of a thread.
States(t) == IF t = "ui" THEN Holding ELSE Awake

\* How its list starts and ends.
Ends(t, a, b) == IF t = "ui" THEN Matches(a) /\ Rests(b) ELSE b.lock = "free"

\* The calls that each thread has still to make are in order.
ThreadInv ==
  \A t \in Threads : \E a, b \in States(t) :
    Held[t] = Stk(a.lock) /\ Path(States(t), todo[t], a, b) /\ Ends(t, a, b)

\* The settings of the screens and the events.
Settings ==
  /\ events \subseteq Masks
  /\ armed \in BOOLEAN /\ suspend_enabled \in BOOLEAN /\ is_suspended \in BOOLEAN
  /\ panel \in BOOLEAN /\ drawing \in BOOLEAN /\ err_msg \in BOOLEAN
  /\ armed => suspend_enabled
  /\ "SUSPEND" \in events => env.userIdles
  /\ err_msg => env.logFails

\* What else the steps keep.
Quiet ==
  /\ Settings
  /\ waits["ui"] # None => panel

\* The types of the rest.
Typed ==
  /\ screen \in Screens /\ at \in Waits
  /\ todo \in [Threads -> Seq(Ops)]
  /\ limits \in Limits /\ unsent \subseteq Page
  /\ env \in Environments

\* The inductive invariant.
CallInv == Typed /\ MutexInv /\ Quiet /\ ThreadInv

\* The log thread is sound, or the user is at the keys: chMtxLock() of the panel's mutex by
\* its owner, the fault that run suspend_lock shows, needs both.
NeverBoth == \A e \in Environments : ~ (e.logFails /\ e.userIdles)

\* The mutexes that go with each state.
LEMMA StkFacts ==
  /\ Stk("free") = << >> /\ Stk("fb") = <<"fb">> /\ Stk("both") = <<"suspend_lock", "fb">>
  /\ Stk("lock") = <<"suspend_lock">> /\ Stk("dark") = <<"suspend_lock">>
  /\ Stk("asleep") = <<"suspend_lock">>
  /\ \A l \in Locks : Stk(l) \in Stacks /\ (Stk(l) = << >> <=> l = "free")
<1>1. /\ Stk("free") = << >> /\ Stk("fb") = <<"fb">> /\ Stk("both") = <<"suspend_lock", "fb">>
      /\ Stk("lock") = <<"suspend_lock">> /\ Stk("dark") = <<"suspend_lock">>
      /\ Stk("asleep") = <<"suspend_lock">>
  BY DEF Stk
<1>2. << >> # <<"fb">> /\ << >> # <<"suspend_lock">> /\ << >> # <<"suspend_lock", "fb">>
  OBVIOUS
<1>3. \A l \in Locks : Stk(l) \in Stacks /\ (Stk(l) = << >> <=> l = "free")
  BY <1>1, <1>2 DEF Locks, Stacks
<1> QED
  BY <1>1, <1>3

\* A thread about to call: the call is in order.
LEMMA NextCall ==
  ASSUME CallInv, NEW t \in Threads, NEW op, Calls(t, op)
  PROVE  /\ op \in Ops /\ Tail(todo[t]) \in Seq(Ops)
         /\ \E a, c, b \in States(t) :
              /\ Held[t] = Stk(a.lock) /\ stack[t] = Stk(a.lock)
              /\ Effect(op, a, c) /\ Path(States(t), Tail(todo[t]), c, b) /\ Ends(t, a, b)
<1>1. PICK a \in States(t), b \in States(t) :
        Held[t] = Stk(a.lock) /\ Path(States(t), todo[t], a, b) /\ Ends(t, a, b)
  BY DEF CallInv, ThreadInv
<1>2. waits[t] = None /\ todo[t] # << >> /\ Head(todo[t]) = op /\ todo[t] \in Seq(Ops)
  BY DEF Calls, CallInv, Typed
<1>3. stack[t] = Held[t]
  BY <1>2 DEF Held
<1>4. op \in Ops /\ Tail(todo[t]) \in Seq(Ops)
  BY <1>2, HeadTailProperties
<1>5. PICK c \in States(t) : Effect(op, a, c) /\ Path(States(t), Tail(todo[t]), c, b)
  BY <1>1, <1>2, PathHead
<1> QED
  BY <1>1, <1>3, <1>4, <1>5

\* The calls in more come before the rest.
LEMMA Continues ==
  ASSUME CallInv, NEW t \in Threads, NEW op, Calls(t, op), NEW more, Returns(t, more),
         NEW a \in States(t), NEW b \in States(t), NEW c \in States(t),
         Path(States(t), more, a, c), Path(States(t), Tail(todo[t]), c, b)
  PROVE  /\ Path(States(t), todo'[t], a, b)
         /\ todo' \in [Threads -> Seq(Ops)]
         /\ \A u \in Threads \ {t} : todo'[u] = todo[u]
<1>1. Path(States(t), more \o Tail(todo[t]), a, b)
  BY PathJoin
<1>2. more \o Tail(todo[t]) \in Seq(Ops)
  BY <1>1 DEF Path
<1> QED
  BY <1>1, <1>2 DEF Returns, CallInv, Typed

\* A thread that starts on a new list.
LEMMA Starts ==
  ASSUME CallInv, NEW t \in Threads, NEW p, todo' = [todo EXCEPT ![t] = p],
         NEW a \in States(t), NEW b \in States(t), Path(States(t), p, a, b)
  PROVE  /\ Path(States(t), todo'[t], a, b)
         /\ todo' \in [Threads -> Seq(Ops)]
         /\ \A u \in Threads \ {t} : todo'[u] = todo[u]
  BY DEF Path, CallInv, Typed

\* The other threads are where they were.
LEMMA Together ==
  ASSUME CallInv, NEW t \in Threads, Typed', MutexInv', Quiet',
         \A u \in Threads \ {t} : Held'[u] = Held[u] /\ todo'[u] = todo[u],
         t = "ui" \/ UNCHANGED <<place, events, suspension, panel, drawing, env>>,
         NEW a \in States(t), NEW b \in States(t),
         Held'[t] = Stk(a.lock), Path(States(t), todo'[t], a, b), Ends(t, a, b)'
  PROVE  CallInv'
<1>1. ASSUME NEW u \in Threads
      PROVE  \E x, y \in States(u) :
               Held'[u] = Stk(x.lock) /\ Path(States(u), todo'[u], x, y) /\ Ends(u, x, y)'
  <2>1. CASE u = t
    BY <2>1
  <2>2. CASE u # t
    <3>1. PICK x \in States(u), y \in States(u) :
            Held[u] = Stk(x.lock) /\ Path(States(u), todo[u], x, y) /\ Ends(u, x, y)
      BY DEF CallInv, ThreadInv
    <3>2. Held'[u] = Stk(x.lock) /\ Path(States(u), todo'[u], x, y)
      BY <2>2, <3>1
    <3>3. Ends(u, x, y)'
      <4>1. CASE u = "ui"
        <5>1. UNCHANGED <<place, events, suspension, panel, drawing, env>>
          BY <2>2, <4>1
        <5>2. Matches(x)'
          BY <3>1, <4>1, <5>1 DEF Ends, Matches, suspension
        <5>3. Rests(y)'
          BY <3>1, <4>1, <5>1 DEF Ends, Rests, place
        <5> QED
          BY <4>1, <5>2, <5>3 DEF Ends
      <4>2. CASE u # "ui"
        BY <3>1, <4>2 DEF Ends
      <4> QED
        BY <4>1, <4>2
    <3> QED
      BY <3>2, <3>3
  <2> QED
    BY <2>1, <2>2
<1>2. ThreadInv'
  BY <1>1 DEF ThreadInv, States
<1> QED
  BY <1>2 DEF CallInv

-----------------------------------------------------------------------------
(* The calls every thread makes.                                           *)

\* The states of a thread are states.
LEMMA StatesHolding ==
  ASSUME NEW t \in Threads, NEW a \in States(t)
  PROVE  a \in Holding /\ Path(States(t), << >>, a, a)
<1>1. a \in Holding
  BY AwakeHolding DEF States
<1> QED
  BY <1>1, PathEmpty

\* A call that adds nothing leaves the rest.
LEMMA GoesOn ==
  ASSUME CallInv, NEW t \in Threads, NEW op, Calls(t, op), Returns(t, << >>),
         NEW b \in States(t), NEW c \in States(t), Path(States(t), Tail(todo[t]), c, b)
  PROVE  /\ Path(States(t), todo'[t], c, b)
         /\ todo' \in [Threads -> Seq(Ops)]
         /\ \A u \in Threads \ {t} : todo'[u] = todo[u]
  BY StatesHolding, Continues

\* A thread that only locks, draws and sends leaves the panel and the screens alone.
LEMMA SameEnds ==
  ASSUME NEW t \in Threads, NEW a \in Holding, NEW b, NEW c \in Holding, Ends(t, a, b),
         UNCHANGED <<place, events, suspension, panel, drawing, env>>,
         c.view = a.view, c.flags = a.flags, a.lock \notin Dark, c.lock \notin Dark
  PROVE  Ends(t, c, b)'
<1>1. CASE t = "ui"
  <2>1. Matches(a) /\ Rests(b)
    BY <1>1 DEF Ends
  <2>2. a.lock # "asleep" /\ c.lock # "asleep"
    BY DEF Dark
  <2>3. Matches(c)'
    BY <2>1, <2>2 DEF Matches, suspension
  <2>4. Rests(b)'
    BY <2>1 DEF Rests, place
  <2> QED
    BY <1>1, <2>3, <2>4 DEF Ends
<1>2. CASE t # "ui"
  BY <1>2 DEF Ends
<1> QED
  BY <1>1, <1>2

\* Locking: the panel's mutex comes after the frame buffer's, or alone.
LEMMA LockStep ==
  ASSUME CallInv, NEW t \in Threads, NEW m \in Mutexes, chMtxLock(t, m)
  PROVE  CallInv'
<1>0. Calls(t, m) /\ Returns(t, << >>)
      /\ UNCHANGED <<place, events, suspension, panel, drawing, pixels, logger>>
  BY DEF chMtxLock
<1>1. PICK a \in States(t), c \in States(t), b \in States(t) :
        /\ Held[t] = Stk(a.lock) /\ stack[t] = Stk(a.lock)
        /\ Effect(m, a, c) /\ Path(States(t), Tail(todo[t]), c, b) /\ Ends(t, a, b)
  BY <1>0, NextCall
<1>2. a \in Holding /\ c \in Holding
  BY StatesHolding
<1>3. /\ Stk(c.lock) = <<m>> \o Stk(a.lock)
      /\ c.view = a.view /\ c.flags = a.flags /\ a.lock \notin Dark /\ c.lock \notin Dark
  <2>1. /\ {"fb", "lock", "both"} \subseteq Locks
        /\ \A x \in {"free", "fb", "lock", "both"} : x \notin Dark
    BY DEF Locks, Dark
  <2>2. \/ m = "fb" /\ a.lock = "free" /\ c = At(a, "fb")
        \/ m = "suspend_lock" /\ a.lock = "free" /\ c = At(a, "lock")
        \/ m = "suspend_lock" /\ a.lock = "fb" /\ c = At(a, "both")
    BY <1>1 DEF Effect, Mutexes, Drawings
  <2>3. /\ <<"fb">> \o << >> = <<"fb">> /\ <<"suspend_lock">> \o << >> = <<"suspend_lock">>
        /\ <<"suspend_lock">> \o <<"fb">> = <<"suspend_lock", "fb">>
    BY StackFacts DEF Mutexes
  <2>4. c.view = a.view /\ c.flags = a.flags /\ a.lock \notin Dark /\ c.lock \notin Dark
    BY <1>2, <2>1, <2>2, AtHolding
  <2>5. \/ m = "fb" /\ a.lock = "free" /\ c.lock = "fb"
        \/ m = "suspend_lock" /\ a.lock = "free" /\ c.lock = "lock"
        \/ m = "suspend_lock" /\ a.lock = "fb" /\ c.lock = "both"
    BY <1>2, <2>1, <2>2, AtHolding
  <2>6. Stk(c.lock) = <<m>> \o Stk(a.lock)
    BY <2>3, <2>5, StkFacts
  <2> QED
    BY <2>4, <2>6
<1>4. Stk(c.lock) \in Stacks
  BY <1>2, AtHolding, StkFacts
<1>5. /\ MutexInv' /\ Held'[t] = Stk(c.lock)
      /\ \A u \in Threads \ {t} : Held'[u] = Held[u]
  BY <1>1, <1>3, <1>4, Locked DEF CallInv
<1>6. /\ Path(States(t), todo'[t], c, b)
      /\ todo' \in [Threads -> Seq(Ops)]
      /\ \A u \in Threads \ {t} : todo'[u] = todo[u]
  BY <1>0, <1>1, GoesOn
<1>7. Typed'
  BY <1>0, <1>6 DEF Typed, CallInv, place, pixels, logger
<1>8. Quiet'
  <2>1. waits'["ui"] # None => panel
    <3>1. CASE t = "ui"
      BY <1>1, <1>3, <3>1 DEF Ends, Matches
    <3>2. CASE t # "ui"
      <4>1. waits'["ui"] = waits["ui"]
        BY <3>2 DEF chMtxLock, CallInv, MutexInv, Threads
      <4> QED
        BY <4>1 DEF CallInv, Quiet
    <3> QED
      BY <3>1, <3>2
  <2> QED
    BY <1>0, <2>1 DEF Settings, Quiet, CallInv, suspension, logger
<1>9. Ends(t, c, b)'
  BY <1>0, <1>1, <1>2, <1>3, SameEnds DEF logger
<1> QED
  BY <1>0, <1>5, <1>6, <1>7, <1>8, <1>9, Together DEF logger

\* Unlocking gives back what the state says.
LEMMA UnlockStep ==
  ASSUME CallInv, NEW t \in Threads, chMtxUnlock(t)
  PROVE  CallInv'
<1>0. Calls(t, "unlock") /\ Returns(t, << >>)
      /\ UNCHANGED <<place, events, suspension, panel, drawing, pixels, logger>>
  BY DEF chMtxUnlock
<1>1. PICK a \in States(t), c \in States(t), b \in States(t) :
        /\ Held[t] = Stk(a.lock) /\ stack[t] = Stk(a.lock)
        /\ Effect("unlock", a, c) /\ Path(States(t), Tail(todo[t]), c, b) /\ Ends(t, a, b)
  BY <1>0, NextCall
<1>2. a \in Holding /\ c \in Holding
  BY StatesHolding
<1>3. /\ Stk(a.lock) # << >> /\ Stk(c.lock) = Tail(Stk(a.lock))
      /\ c.view = a.view /\ c.flags = a.flags /\ a.lock \notin Dark /\ c.lock \notin Dark
  <2>1. /\ {"free", "fb", "lock", "both"} \subseteq Locks
        /\ \A x \in {"free", "fb", "lock", "both"} : x \notin Dark
    BY DEF Locks, Dark
  <2>2. \/ a.lock = "fb" /\ c = At(a, "free")
        \/ a.lock = "lock" /\ c = At(a, "free")
        \/ a.lock = "both" /\ c = At(a, "fb")
    BY <1>1 DEF Effect, Drawings
  <2>3. /\ Tail(<<"fb">>) = << >> /\ Tail(<<"suspend_lock">>) = << >>
        /\ Tail(<<"suspend_lock", "fb">>) = <<"fb">>
    BY StackFacts
  <2>4. c.view = a.view /\ c.flags = a.flags /\ a.lock \notin Dark /\ c.lock \notin Dark
    BY <1>2, <2>1, <2>2, AtHolding
  <2>5. \/ a.lock = "fb" /\ c.lock = "free"
        \/ a.lock = "lock" /\ c.lock = "free"
        \/ a.lock = "both" /\ c.lock = "fb"
    BY <1>2, <2>1, <2>2, AtHolding
  <2>6. Stk(c.lock) = Tail(Stk(a.lock))
    BY <2>3, <2>5, StkFacts
  <2>7. a.lock # "free" /\ a.lock \in Locks
    BY <1>2, <2>5, AtHolding
  <2> QED
    BY <2>4, <2>6, <2>7, StkFacts
<1>5. /\ MutexInv' /\ Held'[t] = Stk(c.lock)
      /\ \A u \in Threads \ {t} : Held'[u] = Held[u]
  BY <1>1, <1>3, Unlocked DEF CallInv
<1>6. /\ Path(States(t), todo'[t], c, b)
      /\ todo' \in [Threads -> Seq(Ops)]
      /\ \A u \in Threads \ {t} : todo'[u] = todo[u]
  BY <1>0, <1>1, GoesOn
<1>7. Typed'
  BY <1>0, <1>6 DEF Typed, CallInv, place, pixels, logger
<1>8. Quiet'
  <2>1. waits'["ui"] # None => waits["ui"] # None
    <3>1. \/ waits' = waits
          \/ \E u \in Threads : waits' = [waits EXCEPT ![u] = None]
      BY DEF chMtxUnlock
    <3> QED
      BY <3>1 DEF CallInv, MutexInv, Threads
  <2> QED
    BY <1>0, <2>1 DEF Settings, Quiet, CallInv, suspension, logger
<1>9. Ends(t, c, b)'
  BY <1>0, <1>1, <1>2, <1>3, SameEnds DEF logger
<1> QED
  BY <1>0, <1>5, <1>6, <1>7, <1>8, <1>9, Together DEF logger

\* Drawing and sending.
LEMMA PixelStep ==
  ASSUME CallInv, NEW t \in Threads, draw(t) \/ transmit_data_sync(t)
  PROVE  CallInv'
<1>0. PICK op \in Drawings \union {"data"} :
        /\ Calls(t, op) /\ Returns(t, << >>)
        /\ UNCHANGED <<place, events, suspension, panel, mutexes, drawing, logger>>
  BY DEF draw, transmit_data_sync
<1>1. PICK a \in States(t), c \in States(t), b \in States(t) :
        /\ Held[t] = Stk(a.lock) /\ stack[t] = Stk(a.lock)
        /\ Effect(op, a, c) /\ Path(States(t), Tail(todo[t]), c, b) /\ Ends(t, a, b)
  BY <1>0, NextCall
<1>2. c = a /\ a.lock \notin Dark
  BY <1>1 DEF Effect, Drawings, Dark
<1>3. /\ Path(States(t), todo'[t], c, b)
      /\ todo' \in [Threads -> Seq(Ops)]
      /\ \A u \in Threads \ {t} : todo'[u] = todo[u]
  BY <1>0, <1>1, GoesOn
<1>4. limits' \in Limits /\ unsent' \subseteq Page
  <2>0. limits \in Limits /\ unsent \subseteq Page
    BY DEF CallInv, Typed
  <2>1. CASE draw(t)
    <3>1. PICK x \in Drawings : limits' = Marks(x) /\ unsent' = unsent \union Drawn(x)
      BY <2>1 DEF draw
    <3>2. Marks(x) \in Limits
      <4>1. CASE x = "bar"
        <5>1. Marks(x) = draw_pos_neg_bar(limits, 1)
          BY <4>1 DEF Marks
        <5>2. 1 \in Page /\ Page \subseteq Nat
          BY PagesAssumption DEF Page
        <5>3. min(1, limits.y_min) \in Page
          BY <2>0, <5>2, MinMax DEF Limits
        <5> QED
          BY <2>0, <5>1, <5>3 DEF draw_pos_neg_bar, Limits
      <4>2. CASE x # "bar"
        BY <2>0, <4>2, MarksWiden
      <4> QED
        BY <4>1, <4>2
    <3>3. Drawn(x) \subseteq Page
      BY PagesAssumption DEF Drawn, Page
    <3> QED
      BY <2>0, <3>1, <3>2, <3>3
  <2>2. CASE transmit_data_sync(t)
    <3>1. Synced \in Limits
      BY PagesAssumption DEF Synced, Limits, Page
    <3> QED
      BY <2>0, <2>2, <3>1 DEF transmit_data_sync
  <2> QED
    BY <2>1, <2>2
<1>5. Typed' /\ Quiet'
  BY <1>0, <1>3, <1>4 DEF Settings, Typed, Quiet, CallInv, place, suspension, logger, mutexes
<1>6. MutexInv' /\ Held' = Held
  BY <1>0 DEF MutexInv, Held, CallInv, mutexes
<1>7. Ends(t, c, b)'
  BY <1>0, <1>1, <1>2, StatesHolding, SameEnds DEF logger
<1> QED
  BY <1>0, <1>1, <1>2, <1>3, <1>5, <1>6, <1>7, Together DEF logger

-----------------------------------------------------------------------------
(* The calls of the UI thread.                                             *)

\* The UI thread about to call.
LEMMA UICall ==
  ASSUME CallInv, NEW op, Calls("ui", op)
  PROVE  \E a, c, b \in Holding :
           /\ Held["ui"] = Stk(a.lock) /\ Effect(op, a, c)
           /\ Path(Holding, Tail(todo["ui"]), c, b) /\ Matches(a) /\ Rests(b)
<1>1. "ui" \in Threads /\ States("ui") = Holding
  BY DEF Threads, States
<1>2. \A a, b : Ends("ui", a, b) <=> Matches(a) /\ Rests(b)
  BY DEF Ends
<1> QED
  BY <1>1, <1>2, NextCall

\* A call of the UI thread returns.
LEMMA UIReturns ==
  ASSUME CallInv, NEW op, Calls("ui", op), NEW more, Returns("ui", more),
         UNCHANGED <<place, mutexes, pixels, env>>,
         Settings',
         NEW a \in Holding, NEW c \in Holding, NEW b \in Holding,
         Path(Holding, more, a, c), Path(Holding, Tail(todo["ui"]), c, b),
         Held["ui"] = Stk(a.lock), Matches(a)', Rests(b)
  PROVE  CallInv'
<1>1. "ui" \in Threads /\ States("ui") = Holding
  BY DEF Threads, States
<1>2. /\ Path(Holding, todo'["ui"], a, b)
      /\ todo' \in [Threads -> Seq(Ops)]
      /\ \A u \in Threads \ {"ui"} : todo'[u] = todo[u]
  BY <1>1, Continues
<1>3. Typed'
  BY <1>2 DEF Settings, Typed, CallInv, place, pixels
<1>4. MutexInv' /\ Held' = Held
  BY DEF MutexInv, Held, CallInv, mutexes
<1>5. Quiet'
  BY DEF Settings, Quiet, Calls, mutexes
<1>6. Ends("ui", a, b)'
  <2>1. Rests(b)'
    BY DEF Rests, place
  <2> QED
    BY <2>1 DEF Ends
<1> QED
  BY <1>1, <1>2, <1>3, <1>4, <1>5, <1>6, Together

\* The state after a call that adds nothing.
LEMMA EmptyPath ==
  ASSUME NEW a \in Holding PROVE Path(Holding, << >>, a, a)
  BY PathEmpty

\* Switching the panel, and marking it suspended.
LEMMA PanelStep ==
  ASSUME CallInv, SwitchPanel \/ MarkSuspended
  PROVE  CallInv'
<1>1. PICK op \in {"off", "on", "mark"} :
        /\ Calls("ui", op) /\ Returns("ui", << >>)
        /\ op = "off" => panel' = FALSE /\ is_suspended' = is_suspended
        /\ op = "on" => panel' = TRUE /\ is_suspended' = is_suspended
        /\ op = "mark" => panel' = panel /\ is_suspended' = TRUE
        /\ UNCHANGED <<place, events, armed, suspend_enabled, mutexes, drawing, pixels, logger>>
  BY DEF SwitchPanel, MarkSuspended, suspension
<1>2. PICK a \in Holding, c \in Holding, b \in Holding :
        /\ Held["ui"] = Stk(a.lock) /\ Effect(op, a, c)
        /\ Path(Holding, Tail(todo["ui"]), c, b) /\ Matches(a) /\ Rests(b)
  BY <1>1, UICall
<1>3. \/ op = "off" /\ a.lock = "lock" /\ c = At(a, "dark")
      \/ op = "on" /\ a.lock = "dark" /\ c = At(a, "lock")
      \/ op = "mark" /\ a.lock = "dark" /\ c = At(a, "asleep")
  BY <1>2 DEF Effect, Drawings
<1>4. /\ \/ op = "off" /\ a.lock = "lock" /\ c.lock = "dark"
         \/ op = "on" /\ a.lock = "dark" /\ c.lock = "lock"
         \/ op = "mark" /\ a.lock = "dark" /\ c.lock = "asleep"
      /\ c.view = a.view /\ c.flags = a.flags
  BY <1>3, AtHolding DEF Locks
<1>5. Held["ui"] = Stk(c.lock)
  BY <1>2, <1>4, StkFacts
<1>6. Matches(c)'
  <2>1. "lock" \notin Dark /\ "dark" \in Dark /\ "asleep" \in Dark
    BY DEF Dark
  <2>2. (panel' <=> c.lock \notin Dark) /\ (is_suspended' <=> c.lock = "asleep")
    BY <1>1, <1>2, <1>4, <2>1 DEF Matches
  <2> QED
    BY <1>1, <1>2, <1>4, <2>2 DEF Matches, logger
<1>7. Settings'
  BY <1>1 DEF Settings, CallInv, Typed, Quiet, logger
<1> QED
  BY <1>1, <1>2, <1>5, <1>6, <1>7, EmptyPath, UIReturns DEF logger

\* Resuming wakes the panel if it was suspended.
LEMMA ResumeStep ==
  ASSUME CallInv, resume
  PROVE  CallInv'
<1>1. PICK a \in Holding, c \in Holding, b \in Holding :
        /\ Held["ui"] = Stk(a.lock) /\ Effect("resume", a, c)
        /\ Path(Holding, Tail(todo["ui"]), c, b) /\ Matches(a) /\ Rests(b)
  BY UICall DEF resume
<1>2. a.lock \in {"free", "asleep"} /\ c = At(a, "free")
  BY <1>1 DEF Effect, Drawings
<1>3. Settings'
  BY DEF Settings, resume, CallInv, Typed, Quiet, logger
<1>4. armed' => "stale" \in a.flags
  BY <1>1, <1>3 DEF resume, Settings, Matches, Holding
<1>5. CASE is_suspended
  <2>1. a.lock = "asleep" /\ a.view # "viewing"
    BY <1>1, <1>5 DEF Matches, Holding, Dark
  <2> DEFINE d == At(a, "dark")
  <2>2. Path(Holding, wake, d, c) /\ d \in Holding /\ d.lock = "dark" /\ d.view = a.view /\ d.flags = a.flags
    BY <1>2, <2>1, Slept, AtHolding DEF Locks
  <2> HIDE DEF d
  <2>3. Held["ui"] = Stk(d.lock)
    BY <1>1, <2>1, <2>2, StkFacts
  <2>4. "asleep" \in Dark /\ "dark" \in Dark
    BY DEF Dark
  <2>5. Matches(d)'
    BY <1>1, <1>4, <2>1, <2>2, <2>4 DEF Matches, resume, logger
  <2>6. Returns("ui", wake)
    BY <1>5 DEF resume
  <2> QED
    BY <1>1, <1>3, <2>2, <2>3, <2>5, <2>6, UIReturns DEF resume, logger
<1>6. CASE ~ is_suspended
  <2>1. a.lock = "free" /\ c = a
    BY <1>1, <1>2, <1>6, AtHolding DEF Matches
  <2>2. Matches(a)'
    BY <1>1, <1>4, <1>6, <2>1 DEF Matches, resume, logger
  <2>3. Returns("ui", << >>)
    BY <1>6 DEF resume
  <2> QED
    BY <1>1, <1>3, <2>1, <2>2, <2>3, EmptyPath, UIReturns DEF resume, logger
<1> QED
  BY <1>5, <1>6 DEF CallInv, Typed

\* Inhibiting stops the timer, though its event may be pending.
LEMMA InhibitStep ==
  ASSUME CallInv, inhibit_suspend
  PROVE  CallInv'
<1>1. PICK a \in Holding, c \in Holding, b \in Holding :
        /\ Held["ui"] = Stk(a.lock) /\ Effect("inhibit", a, c)
        /\ Path(Holding, Tail(todo["ui"]), c, b) /\ Matches(a) /\ Rests(b)
  BY UICall DEF inhibit_suspend
<1>2. a.view # "viewing" /\ c = [a EXCEPT !.view = "inhibited"]
  BY <1>1 DEF Effect, Drawings
<1>3. c.lock = a.lock /\ c.view = "inhibited" /\ c.flags = a.flags
  BY <1>2 DEF Holding
<1>4. Matches(c)'
  BY <1>1, <1>2, <1>3 DEF Matches, inhibit_suspend, logger
<1>5. Settings'
  BY DEF Settings, inhibit_suspend, CallInv, Typed, Quiet, logger
<1> QED
  BY <1>1, <1>3, <1>4, <1>5, EmptyPath, UIReturns DEF inhibit_suspend, logger

\* Enabling resumes at once.
LEMMA EnableStep ==
  ASSUME CallInv, enable_suspend
  PROVE  CallInv'
<1>1. PICK a \in Holding, c \in Holding, b \in Holding :
        /\ Held["ui"] = Stk(a.lock) /\ Effect("enable", a, c)
        /\ Path(Holding, Tail(todo["ui"]), c, b) /\ Matches(a) /\ Rests(b)
  BY UICall DEF enable_suspend
<1>2. /\ a.lock = "free" /\ a.view # "viewing"
      /\ c = [a EXCEPT !.view = "enabled", !.flags = a.flags \union {"stale"}]
  BY <1>1 DEF Effect, Drawings
<1>3. c.lock = a.lock /\ c.view = "enabled" /\ c.flags = a.flags \union {"stale"}
  BY <1>2 DEF Holding
<1>4. Matches(c)'
  BY <1>1, <1>2, <1>3 DEF Matches, enable_suspend, logger
<1>5. Settings'
  BY DEF Settings, enable_suspend, CallInv, Typed, Quiet, logger
<1>6. Path(Holding, <<"resume">>, c, c)
  <2>1. Effect("resume", c, c)
    <3>1. c.lock = "free"
      BY <1>2, <1>3
    <3>2. c = At(c, "free")
      BY <3>1, AtHolding
    <3> QED
      BY <3>1, <3>2 DEF Effect
  <2> QED
    BY <2>1, PathOne DEF Ops
<1> QED
  BY <1>1, <1>3, <1>4, <1>5, <1>6, UIReturns DEF enable_suspend, logger

\* Forgetting what is pending.
LEMMA ClearStep ==
  ASSUME CallInv, ClearEvents
  PROVE  CallInv'
<1>1. PICK op \in {"clear", "clear keys"} :
        /\ Calls("ui", op) /\ Returns("ui", << >>)
        /\ op = "clear" => events' = {}
        /\ op = "clear keys" => events' = events \ Keys
        /\ UNCHANGED <<place, suspension, panel, mutexes, drawing, pixels, logger>>
  BY DEF ClearEvents
<1>2. PICK a \in Holding, c \in Holding, b \in Holding :
        /\ Held["ui"] = Stk(a.lock) /\ Effect(op, a, c)
        /\ Path(Holding, Tail(todo["ui"]), c, b) /\ Matches(a) /\ Rests(b)
  BY <1>1, UICall
<1>3. \/ /\ op = "clear"
         /\ c = [a EXCEPT !.flags = IF a.view = "enabled" THEN a.flags \ {"loose", "woken"}
                                                           ELSE a.flags \intersect {"fails"}]
      \/ op = "clear keys" /\ c = a
  BY <1>2 DEF Effect, Drawings
<1>4. c.lock = a.lock /\ c.view = a.view
  BY <1>3 DEF Holding
<1>5. /\ op = "clear" => /\ "woken" \notin c.flags
                         /\ a.view = "enabled" /\ "stale" \in a.flags => "stale" \in c.flags
                         /\ "fails" \in a.flags => "fails" \in c.flags
      /\ op = "clear keys" => c.flags = a.flags
  <2>1. CASE op = "clear" /\ a.view = "enabled"
    BY <1>3, <2>1 DEF Holding
  <2>2. CASE op = "clear" /\ a.view # "enabled"
    BY <1>3, <2>2 DEF Holding
  <2>3. CASE op = "clear keys"
    BY <1>3, <2>3
  <2> QED
    BY <2>1, <2>2, <2>3
<1>6. Matches(c)'
  <2>1. armed => suspend_enabled
    BY DEF CallInv, Quiet, Settings
  <2>2. /\ UNCHANGED <<armed, suspend_enabled, is_suspended, panel, drawing, env>>
        /\ op = "clear" \/ op = "clear keys"
    BY <1>1 DEF suspension, logger
  <2>3. armed \/ "SUSPEND" \in events' => "stale" \in c.flags
    BY <1>1, <1>2, <1>5, <2>1, <2>2 DEF Matches, Keys
  <2>4. /\ "SELECT" \in events' /\ "RESUME" \notin events' => "loose" \in c.flags
        /\ "woken" \in c.flags => "RESUME" \in events'
    BY <1>1, <1>2, <1>5, <2>2 DEF Matches, Keys
  <2>5. env.logFails => "fails" \in c.flags
    BY <1>2, <1>5, <2>2 DEF Matches
  <2> QED
    BY <1>2, <1>4, <2>2, <2>3, <2>4, <2>5 DEF Matches
<1>7. Settings'
  <2>1. events' \subseteq events
    BY <1>1
  <2> QED
    BY <1>1, <2>1 DEF Settings, suspension, CallInv, Typed, Quiet, logger
<1> QED
  BY <1>1, <1>2, <1>4, <1>6, <1>7, EmptyPath, UIReturns DEF logger

\* The sensor view's thread is started, stopped and waited for.
LEMMA ThreadStep ==
  ASSUME CallInv, ViewThread
  PROVE  CallInv'
<1>1. PICK op \in {"spawn", "terminate", "join"} :
        /\ Calls("ui", op) /\ Returns("ui", << >>)
        /\ op = "spawn" => drawing' = TRUE
        /\ op = "terminate" => drawing' = FALSE
        /\ op = "join" => drawing' = drawing
        /\ UNCHANGED <<place, events, suspension, panel, mutexes, pixels, logger>>
  BY DEF ViewThread
<1>2. PICK a \in Holding, c \in Holding, b \in Holding :
        /\ Held["ui"] = Stk(a.lock) /\ Effect(op, a, c)
        /\ Path(Holding, Tail(todo["ui"]), c, b) /\ Matches(a) /\ Rests(b)
  BY <1>1, UICall
<1>3. \/ op = "spawn" /\ a.view = "inhibited" /\ c = [a EXCEPT !.view = "viewing"]
      \/ op = "terminate" /\ a.view = "viewing" /\ c = [a EXCEPT !.view = "inhibited"]
      \/ op = "terminate" /\ a.view # "viewing" /\ c = a
      \/ op = "join" /\ c = a
  BY <1>2 DEF Effect, Drawings
<1>4. /\ c.lock = a.lock /\ c.flags = a.flags
      /\ \/ op = "spawn" /\ a.view = "inhibited" /\ c.view = "viewing"
         \/ op = "terminate" /\ a.view = "viewing" /\ c.view = "inhibited"
         \/ op = "terminate" /\ a.view # "viewing" /\ c.view = a.view
         \/ op = "join" /\ c.view = a.view
  BY <1>3 DEF Holding
<1>5. Matches(c)'
  <2>1. (drawing' <=> c.view = "viewing") /\ (c.view = "enabled" <=> a.view = "enabled")
    BY <1>1, <1>2, <1>4 DEF Matches
  <2> QED
    BY <1>1, <1>2, <1>4, <2>1 DEF Matches, suspension, logger
<1>6. Settings'
  BY <1>1 DEF Settings, suspension, CallInv, Typed, Quiet, logger
<1> QED
  BY <1>1, <1>2, <1>4, <1>5, <1>6, EmptyPath, UIReturns DEF logger

\* The logger shows a message, if there is one, and then forgets it.
LEMMA ErrorStep ==
  ASSUME CallInv, ShowError
  PROVE  CallInv'
<1> DEFINE p == Redraw \o Redraw \o <<"shown">>
<1>1. PICK op \in {"error", "shown"} :
        /\ Calls("ui", op)
        /\ Returns("ui", IF op = "error" /\ err_msg THEN p ELSE << >>)
        /\ err_msg' = (op = "error" /\ err_msg)
        /\ UNCHANGED <<place, events, suspension, panel, mutexes, drawing, pixels, env>>
  BY DEF ShowError, CallInv, Quiet, Settings
<1>2. PICK a \in Holding, c \in Holding, b \in Holding :
        /\ Held["ui"] = Stk(a.lock) /\ Effect(op, a, c)
        /\ Path(Holding, Tail(todo["ui"]), c, b) /\ Matches(a) /\ Rests(b)
  BY <1>1, UICall
<1>3. c = a /\ (op = "error" => a.lock = "free" \/ "fails" \notin a.flags)
  BY <1>2 DEF Effect, Drawings
<1>4. Matches(a)'
  BY <1>1, <1>2 DEF Matches, suspension
<1>5. Path(Holding, IF op = "error" /\ err_msg THEN p ELSE << >>, a, a)
  <2>1. CASE op = "error" /\ err_msg
    <3>1. a.lock = "free"
      BY <1>2, <1>3, <2>1 DEF Matches, CallInv, Quiet, Settings
    <3>2. Path(Holding, Redraw, a, a)
      BY <3>1, UIDrawPaths
    <3>3. Path(Holding, <<"shown">>, a, a)
      BY PathOne DEF Effect, Ops
    <3> QED
      BY <2>1, <3>2, <3>3, PathJoin
  <2> QED
    BY <2>1, EmptyPath
<1>6. Settings'
  BY <1>1 DEF Settings, suspension, CallInv, Typed, Quiet
<1> HIDE DEF p
<1> QED
  BY <1>1, <1>2, <1>3, <1>4, <1>5, <1>6, UIReturns

-----------------------------------------------------------------------------
(* The event loops.                                                        *)

\* The UI thread in a wait.
LEMMA Idle ==
  ASSUME CallInv, todo["ui"] = << >>
  PROVE  \E a \in Holding : Held["ui"] = Stk(a.lock) /\ Matches(a) /\ Rests(a)
<1>1. "ui" \in Threads /\ States("ui") = Holding
  BY DEF Threads, States
<1>2. \A a, b : Ends("ui", a, b) <=> Matches(a) /\ Rests(b)
  BY DEF Ends
<1>3. PICK a \in Holding, b \in Holding :
        Held["ui"] = Stk(a.lock) /\ Path(Holding, todo["ui"], a, b) /\ Matches(a) /\ Rests(b)
  BY <1>1, <1>2 DEF CallInv, ThreadInv
<1> QED
  BY <1>3, PathEmpty

\* It goes on with a list of calls that leads to the next wait.
LEMMA UIGoes ==
  ASSUME CallInv, waits["ui"] = None,
         NEW s \in Screens, NEW w \in Waits, NEW p, screen' = s, at' = w,
         todo' = [todo EXCEPT !["ui"] = p], UNCHANGED <<mutexes, pixels, env>>, Settings',
         NEW a \in Holding, NEW b \in Holding, Held["ui"] = Stk(a.lock),
         Path(Holding, p, a, b), Matches(a)', Rests(b)'
  PROVE  CallInv'
<1>1. "ui" \in Threads /\ States("ui") = Holding
  BY DEF Threads, States
<1>2. /\ Path(Holding, todo'["ui"], a, b)
      /\ todo' \in [Threads -> Seq(Ops)]
      /\ \A u \in Threads \ {"ui"} : todo'[u] = todo[u]
  BY <1>1, Starts
<1>3. Typed'
  BY <1>2 DEF Typed, CallInv, pixels
<1>4. MutexInv' /\ Held' = Held
  BY DEF MutexInv, Held, CallInv, mutexes
<1>5. Quiet'
  BY DEF Quiet, mutexes
<1>6. Ends("ui", a, b)'
  BY DEF Ends
<1> QED
  BY <1>1, <1>2, <1>3, <1>4, <1>5, <1>6, Together

\* Taking any event but RESUME leaves the flags right; taking RESUME, those of a thread
\* that is not woken and has SELECT loose, if it is pending.
LEMMA Taken ==
  ASSUME NEW a \in Holding, Matches(a), NEW e, events' = events \ {e},
         UNCHANGED <<suspension, panel, drawing, env>>
  PROVE  /\ e # "RESUME" => Matches(a)'
         /\ \A c : /\ c.lock = a.lock /\ c.view = a.view
                   /\ "stale" \in a.flags => "stale" \in c.flags
                   /\ "fails" \in a.flags => "fails" \in c.flags
                   /\ "woken" \notin c.flags
                   /\ "SELECT" \in events' => "loose" \in c.flags
                   => Matches(c)'
  BY DEF Matches, suspension

\* So are the settings.
LEMMA TakenSettings ==
  ASSUME CallInv, NEW e, events' = events \ {e},
         UNCHANGED <<suspension, panel, drawing, env>>, err_msg' = err_msg \/ err_msg' = FALSE
  PROVE  Settings'
<1>1. Settings
  BY DEF CallInv, Quiet
<1>2. err_msg' \in BOOLEAN /\ (err_msg' => env.logFails)
  <2>1. CASE err_msg' = err_msg
    BY <1>1, <2>1 DEF Settings
  <2>2. CASE err_msg' = FALSE
    BY <2>2
  <2> QED
    BY <2>1, <2>2
<1>3. events' \subseteq events
  OBVIOUS
<1> QED
  BY <1>1, <1>2, <1>3 DEF Settings, suspension

\* Other flags.
LEMMA FlagHolding ==
  ASSUME NEW a \in Holding, NEW f \in SUBSET Flags, a.view = "enabled" => "stale" \in f
  PROVE  /\ [a EXCEPT !.flags = f] \in Holding
         /\ [a EXCEPT !.flags = f].lock = a.lock /\ [a EXCEPT !.flags = f].view = a.view
         /\ [a EXCEPT !.flags = f].flags = f
  BY DEF Holding

\* Forgetting every event leaves nothing loose, and the timer's is gone when suspending
\* is inhibited.
LEMMA Cleared ==
  ASSUME NEW a \in Holding
  PROVE  \E c \in Holding :
           /\ Effect("clear", a, c) /\ Path(Holding, <<"clear">>, a, c)
           /\ c.lock = a.lock /\ c.view = a.view
           /\ "loose" \notin c.flags /\ (c.view # "enabled" => "stale" \notin c.flags)
<1> DEFINE f == IF a.view = "enabled" THEN a.flags \ {"loose", "woken"} ELSE a.flags \intersect {"fails"}
           c == [a EXCEPT !.flags = f]
<1>1. /\ f \in SUBSET Flags /\ (a.view = "enabled" => "stale" \in f)
      /\ "loose" \notin f /\ (a.view # "enabled" => "stale" \notin f)
  <2>1. a.flags \subseteq Flags /\ (a.view = "enabled" => "stale" \in a.flags)
    BY DEF Holding
  <2> QED
    BY <2>1
<1>2. Effect("clear", a, c)
  BY DEF Effect
<1> HIDE DEF f
<1>3. c \in Holding /\ c.lock = a.lock /\ c.view = a.view /\ c.flags = f
  BY <1>1, FlagHolding
<1> HIDE DEF c
<1>4. Path(Holding, <<"clear">>, a, c)
  BY <1>2, <1>3, PathOne DEF Ops
<1> QED
  BY <1>1, <1>2, <1>3, <1>4

\* The short lists of a UI thread without a mutex.
LEMMA FreePaths ==
  ASSUME NEW a \in Holding, a.lock = "free"
  PROVE  /\ Path(Holding, <<"clear keys">>, a, a) /\ Path(Holding, <<"resume">>, a, a)
         /\ Path(Holding, <<"error">>, a, a)
         /\ Path(Holding, << >>, a, a)
<1>1. a = At(a, "free")
  BY AtHolding
<1>2. Effect("clear keys", a, a) /\ Effect("resume", a, a) /\ Effect("error", a, a)
  BY <1>1 DEF Effect
<1> QED
  BY <1>2, PathOne, EmptyPath DEF Ops

\* What the screens do with an event before their own calls.
LEMMA SeenPaths ==
  ASSUME NEW a \in Holding, a.lock = "free"
  PROVE  /\ \A e \in Masks \ {"SUSPEND"} : Path(Holding, Seen(e), a, a)
         /\ a.view # "viewing" /\ "fails" \notin a.flags =>
              Path(Holding, Seen("SUSPEND"), a, At(a, "asleep")) /\ At(a, "asleep") \in Holding
<1>1. ASSUME NEW e \in Masks \ {"SUSPEND"} PROVE Path(Holding, handle_evt(e), a, a)
  <2>1. handle_evt(e) = <<"resume">> \/ handle_evt(e) = << >>
    BY DEF handle_evt
  <2> QED
    BY <2>1, FreePaths
<1>2. ASSUME NEW e \in Masks \ {"SUSPEND"} PROVE Path(Holding, Seen(e), a, a)
  <2>1. Path(Holding, IF screen = "run" THEN <<"error">> ELSE << >>, a, a)
    BY FreePaths
  <2> QED
    BY <1>1, <2>1, PathJoin DEF Seen
<1>3. ASSUME a.view # "viewing", "fails" \notin a.flags
      PROVE  Path(Holding, Seen("SUSPEND"), a, At(a, "asleep")) /\ At(a, "asleep") \in Holding
  <2> DEFINE s == At(a, "asleep")
  <2>1. Path(Holding, suspend, a, s) /\ s \in Holding /\ s.flags = a.flags
    BY <1>3, Slept, AtHolding DEF Locks
  <2>2. Effect("error", s, s)
    BY <1>3, <2>1 DEF Effect
  <2> HIDE DEF s
  <2>3. Path(Holding, <<"error">>, s, s)
    BY <2>1, <2>2, PathOne DEF Ops
  <2>4. Path(Holding, IF screen = "run" THEN <<"error">> ELSE << >>, s, s)
    BY <2>1, <2>3, EmptyPath
  <2>5. Seen("SUSPEND") = suspend \o IF screen = "run" THEN <<"error">> ELSE << >>
    BY DEF Seen, handle_evt
  <2>6. Path(Holding, Seen("SUSPEND"), a, s)
    BY <2>1, <2>4, <2>5, PathJoin
  <2> QED
    BY <2>1, <2>6 DEF s
<1> QED
  BY <1>2, <1>3

\* A screen that has events takes the first.
LEMMA ReceivesFacts ==
  ASSUME CallInv, NEW w, NEW mask, NEW e, Receives(w, mask, e)
  PROVE  /\ \E a \in Holding : Held["ui"] = Stk(a.lock) /\ Matches(a) /\ Rests(a)
         /\ waits["ui"] = None /\ at = w /\ e \in mask /\ e \in events /\ events' = events \ {e}
  BY Idle DEF Receives

\* RESUME and SUSPEND: SUSPEND comes last, RESUME before it.
LEMMA GlobalCalls ==
  ASSUME NeverBoth, CallInv, GlobalEvent
  PROVE  CallInv'
<1>1. PICK e \in {"RESUME", "SUSPEND"} :
        /\ Receives("loop", Masks, e)
        /\ Goes(screen, IF e = "SUSPEND" THEN "asleep" ELSE "loop", Seen(e))
  BY DEF GlobalEvent
<1>2. PICK a \in Holding : Held["ui"] = Stk(a.lock) /\ Matches(a) /\ Rests(a)
  BY <1>1, ReceivesFacts
<1>3. /\ waits["ui"] = None /\ at = "loop" /\ e \in events /\ events' = events \ {e}
      /\ a.lock = "free" /\ "loose" \notin a.flags
      /\ UNCHANGED <<suspension, panel, drawing, env, mutexes, pixels, err_msg>>
  BY <1>1, <1>2, ReceivesFacts DEF Rests, Goes, logger
<1>4. Settings'
  BY <1>3, TakenSettings
<1>5. screen \in Screens
  BY DEF CallInv, Typed
<1>6. CASE e = "RESUME"
  <2> DEFINE c == [a EXCEPT !.flags = a.flags \ {"woken"}]
  <2>1. /\ c \in Holding /\ c.lock = a.lock /\ c.view = a.view
        /\ c.flags = a.flags \ {"woken"}
    <3>1. a.flags \ {"woken"} \in SUBSET Flags /\ (a.view = "enabled" => "stale" \in a.flags \ {"woken"})
      BY DEF Holding
    <3> QED
      BY <3>1, FlagHolding
  <2> HIDE DEF c
  <2>2. "SELECT" \notin events'
    <3>1. "SELECT" \in events => Bit["RESUME"] <= Bit["SELECT"]
      BY <1>1, <1>6 DEF Receives, Masks, Keys
    <3>2. Bit["RESUME"] = 3 /\ Bit["SELECT"] = 1
      BY DEF Bit
    <3> QED
      BY <1>3, <3>1, <3>2
  <2>3. Matches(c)'
    BY <1>2, <1>3, <2>1, <2>2, Taken
  <2>4. Path(Holding, Seen(e), c, c)
    BY <1>3, <1>6, <2>1, SeenPaths DEF Masks
  <2>5. screen' = screen /\ at' = "loop" /\ todo' = [todo EXCEPT !["ui"] = Seen(e)]
    BY <1>1, <1>6 DEF Goes
  <2>6. Rests(c)'
    BY <1>2, <1>3, <2>1, <2>5 DEF Rests
  <2> QED
    BY <1>2, <1>3, <1>4, <1>5, <2>1, <2>3, <2>4, <2>5, <2>6, UIGoes DEF Waits
<1>7. CASE e = "SUSPEND"
  <2> DEFINE c == [a EXCEPT !.flags = a.flags \ {"woken", "fails"}]
             b == At(c, "asleep")
  <2>1. /\ c \in Holding /\ c.lock = a.lock /\ c.view = a.view
        /\ c.flags = a.flags \ {"woken", "fails"}
    <3>1. /\ a.flags \ {"woken", "fails"} \in SUBSET Flags
          /\ a.view = "enabled" => "stale" \in a.flags \ {"woken", "fails"}
      BY DEF Holding
    <3> QED
      BY <3>1, FlagHolding
  <2> HIDE DEF c
  <2>2. ~ env.logFails
    BY <1>3, <1>7 DEF NeverBoth, CallInv, Quiet, Settings, Typed
  <2>3. "SELECT" \notin events
    <3>1. "SELECT" \in events => Bit["SUSPEND"] <= Bit["SELECT"]
      BY <1>1, <1>7 DEF Receives, Masks, Keys
    <3>2. Bit["SUSPEND"] = 4 /\ Bit["SELECT"] = 1
      BY DEF Bit
    <3> QED
      BY <3>1, <3>2
  <2>4. Matches(c)'
    BY <1>2, <1>3, <2>1, <2>2, <2>3 DEF Matches, suspension
  <2>5. a.view # "viewing"
    BY <1>2, <1>3, <1>7 DEF Matches, Rests
  <2>6. Path(Holding, Seen(e), c, b) /\ b \in Holding
    BY <1>3, <1>7, <2>1, <2>5, SeenPaths
  <2>7. b.lock = "asleep" /\ b.view = a.view /\ b.flags = c.flags
    BY <2>1, AtHolding DEF Locks
  <2>8. screen' = screen /\ at' = "asleep" /\ todo' = [todo EXCEPT !["ui"] = Seen(e)]
    BY <1>1, <1>7 DEF Goes
  <2> HIDE DEF b
  <2>9. Rests(b)'
    BY <1>2, <1>3, <2>1, <2>7, <2>8 DEF Rests
  <2> QED
    BY <1>2, <1>3, <1>4, <1>5, <2>1, <2>4, <2>6, <2>8, <2>9, UIGoes DEF Waits
<1> QED
  BY <1>6, <1>7

\* After the wait for RESUME every event is forgotten, and the panel resumed.
LEMMA WokenCalls ==
  ASSUME CallInv, Woken \/ TestWoken
  PROVE  CallInv'
<1>1. PICK w \in {"asleep", "button asleep"} :
        /\ Receives(w, {"RESUME"}, "RESUME")
        /\ UNCHANGED <<screen, suspension, panel, drawing, env, mutexes, pixels, err_msg>>
        /\ w = "asleep" => at' = "loop" /\ todo' = [todo EXCEPT !["ui"] = <<"clear", "resume">>]
        /\ w = "button asleep" => at' = "button" /\ todo' = [todo EXCEPT !["ui"] = <<"resume", "clear">>]
  <2>1. CASE Woken
    BY <2>1 DEF Woken, Goes, logger
  <2>2. CASE TestWoken
    <3>1. screen' = screen
      <4>1. PICK a \in Holding : Rests(a)
        BY <2>2, ReceivesFacts DEF TestWoken
      <4> QED
        BY <2>2, <4>1 DEF TestWoken, Goes, Receives, Rests
    <3> QED
      BY <2>2, <3>1 DEF TestWoken, Goes, logger
  <2> QED
    BY <2>1, <2>2
<1>2. PICK a \in Holding : Held["ui"] = Stk(a.lock) /\ Matches(a) /\ Rests(a)
  BY <1>1, ReceivesFacts
<1>3. waits["ui"] = None /\ at = w /\ events' = events \ {"RESUME"} /\ a.lock \in {"free", "asleep"}
  BY <1>1, <1>2, ReceivesFacts DEF Rests
<1>4. Settings' /\ screen \in Screens
  BY <1>1, <1>3, TakenSettings DEF CallInv, Typed
<1> DEFINE c == [a EXCEPT !.flags = (a.flags \union {"loose"}) \ {"woken"}]
           d == At(c, "free")
<1>5. /\ c \in Holding /\ c.lock = a.lock /\ c.view = a.view
      /\ c.flags = (a.flags \union {"loose"}) \ {"woken"}
  <2>1. /\ (a.flags \union {"loose"}) \ {"woken"} \in SUBSET Flags
        /\ a.view = "enabled" => "stale" \in (a.flags \union {"loose"}) \ {"woken"}
    BY DEF Holding, Flags
  <2> QED
    BY <2>1, FlagHolding
<1> HIDE DEF c
<1>6. Matches(c)'
  BY <1>1, <1>2, <1>3, <1>5, Taken
<1>7. d \in Holding /\ d.lock = "free" /\ d.view = a.view /\ d.flags = c.flags
  <2>1. "free" \in Locks /\ "free" \notin Dark
    BY DEF Locks, Dark
  <2> QED
    BY <1>5, <2>1, AtHolding
<1> HIDE DEF d
<1>8. PICK b \in Holding : /\ Path(Holding, <<"resume", "clear">>, c, b)
                           /\ b.lock = "free" /\ b.view = a.view
                           /\ "loose" \notin b.flags /\ (b.view # "enabled" => "stale" \notin b.flags)
  <2>1. Effect("resume", c, d)
    BY <1>3, <1>5 DEF Effect, d
  <2>2. PICK b \in Holding :
          /\ Effect("clear", d, b) /\ b.lock = d.lock /\ b.view = d.view
          /\ "loose" \notin b.flags /\ (b.view # "enabled" => "stale" \notin b.flags)
    BY <1>7, Cleared
  <2>3. Path(Holding, <<"resume", "clear">>, c, b)
    BY <1>5, <1>7, <2>1, <2>2, PathTwo DEF Ops
  <2> QED
    BY <1>7, <2>2, <2>3
<1>9. PICK b2 \in Holding : /\ Path(Holding, <<"clear", "resume">>, c, b2)
                            /\ b2.lock = "free" /\ b2.view = a.view
                            /\ "loose" \notin b2.flags /\ (b2.view # "enabled" => "stale" \notin b2.flags)
  <2>1. PICK x \in Holding :
          /\ Effect("clear", c, x) /\ x.lock = c.lock /\ x.view = c.view
          /\ "loose" \notin x.flags /\ (x.view # "enabled" => "stale" \notin x.flags)
    BY <1>5, Cleared
  <2> DEFINE y == At(x, "free")
  <2>2. y \in Holding /\ y.lock = "free" /\ y.view = x.view /\ y.flags = x.flags
    <3>1. "free" \in Locks /\ "free" \notin Dark
      BY DEF Locks, Dark
    <3> QED
      BY <3>1, AtHolding
  <2>3. Effect("resume", x, y)
    BY <1>3, <1>5, <2>1 DEF Effect
  <2> HIDE DEF y
  <2>4. Path(Holding, <<"clear", "resume">>, c, y)
    BY <1>5, <2>1, <2>2, <2>3, PathTwo DEF Ops
  <2> QED
    BY <1>5, <2>1, <2>2, <2>4
<1>10. CASE w = "asleep"
  <2>1. Rests(b2)'
    BY <1>1, <1>2, <1>3, <1>9, <1>10 DEF Rests
  <2> QED
    BY <1>1, <1>2, <1>3, <1>4, <1>5, <1>6, <1>9, <1>10, <2>1, UIGoes DEF Waits
<1>11. CASE w = "button asleep"
  <2>1. Rests(b)'
    BY <1>1, <1>2, <1>3, <1>8, <1>11 DEF Rests
  <2> QED
    BY <1>1, <1>2, <1>3, <1>4, <1>5, <1>6, <1>8, <1>11, <2>1, UIGoes DEF Waits
<1> QED
  BY <1>10, <1>11

\* The list with which a key goes on, for a screen that took an event but RESUME.
LEMMA KeyGoes ==
  ASSUME CallInv, NEW w0, NEW mask, NEW e, Receives(w0, mask, e), e # "RESUME",
         NEW s \in Screens, NEW w \in Waits, NEW p, Goes(s, w, p),
         NEW a \in Holding, NEW b \in Holding, Held["ui"] = Stk(a.lock), Matches(a),
         Path(Holding, p, a, b), Rests(b)'
  PROVE  CallInv'
<1>1. waits["ui"] = None /\ events' = events \ {e}
  BY ReceivesFacts
<1>2. Matches(a)'
  BY <1>1, Taken DEF Goes, logger
<1>3. Settings'
  BY <1>1, TakenSettings DEF Goes, logger
<1> QED
  BY <1>1, <1>2, <1>3, UIGoes DEF Goes, logger

\* The lists that inhibit or enable suspending, and those that run the sensor view.
LEMMA ViewPaths ==
  ASSUME NEW a \in Holding, a.lock = "free"
  PROVE  /\ a.view # "viewing" => \E c \in Holding :
              Path(Holding, <<"inhibit">>, a, c) /\ c.lock = "free" /\ c.view = "inhibited" /\ c.flags = a.flags
         /\ a.view # "viewing" => \E c \in Holding :
              Path(Holding, <<"enable">>, a, c) /\ c.lock = "free" /\ c.view = "enabled"
              /\ c.flags = a.flags \union {"stale"}
         /\ a.view = "inhibited" => \E c \in Holding :
              /\ Path(Holding, <<"spawn", "clear">>, a, c) /\ c.lock = "free" /\ c.view = "viewing"
              /\ "loose" \notin c.flags /\ "stale" \notin c.flags
         /\ \E c \in Holding :
              /\ Path(Holding, <<"terminate", "join", "enable">>, a, c) /\ c.lock = "free"
              /\ c.view = "enabled" /\ c.flags = a.flags \union {"stale"}
<1>0. /\ {"inhibit", "enable", "spawn", "clear", "terminate", "join"} \subseteq Ops
      /\ "free" \notin Dark /\ "free" \in Locks
  BY DEF Ops, Dark, Locks
<1> DEFINE i(x) == [x EXCEPT !.view = "inhibited"]
           v(x) == [x EXCEPT !.view = "viewing"]
           n(x) == [x EXCEPT !.view = "enabled", !.flags = x.flags \union {"stale"}]
<1>1. ASSUME NEW x \in Holding, x.lock = "free"
      PROVE  /\ i(x) \in Holding /\ i(x).lock = "free" /\ i(x).view = "inhibited" /\ i(x).flags = x.flags
             /\ v(x) \in Holding /\ v(x).lock = "free" /\ v(x).view = "viewing" /\ v(x).flags = x.flags
  BY <1>0, <1>1 DEF Holding
<1>2. ASSUME NEW x \in Holding, x.lock = "free"
      PROVE  /\ n(x) \in Holding /\ n(x).lock = "free" /\ n(x).view = "enabled"
             /\ n(x).flags = x.flags \union {"stale"}
  <2>1. x.flags \union {"stale"} \in SUBSET Flags
    BY DEF Holding, Flags
  <2> QED
    BY <1>2, <2>1 DEF Holding
<1>3. ASSUME NEW x \in Holding, x.lock = "free"
      PROVE  /\ x.view # "viewing" => Effect("inhibit", x, i(x)) /\ Effect("enable", x, n(x))
             /\ x.view = "inhibited" => Effect("spawn", x, v(x))
             /\ x.view = "viewing" => Effect("terminate", x, i(x))
             /\ x.view # "viewing" => Effect("terminate", x, x)
             /\ Effect("join", x, x)
  BY <1>3 DEF Effect
<1> HIDE DEF i, v, n
<1>4. a.view # "viewing" => /\ Path(Holding, <<"inhibit">>, a, i(a))
                            /\ Path(Holding, <<"enable">>, a, n(a))
  BY <1>0, <1>1, <1>2, <1>3, PathOne
<1>5. ASSUME a.view = "inhibited"
      PROVE  \E c \in Holding :
               /\ Path(Holding, <<"spawn", "clear">>, a, c) /\ c.lock = "free" /\ c.view = "viewing"
               /\ "loose" \notin c.flags /\ "stale" \notin c.flags
  <2>1. PICK c \in Holding :
          /\ Effect("clear", v(a), c) /\ c.lock = "free" /\ c.view = "viewing"
          /\ "loose" \notin c.flags /\ "stale" \notin c.flags
    BY <1>1, Cleared
  <2> QED
    BY <1>0, <1>1, <1>3, <1>5, <2>1, PathTwo
<1>6. \E c \in Holding :
        /\ Path(Holding, <<"terminate", "join", "enable">>, a, c) /\ c.lock = "free"
        /\ c.view = "enabled" /\ c.flags = a.flags \union {"stale"}
  <2>1. CASE a.view = "viewing"
    <3>1. /\ Effect("terminate", a, i(a)) /\ Effect("join", i(a), i(a)) /\ Effect("enable", i(a), n(i(a)))
          /\ i(a) \in Holding /\ n(i(a)) \in Holding /\ n(i(a)).lock = "free"
          /\ n(i(a)).view = "enabled" /\ n(i(a)).flags = a.flags \union {"stale"}
      BY <1>1, <1>2, <1>3, <2>1
    <3> QED
      BY <1>0, <3>1, PathThree
  <2>2. CASE a.view # "viewing"
    <3>1. Effect("terminate", a, a) /\ Effect("join", a, a) /\ Effect("enable", a, n(a))
      BY <1>3, <2>2
    <3> QED
      BY <1>0, <1>2, <3>1, PathThree
  <2> QED
    BY <2>1, <2>2
<1> QED
  BY <1>1, <1>2, <1>4, <1>5, <1>6

\* The main menu launches the screens.
LEMMA MenuCalls ==
  ASSUME CallInv, MenuKey
  PROVE  CallInv'
<1>1. PICK e \in {"ARROW", "BACK", "SELECT"} :
        /\ Receives("loop", Masks, e)
        /\ \/ Goes("menu", "loop", Redraw)
           \/ Goes("menu", "loop", << >>)
           \/ Goes("view", "loop", <<"inhibit">> \o Drawing("wipe") \o <<"spawn", "clear">>)
           \/ Goes("test", "button", <<"inhibit">> \o Redraw \o <<"clear keys">>)
           \/ Goes("test", "button", Redraw \o <<"clear keys">>)
  BY DEF MenuKey
<1>2. PICK a \in Holding : Held["ui"] = Stk(a.lock) /\ Matches(a) /\ Rests(a)
  BY <1>1, ReceivesFacts
<1>3. a.lock = "free" /\ "loose" \notin a.flags /\ a.view = "enabled"
  BY <1>1, <1>2 DEF Rests, MenuKey, Receives
<1>4. PICK c \in Holding :
        Path(Holding, <<"inhibit">>, a, c) /\ c.lock = "free" /\ c.view = "inhibited" /\ c.flags = a.flags
  BY <1>3, ViewPaths
<1>5. PICK d \in Holding :
        /\ Path(Holding, <<"spawn", "clear">>, c, d) /\ d.lock = "free" /\ d.view = "viewing"
        /\ "loose" \notin d.flags /\ "stale" \notin d.flags
  BY <1>4, ViewPaths
<1>6. /\ Path(Holding, Redraw, a, a) /\ Path(Holding, << >>, a, a)
      /\ Path(Holding, <<"inhibit">> \o Drawing("wipe") \o <<"spawn", "clear">>, a, d)
      /\ Path(Holding, <<"inhibit">> \o Redraw \o <<"clear keys">>, a, c)
      /\ Path(Holding, Redraw \o <<"clear keys">>, a, a)
  <2>1. /\ Path(Holding, Redraw, a, a) /\ Path(Holding, << >>, a, a) /\ Path(Holding, <<"clear keys">>, a, a)
        /\ Path(Holding, Redraw, c, c) /\ Path(Holding, <<"clear keys">>, c, c)
        /\ Path(Holding, Drawing("wipe"), c, c)
    BY <1>3, <1>4, UIDrawPaths, FreePaths DEF Drawings
  <2>2. Path(Holding, <<"inhibit">> \o Drawing("wipe"), a, c) /\ Path(Holding, <<"inhibit">> \o Redraw, a, c)
    BY <1>4, <2>1, PathJoin
  <2> QED
    BY <1>4, <1>5, <2>1, <2>2, PathJoin
<1>7. ASSUME NEW s \in Screens, NEW w \in Waits, NEW p, Goes(s, w, p), NEW b \in Holding,
             Path(Holding, p, a, b),
             \/ s = "menu" /\ w = "loop" /\ b = a
             \/ s = "view" /\ w = "loop" /\ b = d
             \/ s = "test" /\ w = "button" /\ b \in {a, c}
      PROVE  CallInv'
  <2>1. screen' = s /\ at' = w
    BY <1>7 DEF Goes
  <2>2. Rests(b)'
    BY <1>3, <1>4, <1>5, <1>7, <2>1 DEF Rests
  <2> QED
    BY <1>1, <1>2, <1>7, <2>2, KeyGoes
<1>8. {"menu", "view", "test"} \subseteq Screens /\ {"loop", "button"} \subseteq Waits
  BY DEF Screens, Waits
<1>9. CASE Goes("menu", "loop", Redraw)
  BY <1>6, <1>7, <1>8, <1>9
<1>10. CASE Goes("menu", "loop", << >>)
  BY <1>6, <1>7, <1>8, <1>10
<1>11. CASE Goes("view", "loop", <<"inhibit">> \o Drawing("wipe") \o <<"spawn", "clear">>)
  BY <1>6, <1>7, <1>8, <1>11
<1>12. CASE Goes("test", "button", <<"inhibit">> \o Redraw \o <<"clear keys">>)
  BY <1>6, <1>7, <1>8, <1>12
<1>13. CASE Goes("test", "button", Redraw \o <<"clear keys">>)
  BY <1>6, <1>7, <1>8, <1>13
<1> QED
  BY <1>1, <1>9, <1>10, <1>11, <1>12, <1>13

\* The logger is launched with its message forgotten.
LEMMA LaunchCalls ==
  ASSUME CallInv, LaunchLogger
  PROVE  CallInv'
<1> DEFINE p == Draw \o Redraw \o <<"clear">>
<1>1. /\ Receives("loop", Masks, "SELECT") /\ screen = "menu"
      /\ screen' = "sensors" /\ at' = "loop" /\ todo' = [todo EXCEPT !["ui"] = p]
      /\ err_msg' = FALSE /\ UNCHANGED <<suspension, panel, mutexes, drawing, pixels, env>>
  BY DEF LaunchLogger
<1>2. PICK a \in Holding : Held["ui"] = Stk(a.lock) /\ Matches(a) /\ Rests(a)
  BY <1>1, ReceivesFacts
<1>3. /\ a.lock = "free" /\ "loose" \notin a.flags /\ a.view = "enabled"
      /\ waits["ui"] = None /\ events' = events \ {"SELECT"}
  BY <1>1, <1>2, ReceivesFacts DEF Rests
<1>4. PICK b \in Holding :
        Path(Holding, <<"clear">>, a, b) /\ b.lock = "free" /\ b.view = "enabled" /\ "loose" \notin b.flags
  BY <1>3, Cleared
<1>5. Path(Holding, p, a, b)
  <2>1. Path(Holding, Draw, a, a) /\ Path(Holding, Redraw, a, a)
    BY <1>3, UIDrawPaths
  <2>2. Path(Holding, Draw \o Redraw, a, a)
    BY <2>1, PathJoin
  <2> QED
    BY <1>4, <2>2, PathJoin
<1> HIDE DEF p
<1>6. Matches(a)' /\ Settings'
  <2>1. UNCHANGED <<suspension, panel, drawing, env>>
    BY <1>1
  <2>2. Matches(a)'
    BY <1>2, <1>3, <2>1, Taken
  <2>3. Settings'
    BY <1>1, <1>3, <2>1, TakenSettings
  <2> QED
    BY <2>2, <2>3
<1>7. Rests(b)'
  BY <1>1, <1>4 DEF Rests
<1> QED
  BY <1>1, <1>2, <1>3, <1>4, <1>5, <1>6, <1>7, UIGoes DEF Screens, Waits

\* The keys of the sensor view.
LEMMA ViewCalls ==
  ASSUME CallInv, ViewKey
  PROVE  CallInv'
<1>1. PICK e \in {"ARROW", "BACK", "SELECT"} :
        /\ Receives("loop", Masks, e)
        /\ \/ Goes("view", "loop", << >>)
           \/ Goes("view", "loop", <<"terminate", "join", "enable">>)
  BY DEF ViewKey
<1>2. PICK a \in Holding : Held["ui"] = Stk(a.lock) /\ Matches(a) /\ Rests(a)
  BY <1>1, ReceivesFacts
<1>3. /\ a.lock = "free" /\ "loose" \notin a.flags /\ a.view # "inhibited"
      /\ (a.view = "viewing" => "stale" \notin a.flags)
  BY <1>1, <1>2 DEF Rests, ViewKey, Receives
<1>4. PICK c \in Holding :
        /\ Path(Holding, <<"terminate", "join", "enable">>, a, c) /\ c.lock = "free"
        /\ c.view = "enabled" /\ c.flags = a.flags \union {"stale"}
  BY <1>3, ViewPaths
<1>5. Path(Holding, << >>, a, a)
  BY EmptyPath
<1>6. "view" \in Screens /\ "loop" \in Waits
  BY DEF Screens, Waits
<1>7. CASE Goes("view", "loop", << >>)
  <2>1. Rests(a)'
    BY <1>3, <1>7 DEF Goes, Rests
  <2> QED
    BY <1>1, <1>2, <1>5, <1>6, <1>7, <2>1, KeyGoes
<1>8. CASE Goes("view", "loop", <<"terminate", "join", "enable">>)
  <2>1. Rests(c)'
    BY <1>3, <1>4, <1>8 DEF Goes, Rests
  <2> QED
    BY <1>1, <1>2, <1>4, <1>6, <1>8, <2>1, KeyGoes
<1> QED
  BY <1>1, <1>7, <1>8

\* The keys of the logger: when SELECT leads to the wait for RESUME, RESUME is pending.
LEMMA LoggerCalls ==
  ASSUME CallInv, LoggerKey
  PROVE  CallInv'
<1>1. PICK e \in {"ARROW", "BACK", "SELECT"} :
        /\ Receives("loop", Masks, e)
        /\ \E s \in Screens \ {"view", "test"}, w \in {"loop", "asleep"} :
             /\ w = "asleep" => e = "SELECT"
             /\ Goes(s, w, Seen(e) \o Redraw) \/ Goes(s, w, Seen(e))
  <2>1. \A s \in {"sensors", "run", "menu"} : s \in Screens \ {"view", "test"}
    BY DEF Screens
  <2> QED
    BY <2>1 DEF LoggerKey
<1>2. PICK s \in Screens \ {"view", "test"}, w \in {"loop", "asleep"} :
        (w = "asleep" => e = "SELECT") /\ (Goes(s, w, Seen(e) \o Redraw) \/ Goes(s, w, Seen(e)))
  BY <1>1
<1>3. PICK a \in Holding : Held["ui"] = Stk(a.lock) /\ Matches(a) /\ Rests(a)
  BY <1>1, ReceivesFacts
<1>4. /\ a.lock = "free" /\ "loose" \notin a.flags /\ a.view = "enabled"
      /\ events' = events \ {e} /\ e \in events /\ waits["ui"] = None
  BY <1>1, <1>3, ReceivesFacts DEF Rests, LoggerKey, Receives
<1> DEFINE f == IF w = "asleep" THEN a.flags \union {"woken"} ELSE a.flags
           c == [a EXCEPT !.flags = f]
<1>5. /\ c \in Holding /\ c.lock = "free" /\ c.view = "enabled" /\ c.flags = f
      /\ "loose" \notin f
  <2>1. f \in SUBSET Flags /\ (a.view = "enabled" => "stale" \in f) /\ "loose" \notin f
    BY <1>4 DEF Holding, Flags
  <2> HIDE DEF f
  <2> QED
    BY <1>4, <2>1, FlagHolding
<1>6. Matches(c)
  <2>1. CASE w = "asleep"
    <3>1. "RESUME" \in events
      BY <1>2, <1>3, <1>4, <2>1 DEF Matches
    <3>2. c.flags = a.flags \union {"woken"}
      BY <1>5, <2>1
    <3> HIDE DEF c
    <3> QED
      BY <1>3, <1>4, <1>5, <3>1, <3>2 DEF Matches
  <2>2. CASE w # "asleep"
    <3>1. c.flags = a.flags
      BY <1>5, <2>2
    <3> HIDE DEF c
    <3> QED
      BY <1>3, <1>4, <1>5, <3>1 DEF Matches
  <2> QED
    BY <2>1, <2>2
<1>7. w = "asleep" => "woken" \in c.flags
  BY <1>5
<1> HIDE DEF c, f
<1>8. Path(Holding, Seen(e) \o Redraw, c, c) /\ Path(Holding, Seen(e), c, c)
  <2>1. Path(Holding, Seen(e), c, c) /\ Path(Holding, Redraw, c, c)
    BY <1>5, SeenPaths, UIDrawPaths DEF Masks, Keys
  <2> QED
    BY <1>5, <2>1, PathJoin
<1>9. screen' = s /\ at' = w
  BY <1>2 DEF Goes
<1>10. Rests(c)'
  BY <1>5, <1>7, <1>9 DEF Rests
<1>11. Held["ui"] = Stk(c.lock) /\ w \in Waits /\ e # "RESUME"
  BY <1>3, <1>4, <1>5 DEF Waits
<1> QED
  BY <1>1, <1>2, <1>5, <1>6, <1>8, <1>10, <1>11, KeyGoes

\* The logger's poll for a message.
LEMMA PollCalls ==
  ASSUME CallInv, LoggerPoll
  PROVE  CallInv'
<1>1. PICK a \in Holding : Held["ui"] = Stk(a.lock) /\ Matches(a) /\ Rests(a)
  BY Idle DEF LoggerPoll
<1>2. a.lock = "free" /\ screen = "run" /\ at = "loop" /\ waits["ui"] = None
  BY <1>1 DEF LoggerPoll, Rests
<1>3. Path(Holding, <<"error">>, a, a)
  BY <1>2, FreePaths
<1>4. Matches(a)' /\ Settings'
  BY <1>1 DEF LoggerPoll, Goes, Matches, Settings, CallInv, Quiet, suspension, logger
<1>5. Rests(a)'
  BY <1>1, <1>2 DEF LoggerPoll, Goes, Rests
<1> QED
  BY <1>1, <1>2, <1>3, <1>4, <1>5, UIGoes DEF LoggerPoll, Goes, logger, Screens, Waits

\* The waits of a test.
LEMMA TestCalls ==
  ASSUME CallInv, TestKey \/ TestSuspend
  PROVE  CallInv'
<1> DEFINE again(measure) == <<"clear keys">> \o measure \o Redraw \o <<"clear keys">>
           done == IF suspend_enabled THEN << >> ELSE <<"enable">>
           back == <<"clear keys">> \o done \o Redraw
<1>1. PICK e \in {"SELECT", "SUSPEND"} :
        /\ Receives("button", {"SELECT", "SUSPEND"}, e)
        /\ \/ \E measure \in {<< >>, sleep \o wake, suspend \o <<"resume">>} :
                Goes("test", "button", again(measure))
           \/ Goes("menu", "loop", back)
           \/ Goes(screen, "button asleep", suspend)
  BY DEF TestKey, TestSuspend
<1>2. PICK a \in Holding : Held["ui"] = Stk(a.lock) /\ Matches(a) /\ Rests(a)
  BY <1>1, ReceivesFacts
<1>3. /\ a.lock = "free" /\ "loose" \notin a.flags /\ a.view # "viewing" /\ screen = "test"
  BY <1>1, <1>2 DEF Rests, Receives
<1>4. {"test", "menu"} \subseteq Screens /\ {"button", "loop", "button asleep"} \subseteq Waits
  BY DEF Screens, Waits
<1>5. /\ Path(Holding, <<"clear keys">>, a, a) /\ Path(Holding, Redraw, a, a) /\ Path(Holding, << >>, a, a)
      /\ a = At(a, "free")
  BY <1>3, UIDrawPaths, FreePaths, AtHolding
<1>6. /\ \A l \in Locks : At(a, l) \in Holding
      /\ Path(Holding, sleep, a, At(a, "dark")) /\ Path(Holding, suspend, a, At(a, "asleep"))
      /\ Path(Holding, wake, At(a, "dark"), a) /\ Path(Holding, <<"resume">>, At(a, "asleep"), a)
  BY <1>3, <1>5, Slept
<1>7. ASSUME NEW measure \in {<< >>, sleep \o wake, suspend \o <<"resume">>},
             Goes("test", "button", again(measure))
      PROVE  CallInv'
  <2>1. Path(Holding, measure, a, a)
    <3>1. At(a, "dark") \in Holding /\ At(a, "asleep") \in Holding
      BY <1>6 DEF Locks
    <3>2. Path(Holding, sleep \o wake, a, a) /\ Path(Holding, suspend \o <<"resume">>, a, a)
      BY <1>6, <3>1, PathJoin
    <3> QED
      BY <1>5, <3>2
  <2>2. Path(Holding, again(measure), a, a)
    <3>1. Path(Holding, <<"clear keys">> \o measure, a, a)
      BY <1>5, <2>1, PathJoin
    <3>2. Path(Holding, <<"clear keys">> \o measure \o Redraw, a, a)
      BY <1>5, <3>1, PathJoin
    <3> QED
      BY <1>5, <3>2, PathJoin
  <2> HIDE DEF again
  <2>3. Rests(a)'
    BY <1>3, <1>7 DEF Goes, Rests
  <2> QED
    BY <1>1, <1>2, <1>4, <1>7, <2>2, <2>3, KeyGoes
<1>8. CASE Goes("menu", "loop", back)
  <2>1. PICK c \in Holding :
          Path(Holding, done, a, c) /\ c.lock = "free" /\ c.view = "enabled" /\ "loose" \notin c.flags
    <3>1. CASE suspend_enabled
      BY <1>2, <1>3, <1>5, <3>1 DEF Matches
    <3>2. CASE ~ suspend_enabled
      <4>1. PICK c \in Holding :
              /\ Path(Holding, <<"enable">>, a, c) /\ c.lock = "free" /\ c.view = "enabled"
              /\ c.flags = a.flags \union {"stale"}
        BY <1>3, ViewPaths
      <4> QED
        BY <1>3, <3>2, <4>1
    <3> QED
      BY <3>1, <3>2
  <2> HIDE DEF done
  <2>2. Path(Holding, back, a, c)
    <3>1. Path(Holding, <<"clear keys">> \o done, a, c)
      BY <1>5, <2>1, PathJoin
    <3>2. Path(Holding, Redraw, c, c)
      BY <2>1, UIDrawPaths
    <3> QED
      BY <2>1, <3>1, <3>2, PathJoin
  <2> HIDE DEF back
  <2>3. Rests(c)'
    BY <1>8, <2>1 DEF Goes, Rests
  <2> QED
    BY <1>1, <1>2, <1>4, <1>8, <2>1, <2>2, <2>3, KeyGoes
<1>9. CASE Goes(screen, "button asleep", suspend)
  <2> DEFINE s == At(a, "asleep")
  <2>1. s \in Holding /\ s.lock = "asleep" /\ s.view = a.view /\ s.flags = a.flags
    BY <1>6, AtHolding DEF Locks
  <2>2. Path(Holding, suspend, a, s)
    BY <1>6
  <2> HIDE DEF s
  <2>3. Rests(s)'
    BY <1>3, <1>9, <2>1 DEF Goes, Rests
  <2> QED
    BY <1>1, <1>2, <1>3, <1>4, <1>9, <2>1, <2>2, <2>3, KeyGoes
<1> HIDE DEF again, back
<1> QED
  BY <1>1, <1>7, <1>8, <1>9

-----------------------------------------------------------------------------
(* The other threads and the interrupts.                                   *)

\* The monitor and the thread of the sensor view start on their lists without a mutex.
LEMMA OtherStarts ==
  ASSUME CallInv, NEW t \in {"monitor", "view"}, todo[t] = << >>, waits[t] = None,
         NEW p, \A a \in Awake : a.lock = "free" => Path(Awake, p, a, a),
         todo' = [todo EXCEPT ![t] = p],
         UNCHANGED <<place, events, suspension, panel, mutexes, drawing, pixels, logger>>
  PROVE  CallInv'
<1>1. t \in Threads /\ t # "ui" /\ States(t) = Awake
  BY DEF Threads, States
<1>2. PICK a \in Awake, b \in Awake :
        Held[t] = Stk(a.lock) /\ Path(Awake, todo[t], a, b) /\ Ends(t, a, b)
  BY <1>1 DEF CallInv, ThreadInv
<1>3. a.lock = "free"
  BY <1>1, <1>2, PathEmpty DEF Ends
<1>4. Path(Awake, p, a, a) /\ Ends(t, a, a)'
  BY <1>1, <1>3 DEF Ends
<1>5. /\ Path(Awake, todo'[t], a, a)
      /\ todo' \in [Threads -> Seq(Ops)]
      /\ \A u \in Threads \ {t} : todo'[u] = todo[u]
  BY <1>1, <1>4, Starts
<1>6. Typed' /\ Quiet'
  BY <1>5 DEF Typed, Quiet, Settings, CallInv, place, suspension, pixels, logger, mutexes
<1>7. MutexInv' /\ Held' = Held
  BY DEF MutexInv, Held, CallInv, mutexes
<1> QED
  BY <1>1, <1>2, <1>4, <1>5, <1>6, <1>7, Together DEF logger

\* Having drawn its row, the monitor sends, or does not.
LEMMA MonitorStep ==
  ASSUME CallInv, run_monitor
  PROVE  CallInv'
<1>0. UNCHANGED <<place, events, suspension, panel, mutexes, drawing, pixels, logger>>
  BY DEF run_monitor
<1>1. CASE waits["monitor"] = None /\ todo["monitor"] = << >>
           /\ todo' = [todo EXCEPT !["monitor"] = Drawing("row") \o <<"check">>]
  <2>1. ASSUME NEW a \in Awake, a.lock = "free"
        PROVE  Path(Awake, Drawing("row") \o <<"check">>, a, a)
    <3>1. Path(Awake, Drawing("row"), a, a)
      BY <2>1, DrawPaths DEF Drawings
    <3>2. Path(Awake, <<"check">>, a, a)
      BY <2>1, PathOne DEF Effect, Ops
    <3> QED
      BY <3>1, <3>2, PathJoin
  <2> DEFINE p == Drawing("row") \o <<"check">>
  <2>2. todo' = [todo EXCEPT !["monitor"] = p] /\ \A a \in Awake : a.lock = "free" => Path(Awake, p, a, a)
    BY <1>1, <2>1
  <2> HIDE DEF p
  <2> QED
    BY <1>0, <1>1, <2>2, OtherStarts
<1>2. CASE Calls("monitor", "check") /\ Returns("monitor", IF is_suspended THEN << >> ELSE update)
  <2>1. "monitor" \in Threads /\ States("monitor") = Awake
    BY DEF Threads, States
  <2>2. PICK a \in Awake, c \in Awake, b \in Awake :
          /\ Held["monitor"] = Stk(a.lock) /\ Effect("check", a, c)
          /\ Path(Awake, Tail(todo["monitor"]), c, b) /\ Ends("monitor", a, b)
    BY <1>2, <2>1, NextCall
  <2>3. a.lock = "free" /\ c = a
    BY <2>2 DEF Effect, Drawings
  <2> DEFINE more == IF is_suspended THEN << >> ELSE update
  <2>4. Path(Awake, more, a, a) /\ Returns("monitor", more)
    BY <1>2, <2>3, DrawPaths, PathEmpty
  <2> HIDE DEF more
  <2>5. /\ Path(Awake, todo'["monitor"], a, b)
        /\ todo' \in [Threads -> Seq(Ops)]
        /\ \A u \in Threads \ {"monitor"} : todo'[u] = todo[u]
    BY <1>2, <2>1, <2>2, <2>3, <2>4, Continues
  <2>6. Ends("monitor", a, b)'
    BY <2>2 DEF Ends
  <2>7. Typed' /\ Quiet'
    BY <1>0, <2>5 DEF Typed, Quiet, Settings, CallInv, place, suspension, pixels, logger, mutexes
  <2>8. MutexInv' /\ Held' = Held
    BY <1>0 DEF MutexInv, Held, CallInv, mutexes
  <2> QED
    BY <1>0, <2>1, <2>2, <2>5, <2>6, <2>7, <2>8, Together DEF logger
<1> QED
  BY <1>1, <1>2 DEF run_monitor

\* The view draws and sends, with bars or without.
LEMMA SampleStep ==
  ASSUME CallInv, ViewSample
  PROVE  CallInv'
<1> DEFINE bar == IF Bars THEN Drawing("bar") ELSE << >>
           p == Draw \o bar \o update
<1>1. ASSUME NEW a \in Awake, a.lock = "free" PROVE Path(Awake, p, a, a)
  <2>1. Path(Awake, Draw, a, a) /\ Path(Awake, bar, a, a) /\ Path(Awake, update, a, a)
    BY <1>1, DrawPaths, PathEmpty DEF Drawings
  <2> HIDE DEF bar
  <2>2. Path(Awake, Draw \o bar, a, a)
    BY <2>1, PathJoin
  <2> QED
    BY <2>1, <2>2, PathJoin
<1>2. /\ waits["view"] = None /\ todo["view"] = << >> /\ todo' = [todo EXCEPT !["view"] = p]
      /\ UNCHANGED <<place, events, suspension, panel, mutexes, drawing, pixels, logger>>
  BY DEF ViewSample
<1> HIDE DEF p
<1> QED
  BY <1>1, <1>2, OtherStarts

\* The interrupts and the log thread call nothing.
LEMMA SignalStep ==
  ASSUME CallInv, LogError \/ handle_key \/ handle_suspend
  PROVE  CallInv'
<1>1. UNCHANGED <<place, todo, suspend_enabled, is_suspended, panel, mutexes, drawing, pixels, env>>
  BY DEF LogError, handle_key, handle_suspend, suspension, logger
<1>2. Settings'
  <2>1. CASE LogError
    BY <2>1 DEF LogError, Settings, CallInv, Quiet, suspension
  <2>2. CASE handle_key
    <3>1. PICK k \in Keys \union {"BACK"} : events' = events \union {k, "RESUME"}
      BY <2>2 DEF handle_key
    <3>2. events' \subseteq Masks /\ ("SUSPEND" \in events' => "SUSPEND" \in events)
      BY <3>1 DEF Masks, Keys, CallInv, Quiet, Settings
    <3> QED
      BY <2>2, <3>2 DEF handle_key, Settings, CallInv, Quiet, suspension, logger
  <2>3. CASE handle_suspend
    <3>1. events' \subseteq Masks
      BY <2>3 DEF handle_suspend, Masks, CallInv, Quiet, Settings
    <3> QED
      BY <2>3, <3>1 DEF handle_suspend, Settings, CallInv, Quiet, logger
  <2> QED
    BY <2>1, <2>2, <2>3
<1>3. "ui" \in Threads /\ States("ui") = Holding
  BY DEF Threads, States
<1>4. PICK a \in Holding, b \in Holding :
        Held["ui"] = Stk(a.lock) /\ Path(Holding, todo["ui"], a, b) /\ Matches(a) /\ Rests(b)
  BY <1>3 DEF CallInv, ThreadInv, Ends
<1>5. Matches(a)'
  <2>1. CASE LogError
    BY <1>4, <2>1 DEF LogError, Matches, suspension
  <2>2. CASE handle_key
    <3>1. PICK k \in Keys \union {"BACK"} : events' = events \union {k, "RESUME"}
      BY <2>2 DEF handle_key
    <3>2. "RESUME" \in events' /\ ("SUSPEND" \in events' => "SUSPEND" \in events)
      BY <3>1 DEF Keys
    <3> QED
      BY <1>4, <2>2, <3>2 DEF handle_key, Matches, suspension, logger
  <2>3. CASE handle_suspend
    <3>1. armed /\ armed' = FALSE /\ events' = events \union {"SUSPEND"}
      BY <2>3 DEF handle_suspend
    <3>2. ("SELECT" \in events' <=> "SELECT" \in events) /\ ("RESUME" \in events' <=> "RESUME" \in events)
      BY <3>1
    <3> QED
      BY <1>1, <1>4, <3>1, <3>2 DEF Matches
  <2> QED
    BY <2>1, <2>2, <2>3
<1>6. Rests(b)' /\ Ends("ui", a, b)'
  <2>1. Rests(b)'
    BY <1>1, <1>4 DEF Rests, place
  <2> QED
    BY <1>5, <2>1 DEF Ends
<1>7. Typed' /\ Quiet'
  BY <1>1, <1>2 DEF Typed, Quiet, CallInv, place, pixels, mutexes
<1>8. MutexInv' /\ Held' = Held
  BY <1>1 DEF MutexInv, Held, CallInv, mutexes
<1> QED
  BY <1>1, <1>3, <1>4, <1>6, <1>7, <1>8, Together

\* Nothing at all.
LEMMA StutterStep ==
  ASSUME CallInv, UNCHANGED vars
  PROVE  CallInv'
<1>1. Typed' /\ Quiet' /\ MutexInv' /\ Held' = Held
  BY DEF vars, CallInv, Typed, Quiet, Settings, MutexInv, Held
<1>2. ThreadInv'
  <2> SUFFICES ASSUME NEW t \in Threads
               PROVE  \E a, b \in States(t) :
                        Held'[t] = Stk(a.lock) /\ Path(States(t), todo'[t], a, b) /\ Ends(t, a, b)'
    BY DEF ThreadInv, States
  <2>1. PICK a \in States(t), b \in States(t) :
          Held[t] = Stk(a.lock) /\ Path(States(t), todo[t], a, b) /\ Ends(t, a, b)
    BY DEF CallInv, ThreadInv
  <2>2. Ends(t, a, b)'
    <3>1. CASE t = "ui"
      <4>1. Matches(a)'
        BY <2>1, <3>1 DEF Ends, Matches, vars
      <4>2. Rests(b)'
        BY <2>1, <3>1 DEF Ends, Rests, vars
      <4> QED
        BY <3>1, <4>1, <4>2 DEF Ends
    <3>2. CASE t # "ui"
      BY <2>1, <3>2 DEF Ends
    <3> QED
      BY <3>1, <3>2
  <2> QED
    BY <1>1, <2>1, <2>2 DEF vars
<1> QED
  BY <1>1, <1>2 DEF CallInv

\* The main menu is drawn first.
LEMMA InitCalls ==
  ASSUME Init
  PROVE  CallInv
<1> DEFINE p == Redraw \o <<"clear keys">>
           a == [lock |-> "free", view |-> "enabled",
                 flags |-> {"stale"} \union (IF env.logFails THEN {"fails"} ELSE {})]
<1>1. /\ a \in Holding /\ a.lock = "free" /\ a.view = "enabled" /\ "stale" \in a.flags
      /\ "loose" \notin a.flags /\ "woken" \notin a.flags /\ (env.logFails => "fails" \in a.flags)
  BY DEF Holding, Locks, Flags
<1>2. /\ todo = [t \in Threads |-> IF t = "ui" THEN p ELSE << >>]
      /\ stack = [t \in Threads |-> << >>] /\ waits = [t \in Threads |-> None]
      /\ owner = [m \in Mutexes |-> None] /\ events = {}
      /\ screen = "menu" /\ at = "loop" /\ env \in Environments
  BY DEF Init
<1> HIDE DEF a
<1>3. Path(Holding, p, a, a)
  <2>1. Path(Holding, Redraw, a, a) /\ Path(Holding, <<"clear keys">>, a, a)
    BY <1>1, UIDrawPaths, FreePaths
  <2> QED
    BY <1>1, <2>1, PathJoin
<1>4. a \in Awake /\ Path(Awake, << >>, a, a)
  BY <1>1, AwakeHolding, PathEmpty
<1>5. p \in Seq(Ops) /\ << >> \in Seq(Ops)
  BY <1>3, <1>4 DEF Path
<1> HIDE DEF p
<1>6. Held = [t \in Threads |-> << >>] /\ << >> \in Stacks /\ \A m : ~ Has(<< >>, m)
  BY <1>2 DEF Held, Stacks, Has
<1>7. MutexInv
  <2>1. \A t \in Threads : t # None
    BY DEF Threads, None
  <2> QED
    BY <1>2, <1>6, <2>1 DEF MutexInv
<1>8. Typed
  <2>1. Synced \in Limits
    BY PagesAssumption DEF Synced, Limits, Page
  <2> QED
    BY <1>2, <1>5, <2>1 DEF Init, Typed, Screens, Waits
<1>9. Quiet
  BY <1>2 DEF Init, Quiet, Settings, Threads
<1>10. Matches(a) /\ Rests(a)
  <2>1. Matches(a)
    BY <1>1, <1>2 DEF Init, Matches, Dark
  <2>2. Rests(a)
    BY <1>1, <1>2 DEF Rests
  <2> QED
    BY <2>1, <2>2
<1>11. ThreadInv
  <2> SUFFICES ASSUME NEW t \in Threads
               PROVE  \E x, y \in States(t) :
                        Held[t] = Stk(x.lock) /\ Path(States(t), todo[t], x, y) /\ Ends(t, x, y)
    BY DEF ThreadInv
  <2>1. Held[t] = Stk(a.lock)
    BY <1>1, <1>6, StkFacts
  <2>2. CASE t = "ui"
    BY <1>1, <1>2, <1>3, <1>10, <2>1, <2>2 DEF States, Ends
  <2>3. CASE t # "ui"
    BY <1>1, <1>2, <1>4, <2>1, <2>3 DEF States, Ends
  <2> QED
    BY <2>2, <2>3
<1> QED
  BY <1>7, <1>8, <1>9, <1>11 DEF CallInv

\* Every step keeps the calls in order.
LEMMA CallStep ==
  ASSUME NeverBoth, CallInv, [Next]_vars
  PROVE  CallInv'
<1>1. {"ui", "monitor", "view"} \subseteq Threads
  BY DEF Threads
<1>2. ASSUME NEW t \in Threads, Common(t) PROVE CallInv'
  BY <1>2, LockStep, UnlockStep, PixelStep DEF Common
<1>3. CASE UIThread
  BY <1>1, <1>2, <1>3, PanelStep, ResumeStep, InhibitStep, EnableStep, ClearStep, ThreadStep,
     ErrorStep, GlobalCalls, WokenCalls, MenuCalls, LaunchCalls, ViewCalls, LoggerCalls, PollCalls,
     TestCalls DEF UIThread
<1>4. CASE MonitorThread \/ SensorViewThread
  BY <1>1, <1>2, <1>4, MonitorStep, SampleStep DEF MonitorThread, SensorViewThread
<1>5. CASE LogError \/ handle_key \/ handle_suspend
  BY <1>5, SignalStep
<1>6. CASE UNCHANGED vars
  BY <1>6, StutterStep
<1> QED
  BY <1>3, <1>4, <1>5, <1>6 DEF Next

\* What the invariant says of a thread that is back in its wait.
LEMMA BackInWait ==
  ASSUME CallInv
  PROVE  SuspendedHoldsLock /\ AwakeLoopNotStuck
<1>1. ASSUME todo["ui"] = << >>
      PROVE  /\ waits["ui"] = None => stack["ui"] = IF is_suspended THEN <<"suspend_lock">> ELSE << >>
             /\ at = "asleep" => is_suspended \/ "RESUME" \in events
  <2>1. PICK a \in Holding : Held["ui"] = Stk(a.lock) /\ Matches(a) /\ Rests(a)
    BY <1>1, Idle
  <2>2. a.lock = "free" \/ a.lock = "asleep"
    BY <2>1 DEF Rests, CallInv, Typed, Waits
  <2>3. is_suspended <=> a.lock = "asleep"
    BY <2>1 DEF Matches
  <2>4. Stk(a.lock) = IF is_suspended THEN <<"suspend_lock">> ELSE << >>
    <3>1. CASE a.lock = "free"
      BY <2>3, <3>1, StkFacts
    <3>2. CASE a.lock = "asleep"
      BY <2>3, <3>2, StkFacts
    <3> QED
      BY <2>2, <3>1, <3>2
  <2>5. waits["ui"] = None => stack["ui"] = Held["ui"]
    BY DEF Held, Threads
  <2>6. at = "asleep" => is_suspended \/ "RESUME" \in events
    BY <2>1, <2>3 DEF Rests, Matches
  <2> QED
    BY <2>1, <2>4, <2>5, <2>6
<1> QED
  BY <1>1 DEF SuspendedHoldsLock, AwakeLoopNotStuck

\* And of a panel that is switched off: the UI thread owns its mutex.
LEMMA PanelLocked ==
  ASSUME CallInv
  PROVE  NoDataToSleepingPanel /\ ViewStaysLit
<1>1. "ui" \in Threads /\ States("ui") = Holding
  BY DEF Threads, States
<1>2. PICK a \in Holding : Held["ui"] = Stk(a.lock) /\ Matches(a)
  BY <1>1 DEF CallInv, ThreadInv, Ends
<1>3. ViewStaysLit
  BY <1>2 DEF ViewStaysLit, Matches, Holding
<1>4. ASSUME NEW t \in Threads, Calls(t, "data"), ~ panel PROVE FALSE
  <2>1. PICK x \in States(t), c \in States(t), b \in States(t) :
          stack[t] = Stk(x.lock) /\ Effect("data", x, c) /\ Ends(t, x, b)
    BY <1>4, NextCall
  <2>2. x.lock = "both"
    BY <2>1 DEF Effect, Drawings
  <2>3. <<"suspend_lock">> \in Stacks /\ <<"suspend_lock", "fb">> \in Stacks
    BY DEF Stacks
  <2>4. owner["suspend_lock"] = t
    <3>1. Has(stack[t], "suspend_lock")
      BY <2>1, <2>2, <2>3, StkFacts, StackFacts
    <3> QED
      BY <3>1 DEF CallInv, MutexInv, Mutexes
  <2>5. a.lock \in Dark /\ waits["ui"] = None
    BY <1>2, <1>4 DEF Matches, CallInv, Quiet
  <2>6. owner["suspend_lock"] = "ui"
    <3>1. stack["ui"] = <<"suspend_lock">>
      BY <1>1, <1>2, <2>5, StkFacts DEF Dark, Held
    <3>2. Has(stack["ui"], "suspend_lock")
      BY <2>3, <3>1, StackFacts
    <3> QED
      BY <1>1, <3>2 DEF CallInv, MutexInv, Mutexes
  <2>7. t = "ui"
    BY <2>4, <2>6
  <2> QED
    BY <1>4, <2>1, <2>2, <2>7 DEF Ends, Matches, Dark
<1> QED
  BY <1>3, <1>4 DEF NoDataToSleepingPanel

\* The types, which the run checks.
LEMMA Types ==
  ASSUME CallInv
  PROVE  TypeOK
<1>1. \A s \in Stacks : s \in Seq(Mutexes)
  <2>1. \A x, y \in Mutexes : << >> \in Seq(Mutexes) /\ <<x>> \in Seq(Mutexes) /\ <<x, y>> \in Seq(Mutexes)
    OBVIOUS
  <2>2. "fb" \in Mutexes /\ "suspend_lock" \in Mutexes
    BY DEF Mutexes
  <2> QED
    BY <2>1, <2>2 DEF Stacks
<1>2. stack \in [Threads -> Seq(Mutexes)]
  BY <1>1 DEF CallInv, MutexInv
<1>3. \A t \in Threads, m \in Mutexes : owner[m] = t <=> \E i \in DOMAIN stack[t] : stack[t][i] = m
  BY DEF CallInv, MutexInv, Has
<1> QED
  BY <1>2, <1>3 DEF TypeOK, CallInv, MutexInv, Typed, Quiet, Settings

-----------------------------------------------------------------------------

\* Unless the log thread may fail and the user idle, every thread's calls are in order.
THEOREM Ordered ==
  ASSUME NeverBoth
  PROVE  Spec => []CallInv
<1>1. Init => CallInv
  BY InitCalls
<1>2. CallInv /\ [Next]_vars => CallInv'
  BY CallStep
<1> QED
  BY <1>1, <1>2, PTL DEF Spec

\* Every variable has its type, and a mutex is in the list of its owner and no other.
THEOREM TypeCorrect ==
  ASSUME NeverBoth
  PROVE  Spec => []TypeOK
<1>1. CallInv => TypeOK
  BY Types
<1> QED
  BY <1>1, Ordered, PTL

\* chMtxLock(): no threads wait for each other's mutexes, for good.
THEOREM Deadlocks ==
  ASSUME NeverBoth
  PROVE  Spec => []NoDeadlock
<1>1. CallInv => NoDeadlock
  BY LockOrder DEF CallInv
<1> QED
  BY <1>1, Ordered, PTL

\* The UI thread keeps the panel's mutex while suspended, and yet never locks it again.
THEOREM SelfDeadlocks ==
  ASSUME NeverBoth
  PROVE  Spec => []NoSelfDeadlock
<1>1. CallInv => NoSelfDeadlock
  BY LockOrder DEF CallInv
<1> QED
  BY <1>1, Ordered, PTL

\* resume()'s anonymous chMtxUnlock() releases the panel's mutex, and no unlock another's.
THEOREM LockKept ==
  ASSUME NeverBoth
  PROVE  Spec => []SuspendedHoldsLock
<1>1. CallInv => SuspendedHoldsLock
  BY BackInWait
<1> QED
  BY <1>1, Ordered, PTL

\* transmit_data_sync() runs with the panel on, in whichever thread.
THEOREM NoDataWhileOff ==
  ASSUME NeverBoth
  PROVE  Spec => []NoDataToSleepingPanel
<1>1. CallInv => NoDataToSleepingPanel
  BY PanelLocked
<1> QED
  BY <1>1, Ordered, PTL

\* A SUSPEND left over from before inhibit_suspend() does not darken the sensor view.
THEOREM ViewLit ==
  ASSUME NeverBoth
  PROVE  Spec => []ViewStaysLit
<1>1. CallInv => ViewStaysLit
  BY PanelLocked
<1> QED
  BY <1>1, Ordered, PTL

\* The fall-through of the logger's SELECT finds RESUME pending.
THEOREM LoopGoesOn ==
  ASSUME NeverBoth
  PROVE  Spec => []AwakeLoopNotStuck
<1>1. CallInv => AwakeLoopNotStuck
  BY BackInWait
<1> QED
  BY <1>1, Ordered, PTL

=============================================================================
