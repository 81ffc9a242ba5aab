---------------------------- MODULE Acquisition ----------------------------
(***************************************************************************)
(* The sensor acquisition threads of sw_imu/src/acquisition.cpp.           *)
(*                                                                         *)
(* Each sensor has one thread of priority NORMALPRIO + 10 that is driven   *)
(* by three kernel event bits: the sample tick, which the timer callback   *)
(* broadcasts, and TRIG_SLEEP and TRIG_WAKE, which require_sources and     *)
(* norequire_sources raise when a sensor's reference count leaves or       *)
(* reaches zero.  The event word of a thread is a set of LEVELS: it does   *)
(* not record in which order SLEEP and WAKE were raised.                   *)
(*                                                                         *)
(* A bus transfer (device initialisation, a change of power mode, a        *)
(* reading) blocks the thread, so the clients run during it.  Between      *)
(* transfers the thread preempts every client.                             *)
(***************************************************************************)
EXTENDS Integers, FiniteSets

CONSTANTS
  Sensors,    \* the sensors, each with its thread
  Clients,    \* the threads that require sensors: LogThread, the view, tests
  Divider,    \* the tick source of a thread, as a divider of the base tick
  FatalInit,  \* sensors whose init spins for ever when the device is absent
  RefMod      \* the modulus of the reference counters (uint32_t)

ASSUME SensorAssumption ==
  /\ Divider \in [Sensors -> {1, 2, 4, 8}]
  /\ FatalInit \subseteq Sensors

ASSUME ClientAssumption ==
  /\ IsFiniteSet(Clients)
  /\ RefMod \in Nat
  /\ Cardinality(Clients) < RefMod

VARIABLES
  pc,       \* where each sensor thread is
  pending,  \* p_epending of each sensor thread, as a set of bit numbers
  enabled,  \* acc_enabled, mag_enabled, ...
  ref,      \* acc_ref_count, mag_ref_count, ...
  holds,    \* the sensors each client has required and not yet released
  count     \* the static counter of the timer callback

threadVars == <<pc, enabled>>
vars == <<pc, pending, enabled, ref, holds, count>>

TICK  == 0   \* event mask 1
SLEEP == 16  \* TRIG_SLEEP = 0x10000
WAKE  == 17  \* TRIG_WAKE  = 0x20000
Events == {TICK, SLEEP, WAKE}
TrigAll == {SLEEP, WAKE}

\* The places of a thread. "init", "activating", "reading" and "standby" are
\* blocked on the bus; "asleep" and "wait" are the two event waits of the code;
\* "spin" is the while(true) of a failed initialisation.
Places == {"init", "spin", "asleep", "activating", "wait", "reading", "standby"}

TypeOK ==
  /\ pc \in [Sensors -> Places]
  /\ pending \in [Sensors -> SUBSET Events]
  /\ enabled \in [Sensors -> BOOLEAN]
  /\ ref \in [Sensors -> 0 .. RefMod - 1]
  /\ holds \in [Clients -> SUBSET Sensors]
  /\ count \in 0 .. 7

Init ==
  /\ pc = [s \in Sensors |-> "init"]
  /\ pending = [s \in Sensors |-> {}]
  /\ enabled = [s \in Sensors |-> FALSE]
  /\ ref = [s \in Sensors |-> 0]
  /\ holds = [c \in Clients |-> {}]
  /\ count = 0

-----------------------------------------------------------------------------
(* The timer callback.                                                     *)

\* count ^ (count - 1) keeps the lowest bit set in count and the ones below it
\* (every bit when count is 0), so bit d survives exactly when d divides count.
Fires(d, n) == n % d = 0

tick ==
  /\ pending' = [s \in Sensors |->
       IF Fires(Divider[s], count) THEN pending[s] \union {TICK} ELSE pending[s]]
  /\ count' = (count + 1) % 8
  /\ UNCHANGED <<pc, enabled, ref, holds>>

-----------------------------------------------------------------------------
(* The sensor threads.                                                     *)

\* Fault: the highest pending event is returned.
WaitOneHighest(s, mask, e) ==
  /\ e \in pending[s] \intersect mask
  /\ \A f \in pending[s] \intersect mask : f <= e

\* chEvtWaitOne(mask) returns the lowest pending event of mask.
WaitOne(s, mask, e) ==
  /\ e \in pending[s] \intersect mask
  /\ \A f \in pending[s] \intersect mask : e <= f

\* A step of s from one place to another that consumes the events in taken.
Goto(s, from, to, taken) ==
  /\ pc[s] = from
  /\ pc' = [pc EXCEPT ![s] = to]
  /\ pending' = [pending EXCEPT ![s] = @ \ taken]
  /\ UNCHANGED <<ref, holds, count>>

\* The device is initialised and put in standby; acc1.init() and mag1.init()
\* may fail, unnoticed, while a gyro or pressure failure hangs the thread.
Boot(s) ==
  /\ \/ Goto(s, "init", "asleep", {})
     \/ s \in FatalInit /\ Goto(s, "init", "spin", {})
  /\ UNCHANGED enabled

\* while(TRIG_WAKE != chEvtWaitOne(TRIG_ALL)): anything else is thrown away.
Discard(s) ==
  /\ WaitOne(s, TrigAll, SLEEP)
  /\ Goto(s, "asleep", "asleep", {SLEEP})
  /\ UNCHANGED enabled

Awake(s) ==
  /\ WaitOne(s, TrigAll, WAKE)
  /\ Goto(s, "asleep", "activating", {WAKE})
  /\ UNCHANGED enabled

Activated(s) ==
  /\ Goto(s, "activating", "wait", {})
  /\ enabled' = [enabled EXCEPT ![s] = TRUE]

\* The three cases of the main loop, chEvtWaitOne(TRIG_ALL + 1).
TakeTick(s) ==
  /\ WaitOne(s, Events, TICK)
  /\ Goto(s, "wait", "reading", {TICK})
  /\ UNCHANGED enabled

\* Fault: going to sleep clears both triggers.
TakeBoth(s) ==
  /\ WaitOne(s, Events, SLEEP)
  /\ Goto(s, "wait", "standby", TrigAll)
  /\ UNCHANGED enabled

TakeSleep(s) ==
  /\ WaitOne(s, Events, SLEEP)
  /\ Goto(s, "wait", "standby", {SLEEP})
  /\ UNCHANGED enabled

TakeWake(s) ==
  /\ WaitOne(s, Events, WAKE)
  /\ Goto(s, "wait", "wait", {WAKE})
  /\ UNCHANGED enabled

\* The reading has arrived and is put to the listeners of the sensor's source,
\* which DataSource models.
ReadDone(s) ==
  /\ Goto(s, "reading", "wait", {})
  /\ UNCHANGED enabled

StandbyDone(s) ==
  /\ Goto(s, "standby", "asleep", {})
  /\ enabled' = [enabled EXCEPT ![s] = FALSE]

Thread(s) ==
  \/ Boot(s) \/ Discard(s) \/ Awake(s) \/ Activated(s) \/ TakeTick(s)
  \/ TakeSleep(s) \/ TakeWake(s) \/ ReadDone(s) \/ StandbyDone(s)

-----------------------------------------------------------------------------
(* The clients.                                                            *)

\* The thread of s is ready, so no client, of a lower priority, runs.
Ready(s) ==
  \/ pc[s] = "spin"
  \/ pc[s] = "asleep" /\ pending[s] \intersect TrigAll # {}
  \/ pc[s] = "wait" /\ pending[s] # {}

ClientRuns == \A s \in Sensors : ~Ready(s)

\* The new event words when each sensor of the set S is signalled e.
Signal(S, e) ==
  [s \in Sensors |-> IF s \in S THEN pending[s] \union {e} ELSE pending[s]]

\* Fault: the counter is a flag.
IncFlag(mask) == [s \in Sensors |-> IF s \in mask THEN 1 ELSE ref[s]]

\* The unsigned increment and decrement of the counters of the sensors in mask.
Up(n) == IF n = RefMod - 1 THEN 0 ELSE n + 1
Down(n) == IF n = 0 THEN RefMod - 1 ELSE n - 1
Inc(mask) == [s \in Sensors |-> IF s \in mask THEN Up(ref[s]) ELSE ref[s]]
Dec(mask) == [s \in Sensors |-> IF s \in mask THEN Down(ref[s]) ELSE ref[s]]

\* Fault: if(!++ref), which never sees zero.
require_sourcesPre(c, mask) ==
  /\ ClientRuns
  /\ mask # {} /\ mask \intersect holds[c] = {}
  /\ ref' = Inc(mask)
  /\ pending' = Signal({s \in mask : Inc(mask)[s] = 0}, WAKE)
  /\ holds' = [holds EXCEPT ![c] = @ \union mask]
  /\ UNCHANGED <<pc, enabled, count>>

require_sources(c, mask) ==
  /\ ClientRuns
  /\ mask # {} /\ mask \intersect holds[c] = {}
  /\ ref' = Inc(mask)
  /\ pending' = Signal({s \in mask : ref[s] = 0}, WAKE)
  /\ holds' = [holds EXCEPT ![c] = @ \union mask]
  /\ UNCHANGED <<pc, enabled, count>>

\* Fault: if(!ref--), the count of before.
norequire_sourcesPost(c, mask) ==
  /\ ClientRuns
  /\ mask # {} /\ mask \subseteq holds[c]
  /\ ref' = Dec(mask)
  /\ pending' = Signal({s \in mask : ref[s] = 0}, SLEEP)
  /\ holds' = [holds EXCEPT ![c] = @ \ mask]
  /\ UNCHANGED <<pc, enabled, count>>

norequire_sources(c, mask) ==
  /\ ClientRuns
  /\ mask # {} /\ mask \subseteq holds[c]
  /\ ref' = Dec(mask)
  /\ pending' = Signal({s \in mask : Dec(mask)[s] = 0}, SLEEP)
  /\ holds' = [holds EXCEPT ![c] = @ \ mask]
  /\ UNCHANGED <<pc, enabled, count>>

-----------------------------------------------------------------------------

Next ==
  \/ tick
  \/ \E s \in Sensors : Thread(s)
  \/ \E c \in Clients, mask \in SUBSET Sensors :
       require_sources(c, mask) \/ norequire_sources(c, mask)

Safety == Init /\ [][Next]_vars

\* The timer re-arms itself in its callback; the sensor threads have the highest
\* priority of the application, share the processor in time slices, and their
\* transfers are bounded.  Nothing obliges a client to do anything.
Fairness == WF_vars(tick) /\ \A s \in Sensors : WF_vars(Thread(s))

Spec == Safety /\ Fairness

-----------------------------------------------------------------------------
(* Properties.                                                             *)

Holders(s) == {c \in Clients : s \in holds[c]}

\* The thread is on its way to the main loop or in it.
OnPath(s) == pc[s] \in {"activating", "wait", "reading"}

\* The thread is blocked in an event wait and neither trigger is pending.
Quiet(s) == pc[s] \in {"asleep", "wait"} /\ pending[s] \intersect TrigAll = {}

\* "A count of the number of tasks that indicate that they require each sensor":
\* the counters equal the number of clients that hold the sensor, and so never
\* wrap, however requests with overlapping masks interleave.
RefCountsHolders == \A s \in Sensors : ref[s] = Cardinality(Holders(s))

\* No lost wake-up: as long as somebody requires a sensor, its thread is sampling
\* and is not about to go to sleep, or still has a wake-up to take, although
\* SLEEP and WAKE may be pending together and their order is not recorded.
WakeUpNotLost == \A s \in Sensors :
  ref[s] > 0 => WAKE \in pending[s] \/ (OnPath(s) /\ SLEEP \notin pending[s])

\* A sensor thread that has settled while its sensor is required is sampling.
RequiredIsSampling == \A s \in Sensors :
  Quiet(s) /\ Holders(s) # {} => pc[s] = "wait" /\ enabled[s]

\* A bus reading is only taken from a sensor that was activated and published as
\* enabled; a stale tick kept from before a sleep never reads a sleeping sensor.
ReadsOnlyEnabled == \A s \in Sensors :
  (pc[s] \in {"wait", "reading", "standby"}) <=> enabled[s]

\* A sensor is switched off under a client that requires it again only with the
\* wake-up of that client already pending.
OffOnlyIfReleased == [][\A s \in Sensors :
  enabled[s] /\ ~enabled'[s] => Holders(s) = {} \/ WAKE \in pending'[s]]_vars

\* Samples keep coming: a sensor that stays required is read again and again.
RequiredIsRead == \A s \in Sensors :
  (Holders(s) # {}) ~> (pc[s] \in {"reading", "spin"} \/ Holders(s) = {})

\* norequire_sources: "Decrement reference count on sources, disable if no
\* others".  A thread that has settled while nobody requires its sensor has
\* switched it off.  It does not hold; StraysByLostOrder says when it fails.
DisabledIfNoOthers == \A s \in Sensors :
  Quiet(s) /\ ref[s] = 0 => ~enabled[s]

\* Nobody requires the sensor, and its thread is or will be sampling, with nothing
\* pending that would stop it.
Stray(s) ==
  /\ ref[s] = 0 /\ SLEEP \notin pending[s]
  /\ OnPath(s) \/ (pc[s] # "spin" /\ WAKE \in pending[s])

\* "Disable if no others" fails in one way only, whoever requires and releases what
\* and wherever the thread is on its bus: SLEEP is taken while a WAKE is pending
\* that was raised before it.
StraysByLostOrder == [][\A s \in Sensors :
  ~Stray(s) /\ Stray(s)' => TrigAll \subseteq pending[s] /\ SLEEP \notin pending'[s]]_vars

=============================================================================
