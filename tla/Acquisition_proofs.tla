------------------------- MODULE Acquisition_proofs -------------------------
(***************************************************************************)
(* The safety properties of the acquisition threads, for every set of      *)
(* sensors and clients.                                                    *)
(***************************************************************************)
EXTENDS Acquisition, FiniteSetTheorems, TLAPS

\* The inductive invariant.
IInv == TypeOK /\ RefCountsHolders /\ WakeUpNotLost /\ ReadsOnlyEnabled

-----------------------------------------------------------------------------

\* The counters, events and flags stay in their ranges.
LEMMA TypeStep == TypeOK /\ [Next]_vars => TypeOK'
<1> SUFFICES ASSUME TypeOK, [Next]_vars PROVE TypeOK'
  OBVIOUS
<1> USE DEF TypeOK
<1>1. CASE tick
  BY <1>1 DEF tick, Events, TICK
<1>2. ASSUME NEW s \in Sensors, Thread(s) PROVE TypeOK'
  <2>1. pc' \in [Sensors -> Places] /\ UNCHANGED <<ref, holds, count>>
    BY <1>2 DEF Thread, Boot, Discard, Awake, Activated, TakeTick, TakeSleep,
         TakeWake, ReadDone, StandbyDone, Goto, Places
  <2>2. pending' \in [Sensors -> SUBSET Events]
    <3>1. \E taken \in SUBSET Events : pending' = [pending EXCEPT ![s] = @ \ taken]
      <4>1. {} \subseteq Events /\ {SLEEP} \subseteq Events /\ {WAKE} \subseteq Events
            /\ {TICK} \subseteq Events
        BY DEF Events
      <4> QED
        BY <1>2, <4>1 DEF Thread, Boot, Discard, Awake, Activated, TakeTick, TakeSleep,
             TakeWake, ReadDone, StandbyDone, Goto
    <3> QED
      BY <3>1
  <2>3. enabled' \in [Sensors -> BOOLEAN]
    BY <1>2 DEF Thread, Boot, Discard, Awake, Activated, TakeTick, TakeSleep,
         TakeWake, ReadDone, StandbyDone
  <2> QED
    BY <2>1, <2>2, <2>3
<1>3. ASSUME NEW c \in Clients, NEW mask \in SUBSET Sensors,
             require_sources(c, mask)
      PROVE  TypeOK'
  BY <1>3, ClientAssumption DEF require_sources, Inc, Up, Signal, Events, WAKE
<1>4. ASSUME NEW c \in Clients, NEW mask \in SUBSET Sensors,
             norequire_sources(c, mask)
      PROVE  TypeOK'
  BY <1>4, ClientAssumption DEF norequire_sources, Dec, Down, Signal, Events, SLEEP
<1>5. CASE UNCHANGED vars
  BY <1>5 DEF vars
<1>6. QED
  BY <1>1, <1>2, <1>3, <1>4, <1>5 DEF Next

\* The holders of a sensor are finitely many and are its reference count.
LEMMA HoldersCounted ==
  ASSUME RefCountsHolders, NEW s \in Sensors
  PROVE  /\ IsFiniteSet(Holders(s))
         /\ Cardinality(Holders(s)) \in Nat
         /\ ref[s] = Cardinality(Holders(s))
<1>1. Holders(s) \subseteq Clients
  BY DEF Holders
<1>2. IsFiniteSet(Holders(s))
  BY <1>1, ClientAssumption, FS_Subset
<1>3. QED
  BY <1>2, FS_CardinalityType DEF RefCountsHolders

\* A sensor that a client holds has a count of at least one.
LEMMA HeldIsPositive ==
  ASSUME RefCountsHolders, NEW s \in Sensors, Holders(s) # {}
  PROVE  ref[s] \in Nat \ {0}
BY HoldersCounted, FS_EmptySet

\* A request adds its client to the holders of each sensor of its mask, and a
\* release removes it, so the counters follow the number of holders.
LEMMA RefStep ==
  TypeOK /\ RefCountsHolders /\ [Next]_vars => RefCountsHolders'
<1> SUFFICES ASSUME TypeOK, RefCountsHolders, [Next]_vars,
                    NEW s \in Sensors
             PROVE  ref'[s] = Cardinality(Holders(s)')
  BY DEF RefCountsHolders
<1>0. /\ IsFiniteSet(Holders(s))
      /\ Cardinality(Holders(s)) \in Nat
      /\ ref[s] = Cardinality(Holders(s))
  BY HoldersCounted
<1>1. ASSUME UNCHANGED <<ref, holds>> PROVE ref'[s] = Cardinality(Holders(s)')
  BY <1>0, <1>1 DEF Holders
<1>2. ASSUME NEW c \in Clients, NEW mask \in SUBSET Sensors,
             require_sources(c, mask)
      PROVE  ref'[s] = Cardinality(Holders(s)')
  <2>1. CASE s \notin mask
    <3>1. Holders(s)' = Holders(s)
      BY <1>2, <2>1 DEF require_sources, Holders, TypeOK
    <3>2. ref'[s] = ref[s]
      BY <1>2, <2>1 DEF require_sources, Inc
    <3>3. QED
      BY <1>0, <3>1, <3>2
  <2>2. CASE s \in mask
    <3>1. c \notin Holders(s) /\ Holders(s)' = Holders(s) \union {c}
      BY <1>2, <2>2 DEF require_sources, Holders, TypeOK
    <3>2. Cardinality(Holders(s)') = Cardinality(Holders(s)) + 1
      BY <1>0, <3>1, FS_AddElement
    <3>3. Cardinality(Holders(s)') <= Cardinality(Clients)
      <4>1. Holders(s)' \subseteq Clients
        BY DEF Holders
      <4>2. QED
        BY <4>1, ClientAssumption, FS_Subset
    <3>4. ref'[s] = Up(ref[s])
      BY <1>2, <2>2 DEF require_sources, Inc
    <3>5. Cardinality(Clients) \in Nat
      BY ClientAssumption, FS_CardinalityType
    <3>6. QED
      BY <1>0, <3>2, <3>3, <3>4, <3>5, ClientAssumption DEF Up
  <2>3. QED
    BY <2>1, <2>2
<1>3. ASSUME NEW c \in Clients, NEW mask \in SUBSET Sensors,
             norequire_sources(c, mask)
      PROVE  ref'[s] = Cardinality(Holders(s)')
  <2>1. CASE s \notin mask
    <3>1. Holders(s)' = Holders(s)
      BY <1>3, <2>1 DEF norequire_sources, Holders, TypeOK
    <3>2. ref'[s] = ref[s]
      BY <1>3, <2>1 DEF norequire_sources, Dec
    <3>3. QED
      BY <1>0, <3>1, <3>2
  <2>2. CASE s \in mask
    <3>1. c \in Holders(s) /\ Holders(s)' = Holders(s) \ {c}
      BY <1>3, <2>2 DEF norequire_sources, Holders, TypeOK
    <3>2. Cardinality(Holders(s)') = Cardinality(Holders(s)) - 1
      BY <1>0, <3>1, FS_RemoveElement
    <3>3. ref[s] # 0
      BY <3>1, HeldIsPositive
    <3>4. ref'[s] = Down(ref[s])
      BY <1>3, <2>2 DEF norequire_sources, Dec
    <3>5. QED
      BY <1>0, <3>2, <3>3, <3>4 DEF Down
  <2>3. QED
    BY <2>1, <2>2
<1>4. ASSUME NEW t \in Sensors, Thread(t) PROVE UNCHANGED <<ref, holds>>
  BY <1>4 DEF Thread, Boot, Discard, Awake, Activated, TakeTick, TakeSleep,
       TakeWake, ReadDone, StandbyDone, Goto
<1>5. QED
  BY <1>1, <1>2, <1>3, <1>4 DEF Next, tick, vars

\* The enabled flag is up exactly between activation and the end of standby.
LEMMA EnabledStep ==
  TypeOK /\ ReadsOnlyEnabled /\ [Next]_vars => ReadsOnlyEnabled'
<1> SUFFICES ASSUME TypeOK, ReadsOnlyEnabled, [Next]_vars
             PROVE  ReadsOnlyEnabled'
  OBVIOUS
<1> USE DEF ReadsOnlyEnabled
<1>1. ASSUME UNCHANGED <<pc, enabled>> PROVE ReadsOnlyEnabled'
  BY <1>1
<1>2. ASSUME NEW s \in Sensors, Thread(s) PROVE ReadsOnlyEnabled'
  BY <1>2 DEF TypeOK, Thread, Boot, Discard, Awake, Activated, TakeTick,
       TakeSleep, TakeWake, ReadDone, StandbyDone, Goto
<1>3. QED
  BY <1>1, <1>2 DEF Next, vars, tick, require_sources, norequire_sources

\* A wake-up owed to the holders of a sensor stays owed: each action that takes
\* WAKE finds no SLEEP left, and only the last release raises SLEEP.
LEMMA WakeUpStep ==
  TypeOK /\ RefCountsHolders /\ WakeUpNotLost /\ [Next]_vars => WakeUpNotLost'
<1> SUFFICES ASSUME TypeOK, RefCountsHolders, WakeUpNotLost, [Next]_vars
             PROVE  WakeUpNotLost'
  OBVIOUS
<1> USE DEF WakeUpNotLost, OnPath
<1>1. CASE tick
  BY <1>1 DEF tick, TypeOK, TICK, SLEEP, WAKE
<1>2. ASSUME NEW s \in Sensors, Thread(s) PROVE WakeUpNotLost'
  <2> USE DEF TypeOK, Goto, WaitOne, Events, TrigAll, TICK, SLEEP, WAKE
  <2>1. CASE Boot(s)
    BY <2>1 DEF Boot
  <2>2. CASE Discard(s)
    BY <2>2 DEF Discard
  <2>3. CASE Awake(s)
    BY <2>3 DEF Awake
  <2>4. CASE Activated(s)
    BY <2>4 DEF Activated
  <2>5. CASE TakeTick(s)
    BY <2>5 DEF TakeTick
  <2>6. CASE TakeSleep(s)
    BY <2>6 DEF TakeSleep
  <2>7. CASE TakeWake(s)
    BY <2>7 DEF TakeWake
  <2>8. CASE ReadDone(s)
    BY <2>8 DEF ReadDone
  <2>9. CASE StandbyDone(s)
    BY <2>9 DEF StandbyDone
  <2>10. QED
    BY <1>2, <2>1, <2>2, <2>3, <2>4, <2>5, <2>6, <2>7, <2>8, <2>9 DEF Thread
<1>3. ASSUME NEW c \in Clients, NEW mask \in SUBSET Sensors,
             require_sources(c, mask)
      PROVE  WakeUpNotLost'
  BY <1>3 DEF require_sources, Inc, Signal, TypeOK, SLEEP, WAKE
<1>4. ASSUME NEW c \in Clients, NEW mask \in SUBSET Sensors,
             norequire_sources(c, mask)
      PROVE  WakeUpNotLost'
  <2>1. \A s \in mask : ref[s] # 0
    BY <1>4, HeldIsPositive DEF norequire_sources, Holders
  <2>2. QED
    BY <1>4, <2>1 DEF norequire_sources, Dec, Down, Signal, TypeOK, SLEEP, WAKE
<1>5. CASE UNCHANGED vars
  BY <1>5 DEF vars
<1>6. QED
  BY <1>1, <1>2, <1>3, <1>4, <1>5 DEF Next

-----------------------------------------------------------------------------

\* The invariant holds initially and is preserved.
LEMMA InvariantInit == Init => IInv
<1> SUFFICES ASSUME Init PROVE IInv
  OBVIOUS
<1>1. TypeOK
  BY ClientAssumption, FS_CardinalityType
     DEF Init, TypeOK, Places, Events
<1>2. RefCountsHolders
  <2>1. \A s \in Sensors : Holders(s) = {}
    BY DEF Init, Holders
  <2>2. QED
    BY <2>1, FS_EmptySet DEF Init, RefCountsHolders
<1>3. WakeUpNotLost /\ ReadsOnlyEnabled
  BY DEF Init, WakeUpNotLost, ReadsOnlyEnabled
<1>4. QED
  BY <1>1, <1>2, <1>3 DEF IInv

THEOREM Invariance == Spec => []IInv
<1>1. IInv /\ [Next]_vars => IInv'
  BY TypeStep, RefStep, WakeUpStep, EnabledStep DEF IInv
<1>2. QED
  BY InvariantInit, <1>1, PTL DEF Spec, Safety

\* The counters, the events pending at each thread, and the flags are typed.
THEOREM TypeCorrect == Spec => []TypeOK
BY Invariance, PTL DEF IInv

\* The reference counts are the numbers of clients that hold each sensor.
THEOREM Counted == Spec => []RefCountsHolders
BY Invariance, PTL DEF IInv

\* No wake-up is lost, in whatever order triggers are raised and taken.
THEOREM WakeUp == Spec => []WakeUpNotLost
BY Invariance, PTL DEF IInv

\* A thread that has settled while its sensor is required is sampling.
THEOREM Sampling == Spec => []RequiredIsSampling
<1>1. IInv => RequiredIsSampling
  BY HeldIsPositive DEF IInv, RequiredIsSampling, WakeUpNotLost, ReadsOnlyEnabled,
     Quiet, OnPath, TrigAll
<1>2. QED
  BY <1>1, Invariance, PTL

\* A sensor is only switched off when it was released, or with the wake-up of
\* the client that requires it again pending.
THEOREM Off == Spec => OffOnlyIfReleased
<1>1. IInv /\ IInv' /\ [Next]_vars =>
        [\A s \in Sensors :
           enabled[s] /\ ~enabled'[s] => Holders(s) = {} \/ WAKE \in pending'[s]]_vars
  <2> SUFFICES ASSUME IInv, [Next]_vars, NEW s \in Sensors,
                      enabled[s], ~enabled'[s], Holders(s) # {}
               PROVE  WAKE \in pending'[s]
    OBVIOUS
  <2>1. ref[s] > 0
    BY HeldIsPositive DEF IInv
  <2>2. StandbyDone(s)
    <3>1. PICK t \in Sensors : Thread(t)
      BY DEF Next, tick, require_sources, norequire_sources, vars
    <3>2. StandbyDone(t)
      BY <3>1 DEF Thread, Boot, Discard, Awake, Activated, TakeTick, TakeSleep,
           TakeWake, ReadDone, IInv, TypeOK
    <3>3. t = s
      BY <3>2 DEF StandbyDone, IInv, TypeOK
    <3>4. QED
      BY <3>2, <3>3
  <2>3. WAKE \in pending[s]
    BY <2>1, <2>2 DEF IInv, WakeUpNotLost, OnPath, StandbyDone, Goto
  <2>4. QED
    BY <2>2, <2>3 DEF StandbyDone, Goto, IInv, TypeOK
<1>2. QED
  BY <1>1, Invariance, PTL DEF Spec, Safety, OffOnlyIfReleased

-----------------------------------------------------------------------------
(* Sensors that nobody requires.                                           *)

\* A step of a sensor's thread makes it stray only by taking SLEEP before WAKE.
LEMMA ThreadStrays ==
  ASSUME IInv, NEW s \in Sensors, NEW t \in Sensors, Thread(t), ~Stray(s), Stray(s)'
  PROVE  TrigAll \subseteq pending[s] /\ SLEEP \notin pending'[s]
<1> USE DEF IInv, TypeOK, Goto, WaitOne, Stray, OnPath, Events, TrigAll, TICK, SLEEP, WAKE
<1>1. CASE Boot(t)
  BY <1>1 DEF Boot
<1>2. CASE Discard(t)
  BY <1>2 DEF Discard
<1>3. CASE Awake(t)
  BY <1>3 DEF Awake
<1>4. CASE Activated(t)
  BY <1>4 DEF Activated
<1>5. CASE TakeTick(t)
  BY <1>5 DEF TakeTick
<1>6. CASE TakeSleep(t)
  BY <1>6 DEF TakeSleep
<1>7. CASE TakeWake(t)
  BY <1>7 DEF TakeWake
<1>8. CASE ReadDone(t)
  BY <1>8 DEF ReadDone
<1>9. CASE StandbyDone(t)
  BY <1>9 DEF StandbyDone
<1> QED
  BY <1>1, <1>2, <1>3, <1>4, <1>5, <1>6, <1>7, <1>8, <1>9 DEF Thread

\* No tick, request or release makes a sensor stray: the last release raises SLEEP.
LEMMA OthersDoNotStray ==
  ASSUME IInv, IInv', NEW s \in Sensors, ~Stray(s), [Next]_vars,
         \A t \in Sensors : ~Thread(t)
  PROVE  ~Stray(s)'
<1> USE DEF IInv, TypeOK
<1>1. CASE tick
  BY <1>1 DEF tick, Stray, OnPath, TICK, SLEEP, WAKE
<1>2. ASSUME NEW c \in Clients, NEW mask \in SUBSET Sensors, require_sources(c, mask)
      PROVE  ~Stray(s)'
  <2>1. CASE s \in mask
    <3>1. c \in Holders(s)'
      BY <1>2, <2>1 DEF require_sources, Holders
    <3>2. ref'[s] = Cardinality(Holders(s)') /\ IsFiniteSet(Holders(s)')
      <4>1. Holders(s)' \subseteq Clients
        BY DEF Holders
      <4> QED
        BY <4>1, ClientAssumption, FS_Subset DEF RefCountsHolders
    <3>3. ref'[s] # 0
      BY <3>1, <3>2, FS_EmptySet
    <3> QED
      BY <3>3 DEF Stray
  <2>2. CASE s \notin mask
    BY <1>2, <2>2 DEF require_sources, Inc, Signal, Stray, OnPath
  <2> QED
    BY <2>1, <2>2
<1>3. ASSUME NEW c \in Clients, NEW mask \in SUBSET Sensors, norequire_sources(c, mask)
      PROVE  ~Stray(s)'
  <2>1. CASE s \in mask
    BY <1>3, <2>1 DEF norequire_sources, Signal, Stray
  <2>2. CASE s \notin mask
    BY <1>3, <2>2 DEF norequire_sources, Dec, Signal, Stray, OnPath
  <2> QED
    BY <2>1, <2>2
<1>4. CASE UNCHANGED vars
  BY <1>4 DEF vars, Stray, OnPath
<1> QED
  BY <1>1, <1>2, <1>3, <1>4 DEF Next

\* A sensor that nobody requires comes to be sampling only because its thread has taken
\* SLEEP while WAKE was pending.
THEOREM Strays == Spec => StraysByLostOrder
<1>1. IInv /\ IInv' /\ [Next]_vars =>
        [\A s \in Sensors :
           ~Stray(s) /\ Stray(s)' => TrigAll \subseteq pending[s] /\ SLEEP \notin pending'[s]]_vars
  BY ThreadStrays, OthersDoNotStray
<1>2. QED
  BY <1>1, Invariance, PTL DEF Spec, Safety, StraysByLostOrder

\* So where DisabledIfNoOthers fails, a sensor that has settled switched on with a count
\* of zero, it is for a SLEEP that was taken before an older WAKE.
THEOREM SettledOn ==
  Spec => [](\A s \in Sensors : Quiet(s) /\ ref[s] = 0 /\ enabled[s] => Stray(s))
<1>1. IInv => \A s \in Sensors : Quiet(s) /\ ref[s] = 0 /\ enabled[s] => Stray(s)
  BY DEF IInv, ReadsOnlyEnabled, Quiet, Stray, OnPath, TrigAll
<1>2. QED
  BY <1>1, Invariance, PTL

=============================================================================
