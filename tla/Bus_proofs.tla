----------------------------- MODULE Bus_proofs -----------------------------
(***************************************************************************)
(* The safety of the buses and of the clock manager, for every set of      *)
(* threads and buses and every assignment of the one to the other.         *)
(***************************************************************************)
EXTENDS Bus, FiniteSetTheorems, TLAPS

\* A thread that is past its lock and not yet past its unlock owns its bus, and
\* only such a thread does.
OwnersHoldLocks ==
  /\ \A t \in Threads : pc[t] \notin {"idle", "queued"} <=> owner[BusOf[t]] = t
  /\ \A b \in Buses : owner[b] # None => BusOf[owner[b]] = b

\* The threads that have initialised b.
UpOn(b) == {t \in up : BusOf[t] = b}

\* refcnt counts the threads that have initialised its bus, and only a thread of
\* an I2C that has done so ever clears it.
InitCounted ==
  /\ \A b \in I2Cs : refcnt[b] = Cardinality(UpOn(b))
  /\ \A t \in Threads : pc[t] = "clearing" => IsI2C(t)

\* Nobody is using the driver of b, although a thread may own b.
Unused(b) == owner[b] = None \/ pc[owner[b]] \in {"granted", "release"}

\* A driver that nobody uses is as the next transfer wants it.
DriversReady == \A b \in Buses :
  Unused(b) => IF b \in I2Cs THEN refcnt[b] > 0 => driver[b] = "ready"
                             ELSE driver[b] = "stop"

\* The processor stops only with deep sleep allowed, and stays as it was.
StopsAllowed == cpu = "stop" => sleepdeep

\* The inductive invariant.
IInv ==
  /\ TypeOK /\ CountsRequests /\ StopsAllowed /\ ClockRuns
  /\ OwnersHoldLocks /\ InitCounted /\ DriversReady

-----------------------------------------------------------------------------
(* The clock tree.                                                         *)

\* A clock tree that drives the processor.
Sound(r) ==
  /\ r.sws \in Running(r)
  /\ "PLL" \in r.on => r.src \in r.on

\* The clocks that are not made from another one.
Oscillators == {"HSI", "HSE"}

\* Switching an oscillator on, which waits for it, makes it a clock to run on.
LEMMA OnSound ==
  ASSUME NEW r \in ClockTrees, Sound(r), NEW c \in Oscillators
  PROVE  /\ On(r, c) \in ClockTrees /\ Sound(On(r, c))
         /\ c \in Running(On(r, c))
         /\ On(r, c).on = r.on \union {c}
BY DEF On, Sound, Running, ClockTrees, Clocks, Oscillators

\* An oscillator that drives neither the processor nor the PLL may be switched off.
LEMMA OffSound ==
  ASSUME NEW r \in ClockTrees, Sound(r), NEW c \in Oscillators,
         r.sws # c, r.src # c
  PROVE  Off(r, c) \in ClockTrees /\ Sound(Off(r, c))
BY DEF Off, Sound, Running, ClockTrees, Clocks, Oscillators

\* A selection takes effect when the selected clock runs.
LEMMA SelectSound ==
  ASSUME NEW r \in ClockTrees, Sound(r), NEW c \in Clocks
  PROVE  /\ Select(r, c) \in ClockTrees /\ Sound(Select(r, c))
         /\ Select(r, c).on = r.on /\ Select(r, c).src = r.src
         /\ Select(r, c).sws = IF c \in Running(r) THEN c ELSE r.sws
BY DEF Select, Sound, Running, ClockTrees, Clocks

\* The PLL may be configured again when the processor is off it and its new
\* source runs.
LEMMA StartPLLSound ==
  ASSUME NEW r \in ClockTrees, Sound(r), NEW c \in Oscillators,
         r.sws # "PLL", c \in r.on
  PROVE  /\ StartPLL(r, c) \in ClockTrees /\ Sound(StartPLL(r, c))
         /\ StartPLL(r, c).src = c /\ StartPLL(r, c).sws = r.sws
         /\ "PLL" \notin Running(StartPLL(r, c))
         /\ r.on \subseteq StartPLL(r, c).on
BY DEF StartPLL, Sound, Running, ClockTrees, Clocks, Oscillators

\* The changes to the crystal and back, and the tick's repair, lead from sound
\* trees to sound trees.
LEMMA ToHSESound ==
  ASSUME NEW r \in ClockTrees, Sound(r)
  PROVE  ToHSE(r) \in ClockTrees /\ Sound(ToHSE(r))
<1> DEFINE r1 == On(r, "HSE")
           r2 == Select(r1, "HSE")
           r3 == StartPLL(r2, "HSE")
           r4 == Select(r3, "PLL")
<1>1. r1 \in ClockTrees /\ Sound(r1) /\ "HSE" \in Running(r1) /\ "HSE" \in r1.on
  BY OnSound DEF Oscillators
<1>2. r2 \in ClockTrees /\ Sound(r2) /\ r2.sws = "HSE" /\ "HSE" \in r2.on
  <2> HIDE DEF r1
  <2>1. QED
    BY <1>1, SelectSound DEF Clocks
<1>3. /\ r3 \in ClockTrees /\ Sound(r3) /\ r3.sws = "HSE" /\ r3.src = "HSE"
      /\ "PLL" \notin Running(r3)
  <2> HIDE DEF r2
  <2>1. QED
    BY <1>2, StartPLLSound DEF Oscillators
<1>4. r4 \in ClockTrees /\ Sound(r4) /\ r4.sws = "HSE" /\ r4.src = "HSE"
  <2> HIDE DEF r3
  <2>1. QED
    BY <1>3, SelectSound DEF Clocks
<1>5. ToHSE(r) = Off(r4, "HSI")
  BY DEF ToHSE
<1>6. QED
  <2> HIDE DEF r4
  <2>1. QED
    BY <1>4, <1>5, OffSound DEF Oscillators

\* clk_mgr_noreq_hse goes back to the HSI before it stops the crystal.
LEMMA ToHSISound ==
  ASSUME NEW r \in ClockTrees, Sound(r)
  PROVE  ToHSI(r) \in ClockTrees /\ Sound(ToHSI(r))
<1> DEFINE r1 == On(r, "HSI")
           r2 == Select(r1, "HSI")
           r3 == StartPLL(r2, "HSI")
           r4 == Select(r3, "HSI")
<1>1. r1 \in ClockTrees /\ Sound(r1) /\ "HSI" \in Running(r1) /\ "HSI" \in r1.on
  BY OnSound DEF Oscillators
<1>2. r2 \in ClockTrees /\ Sound(r2) /\ r2.sws = "HSI" /\ "HSI" \in r2.on
  <2> HIDE DEF r1
  <2>1. QED
    BY <1>1, SelectSound DEF Clocks
<1>3. r3 \in ClockTrees /\ Sound(r3) /\ r3.sws = "HSI" /\ r3.src = "HSI"
  <2> HIDE DEF r2
  <2>1. QED
    BY <1>2, StartPLLSound DEF Oscillators
<1>4. r4 \in ClockTrees /\ Sound(r4) /\ r4.sws = "HSI" /\ r4.src = "HSI"
  <2> HIDE DEF r3
  <2>1. QED
    BY <1>3, SelectSound DEF Clocks
<1>5. ToHSI(r) = Off(r4, "HSE")
  BY DEF ToHSI
<1>6. QED
  <2> HIDE DEF r4
  <2>1. QED
    BY <1>4, <1>5, OffSound DEF Oscillators

\* The tick finds the processor on the PLL or on the HSI.
LEMMA WakeupSound ==
  ASSUME NEW r \in ClockTrees, Sound(r), ~WakeupHangs(r)
  PROVE  Wakeup(r) \in ClockTrees /\ Sound(Wakeup(r))
<1>1. CASE r.sws = "PLL"
  BY <1>1 DEF Wakeup
<1>2. CASE r.sws # "PLL"
  <2>1. r.sws = "HSI" /\ "HSI" \in r.on
    BY <1>2 DEF WakeupHangs, Sound, Running, ClockTrees, Clocks
  <2>2. StartPLL(r, "HSI") \in ClockTrees /\ Sound(StartPLL(r, "HSI"))
    BY <2>1, StartPLLSound DEF Oscillators
  <2>3. QED
    BY <1>2, <2>2, SelectSound DEF Wakeup, Clocks
<1>3. QED
  BY <1>1, <1>2

\* Stop mode, the restart on the HSI, and a PLL that locks.
LEMMA StopSound ==
  ASSUME NEW r \in ClockTrees
  PROVE  /\ Stopped(r) \in ClockTrees
         /\ Restarted(r) \in ClockTrees /\ Sound(Restarted(r))
         /\ Sound(r) /\ "PLL" \in r.on => Locked(r) \in ClockTrees /\ Sound(Locked(r))
BY DEF Stopped, Restarted, Locked, Sound, Running, ClockTrees, Clocks

-----------------------------------------------------------------------------
(* Types.                                                                  *)

\* The initialisations of an I2C are finitely many.
LEMMA UpOnCounted ==
  ASSUME TypeOK, InitCounted, NEW b \in I2Cs
  PROVE  /\ IsFiniteSet(UpOn(b))
         /\ refcnt[b] = Cardinality(UpOn(b))
         /\ refcnt[b] \in Nat
<1>1. UpOn(b) \subseteq Threads
  BY DEF UpOn, TypeOK
<1>2. IsFiniteSet(UpOn(b))
  BY <1>1, ThreadAssumption, FS_Subset
<1>3. QED
  BY <1>2, FS_CardinalityType DEF InitCounted

\* A thread calls init() once, so the count of initialisations goes up by one,
\* and not above the number of threads.
LEMMA InitCounts ==
  ASSUME TypeOK, InitCounted, NEW t \in Threads, init(t)
  PROVE  /\ \A b \in I2Cs : refcnt'[b] = Cardinality(UpOn(b)')
         /\ refcnt' \in [I2Cs -> 0 .. Cardinality(Threads)]
<1>1. t \notin up /\ BusOf[t] \in I2Cs
  BY DEF init, Initialising, IsI2C
<1>2. ASSUME NEW b \in I2Cs
      PROVE  /\ refcnt'[b] = Cardinality(UpOn(b)')
             /\ refcnt'[b] \in 0 .. Cardinality(Threads)
  <2>1. UpOn(b)' = IF b = BusOf[t] THEN UpOn(b) \union {t} ELSE UpOn(b)
    BY DEF init, UpOn
  <2>2. refcnt'[b] = IF b = BusOf[t] THEN refcnt[b] + 1 ELSE refcnt[b]
    BY DEF init, TypeOK
  <2>3. t \notin UpOn(b)
    BY <1>1 DEF UpOn
  <2>4. refcnt'[b] = Cardinality(UpOn(b)')
    <3>1. CASE b = BusOf[t]
      <4>1. Cardinality(UpOn(b) \union {t}) = Cardinality(UpOn(b)) + 1
        BY <2>3, UpOnCounted, FS_AddElement
      <4>2. QED
        BY <2>1, <2>2, <3>1, <4>1, UpOnCounted
    <3>2. CASE b # BusOf[t]
      BY <2>1, <2>2, <3>2, UpOnCounted
    <3>3. QED
      BY <3>1, <3>2
  <2>5. UpOn(b)' \subseteq Threads
    BY DEF UpOn, init, TypeOK
  <2>6. /\ Cardinality(UpOn(b)') <= Cardinality(Threads)
        /\ Cardinality(Threads) \in Nat
    BY <2>5, ThreadAssumption, FS_Subset, FS_CardinalityType
  <2>7. refcnt'[b] \in Nat
    BY <2>2, UpOnCounted
  <2>8. QED
    BY <2>4, <2>6, <2>7
<1>3. DOMAIN refcnt' = I2Cs /\ refcnt' = [b \in I2Cs |-> refcnt'[b]]
  BY DEF init, TypeOK
<1>4. QED
  BY <1>2, <1>3

\* The requests and releases keep the counters natural and the tree sound.
LEMMA RequestsTyped ==
  ASSUME hsi_sem \in Nat, hse_sem \in Nat, sleepdeep \in BOOLEAN,
         rcc \in ClockTrees, Sound(rcc),
         \/ clk_mgr_req_hsi \/ clk_mgr_noreq_hsi
         \/ clk_mgr_req_hse \/ clk_mgr_noreq_hse
  PROVE  /\ hsi_sem' \in Nat /\ hse_sem' \in Nat /\ sleepdeep' \in BOOLEAN
         /\ rcc' \in ClockTrees /\ Sound(rcc')
<1>1. hsi_sem' \in Nat /\ hse_sem' \in Nat
  BY DEF clk_mgr_req_hsi, clk_mgr_noreq_hsi, clk_mgr_req_hse, clk_mgr_noreq_hse
<1>2. sleepdeep' \in BOOLEAN
  BY DEF clk_mgr_req_hsi, clk_mgr_noreq_hsi, clk_mgr_req_hse, clk_mgr_noreq_hse
<1>3. rcc' \in {rcc, ToHSE(rcc), ToHSI(rcc)}
  BY DEF clk_mgr_req_hsi, clk_mgr_noreq_hsi, clk_mgr_req_hse, clk_mgr_noreq_hse
<1>4. rcc' \in ClockTrees /\ Sound(rcc')
  BY <1>3, ToHSESound, ToHSISound
<1>5. QED
  BY <1>1, <1>2, <1>4

\* While the processor runs its clock tree is sound.
LEMMA RunsSound == ClockRuns /\ cpu # "stop" => Sound(rcc)
BY DEF ClockRuns, Sound

\* Every step keeps the types, and the processor clocked while it runs.
LEMMA TypeStep ==
  ASSUME TypeOK, ClockRuns, InitCounted, [Next]_vars
  PROVE  TypeOK' /\ ClockRuns'
<1>1. ASSUME NEW t \in Threads,
             lock(t) \/ unlock(t) \/ Complete(t)
      PROVE  TypeOK' /\ ClockRuns'
  BY <1>1, BusAssumption
     DEF lock, unlock, Complete, Goto, TypeOK, ClockRuns, Places, Blocked, requests, clocks
<1>2. ASSUME NEW t \in Threads, init(t)
      PROVE  TypeOK' /\ ClockRuns'
  <2>1. refcnt' \in [I2Cs -> 0 .. Cardinality(Threads)]
    BY <1>2, InitCounts
  <2>2. QED
    BY <1>2, <2>1 DEF init, Goto, TypeOK, ClockRuns, Places, Blocked, requests, clocks
<1>3. ASSUME NEW t \in Threads,
             transfer(t) \/ finish(t) \/ i2cStart(t) \/ Keep(t) \/ Session(t)
      PROVE  TypeOK' /\ ClockRuns'
  <2>1. cpu = "run" /\ cpu' = cpu
    BY <1>3 DEF transfer, finish, i2cStart, Keep, Session, Goto
  <2>2. /\ hsi_sem' \in Nat /\ hse_sem' \in Nat /\ sleepdeep' \in BOOLEAN
        /\ rcc' \in ClockTrees /\ Sound(rcc')
    <3>1. \/ clk_mgr_req_hsi \/ clk_mgr_noreq_hsi
          \/ clk_mgr_req_hse \/ clk_mgr_noreq_hse
      BY <1>3 DEF transfer, finish, i2cStart, Keep, Session
    <3>2. QED
      BY <2>1, <3>1, RequestsTyped, RunsSound DEF TypeOK
  <2>3. /\ pc' \in [Threads -> Places]
        /\ driver' \in [Buses -> {"stop", "ready", "active", "locked"}]
        /\ keep' \subseteq Keepers /\ sessions' \subseteq Terminals
        /\ UNCHANGED <<owner, refcnt, up>>
    BY <1>3 DEF transfer, finish, i2cStart, Keep, Session, Goto, TypeOK, Places, Blocked,
         requests
  <2>4. QED
    BY <2>1, <2>2, <2>3 DEF TypeOK, ClockRuns, Sound
<1>4. CASE WaitForInterrupt
  BY <1>4, StopSound DEF WaitForInterrupt, TypeOK, ClockRuns, busVars, requests
<1>5. CASE Interrupt \/ tick
  <2>1. /\ UNCHANGED <<busVars, requests, hsi_sem, hse_sem, sleepdeep>>
        /\ cpu' \in {"run", "hung"}
    BY <1>5 DEF Interrupt, tick
  <2>2. Taken \in ClockTrees /\ Sound(Taken)
    BY StopSound, RunsSound DEF Taken, TypeOK
  <2>3. rcc' = Taken \/ (~WakeupHangs(Taken) /\ rcc' = Wakeup(Taken))
    BY <1>5 DEF Interrupt, tick
  <2>4. rcc' \in ClockTrees /\ Sound(rcc')
    BY <2>2, <2>3, WakeupSound
  <2>5. QED
    BY <2>1, <2>4 DEF TypeOK, ClockRuns, Sound, busVars, requests
<1>6. CASE PLLLocks
  <2>1. rcc' \in ClockTrees /\ Sound(rcc')
    BY <1>6, StopSound, RunsSound DEF PLLLocks, TypeOK
  <2>2. QED
    BY <1>6, <2>1 DEF PLLLocks, TypeOK, ClockRuns, Sound, busVars, requests
<1>7. CASE UNCHANGED vars
  BY <1>7 DEF vars, TypeOK, ClockRuns, clocks
<1>8. QED
  BY <1>1, <1>2, <1>3, <1>4, <1>5, <1>6, <1>7 DEF Next, Thread

-----------------------------------------------------------------------------
(* The counters.                                                           *)

\* Those who have asked for a clock are finitely many.
LEMMA AskersFinite ==
  ASSUME TypeOK
  PROVE  /\ IsFiniteSet(Asking) /\ Cardinality(Asking) \in Nat
         /\ IsFiniteSet(keep) /\ Cardinality(keep) \in Nat
         /\ IsFiniteSet(sessions) /\ Cardinality(sessions) \in Nat
<1>1. Asking \subseteq Threads /\ keep \subseteq Threads /\ sessions \subseteq Threads
  BY ThreadAssumption DEF Asking, TypeOK
<1>2. IsFiniteSet(Asking) /\ IsFiniteSet(keep) /\ IsFiniteSet(sessions)
  BY <1>1, ThreadAssumption, FS_Subset
<1>3. QED
  BY <1>2, FS_CardinalityType

\* A newcomer to a finite set makes it larger by one.
LEMMA OneMore ==
  ASSUME NEW S, IsFiniteSet(S), NEW x, x \notin S
  PROVE  Cardinality(S \union {x}) = Cardinality(S) + 1
BY FS_AddElement

\* Conversely for a member that leaves.
LEMMA OneLess ==
  ASSUME NEW S, IsFiniteSet(S), NEW x, x \in S
  PROVE  Cardinality(S \ {x}) = Cardinality(S) - 1 /\ Cardinality(S) # 0
BY FS_RemoveElement, FS_EmptySet

\* Deep sleep is allowed when both counters are zero.
SleepMatches == sleepdeep <=> (hsi_sem = 0 /\ hse_sem = 0)

\* What each request and release does to the counters when SLEEPDEEP matches them.
LEMMA RequestsCount ==
  ASSUME hsi_sem \in Nat, hse_sem \in Nat, sleepdeep \in BOOLEAN, SleepMatches
  PROVE  /\ clk_mgr_req_hsi => hsi_sem' = hsi_sem + 1 /\ hse_sem' = hse_sem
         /\ clk_mgr_noreq_hsi /\ hsi_sem # 0 =>
              hsi_sem' = hsi_sem - 1 /\ hse_sem' = hse_sem
         /\ clk_mgr_req_hse => hse_sem' = hse_sem + 1 /\ hsi_sem' = hsi_sem
         /\ clk_mgr_noreq_hse /\ hse_sem # 0 =>
              hse_sem' = hse_sem - 1 /\ hsi_sem' = hsi_sem
         /\ clk_mgr_req_hsi \/ clk_mgr_noreq_hsi \/ clk_mgr_req_hse \/ clk_mgr_noreq_hse
              => SleepMatches'
<1>1. clk_mgr_req_hsi => hsi_sem' = hsi_sem + 1 /\ hse_sem' = hse_sem
  BY DEF clk_mgr_req_hsi
<1>2. clk_mgr_noreq_hsi /\ hsi_sem # 0 => hsi_sem' = hsi_sem - 1 /\ hse_sem' = hse_sem
  BY DEF clk_mgr_noreq_hsi
<1>3. clk_mgr_req_hse => hse_sem' = hse_sem + 1 /\ hsi_sem' = hsi_sem
  BY DEF clk_mgr_req_hse
<1>4. clk_mgr_noreq_hse /\ hse_sem # 0 => hse_sem' = hse_sem - 1 /\ hsi_sem' = hsi_sem
  BY DEF clk_mgr_noreq_hse
<1>5. clk_mgr_req_hsi => SleepMatches'
  <2> SUFFICES ASSUME clk_mgr_req_hsi PROVE SleepMatches'
    OBVIOUS
  <2>1. hsi_sem' # 0
    BY <1>1
  <2>2. QED
    BY <2>1 DEF clk_mgr_req_hsi, SleepMatches
<1>6. clk_mgr_req_hse => SleepMatches'
  <2> SUFFICES ASSUME clk_mgr_req_hse PROVE SleepMatches'
    OBVIOUS
  <2>1. hse_sem' # 0
    BY <1>3
  <2>2. QED
    BY <2>1 DEF clk_mgr_req_hse, SleepMatches
<1>7. clk_mgr_noreq_hsi => SleepMatches'
  <2> SUFFICES ASSUME clk_mgr_noreq_hsi PROVE SleepMatches'
    OBVIOUS
  <2>1. CASE hsi_sem = 0
    <3>1. ~(hsi_sem > 0)
      BY <2>1
    <3>2. QED
      BY <3>1 DEF clk_mgr_noreq_hsi, SleepMatches
  <2>2. CASE hsi_sem # 0
    <3>1. hsi_sem > 0 /\ (hsi_sem' = 0 <=> hsi_sem = 1)
      BY <1>2, <2>2
    <3>2. sleepdeep' = (sleepdeep \/ (hsi_sem = 1 /\ hse_sem = 0)) /\ hse_sem' = hse_sem
      BY <3>1 DEF clk_mgr_noreq_hsi
    <3>3. QED
      BY <2>2, <3>1, <3>2, Zenon DEF SleepMatches
  <2>3. QED
    BY <2>1, <2>2
<1>8. clk_mgr_noreq_hse => SleepMatches'
  <2> SUFFICES ASSUME clk_mgr_noreq_hse PROVE SleepMatches'
    OBVIOUS
  <2>1. CASE hse_sem = 0
    <3>1. ~(hse_sem > 0)
      BY <2>1
    <3>2. QED
      BY <3>1 DEF clk_mgr_noreq_hse, SleepMatches
  <2>2. CASE hse_sem # 0
    <3>1. hse_sem > 0 /\ (hse_sem' = 0 <=> hse_sem = 1)
      BY <1>4, <2>2
    <3>2. sleepdeep' = (sleepdeep \/ (hse_sem = 1 /\ hsi_sem = 0)) /\ hsi_sem' = hsi_sem
      BY <3>1 DEF clk_mgr_noreq_hse
    <3>3. QED
      BY <2>2, <3>1, <3>2, Zenon DEF SleepMatches
  <2>3. QED
    BY <2>1, <2>2
<1>9. QED
  BY <1>1, <1>2, <1>3, <1>4, <1>5, <1>6, <1>7, <1>8

\* Each request is made by a thread that then counts, and each release by one that
\* has counted.
LEMMA CountsStep ==
  ASSUME TypeOK, CountsRequests, [Next]_vars
  PROVE  CountsRequests'
<1>0. /\ hsi_sem = Cardinality(Asking) + Cardinality(keep)
      /\ hse_sem = Cardinality(sessions)
      /\ SleepMatches
      /\ hsi_sem \in Nat /\ hse_sem \in Nat /\ sleepdeep \in BOOLEAN
  BY DEF CountsRequests, SleepMatches, TypeOK
<1> SUFFICES /\ hsi_sem' = Cardinality(Asking') + Cardinality(keep')
             /\ hse_sem' = Cardinality(sessions')
             /\ SleepMatches'
  BY DEF CountsRequests, SleepMatches
<1>1. ASSUME Asking' = Asking, UNCHANGED <<keep, sessions, hsi_sem, hse_sem, sleepdeep>>
      PROVE  /\ hsi_sem' = Cardinality(Asking') + Cardinality(keep')
             /\ hse_sem' = Cardinality(sessions')
             /\ SleepMatches'
  BY <1>0, <1>1 DEF SleepMatches
<1>2. ASSUME NEW t \in Threads, transfer(t) \/ i2cStart(t)
      PROVE  /\ hsi_sem' = Cardinality(Asking') + Cardinality(keep')
             /\ hse_sem' = Cardinality(sessions')
             /\ SleepMatches'
  <2>1. t \notin Asking /\ Asking' = Asking \union {t} /\ UNCHANGED <<keep, sessions>>
    BY <1>2 DEF transfer, i2cStart, Goto, Asking, TypeOK, requests
  <2>2. clk_mgr_req_hsi
    BY <1>2 DEF transfer, i2cStart
  <2>3. Cardinality(Asking') = Cardinality(Asking) + 1
    BY <2>1, AskersFinite, OneMore
  <2>4. hsi_sem' = hsi_sem + 1 /\ hse_sem' = hse_sem /\ SleepMatches'
    BY <1>0, <2>2, RequestsCount
  <2>5. QED
    BY <1>0, <2>1, <2>3, <2>4, AskersFinite
<1>3. ASSUME NEW t \in Threads, finish(t)
      PROVE  /\ hsi_sem' = Cardinality(Asking') + Cardinality(keep')
             /\ hse_sem' = Cardinality(sessions')
             /\ SleepMatches'
  <2>1. t \in Asking /\ Asking' = Asking \ {t} /\ UNCHANGED <<keep, sessions>>
    BY <1>3 DEF finish, Goto, Asking, TypeOK, requests
  <2>2. clk_mgr_noreq_hsi
    BY <1>3 DEF finish
  <2>3. Cardinality(Asking') = Cardinality(Asking) - 1 /\ Cardinality(Asking) # 0
    BY <2>1, AskersFinite, OneLess
  <2>4. hsi_sem # 0
    BY <1>0, <2>3, AskersFinite
  <2>5. hsi_sem' = hsi_sem - 1 /\ hse_sem' = hse_sem /\ SleepMatches'
    BY <1>0, <2>2, <2>4, RequestsCount
  <2>6. QED
    BY <1>0, <2>1, <2>3, <2>5, AskersFinite
<1>4. ASSUME NEW t \in Threads, Keep(t)
      PROVE  /\ hsi_sem' = Cardinality(Asking') + Cardinality(keep')
             /\ hse_sem' = Cardinality(sessions')
             /\ SleepMatches'
  <2>1. Asking' = Asking /\ UNCHANGED sessions
    BY <1>4 DEF Keep, Goto, Asking, TypeOK
  <2>2. CASE t \notin keep /\ keep' = keep \union {t} /\ clk_mgr_req_hsi
    <3>1. Cardinality(keep') = Cardinality(keep) + 1
      BY <2>2, AskersFinite, OneMore
    <3>2. hsi_sem' = hsi_sem + 1 /\ hse_sem' = hse_sem /\ SleepMatches'
      BY <1>0, <2>2, RequestsCount
    <3>3. QED
      BY <1>0, <2>1, <3>1, <3>2, AskersFinite
  <2>3. CASE t \in keep /\ keep' = keep \ {t} /\ clk_mgr_noreq_hsi
    <3>1. Cardinality(keep') = Cardinality(keep) - 1 /\ Cardinality(keep) # 0
      BY <2>3, AskersFinite, OneLess
    <3>2. hsi_sem # 0
      BY <1>0, <3>1, AskersFinite
    <3>3. hsi_sem' = hsi_sem - 1 /\ hse_sem' = hse_sem /\ SleepMatches'
      BY <1>0, <2>3, <3>2, RequestsCount
    <3>4. QED
      BY <1>0, <2>1, <3>1, <3>3, AskersFinite
  <2>4. QED
    BY <1>4, <2>2, <2>3 DEF Keep
<1>5. ASSUME NEW t \in Threads, Session(t)
      PROVE  /\ hsi_sem' = Cardinality(Asking') + Cardinality(keep')
             /\ hse_sem' = Cardinality(sessions')
             /\ SleepMatches'
  <2>1. Asking' = Asking /\ UNCHANGED keep
    BY <1>5 DEF Session, Goto, Asking, TypeOK
  <2>2. CASE t \notin sessions /\ sessions' = sessions \union {t} /\ clk_mgr_req_hse
    <3>1. Cardinality(sessions') = Cardinality(sessions) + 1
      BY <2>2, AskersFinite, OneMore
    <3>2. hse_sem' = hse_sem + 1 /\ hsi_sem' = hsi_sem /\ SleepMatches'
      BY <1>0, <2>2, RequestsCount
    <3>3. QED
      BY <1>0, <2>1, <3>1, <3>2
  <2>3. CASE t \in sessions /\ sessions' = sessions \ {t} /\ clk_mgr_noreq_hse
    <3>1. Cardinality(sessions') = Cardinality(sessions) - 1 /\ Cardinality(sessions) # 0
      BY <2>3, AskersFinite, OneLess
    <3>2. hse_sem' = hse_sem - 1 /\ hsi_sem' = hsi_sem /\ SleepMatches'
      BY <1>0, <2>3, <3>1, RequestsCount
    <3>3. QED
      BY <1>0, <2>1, <3>1, <3>2
  <2>4. QED
    BY <1>5, <2>2, <2>3 DEF Session
<1>6. ASSUME NEW t \in Threads, lock(t) \/ unlock(t) \/ Complete(t) \/ init(t)
      PROVE  Asking' = Asking /\ UNCHANGED <<keep, sessions, hsi_sem, hse_sem, sleepdeep>>
  BY <1>6 DEF lock, unlock, Complete, init, Goto, Asking, TypeOK, requests, clocks
<1>7. ASSUME WaitForInterrupt \/ Interrupt \/ tick \/ PLLLocks \/ UNCHANGED vars
      PROVE  Asking' = Asking /\ UNCHANGED <<keep, sessions, hsi_sem, hse_sem, sleepdeep>>
  BY <1>7 DEF WaitForInterrupt, Interrupt, tick, PLLLocks, vars, busVars, requests, Asking
<1>8. QED
  BY <1>1, <1>2, <1>3, <1>4, <1>5, <1>6, <1>7 DEF Next, Thread

-----------------------------------------------------------------------------
(* The locks and the drivers.                                              *)

\* The processor only stops in the idle thread.
LEMMA StopStep ==
  ASSUME StopsAllowed, [Next]_vars
  PROVE  StopsAllowed'
BY DEF StopsAllowed, Next, Thread, lock, unlock, transfer, Complete, finish, init, i2cStart,
     Keep, Session, Goto, WaitForInterrupt, Interrupt, tick, PLLLocks, vars

\* A bus is locked by a thread that goes on and handed over by one that is done.
LEMMA OwnersStep ==
  ASSUME TypeOK, OwnersHoldLocks, [Next]_vars
  PROVE  OwnersHoldLocks'
<1>1. ASSUME NEW t \in Threads, lock(t) PROVE OwnersHoldLocks'
  <2>1. pc[t] = "idle" /\ BusOf[t] \in Buses
    BY <1>1, BusAssumption DEF lock, Goto
  <2>2. CASE owner[BusOf[t]] = None
    <3>1. /\ pc' = [pc EXCEPT ![t] = "granted"]
          /\ owner' = [owner EXCEPT ![BusOf[t]] = t]
      BY <1>1, <2>2 DEF lock, Goto
    <3>2. QED
      BY <2>1, <2>2, <3>1, NoneAssumption DEF TypeOK, OwnersHoldLocks
  <2>3. CASE owner[BusOf[t]] # None
    <3>1. pc' = [pc EXCEPT ![t] = "queued"] /\ owner' = owner
      BY <1>1, <2>3 DEF lock, Goto
    <3>2. QED
      BY <2>1, <3>1 DEF TypeOK, OwnersHoldLocks
  <2>4. QED
    BY <2>2, <2>3
<1>2. ASSUME NEW t \in Threads, unlock(t) PROVE OwnersHoldLocks'
  <2>1. owner[BusOf[t]] = t /\ BusOf[t] \in Buses
    BY <1>2, BusAssumption DEF unlock, OwnersHoldLocks
  <2>2. CASE /\ pc' = [pc EXCEPT ![t] = "idle"]
             /\ owner' = [owner EXCEPT ![BusOf[t]] = None]
    BY <2>1, <2>2, NoneAssumption, BusAssumption DEF TypeOK, OwnersHoldLocks
  <2>3. ASSUME NEW u \in Threads, pc[u] = "queued", BusOf[u] = BusOf[t],
               pc' = [pc EXCEPT ![t] = "idle", ![u] = "granted"],
               owner' = [owner EXCEPT ![BusOf[t]] = u]
        PROVE  OwnersHoldLocks'
    <3>1. pc[t] = "release" /\ t # u
      BY <1>2, <2>3 DEF unlock
    <3>2. QED
      BY <2>1, <2>3, <3>1, NoneAssumption, BusAssumption DEF TypeOK, OwnersHoldLocks
  <2>4. QED
    BY <1>2, <2>2, <2>3 DEF unlock
<1>3. ASSUME NEW t \in Threads,
             \/ transfer(t) \/ Complete(t) \/ finish(t) \/ init(t) \/ i2cStart(t)
             \/ Keep(t) \/ Session(t)
      PROVE  OwnersHoldLocks'
  <2>1. owner' = owner /\ \E to \in Places : pc' = [pc EXCEPT ![t] = to]
    BY <1>3 DEF transfer, Complete, finish, init, i2cStart, Keep, Session, Goto, Places,
         Blocked
  <2>2. pc[t] \notin {"idle", "queued"} <=> pc'[t] \notin {"idle", "queued"}
    BY <1>3 DEF transfer, Complete, finish, init, i2cStart, Keep, Session, Goto, TypeOK
  <2>3. QED
    BY <2>1, <2>2 DEF OwnersHoldLocks, TypeOK
<1>4. ASSUME WaitForInterrupt \/ Interrupt \/ tick \/ PLLLocks \/ UNCHANGED vars
      PROVE  OwnersHoldLocks'
  BY <1>4 DEF WaitForInterrupt, Interrupt, tick, PLLLocks, vars, busVars, OwnersHoldLocks
<1>5. QED
  BY <1>1, <1>2, <1>3, <1>4 DEF Next, Thread

\* Only init() counts, and only an I2C is cleared.
LEMMA InitCountedStep ==
  ASSUME TypeOK, InitCounted, [Next]_vars
  PROVE  InitCounted'
<1>1. ASSUME NEW t \in Threads, init(t) PROVE InitCounted'
  <2>1. \A b \in I2Cs : refcnt'[b] = Cardinality(UpOn(b)')
    BY <1>1, InitCounts
  <2>2. \A u \in Threads : pc'[u] = "clearing" => IsI2C(u)
    BY <1>1 DEF init, Initialising, Goto, InitCounted, TypeOK
  <2>3. QED
    BY <2>1, <2>2 DEF InitCounted, IsI2C
<1>2. ASSUME UNCHANGED <<refcnt, up>>,
             \A u \in Threads : pc'[u] = "clearing" => pc[u] = "clearing"
      PROVE  InitCounted'
  BY <1>2 DEF InitCounted, UpOn, IsI2C
<1>3. ASSUME NEW t \in Threads,
             \/ lock(t) \/ unlock(t) \/ transfer(t) \/ Complete(t) \/ finish(t)
             \/ i2cStart(t) \/ Keep(t) \/ Session(t)
      PROVE  /\ UNCHANGED <<refcnt, up>>
             /\ \A u \in Threads : pc'[u] = "clearing" => pc[u] = "clearing"
  BY <1>3 DEF lock, unlock, transfer, Complete, finish, i2cStart, Keep, Session, Goto, TypeOK
<1>4. ASSUME WaitForInterrupt \/ Interrupt \/ tick \/ PLLLocks \/ UNCHANGED vars
      PROVE  UNCHANGED <<refcnt, up, pc>>
  BY <1>4 DEF WaitForInterrupt, Interrupt, tick, PLLLocks, vars, busVars
<1>5. QED
  BY <1>1, <1>2, <1>3, <1>4 DEF Next, Thread

\* The state in which an unused driver of b is to be.
Fit(b, d, n) == IF b \in I2Cs THEN n > 0 => d = "ready" ELSE d = "stop"

\* Whoever stops using a driver leaves it fit for the next transfer.
LEMMA DriversStep ==
  ASSUME TypeOK, OwnersHoldLocks, InitCounted, DriversReady, [Next]_vars
  PROVE  DriversReady'
<1> SUFFICES ASSUME NEW b \in Buses, Unused(b)'
             PROVE  Fit(b, driver'[b], refcnt'[b])
  BY DEF DriversReady, Fit
<1>0. Unused(b) => Fit(b, driver[b], refcnt[b])
  BY DEF DriversReady, Fit
<1>1. ASSUME NEW t \in Threads, lock(t) \/ unlock(t) PROVE Fit(b, driver'[b], refcnt'[b])
  <2>1. Unused(b)
    BY <1>1, NoneAssumption, BusAssumption
       DEF lock, unlock, Goto, Unused, TypeOK, OwnersHoldLocks
  <2>2. UNCHANGED <<driver, refcnt>>
    BY <1>1 DEF lock, unlock
  <2>3. QED
    BY <1>0, <2>1, <2>2
<1>2. ASSUME NEW t \in Threads,
             transfer(t) \/ Complete(t) \/ i2cStart(t)
      PROVE  Fit(b, driver'[b], refcnt'[b])
  <2>1. /\ owner' = owner /\ refcnt' = refcnt
        /\ owner[BusOf[t]] = t /\ pc'[t] \notin {"granted", "release"}
        /\ \A u \in Threads \ {t} : pc'[u] = pc[u]
        /\ \A c \in Buses \ {BusOf[t]} : driver'[c] = driver[c]
    BY <1>2 DEF transfer, Complete, i2cStart, Goto, TypeOK, OwnersHoldLocks
  <2>2. b # BusOf[t]
    BY <2>1, NoneAssumption DEF Unused
  <2>3. owner[b] # t
    BY <2>2, NoneAssumption DEF OwnersHoldLocks
  <2>4. Unused(b)
    BY <2>1, <2>3 DEF Unused, TypeOK
  <2>5. QED
    BY <1>0, <2>1, <2>2, <2>4
<1>3. ASSUME NEW t \in Threads, finish(t) PROVE Fit(b, driver'[b], refcnt'[b])
  <2>1. /\ owner' = owner /\ refcnt' = refcnt
        /\ driver' = [driver EXCEPT ![BusOf[t]] = IF IsI2C(t) THEN "ready" ELSE "stop"]
        /\ pc' = [pc EXCEPT ![t] = "release"]
    BY <1>3 DEF finish, Goto
  <2>2. CASE b = BusOf[t]
    BY <2>1, <2>2 DEF Fit, IsI2C, TypeOK
  <2>3. CASE b # BusOf[t]
    <3>1. owner[b] # t
      BY <2>3, NoneAssumption DEF OwnersHoldLocks
    <3>2. Unused(b)
      BY <2>1, <3>1 DEF Unused, TypeOK
    <3>3. QED
      BY <1>0, <2>1, <2>3, <3>2 DEF TypeOK
  <2>4. QED
    BY <2>2, <2>3
<1>4. ASSUME NEW t \in Threads, init(t) PROVE Fit(b, driver'[b], refcnt'[b])
  <2>1. /\ owner' = owner /\ driver' = driver
        /\ pc[t] = "granted" /\ owner[BusOf[t]] = t
        /\ refcnt' = [refcnt EXCEPT ![BusOf[t]] = @ + 1]
        /\ pc' = [pc EXCEPT ![t] = IF refcnt[BusOf[t]] = 0 THEN "clearing" ELSE "release"]
    BY <1>4 DEF init, Goto, OwnersHoldLocks
  <2>2. CASE b = BusOf[t]
    <3>1. Unused(b) /\ b \in I2Cs
      BY <1>4, <2>1, <2>2 DEF Unused, init, Initialising, IsI2C
    <3>2. refcnt[b] # 0
      BY <2>1, <2>2, NoneAssumption DEF Unused, TypeOK
    <3>3. refcnt[b] > 0
      BY <3>1, <3>2, UpOnCounted
    <3>4. QED
      BY <1>0, <2>1, <3>1, <3>3 DEF Fit
  <2>3. CASE b # BusOf[t]
    <3>1. owner[b] # t
      BY <2>3, NoneAssumption DEF OwnersHoldLocks
    <3>2. Unused(b)
      BY <2>1, <3>1 DEF Unused, TypeOK
    <3>3. b \in I2Cs => refcnt'[b] = refcnt[b]
      BY <2>1, <2>3 DEF TypeOK
    <3>4. QED
      BY <1>0, <2>1, <3>2, <3>3 DEF Fit
  <2>4. QED
    BY <2>2, <2>3
<1>5. ASSUME UNCHANGED <<pc, owner, driver, refcnt>>
      PROVE  Fit(b, driver'[b], refcnt'[b])
  BY <1>0, <1>5 DEF Unused
<1>6. ASSUME NEW t \in Threads, Keep(t) \/ Session(t)
      PROVE  UNCHANGED <<pc, owner, driver, refcnt>>
  BY <1>6 DEF Keep, Session, Goto, TypeOK
<1>7. ASSUME WaitForInterrupt \/ Interrupt \/ tick \/ PLLLocks \/ UNCHANGED vars
      PROVE  UNCHANGED <<pc, owner, driver, refcnt>>
  BY <1>7 DEF WaitForInterrupt, Interrupt, tick, PLLLocks, vars, busVars
<1>8. QED
  BY <1>1, <1>2, <1>3, <1>4, <1>5, <1>6, <1>7 DEF Next, Thread

-----------------------------------------------------------------------------
(* The theorems.                                                           *)

\* The invariant holds when main() has made its first request.
LEMMA InvariantInit == Init => IInv
<1> SUFFICES ASSUME Init PROVE IInv
  OBVIOUS
<1>1. /\ Asking = {} /\ Cardinality(Asking) = 0
      /\ Cardinality(keep) = 1 /\ Cardinality(sessions) = 0
  BY FS_EmptySet, FS_Singleton DEF Init, Asking
<1>2. TypeOK
  <2>1. Cardinality(Threads) \in Nat
    BY ThreadAssumption, FS_CardinalityType
  <2>2. rcc \in ClockTrees
    BY DEF Init, BootTrees, ClockTrees, Clocks
  <2>3. /\ pc \in [Threads -> Places]
        /\ owner \in [Buses -> Threads \union {None}]
        /\ driver \in [Buses -> {"stop", "ready", "active", "locked"}]
        /\ up \subseteq Threads /\ keep \subseteq Keepers /\ sessions \subseteq Terminals
        /\ cpu \in {"run", "sleep", "stop", "hung"}
    BY ThreadAssumption DEF Init, Places, Blocked
  <2>4. refcnt \in [I2Cs -> 0 .. Cardinality(Threads)]
    BY <2>1 DEF Init
  <2>5. hsi_sem \in Nat /\ hse_sem \in Nat
    BY DEF Init
  <2>6. sleepdeep \in BOOLEAN
    BY DEF Init
  <2>7. QED
    BY <2>2, <2>3, <2>4, <2>5, <2>6 DEF TypeOK
<1>3. CountsRequests
  BY <1>1 DEF Init, CountsRequests
<1>4. StopsAllowed /\ ClockRuns
  BY DEF Init, BootTrees, Clocks, StopsAllowed, ClockRuns, Running
<1>5. OwnersHoldLocks
  BY NoneAssumption, BusAssumption DEF Init, OwnersHoldLocks
<1>6. InitCounted
  <2>1. \A b \in I2Cs : UpOn(b) = {}
    BY DEF Init, UpOn
  <2>2. QED
    BY <2>1, FS_EmptySet DEF Init, InitCounted
<1>7. DriversReady
  BY DEF Init, DriversReady
<1>8. QED
  BY <1>2, <1>3, <1>4, <1>5, <1>6, <1>7 DEF IInv

\* The invariant holds in every reachable state.
THEOREM Invariance == Spec => []IInv
<1>1. IInv /\ [Next]_vars => IInv'
  BY TypeStep, CountsStep, StopStep, OwnersStep, InitCountedStep, DriversStep DEF IInv
<1>2. QED
  BY InvariantInit, <1>1, PTL DEF Spec

\* The places, owners, drivers and counters of the buses are typed; above all, no
\* I2C is initialised more often than it has threads.
THEOREM TypeCorrect == Spec => []TypeOK
BY Invariance, PTL DEF IInv

\* The clock manager counts the requests, and allows deep sleep when there is none.
THEOREM Counted == Spec => []CountsRequests
BY Invariance, PTL DEF IInv

\* The clocks are never switched off under a thread that has asked for one.
THEOREM NeverStopped == Spec => []NoStopInUse
<1>1. IInv => NoStopInUse
  <2> SUFFICES ASSUME IInv, cpu = "stop"
               PROVE  Asking = {} /\ keep = {} /\ sessions = {}
    BY DEF NoStopInUse
  <2>1. /\ Cardinality(Asking) + Cardinality(keep) = 0
        /\ Cardinality(sessions) = 0
    BY DEF IInv, StopsAllowed, CountsRequests
  <2>2. /\ IsFiniteSet(Asking) /\ Cardinality(Asking) \in Nat
        /\ IsFiniteSet(keep) /\ Cardinality(keep) \in Nat
        /\ IsFiniteSet(sessions)
    BY AskersFinite DEF IInv
  <2>3. Cardinality(Asking) = 0 /\ Cardinality(keep) = 0
    BY <2>1, <2>2
  <2>4. QED
    BY <2>1, <2>2, <2>3, FS_EmptySet
<1>2. QED
  BY <1>1, Invariance, PTL

\* The processor has a running clock in every state but Stop mode, through every
\* change from one oscillator to the other.
THEOREM Clocked == Spec => []ClockRuns
BY Invariance, PTL DEF IInv

\* A transfer starts on a driver that is stopped (SPI) or started and not locked
\* (I2C), whoever had the bus before and however that ended.
THEOREM DriverReady == Spec => TransferOnReady
<1>1. IInv /\ [Next]_vars =>
        [\A t \in Threads :
           pc[t] = "granted" /\ pc'[t] = "transfer" =>
             driver[BusOf[t]] = IF IsI2C(t) THEN "ready" ELSE "stop"]_vars
  <2> SUFFICES ASSUME IInv, [Next]_vars, NEW t \in Threads,
                      pc[t] = "granted", pc'[t] = "transfer"
               PROVE  driver[BusOf[t]] = IF IsI2C(t) THEN "ready" ELSE "stop"
    OBVIOUS
  <2>1. transfer(t)
    BY DEF IInv, TypeOK, Next, Thread, lock, unlock, transfer, Complete, finish, init,
         i2cStart, Keep, Session, Goto, WaitForInterrupt, Interrupt, tick, PLLLocks,
         vars, busVars
  <2>2. BusOf[t] \in Buses /\ Unused(BusOf[t])
    BY BusAssumption DEF IInv, OwnersHoldLocks, Unused
  <2>3. CASE IsI2C(t)
    <3>1. t \in UpOn(BusOf[t])
      BY <2>1, <2>3 DEF transfer, Initialising, UpOn
    <3>2. refcnt[BusOf[t]] > 0
      BY <2>3, <3>1, UpOnCounted, FS_EmptySet DEF IsI2C, IInv
    <3>3. QED
      BY <2>2, <2>3, <3>2 DEF IInv, DriversReady, IsI2C
  <2>4. CASE ~IsI2C(t)
    BY <2>2, <2>4 DEF IInv, DriversReady, IsI2C
  <2>5. QED
    BY <2>3, <2>4
<1>2. QED
  BY <1>1, Invariance, PTL DEF Spec, TransferOnReady

=============================================================================
