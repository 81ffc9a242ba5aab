-------------------------------- MODULE Bus --------------------------------
(***************************************************************************)
(* The buses of sw_imu/imu/spi.cpp and i2c.cpp, the threads that share     *)
(* them, the USB terminal's sessions, and the idle thread, which puts the  *)
(* processor to sleep when every thread is blocked: deeply, with all       *)
(* clocks off, when SLEEPDEEP is set.                                      *)
(*                                                                         *)
(* A transfer locks its bus, asks for the HSI, and blocks its thread until *)
(* the transfer ends or, on I2C, times out.  A thread runs from one        *)
(* blocking call to the next, and the processor sleeps only when none can. *)
(***************************************************************************)
EXTENDS ClockManager, FiniteSets

CONSTANTS
  Threads,     \* the threads that use the buses
  Buses,
  I2Cs,        \* the buses that are I2C; the others are SPI
  BusOf,       \* the bus of each thread's devices
  Main,        \* the thread of main()
  Keepers,     \* threads that ask for the HSI around several transfers
  Terminals,   \* threads that open USB sessions
  TickInLock   \* may a tick come while the PLL is locking?

ASSUME ThreadAssumption ==
  /\ IsFiniteSet(Threads)
  /\ Main \in Keepers /\ Keepers \subseteq Threads /\ Terminals \subseteq Threads

ASSUME BusAssumption ==
  /\ I2Cs \subseteq Buses
  /\ BusOf \in [Threads -> Buses]
  /\ TickInLock \in BOOLEAN

None == "none"

ASSUME NoneAssumption == None \notin Threads

VARIABLES
  pc,        \* where each thread is
  owner,     \* the thread that holds each bus
  driver,    \* the state of each bus driver
  refcnt,    \* refcnt of each I2C
  up,        \* the threads that have called init() of their bus
  keep,      \* the keepers that have asked for the HSI
  sessions,  \* the terminals that have asked for the HSE
  cpu        \* the processor

busVars == <<pc, owner, driver, refcnt, up>>
requests == <<keep, sessions>>
vars == <<pc, owner, driver, refcnt, up, keep, sessions, cpu,
          hsi_sem, hse_sem, sleepdeep, rcc>>

\* "idle" is any wait outside the buses, "queued" the wait for the bus,
\* "clearing" the sleeps of clear_bus() and "transfer" the wait for the DMA; in
\* "granted", "done" and "release" the thread runs with the bus locked.
Blocked == {"idle", "queued", "clearing", "transfer"}
Places == Blocked \union {"granted", "done", "release"}

TypeOK ==
  /\ pc \in [Threads -> Places]
  /\ owner \in [Buses -> Threads \union {None}]
  /\ driver \in [Buses -> {"stop", "ready", "active", "locked"}]
  /\ refcnt \in [I2Cs -> 0 .. Cardinality(Threads)]
  /\ up \subseteq Threads
  /\ keep \subseteq Keepers
  /\ sessions \subseteq Terminals
  /\ cpu \in {"run", "sleep", "stop", "hung"}
  /\ hsi_sem \in Nat /\ hse_sem \in Nat
  /\ sleepdeep \in BOOLEAN
  /\ rcc \in ClockTrees

\* main() has asked for the HSI before it initialises anything.
Init ==
  /\ pc = [t \in Threads |-> "idle"]
  /\ owner = [b \in Buses |-> None]
  /\ driver = [b \in Buses |-> "stop"]
  /\ refcnt = [b \in I2Cs |-> 0]
  /\ up = {} /\ keep = {Main} /\ sessions = {}
  /\ cpu = "run"
  /\ hsi_sem = 1 /\ hse_sem = 0
  /\ sleepdeep = FALSE
  /\ rcc \in BootTrees

-----------------------------------------------------------------------------
(* The buses.                                                              *)

Goto(t, from, to) ==
  /\ cpu = "run"
  /\ pc[t] = from
  /\ pc' = [pc EXCEPT ![t] = to]

IsI2C(t) == BusOf[t] \in I2Cs

\* Fault: init() is called before every transfer.
InitialisingAlways(t) == IsI2C(t)

\* The thread is about to call I2C::init(), and has not before.
Initialising(t) == IsI2C(t) /\ t \notin up

lock(t) ==
  LET b == BusOf[t]
      free == owner[b] = None
  IN  /\ Goto(t, "idle", IF free THEN "granted" ELSE "queued")
      /\ owner' = IF free THEN [owner EXCEPT ![b] = t] ELSE owner
      /\ UNCHANGED <<driver, refcnt, up, requests, cpu, clocks>>

\* The bus goes to one of the threads queued for it.
unlock(t) ==
  LET b == BusOf[t]
      Queued == {u \in Threads : pc[u] = "queued" /\ BusOf[u] = b}
  IN  /\ cpu = "run"
      /\ pc[t] = "release"
      /\ \/ /\ Queued = {}
            /\ pc' = [pc EXCEPT ![t] = "idle"]
            /\ owner' = [owner EXCEPT ![b] = None]
         \/ \E u \in Queued :
              /\ pc' = [pc EXCEPT ![t] = "idle", ![u] = "granted"]
              /\ owner' = [owner EXCEPT ![b] = u]
      /\ UNCHANGED <<driver, refcnt, up, requests, cpu, clocks>>

\* Fault: the transfer begins without a request.
transferUnasked(t) ==
  /\ ~Initialising(t)
  /\ Goto(t, "granted", "transfer")
  /\ driver' = [driver EXCEPT ![BusOf[t]] = "active"]
  /\ UNCHANGED <<owner, refcnt, up, requests, cpu, clocks>>

\* SPI::transfer up to the DMA, and I2C::transmit.
transfer(t) ==
  /\ ~Initialising(t)
  /\ Goto(t, "granted", "transfer")
  /\ clk_mgr_req_hsi
  /\ driver' = [driver EXCEPT ![BusOf[t]] = "active"]
  /\ UNCHANGED <<owner, refcnt, up, requests, cpu>>

\* The interrupt at the end of a transfer, or, on I2C, the timeout, which leaves
\* the driver locked.  There is neither while the clocks are off.
Complete(t) ==
  /\ cpu \in {"run", "sleep"}
  /\ pc[t] = "transfer"
  /\ pc' = [pc EXCEPT ![t] = "done"]
  /\ cpu' = "run"
  /\ \/ driver' = [driver EXCEPT ![BusOf[t]] = "ready"]
     \/ IsI2C(t) /\ driver' = [driver EXCEPT ![BusOf[t]] = "locked"]
  /\ UNCHANGED <<owner, refcnt, up, requests, clocks>>

\* Fault: a locked driver is not restarted.
finishLocked(t) ==
  /\ Goto(t, "done", "release")
  /\ clk_mgr_noreq_hsi
  /\ driver' = IF IsI2C(t) THEN driver ELSE [driver EXCEPT ![BusOf[t]] = "stop"]
  /\ UNCHANGED <<owner, refcnt, up, requests, cpu>>

\* A locked I2C driver is stopped and started again; an SPI driver is stopped.
finish(t) ==
  /\ Goto(t, "done", "release")
  /\ clk_mgr_noreq_hsi
  /\ driver' = [driver EXCEPT ![BusOf[t]] = IF IsI2C(t) THEN "ready" ELSE "stop"]
  /\ UNCHANGED <<owner, refcnt, up, requests, cpu>>

\* I2C::init: the first caller clears the bus, asleep for seconds and without a
\* request for the HSI, and starts the driver.
init(t) ==
  LET b == BusOf[t]
  IN  /\ Initialising(t)
      /\ Goto(t, "granted", IF refcnt[b] = 0 THEN "clearing" ELSE "release")
      /\ refcnt' = [refcnt EXCEPT ![b] = @ + 1]
      /\ up' = up \union {t}
      /\ UNCHANGED <<owner, driver, requests, cpu, clocks>>

i2cStart(t) ==
  /\ Goto(t, "clearing", "done")
  /\ clk_mgr_req_hsi
  /\ driver' = [driver EXCEPT ![BusOf[t]] = "ready"]
  /\ UNCHANGED <<owner, refcnt, up, requests, cpu>>

Thread(t) ==
  \/ unlock(t) \/ transfer(t) \/ Complete(t) \/ finish(t) \/ init(t) \/ i2cStart(t)

-----------------------------------------------------------------------------
(* The long requests.                                                      *)

\* A power test asks for the HSI, or main() or the test gives it back.
Keep(t) ==
  /\ Goto(t, "idle", "idle")
  /\ \/ t \in Keepers \ keep /\ keep' = keep \union {t} /\ clk_mgr_req_hsi
     \/ t \in keep /\ keep' = keep \ {t} /\ clk_mgr_noreq_hsi
  /\ UNCHANGED <<owner, driver, refcnt, up, sessions, cpu>>

\* USBSerial::init and USBSerial::stop.
Session(t) ==
  /\ Goto(t, "idle", "idle")
  /\ \/ t \in Terminals \ sessions /\ sessions' = sessions \union {t} /\ clk_mgr_req_hse
     \/ t \in sessions /\ sessions' = sessions \ {t} /\ clk_mgr_noreq_hse
  /\ UNCHANGED <<owner, driver, refcnt, up, keep, cpu>>

-----------------------------------------------------------------------------
(* The processor.                                                          *)

\* The idle thread waits for an interrupt.
WaitForInterrupt ==
  /\ cpu = "run"
  /\ \A t \in Threads : pc[t] \in Blocked
  /\ cpu' = IF sleepdeep THEN "stop" ELSE "sleep"
  /\ rcc' = IF sleepdeep THEN Stopped(rcc) ELSE rcc
  /\ UNCHANGED <<busVars, requests, hsi_sem, hse_sem, sleepdeep>>

\* The clock tree when an interrupt is taken.
Taken == IF cpu = "stop" THEN Restarted(rcc) ELSE rcc

\* An interrupt of a button or of the real-time clock's pins.
Interrupt ==
  /\ cpu \in {"sleep", "stop"}
  /\ cpu' = "run"
  /\ rcc' = Taken
  /\ UNCHANGED <<busVars, requests, hsi_sem, hse_sem, sleepdeep>>

\* The system tick calls clk_mgr_wakeup before anything else.
tick ==
  /\ cpu # "hung"
  /\ TickInLock \/ ~WakeupHangs(Taken)
  /\ cpu' = IF WakeupHangs(Taken) THEN "hung" ELSE "run"
  /\ rcc' = IF WakeupHangs(Taken) THEN Taken ELSE Wakeup(Taken)
  /\ UNCHANGED <<busVars, requests, hsi_sem, hse_sem, sleepdeep>>

PLLLocks ==
  /\ cpu # "stop"
  /\ "PLL" \in rcc.on /\ ~rcc.locked
  /\ rcc' = Locked(rcc)
  /\ UNCHANGED <<busVars, requests, cpu, hsi_sem, hse_sem, sleepdeep>>

-----------------------------------------------------------------------------

Next ==
  \/ \E t \in Threads : lock(t) \/ Thread(t) \/ Keep(t) \/ Session(t)
  \/ WaitForInterrupt \/ Interrupt \/ tick \/ PLLLocks

Spec == Init /\ [][Next]_vars

-----------------------------------------------------------------------------
(* Properties.                                                             *)

\* The threads that have asked for the HSI around a transfer.
Asking == {t \in Threads : pc[t] \in {"transfer", "done"}}

\* The counters of the clock manager count what the threads have asked for and
\* not given back, and deep sleep is allowed exactly when that is nothing.
CountsRequests ==
  /\ hsi_sem = Cardinality(Asking) + Cardinality(keep)
  /\ hse_sem = Cardinality(sessions)
  /\ sleepdeep <=> (hsi_sem = 0 /\ hse_sem = 0)

\* The clocks are never switched off under a transfer, a USB session, or a
\* thread that has asked to keep them.
NoStopInUse ==
  cpu = "stop" => Asking = {} /\ keep = {} /\ sessions = {}

\* The processor always has a running clock, and a running PLL a running source.
ClockRuns ==
  cpu # "stop" =>
    /\ rcc.sws \in Running(rcc)
    /\ "PLL" \in rcc.on => rcc.src \in rcc.on

\* A transfer starts on a driver in the right state: one that no other thread is
\* using, that has been started, and that is not locked by an earlier timeout.
TransferOnReady == [][\A t \in Threads :
  pc[t] = "granted" /\ pc'[t] = "transfer" =>
    driver[BusOf[t]] = IF IsI2C(t) THEN "ready" ELSE "stop"]_vars

\* "Wait for PLL": the tick that follows a request for the HSE finds the
\* processor on the PLL and returns.
TickReturns == cpu # "hung"

=============================================================================
