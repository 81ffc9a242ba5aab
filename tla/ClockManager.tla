---------------------------- MODULE ClockManager ----------------------------
(***************************************************************************)
(* The clock manager of sw_imu/imu/clock_mgr.c: two counters of requests,  *)
(* for the internal oscillator (HSI) and for the crystal (HSE), the        *)
(* SLEEPDEEP bit they control, and the clock tree of the processor.        *)
(*                                                                         *)
(* Each function runs in one critical section and is an operation on these *)
(* variables; the waits for an oscillator inside them are over when the    *)
(* section ends.  The wait for the PLL is not: its condition               *)
(* (RCC->CR | RCC_CR_PLLRDY) == 0 is never true, so the PLL is selected    *)
(* while it is still locking and the selection takes effect later.         *)
(***************************************************************************)
EXTENDS Naturals

VARIABLES
  hsi_sem,    \* requests for the HSI
  hse_sem,    \* requests for the HSE
  sleepdeep,  \* SCB_SCR_SLEEPDEEP
  rcc         \* the clock tree

clocks == <<hsi_sem, hse_sem, sleepdeep, rcc>>

Clocks == {"HSI", "HSE", "PLL"}

\* on: the clocks switched on; locked: RCC_CR_PLLRDY; src: the oscillator the
\* PLL is configured for; sw and sws: the system clock that is selected and the
\* one in use.
ClockTrees == [on: SUBSET Clocks, locked: BOOLEAN, src: {"HSI", "HSE"},
               sw: Clocks, sws: Clocks]

\* The hardware layer starts the PLL from the HSI; one of the boards also has
\* its crystal running.
BootTrees ==
  [on: {{"HSI", "PLL"}, Clocks}, locked: {TRUE}, src: {"HSI"}, sw: {"PLL"}, sws: {"PLL"}]

-----------------------------------------------------------------------------
(* The clock tree.                                                         *)

\* The clocks that can drive the processor.
Running(r) == IF r.locked THEN r.on ELSE r.on \ {"PLL"}

\* The hardware changes over when the selected clock runs.
Select(r, c) == [r EXCEPT !.sw = c, !.sws = IF c \in Running(r) THEN c ELSE @]

\* Switched off, configured for another source and switched on again.
StartPLL(r, source) ==
  [r EXCEPT !.on = @ \union {"PLL"}, !.locked = FALSE, !.src = source]

\* The PLL locks, and takes over if it is selected.
Locked(r) == [r EXCEPT !.locked = TRUE, !.sws = IF r.sw = "PLL" THEN "PLL" ELSE @]

On(r, c) == [r EXCEPT !.on = @ \union {c}]
Off(r, c) == [r EXCEPT !.on = @ \ {c}]

ToHSE(r) == Off(Select(StartPLL(Select(On(r, "HSE"), "HSE"), "HSE"), "PLL"), "HSI")

\* Fault: the crystal is switched off before the processor leaves it.
ToHSIOffFirst(r) == Select(StartPLL(Off(On(r, "HSI"), "HSE"), "HSI"), "PLL")

\* The last selection, "Switch to PLL for HCLK", writes the value of the HSI.
ToHSI(r) == Off(Select(StartPLL(Select(On(r, "HSI"), "HSI"), "HSI"), "HSI"), "HSE")

\* Stop mode switches every clock off; the processor leaves it on the HSI.
Stopped(r) == [r EXCEPT !.on = {}, !.locked = FALSE]
Restarted(r) == [r EXCEPT !.on = {"HSI"}, !.locked = FALSE, !.sw = "HSI", !.sws = "HSI"]

\* clk_mgr_wakeup, which waits for ever in its interrupt when it finds the
\* crystal in use and otherwise brings the processor back to the PLL.
WakeupHangs(r) == r.sws = "HSE"
Wakeup(r) == IF r.sws = "PLL" THEN r ELSE Select(StartPLL(r, "HSI"), "PLL")

-----------------------------------------------------------------------------
(* The requests.                                                           *)

clk_mgr_req_hsi ==
  /\ hsi_sem' = hsi_sem + 1
  /\ sleepdeep' = FALSE
  /\ UNCHANGED <<hse_sem, rcc>>

\* Fault: the other counter is not looked at.
clk_mgr_noreq_hsiAlone ==
  /\ IF hsi_sem > 0
     THEN /\ hsi_sem' = hsi_sem - 1
          /\ sleepdeep' = (sleepdeep \/ hsi_sem = 1)
     ELSE UNCHANGED <<hsi_sem, sleepdeep>>
  /\ UNCHANGED <<hse_sem, rcc>>

clk_mgr_noreq_hsi ==
  /\ IF hsi_sem > 0
     THEN /\ hsi_sem' = hsi_sem - 1
          /\ sleepdeep' = (sleepdeep \/ (hsi_sem = 1 /\ hse_sem = 0))
     ELSE UNCHANGED <<hsi_sem, sleepdeep>>
  /\ UNCHANGED <<hse_sem, rcc>>

clk_mgr_req_hse ==
  /\ hse_sem' = hse_sem + 1
  /\ sleepdeep' = FALSE
  /\ rcc' = IF hse_sem = 0 THEN ToHSE(rcc) ELSE rcc
  /\ UNCHANGED hsi_sem

clk_mgr_noreq_hse ==
  /\ IF hse_sem > 0
     THEN /\ hse_sem' = hse_sem - 1
          /\ sleepdeep' = (sleepdeep \/ (hse_sem = 1 /\ hsi_sem = 0))
          /\ rcc' = IF hse_sem = 1 THEN ToHSI(rcc) ELSE rcc
     ELSE UNCHANGED <<hse_sem, sleepdeep, rcc>>
  /\ UNCHANGED hsi_sem

=============================================================================
