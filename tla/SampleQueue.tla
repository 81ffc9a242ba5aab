---------------------------- MODULE SampleQueue ----------------------------
(***************************************************************************)
(* What a listener of a sensor promises its thread: while it is            *)
(* registered, a bounded queue of samples in the order they were taken.    *)
(* A sample that finds the queue full is dropped; one that was taken       *)
(* before the listener was registered is never seen.  Samples are          *)
(* numbered in the order the sensor produces them.                         *)
(***************************************************************************)
EXTENDS Naturals, Sequences

CONSTANT Capacity   \* the number of slots the listener was given

VARIABLES
  open,   \* is the listener registered?
  q,      \* the samples waiting
  seq,    \* the number of samples the sensor has produced
  last    \* the latest sample the thread has received, 0 before the first

vars == <<open, q, seq, last>>

Init ==
  /\ open = FALSE
  /\ q = << >>
  /\ seq = 0
  /\ last = 0

Open ==
  /\ ~open
  /\ open' = TRUE
  /\ UNCHANGED <<q, seq, last>>

Close ==
  /\ open
  /\ open' = FALSE
  /\ q' = << >>
  /\ UNCHANGED <<seq, last>>

Put ==
  /\ seq' = seq + 1
  /\ q' = IF open /\ Len(q) < Capacity THEN Append(q, seq + 1) ELSE q
  /\ UNCHANGED <<open, last>>

Get ==
  /\ q # << >>
  /\ last' = Head(q)
  /\ q' = Tail(q)
  /\ UNCHANGED <<open, seq>>

Next == Open \/ Close \/ Put \/ Get

Spec == Init /\ [][Next]_vars
=============================================================================
