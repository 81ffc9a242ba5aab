---------------------------- MODULE DataListener ----------------------------
(***************************************************************************)
(* The queue between a sensor thread and one of its listeners,             *)
(* sw_imu/imu/datasource.h and datasource.cpp, over the counting semaphore *)
(* of the kernel.                                                          *)
(*                                                                         *)
(* The listener is a ring of len slots.  A push is refused when the        *)
(* semaphore counter has reached len.  The counter does not count the slot *)
(* of a receiver that a push has woken and that has not run yet, so the    *)
(* order of samples rests on how long the scheduler keeps a woken receiver *)
(* from running: MaxLag is the number of samples that may be put meanwhile.*)
(*                                                                         *)
(* A sample is its number: the seq-th sample the sensor has produced.      *)
(***************************************************************************)
EXTENDS Integers

CONSTANTS
  len,      \* the slots given to init(): 2 or 4 in the logger, 8 in the view
  MaxLag,   \* samples put between waking the receiver and its running
  MaxSeq    \* bound: the samples one behaviour produces

ASSUME ListenerAssumption ==
  /\ len \in Nat \ {0}
  /\ MaxLag \in Nat
  /\ MaxSeq \in Nat

VARIABLES
  life,   \* "new" before init(), "ready" after it, "registered", "removed"
  cnt,    \* s_cnt of the semaphore: negative when the receiver waits
  recv,   \* the receiver: "idle", "waiting", "woken" or "timedout", the last two
          \* being ready with RDY_OK or RDY_TIMEOUT but not running yet
  rd,     \* rd_head - buf_head
  wr,     \* wr_head - buf_head
  buf,    \* the slots
  seq,    \* the number of samples produced
  last    \* the latest sample copied to the receiver, 0 before the first

vars == <<life, cnt, recv, rd, wr, buf, seq, last>>

Slots == 0 .. len - 1

TypeOK ==
  /\ life \in {"new", "ready", "registered", "removed"}
  /\ cnt \in -1 .. len
  /\ recv \in {"idle", "waiting", "woken", "timedout"}
  /\ rd \in Slots
  /\ wr \in Slots
  /\ buf \in [Slots -> 0 .. MaxSeq]
  /\ seq \in 0 .. MaxSeq
  /\ last \in 0 .. MaxSeq

Init ==
  /\ life = "new"
  /\ cnt = 0
  /\ recv = "idle"
  /\ rd = 0
  /\ wr = 0
  /\ buf \in [Slots -> {0}]
  /\ seq = 0
  /\ last = 0

\* The step of rd_head and wr_head: back to buf_head after the last slot.
Step(i) == IF i = len - 1 THEN 0 ELSE i + 1

-----------------------------------------------------------------------------
(* The thread that owns the listener.                                      *)

\* Fault: init() resets the semaphore but not the heads.
initSemOnly ==
  /\ life \in {"new", "removed"}
  /\ life' = "ready"
  /\ cnt' = 0
  /\ UNCHANGED <<recv, rd, wr, buf, seq, last>>

init ==
  /\ life \in {"new", "removed"}
  /\ life' = "ready"
  /\ cnt' = 0
  /\ rd' = 0
  /\ wr' = 0
  /\ UNCHANGED <<recv, buf, seq, last>>

register_queue ==
  /\ life = "ready"
  /\ life' = "registered"
  /\ UNCHANGED <<cnt, recv, rd, wr, buf, seq, last>>

\* The head of the list is reset when it is removed; a listener further down
\* is only unlinked and keeps its samples.
resetI ==
  /\ cnt' = 0
  /\ rd' = 0
  /\ wr' = 0

unregister_queue ==
  /\ life = "registered"
  /\ recv = "idle"
  /\ life' = "removed"
  /\ resetI \/ UNCHANGED <<cnt, rd, wr>>
  /\ UNCHANGED <<recv, buf, seq, last>>

\* The sample at rd_head is copied out.
Pop ==
  /\ last' = buf[rd]
  /\ rd' = Step(rd)

\* receive_to takes a sample at once when there is one.
ReceiveNow ==
  /\ life = "registered" /\ recv = "idle"
  /\ cnt > 0
  /\ cnt' = cnt - 1
  /\ Pop
  /\ UNCHANGED <<life, recv, wr, buf, seq>>

\* Otherwise the thread sleeps on the semaphore; with TIME_IMMEDIATE it returns
\* at once and nothing has changed.
ReceiveWait ==
  /\ life = "registered" /\ recv = "idle"
  /\ cnt <= 0
  /\ cnt' = cnt - 1
  /\ recv' = "waiting"
  /\ UNCHANGED <<life, rd, wr, buf, seq, last>>

\* It runs again, with the message that made it ready.
ReceiveOk ==
  /\ recv = "woken"
  /\ recv' = "idle"
  /\ Pop
  /\ UNCHANGED <<life, cnt, wr, buf, seq>>

ReceiveTimedOut ==
  /\ recv = "timedout"
  /\ recv' = "idle"
  /\ UNCHANGED <<life, cnt, rd, wr, buf, seq, last>>

\* Fault: the timeout leaves the counter as the wait made it.
TimeoutUncounted ==
  /\ recv = "waiting"
  /\ recv' = "timedout"
  /\ UNCHANGED <<life, cnt, rd, wr, buf, seq, last>>

\* The timer of the wait expires: the receiver leaves the queue of the semaphore.
\* A receiver that is already ready is left alone.
Timeout ==
  /\ recv = "waiting"
  /\ recv' = "timedout"
  /\ cnt' = cnt + 1
  /\ UNCHANGED <<life, rd, wr, buf, seq, last>>

-----------------------------------------------------------------------------
(* The sensor thread.                                                      *)

\* Fault: one sample too many is let in.
HasRoomAndOne == cnt <= len

\* chSemGetCounterI() + 1 < len + 1, in unsigned arithmetic: -1 becomes 0.
HasRoom == cnt < len

\* chSemSignalI(): count up and make a waiting receiver ready.
Signalled ==
  /\ cnt' = cnt + 1
  /\ recv' = IF cnt < 0 THEN "woken" ELSE recv

pushI(sample) ==
  IF HasRoom
  THEN /\ Signalled
       /\ buf' = [buf EXCEPT ![wr] = sample]
       /\ wr' = Step(wr)
  ELSE UNCHANGED <<cnt, recv, buf, wr>>

\* What the scheduler grants a woken receiver, whose counter was 0 when it woke.
Prompt == recv = "woken" => cnt < MaxLag

put ==
  /\ seq < MaxSeq
  /\ Prompt
  /\ seq' = seq + 1
  /\ IF life = "registered" THEN pushI(seq + 1) ELSE UNCHANGED <<cnt, recv, buf, wr>>
  /\ UNCHANGED <<life, rd, last>>

-----------------------------------------------------------------------------

Receiver ==
  \/ init \/ register_queue \/ unregister_queue
  \/ ReceiveNow \/ ReceiveWait \/ ReceiveOk \/ ReceiveTimedOut

Next == Receiver \/ Timeout \/ put

Spec == Init /\ [][Next]_vars

-----------------------------------------------------------------------------
(* Properties.                                                             *)

\* The occupied slots: the ones counted and the one a woken receiver will take.
Occupied == (IF cnt > 0 THEN cnt ELSE 0) + (IF recv = "woken" THEN 1 ELSE 0)

\* The slot k places after rd_head.
At(k) == IF rd + k < len THEN rd + k ELSE rd + k - len

\* The semaphore, the two heads and the number of waiting receivers agree, in
\* spite of pushes, timeouts and resets between a receiver's sleep and its run:
\* the write head is always Occupied slots after the read head, and no more than
\* len slots are occupied.
RingShape ==
  life = "registered" =>
    /\ Occupied <= len
    /\ wr = At(Occupied)
    /\ cnt < 0 <=> recv = "waiting"

\* "Wait for a sample of data and copy it safely": the samples a thread receives
\* are in the order the sensor took them and none comes twice.
ReceivedInOrder == [][last' # last => last' > last]_vars

\* The samples in the ring are in order, newer than the last one received.
RingOrdered ==
  life = "registered" =>
    \A k \in 0 .. Occupied - 1 :
      /\ last < buf[At(k)] /\ buf[At(k)] <= seq
      /\ \A j \in 0 .. k - 1 : buf[At(j)] < buf[At(k)]

\* The samples in the ring, from the read head on.
Contents == IF life = "registered" THEN [i \in 1 .. Occupied |-> buf[At(i - 1)]] ELSE << >>

\* The listener is a bounded queue that loses samples only when it is full.
Queue == INSTANCE SampleQueue WITH
  Capacity <- len, open <- life = "registered", q <- Contents

ImplementsSampleQueue == Queue!Spec

=============================================================================
