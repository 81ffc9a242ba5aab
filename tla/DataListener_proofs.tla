------------------------ MODULE DataListener_proofs ------------------------
(***************************************************************************)
(* The ring of a listener, for every number of slots, as long as fewer     *)
(* samples than slots are put between waking a receiver and its running.   *)
(***************************************************************************)
EXTENDS DataListener, Sequences, SequenceTheorems, TLAPS

\* The ring invariant needs to know that only a registered listener has a
\* receiver, and that init() left an empty ring to register.
Lifecycle ==
  /\ life # "registered" => recv = "idle"
  /\ life = "ready" => cnt = 0 /\ rd = 0 /\ wr = 0
  /\ last <= seq

IInv == TypeOK /\ Lifecycle /\ RingShape /\ RingOrdered

-----------------------------------------------------------------------------

\* The heads stay inside the ring, and stepping the read head shifts the places
\* counted from it by one.
LEMMA StepAt ==
  ASSUME rd \in Slots, NEW k \in 0 .. len
  PROVE  /\ At(k) \in Slots
         /\ Step(rd) \in Slots
         /\ k < len => Step(At(k)) = At(k + 1)
         /\ At(0) = rd
BY ListenerAssumption DEF At, Step, Slots

\* Two different places of the ring are different slots.
LEMMA AtInjective ==
  ASSUME rd \in Slots, NEW j \in 0 .. len - 1, NEW k \in 0 .. len - 1, At(j) = At(k)
  PROVE  j = k
BY ListenerAssumption DEF At, Slots

LEMMA InvariantInit == Init => IInv
BY ListenerAssumption DEF Init, IInv, TypeOK, Lifecycle, RingShape, RingOrdered,
   Slots, Occupied, At

\* The sample at the read head of a ring that is not empty is new and not from
\* the future.
LEMMA HeadIsNew ==
  ASSUME TypeOK, RingOrdered, life = "registered", Occupied > 0
  PROVE  last < buf[rd] /\ buf[rd] <= seq
<1>1. Occupied \in Nat /\ 0 \in 0 .. Occupied - 1
  BY DEF Occupied, TypeOK
<1>2. At(0) = rd
  BY StepAt, ListenerAssumption DEF TypeOK
<1>3. QED
  BY <1>1, <1>2 DEF RingOrdered

\* One step preserves types and the shape of the ring.
LEMMA ShapeStep ==
  ASSUME MaxLag < len, IInv, [Next]_vars
  PROVE  TypeOK' /\ Lifecycle' /\ RingShape'
<1> USE ListenerAssumption
        DEF IInv, TypeOK, Lifecycle, RingShape, Occupied, Slots, At
<1>1. CASE init
  BY <1>1 DEF init
<1>2. CASE register_queue
  BY <1>2 DEF register_queue
<1>3. CASE unregister_queue
  BY <1>3 DEF unregister_queue, resetI
<1>4. CASE ReceiveNow
  <2>1. buf[rd] <= seq
    BY <1>4, HeadIsNew DEF ReceiveNow
  <2>2. QED
    BY <1>4, <2>1 DEF ReceiveNow, Pop, Step
<1>5. CASE ReceiveWait
  BY <1>5 DEF ReceiveWait
<1>6. CASE ReceiveOk
  <2>1. buf[rd] <= seq
    BY <1>6, HeadIsNew DEF ReceiveOk
  <2>2. QED
    BY <1>6, <2>1 DEF ReceiveOk, Pop, Step
<1>7. CASE ReceiveTimedOut
  BY <1>7 DEF ReceiveTimedOut
<1>8. CASE Timeout
  BY <1>8 DEF Timeout
<1>9. CASE put
  <2>1. CASE life = "registered" /\ HasRoom
    <3>1. /\ cnt' = cnt + 1
          /\ recv' = IF cnt < 0 THEN "woken" ELSE recv
          /\ buf' = [buf EXCEPT ![wr] = seq + 1]
          /\ wr' = Step(wr)
          /\ seq' = seq + 1 /\ seq < MaxSeq
          /\ UNCHANGED <<life, rd, last>>
      BY <1>9, <2>1 DEF put, pushI, Signalled
    <3>2. TypeOK'
      BY <2>1, <3>1 DEF HasRoom, Step
    <3>3. Lifecycle'
      BY <2>1, <3>1
    <3>4. Occupied' = Occupied + 1 /\ Occupied + 1 <= len
      BY <1>9, <2>1, <3>1 DEF put, Prompt, HasRoom
    <3>5. wr' = At(Occupied)'
      BY <2>1, <3>1, <3>4 DEF Step
    <3>6. QED
      BY <2>1, <3>1, <3>2, <3>3, <3>4, <3>5
  <2>2. CASE ~(life = "registered" /\ HasRoom)
    <3>1. UNCHANGED <<life, cnt, recv, rd, wr, buf, last>>
      BY <1>9, <2>2 DEF put, pushI
    <3>2. seq' = seq + 1 /\ seq < MaxSeq
      BY <1>9 DEF put
    <3>3. QED
      BY <3>1, <3>2
  <2>3. QED
    BY <2>1, <2>2
<1>10. CASE UNCHANGED vars
  BY <1>10 DEF vars
<1>11. QED
  BY <1>1, <1>2, <1>3, <1>4, <1>5, <1>6, <1>7, <1>8, <1>9, <1>10
     DEF Next, Receiver

-----------------------------------------------------------------------------
(* The two ways a step changes what the ring holds.                        *)

\* The receiver takes the sample at the read head.
Popped ==
  /\ life = "registered" /\ Occupied > 0
  /\ Pop
  /\ UNCHANGED <<life, buf, seq>>
  /\ Occupied' = Occupied - 1

\* A sample is written at the write head.
Pushed ==
  /\ life = "registered" /\ Occupied < len
  /\ buf' = [buf EXCEPT ![At(Occupied)] = seq + 1]
  /\ UNCHANGED <<life, rd, last>>
  /\ seq' = seq + 1
  /\ Occupied' = Occupied + 1

\* The ring stays as it is.
Kept == UNCHANGED <<life, buf, rd, last, Occupied>> /\ seq' \in {seq, seq + 1}

LEMMA ReceivePops ==
  ASSUME IInv, ReceiveNow \/ ReceiveOk
  PROVE  Popped
BY DEF IInv, TypeOK, Lifecycle, RingShape, Occupied, ReceiveNow, ReceiveOk, Popped, Pop

LEMMA PutPushes ==
  ASSUME MaxLag < len, IInv, put
  PROVE  \/ life = "registered" /\ HasRoom /\ Pushed
         \/ ~(life = "registered" /\ HasRoom) /\ Kept
<1> USE ListenerAssumption DEF IInv, TypeOK, Lifecycle, RingShape, Occupied
<1>1. CASE life = "registered" /\ HasRoom
  <2>1. Occupied < len /\ Occupied' = Occupied + 1
    BY <1>1 DEF put, pushI, HasRoom, Signalled, Prompt
  <2>2. wr = At(Occupied)
    BY <1>1
  <2>3. QED
    BY <1>1, <2>1, <2>2 DEF put, pushI, Pushed
<1>2. CASE ~(life = "registered" /\ HasRoom)
  BY <1>2 DEF put, pushI, Kept
<1>3. QED
  BY <1>1, <1>2

LEMMA OthersKeep ==
  ASSUME IInv, ReceiveWait \/ ReceiveTimedOut \/ Timeout \/ UNCHANGED vars
  PROVE  Kept /\ seq' = seq
BY DEF IInv, TypeOK, Lifecycle, RingShape, Occupied, ReceiveWait, ReceiveTimedOut,
   Timeout, vars, Kept

LEMMA OrderStep ==
  ASSUME MaxLag < len, IInv, [Next]_vars
  PROVE  RingOrdered'
<1> USE ListenerAssumption
<1>0. /\ Occupied \in Nat /\ rd \in Slots /\ seq \in Nat /\ last \in Nat
      /\ buf \in [Slots -> Nat] /\ (life = "registered" => Occupied <= len)
      /\ last <= seq
  BY DEF IInv, TypeOK, Occupied, RingShape, Lifecycle
<1>00. life = "registered" => \A i \in 0 .. Occupied - 1 : buf[At(i)] \in Nat
  BY <1>0, StepAt
<1>1. CASE Popped
  <2> SUFFICES ASSUME NEW k \in 0 .. Occupied' - 1
               PROVE  /\ last' < buf'[At(k)'] /\ buf'[At(k)'] <= seq'
                      /\ \A j \in 0 .. k - 1 : buf'[At(j)'] < buf'[At(k)']
    BY DEF RingOrdered
  <2>1. \A i \in 0 .. k : At(i)' = At(i + 1)
    BY <1>0, <1>1 DEF Popped, Pop, Step, At, Slots
  <2>2. last' = buf[At(0)]
    BY <1>0, <1>1, StepAt DEF Popped, Pop
  <2>3. \A i \in 0 .. k : i + 1 \in 0 .. Occupied - 1
    BY <1>0, <1>1 DEF Popped
  <2>4. \A i \in 1 .. k + 1 : buf[At(0)] < buf[At(i)] /\ buf[At(i)] <= seq
    BY <1>0, <1>1, <2>3 DEF IInv, RingOrdered, Popped
  <2>5. \A j \in 0 .. k - 1 : buf[At(j + 1)] < buf[At(k + 1)]
    BY <1>0, <1>1, <2>3 DEF IInv, RingOrdered, Popped
  <2>6. QED
    BY <1>0, <1>1, <2>1, <2>2, <2>4, <2>5 DEF Popped
<1>2. CASE Pushed
  <2> SUFFICES ASSUME NEW k \in 0 .. Occupied' - 1
               PROVE  /\ last' < buf'[At(k)'] /\ buf'[At(k)'] <= seq'
                      /\ \A j \in 0 .. k - 1 : buf'[At(j)'] < buf'[At(k)']
    BY DEF RingOrdered
  <2>1. \A i \in 0 .. Occupied : At(i)' = At(i)
    BY <1>2 DEF Pushed, At
  <2>2. \A i \in 0 .. Occupied - 1 : buf'[At(i)] = buf[At(i)]
    BY <1>0, <1>2, AtInjective, StepAt DEF Pushed
  <2>3. buf'[At(Occupied)] = seq + 1
    BY <1>0, <1>2, StepAt DEF Pushed
  <2>4. \A i \in 0 .. Occupied - 1 : last < buf[At(i)] /\ buf[At(i)] <= seq
    BY <1>2 DEF IInv, RingOrdered, Pushed
  <2>5. CASE k = Occupied
    <3>1. buf'[At(k)'] = seq + 1 /\ seq' = seq + 1 /\ last' = last
      BY <1>0, <1>2, <2>1, <2>3, <2>5 DEF Pushed
    <3>2. \A j \in 0 .. k - 1 : buf'[At(j)'] = buf[At(j)] /\ buf[At(j)] \in Nat
      BY <1>0, <1>00, <1>2, <2>1, <2>2, <2>5 DEF Pushed
    <3>3. QED
      BY <1>0, <2>4, <2>5, <3>1, <3>2
  <2>6. CASE k < Occupied
    <3>1. \A j \in 0 .. k - 1 : buf[At(j)] < buf[At(k)]
      BY <1>0, <1>2, <2>6 DEF IInv, RingOrdered, Pushed
    <3>2. \A j \in 0 .. k : buf'[At(j)'] = buf[At(j)] /\ buf[At(j)] \in Nat
      BY <1>0, <1>00, <1>2, <2>1, <2>2, <2>6 DEF Pushed
    <3>3. seq' = seq + 1 /\ last' = last
      BY <1>2 DEF Pushed
    <3>4. QED
      BY <1>0, <2>4, <2>6, <3>1, <3>2, <3>3
  <2>7. QED
    BY <1>0, <1>2, <2>5, <2>6 DEF Pushed
<1>3. CASE Kept
  <2>1. \A i \in Nat : At(i)' = At(i)
    BY <1>3 DEF Kept, At
  <2>2. /\ Occupied' = Occupied /\ buf' = buf /\ last' = last /\ life' = life
        /\ seq' \in Nat /\ seq <= seq'
    BY <1>0, <1>3 DEF Kept
  <2>3. QED
    BY <1>0, <1>00, <2>1, <2>2 DEF IInv, RingOrdered
<1>4. CASE init \/ unregister_queue
  BY <1>4 DEF init, unregister_queue, RingOrdered
<1>5. CASE register_queue
  <2>1. Occupied' = 0
    BY <1>5 DEF register_queue, IInv, Lifecycle, Occupied
  <2>2. QED
    BY <2>1 DEF RingOrdered
<1>6. QED
  BY <1>1, <1>2, <1>3, <1>4, <1>5, ReceivePops, PutPushes, OthersKeep DEF Next, Receiver

-----------------------------------------------------------------------------

\* The ring invariant, while a woken receiver runs before len samples are put.
THEOREM Invariance == MaxLag < len /\ Spec => []IInv
<1> SUFFICES ASSUME MaxLag < len PROVE Spec => []IInv
  OBVIOUS
<1>1. IInv /\ [Next]_vars => IInv'
  BY ShapeStep, OrderStep DEF IInv
<1>2. QED
  BY InvariantInit, <1>1, PTL DEF Spec

\* The heads, the semaphore and the receiver of a registered listener agree.
THEOREM Shape == MaxLag < len /\ Spec => []RingShape
BY Invariance, PTL DEF IInv

\* Samples are received in the order they were taken, and none twice.
THEOREM InOrder == MaxLag < len /\ Spec => ReceivedInOrder
<1> SUFFICES ASSUME MaxLag < len PROVE Spec => ReceivedInOrder
  OBVIOUS
<1>1. IInv /\ [Next]_vars => [last' # last => last' > last]_vars
  <2> SUFFICES ASSUME IInv, [Next]_vars, last' # last PROVE last' > last
    OBVIOUS
  <2>1. Popped
    BY ReceivePops, PutPushes, OthersKeep
       DEF Next, Receiver, init, register_queue, unregister_queue, Kept, Pushed
  <2>2. last < buf[rd]
    BY <2>1, HeadIsNew DEF IInv, Popped
  <2>3. QED
    BY <2>1, <2>2 DEF Popped, Pop, IInv, TypeOK
<1>2. QED
  BY <1>1, Invariance, PTL DEF Spec, ReceivedInOrder

-----------------------------------------------------------------------------
(* The listener implements the bounded queue.                              *)

\* The samples in the ring are a sequence of Occupied numbers.
LEMMA ContentsSeq ==
  ASSUME IInv, life = "registered"
  PROVE  /\ Contents \in Seq(Nat)
         /\ Len(Contents) = Occupied
         /\ Occupied \in 0 .. len
         /\ \A i \in 1 .. Occupied : Contents[i] = buf[At(i - 1)]
<1>1. Occupied \in 0 .. len
  BY ListenerAssumption DEF IInv, TypeOK, RingShape, Occupied
<1>2. \A i \in 1 .. Occupied : buf[At(i - 1)] \in Nat
  <2> TAKE i \in 1 .. Occupied
  <2>1. i - 1 \in 0 .. len /\ i - 1 < len
    BY <1>1, ListenerAssumption
  <2>2. At(i - 1) \in Slots
    BY <2>1, StepAt DEF IInv, TypeOK
  <2>3. QED
    BY <2>2, ListenerAssumption DEF IInv, TypeOK
<1>3. Contents = [i \in 1 .. Occupied |-> buf[At(i - 1)]]
  BY DEF Contents
<1>4. QED
  BY <1>1, <1>2, <1>3

\* Receiving takes the head of the queue.
LEMMA PopIsGet ==
  ASSUME IInv, Popped
  PROVE  Queue!Get
<1> USE ListenerAssumption
<1>0. /\ life = "registered" /\ life' = "registered"
      /\ Occupied \in 1 .. len /\ Occupied' = Occupied - 1
      /\ rd \in Slots /\ rd' = Step(rd) /\ buf' = buf /\ last' = buf[rd] /\ seq' = seq
  BY ContentsSeq DEF Popped, Pop, IInv, TypeOK
<1>1. /\ Contents \in Seq(Nat) /\ Len(Contents) = Occupied
      /\ \A i \in 1 .. Occupied : Contents[i] = buf[At(i - 1)]
  BY <1>0, ContentsSeq
<1>2. Contents # << >>
  BY <1>0, <1>1
<1>3. last' = Head(Contents)
  <2>1. At(0) = rd
    BY <1>0, StepAt
  <2>2. Contents[1] = buf[At(0)]
    BY <1>0, <1>1
  <2>3. QED
    BY <1>0, <1>1, <1>2, <2>1, <2>2
<1>4. Contents' = Tail(Contents)
  <2>1. Contents' = [i \in 1 .. Occupied - 1 |-> buf[At(i - 1)']]
    BY <1>0 DEF Contents
  <2>2. \A i \in 1 .. Occupied - 1 : At(i - 1)' = At(i)
    BY <1>0 DEF At, Step, Slots
  <2>3. \A i \in 1 .. Occupied - 1 : Contents[i + 1] = buf[At(i)]
    BY <1>0, <1>1
  <2>4. Tail(Contents) = [i \in 1 .. Occupied - 1 |-> Contents[i + 1]]
    <3>1. /\ Tail(Contents) \in Seq(Nat)
          /\ Len(Tail(Contents)) = Occupied - 1
          /\ \A i \in 1 .. Len(Tail(Contents)) : Tail(Contents)[i] = Contents[i + 1]
      BY <1>1, <1>2, HeadTailProperties
    <3>2. Tail(Contents) = [i \in 1 .. Len(Tail(Contents)) |-> Tail(Contents)[i]]
      BY <3>1, LenProperties
    <3>3. QED
      BY <1>0, <3>1, <3>2, Zenon
  <2>5. QED
    BY <1>0, <2>1, <2>2, <2>3, <2>4
<1>5. QED
  BY <1>0, <1>2, <1>3, <1>4 DEF Queue!Get

\* An accepted sample is appended to the queue.
LEMMA PushIsPut ==
  ASSUME IInv, Pushed
  PROVE  Queue!Put
<1> USE ListenerAssumption
<1>0. /\ life = "registered" /\ life' = "registered"
      /\ Occupied \in 0 .. len - 1 /\ Occupied' = Occupied + 1
      /\ rd \in Slots /\ rd' = rd /\ last' = last /\ seq' = seq + 1
      /\ buf \in [Slots -> 0 .. MaxSeq]
      /\ buf' = [buf EXCEPT ![At(Occupied)] = seq + 1]
  BY ContentsSeq DEF Pushed, IInv, TypeOK
<1>1. /\ Contents \in Seq(Nat) /\ Len(Contents) = Occupied
      /\ \A i \in 1 .. Occupied : Contents[i] = buf[At(i - 1)]
  BY <1>0, ContentsSeq
<1>2. Contents' = [i \in 1 .. Occupied + 1 |-> buf'[At(i - 1)]]
  BY <1>0 DEF Contents, At
<1>3. \A i \in 1 .. Occupied : buf'[At(i - 1)] = Contents[i]
  <2> TAKE i \in 1 .. Occupied
  <2>1. i - 1 \in 0 .. len - 1 /\ Occupied \in 0 .. len - 1 /\ i - 1 # Occupied
    BY <1>0
  <2>2. At(i - 1) # At(Occupied)
    BY <1>0, <2>1, AtInjective
  <2>3. At(i - 1) \in Slots
    BY <1>0, <2>1, StepAt
  <2>4. QED
    BY <1>0, <1>1, <2>2, <2>3
<1>4. buf'[At(Occupied)] = seq + 1
  BY <1>0, StepAt
<1>5. Append(Contents, seq + 1)
        = [i \in 1 .. Occupied + 1 |-> IF i = Occupied + 1 THEN seq + 1 ELSE Contents[i]]
  BY <1>0, <1>1
<1>6. Contents' = Append(Contents, seq + 1)
  BY <1>0, <1>2, <1>3, <1>4, <1>5
<1>7. QED
  BY <1>0, <1>1, <1>6 DEF Queue!Put

\* A step that keeps the ring keeps the queue.
LEMMA KeptContents ==
  ASSUME Kept
  PROVE  Contents' = Contents /\ last' = last /\ life' = life
BY DEF Kept, Contents, At

THEOREM Implements == MaxLag < len /\ Spec => ImplementsSampleQueue
<1> SUFFICES ASSUME MaxLag < len PROVE Spec => Queue!Spec
  BY DEF ImplementsSampleQueue
<1>1. Init => Queue!Init
  BY DEF Init, Queue!Init, Contents
<1>2. IInv /\ [Next]_vars => [Queue!Next]_(Queue!vars)
  <2> SUFFICES ASSUME IInv, [Next]_vars PROVE [Queue!Next]_(Queue!vars)
    OBVIOUS
  <2>1. CASE ReceiveNow \/ ReceiveOk
    BY <2>1, ReceivePops, PopIsGet DEF Queue!Next
  <2>2. CASE put
    <3>1. CASE Pushed
      BY <3>1, PushIsPut DEF Queue!Next
    <3>2. CASE Kept /\ ~(life = "registered" /\ HasRoom)
      <4>1. ~(life = "registered" /\ Len(Contents) < len)
        BY <3>2, ContentsSeq, ListenerAssumption DEF HasRoom, Occupied, IInv, TypeOK
      <4>2. QED
        BY <2>2, <3>2, <4>1, KeptContents DEF put, Queue!Next, Queue!Put
    <3>3. QED
      BY <2>2, <3>1, <3>2, PutPushes
  <2>3. CASE init
    BY <2>3 DEF init, Contents, Queue!vars
  <2>4. CASE register_queue
    <3>1. Occupied' = 0 /\ life' = "registered" /\ life # "registered"
      BY <2>4 DEF register_queue, IInv, Lifecycle, Occupied
    <3>2. Contents = << >> /\ Contents' = << >>
      BY <3>1 DEF Contents
    <3>3. QED
      BY <2>4, <3>1, <3>2 DEF register_queue, Queue!Next, Queue!Open
  <2>5. CASE unregister_queue
    BY <2>5 DEF unregister_queue, Contents, Queue!Next, Queue!Close
  <2>6. CASE ReceiveWait \/ ReceiveTimedOut \/ Timeout \/ UNCHANGED vars
    BY <2>6, OthersKeep, KeptContents DEF Queue!vars
  <2>7. QED
    BY <2>1, <2>2, <2>3, <2>4, <2>5, <2>6 DEF Next, Receiver
<1>3. QED
  BY <1>1, <1>2, Invariance, PTL DEF Spec, Queue!Spec
=============================================================================
