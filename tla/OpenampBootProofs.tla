------------------------- MODULE OpenampBootProofs --------------------------
(***************************************************************************)
(* Theorems about the start of the firmware and its mailbox, for every     *)
(* depth of the FIFOs, number of virtual UARTs and length of the ring.     *)
(***************************************************************************)
EXTENDS OpenampBoot, SequenceLemmas

-----------------------------------------------------------------------------
(***************************************************************************)
(* The mailbox.                                                            *)
(***************************************************************************)
\* Every step of the mailbox keeps the types and the promise of a word for the
\* host: a word dropped at a full FIFO finds other words in it.
LEMMA MailInductive ==
  /\ MailInit => NotificationKept
  /\ NotificationKept /\ [MailNext]_mailVars => NotificationKept'
<1> DEFINE Flags  == irq_en \in BOOLEAN /\ irq_sta \in BOOLEAN /\ news \in BOOLEAN
           Levels == /\ inbox \in 0 .. MSGBOX_MAX_QUEUE /\ outbox \in 0 .. MSGBOX_MAX_QUEUE
                     /\ isr \in {"off", "read", "receive", "clear"}
                     /\ sending \in [Sender -> {"no", "poll", "write"}]
           Kept   == news => outbox > 0 \/ \E c \in Sender : sending[c] # "no"
<1>0. /\ NotificationKept <=> Flags /\ Levels /\ Kept
      /\ NotificationKept' <=> Flags' /\ Levels' /\ Kept'
  BY DEF NotificationKept, MailTypeOK
<1>1. MailInit => Flags /\ Levels /\ Kept
  <2>1. MailInit => Flags /\ Kept
    BY DEF MailInit
  <2>2. MailInit => Levels
    BY DepthAssumption DEF MailInit
  <2> QED
    BY <2>1, <2>2
<1>2. ASSUME Flags, Levels, Kept, [MailNext]_mailVars
      PROVE  Flags' /\ Levels' /\ Kept'
  <2> USE <1>2, DepthAssumption
  <2>1. ASSUME NEW c \in Sender, SendStart(c) \/ SendPoll(c) \/ SendWrite(c)
        PROVE  Flags' /\ Levels' /\ Kept'
    <3>1. Flags'
      BY <2>1, Zenon DEF SendStart, SendPoll, SendWrite
    <3>2. Levels'
      BY <2>1 DEF SendStart, SendPoll, SendWrite
    <3>3. CASE SendStart(c)
      BY <3>1, <3>2, <3>3 DEF SendStart
    <3>4. CASE SendPoll(c)
      BY <3>1, <3>2, <3>4 DEF SendPoll
    <3>5. CASE SendWrite(c)
      <4>1. outbox' > 0
        BY <3>5 DEF SendWrite
      <4> QED
        BY <3>1, <3>2, <4>1
    <3> QED
      BY <2>1, <3>3, <3>4, <3>5
  <2>2. CASE IsrStep
    <3> USE DEF IsrStep, IsrEnter, IsrRead, IsrReceived, IsrEmpty, IsrClear
    <3>0. (inbox > 0) \in BOOLEAN
      OBVIOUS
    <3>1. Flags'
      BY <2>2, <3>0, Zenon
    <3>2. Levels' /\ Kept'
      BY <2>2
    <3> QED
      BY <3>1, <3>2
  <2>3. CASE EnableReceive \/ HostPost \/ HostFetch
    <3>1. Flags'
      BY <2>3, Zenon DEF EnableReceive, HostPost, HostFetch
    <3>2. Levels' /\ Kept'
      BY <2>3 DEF EnableReceive, HostPost, HostFetch
    <3> QED
      BY <3>1, <3>2
  <2>4. CASE UNCHANGED mailVars
    BY <2>4, Zenon DEF mailVars
  <2> QED
    BY <2>1, <2>2, <2>3, <2>4 DEF MailNext
<1> HIDE DEF Flags, Levels, Kept
<1> QED
  BY <1>0, <1>1, <1>2

\* What the firmware and the host do to the mailbox are steps of the mailbox.
LEMMA BootUsesMailbox == [Next]_vars => [MailNext]_mailVars
<1> SUFFICES ASSUME [Next]_vars PROVE [MailNext]_mailVars
  OBVIOUS
<1> USE DEF Sender
<1>1. CASE MainStep
  <2>1. CASE InitMsgbox \/ Announce
    BY <2>1 DEF InitMsgbox, Announce, MailNext
  <2>2. CASE ~(InitMsgbox \/ Announce)
    BY <1>1, <2>2 DEF MainStep, CreateVdev, CreateVdevFails, WaitRemoteReady, SetDevice,
         CreateTxQueue, AllocRxQueue, CreateRxQueue, AllocQueueFails, AssignQueues,
         SetShmIo, InitEndpoints, CreateEndpoint, RegisterCallback, Quiet
  <2> QED
    BY <2>1, <2>2
<1>2. CASE HandlerStep
  BY <1>2 DEF HandlerStep, Notified, RxCallback, Reply, Received, HandlerOnly,
       MailNext, IsrStep
<1>3. CASE MailStep
  BY <1>3 DEF MailStep, MailNext, IsrStep
<1>4. CASE HostReady \/ HostKick \/ HostReads \/ \E u \in UartSet : HostSend(u)
  BY <1>4 DEF HostReady, HostKick, HostReads, HostSend, MailNext
<1>5. CASE UNCHANGED vars
  BY <1>5 DEF vars
<1> QED
  BY <1>1, <1>2, <1>3, <1>4, <1>5 DEF Next

\* The firmware with its host implements the mailbox on its own: whatever main
\* and the handler send, and whenever, is a behaviour of Mailbox.
THEOREM BootImplementsMailbox == Spec => MailSpec
<1>1. Init => MailInit
  BY DEF Init
<1> QED
  BY <1>1, BootUsesMailbox, PTL DEF Spec, MailSpec

\* No notification of the host is lost, whichever of hal_msgbox_channel_send in
\* main and in the handler comes first at the last free entry of the FIFO.
THEOREM NotificationsKept == Spec => []NotificationKept
<1>1. MailSpec => []NotificationKept
  BY MailInductive, PTL DEF MailSpec
<1> QED
  BY <1>1, BootImplementsMailbox, PTL
-----------------------------------------------------------------------------
(***************************************************************************)
(* Main's program.                                                         *)
(***************************************************************************)
\* The structures in the order in which main builds them.
Order == <<"msgbox", "vdev", "wait", "rvdev", "txq", "rxq", "callback", "rvq",
           "shm_io", "endpoints">>

\* The step at position j of main's program.
StepAt(j) ==
  LET n == Len(Uarts) IN
  IF j <= 10 THEN Step(Order[j])
  ELSE IF j <= 10 + 2 * n THEN Setup(j - 10)
  ELSE IF j <= 10 + 3 * n THEN [op |-> "register", uart |-> Uarts[j - 10 - 2 * n]]
  ELSE Step("loop")

\* The UARTs are a non-empty sequence.
LEMMA UartFacts ==
  /\ Len(Uarts) \in Nat \ {0}
  /\ Uarts \in [1 .. Len(Uarts) -> UartSet]
  /\ DOMAIN Uarts = 1 .. Len(Uarts)
<1>1. Len(Uarts) \in Nat /\ Uarts \in [1 .. Len(Uarts) -> UartSet] /\ DOMAIN Uarts = 1 .. Len(Uarts)
  BY BootAssumption, LenProperties
<1>2. Len(Uarts) # 0
  BY BootAssumption, EmptySeq
<1> QED
  BY <1>1, <1>2

\* The program, position by position.
LEMMA ProgramShape ==
  /\ DOMAIN Program = 1 .. 11 + 3 * Len(Uarts)
  /\ \A j \in 1 .. 11 + 3 * Len(Uarts) : Program[j] = StepAt(j)
<1> DEFINE n == Len(Uarts)
           S == {StepAt(j) : j \in 1 .. 11 + 3 * n}
           A == <<Step("msgbox"), Step("vdev"), Step("wait"), Step("rvdev"), Step("txq"),
                  Step("rxq"), Step("callback"), Step("rvq"), Step("shm_io"), Step("endpoints")>>
           B == SetupUarts
           C == UartSteps("register")
           D == <<Step("loop")>>
<1>1. n \in Nat \ {0} /\ DOMAIN Uarts = 1 .. n
  BY UartFacts
<1>2. DOMAIN A = 1 .. 10 /\ A = [j \in 1 .. 10 |-> A[j]]
  OBVIOUS
<1>3. \A j \in 1 .. 10 : A[j] = Step(Order[j])
  <2>1. /\ A[1] = Step(Order[1]) /\ A[2] = Step(Order[2]) /\ A[3] = Step(Order[3])
        /\ A[4] = Step(Order[4]) /\ A[5] = Step(Order[5]) /\ A[6] = Step(Order[6])
        /\ A[7] = Step(Order[7]) /\ A[8] = Step(Order[8]) /\ A[9] = Step(Order[9])
        /\ A[10] = Step(Order[10])
    BY DEF Order
  <2>2. \A j \in 1 .. 10 : \/ j = 1 \/ j = 2 \/ j = 3 \/ j = 4 \/ j = 5
                           \/ j = 6 \/ j = 7 \/ j = 8 \/ j = 9 \/ j = 10
    OBVIOUS
  <2> HIDE DEF A
  <2> QED
    BY <2>1, <2>2
<1>4. Program = ((A \o B) \o C) \o D
  BY DEF Program
<1> HIDE DEF A
<1>5. /\ \A j \in 1 .. 10 : A[j] = StepAt(j)
      /\ A \in Seq(S) /\ Len(A) = 10
  <2>1. \A j \in 1 .. 10 : A[j] = StepAt(j)
    BY <1>3 DEF StepAt
  <2>2. \A j \in 1 .. 10 : StepAt(j) \in S
    BY <1>1
  <2>3. A \in [1 .. 10 -> S]
    BY <1>2, <2>1, <2>2
  <2> HIDE DEF S
  <2>4. A \in Seq(S) /\ Len(A) = 10
    BY <2>3, FunctionIsSeq
  <2> QED
    BY <2>1, <2>4
<1>6. /\ \A j \in 1 .. 2 * n : B[j] = StepAt(10 + j)
      /\ B \in Seq(S) /\ Len(B) = 2 * n
  <2>1. \A j \in 1 .. 2 * n : B[j] = Setup(j)
    BY DEF SetupUarts
  <2>2. \A j \in 1 .. 2 * n : Setup(j) = StepAt(10 + j)
    BY <1>1 DEF StepAt
  <2>3. \A j \in 1 .. 2 * n : StepAt(10 + j) \in S
    BY <1>1
  <2>4. B \in [1 .. 2 * n -> S] /\ 2 * n \in Nat
    BY <1>1, <2>1, <2>2, <2>3 DEF SetupUarts
  <2> QED
    BY <2>1, <2>2, <2>4
<1>7. /\ \A j \in 1 .. n : C[j] = StepAt(10 + 2 * n + j)
      /\ C \in Seq(S) /\ Len(C) = n
  <2>1. \A j \in 1 .. n : C[j] = [op |-> "register", uart |-> Uarts[j]]
    BY <1>1 DEF UartSteps
  <2>2. ASSUME NEW j \in 1 .. n
        PROVE  StepAt(10 + 2 * n + j) = [op |-> "register", uart |-> Uarts[j]]
    <3>1. /\ 10 + 2 * n + j - 10 - 2 * n = j
          /\ ~(10 + 2 * n + j <= 10) /\ ~(10 + 2 * n + j <= 10 + 2 * n)
          /\ 10 + 2 * n + j <= 10 + 3 * n
      BY <1>1
    <3> QED
      BY <3>1 DEF StepAt
  <2>3. \A j \in 1 .. n : StepAt(10 + 2 * n + j) \in S
    BY <1>1
  <2>4. C \in [1 .. n -> S]
    BY <1>1, <2>1, <2>2, <2>3 DEF UartSteps
  <2>5. \A j \in 1 .. n : C[j] = StepAt(10 + 2 * n + j)
    BY <2>1, <2>2
  <2> HIDE DEF C, S
  <2> QED
    BY <1>1, <2>4, <2>5, FunctionIsSeq
<1>8. D[1] = StepAt(11 + 3 * n) /\ D \in Seq(S) /\ Len(D) = 1
  <2>1. StepAt(11 + 3 * n) = Step("loop")
    BY <1>1 DEF StepAt
  <2>2. StepAt(11 + 3 * n) \in S
    BY <1>1
  <2> QED
    BY <2>1, <2>2
<1> HIDE DEF B, C, D, S
<1>9. /\ A \o B \in Seq(S) /\ Len(A \o B) = 10 + 2 * n
      /\ \A j \in 1 .. 10 + 2 * n : (A \o B)[j] = IF j <= 10 THEN A[j] ELSE B[j - 10]
  <2>1. /\ A \o B \in Seq(S) /\ Len(A \o B) = Len(A) + Len(B)
        /\ \A j \in 1 .. Len(A) + Len(B) :
             (A \o B)[j] = IF j <= Len(A) THEN A[j] ELSE B[j - Len(A)]
    BY <1>5, <1>6, ConcatProperties
  <2> QED
    BY <1>5, <1>6, <2>1
<1> DEFINE AB == A \o B
<1> HIDE DEF AB
<1>10. /\ AB \o C \in Seq(S) /\ Len(AB \o C) = 10 + 2 * n + n
       /\ \A j \in 1 .. 10 + 2 * n + n :
            (AB \o C)[j] = IF j <= 10 + 2 * n THEN AB[j] ELSE C[j - (10 + 2 * n)]
  <2>1. AB \in Seq(S) /\ Len(AB) = 10 + 2 * n
    BY <1>9 DEF AB
  <2>0. C \in Seq(S)
    BY <1>7
  <2>2. /\ AB \o C \in Seq(S) /\ Len(AB \o C) = Len(AB) + Len(C)
        /\ \A j \in 1 .. Len(AB) + Len(C) :
             (AB \o C)[j] = IF j <= Len(AB) THEN AB[j] ELSE C[j - Len(AB)]
    BY <2>0, <2>1, ConcatProperties, Zenon
  <2> QED
    BY <1>7, <2>1, <2>2
<1> DEFINE ABC == AB \o C
<1> HIDE DEF ABC
<1>11. /\ Program \in Seq(S) /\ Len(Program) = 10 + 2 * n + n + 1
       /\ \A j \in 1 .. 10 + 2 * n + n + 1 :
            Program[j] = IF j <= 10 + 2 * n + n THEN ABC[j] ELSE D[j - (10 + 2 * n + n)]
  <2>1. ABC \in Seq(S) /\ Len(ABC) = 10 + 2 * n + n
    BY <1>10 DEF ABC
  <2>0. D \in Seq(S)
    BY <1>8
  <2>2. /\ ABC \o D \in Seq(S) /\ Len(ABC \o D) = Len(ABC) + Len(D)
        /\ \A j \in 1 .. Len(ABC) + Len(D) :
             (ABC \o D)[j] = IF j <= Len(ABC) THEN ABC[j] ELSE D[j - Len(ABC)]
    <3>1. PICK x, y \in Seq(S) : x = ABC /\ y = D
      BY <2>0, <2>1
    <3>2. /\ x \o y \in Seq(S) /\ Len(x \o y) = Len(x) + Len(y)
          /\ \A j \in 1 .. Len(x) + Len(y) :
               (x \o y)[j] = IF j <= Len(x) THEN x[j] ELSE y[j - Len(x)]
      BY ConcatProperties, Zenon
    <3> QED
      BY <3>1, <3>2, Zenon
  <2>3. Program = ABC \o D
    BY <1>4 DEF ABC, AB
  <2> QED
    BY <1>8, <2>1, <2>2, <2>3
<1>12. ASSUME NEW j \in 1 .. 11 + 3 * n PROVE Program[j] = StepAt(j)
  <2>1. CASE j <= 10
    <3>1. Program[j] = AB[j]
      <4>1. Program[j] = ABC[j]
        BY <1>1, <1>11, <2>1
      <4>2. ABC[j] = AB[j]
        BY <1>1, <1>10, <2>1 DEF ABC
      <4> QED
        BY <4>1, <4>2
    <3> QED
      BY <1>1, <1>5, <1>9, <2>1, <3>1 DEF AB
  <2>2. CASE 10 < j /\ j <= 10 + 2 * n
    <3>1. j - 10 \in 1 .. 2 * n /\ 10 + (j - 10) = j
      BY <1>1, <2>2
    <3>2. Program[j] = AB[j]
      <4>1. Program[j] = ABC[j]
        BY <1>1, <1>11, <2>2
      <4>2. ABC[j] = AB[j]
        BY <1>1, <1>10, <2>2 DEF ABC
      <4> QED
        BY <4>1, <4>2
    <3> QED
      BY <1>1, <1>6, <1>9, <2>2, <3>1, <3>2 DEF AB
  <2>3. CASE 10 + 2 * n < j /\ j <= 10 + 3 * n
    <3>1. j - (10 + 2 * n) \in 1 .. n /\ 10 + 2 * n + (j - (10 + 2 * n)) = j
      BY <1>1, <2>3
    <3>2. Program[j] = ABC[j]
      BY <1>1, <1>11, <2>3
    <3> QED
      BY <1>1, <1>7, <1>10, <2>3, <3>1, <3>2 DEF ABC
  <2>4. CASE j = 11 + 3 * n
    BY <1>1, <1>8, <1>11, <2>4
  <2> QED
    BY <1>1, <2>1, <2>2, <2>3, <2>4
<1>13. 10 + 2 * n + n + 1 = 11 + 3 * n
  BY <1>1
<1> QED
  BY <1>11, <1>12, <1>13, LenProperties

\* What main has built before position m + 1.
Prefix(m) == {Order[k] : k \in 1 .. m}

\* Every structure is built once, at its own position.
LEMMA OrderFacts ==
  \A k \in 1 .. 10 :
    /\ Order[k] \notin {"create", "announce", "register", "loop"}
    /\ Order[k] = "vdev" <=> k = 2
    /\ Order[k] = "rvdev" <=> k = 4
    /\ Order[k] = "txq" <=> k = 5
    /\ Order[k] = "rxq" <=> k = 6
    /\ Order[k] = "callback" <=> k = 7
    /\ Order[k] = "rvq" <=> k = 8
    /\ Order[k] = "shm_io" <=> k = 9
    /\ Order[k] = "endpoints" <=> k = 10
<1> SUFFICES ASSUME NEW k \in 1 .. 10
             PROVE  /\ Order[k] \notin {"create", "announce", "register", "loop"}
                    /\ Order[k] = "vdev" <=> k = 2
                    /\ Order[k] = "rvdev" <=> k = 4
                    /\ Order[k] = "txq" <=> k = 5
                    /\ Order[k] = "rxq" <=> k = 6
                    /\ Order[k] = "callback" <=> k = 7
                    /\ Order[k] = "rvq" <=> k = 8
                    /\ Order[k] = "shm_io" <=> k = 9
                    /\ Order[k] = "endpoints" <=> k = 10
  OBVIOUS
<1>1. \/ k = 1 \/ k = 2 \/ k = 3 \/ k = 4 \/ k = 5
      \/ k = 6 \/ k = 7 \/ k = 8 \/ k = 9 \/ k = 10
  OBVIOUS
<1> QED
  BY <1>1 DEF Order

\* What has been built, read off the position.
LEMMA PrefixFacts ==
  \A m \in 0 .. 10 :
    /\ "rvdev" \in Prefix(m) <=> m >= 4
    /\ "rxq" \in Prefix(m) <=> m >= 6
    /\ "callback" \in Prefix(m) <=> m >= 7
    /\ "rvq" \in Prefix(m) <=> m >= 8
    /\ "shm_io" \in Prefix(m) <=> m >= 9
    /\ "endpoints" \in Prefix(m) <=> m >= 10
<1>1. ASSUME NEW m \in 0 .. 10, NEW i \in 1 .. 10, NEW x,
             \A k \in 1 .. 10 : Order[k] = x <=> k = i
      PROVE  x \in Prefix(m) <=> m >= i
  <2>1. Order[i] = x
    BY <1>1
  <2>2. m >= i => x \in Prefix(m)
    BY <2>1 DEF Prefix
  <2>3. x \in Prefix(m) => m >= i
    <3> SUFFICES ASSUME NEW k \in 1 .. m, Order[k] = x PROVE m >= i
      BY DEF Prefix
    <3> QED
      BY <1>1
  <2> QED
    BY <2>2, <2>3
<1> HIDE <1>1
<1> SUFFICES ASSUME NEW m \in 0 .. 10
    PROVE  /\ "rvdev" \in Prefix(m) <=> m >= 4
           /\ "rxq" \in Prefix(m) <=> m >= 6
           /\ "callback" \in Prefix(m) <=> m >= 7
           /\ "rvq" \in Prefix(m) <=> m >= 8
           /\ "shm_io" \in Prefix(m) <=> m >= 9
           /\ "endpoints" \in Prefix(m) <=> m >= 10
  OBVIOUS
<1>2. \A k \in 1 .. 10 : Order[k] = "rvdev" <=> k = 4
  BY OrderFacts
<1>3. \A k \in 1 .. 10 : Order[k] = "rxq" <=> k = 6
  BY OrderFacts
<1>4. \A k \in 1 .. 10 : Order[k] = "callback" <=> k = 7
  BY OrderFacts
<1>5. \A k \in 1 .. 10 : Order[k] = "rvq" <=> k = 8
  BY OrderFacts
<1>6. \A k \in 1 .. 10 : Order[k] = "shm_io" <=> k = 9
  BY OrderFacts
<1>7. \A k \in 1 .. 10 : Order[k] = "endpoints" <=> k = 10
  BY OrderFacts
<1>8. "rvdev" \in Prefix(m) <=> m >= 4
  BY <1>1, <1>2
<1>9. "rxq" \in Prefix(m) <=> m >= 6
  BY <1>1, <1>3
<1>10. "callback" \in Prefix(m) <=> m >= 7
  BY <1>1, <1>4
<1>11. "rvq" \in Prefix(m) <=> m >= 8
  BY <1>1, <1>5
<1>12. "shm_io" \in Prefix(m) <=> m >= 9
  BY <1>1, <1>6
<1>13. "endpoints" \in Prefix(m) <=> m >= 10
  BY <1>1, <1>7
<1> QED
  BY <1>8, <1>9, <1>10, <1>11, <1>12, <1>13

\* Which positions an operation has.
LEMMA Positions ==
  ASSUME NEW j \in DOMAIN Program
  PROVE  /\ j \in 1 .. 11 + 3 * Len(Uarts)
         /\ j <= 10 => Program[j].op = Order[j]
         /\ j > 10 => Program[j].op \in {"create", "announce", "register", "loop"}
         /\ Program[j].op = "create" =>
              \E i \in DOMAIN Uarts : j = 9 + 2 * i /\ Program[j].uart = Uarts[i]
         /\ Program[j].op = "announce" =>
              \E i \in DOMAIN Uarts : j = 10 + 2 * i /\ Program[j].uart = Uarts[i]
         /\ Program[j].op = "register" => j > 10 + 2 * Len(Uarts)
         /\ Program[j].op # "loop" => j + 1 \in DOMAIN Program
<1> DEFINE n == Len(Uarts)
<1>1. n \in Nat \ {0} /\ DOMAIN Uarts = 1 .. n
  BY UartFacts
<1>2. j \in 1 .. 11 + 3 * n /\ Program[j] = StepAt(j) /\ DOMAIN Program = 1 .. 11 + 3 * n
  BY ProgramShape
<1> HIDE DEF n
<1>3. CASE j <= 10
  <2>1. Program[j].op = Order[j]
    BY <1>2, <1>3 DEF StepAt, Step
  <2>2. j \in 1 .. 10 /\ j + 1 \in 1 .. 11 + 3 * n
    BY <1>1, <1>2, <1>3
  <2>3. Program[j].op \notin {"create", "announce", "register", "loop"}
    BY <2>1, <2>2, OrderFacts
  <2>4. j + 1 \in DOMAIN Program /\ ~(j > 10)
    BY <1>2, <1>3, <2>2
  <2> QED
    BY <1>2, <2>1, <2>3, <2>4 DEF n
<1>4. CASE 10 < j /\ j <= 10 + 2 * n
  <2>1. Program[j] = Setup(j - 10)
    BY <1>1, <1>2, <1>4 DEF StepAt, n
  <2>2. CASE (j - 10) % 2 = 1
    <3>1. ((j - 10) + 1) \div 2 \in 1 .. n /\ j = 9 + 2 * (((j - 10) + 1) \div 2)
      BY <1>1, <1>2, <1>4, <2>2
    <3>2. Program[j] = [op |-> "create", uart |-> Uarts[((j - 10) + 1) \div 2]]
      BY <2>1, <2>2 DEF Setup
    <3>3. PICK i \in 1 .. n : j = 9 + 2 * i /\ Program[j] = [op |-> "create", uart |-> Uarts[i]]
      BY <3>1, <3>2
    <3>4. Program[j].op = "create" /\ Program[j].uart = Uarts[i]
      BY <3>3
    <3> HIDE <3>1, <3>2
    <3> QED
      BY <1>1, <1>2, <1>4, <3>3, <3>4 DEF n
  <2>3. CASE (j - 10) % 2 # 1
    <3>0. (j - 10) % 2 = 0
      BY <1>1, <1>2, <2>3
    <3>1. (j - 10) \div 2 \in 1 .. n /\ j = 10 + 2 * ((j - 10) \div 2)
      <4>1. PICK x \in Nat : x = j - 10
        BY <1>1, <1>2, <1>4
      <4>2. x % 2 = 0 /\ 1 <= x /\ x <= 2 * n
        BY <1>1, <1>2, <1>4, <3>0, <4>1
      <4>3. x \div 2 \in 1 .. n /\ x = 2 * (x \div 2)
        BY <1>1, <4>2
      <4>4. j = 10 + x
        <5>1. j \in Nat
          BY <1>1, <1>2
        <5> QED
          BY <4>1, <5>1
      <4> QED
        BY <4>1, <4>3, <4>4
    <3>2. Program[j] = [op |-> "announce", uart |-> Uarts[(j - 10) \div 2]]
      BY <2>1, <2>3 DEF Setup
    <3>3. PICK i \in 1 .. n : j = 10 + 2 * i /\ Program[j] = [op |-> "announce", uart |-> Uarts[i]]
      BY <3>1, <3>2
    <3>4. Program[j].op = "announce" /\ Program[j].uart = Uarts[i]
      BY <3>3
    <3> HIDE <3>1, <3>2
    <3> QED
      BY <1>1, <1>2, <1>4, <3>3, <3>4 DEF n
  <2> QED
    BY <2>2, <2>3
<1>5. CASE 10 + 2 * n < j /\ j <= 10 + 3 * n
  <2>1. Program[j].op = "register"
    BY <1>1, <1>2, <1>5 DEF StepAt, n
  <2> QED
    BY <1>1, <1>2, <1>5, <2>1 DEF n
<1>6. CASE j = 11 + 3 * n
  <2>1. Program[j].op = "loop"
    BY <1>1, <1>2, <1>6 DEF StepAt, Step, n
  <2> QED
    BY <1>1, <1>2, <1>6, <2>1 DEF n
<1> QED
  BY <1>1, <1>2, <1>3, <1>4, <1>5, <1>6

\* After an error main goes on with the first virt_uart_init.
LEMMA FirstUartStep == FirstUart \in DOMAIN Program /\ Program[FirstUart].op = "create"
<1>1. 11 \in DOMAIN Program /\ Program[11] = Setup(1)
  BY UartFacts, ProgramShape DEF StepAt
<1>2. Program[11].op = "create" /\ Program[11].uart = Uarts[1]
  BY <1>1 DEF Setup
<1> QED
  BY <1>1, <1>2 DEF FirstUart
-----------------------------------------------------------------------------
(***************************************************************************)
(* The inductive invariant.  Up to its first virtual UART, main has built  *)
(* exactly what lies behind it; without memory it has built at most the    *)
(* transmit queue and stays at the first UART.                             *)
(***************************************************************************)
BuildInv ==
  /\ pc \in DOMAIN Program
  /\ ~starved /\ pc <= 11 => up = Prefix(pc - 1)
  /\ ~starved /\ pc > 11 => Prefix(10) \subseteq up
  /\ ~starved => \A i \in DOMAIN Uarts : 9 + 2 * i < pc => Uarts[i] \in up
  /\ starved => pc = FirstUart /\ up \subseteq Prefix(5)

\* The host knows what it was told, and sends to nobody else.
TellInv ==
  /\ known \subseteq told /\ told \subseteq up
  /\ told # {} => ~starved /\ pc > 11
  /\ ring \in Seq(UartSet) /\ \A i \in 1 .. Len(ring) : ring[i] \in told

\* Where main was when the core followed a bad pointer.
FaultInv == fault => starved \/ (eager /\ 4 < pc /\ pc <= 8)

\* A host that waits for an announcement leaves the mailbox alone until then.
QuietInv == ~eager /\ known = {} => inbox = 0 /\ ~irq_sta /\ isr = "off"

\* The handler's loop runs only where the receive queue has its callback.
HandlerInv ==
  /\ handler \in {"idle", "rx", "reply", "done"}
  /\ isr # "receive" => handler = "idle"
  /\ handler \in {"rx", "reply"} => ~starved /\ pc > 7

BootInv == BuildInv /\ TellInv /\ FaultInv /\ QuietInv /\ HandlerInv /\ NoStrandedMessage

\* Each step of main adds one structure.
LEMMA PrefixGrows ==
  /\ Prefix(0) = {}
  /\ \A m \in 0 .. 9 : Prefix(m + 1) = Prefix(m) \cup {Order[m + 1]}
  /\ \A m \in 0 .. 10 : Prefix(m) \subseteq Prefix(10)
  /\ \A m \in 0 .. 5 : Prefix(m) \subseteq Prefix(5)
  BY DEF Prefix

\* The invariant holds when main starts.
LEMMA BootInvInit == Init => BootInv
<1> SUFFICES ASSUME Init PROVE BootInv
  OBVIOUS
<1>1. 1 \in DOMAIN Program
  BY UartFacts, ProgramShape
<1>2. \A i \in DOMAIN Uarts : ~(9 + 2 * i < 1)
  BY UartFacts
<1>3. BuildInv
  BY <1>1, <1>2, PrefixGrows DEF Init, BuildInv
<1>4. TellInv /\ NoStrandedMessage
  BY DEF Init, TellInv, NoStrandedMessage
<1>5. FaultInv /\ QuietInv /\ HandlerInv
  BY DEF Init, MailInit, FaultInv, QuietInv, HandlerInv
<1> QED
  BY <1>3, <1>4, <1>5 DEF BootInv

\* The steps of main that build something.
LEMMA BuildKeeps ==
  ASSUME BootInv, NEW op, op \notin {"create", "announce", "register", "loop"}, Build(op),
         UNCHANGED <<inbox, irq_sta, isr, ring, handler, fault, told, known, eager, starved>>
  PROVE  BootInv'
<1>1. pc \in DOMAIN Program /\ pc \in Nat /\ pc + 1 \in DOMAIN Program
  BY Positions, UartFacts DEF BootInv, BuildInv, Build, At
<1>2. pc <= 10 /\ pc >= 1 /\ op = Order[pc]
  BY <1>1, Positions DEF Build, At
<1>3. ~starved
  BY FirstUartStep DEF BootInv, BuildInv, Build, At
<1>4. up' = Prefix(pc) /\ pc' = pc + 1 /\ up \subseteq up'
  BY <1>1, <1>2, <1>3, PrefixGrows DEF BootInv, BuildInv, Build
<1>5. BuildInv'
  <2>1. \A i \in DOMAIN Uarts : ~(9 + 2 * i < pc + 1)
    BY <1>1, <1>2, UartFacts
  <2> QED
    BY <1>1, <1>2, <1>3, <1>4, <2>1 DEF BuildInv
<1>6. TellInv'
  BY <1>1, <1>2, <1>4 DEF BootInv, TellInv
<1>7. FaultInv' /\ QuietInv' /\ HandlerInv' /\ NoStrandedMessage'
  BY <1>1, <1>4 DEF BootInv, FaultInv, QuietInv, HandlerInv, NoStrandedMessage, Build, At
<1> QED
  BY <1>5, <1>6, <1>7 DEF BootInv

\* The allocations of sunxi_openamp_init that fail.
LEMMA FailureKeeps ==
  ASSUME BootInv, CreateVdevFails \/ AllocQueueFails
  PROVE  BootInv'
<1> USE DEF CreateVdevFails, AllocQueueFails
<1>1. At("vdev") \/ At("txq") \/ At("rxq")
  OBVIOUS
<1>2. pc \in DOMAIN Program /\ pc \in Nat /\ pc <= 10 /\ pc >= 1
  BY <1>1, Positions, UartFacts DEF BootInv, BuildInv, At
<1>3. pc <= 6 /\ ~starved
  <2>1. Program[pc].op \in {"vdev", "txq", "rxq"}
    BY <1>1 DEF At
  <2>2. Program[pc].op = Order[pc] /\ pc \in 1 .. 10
    BY <1>2, Positions
  <2>3. pc = 2 \/ pc = 5 \/ pc = 6
    BY <2>1, <2>2, OrderFacts
  <2>4. pc # FirstUart
    BY <2>1, FirstUartStep
  <2> QED
    BY <2>3, <2>4 DEF BootInv, BuildInv
<1>4. up \subseteq Prefix(5)
  BY <1>2, <1>3, PrefixGrows DEF BootInv, BuildInv
<1>5. BuildInv'
  BY <1>4, FirstUartStep DEF BuildInv
<1>6. TellInv'
  BY <1>2 DEF BootInv, TellInv
<1>7. FaultInv' /\ QuietInv' /\ NoStrandedMessage'
  BY DEF BootInv, FaultInv, QuietInv, NoStrandedMessage, mailVars
<1>8. HandlerInv'
  BY <1>1 DEF BootInv, HandlerInv, At, MainRuns, mailVars
<1> QED
  BY <1>5, <1>6, <1>7, <1>8 DEF BootInv

\* The steps of main that set up the virtual UARTs.
LEMMA UartKeeps ==
  ASSUME BootInv, CreateEndpoint \/ Announce \/ RegisterCallback
  PROVE  BootInv'
<1>0. pc \in DOMAIN Program /\ pc \in Nat
  BY Positions, UartFacts DEF BootInv, BuildInv
<1>1. CASE CreateEndpoint
  <2>0. Program[pc].op = "create"
    BY <1>1 DEF CreateEndpoint, At
  <2>1. PICK i \in DOMAIN Uarts : pc = 9 + 2 * i /\ Program[pc].uart = Uarts[i]
    BY <1>0, <2>0, Positions
  <2>2. i \in Nat /\ i >= 1 /\ pc >= 11 /\ pc + 1 \in DOMAIN Program
    BY <1>0, <1>1, <2>1, UartFacts, Positions DEF CreateEndpoint, At
  <2>3. CASE "endpoints" \in up
    <3>1. up' = up \cup {Uarts[i]} /\ pc' = pc + 1 /\ UNCHANGED fault
      BY <1>1, <2>1, <2>3 DEF CreateEndpoint
    <3>2. ~starved
      BY <2>3, PrefixFacts DEF BootInv, BuildInv
    <3>3. Prefix(10) \subseteq up
      <4>1. pc - 1 = 10 \/ pc > 11
        BY <1>0, <2>2
      <4> QED
        BY <1>0, <2>2, <3>2, <4>1 DEF BootInv, BuildInv
    <3>4. ASSUME NEW j \in DOMAIN Uarts, 9 + 2 * j < pc + 1 PROVE Uarts[j] \in up'
      <4>1. j \in Nat
        BY UartFacts
      <4>2. j = i \/ 9 + 2 * j < pc
        BY <2>1, <2>2, <3>4, <4>1
      <4> QED
        BY <3>1, <3>2, <4>2 DEF BootInv, BuildInv
    <3>5. BuildInv'
      <4>1. pc' > 11 /\ UNCHANGED starved
        BY <1>0, <1>1, <2>2, <3>1 DEF CreateEndpoint
      <4> QED
        BY <1>0, <2>2, <3>1, <3>2, <3>3, <3>4, <4>1 DEF BuildInv
    <3>6. TellInv'
      BY <1>0, <1>1, <3>1 DEF BootInv, TellInv, CreateEndpoint
    <3>7. FaultInv' /\ QuietInv' /\ HandlerInv' /\ NoStrandedMessage'
      BY <1>0, <1>1, <3>1 DEF BootInv, FaultInv, QuietInv, HandlerInv, NoStrandedMessage,
           CreateEndpoint, At, mailVars
    <3> QED
      BY <3>5, <3>6, <3>7 DEF BootInv
  <2>4. CASE "endpoints" \notin up
    <3>1. starved
      <4>1. pc - 1 = 10 \/ pc > 11
        BY <1>0, <2>2
      <4>2. "endpoints" \in Prefix(10)
        BY PrefixFacts
      <4> QED
        BY <1>0, <2>2, <2>4, <4>1, <4>2 DEF BootInv, BuildInv
    <3>2. UNCHANGED <<up, pc>> /\ fault'
      BY <1>1, <2>4 DEF CreateEndpoint
    <3> QED
      BY <1>1, <3>1, <3>2 DEF BootInv, BuildInv, TellInv, FaultInv, QuietInv, HandlerInv,
           NoStrandedMessage, CreateEndpoint, mailVars
  <2> QED
    BY <2>3, <2>4
<1>2. CASE Announce \/ RegisterCallback
  <2>0. At("announce") \/ At("register")
    BY <1>2 DEF Announce, RegisterCallback
  <2>1. ~starved
    BY <2>0, FirstUartStep DEF BootInv, BuildInv, At
  <2>2. pc > 11 /\ pc + 1 \in DOMAIN Program
    BY <1>0, <2>0, UartFacts, Positions DEF At
  <2>3. /\ pc' = pc + 1
        /\ UNCHANGED <<inbox, irq_sta, isr, up, ring, handler, fault, known, eager, starved>>
    BY <1>2 DEF Announce, RegisterCallback, SendStart, mailVars
  <2>4. told \subseteq told' /\ told' \subseteq up
    <3>1. CASE Announce
      <4>1. PICK i \in DOMAIN Uarts : pc = 10 + 2 * i /\ Program[pc].uart = Uarts[i]
        BY <1>0, <3>1, Positions DEF Announce, At
      <4>2. 9 + 2 * i < pc
        BY <4>1, UartFacts
      <4>3. Uarts[i] \in up
        BY <2>1, <4>2 DEF BootInv, BuildInv
      <4> QED
        BY <3>1, <4>1, <4>3 DEF BootInv, TellInv, Announce
    <3>2. CASE RegisterCallback
      BY <3>2 DEF BootInv, TellInv, RegisterCallback
    <3> QED
      BY <1>2, <3>1, <3>2
  <2>5. BuildInv'
    <3>1. ASSUME NEW j \in DOMAIN Uarts, 9 + 2 * j < pc + 1 PROVE Uarts[j] \in up
      <4>1. CASE At("announce")
        <5>1. PICK i \in DOMAIN Uarts : pc = 10 + 2 * i
          BY <1>0, <4>1, Positions DEF At
        <5>2. 9 + 2 * j < pc
          <6>1. i \in Nat /\ j \in Nat
            BY UartFacts
          <6> QED
            BY <3>1, <5>1, <6>1
        <5> QED
          BY <2>1, <5>2 DEF BootInv, BuildInv
      <4>2. CASE At("register")
        <5>1. pc > 10 + 2 * Len(Uarts)
          BY <1>0, <4>2, Positions DEF At
        <5>2. 9 + 2 * j < pc
          BY <1>0, <5>1, UartFacts
        <5> QED
          BY <2>1, <5>2 DEF BootInv, BuildInv
      <4> QED
        BY <2>0, <4>1, <4>2
    <3> QED
      BY <1>0, <2>1, <2>2, <2>3, <3>1 DEF BootInv, BuildInv
  <2>6. TellInv'
    BY <1>0, <2>1, <2>2, <2>3, <2>4 DEF BootInv, TellInv
  <2>7. FaultInv' /\ QuietInv' /\ HandlerInv' /\ NoStrandedMessage'
    BY <1>0, <2>0, <2>3 DEF BootInv, FaultInv, QuietInv, HandlerInv, NoStrandedMessage, At
  <2> QED
    BY <2>5, <2>6, <2>7 DEF BootInv
<1> QED
  BY <1>1, <1>2

\* Once the host has been told of a UART, everything before it is built.
LEMMA ToldBuilt ==
  ASSUME BootInv, told # {}
  PROVE  {"rvdev", "rxq", "callback", "rvq", "shm_io", "endpoints"} \subseteq up
<1>1. Prefix(10) \subseteq up
  BY DEF BootInv, BuildInv, TellInv
<1> QED
  BY <1>1, PrefixFacts

\* A message in the ring is for a UART that was announced.
LEMMA RingTold ==
  ASSUME BootInv, ring # <<>>
  PROVE  told # {} /\ Len(ring) > 0 /\ ring[1] \in told
<1>1. Len(ring) \in Nat /\ Len(ring) # 0
  BY EmptySeq, LenProperties DEF BootInv, TellInv
<1> QED
  BY <1>1 DEF BootInv, TellInv

\* What main has built when it is between two positions.
LEMMA UpWhile ==
  ASSUME BootInv
  PROVE  /\ pc \in Nat
         /\ "rvdev" \in up /\ "rxq" \notin up => starved \/ (4 < pc /\ pc <= 8)
         /\ "rvdev" \in up /\ "rxq" \in up /\ "callback" \in up => ~starved /\ pc > 7
         /\ {"shm_io", "endpoints"} \subseteq up => ~starved /\ pc > 10
         /\ ~starved /\ pc > 8 => "rvq" \in up
         /\ starved \/ pc <= 8 => "rvq" \notin up
         /\ ~starved /\ pc > 4 => "rvdev" \in up
<1>0. pc \in Nat /\ pc >= 1
  BY Positions, UartFacts DEF BootInv, BuildInv
<1>1. CASE starved
  <2>1. up \subseteq Prefix(5)
    BY <1>1 DEF BootInv, BuildInv
  <2>2. "rxq" \notin up /\ "rvq" \notin up /\ "endpoints" \notin up
    BY <2>1, PrefixFacts
  <2> QED
    BY <1>0, <1>1, <2>2
<1>2. CASE ~starved /\ pc <= 11
  <2>1. pc - 1 \in 0 .. 10 /\ up = Prefix(pc - 1)
    BY <1>0, <1>2 DEF BootInv, BuildInv
  <2> QED
    BY <1>0, <1>2, <2>1, PrefixFacts
<1>3. CASE ~starved /\ pc > 11
  <2>1. Prefix(10) \subseteq up
    BY <1>3 DEF BootInv, BuildInv
  <2> QED
    BY <1>0, <1>3, <2>1, PrefixFacts
<1>4. pc <= 11 \/ pc > 11
  BY <1>0
<1> QED
  BY <1>1, <1>2, <1>3, <1>4

\* The interrupt handler.
LEMMA HandlerKeeps ==
  ASSUME BootInv, NotificationKept, HandlerStep
  PROVE  BootInv'
<1>0. /\ UNCHANGED <<pc, up, told, known, eager, starved, inbox, irq_sta>>
      /\ isr = "receive" /\ ~fault
  BY DEF HandlerStep, Notified, RxCallback, Reply, Received, InReceive, HandlerOnly,
       SendStart, IsrReceived, mailVars
<1>1. BuildInv'
  BY <1>0 DEF BootInv, BuildInv
<1>2. eager \/ known # {}
  BY <1>0 DEF BootInv, QuietInv
<1>3. QuietInv'
  BY <1>0, <1>2 DEF QuietInv
<1>4. known # {} => told # {}
  BY DEF BootInv, TellInv
<1>5. CASE Notified
  <2>1. UNCHANGED <<ring, isr>>
    BY <1>5 DEF Notified, HandlerOnly, mailVars
  <2>2. TellInv'
    BY <1>0, <2>1 DEF BootInv, TellInv
  <2>3. \/ handler' = "done" /\ UNCHANGED fault /\ ("rvdev" \notin up \/ "callback" \notin up)
        \/ "rvdev" \in up /\ "rxq" \notin up /\ MayFault
        \/ "rvdev" \in up /\ "rxq" \in up /\ "callback" \in up /\ handler' = "rx" /\ UNCHANGED fault
    BY <1>5 DEF Notified
  <2>4. FaultInv'
    BY <1>0, <1>2, <1>4, <2>3, UpWhile, ToldBuilt DEF FaultInv, MayFault
  <2>5. HandlerInv'
    BY <1>0, <2>1, <2>3, UpWhile DEF BootInv, HandlerInv, MayFault
  <2>6. NoStrandedMessage'
    BY <1>0, <2>1, <2>3, ToldBuilt, RingTold DEF NoStrandedMessage, MayFault
  <2> QED
    BY <1>1, <1>3, <2>2, <2>4, <2>5, <2>6 DEF BootInv
<1>6. CASE RxCallback
  <2>1. UNCHANGED isr /\ handler = "rx"
    BY <1>6 DEF RxCallback, HandlerOnly, InReceive, mailVars
  <2>2. \/ "rvq" \notin up /\ MayFault /\ UNCHANGED ring
        \/ ring = <<>> /\ handler' = "done" /\ UNCHANGED <<fault, ring>>
        \/ ring # <<>> /\ ~({"shm_io", "endpoints"} \subseteq up)
        \/ ring # <<>> /\ ring' = Tail(ring) /\ handler' \in {"rx", "reply"} /\ UNCHANGED fault
    BY <1>6 DEF RxCallback
  <2>3. \/ "rvq" \notin up /\ ring = <<>> /\ MayFault /\ UNCHANGED ring
        \/ ring = <<>> /\ handler' = "done" /\ UNCHANGED <<fault, ring>>
        \/ ring # <<>> /\ ring' = Tail(ring) /\ handler' \in {"rx", "reply"} /\ UNCHANGED fault
    BY <2>2, ToldBuilt, RingTold
  <2>4. TellInv'
    <3>1. CASE UNCHANGED ring
      BY <1>0, <3>1 DEF BootInv, TellInv
    <3>2. CASE ring # <<>> /\ ring' = Tail(ring)
      <4>1. ring \in Seq(UartSet)
        BY DEF BootInv, TellInv
      <4>2. Tail(ring) \in Seq(UartSet) /\ Len(Tail(ring)) = Len(ring) - 1
            /\ \A i \in 1 .. Len(Tail(ring)) : Tail(ring)[i] = ring[i + 1]
        BY <3>2, <4>1, HeadTailProperties
      <4>3. Len(ring) \in Nat
        BY <4>1, LenProperties
      <4>4. \A i \in 1 .. Len(Tail(ring)) : Tail(ring)[i] \in told
        BY <4>2, <4>3 DEF BootInv, TellInv
      <4> QED
        BY <1>0, <3>2, <4>2, <4>4 DEF BootInv, TellInv
    <3> QED
      BY <2>3, <3>1, <3>2
  <2>5. FaultInv'
    <3>0. pc \in Nat /\ pc > 7 /\ ~starved
      BY <2>1, UpWhile DEF BootInv, HandlerInv
    <3>1. "rvq" \notin up => 4 < pc /\ pc <= 8 /\ eager
      BY <1>2, <1>4, <3>0, UpWhile, ToldBuilt
    <3> QED
      BY <1>0, <2>3, <3>1 DEF FaultInv, MayFault
  <2>6. HandlerInv'
    BY <1>0, <2>1, <2>3 DEF BootInv, HandlerInv, MayFault
  <2>7. NoStrandedMessage'
    BY <1>0, <2>1, <2>3 DEF BootInv, NoStrandedMessage, MayFault
  <2> QED
    BY <1>1, <1>3, <2>4, <2>5, <2>6, <2>7 DEF BootInv
<1>7. CASE Reply \/ Received
  <2>1. UNCHANGED <<ring, fault>>
    BY <1>7 DEF Reply, Received
  <2>2. TellInv' /\ FaultInv'
    BY <1>0, <2>1 DEF BootInv, TellInv, FaultInv
  <2>3. HandlerInv' /\ NoStrandedMessage'
    BY <1>0, <1>7, <2>1 DEF BootInv, HandlerInv, NoStrandedMessage, Reply, Received,
         InReceive, SendStart, IsrReceived
  <2> QED
    BY <1>1, <1>3, <2>2, <2>3 DEF BootInv
<1> QED
  BY <1>5, <1>6, <1>7 DEF HandlerStep

\* The host, and the steps inside hal_msgbox_channel_send and the handler.
LEMMA OthersKeep ==
  ASSUME BootInv, NotificationKept,
         \/ MailStep \/ HostReady \/ HostKick \/ HostReads
         \/ \E u \in UartSet : HostSend(u)
         \/ UNCHANGED vars
  PROVE  BootInv'
<1>0. inbox \in Nat /\ isr \in {"off", "read", "receive", "clear"}
  BY DepthAssumption DEF NotificationKept, MailTypeOK
<1>1. UNCHANGED <<pc, up, told, eager, starved, handler, fault>>
  BY DEF MailStep, HostReady, HostKick, HostReads, HostSend, vars, bootVars
<1>2. BuildInv' /\ FaultInv'
  BY <1>1 DEF BootInv, BuildInv, FaultInv
<1>3. CASE MailStep
  <2> USE DEF MailStep, bootVars, SendPoll, SendWrite, IsrEnter, IsrRead, IsrEmpty, IsrClear
  <2>1. UNCHANGED <<ring, known>>
    BY <1>3
  <2>2. TellInv'
    BY <1>1, <2>1 DEF BootInv, TellInv
  <2>3. QuietInv'
    <3>1. CASE eager \/ known # {}
      BY <1>1, <2>1, <3>1 DEF QuietInv
    <3>2. CASE ~(eager \/ known # {})
      BY <1>1, <1>3, <2>1, <3>2 DEF BootInv, QuietInv
    <3> QED
      BY <3>1, <3>2
  <2>4. HandlerInv' /\ NoStrandedMessage'
    BY <1>0, <1>1, <1>3, <2>1 DEF BootInv, HandlerInv, NoStrandedMessage
  <2> QED
    BY <1>2, <2>2, <2>3, <2>4 DEF BootInv
<1>4. CASE HostReady \/ UNCHANGED vars
  BY <1>1, <1>2, <1>4 DEF BootInv, TellInv, QuietInv, HandlerInv, NoStrandedMessage,
       HostReady, vars, bootVars, mailVars
<1>5. CASE HostKick
  <2>1. UNCHANGED <<ring, known, isr>> /\ inbox' = inbox + 1 /\ (eager \/ known # {})
    BY <1>5 DEF HostKick, HostPost, bootVars
  <2> QED
    BY <1>0, <1>1, <1>2, <2>1 DEF BootInv, TellInv, QuietInv, HandlerInv, NoStrandedMessage
<1>6. CASE HostReads
  BY <1>1, <1>2, <1>6 DEF BootInv, TellInv, QuietInv, HandlerInv, NoStrandedMessage,
       HostReads, HostFetch
<1>7. ASSUME NEW u \in UartSet, HostSend(u) PROVE BootInv'
  <2>1. UNCHANGED <<known, isr>> /\ inbox' = inbox + 1 /\ u \in known /\ ring' = Append(ring, u)
    BY <1>7 DEF HostSend, HostPost
  <2>2. ring \in Seq(UartSet) /\ Len(ring) \in Nat
    BY LenProperties DEF BootInv, TellInv
  <2>3. /\ ring' \in Seq(UartSet) /\ Len(ring') = Len(ring) + 1
        /\ \A i \in 1 .. Len(ring) : ring'[i] = ring[i]
        /\ ring'[Len(ring) + 1] = u
    BY <2>1, <2>2, AppendProperties
  <2>4. \A i \in 1 .. Len(ring') : ring'[i] \in told
    BY <2>1, <2>2, <2>3 DEF BootInv, TellInv
  <2>5. TellInv'
    BY <1>1, <2>1, <2>3, <2>4 DEF BootInv, TellInv
  <2> QED
    BY <1>0, <1>1, <1>2, <2>1, <2>5 DEF BootInv, QuietInv, HandlerInv, NoStrandedMessage
<1> QED
  BY <1>3, <1>4, <1>5, <1>6, <1>7

\* Every step of main, of the handler and of the host keeps the invariant.
LEMMA BootInductive == BootInv /\ NotificationKept /\ [Next]_vars => BootInv'
<1> SUFFICES ASSUME BootInv, NotificationKept, [Next]_vars PROVE BootInv'
  OBVIOUS
<1>1. CASE MainStep
  <2>1. CASE InitMsgbox
    BY <2>1, BuildKeeps DEF InitMsgbox, EnableReceive
  <2>2. CASE \/ CreateVdev \/ WaitRemoteReady \/ SetDevice \/ CreateTxQueue \/ AllocRxQueue
             \/ CreateRxQueue \/ AssignQueues \/ SetShmIo \/ InitEndpoints
    <3>1. UNCHANGED <<inbox, irq_sta, isr, ring, handler, fault, told, known, eager, starved>>
      BY <2>2 DEF CreateVdev, WaitRemoteReady, SetDevice, CreateTxQueue, AllocRxQueue,
           CreateRxQueue, AssignQueues, SetShmIo, InitEndpoints, Quiet, mailVars
    <3>2. \E op : op \notin {"create", "announce", "register", "loop"} /\ Build(op)
      BY <2>2 DEF CreateVdev, WaitRemoteReady, SetDevice, CreateTxQueue, AllocRxQueue,
           CreateRxQueue, AssignQueues, SetShmIo, InitEndpoints
    <3> QED
      BY <3>1, <3>2, BuildKeeps
  <2> QED
    BY <1>1, <2>1, <2>2, FailureKeeps, UartKeeps DEF MainStep
<1> QED
  BY <1>1, HandlerKeeps, OthersKeep DEF Next

\* Main, its interrupt handler and the host keep the invariant in every order.
THEOREM BootInvariant == Spec => []BootInv
  BY BootInvInit, BootInductive, NotificationsKept, PTL DEF Spec

\* The handler and main follow a bad pointer in two cases only: the host kicks
\* between rvdev->vdev and rvdev->rvq, or metal_allocate_memory returned NULL.
THEOREM FaultsExplained == Spec => []FaultExplained
<1>1. BootInv => FaultExplained
  <2> SUFFICES ASSUME BootInv, fault PROVE "rvq" \notin up /\ (starved \/ (eager /\ "rvdev" \in up))
    BY DEF FaultExplained
  <2>0. pc \in Nat
    BY Positions, UartFacts DEF BootInv, BuildInv
  <2> QED
    BY <2>0, UpWhile DEF BootInv, FaultInv
<1> QED
  BY <1>1, BootInvariant, PTL

\* rpmsg_create_ept has put an endpoint on the list before the host can name it.
THEOREM AnnouncedAreReachable == Spec => []AnnouncedReachable
<1>1. BootInv => AnnouncedReachable
  <2> SUFFICES ASSUME BootInv PROVE AnnouncedReachable
    OBVIOUS
  <2>1. DOMAIN ring = 1 .. Len(ring)
    BY LenProperties DEF BootInv, TellInv
  <2>2. told \cup {ring[i] : i \in DOMAIN ring} \subseteq up
    BY <2>1 DEF BootInv, TellInv
  <2> QED
    BY <2>2, ToldBuilt DEF AnnouncedReachable
<1> QED
  BY <1>1, BootInvariant, PTL

\* No message stays in the receive ring unnoticed, whatever the handler dropped
\* while main was still building.
THEOREM NoneStranded == Spec => []NoStrandedMessage
<1>1. BootInv => NoStrandedMessage
  BY DEF BootInv
<1> QED
  BY <1>1, BootInvariant, PTL
=============================================================================
