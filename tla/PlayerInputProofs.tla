-------------------------- MODULE PlayerInputProofs --------------------------
(***************************************************************************)
(* Theorems about PlayerInput for every buffer size, tick length, counter  *)
(* width and number of inputs.                                             *)
(***************************************************************************)
EXTENDS PlayerInput, TLAPS

\* A sequence number is a number below the modulus.
LEMMA WireSeqType == \A n \in Nat : WireSeq(n) \in 0..SeqModulus - 1
BY InputAssumption DEF WireSeq

LEMMA WireSeqOfNone == WireSeq(NoInput) = 0
BY InputAssumption DEF WireSeq, NoInput

\* The variables keep their types: the buffer never exceeds MAX_INPUT_BUFFER
\* (Player::EnqueueInput) nor a tick MAX_STEPS_PER_TICK (GameRoom::TickAll).
StepsInv == loop \in {"dequeue", "simulate"} => steps < MaxSteps
TypeInv == TypeOK /\ StepsInv

\* What a push does to the buffer.
LEMMA Push ==
    ASSUME TypeOK, EnqueueInput
    PROVE  /\ buffer' \in Seq(Nat) /\ Len(buffer') <= MaxBuffer
           /\ dropped' \in SUBSET Nat
           /\ \A j \in DOMAIN buffer' :
                 \/ j = Len(buffer') /\ buffer'[j] = received
                 \/ /\ Len(buffer) < MaxBuffer
                    /\ j \in DOMAIN buffer /\ buffer'[j] = buffer[j]
                 \/ /\ Len(buffer) >= MaxBuffer /\ 1 \in DOMAIN buffer
                    /\ j + 1 \in DOMAIN buffer /\ buffer'[j] = buffer[j + 1]
           /\ \A d \in dropped' :
                 \/ d \in dropped
                 \/ Len(buffer) >= MaxBuffer /\ 1 \in DOMAIN buffer /\ d = buffer[1]
<1>1. CASE Len(buffer) >= MaxBuffer
    <2>1. /\ buffer \in Seq(Nat) /\ received \in Nat /\ Len(buffer) \in Nat
          /\ Len(buffer) <= MaxBuffer /\ dropped \subseteq Nat
        BY DEF TypeOK
    <2>2. buffer # <<>> /\ 1 \in DOMAIN buffer /\ Head(buffer) = buffer[1]
          /\ Head(buffer) \in Nat
        BY <1>1, <2>1, InputAssumption
    <2>3. Tail(buffer) \in Seq(Nat) /\ Len(Tail(buffer)) = Len(buffer) - 1
        BY <2>1, <2>2
    <2>4. \A j \in 1..Len(buffer) - 1 : Tail(buffer)[j] = buffer[j + 1]
        BY <2>1, <2>2
    <2>5. buffer' = Append(Tail(buffer), received) /\ dropped' = dropped \cup {Head(buffer)}
        BY <1>1 DEF EnqueueInput
    <2>6. buffer' \in Seq(Nat) /\ Len(buffer') = Len(buffer) /\ DOMAIN buffer' = 1..Len(buffer)
        BY <2>1, <2>2, <2>3, <2>5
    <2>7. \A j \in 1..Len(buffer) - 1 : buffer'[j] = Tail(buffer)[j]
        BY <2>1, <2>3, <2>5
    <2>8. buffer'[Len(buffer)] = received
        BY <2>1, <2>3, <2>5
    <2>9. ASSUME NEW j \in DOMAIN buffer'
          PROVE  \/ j = Len(buffer') /\ buffer'[j] = received
                 \/ j + 1 \in DOMAIN buffer /\ buffer'[j] = buffer[j + 1]
        <3>1. CASE j = Len(buffer)
            BY <2>6, <2>8, <3>1
        <3>2. CASE j \in 1..Len(buffer) - 1
            BY <2>1, <2>4, <2>7, <3>2
        <3> QED
            BY <2>1, <2>6, <3>1, <3>2
    <2>10. \A d \in dropped' : d \in dropped \/ d = buffer[1]
        BY <2>2, <2>5
    <2>11. dropped' \in SUBSET Nat
        BY <2>1, <2>2, <2>5
    <2> QED
        BY <1>1, <2>1, <2>2, <2>6, <2>9, <2>10, <2>11
<1>2. CASE ~(Len(buffer) >= MaxBuffer)
    <2>1. /\ buffer \in Seq(Nat) /\ received \in Nat /\ Len(buffer) \in Nat
          /\ dropped \subseteq Nat
        BY DEF TypeOK
    <2>2. buffer' = Append(buffer, received) /\ dropped' = dropped
        BY <1>2 DEF EnqueueInput
    <2> QED
        BY <1>2, <2>1, <2>2, InputAssumption
<1> QED
    BY <1>1, <1>2

LEMMA InitTypeInv == Init => TypeInv
<1> SUFFICES ASSUME Init PROVE TypeInv
    OBVIOUS
<1>1. buffer \in Seq(Nat) /\ Len(buffer) = 0 /\ simulated \in Seq(Nat)
    BY DEF Init
<1>2. 0 \in 0..SeqModulus - 1 /\ 0 \in 0..MaxSteps /\ 0 <= MaxBuffer
    BY InputAssumption
<1>3. dropped \in SUBSET Nat
    BY DEF Init
<1> QED
    BY <1>1, <1>2, <1>3 DEF Init, TypeInv, TypeOK, StepsInv, LoopLabels, NoInput

LEMMA NextTypeInv == TypeInv /\ [Next]_vars => TypeInv'
<1> SUFFICES ASSUME TypeInv, [Next]_vars PROVE TypeInv'
    OBVIOUS
<1> USE InputAssumption DEF TypeInv, TypeOK, StepsInv, LoopLabels, room, history, tick
<1>1. CASE HandleInputCmd
    BY <1>1 DEF HandleInputCmd
<1>2. CASE EnqueueInput
    <2>1. buffer' \in Seq(Nat) /\ Len(buffer') <= MaxBuffer /\ dropped' \in SUBSET Nat
        BY <1>2, Push DEF TypeInv
    <2> QED
        BY <1>2, <2>1 DEF EnqueueInput
<1>3. CASE RunTask
    BY <1>3 DEF RunTask
<1>4. CASE BeginTick
    BY <1>4 DEF BeginTick
<1>5. CASE HasInput
    BY <1>5 DEF HasInput
<1>6. CASE DequeueInput
    <2>1. /\ buffer' \in Seq(Nat) /\ Len(buffer') <= Len(buffer)
          /\ cmd' \in Nat
        <3>1. CASE buffer = <<>>
            BY <1>6, <3>1 DEF DequeueInput, NoInput
        <3>2. CASE buffer # <<>>
            <4>1. cmd' = Head(buffer) /\ buffer' = Tail(buffer)
                BY <1>6, <3>2 DEF DequeueInput
            <4> QED
                BY <3>2, <4>1
        <3> QED
            BY <3>1, <3>2
    <2> QED
        BY <1>6, <2>1 DEF DequeueInput
<1>7. CASE SimulatePlayer
    <2>1. lastInputSeq' \in 0..SeqModulus - 1
        BY <1>7, WireSeqType DEF SimulatePlayer, Acknowledge
    <2>2. simulated' \in Seq(Nat)
        BY <1>7 DEF SimulatePlayer
    <2> QED
        BY <1>7, <2>1, <2>2 DEF SimulatePlayer
<1>8. CASE IdleSteps
    BY <1>8, WireSeqType DEF IdleSteps, Acknowledge, NoInput
<1>9. CASE Report
    BY <1>9 DEF Report
<1>10. CASE UNCHANGED vars
    BY <1>10 DEF vars
<1> QED
    BY <1>1, <1>2, <1>3, <1>4, <1>5, <1>6, <1>7, <1>8, <1>9, <1>10
    DEF Next, TickAll, SkipTick

THEOREM TypeCorrect == Spec => []TypeOK
<1>1. Spec => []TypeInv
    BY InitTypeInv, NextTypeInv, PTL DEF Spec
<1>2. TypeInv => TypeOK
    BY DEF TypeInv
<1> QED
    BY <1>1, <1>2, PTL

-----------------------------------------------------------------------------
\* The inductive invariant behind the order of the inputs.  Simulated inputs are
\* older than the one in the loop's hand, that one than the buffer's, and those
\* than the one being pushed; dropped inputs are older than the buffer's.
Newest(n) == IF handler = "push" THEN n < received ELSE n <= received

SimulatedInv ==
    /\ Increasing(simulated)
    /\ \A i \in DOMAIN simulated : Newest(simulated[i])
    /\ \A i \in DOMAIN simulated, j \in DOMAIN buffer : simulated[i] < buffer[j]
BufferInv ==
    /\ Increasing(buffer)
    /\ \A j \in DOMAIN buffer : 0 < buffer[j] /\ Newest(buffer[j])
HandInv ==
    loop = "simulate" =>
        /\ 0 < cmd /\ Newest(cmd)
        /\ \A i \in DOMAIN simulated : simulated[i] < cmd
        /\ \A j \in DOMAIN buffer : cmd < buffer[j]
DroppedInv ==
    /\ DropsOldest
    /\ \A d \in dropped : Newest(d)

PushInv == handler = "push" => 0 < received

OrderInv == PushInv /\ TypeInv /\ NoZeroInput /\ SimulatedInv /\ BufferInv /\ HandInv /\ DroppedInv

LEMMA InitOrderInv == Init => OrderInv
BY InitTypeInv
DEF Init, OrderInv, NoZeroInput, SimulatedInv, BufferInv, HandInv, DroppedInv,
    DropsOldest, Increasing, PushInv

LEMMA NextOrderInv == OrderInv /\ [Next]_vars => OrderInv'
<1> SUFFICES ASSUME OrderInv, [Next]_vars PROVE OrderInv'
    OBVIOUS
<1>0. TypeInv'
    BY NextTypeInv DEF OrderInv
<1>t. TypeOK /\ TypeOK'
    BY <1>0 DEF OrderInv, TypeInv
<1> USE InputAssumption DEF room, history, tick
<1>1. CASE HandleInputCmd
    <2>1. \A n \in Nat : Newest(n) => Newest(n)'
        BY <1>1, <1>t DEF HandleInputCmd, Newest, TypeOK
    <2> QED
        BY <1>0, <1>1, <1>t, <2>1
        DEF HandleInputCmd, OrderInv, NoZeroInput, SimulatedInv, BufferInv, HandInv,
            DroppedInv, DropsOldest, Increasing, TypeOK, PushInv
<1>2. CASE EnqueueInput
    <2>1. \A n \in Nat : Newest(n) => Newest(n)'
        BY <1>2, <1>t DEF EnqueueInput, Newest, TypeOK
    <2>2. buffer' # <<>>
        BY <1>2, <1>t DEF EnqueueInput, TypeOK
    <2>3. \A j \in DOMAIN buffer' :
             \/ j = Len(buffer') /\ buffer'[j] = received
             \/ j \in DOMAIN buffer /\ buffer'[j] = buffer[j]
             \/ j + 1 \in DOMAIN buffer /\ buffer'[j] = buffer[j + 1]
        BY <1>2, <1>t, Push
    <2>4. \A n \in Nat : Newest(n) => n < received
        BY <1>2 DEF EnqueueInput, Newest
    <2>a. /\ buffer \in Seq(Nat) /\ buffer' \in Seq(Nat) /\ received \in Nat
          /\ received' = received /\ handler' = "idle"
        BY <1>2, <1>t DEF TypeOK, EnqueueInput
    <2>b. \A j \in DOMAIN buffer : buffer[j] \in Nat /\ 0 < buffer[j] /\ buffer[j] < received
        BY <2>a, <2>4 DEF OrderInv, BufferInv
    <2>c. 0 < received
        BY <1>2, <1>t DEF OrderInv, PushInv, EnqueueInput
    <2>5. BufferInv'
        <3>1. \A j \in DOMAIN buffer' : 0 < buffer'[j] /\ buffer'[j] <= received
            BY <2>3, <2>a, <2>b, <2>c
        <3>2. ASSUME NEW i \in DOMAIN buffer', NEW j \in DOMAIN buffer', i < j
              PROVE  buffer'[i] < buffer'[j]
            <4>1. i \in Nat /\ j \in Nat /\ i # Len(buffer') /\ i \in 1..Len(buffer')
                BY <2>a, <3>2
            <4>2. CASE Len(buffer) >= MaxBuffer
                <5>1. i + 1 \in DOMAIN buffer /\ buffer'[i] = buffer[i + 1]
                    BY <1>2, <1>t, <4>1, <4>2, Push
                <5>2. \/ buffer'[j] = received
                      \/ j + 1 \in DOMAIN buffer /\ buffer'[j] = buffer[j + 1]
                    BY <1>2, <1>t, <4>2, Push
                <5>3. i + 1 < j + 1
                    BY <2>a, <3>2, <4>1
                <5> QED
                    BY <2>b, <5>1, <5>2, <5>3 DEF OrderInv, BufferInv, Increasing
            <4>3. CASE ~(Len(buffer) >= MaxBuffer)
                <5>1. i \in DOMAIN buffer /\ buffer'[i] = buffer[i]
                    BY <1>2, <1>t, <4>1, <4>3, Push
                <5>2. \/ buffer'[j] = received
                      \/ j \in DOMAIN buffer /\ buffer'[j] = buffer[j]
                    BY <1>2, <1>t, <4>3, Push
                <5> QED
                    BY <2>a, <2>b, <3>2, <4>1, <5>1, <5>2 DEF OrderInv, BufferInv, Increasing
            <4> QED
                BY <4>2, <4>3
        <3> QED
            BY <2>a, <3>1, <3>2 DEF BufferInv, Increasing, Newest
    <2>6. SimulatedInv'
        <3>1. UNCHANGED simulated
            BY <1>2 DEF EnqueueInput
        <3>2. \A i \in DOMAIN simulated : simulated[i] \in Nat
            <4>1. simulated \in Seq(Nat)
                BY <1>t DEF TypeOK
            <4> QED
                BY <4>1
        <3>3. \A i \in DOMAIN simulated, j \in DOMAIN buffer' : simulated[i] < buffer'[j]
            BY <2>3, <2>4, <3>2 DEF OrderInv, SimulatedInv
        <3>4. Increasing(simulated)'
            BY <3>1 DEF OrderInv, SimulatedInv, Increasing
        <3> QED
            BY <2>1, <3>1, <3>2, <3>3, <3>4 DEF OrderInv, SimulatedInv
    <2>7. HandInv'
        BY <1>2, <1>t, <2>1, <2>3, <2>4
        DEF EnqueueInput, OrderInv, HandInv, TypeOK
    <2>8. DroppedInv'
        <3>1. ASSUME NEW d \in dropped', NEW j \in DOMAIN buffer' PROVE d < buffer'[j]
            <4>1. CASE d \in dropped
                BY <2>3, <2>4, <2>a, <4>1, <1>t DEF OrderInv, DroppedInv, DropsOldest, TypeOK
            <4>2. CASE d \notin dropped
                <5>1. Len(buffer) >= MaxBuffer /\ 1 \in DOMAIN buffer /\ d = buffer[1]
                    BY <1>2, <1>t, <4>2, Push
                <5>2. \/ buffer'[j] = received
                      \/ j + 1 \in DOMAIN buffer /\ buffer'[j] = buffer[j + 1]
                    BY <1>2, <1>t, <5>1, Push
                <5>3. j \in Nat /\ 1 < j + 1
                    BY <2>a
                <5> QED
                    BY <2>a, <2>b, <5>1, <5>2, <5>3 DEF OrderInv, BufferInv, Increasing
            <4> QED
                BY <4>1, <4>2
        <3>2. ASSUME NEW d \in dropped' PROVE d < received
            <4>1. CASE d \in dropped
                BY <2>4, <4>1, <1>t DEF OrderInv, DroppedInv, TypeOK
            <4>2. CASE d \notin dropped
                BY <1>2, <1>t, <2>b, <4>2, Push
            <4> QED
                BY <4>1, <4>2
        <3>3. \A d \in dropped' : Newest(d)'
            BY <1>t, <2>a, <3>2 DEF Newest, TypeOK
        <3> QED
            BY <3>1, <3>3 DEF DroppedInv, DropsOldest
    <2> QED
        BY <1>0, <2>a, <2>2, <2>5, <2>6, <2>7, <2>8 DEF OrderInv, NoZeroInput, PushInv
<1>3. CASE RunTask \/ BeginTick \/ HasInput \/ IdleSteps \/ Report \/ UNCHANGED vars
    <2>1. /\ UNCHANGED <<handler, received, buffer, cmd, simulated, dropped>>
          /\ loop' # "simulate" \/ UNCHANGED loop
          /\ loop' = "dequeue" => buffer # <<>> \/ UNCHANGED loop
        BY <1>3 DEF RunTask, BeginTick, HasInput, IdleSteps, Report, vars
    <2> QED
        BY <1>0, <2>1
        DEF OrderInv, NoZeroInput, SimulatedInv, BufferInv, HandInv, DroppedInv,
            DropsOldest, Increasing, Newest, PushInv
<1>6. CASE DequeueInput
    <2>1. buffer # <<>> /\ cmd' = buffer[1] /\ buffer' = Tail(buffer)
        BY <1>6, <1>t DEF DequeueInput, OrderInv, NoZeroInput, TypeOK
    <2>2. \A j \in DOMAIN buffer' : j + 1 \in DOMAIN buffer /\ buffer'[j] = buffer[j + 1]
        BY <1>t, <2>1 DEF TypeOK
    <2>3. UNCHANGED <<handler, received, simulated, dropped>> /\ loop' = "simulate"
        BY <1>6 DEF DequeueInput
    <2>4. 1 \in DOMAIN buffer
        BY <1>t, <2>1 DEF TypeOK
    <2>5. SimulatedInv' /\ DroppedInv'
        BY <1>t, <2>2, <2>3
        DEF OrderInv, SimulatedInv, DroppedInv, DropsOldest, Increasing, Newest, TypeOK
    <2>6. BufferInv'
        <3>1. DOMAIN buffer' \subseteq Nat
            <4>1. buffer' \in Seq(Nat)
                BY <1>t DEF TypeOK
            <4> QED
                BY <4>1
        <3>2. ASSUME NEW i \in DOMAIN buffer', NEW j \in DOMAIN buffer', i < j
              PROVE  buffer'[i] < buffer'[j]
            <4>1. i + 1 < j + 1
                BY <3>1, <3>2
            <4> QED
                BY <4>1, <2>2 DEF OrderInv, BufferInv, Increasing
        <3>3. ASSUME NEW j \in DOMAIN buffer' PROVE (0 < buffer[j] /\ Newest(buffer[j]))'
            BY <2>2, <2>3 DEF OrderInv, BufferInv, Newest
        <3> QED
            BY <3>2, <3>3 DEF BufferInv, Increasing, Newest
    <2>7. HandInv'
        <3>1. 0 < cmd' /\ Newest(cmd)'
            BY <2>1, <2>3, <2>4 DEF OrderInv, BufferInv, Newest
        <3>2. \A i \in DOMAIN simulated : simulated[i] < cmd'
            BY <2>1, <2>4 DEF OrderInv, SimulatedInv
        <3>3. ASSUME NEW j \in DOMAIN buffer' PROVE cmd' < buffer'[j]
            <4>1. j \in Nat /\ 1 < j + 1
                <5>1. buffer' \in Seq(Nat)
                    BY <1>t DEF TypeOK
                <5> QED
                    BY <5>1
            <4> QED
                BY <2>1, <2>2, <2>4, <4>1 DEF OrderInv, BufferInv, Increasing
        <3> QED
            BY <2>3, <3>1, <3>2, <3>3 DEF HandInv
    <2> QED
        BY <1>0, <2>3, <2>5, <2>6, <2>7 DEF OrderInv, NoZeroInput, PushInv
<1>7. CASE SimulatePlayer
    <2>1. /\ UNCHANGED <<handler, received, buffer, dropped>> /\ loop' = "hasInput"
          /\ simulated' = Append(simulated, cmd) /\ loop = "simulate"
        BY <1>7, <1>t DEF SimulatePlayer, OrderInv, HandInv, NoInput, TypeOK
    <2>2. \A i \in DOMAIN simulated' :
             \/ i \in DOMAIN simulated /\ simulated'[i] = simulated[i]
             \/ i = Len(simulated) + 1 /\ simulated'[i] = cmd
        BY <1>t, <2>1 DEF TypeOK
    <2>3. SimulatedInv'
        <3>1. simulated \in Seq(Nat) /\ simulated' \in Seq(Nat) /\ Len(simulated') = Len(simulated) + 1
            BY <1>t, <2>1 DEF TypeOK
        <3>2. ASSUME NEW i \in DOMAIN simulated', NEW j \in DOMAIN simulated', i < j
              PROVE  simulated'[i] < simulated'[j]
            <4>1. i \in 1..Len(simulated) /\ i \in DOMAIN simulated
                BY <3>1, <3>2
            <4>2. simulated'[i] = simulated[i]
                BY <3>1, <4>1, <2>2
            <4> QED
                BY <2>1, <2>2, <3>2, <4>1, <4>2 DEF OrderInv, HandInv, SimulatedInv, Increasing
        <3>3. ASSUME NEW i \in DOMAIN simulated' PROVE Newest(simulated[i])'
            BY <2>1, <2>2 DEF OrderInv, HandInv, SimulatedInv, Newest
        <3>4. ASSUME NEW i \in DOMAIN simulated', NEW j \in DOMAIN buffer' PROVE simulated'[i] < buffer'[j]
            BY <2>1, <2>2 DEF OrderInv, HandInv, SimulatedInv
        <3> QED
            BY <3>2, <3>3, <3>4 DEF SimulatedInv, Increasing, Newest
    <2>4. BufferInv' /\ DroppedInv' /\ HandInv'
        BY <2>1 DEF OrderInv, BufferInv, DroppedInv, DropsOldest, HandInv, Increasing, Newest
    <2> QED
        BY <1>0, <2>1, <2>3, <2>4 DEF OrderInv, NoZeroInput, PushInv
<1> QED
    BY <1>1, <1>2, <1>3, <1>6, <1>7 DEF Next, TickAll, SkipTick

LEMMA InvariantOrder == Spec => []OrderInv
BY InitOrderInv, NextOrderInv, PTL DEF Spec

\* The loop's DequeueInput never finds the buffer empty (GameRoom::TickAll).
THEOREM NoReplacedInput == Spec => []NoZeroInput
BY InvariantOrder, PTL DEF OrderInv

\* A full buffer gives up its oldest inputs (Player::EnqueueInput).
THEOREM OldestDropped == Spec => []DropsOldest
<1>1. OrderInv => DropsOldest
    BY DEF OrderInv, DroppedInv
<1> QED
    BY <1>1, InvariantOrder, PTL

-----------------------------------------------------------------------------
\* Concatenation, of increasing sequences and as a set, under a name of its own
\* that the leaves keep folded.
Cat(s, t) == s \o t

LEMMA ConcatElements ==
    ASSUME NEW s \in Seq(Nat), NEW t \in Seq(Nat)
    PROVE  /\ Cat(s, t) \in Seq(Nat) /\ Len(Cat(s, t)) = Len(s) + Len(t)
           /\ DOMAIN Cat(s, t) = 1..Len(s) + Len(t)
           /\ \A i \in 1..Len(s) : Cat(s, t)[i] = s[i]
           /\ \A i \in 1..Len(t) : Cat(s, t)[Len(s) + i] = t[i]
BY DEF Cat

LEMMA ConcatIncreasing ==
    ASSUME NEW s \in Seq(Nat), NEW t \in Seq(Nat), Increasing(s), Increasing(t),
           \A i \in DOMAIN s, j \in DOMAIN t : s[i] < t[j]
    PROVE  Increasing(Cat(s, t))
<1> DEFINE c == Cat(s, t)
           m == Len(s)
           n == Len(t)
<1>0. /\ DOMAIN c = 1..m + n
      /\ \A i \in 1..m : c[i] = s[i]
      /\ \A i \in 1..n : c[m + i] = t[i]
    BY ConcatElements
<1>1. m \in Nat /\ n \in Nat /\ DOMAIN s = 1..m /\ DOMAIN t = 1..n
    OBVIOUS
<1>2. \A i, j \in 1..m : i < j => s[i] < s[j]
    BY <1>1 DEF Increasing
<1>3. \A i, j \in 1..n : i < j => t[i] < t[j]
    BY <1>1 DEF Increasing
<1>4. \A i \in 1..m, j \in 1..n : s[i] < t[j]
    BY <1>1
<1> HIDE DEF c, m, n
<1>5. ASSUME NEW i \in 1..m + n, NEW j \in 1..m + n, i < j PROVE c[i] < c[j]
    <2>1. CASE j <= m
        BY <1>0, <1>1, <1>2, <1>5, <2>1
    <2>2. CASE i <= m /\ m < j
        <3>1. j - m \in 1..n /\ m + (j - m) = j /\ i \in 1..m
            BY <1>1, <2>2
        <3>2. c[i] = s[i] /\ c[j] = t[j - m]
            BY <1>0, <3>1
        <3> QED
            BY <1>4, <3>1, <3>2
    <2>3. CASE m < i
        <3>1. /\ i - m \in 1..n /\ m + (i - m) = i
              /\ j - m \in 1..n /\ m + (j - m) = j /\ i - m < j - m
            BY <1>1, <1>5, <2>3
        <3>2. c[i] = t[i - m] /\ c[j] = t[j - m]
            BY <1>0, <3>1
        <3> QED
            BY <1>3, <3>1, <3>2
    <2> QED
        BY <1>1, <1>5, <2>1, <2>2, <2>3
<1> QED
    BY <1>0, <1>5 DEF Increasing, c

LEMMA ConcatSet ==
    ASSUME NEW s \in Seq(Nat), NEW t \in Seq(Nat)
    PROVE  InSeq(Cat(s, t)) = InSeq(s) \cup InSeq(t)
<1> DEFINE c == Cat(s, t)
           m == Len(s)
           n == Len(t)
<1>0. /\ DOMAIN c = 1..m + n
      /\ \A i \in 1..m : c[i] = s[i]
      /\ \A i \in 1..n : c[m + i] = t[i]
    BY ConcatElements
<1>1. m \in Nat /\ n \in Nat /\ DOMAIN s = 1..m /\ DOMAIN t = 1..n
    OBVIOUS
<1> HIDE DEF c, m, n
<1>2. ASSUME NEW i \in 1..m PROVE s[i] \in InSeq(c)
    <2>1. i \in 1..m + n /\ c[i] = s[i]
        BY <1>0, <1>1
    <2> QED
        BY <1>0, <2>1 DEF InSeq
<1>3. ASSUME NEW i \in 1..n PROVE t[i] \in InSeq(c)
    <2>1. m + i \in 1..m + n
        BY <1>1
    <2> QED
        BY <1>0, <2>1 DEF InSeq
<1>4. ASSUME NEW i \in 1..m + n PROVE c[i] \in InSeq(s) \cup InSeq(t)
    <2>1. CASE i <= m
        <3>1. i \in 1..m /\ c[i] = s[i]
            BY <1>0, <1>1, <2>1
        <3> QED
            BY <1>1, <3>1 DEF InSeq
    <2>2. CASE m < i
        <3>1. i - m \in 1..n /\ m + (i - m) = i
            BY <1>1, <2>2
        <3> QED
            BY <1>0, <1>1, <3>1 DEF InSeq
    <2> QED
        BY <1>1, <2>1, <2>2
<1>5. InSeq(s) \subseteq InSeq(c) /\ InSeq(t) \subseteq InSeq(c)
    BY <1>1, <1>2, <1>3 DEF InSeq
<1>6. InSeq(c) \subseteq InSeq(s) \cup InSeq(t)
    BY <1>0, <1>4 DEF InSeq
<1> QED
    BY <1>5, <1>6 DEF c

Hand == IF loop = "simulate" THEN <<cmd>> ELSE <<>>
Pushed == IF handler = "push" THEN <<received>> ELSE <<>>

LEMMA WaitingParts ==
    ASSUME TypeOK
    PROVE  /\ Hand \in Seq(Nat) /\ Pushed \in Seq(Nat) /\ buffer \in Seq(Nat)
           /\ simulated \in Seq(Nat)
           /\ Waiting = Cat(Cat(Hand, buffer), Pushed)
BY DEF Hand, Pushed, Waiting, TypeOK, Cat

\* Inputs are simulated in the order received and none twice (HandleInputCmd,
\* EnqueueInput, DequeueInput and TickAll, whatever their interleaving).
THEOREM InputsInOrder == Spec => []InputOrder
<1>1. OrderInv => InputOrder
    <2> SUFFICES ASSUME OrderInv PROVE InputOrder
        OBVIOUS
    <2>0. /\ Hand \in Seq(Nat) /\ Pushed \in Seq(Nat) /\ buffer \in Seq(Nat)
          /\ simulated \in Seq(Nat)
          /\ Waiting = Cat(Cat(Hand, buffer), Pushed)
        BY WaitingParts DEF OrderInv, TypeInv
    <2>1. Increasing(Hand) /\ Increasing(Pushed) /\ Increasing(buffer) /\ Increasing(simulated)
        BY DEF OrderInv, Increasing, Hand, Pushed, BufferInv, SimulatedInv
    <2>2. \A i \in DOMAIN Hand, j \in DOMAIN buffer : Hand[i] < buffer[j]
        BY DEF Hand, OrderInv, HandInv
    <2>3. Increasing(Cat(Hand, buffer)) /\ Cat(Hand, buffer) \in Seq(Nat)
        BY <2>0, <2>1, <2>2, ConcatIncreasing, ConcatElements
    <2>4. \A n \in InSeq(Hand) \cup InSeq(buffer), j \in DOMAIN Pushed : n < Pushed[j]
        BY DEF Hand, Pushed, InSeq, OrderInv, HandInv, BufferInv, Newest
    <2>5. \A i \in DOMAIN Cat(Hand, buffer) : Cat(Hand, buffer)[i] \in InSeq(Hand) \cup InSeq(buffer)
        <3>1. InSeq(Cat(Hand, buffer)) = InSeq(Hand) \cup InSeq(buffer)
            BY <2>0, ConcatSet
        <3> QED
            BY <3>1 DEF InSeq
    <2>6. Increasing(Waiting) /\ Waiting \in Seq(Nat)
        BY <2>0, <2>1, <2>3, <2>4, <2>5, ConcatIncreasing, ConcatElements
    <2>7. InSeq(Waiting) = (InSeq(Hand) \cup InSeq(buffer)) \cup InSeq(Pushed)
        BY <2>0, <2>3, ConcatSet
    <2>8. \A i \in DOMAIN simulated, n \in InSeq(Waiting) : simulated[i] < n
        BY <2>7 DEF Hand, Pushed, InSeq, OrderInv, HandInv, SimulatedInv, Newest
    <2>9. \A j \in DOMAIN Waiting : Waiting[j] \in InSeq(Waiting)
        BY DEF InSeq
    <2> QED
        BY <2>0, <2>1, <2>6, <2>8, <2>9, ConcatIncreasing DEF InputOrder, Cat
<1> QED
    BY <1>1, InvariantOrder, PTL

-----------------------------------------------------------------------------
\* The acknowledgement.
AckInv ==
    /\ lastInputSeq = WireSeq(NewestNumbered)
    /\ loop = "drain" => acked = lastInputSeq

LEMMA AppendSet ==
    ASSUME NEW s \in Seq(Nat), NEW n \in Nat
    PROVE  InSeq(Append(s, n)) = InSeq(s) \cup {n}
<1>1. \A i \in 1..Len(s) : Append(s, n)[i] = s[i]
    OBVIOUS
<1>2. Append(s, n)[Len(s) + 1] = n /\ DOMAIN Append(s, n) = 1..Len(s) + 1
    OBVIOUS
<1>3. InSeq(Append(s, n)) \subseteq InSeq(s) \cup {n}
    BY <1>1, <1>2 DEF InSeq
<1>4. InSeq(s) \subseteq InSeq(Append(s, n))
    BY <1>1, <1>2 DEF InSeq
<1>5. n \in InSeq(Append(s, n))
    BY <1>2 DEF InSeq
<1> QED
    BY <1>3, <1>4, <1>5

LEMMA NextAckInv == OrderInv /\ AckInv /\ [Next]_vars => AckInv'
<1> SUFFICES ASSUME OrderInv, AckInv, [Next]_vars PROVE AckInv'
    OBVIOUS
<1>t. TypeOK
    BY DEF OrderInv, TypeInv
<1>1. ASSUME UNCHANGED simulated PROVE UNCHANGED NewestNumbered
    BY <1>1 DEF NewestNumbered, Numbered, InSeq
<1>2. CASE SimulatePlayer
    <2>1. /\ simulated \in Seq(Nat) /\ cmd \in Nat /\ cmd # NoInput
          /\ \A k \in InSeq(simulated) : k \in Nat /\ k < cmd
        BY <1>2, <1>t DEF SimulatePlayer, OrderInv, HandInv, NoInput, TypeOK, InSeq
    <2>2. InSeq(simulated') = InSeq(simulated) \cup {cmd}
        BY <1>2, <2>1, AppendSet DEF SimulatePlayer
    <2>3. loop' # "drain"
        BY <1>2 DEF SimulatePlayer
    <2>4. CASE WireSeq(cmd) = 0
        <3>1. Numbered' = Numbered
            BY <2>2, <2>4 DEF Numbered
        <3>2. NewestNumbered' = NewestNumbered
            BY <3>1 DEF NewestNumbered
        <3> QED
            BY <1>2, <2>3, <2>4, <3>2 DEF AckInv, SimulatePlayer, Acknowledge
    <2>5. CASE WireSeq(cmd) # 0
        <3>1. Numbered' = Numbered \cup {cmd}
            BY <2>2, <2>5 DEF Numbered
        <3>2. \A k \in Numbered : k \in Nat /\ k < cmd
            BY <2>1 DEF Numbered
        <3>3. cmd \in Numbered' /\ \A k \in Numbered' : k <= cmd
            BY <2>1, <3>1, <3>2
        <3>4. \A n \in Numbered' : (\A k \in Numbered' : k <= n) => n = cmd
            BY <2>1, <3>1, <3>2
        <3>5. NewestNumbered' = cmd
            BY <3>3, <3>4 DEF NewestNumbered
        <3> QED
            BY <1>2, <2>3, <2>5, <3>5 DEF AckInv, SimulatePlayer, Acknowledge
    <2> QED
        BY <2>4, <2>5
<1>3. CASE IdleSteps
    BY <1>1, <1>3, WireSeqOfNone DEF IdleSteps, AckInv, Acknowledge, history
<1>4. CASE Report
    BY <1>1, <1>4 DEF Report, AckInv, history
<1>5. CASE HandleInputCmd \/ EnqueueInput \/ RunTask \/ BeginTick \/ HasInput
           \/ DequeueInput \/ UNCHANGED vars
    <2>1. UNCHANGED <<simulated, lastInputSeq, acked>> /\ (loop' = "drain" => loop = "drain")
        BY <1>5 DEF HandleInputCmd, EnqueueInput, RunTask, BeginTick, HasInput,
                    DequeueInput, vars, tick, history
    <2> QED
        BY <1>1, <2>1 DEF AckInv
<1> QED
    BY <1>2, <1>3, <1>4, <1>5 DEF Next, TickAll, SkipTick

\* S_PlayerState acknowledges the newest numbered input that was simulated
\* (SimulatePlayer's update of lastInputSeq, TickAll's report).
THEOREM AckCorrect == Spec => []AckExact
<1>1. Init => AckInv
    BY WireSeqOfNone DEF Init, AckInv, NewestNumbered, Numbered, InSeq
<1>2. AckInv => AckExact
    BY DEF AckInv, AckExact
<1> QED
    BY <1>1, <1>2, InvariantOrder, NextAckInv, PTL DEF Spec

-----------------------------------------------------------------------------
\* Where the inputs are.
Everywhere ==
    (InSeq(simulated) \cup InSeq(Hand)) \cup (InSeq(buffer) \cup InSeq(Pushed)) \cup dropped

LostInv ==
    /\ \E k \in 0..received : Everywhere = (k + 1)..received
    /\ ~entered => Everywhere = {} /\ handler # "push"

LEMMA HeadTailSet ==
    ASSUME NEW s \in Seq(Nat), s # <<>>
    PROVE  InSeq(s) = {Head(s)} \cup InSeq(Tail(s))
<1>1. \A i \in 1..Len(s) - 1 : Tail(s)[i] = s[i + 1]
    OBVIOUS
<1>2. DOMAIN Tail(s) = 1..Len(s) - 1 /\ Head(s) = s[1] /\ 1 \in DOMAIN s
    OBVIOUS
<1>3. InSeq(Tail(s)) \subseteq InSeq(s)
    BY <1>1, <1>2 DEF InSeq
<1>4. ASSUME NEW i \in DOMAIN s PROVE s[i] \in {Head(s)} \cup InSeq(Tail(s))
    <2>1. CASE i = 1
        BY <1>2, <2>1
    <2>2. CASE i # 1
        <3>1. i - 1 \in 1..Len(s) - 1 /\ (i - 1) + 1 = i
            BY <2>2
        <3>2. s[i] = Tail(s)[i - 1]
            BY <1>1, <3>1
        <3> QED
            BY <1>2, <3>1, <3>2 DEF InSeq
    <2> QED
        BY <2>1, <2>2
<1> QED
    BY <1>2, <1>3, <1>4 DEF InSeq

LEMMA SmallSets == InSeq(<<>>) = {} /\ \A n : InSeq(<<n>>) = {n}
BY DEF InSeq

LEMMA NextLostInv == OrderInv /\ LostInv /\ [Next]_vars => LostInv'
<1> SUFFICES ASSUME OrderInv, LostInv, [Next]_vars PROVE LostInv'
    OBVIOUS
<1>t. TypeOK
    BY DEF OrderInv, TypeInv
<1>r. received \in Nat /\ buffer \in Seq(Nat) /\ simulated \in Seq(Nat) /\ cmd \in Nat
    BY <1>t DEF TypeOK
<1>s. ASSUME UNCHANGED received, Everywhere' = Everywhere, entered' = entered,
             handler' = "push" => handler = "push"
      PROVE  LostInv'
    BY <1>s DEF LostInv
<1>1. CASE HandleInputCmd
    <2>1. /\ received' = received + 1 /\ UNCHANGED <<entered, simulated, buffer, dropped, loop, cmd>>
          /\ handler # "push"
        BY <1>1 DEF HandleInputCmd, room, tick, history
    <2>2. InSeq(Pushed) = {}
        BY <2>1, SmallSets DEF Pushed
    <2>3. CASE entered
        <3>1. InSeq(Pushed)' = {received + 1} /\ InSeq(Hand)' = InSeq(Hand)
            BY <1>1, <2>1, <2>3, SmallSets DEF HandleInputCmd, Pushed, Hand, InSeq
        <3>2. Everywhere' = Everywhere \cup {received + 1}
            BY <2>1, <2>2, <3>1 DEF Everywhere, InSeq
        <3>3. PICK k \in 0..received : Everywhere = (k + 1)..received
            BY DEF LostInv
        <3>4. Everywhere' = (k + 1)..received' /\ k \in 0..received'
            BY <1>r, <2>1, <3>2, <3>3
        <3> QED
            BY <2>1, <2>3, <3>4 DEF LostInv
    <2>4. CASE ~entered
        <3>1. InSeq(Pushed)' = {} /\ InSeq(Hand)' = InSeq(Hand) /\ handler' # "push"
            BY <1>1, <2>1, <2>4, SmallSets DEF HandleInputCmd, Pushed, Hand, InSeq
        <3>2. Everywhere' = {}
            BY <2>1, <2>2, <2>4, <3>1 DEF Everywhere, InSeq, LostInv
        <3>3. received' \in 0..received' /\ (received' + 1)..received' = {}
            BY <1>r, <2>1
        <3> QED
            BY <3>1, <3>2, <3>3 DEF LostInv
    <2> QED
        BY <2>3, <2>4
<1>2. CASE EnqueueInput
    <2>1. /\ UNCHANGED <<received, entered, simulated, loop, cmd>>
          /\ handler = "push" /\ handler' = "idle"
        BY <1>2 DEF EnqueueInput, room, tick, history
    <2>2. InSeq(Pushed) = {received} /\ InSeq(Pushed)' = {} /\ InSeq(Hand)' = InSeq(Hand)
        BY <2>1, SmallSets DEF Pushed, Hand, InSeq
    <2>3. InSeq(buffer)' \cup dropped' = InSeq(buffer) \cup dropped \cup {received}
        <3>1. CASE Len(buffer) >= MaxBuffer
            <4>1. buffer # <<>>
                BY <1>r, <3>1, InputAssumption
            <4>2. /\ buffer' = Append(Tail(buffer), received) /\ Tail(buffer) \in Seq(Nat)
                  /\ dropped' = dropped \cup {Head(buffer)}
                BY <1>2, <1>r, <3>1, <4>1 DEF EnqueueInput
            <4>3. InSeq(buffer') = InSeq(Tail(buffer)) \cup {received}
                BY <1>r, <4>2, AppendSet
            <4>4. InSeq(buffer) = {Head(buffer)} \cup InSeq(Tail(buffer))
                BY <1>r, <4>1, HeadTailSet
            <4> QED
                BY <4>2, <4>3, <4>4
        <3>2. CASE ~(Len(buffer) >= MaxBuffer)
            <4>1. buffer' = Append(buffer, received) /\ dropped' = dropped
                BY <1>2, <3>2 DEF EnqueueInput
            <4>2. InSeq(buffer') = InSeq(buffer) \cup {received}
                BY <1>r, <4>1, AppendSet
            <4> QED
                BY <4>1, <4>2
        <3> QED
            BY <3>1, <3>2
    <2>4. InSeq(simulated)' = InSeq(simulated)
        BY <2>1
    <2>5. Everywhere' = Everywhere
        BY <2>2, <2>3, <2>4 DEF Everywhere
    <2> QED
        BY <1>s, <2>1, <2>5
<1>3. CASE RunTask
    <2>1. /\ UNCHANGED <<received, simulated, buffer, dropped, handler, cmd, loop>>
          /\ entered => entered'
        BY <1>3 DEF RunTask, tick, history
    <2>2. Everywhere' = Everywhere
        BY <2>1 DEF Everywhere, Hand, Pushed, InSeq
    <2> QED
        BY <2>1, <2>2 DEF LostInv
<1>4. CASE DequeueInput
    <2>1. /\ UNCHANGED <<received, entered, simulated, dropped, handler>>
          /\ loop = "dequeue" /\ loop' = "simulate" /\ buffer # <<>>
          /\ cmd' = Head(buffer) /\ buffer' = Tail(buffer)
        BY <1>4 DEF DequeueInput, room, history, OrderInv, NoZeroInput
    <2>2. InSeq(Hand) = {} /\ InSeq(Hand)' = {Head(buffer)}
        BY <2>1, SmallSets DEF Hand
    <2>3. InSeq(buffer) = {Head(buffer)} \cup InSeq(buffer')
        BY <1>r, <2>1, HeadTailSet
    <2>4. InSeq(simulated)' = InSeq(simulated) /\ InSeq(Pushed)' = InSeq(Pushed)
        BY <2>1 DEF Pushed, InSeq
    <2>5. Everywhere' = Everywhere
        BY <2>1, <2>2, <2>3, <2>4 DEF Everywhere
    <2> QED
        BY <1>s, <2>1, <2>5
<1>5. CASE SimulatePlayer
    <2>1. /\ UNCHANGED <<received, entered, buffer, dropped, handler>>
          /\ loop = "simulate" /\ loop' = "hasInput"
          /\ simulated' = Append(simulated, cmd)
        BY <1>5, <1>r DEF SimulatePlayer, room, OrderInv, HandInv, NoInput
    <2>2. InSeq(Hand) = {cmd} /\ InSeq(Hand)' = {}
        BY <2>1, SmallSets DEF Hand
    <2>3. InSeq(simulated') = InSeq(simulated) \cup {cmd}
        BY <1>r, <2>1, AppendSet
    <2>4. InSeq(buffer)' = InSeq(buffer) /\ InSeq(Pushed)' = InSeq(Pushed)
        BY <2>1 DEF Pushed, InSeq
    <2>5. Everywhere' = Everywhere
        BY <2>1, <2>2, <2>3, <2>4 DEF Everywhere
    <2> QED
        BY <1>s, <2>1, <2>5
<1>6. CASE BeginTick \/ HasInput \/ IdleSteps \/ Report \/ UNCHANGED vars
    <2>1. /\ UNCHANGED <<received, entered, simulated, buffer, dropped, handler, cmd>>
          /\ (loop # "simulate" /\ loop' # "simulate") \/ UNCHANGED loop
        BY <1>6 DEF BeginTick, HasInput, IdleSteps, Report, vars, room, tick, history
    <2>2. Everywhere' = Everywhere
        BY <2>1 DEF Everywhere, Hand, Pushed, InSeq
    <2> QED
        BY <1>s, <2>1, <2>2
<1> QED
    BY <1>1, <1>2, <1>3, <1>4, <1>5, <1>6 DEF Next, TickAll, SkipTick

\* No input is lost between HandleInputCmd, the buffer and the loop.
THEOREM InputsAccountedFor == Spec => []NothingLost
<1>1. Init => LostInv
    <2> SUFFICES ASSUME Init PROVE LostInv
        OBVIOUS
    <2>1. Everywhere = {}
        BY SmallSets DEF Init, Everywhere, Hand, Pushed
    <2>2. 0 \in 0..received /\ (0 + 1)..received = {}
        BY DEF Init
    <2> QED
        BY <2>1, <2>2 DEF Init, LostInv
<1>2. OrderInv /\ LostInv => NothingLost
    <2> SUFFICES ASSUME OrderInv, LostInv PROVE NothingLost
        OBVIOUS
    <2>0. /\ Hand \in Seq(Nat) /\ Pushed \in Seq(Nat) /\ buffer \in Seq(Nat)
          /\ simulated \in Seq(Nat) /\ Cat(Hand, buffer) \in Seq(Nat)
          /\ Waiting = Cat(Cat(Hand, buffer), Pushed)
        BY WaitingParts, ConcatElements DEF OrderInv, TypeInv
    <2>1. /\ Waiting \in Seq(Nat)
          /\ InSeq(Waiting) = (InSeq(Hand) \cup InSeq(buffer)) \cup InSeq(Pushed)
        BY <2>0, ConcatSet, ConcatElements
    <2>2. InSeq(Cat(simulated, Waiting)) \cup dropped = Everywhere
        <3>1. InSeq(Cat(simulated, Waiting)) = InSeq(simulated) \cup InSeq(Waiting)
            BY <2>0, <2>1, ConcatSet
        <3> QED
            BY <2>1, <3>1 DEF Everywhere
    <2> QED
        BY <2>2 DEF LostInv, NothingLost, Cat
<1> QED
    BY <1>1, <1>2, InvariantOrder, NextLostInv, PTL DEF Spec
=============================================================================
