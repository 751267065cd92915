----------------------------- MODULE PlayerInput -----------------------------
(***************************************************************************)
(* The input buffer of one Player (SimpleServer/Player.cpp) between the    *)
(* worker that receives the client's C_InputCmd packets, in HandleInputCmd,*)
(* and the game loop, which consumes them in TickAll.                      *)
(*                                                                         *)
(* An input stands for the client's n-th C_InputCmd; WireSeq(n) is the     *)
(* 32-bit number the packet carries.  Each critical section of _inputMutex *)
(* is one step, and so is the load of _entered.  The physics of            *)
(* SimulatePlayer is left out, its effect on lastInputSeq is not.          *)
(***************************************************************************)
EXTENDS Integers, Sequences, FiniteSets

CONSTANTS MaxBuffer,   \* MAX_INPUT_BUFFER
          MaxSteps,    \* MAX_STEPS_PER_TICK
          SeqModulus,  \* 2^32: inputSeq is a uint32_t
          MaxInputs    \* bound: the inputs the client sends

ASSUME InputAssumption ==
    /\ MaxBuffer \in Nat \ {0} /\ MaxSteps \in Nat \ {0}
    /\ SeqModulus \in Nat \ {0, 1} /\ MaxInputs \in Nat

VARIABLES
    present,       \* the player is in GameRoom::_players
    entered,       \* Player::_entered
    handler,       \* the worker: "idle", or "push" past the IsEntered test
    received,      \* the number of inputs received
    buffer,        \* _inputBuffer
    loop,          \* what the game loop does next
    steps,         \* TickAll's steps
    cmd,           \* TickAll's cmd
    lastInputSeq,  \* PhysicsState::lastInputSeq
    acked,         \* last_processed_input_seq of the last S_PlayerState
    simulated,     \* history: the inputs simulated, in order
    dropped        \* history: the inputs dropped from the full buffer

room    == <<present, entered>>
history == <<simulated, dropped>>
tick    == <<loop, steps, cmd, lastInputSeq, acked>>
vars    == <<room, handler, received, buffer, tick, history>>

\* InputCmd{}, whose inputSeq is 0.
NoInput == 0
\* The sequence number a packet carries: the client counts in 32 bits.
WireSeq(n) == n % SeqModulus

-----------------------------------------------------------------------------
Init ==
    /\ present = TRUE /\ entered = FALSE
    /\ handler = "idle" /\ received = 0 /\ buffer = <<>>
    /\ loop = "drain" /\ steps = 0 /\ cmd = NoInput /\ lastInputSeq = 0 /\ acked = 0
    /\ simulated = <<>> /\ dropped = {}

\* HandleInputCmd: an input of a player that has not entered is ignored.
HandleInputCmd ==
    /\ handler = "idle" /\ received < MaxInputs
    /\ received' = received + 1
    /\ handler' = IF entered THEN "push" ELSE "idle"
    /\ UNCHANGED <<room, buffer, tick, history>>

\* Faulty variant: a full buffer drops the new input.
Faulty_EnqueueInput_DropsNewest ==
    /\ handler = "push"
    /\ IF Len(buffer) >= MaxBuffer
       THEN dropped' = dropped \cup {received} /\ UNCHANGED buffer
       ELSE buffer' = Append(buffer, received) /\ UNCHANGED dropped
    /\ handler' = "idle"
    /\ UNCHANGED <<room, received, tick, simulated>>

\* Faulty variant: the limit is tested with > for >=.
Faulty_EnqueueInput_OffByOne ==
    /\ handler = "push"
    /\ IF Len(buffer) > MaxBuffer
       THEN /\ buffer' = Append(Tail(buffer), received)
            /\ dropped' = dropped \cup {Head(buffer)}
       ELSE buffer' = Append(buffer, received) /\ UNCHANGED dropped
    /\ handler' = "idle"
    /\ UNCHANGED <<room, received, tick, simulated>>

\* Faulty variant: a full buffer loses everything, the new input included.
Faulty_EnqueueInput_Clears ==
    /\ handler = "push"
    /\ IF Len(buffer) >= MaxBuffer
       THEN buffer' = <<>>
       ELSE buffer' = Append(buffer, received)
    /\ handler' = "idle"
    /\ UNCHANGED <<room, received, tick, history>>

\* EnqueueInput: a full buffer drops its oldest input for the new one.
EnqueueInput ==
    /\ handler = "push"
    /\ IF Len(buffer) >= MaxBuffer
       THEN /\ buffer' = Append(Tail(buffer), received)
            /\ dropped' = dropped \cup {Head(buffer)}
       ELSE buffer' = Append(buffer, received) /\ UNCHANGED dropped
    /\ handler' = "idle"
    /\ UNCHANGED <<room, received, tick, simulated>>

-----------------------------------------------------------------------------
\* DrainTasks runs the EnterGame or the Leave of this player; an EnterGame
\* may come after the Leave.
RunTask ==
    /\ loop = "drain"
    /\ \/ entered' = TRUE /\ ~entered /\ UNCHANGED present
       \/ present' = FALSE /\ present /\ UNCHANGED entered
    /\ UNCHANGED <<handler, received, buffer, tick, history>>

\* TickAll comes to this player, if it is in the room and has entered.
BeginTick ==
    /\ loop = "drain" /\ present /\ entered
    /\ loop' = "hasInput" /\ steps' = 0
    /\ UNCHANGED <<room, handler, received, buffer, cmd, lastInputSeq, acked, history>>

\* Faulty variant: the last input stays in the buffer.
Faulty_HasInput ==
    /\ loop = "hasInput"
    /\ loop' = IF Len(buffer) > 1 /\ steps < MaxSteps THEN "dequeue"
               ELSE IF steps = 0 THEN "idleSteps" ELSE "report"
    /\ UNCHANGED <<room, handler, received, buffer, steps, cmd, lastInputSeq, acked, history>>

\* The condition of TickAll's while: HasInput, then the limit on steps.  With
\* no step taken, the idle simulation; else on to the report.
HasInput ==
    /\ loop = "hasInput"
    /\ loop' = IF buffer # <<>> /\ steps < MaxSteps THEN "dequeue"
               ELSE IF steps = 0 THEN "idleSteps" ELSE "report"
    /\ UNCHANGED <<room, handler, received, buffer, steps, cmd, lastInputSeq, acked, history>>

\* Faulty variant: the input returned stays in the buffer.
Faulty_DequeueInput ==
    /\ loop = "dequeue"
    /\ cmd' = IF buffer = <<>> THEN NoInput ELSE Head(buffer)
    /\ loop' = "simulate"
    /\ UNCHANGED <<room, handler, received, buffer, steps, lastInputSeq, acked, history>>

\* DequeueInput, which returns InputCmd{} when the buffer is empty.
DequeueInput ==
    /\ loop = "dequeue"
    /\ IF buffer = <<>>
       THEN cmd' = NoInput /\ UNCHANGED buffer
       ELSE cmd' = Head(buffer) /\ buffer' = Tail(buffer)
    /\ loop' = "simulate"
    /\ UNCHANGED <<room, handler, received, steps, lastInputSeq, acked, history>>

\* Faulty variant: an input without a number is acknowledged too.
Faulty_Acknowledge(n) == lastInputSeq' = WireSeq(n)

\* SimulatePlayer's last statement: 0 is no sequence number.
Acknowledge(n) ==
    lastInputSeq' = IF WireSeq(n) # 0 THEN WireSeq(n) ELSE lastInputSeq

\* SimulatePlayer on the input taken.
SimulatePlayer ==
    /\ loop = "simulate"
    /\ Acknowledge(cmd)
    /\ simulated' = IF cmd = NoInput THEN simulated ELSE Append(simulated, cmd)
    /\ steps' = steps + 1 /\ loop' = "hasInput"
    /\ UNCHANGED <<room, handler, received, buffer, cmd, acked, dropped>>

\* No input came: SimulatePlayer, three times, on InputCmd{}.
IdleSteps ==
    /\ loop = "idleSteps"
    /\ Acknowledge(NoInput)
    /\ loop' = "report"
    /\ UNCHANGED <<room, handler, received, buffer, steps, cmd, acked, history>>

\* S_PlayerState is sent to the player; the next tick drains the tasks first.
Report ==
    /\ loop = "report"
    /\ acked' = lastInputSeq /\ loop' = "drain"
    /\ UNCHANGED <<room, handler, received, buffer, steps, cmd, lastInputSeq, history>>

\* TickAll passes over a player that is not in the room or has not entered.
SkipTick ==
    /\ loop = "drain" /\ ~(present /\ entered)
    /\ UNCHANGED vars

TickAll ==
    \/ BeginTick \/ HasInput \/ DequeueInput \/ SimulatePlayer \/ IdleSteps \/ Report

Next == HandleInputCmd \/ EnqueueInput \/ RunTask \/ TickAll \/ SkipTick

\* The game loop and the worker run.
Fairness == WF_vars(TickAll) /\ WF_vars(EnqueueInput)

Spec == Init /\ [][Next]_vars
FairSpec == Spec /\ Fairness

-----------------------------------------------------------------------------
LoopLabels == {"drain", "hasInput", "dequeue", "simulate", "idleSteps", "report"}

\* The buffer keeps MAX_INPUT_BUFFER and a tick MAX_STEPS_PER_TICK.
TypeOK ==
    /\ present \in BOOLEAN /\ entered \in BOOLEAN
    /\ handler \in {"idle", "push"} /\ received \in Nat
    /\ buffer \in Seq(Nat) /\ Len(buffer) <= MaxBuffer
    /\ loop \in LoopLabels /\ steps \in 0..MaxSteps /\ cmd \in Nat
    /\ lastInputSeq \in 0..SeqModulus - 1 /\ acked \in 0..SeqModulus - 1
    /\ simulated \in Seq(Nat) /\ dropped \in SUBSET Nat

\* What waits to be simulated: the input in hand, the buffer, the one being pushed.
Waiting ==
    (IF loop = "simulate" THEN <<cmd>> ELSE <<>>) \o buffer
        \o (IF handler = "push" THEN <<received>> ELSE <<>>)

Increasing(s) == \A i, j \in DOMAIN s : i < j => s[i] < s[j]

\* game.proto has the server process the inputs in order: whatever the
\* interleaving of pushes, drops and ticks, they are simulated in the order
\* received and none twice.
InputOrder == Increasing(simulated \o Waiting)

\* A full buffer gives up its oldest inputs: what it holds is newer than all
\* that was dropped, also when the loop was taking inputs meanwhile.
DropsOldest == \A d \in dropped, i \in DOMAIN buffer : d < buffer[i]

InSeq(s) == {s[i] : i \in DOMAIN s}

\* Every input received since the player entered has been simulated, has been
\* dropped or is waiting: none is lost between the two threads.
NothingLost ==
    \E k \in 0..received :
        InSeq(simulated \o Waiting) \cup dropped = (k + 1)..received

\* HasInput and DequeueInput take the mutex separately, but a player's inputs
\* are never replaced by InputCmd{} because the buffer became empty between.
NoZeroInput == loop = "dequeue" => buffer # <<>>

\* The newest input simulated that carries a number other than 0.
Numbered == {n \in InSeq(simulated) : WireSeq(n) # 0}
NewestNumbered ==
    IF Numbered = {} THEN NoInput
    ELSE CHOOSE n \in Numbered : \A k \in Numbered : k <= n

\* S_PlayerState acknowledges exactly the inputs its position includes, so that
\* a client that replays the inputs after last_processed_input_seq applies each
\* one once.
AckExact == loop = "drain" => acked = WireSeq(NewestNumbered)

\* A buffered input is simulated or dropped in the end, unless the player leaves.
EventuallyConsumed ==
    \A n \in 1..MaxInputs : n \in InSeq(buffer) ~> n \notin InSeq(buffer) \/ ~present
=============================================================================
