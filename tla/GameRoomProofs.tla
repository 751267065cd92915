--------------------------- MODULE GameRoomProofs ---------------------------
(***************************************************************************)
(* Theorems about GameRoom for every set of players and every number of    *)
(* packets.                                                                *)
(***************************************************************************)
EXTENDS GameRoom, SequenceTheorems, TLAPS

LEMMA TaskType ==
    ASSUME NEW p \in Players, NEW kind \in TaskKinds
    PROVE  Task(kind, p) \in Tasks /\ Task(kind, p).kind = kind /\ Task(kind, p).who = p
BY DEF Task, Tasks

\* No handler holds the task of a connection callback.
ClientKinds == {"EnterGame", "BadName", "Attack", "Chat"}
HandlerInv == \A p \in Players : handler[p] = NoTask \/ handler[p].kind \in ClientKinds

TypeInv == TypeOK /\ HandlerInv

\* What a task sends is well typed.
LEMMA SendsType ==
    ASSUME TypeOK, NEW t \in Tasks
    PROVE  Sends(t) \in SUBSET Messages
<1>1. t.who \in Players /\ room \subseteq Players
    BY DEF TypeOK, Tasks
<1>2. \A kind \in MessageKinds, q \in Players : Message(kind, q, t) \in Messages
    BY <1>1 DEF Message, Messages
<1>3. Broadcast("Despawn", t) \subseteq Messages /\ Broadcast("Chat", t) \subseteq Messages
      /\ Broadcast("AttackResult", t) \subseteq Messages
    BY <1>1, <1>2 DEF Broadcast, MessageKinds
<1>4. EnterGame(t) \subseteq Messages
    BY <1>1, <1>2 DEF EnterGame, MessageKinds
<1>5. Leave(t) \subseteq Messages
    BY <1>3 DEF Leave
<1> QED
    BY <1>3, <1>4, <1>5 DEF Sends

LEMMA ClientTaskType ==
    ASSUME NEW p \in Players, NEW t \in ClientTasks(p)
    PROVE  t \in Tasks /\ t.kind \in ClientKinds
<1>1. PICK kind \in ClientKinds : t = Task(kind, p)
    BY DEF ClientTasks, ClientKinds
<1> QED
    BY <1>1, TaskType DEF TaskKinds, ClientKinds

LEMMA PostType ==
    ASSUME TypeOK, NEW t \in Tasks, PostTask(t)
    PROVE  tasks' \in Seq(Tasks)
BY DEF TypeOK, PostTask

LEMMA InitTypeInv == Init => TypeInv
<1> SUFFICES ASSUME Init PROVE TypeInv
    OBVIOUS
<1>1. tasks \in Seq(Tasks) /\ batch \in Seq(Tasks)
    BY DEF Init
<1> QED
    BY <1>1, RoomAssumption DEF Init, TypeInv, TypeOK, HandlerInv

LEMMA NextTypeInv == TypeInv /\ [Next]_vars => TypeInv'
<1> SUFFICES ASSUME TypeInv, [Next]_vars PROVE TypeInv'
    OBVIOUS
<1> USE DEF net, queue
<1>t. TypeOK /\ HandlerInv
    BY DEF TypeInv
<1>c. ASSUME NEW p \in Players, CloseFromLoop(p)
      PROVE  /\ tasks' \in Seq(Tasks) /\ UNCHANGED <<handler, requests, batch>>
             /\ conn' \in [Players -> {"none", "open", "closing", "closed"}]
    BY <1>c, <1>t, TaskType, PostType DEF CloseFromLoop, TypeOK, TaskKinds
<1>1. ASSUME NEW p \in Players, OnConnected(p) PROVE TypeInv'
    <2>1. tasks' \in Seq(Tasks)
        BY <1>1, <1>t, TaskType, PostType DEF OnConnected, TaskKinds
    <2> QED
        BY <1>1, <1>t, <2>1 DEF OnConnected, TypeInv, TypeOK, HandlerInv
<1>2. ASSUME NEW p \in Players, ReceivePacket(p) PROVE TypeInv'
    <2>1. PICK t \in ClientTasks(p) : handler' = [handler EXCEPT ![p] = t]
        BY <1>2 DEF ReceivePacket
    <2>2. t \in Tasks /\ t.kind \in ClientKinds
        BY <2>1, ClientTaskType
    <2>3. requests' \in 0..MaxRequests
        BY <1>2, <1>t, RoomAssumption DEF ReceivePacket, TypeOK
    <2>4. handler' \in [Players -> Tasks \cup {NoTask}]
        BY <1>t, <2>1, <2>2 DEF TypeOK
    <2>5. HandlerInv'
        BY <1>t, <2>1, <2>2 DEF TypeOK, HandlerInv
    <2> QED
        BY <1>2, <1>t, <2>3, <2>4, <2>5 DEF ReceivePacket, TypeInv, TypeOK
<1>3. ASSUME NEW p \in Players, HandlePacket(p) PROVE TypeInv'
    <2>1. tasks' \in Seq(Tasks)
        BY <1>3, <1>t, PostType DEF HandlePacket, TypeOK
    <2>2. handler' \in [Players -> Tasks \cup {NoTask}] /\ HandlerInv'
        BY <1>3, <1>t DEF HandlePacket, TypeOK, HandlerInv
    <2> QED
        BY <1>3, <1>t, <2>1, <2>2 DEF HandlePacket, TypeInv, TypeOK
<1>4. ASSUME NEW p \in Players, BeginClose(p) PROVE TypeInv'
    BY <1>4, <1>t DEF BeginClose, TypeInv, TypeOK, HandlerInv
<1>5. ASSUME NEW p \in Players, OnDisconnected(p) PROVE TypeInv'
    <2>1. tasks' \in Seq(Tasks)
        BY <1>5, <1>t, TaskType, PostType DEF OnDisconnected, TaskKinds
    <2> QED
        BY <1>5, <1>t, <2>1 DEF OnDisconnected, TypeInv, TypeOK, HandlerInv
<1>6. ASSUME NEW p \in Players, TickOverflow(p) PROVE TypeInv'
    BY <1>6, <1>t, <1>c DEF TickOverflow, TypeInv, TypeOK, HandlerInv
<1>7. CASE DrainTasks
    BY <1>7, <1>t DEF DrainTasks, TypeInv, TypeOK, HandlerInv
<1>8. CASE RunTask
    <2>1. Head(batch) \in Tasks
        BY <1>8, <1>t DEF RunTask, TypeOK
    <2>2. sends' \in SUBSET Messages
        BY <1>8, <1>t, <2>1, SendsType DEF RunTask
    <2>3. room' \in SUBSET Players /\ entered' \in SUBSET Players
        BY <1>8, <1>t, <2>1 DEF RunTask, TypeOK, Tasks
    <2> QED
        BY <1>8, <1>t, <2>2, <2>3 DEF RunTask, TypeInv, TypeOK, HandlerInv
<1>9. ASSUME NEW m \in sends, Send(m) PROVE TypeInv'
    <2>1. m \in Messages /\ m.to \in Players /\ m.about \in Players
        BY <1>9, <1>t DEF TypeOK, Messages
    <2>2. Told(m) \in SUBSET Players
        BY <1>t, <2>1 DEF Told, TypeOK
    <2>3. view' \in [Players -> SUBSET Players]
        BY <1>9, <1>t, <2>1, <2>2 DEF Send, TypeOK
    <2>4. /\ tasks' \in Seq(Tasks) /\ UNCHANGED <<handler, requests, batch>>
          /\ conn' \in [Players -> {"none", "open", "closing", "closed"}]
        BY <1>9, <1>t, <1>c, <2>1 DEF Send, TypeOK
    <2> QED
        BY <1>9, <1>t, <2>3, <2>4 DEF Send, TypeInv, TypeOK, HandlerInv
<1>10. CASE FinishTask
    <2>1. batch' \in Seq(Tasks)
        BY <1>10, <1>t DEF FinishTask, TypeOK
    <2> QED
        BY <1>10, <1>t, <2>1 DEF FinishTask, TypeInv, TypeOK, HandlerInv
<1>11. CASE BeginTick
    BY <1>11, <1>t DEF BeginTick, TypeInv, TypeOK, HandlerInv
<1>12. CASE EndTick
    BY <1>12, <1>t DEF EndTick, TypeInv, TypeOK, HandlerInv
<1>13. CASE UNCHANGED vars
    BY <1>13, <1>t DEF vars, TypeInv, TypeOK, HandlerInv
<1> QED
    BY <1>1, <1>2, <1>3, <1>4, <1>5, <1>6, <1>7, <1>8, <1>9, <1>10, <1>11, <1>12, <1>13
    DEF Next, GameLoop

LEMMA InvariantType == Spec => []TypeInv
BY InitTypeInv, NextTypeInv, PTL DEF Spec

\* The variables keep their types; a batch is being run exactly in the phases
\* GameLoopThread runs one (GameRoom::DrainTasks).
THEOREM TypeCorrect == Spec => []TypeOK
<1>1. TypeInv => TypeOK
    BY DEF TypeInv
<1> QED
    BY <1>1, InvariantType, PTL

-----------------------------------------------------------------------------
\* The pending tasks as one sequence.

\* Posting adds at the end of what is pending, and the end of a task takes the
\* first off.
LEMMA PendingType == TypeOK => Pending \in Seq(Tasks)
BY ConcatProperties DEF TypeOK, Pending

LEMMA PostPending ==
    ASSUME TypeOK, NEW t \in Tasks, PostTask(t), batch' = batch
    PROVE  Pending' = Append(Pending, t)
<1>1. tasks \in Seq(Tasks) /\ batch \in Seq(Tasks) /\ <<t>> \in Seq(Tasks)
    BY DEF TypeOK
<1>2. Append(tasks, t) = tasks \o <<t>>
    BY <1>1, AppendIsConcat
<1>3. Append(batch \o tasks, t) = (batch \o tasks) \o <<t>>
    BY <1>1, ConcatProperties, AppendIsConcat
<1>4. batch \o (tasks \o <<t>>) = (batch \o tasks) \o <<t>>
    BY <1>1, ConcatAssociative
<1> QED
    BY <1>2, <1>3, <1>4 DEF PostTask, Pending

LEMMA FinishPending ==
    ASSUME TypeOK, batch # <<>>
    PROVE  /\ Pending # <<>> /\ Pending[1] = Head(batch)
           /\ Tail(batch) \o tasks = Tail(Pending)
<1>1. tasks \in Seq(Tasks) /\ batch \in Seq(Tasks) /\ Len(batch) > 0
    BY DEF TypeOK
<1>2. /\ Len(batch \o tasks) = Len(batch) + Len(tasks)
      /\ \A i \in 1..Len(batch) + Len(tasks) :
             (batch \o tasks)[i] = IF i <= Len(batch) THEN batch[i] ELSE tasks[i - Len(batch)]
    BY <1>1
<1>3. Len(Tail(batch)) = Len(batch) - 1 /\ Tail(batch) \in Seq(Tasks)
      /\ \A i \in 1..Len(batch) - 1 : Tail(batch)[i] = batch[i + 1]
    BY <1>1
<1>4. Tail(batch) \o tasks = Tail(batch \o tasks)
    BY <1>1, <1>2, <1>3
<1> QED
    BY <1>1, <1>2, <1>4 DEF Pending

LEMMA DrainPending == TypeOK /\ DrainTasks => Pending' = Pending
<1> SUFFICES ASSUME TypeOK, DrainTasks PROVE Pending' = Pending
    OBVIOUS
<1>1. batch = <<>> /\ tasks \in Seq(Tasks)
    BY DEF TypeOK, DrainTasks
<1>2. <<>> \o tasks = tasks /\ tasks \o <<>> = tasks
    BY <1>1, ConcatEmptySeq
<1> QED
    BY <1>1, <1>2 DEF DrainTasks, Pending

\* What one step does to the pending tasks.
PendingStep ==
    \/ Pending' = Pending
    \/ Pending # <<>> /\ Pending' = Tail(Pending)
    \/ \E t \in Tasks : Pending' = Append(Pending, t)

LEMMA NextPending == TypeInv /\ [Next]_vars => PendingStep
<1> SUFFICES ASSUME TypeInv, [Next]_vars PROVE PendingStep
    OBVIOUS
<1> USE DEF net, queue
<1>t. TypeOK
    BY DEF TypeInv
<1>s. UNCHANGED queue => PendingStep
    BY DEF Pending, PendingStep
<1>p. ASSUME NEW t \in Tasks, PostTask(t), batch' = batch PROVE PendingStep
    BY <1>t, <1>p, PostPending DEF PendingStep
<1>c. ASSUME NEW p \in Players, CloseFromLoop(p) PROVE PendingStep
    BY <1>c, <1>p, TaskType DEF CloseFromLoop, TaskKinds
<1>1. ASSUME NEW p \in Players, OnConnected(p) PROVE PendingStep
    BY <1>1, <1>p, TaskType DEF OnConnected, TaskKinds
<1>2. ASSUME NEW p \in Players, ReceivePacket(p) PROVE PendingStep
    BY <1>2, <1>s DEF ReceivePacket
<1>3. ASSUME NEW p \in Players, HandlePacket(p) PROVE PendingStep
    <2>1. handler[p] \in Tasks
        BY <1>3, <1>t DEF HandlePacket, TypeOK
    <2> QED
        BY <1>3, <1>s, <1>p, <2>1 DEF HandlePacket
<1>4. ASSUME NEW p \in Players, BeginClose(p) PROVE PendingStep
    BY <1>4, <1>s DEF BeginClose
<1>5. ASSUME NEW p \in Players, OnDisconnected(p) PROVE PendingStep
    BY <1>5, <1>p, TaskType DEF OnDisconnected, TaskKinds
<1>6. ASSUME NEW p \in Players, TickOverflow(p) PROVE PendingStep
    BY <1>6, <1>c DEF TickOverflow
<1>7. CASE DrainTasks
    BY <1>7, <1>t, DrainPending DEF PendingStep
<1>8. CASE RunTask
    BY <1>8, <1>s DEF RunTask
<1>9. ASSUME NEW m \in sends, Send(m) PROVE PendingStep
    <2>1. m.to \in Players
        BY <1>9, <1>t DEF TypeOK, Messages
    <2> QED
        BY <1>9, <1>s, <1>c, <2>1 DEF Send
<1>10. CASE FinishTask
    <2>1. batch # <<>> /\ Pending' = Tail(batch) \o tasks
        BY <1>10, <1>t DEF FinishTask, TypeOK, Pending
    <2> QED
        BY <1>t, <2>1, FinishPending DEF PendingStep
<1>11. CASE BeginTick
    BY <1>11, <1>s DEF BeginTick
<1>12. CASE EndTick
    BY <1>12, <1>s DEF EndTick
<1>13. CASE UNCHANGED vars
    BY <1>13, <1>s DEF vars
<1> QED
    BY <1>1, <1>2, <1>3, <1>4, <1>5, <1>6, <1>7, <1>8, <1>9, <1>10, <1>11, <1>12, <1>13
    DEF Next, GameLoop

\* PostTask and DrainTasks: tasks finish in the order they were posted, none is
\* lost and none runs twice.
THEOREM TasksRunInOrder == Spec => TasksInOrder
<1>1. TypeInv /\ [Next]_vars => [PendingStep]_vars
    BY NextPending
<1> QED
    BY <1>1, InvariantType, PTL DEF Spec, TasksInOrder, PendingStep

-----------------------------------------------------------------------------
\* The membership of the room.

\* q holds the task of this kind for p; Awaits is Has of what is pending.
Has(q, kind, p) == \E i \in DOMAIN q : q[i].kind = kind /\ q[i].who = p

\* Each player has one Enter and one Leave, in this order.
Membership == {"Enter", "Leave"}
Ordered(q) ==
    \A i, j \in DOMAIN q :
        /\ i < j /\ q[i].who = q[j].who
        /\ q[i].kind \in Membership /\ q[j].kind \in Membership
        => q[i].kind = "Enter" /\ q[j].kind = "Leave"

\* A connection that was not made has left no trace; a Leave is posted by the
\* callback that ends the connection.
ConnInv ==
    \A p \in Players :
        /\ conn[p] = "none" =>
               p \notin room /\ ~Has(Pending, "Enter", p) /\ ~Has(Pending, "Leave", p)
        /\ Has(Pending, "Leave", p) => conn[p] = "closed"

\* The Enter that is still pending for a member is the running task.
IsRunning(kind, p) == phase = "send" /\ Head(batch).kind = kind /\ Head(batch).who = p
RunningInv ==
    \A p \in Players :
        /\ IsRunning("Enter", p) => p \in room
        /\ p \in room /\ Has(Pending, "Enter", p) => IsRunning("Enter", p)

\* RoomExact, player by player.
Exact(p) ==
    p \in room \/ Has(Pending, "Enter", p)
        <=> conn[p] \in {"open", "closing"} \/ Has(Pending, "Leave", p)

ExactInv == \A p \in Players : Exact(p)

MemberInv == Ordered(Pending) /\ ConnInv /\ RunningInv /\ ExactInv

LEMMA HasAppend ==
    ASSUME NEW q \in Seq(Tasks), NEW t \in Tasks, NEW kind, NEW p
    PROVE  Has(Append(q, t), kind, p) <=> Has(q, kind, p) \/ (t.kind = kind /\ t.who = p)
<1> DEFINE r == Append(q, t)
<1>1. DOMAIN q = 1..Len(q) /\ DOMAIN r = 1..Len(q) + 1 /\ Len(q) \in Nat
    OBVIOUS
<1>2. r[Len(q) + 1] = t /\ \A i \in 1..Len(q) : r[i] = q[i]
    OBVIOUS
<1>3. \A i \in 1..Len(q) + 1 : i \in 1..Len(q) \/ i = Len(q) + 1
    BY <1>1
<1>4. Len(q) + 1 \in 1..Len(q) + 1 /\ 1..Len(q) \subseteq 1..Len(q) + 1
    BY <1>1
<1> HIDE DEF r
<1> QED
    BY <1>1, <1>2, <1>3, <1>4 DEF Has, r

LEMMA HasTail ==
    ASSUME NEW q \in Seq(Tasks), q # <<>>, NEW kind, NEW p
    PROVE  Has(q, kind, p) <=> Has(Tail(q), kind, p) \/ (q[1].kind = kind /\ q[1].who = p)
<1> DEFINE r == Tail(q)
<1>1. DOMAIN q = 1..Len(q) /\ DOMAIN r = 1..Len(q) - 1 /\ Len(q) \in Nat /\ Len(q) > 0
    OBVIOUS
<1>2. \A i \in 1..Len(q) - 1 : r[i] = q[i + 1]
    OBVIOUS
<1>3. \A i \in 1..Len(q) : i = 1 \/ (i - 1 \in 1..Len(q) - 1 /\ r[i - 1] = q[i])
    BY <1>1, <1>2
<1>4. 1 \in 1..Len(q) /\ \A i \in 1..Len(q) - 1 : i + 1 \in 1..Len(q)
    BY <1>1
<1> HIDE DEF r
<1>5. Has(q, kind, p) => Has(r, kind, p) \/ (q[1].kind = kind /\ q[1].who = p)
    BY <1>1, <1>3 DEF Has
<1>6. Has(r, kind, p) \/ (q[1].kind = kind /\ q[1].who = p) => Has(q, kind, p)
    BY <1>1, <1>2, <1>4 DEF Has
<1> QED
    BY <1>5, <1>6 DEF r

\* A task may be posted if it keeps Enter and Leave unique and in order.
MayPost(q, t) ==
    /\ t.kind = "Enter" => ~Has(q, "Enter", t.who) /\ ~Has(q, "Leave", t.who)
    /\ t.kind = "Leave" => ~Has(q, "Leave", t.who)

LEMMA OrderedAppend ==
    ASSUME NEW q \in Seq(Tasks), NEW t \in Tasks, Ordered(q), MayPost(q, t)
    PROVE  Ordered(Append(q, t))
<1> DEFINE r == Append(q, t)
<1>1. DOMAIN q = 1..Len(q) /\ DOMAIN r = 1..Len(q) + 1 /\ Len(q) \in Nat
    OBVIOUS
<1>2. r[Len(q) + 1] = t /\ \A i \in 1..Len(q) : r[i] = q[i]
    OBVIOUS
<1> HIDE DEF r
<1> SUFFICES ASSUME NEW i \in DOMAIN r, NEW j \in DOMAIN r,
                    i < j, r[i].who = r[j].who,
                    r[i].kind \in Membership, r[j].kind \in Membership
             PROVE  r[i].kind = "Enter" /\ r[j].kind = "Leave"
    BY DEF Ordered, r
<1>3. i \in 1..Len(q)
    BY <1>1
<1>4. CASE j \in 1..Len(q)
    BY <1>1, <1>2, <1>3, <1>4 DEF Ordered
<1>5. CASE j = Len(q) + 1
    <2>1. r[j] = t /\ r[i] = q[i]
        BY <1>2, <1>3, <1>5
    <2>2. Has(q, r[i].kind, t.who)
        BY <1>1, <1>3, <2>1 DEF Has
    <2> QED
        BY <2>1, <2>2 DEF MayPost, Membership
<1> QED
    BY <1>1, <1>4, <1>5

LEMMA OrderedTail ==
    ASSUME NEW q \in Seq(Tasks), q # <<>>, Ordered(q)
    PROVE  /\ Ordered(Tail(q))
           /\ q[1].kind \in Membership => ~Has(Tail(q), "Enter", q[1].who)
           /\ q[1].kind = "Leave" => ~Has(Tail(q), "Leave", q[1].who)
<1> DEFINE r == Tail(q)
<1>1. DOMAIN q = 1..Len(q) /\ DOMAIN r = 1..Len(q) - 1 /\ Len(q) \in Nat /\ Len(q) > 0
    OBVIOUS
<1>2. \A i \in 1..Len(q) - 1 : r[i] = q[i + 1] /\ i + 1 \in 1..Len(q) /\ 1 < i + 1
    BY <1>1
<1>3. 1 \in 1..Len(q)
    BY <1>1
<1>4. \A i, j \in 1..Len(q) - 1 : i < j => i + 1 < j + 1
    BY <1>1
<1> HIDE DEF r
<1>5. Ordered(r)
    <2> SUFFICES ASSUME NEW i \in 1..Len(q) - 1, NEW j \in 1..Len(q) - 1,
                        i < j, r[i].who = r[j].who,
                        r[i].kind \in Membership, r[j].kind \in Membership
                 PROVE  r[i].kind = "Enter" /\ r[j].kind = "Leave"
        BY <1>1 DEF Ordered
    <2>1. r[i] = q[i + 1] /\ r[j] = q[j + 1]
        BY <1>2
    <2>2. i + 1 \in DOMAIN q /\ j + 1 \in DOMAIN q /\ i + 1 < j + 1
        BY <1>1, <1>2, <1>4
    <2> QED
        BY <2>1, <2>2 DEF Ordered
<1>6. ASSUME NEW i \in DOMAIN r, r[i].who = q[1].who, r[i].kind \in Membership,
             q[1].kind \in Membership
      PROVE  q[1].kind = "Enter" /\ r[i].kind = "Leave"
    BY <1>1, <1>2, <1>3, <1>6 DEF Ordered
<1>7. q[1].kind \in Membership => ~Has(r, "Enter", q[1].who)
    BY <1>6 DEF Has, Membership
<1>8. q[1].kind = "Leave" => ~Has(r, "Leave", q[1].who)
    BY <1>6 DEF Has, Membership
<1> QED
    BY <1>5, <1>7, <1>8 DEF r

\* A task a worker posts for a client touches nobody's membership.
LEMMA PostOther ==
    ASSUME TypeOK, MemberInv, NEW t \in Tasks, t.kind \notin Membership,
           PostTask(t), UNCHANGED <<batch, conn, phase, room>>
    PROVE  MemberInv'
<1>1. Pending \in Seq(Tasks) /\ Pending' = Append(Pending, t)
    BY PendingType, PostPending
<1>2. Ordered(Pending')
    BY <1>1, OrderedAppend DEF MemberInv, MayPost, Membership
<1>3. \A kind \in Membership : \A p : Has(Pending', kind, p) <=> Has(Pending, kind, p)
    BY <1>1, HasAppend
<1>4. ConnInv' /\ RunningInv'
    BY <1>3 DEF MemberInv, ConnInv, RunningInv, IsRunning, Membership
<1>5. ExactInv'
    BY <1>3 DEF MemberInv, ExactInv, Exact, Membership
<1> QED
    BY <1>2, <1>4, <1>5 DEF MemberInv

\* The connect callback posts Enter.
LEMMA PostEnter ==
    ASSUME TypeOK, MemberInv, NEW p \in Players, conn[p] = "none",
           conn' = [conn EXCEPT ![p] = "open"],
           PostTask(Task("Enter", p)), UNCHANGED <<batch, phase, room>>
    PROVE  MemberInv'
<1> DEFINE t == Task("Enter", p)
<1>1. t \in Tasks /\ t.kind = "Enter" /\ t.who = p
    BY TaskType DEF TaskKinds
<1> HIDE DEF t
<1>2. Pending \in Seq(Tasks) /\ Pending' = Append(Pending, t)
    BY <1>1, PendingType, PostPending DEF t
<1>3. p \notin room /\ ~Has(Pending, "Enter", p) /\ ~Has(Pending, "Leave", p)
    BY DEF MemberInv, ConnInv
<1>4. Ordered(Pending')
    BY <1>1, <1>2, <1>3, OrderedAppend DEF MemberInv, MayPost
<1>5. \A q : /\ Has(Pending', "Enter", q) <=> Has(Pending, "Enter", q) \/ q = p
             /\ Has(Pending', "Leave", q) <=> Has(Pending, "Leave", q)
    BY <1>1, <1>2, HasAppend
<1>6. conn'[p] = "open" /\ \A q \in Players \ {p} : conn'[q] = conn[q]
    BY DEF TypeOK
<1>7. ConnInv'
    BY <1>3, <1>5, <1>6 DEF MemberInv, ConnInv
<1>8. RunningInv'
    BY <1>3, <1>5 DEF MemberInv, RunningInv, IsRunning
<1>9. ExactInv'
    <2> SUFFICES ASSUME NEW q \in Players PROVE Exact(q)'
        BY DEF ExactInv
    <2>1. Exact(q)
        BY DEF MemberInv, ExactInv
    <2> QED
        BY <1>3, <1>5, <1>6, <2>1 DEF Exact
<1> QED
    BY <1>4, <1>7, <1>8, <1>9 DEF MemberInv

\* The disconnect callback posts Leave.
LEMMA PostLeave ==
    ASSUME TypeOK, MemberInv, NEW p \in Players, conn[p] \in {"open", "closing"},
           conn' = [conn EXCEPT ![p] = "closed"],
           PostTask(Task("Leave", p)), UNCHANGED <<batch, phase, room>>
    PROVE  MemberInv'
<1> DEFINE t == Task("Leave", p)
<1>1. t \in Tasks /\ t.kind = "Leave" /\ t.who = p
    BY TaskType DEF TaskKinds
<1> HIDE DEF t
<1>2. Pending \in Seq(Tasks) /\ Pending' = Append(Pending, t)
    BY <1>1, PendingType, PostPending DEF t
<1>3. ~Has(Pending, "Leave", p)
    BY DEF MemberInv, ConnInv
<1>4. Ordered(Pending')
    BY <1>1, <1>2, <1>3, OrderedAppend DEF MemberInv, MayPost
<1>5. \A q : /\ Has(Pending', "Enter", q) <=> Has(Pending, "Enter", q)
             /\ Has(Pending', "Leave", q) <=> Has(Pending, "Leave", q) \/ q = p
    BY <1>1, <1>2, HasAppend
<1>6. conn'[p] = "closed" /\ \A q \in Players \ {p} : conn'[q] = conn[q]
    BY DEF TypeOK
<1>7. ConnInv'
    BY <1>3, <1>5, <1>6 DEF MemberInv, ConnInv
<1>8. RunningInv'
    BY <1>3, <1>5 DEF MemberInv, RunningInv, IsRunning
<1>9. ExactInv'
    <2> SUFFICES ASSUME NEW q \in Players PROVE Exact(q)'
        BY DEF ExactInv
    <2>1. Exact(q)
        BY DEF MemberInv, ExactInv
    <2> QED
        BY <1>3, <1>5, <1>6, <2>1 DEF Exact
<1> QED
    BY <1>4, <1>7, <1>8, <1>9 DEF MemberInv

\* Nothing MemberInv speaks of changes.
LEMMA MemberFrame ==
    ASSUME MemberInv, Pending' = Pending, UNCHANGED <<conn, room>>,
           \A p : IsRunning("Enter", p)' <=> IsRunning("Enter", p)
    PROVE  MemberInv'
<1>1. Ordered(Pending')
    BY DEF MemberInv
<1>2. ConnInv' /\ RunningInv'
    BY DEF MemberInv, ConnInv, RunningInv
<1>3. ExactInv'
    BY DEF MemberInv, ExactInv, Exact
<1> QED
    BY <1>1, <1>2, <1>3 DEF MemberInv

LEMMA InitMember == Init => MemberInv
<1> SUFFICES ASSUME Init PROVE MemberInv
    OBVIOUS
<1>1. Pending = <<>>
    BY DEF Init, Pending
<1>2. \A kind, p : ~Has(Pending, kind, p)
    BY <1>1 DEF Has
<1>3. Ordered(Pending)
    BY <1>1 DEF Ordered
<1> QED
    BY <1>2, <1>3 DEF Init, MemberInv, ConnInv, RunningInv, IsRunning, ExactInv, Exact

\* A task starts; an Enter inserts its player, and is the only one pending.
LEMMA RunMember ==
    ASSUME TypeOK, MemberInv, RunTask
    PROVE  MemberInv'
<1> DEFINE t == Head(batch)
<1>1. batch # <<>> /\ phase = "run" /\ phase' = "send" /\ UNCHANGED <<conn, batch>>
    BY DEF RunTask, net, queue
<1>2. Pending' = Pending
    BY DEF RunTask, queue, Pending
<1>3. t \in Tasks
    BY <1>1 DEF TypeOK
<1>4. Pending \in Seq(Tasks) /\ Pending # <<>> /\ Pending[1] = t
    BY <1>1, PendingType, FinishPending
<1> HIDE DEF t
<1>5. Has(Pending, t.kind, t.who)
    BY <1>4, HasTail
<1>6. room' = IF t.kind = "Enter" THEN room \cup {t.who} ELSE room
    BY DEF RunTask, t
<1>7. \A kind, p : IsRunning(kind, p)' <=> t.kind = kind /\ t.who = p
    BY <1>1 DEF IsRunning, t
<1>8. \A p \in room : ~Has(Pending, "Enter", p)
    BY <1>1 DEF MemberInv, RunningInv, IsRunning, TypeOK
<1>9. ConnInv'
    BY <1>1, <1>2, <1>5, <1>6 DEF MemberInv, ConnInv
<1>10. RunningInv'
    BY <1>2, <1>6, <1>7, <1>8 DEF RunningInv
<1>11. ExactInv'
    BY <1>1, <1>2, <1>5, <1>6 DEF MemberInv, ExactInv, Exact
<1> QED
    BY <1>2, <1>9, <1>10, <1>11 DEF MemberInv

\* A task ends and is popped; a Leave erases its player, whose Enter was earlier.
LEMMA FinishMember ==
    ASSUME TypeOK, MemberInv, FinishTask
    PROVE  MemberInv'
<1> DEFINE t == Head(batch)
           rest == Tail(Pending)
<1>1. phase = "send" /\ phase' = "run" /\ batch # <<>> /\ UNCHANGED conn
    BY DEF FinishTask, net, TypeOK
<1>2. t \in Tasks
    BY <1>1 DEF TypeOK
<1>3. Pending \in Seq(Tasks) /\ Pending # <<>> /\ Pending[1] = t
    BY <1>1, PendingType, FinishPending
<1>4. Pending' = rest
    BY <1>1, FinishPending DEF FinishTask, Pending
<1>5. room' = IF t.kind = "Leave" THEN room \ {t.who} ELSE room
    BY DEF FinishTask
<1>6. \A kind, p : IsRunning(kind, p) <=> t.kind = kind /\ t.who = p
    BY <1>1 DEF IsRunning
<1> HIDE DEF t, rest
<1>7. \A kind, p : Has(Pending, kind, p) <=> Has(rest, kind, p) \/ (t.kind = kind /\ t.who = p)
    BY <1>3, HasTail DEF rest
<1>8. /\ Ordered(rest)
      /\ t.kind \in Membership => ~Has(rest, "Enter", t.who)
      /\ t.kind = "Leave" => ~Has(rest, "Leave", t.who)
    BY <1>3, OrderedTail DEF rest, MemberInv
<1>9. ConnInv'
    BY <1>1, <1>4, <1>5, <1>7 DEF MemberInv, ConnInv
<1>10. \A p \in room : ~Has(rest, "Enter", p)
    BY <1>6, <1>7, <1>8 DEF MemberInv, RunningInv, TypeOK, Membership
<1>11. RunningInv'
    BY <1>1, <1>4, <1>5, <1>10 DEF RunningInv, IsRunning
<1>12. ExactInv'
    <2> SUFFICES ASSUME NEW p \in Players PROVE Exact(p)'
        BY DEF ExactInv
    <2>1. Exact(p) /\ (Has(Pending, "Leave", p) => conn[p] = "closed")
        BY DEF MemberInv, ExactInv, ConnInv
    <2>2. CASE t.kind = "Enter" /\ t.who = p
        BY <1>1, <1>4, <1>5, <1>6, <1>7, <2>1, <2>2 DEF Exact, MemberInv, RunningInv
    <2>3. CASE t.kind = "Leave" /\ t.who = p
        BY <1>1, <1>4, <1>5, <1>7, <1>8, <2>1, <2>3 DEF Exact, Membership
    <2>4. CASE ~(t.kind \in Membership /\ t.who = p)
        BY <1>1, <1>4, <1>5, <1>7, <2>1, <2>4 DEF Exact, Membership
    <2> QED
        BY <2>2, <2>3, <2>4 DEF Membership
<1> QED
    BY <1>4, <1>8, <1>9, <1>11, <1>12 DEF MemberInv

LEMMA NextMember == TypeInv /\ MemberInv /\ [Next]_vars => MemberInv'
<1> SUFFICES ASSUME TypeInv, MemberInv, [Next]_vars PROVE MemberInv'
    OBVIOUS
<1> USE DEF net, queue
<1>t. TypeOK /\ HandlerInv
    BY DEF TypeInv
<1>s. UNCHANGED queue /\ UNCHANGED <<conn, phase, room>> => MemberInv'
    BY MemberFrame DEF Pending, IsRunning
<1>n. \A k : k \in ClientKinds => k \notin Membership
    BY DEF ClientKinds, Membership
<1>c. ASSUME NEW p \in Players, CloseFromLoop(p), UNCHANGED <<phase, room>>
      PROVE  MemberInv'
    BY <1>c, <1>t, PostLeave DEF CloseFromLoop
<1>1. ASSUME NEW p \in Players, OnConnected(p) PROVE MemberInv'
    BY <1>1, <1>t, PostEnter DEF OnConnected
<1>2. ASSUME NEW p \in Players, ReceivePacket(p) PROVE MemberInv'
    BY <1>2, <1>s DEF ReceivePacket
<1>3. ASSUME NEW p \in Players, HandlePacket(p) PROVE MemberInv'
    <2>1. handler[p] \in Tasks /\ handler[p].kind \in ClientKinds
        BY <1>3, <1>t DEF HandlePacket, TypeOK, HandlerInv
    <2>2. CASE PostTask(handler[p])
        BY <1>3, <1>t, <1>n, <2>1, <2>2, PostOther DEF HandlePacket
    <2> QED
        BY <1>3, <1>s, <2>2 DEF HandlePacket
<1>4. ASSUME NEW p \in Players, BeginClose(p) PROVE MemberInv'
    <2>1. /\ Pending' = Pending /\ UNCHANGED <<batch, phase, room>>
          /\ conn[p] = "open" /\ conn'[p] = "closing"
          /\ \A q \in Players \ {p} : conn'[q] = conn[q]
        BY <1>4, <1>t DEF BeginClose, TypeOK, Pending
    <2>2. ~Has(Pending, "Leave", p)
        BY <2>1 DEF MemberInv, ConnInv
    <2>3. ConnInv'
        BY <2>1, <2>2 DEF MemberInv, ConnInv
    <2>4. RunningInv' /\ Ordered(Pending')
        BY <2>1 DEF MemberInv, RunningInv, IsRunning
    <2>5. ExactInv'
        <3> SUFFICES ASSUME NEW q \in Players PROVE Exact(q)'
            BY DEF ExactInv
        <3>1. Exact(q)
            BY DEF MemberInv, ExactInv
        <3> QED
            BY <2>1, <3>1 DEF Exact
    <2> QED
        BY <2>3, <2>4, <2>5 DEF MemberInv
<1>5. ASSUME NEW p \in Players, OnDisconnected(p) PROVE MemberInv'
    BY <1>5, <1>t, PostLeave DEF OnDisconnected
<1>6. ASSUME NEW p \in Players, TickOverflow(p) PROVE MemberInv'
    BY <1>6, <1>c DEF TickOverflow
<1>7. CASE DrainTasks
    <2>1. Pending' = Pending
        BY <1>7, <1>t, DrainPending
    <2>2. phase # "send" /\ phase' # "send" /\ UNCHANGED <<conn, room>>
        BY <1>7 DEF DrainTasks
    <2> QED
        BY <2>1, <2>2, MemberFrame DEF IsRunning
<1>8. CASE RunTask
    BY <1>8, <1>t, RunMember
<1>9. ASSUME NEW m \in sends, Send(m) PROVE MemberInv'
    <2>1. m.to \in Players
        BY <1>9, <1>t DEF TypeOK, Messages
    <2> QED
        BY <1>9, <1>s, <1>c, <2>1 DEF Send
<1>10. CASE FinishTask
    BY <1>10, <1>t, FinishMember
<1>11. CASE BeginTick
    <2>1. Pending' = Pending /\ phase # "send" /\ phase' # "send" /\ UNCHANGED <<conn, room>>
        BY <1>11 DEF BeginTick, Pending
    <2> QED
        BY <2>1, MemberFrame DEF IsRunning
<1>12. CASE EndTick
    <2>1. Pending' = Pending /\ phase # "send" /\ phase' # "send" /\ UNCHANGED <<conn, room>>
        BY <1>12 DEF EndTick, Pending
    <2> QED
        BY <2>1, MemberFrame DEF IsRunning
<1>13. CASE UNCHANGED vars
    BY <1>13, <1>s DEF vars
<1> QED
    BY <1>1, <1>2, <1>3, <1>4, <1>5, <1>6, <1>7, <1>8, <1>9, <1>10, <1>11, <1>12, <1>13
    DEF Next, GameLoop

LEMMA InvariantMember == Spec => [](TypeInv /\ MemberInv)
BY InitTypeInv, NextTypeInv, InitMember, NextMember, PTL DEF Spec

\* GameRoom::Enter and Leave: _players holds a player from its Enter to its
\* Leave, whichever threads connect, close and post, and whenever.
THEOREM RoomCorrect == Spec => []RoomExact
<1>1. MemberInv => RoomExact
    BY DEF MemberInv, ExactInv, Exact, RoomExact, Awaits, Has
<1> QED
    BY <1>1, InvariantMember, PTL
-----------------------------------------------------------------------------
\* What the clients are told.

\* q holds a task of p, of whatever kind.
HasAny(q, p) == \E i \in DOMAIN q : q[i].who = p

\* The Enter of a player comes before all its other tasks.
EnterFirst(q) ==
    \A i, j \in DOMAIN q : i < j /\ q[j].kind = "Enter" => q[i].who # q[j].who

\* Before its connection a client has done nothing and was told nothing, and
\* before its Enter has run a player has not entered.
EntryInv ==
    /\ EnterFirst(Pending)
    /\ \A p \in Players :
           /\ conn[p] = "none" =>
                  ~HasAny(Pending, p) /\ handler[p] = NoTask /\ p \notin entered /\ view[p] = {}
           /\ handler[p] # NoTask => handler[p].who = p
           /\ Has(Pending, "Enter", p) => p \notin entered

\* The messages still to send are those of the running task.
SendsInv ==
    phase = "send" => \A m \in sends :
        /\ m.about = Head(batch).who
        /\ m.kind = "EnterGame" => Head(batch).kind = "EnterGame" /\ m.to = m.about
        /\ m.kind = "Spawn" => Head(batch).kind = "EnterGame" /\ m.to \in room
        /\ m.kind = "Despawn" => Head(batch).kind = "Leave"

\* A client that has been told of anyone is in the room until its Leave.
ViewersIn ==
    \A c \in Players : conn[c] \in {"open", "closing"} /\ view[c] # {} => c \in room

\* A message still to send will tell c of p.
ToTell(p, c) ==
    \E m \in sends : m.to = c /\ (m.kind = "EnterGame" \/ (m.kind = "Spawn" /\ m.about = p))

\* ViewsComplete at any time: what is missing is being sent, or p is leaving.
KnowsInv ==
    \A p, c \in room \cap entered :
        c # p /\ conn[c] = "open" =>
            p \in view[c] \/ IsRunning("Leave", p) \/ (phase = "send" /\ ToTell(p, c))

\* While a Leave runs, a client that was told of the player will be told.
GoneInv ==
    phase = "send" /\ Head(batch).kind = "Leave" /\ Head(batch).who \in room =>
        \A c \in Players :
            conn[c] = "open" /\ Head(batch).who \in view[c] =>
                \E m \in sends : m.to = c /\ m.kind = "Despawn"

ViewInv == SendsInv /\ ViewersIn /\ KnowsInv /\ GoneInv

LEMMA HasAnyAppend ==
    ASSUME NEW q \in Seq(Tasks), NEW t \in Tasks, NEW p
    PROVE  HasAny(Append(q, t), p) <=> HasAny(q, p) \/ t.who = p
<1> DEFINE r == Append(q, t)
<1>1. DOMAIN q = 1..Len(q) /\ DOMAIN r = 1..Len(q) + 1 /\ Len(q) \in Nat
    OBVIOUS
<1>2. r[Len(q) + 1] = t /\ \A i \in 1..Len(q) : r[i] = q[i]
    OBVIOUS
<1>3. \A i \in 1..Len(q) + 1 : i \in 1..Len(q) \/ i = Len(q) + 1
    BY <1>1
<1>4. Len(q) + 1 \in 1..Len(q) + 1 /\ 1..Len(q) \subseteq 1..Len(q) + 1
    BY <1>1
<1> HIDE DEF r
<1> QED
    BY <1>1, <1>2, <1>3, <1>4 DEF HasAny, r

LEMMA HasAnyTail ==
    ASSUME NEW q \in Seq(Tasks), q # <<>>, NEW p
    PROVE  HasAny(Tail(q), p) => HasAny(q, p)
<1> DEFINE r == Tail(q)
<1>1. DOMAIN q = 1..Len(q) /\ DOMAIN r = 1..Len(q) - 1 /\ Len(q) \in Nat /\ Len(q) > 0
    OBVIOUS
<1>2. \A i \in 1..Len(q) - 1 : r[i] = q[i + 1]
    OBVIOUS
<1>3. \A i \in 1..Len(q) - 1 : i + 1 \in 1..Len(q)
    BY <1>1
<1> HIDE DEF r
<1> QED
    BY <1>1, <1>2, <1>3 DEF HasAny, r

LEMMA EnterFirstAppend ==
    ASSUME NEW q \in Seq(Tasks), NEW t \in Tasks, EnterFirst(q),
           t.kind = "Enter" => ~HasAny(q, t.who)
    PROVE  EnterFirst(Append(q, t))
<1> DEFINE r == Append(q, t)
<1>1. DOMAIN q = 1..Len(q) /\ DOMAIN r = 1..Len(q) + 1 /\ Len(q) \in Nat
    OBVIOUS
<1>2. r[Len(q) + 1] = t /\ \A i \in 1..Len(q) : r[i] = q[i]
    OBVIOUS
<1> HIDE DEF r
<1> SUFFICES ASSUME NEW i \in DOMAIN r, NEW j \in DOMAIN r, i < j, r[j].kind = "Enter"
             PROVE  r[i].who # r[j].who
    BY DEF EnterFirst, r
<1>3. i \in 1..Len(q)
    BY <1>1
<1>4. CASE j \in 1..Len(q)
    BY <1>1, <1>2, <1>3, <1>4 DEF EnterFirst
<1>5. CASE j = Len(q) + 1
    <2>1. r[j] = t /\ r[i] = q[i]
        BY <1>2, <1>3, <1>5
    <2>2. HasAny(q, r[i].who)
        BY <1>1, <1>3, <2>1 DEF HasAny
    <2> QED
        BY <2>1, <2>2
<1> QED
    BY <1>1, <1>4, <1>5

LEMMA EnterFirstTail ==
    ASSUME NEW q \in Seq(Tasks), q # <<>>, EnterFirst(q)
    PROVE  /\ EnterFirst(Tail(q))
           /\ q[1].kind # "Enter" => ~Has(q, "Enter", q[1].who)
<1> DEFINE r == Tail(q)
<1>1. DOMAIN q = 1..Len(q) /\ DOMAIN r = 1..Len(q) - 1 /\ Len(q) \in Nat /\ Len(q) > 0
    OBVIOUS
<1>2. \A i \in 1..Len(q) - 1 : r[i] = q[i + 1] /\ i + 1 \in 1..Len(q)
    BY <1>1
<1>3. \A i, j \in 1..Len(q) - 1 : i < j => i + 1 < j + 1
    BY <1>1
<1> HIDE DEF r
<1>4. EnterFirst(r)
    <2> SUFFICES ASSUME NEW i \in 1..Len(q) - 1, NEW j \in 1..Len(q) - 1,
                        i < j, r[j].kind = "Enter"
                 PROVE  r[i].who # r[j].who
        BY <1>1 DEF EnterFirst
    <2>1. r[i] = q[i + 1] /\ r[j] = q[j + 1]
        BY <1>2
    <2>2. i + 1 \in DOMAIN q /\ j + 1 \in DOMAIN q /\ i + 1 < j + 1
        BY <1>1, <1>2, <1>3
    <2> QED
        BY <2>1, <2>2 DEF EnterFirst
<1>5. ASSUME q[1].kind # "Enter", NEW j \in DOMAIN q, q[j].kind = "Enter"
      PROVE  q[j].who # q[1].who
    <2>1. 1 \in DOMAIN q /\ 1 < j
        BY <1>1, <1>5
    <2> QED
        BY <1>5, <2>1 DEF EnterFirst
<1> QED
    BY <1>4, <1>5 DEF Has, r

\* The head of the batch, and what the invariants say of its player.
LEMMA Running ==
    ASSUME TypeOK, EntryInv, batch # <<>>
    PROVE  /\ Head(batch) \in Tasks /\ Head(batch).who \in Players
           /\ Has(Pending, Head(batch).kind, Head(batch).who)
           /\ HasAny(Pending, Head(batch).who)
           /\ Head(batch).kind # "Enter" => ~Has(Pending, "Enter", Head(batch).who)
<1> DEFINE t == Head(batch)
<1>1. t \in Tasks
    BY DEF TypeOK
<1>2. Pending \in Seq(Tasks) /\ Pending # <<>> /\ Pending[1] = t
    BY PendingType, FinishPending
<1>3. Has(Pending, t.kind, t.who)
    <2> HIDE DEF t
    <2> QED
        BY <1>2, HasTail
<1>4. HasAny(Pending, t.who)
    BY <1>3 DEF Has, HasAny
<1>5. t.kind # "Enter" => ~Has(Pending, "Enter", t.who)
    BY <1>2, EnterFirstTail DEF EntryInv
<1> QED
    BY <1>1, <1>3, <1>4, <1>5 DEF Tasks

\* A task is posted for a client that is connected, or connects with it.
LEMMA PostEntry ==
    ASSUME TypeOK, EntryInv, NEW t \in Tasks, PostTask(t), UNCHANGED <<batch, entered, view>>,
           conn'[t.who] # "none", \A q \in Players : conn'[q] = "none" => conn[q] = "none",
           t.kind = "Enter" => conn[t.who] = "none",
           \A q \in Players : handler'[q] \in {handler[q], NoTask}
    PROVE  EntryInv'
<1>0. t.who \in Players
    BY DEF Tasks
<1>1. Pending \in Seq(Tasks) /\ Pending' = Append(Pending, t)
    BY PendingType, PostPending
<1>2. EnterFirst(Pending')
    BY <1>0, <1>1, EnterFirstAppend DEF EntryInv
<1> SUFFICES ASSUME NEW p \in Players
             PROVE  /\ conn'[p] = "none" =>
                           /\ ~HasAny(Pending', p) /\ handler'[p] = NoTask
                           /\ p \notin entered' /\ view'[p] = {}
                    /\ handler'[p] # NoTask => handler'[p].who = p
                    /\ Has(Pending', "Enter", p) => p \notin entered'
    BY <1>2 DEF EntryInv
<1>3. HasAny(Pending', p) <=> HasAny(Pending, p) \/ t.who = p
    BY <1>1, HasAnyAppend
<1>4. Has(Pending', "Enter", p) <=> Has(Pending, "Enter", p) \/ (t.kind = "Enter" /\ t.who = p)
    BY <1>1, HasAppend
<1>5. conn'[p] = "none" => ~HasAny(Pending', p) /\ handler'[p] = NoTask /\ p \notin entered'
                           /\ view'[p] = {}
    BY <1>3 DEF EntryInv
<1>6. handler'[p] # NoTask => handler'[p].who = p
    BY DEF EntryInv
<1>7. Has(Pending', "Enter", p) => p \notin entered'
    BY <1>4 DEF EntryInv
<1> QED
    BY <1>5, <1>6, <1>7

\* Nothing EntryInv speaks of changes but a connection that exists.
LEMMA EntryFrame ==
    ASSUME EntryInv, Pending' = Pending, UNCHANGED <<entered, handler, view>>,
           \A q \in Players : conn'[q] = "none" => conn[q] = "none"
    PROVE  EntryInv'
BY DEF EntryInv

LEMMA InitEntry == Init => EntryInv
<1> SUFFICES ASSUME Init PROVE EntryInv
    OBVIOUS
<1>1. Pending = <<>>
    BY DEF Init, Pending
<1>2. \A p : ~HasAny(Pending, p) /\ ~Has(Pending, "Enter", p)
    BY <1>1 DEF HasAny, Has
<1>3. EnterFirst(Pending)
    BY <1>1 DEF EnterFirst
<1> QED
    BY <1>2, <1>3 DEF Init, EntryInv

LEMMA NextEntry == TypeInv /\ EntryInv /\ [Next]_vars => EntryInv'
<1> SUFFICES ASSUME TypeInv, EntryInv, [Next]_vars PROVE EntryInv'
    OBVIOUS
<1> USE DEF net, queue
<1>t. TypeOK /\ HandlerInv
    BY DEF TypeInv
<1>s. UNCHANGED queue /\ UNCHANGED <<conn, handler, entered, view>> => EntryInv'
    BY EntryFrame DEF Pending
<1>c. ASSUME NEW p \in Players, CloseFromLoop(p), UNCHANGED <<entered, view>> PROVE EntryInv'
    <2>1. /\ Task("Leave", p) \in Tasks /\ Task("Leave", p).kind = "Leave"
          /\ Task("Leave", p).who = p
        BY TaskType DEF TaskKinds
    <2>2. conn'[p] = "closed" /\ \A q \in Players \ {p} : conn'[q] = conn[q]
        BY <1>c, <1>t DEF CloseFromLoop, TypeOK
    <2> QED
        BY <1>c, <1>t, <2>1, <2>2, PostEntry DEF CloseFromLoop
<1>1. ASSUME NEW p \in Players, OnConnected(p) PROVE EntryInv'
    <2>1. /\ Task("Enter", p) \in Tasks /\ Task("Enter", p).kind = "Enter"
          /\ Task("Enter", p).who = p
        BY TaskType DEF TaskKinds
    <2>2. conn'[p] = "open" /\ \A q \in Players \ {p} : conn'[q] = conn[q]
        BY <1>1, <1>t DEF OnConnected, TypeOK
    <2> QED
        BY <1>1, <1>t, <2>1, <2>2, PostEntry DEF OnConnected
<1>2. ASSUME NEW p \in Players, ReceivePacket(p) PROVE EntryInv'
    <2>1. PICK t \in ClientTasks(p) : handler' = [handler EXCEPT ![p] = t]
        BY <1>2 DEF ReceivePacket
    <2>2. t.who = p
        BY <2>1 DEF ClientTasks, Task
    <2>3. Pending' = Pending /\ UNCHANGED <<conn, entered, view>> /\ conn[p] = "open"
        BY <1>2 DEF ReceivePacket, Pending
    <2>4. handler'[p] = t /\ \A q \in Players \ {p} : handler'[q] = handler[q]
        BY <1>t, <2>1 DEF TypeOK
    <2> QED
        BY <2>2, <2>3, <2>4 DEF EntryInv
<1>3. ASSUME NEW p \in Players, HandlePacket(p) PROVE EntryInv'
    <2>1. /\ handler[p] \in Tasks /\ handler[p].kind \in ClientKinds /\ handler[p].who = p
          /\ conn[p] # "none"
        BY <1>3, <1>t DEF HandlePacket, TypeOK, HandlerInv, EntryInv
    <2>2. /\ UNCHANGED <<conn, batch, entered, view>>
          /\ \A q \in Players : handler'[q] \in {handler[q], NoTask}
        BY <1>3, <1>t DEF HandlePacket, TypeOK
    <2>3. CASE PostTask(handler[p])
        <3>1. handler[p].kind # "Enter"
            BY <2>1 DEF ClientKinds
        <3> HIDE DEF ClientKinds
        <3> QED
            BY <1>t, <2>1, <2>2, <2>3, <3>1, PostEntry
    <2>4. CASE UNCHANGED tasks
        <3>1. Pending' = Pending
            BY <2>2, <2>4 DEF Pending
        <3> QED
            BY <2>2, <3>1 DEF EntryInv
    <2> QED
        BY <1>3, <2>3, <2>4 DEF HandlePacket
<1>4. ASSUME NEW p \in Players, BeginClose(p) PROVE EntryInv'
    <2>1. \A q \in Players : conn'[q] = "none" => conn[q] = "none"
        BY <1>4, <1>t DEF BeginClose, TypeOK
    <2> QED
        BY <1>4, <2>1, EntryFrame DEF BeginClose, Pending
<1>5. ASSUME NEW p \in Players, OnDisconnected(p) PROVE EntryInv'
    <2>1. /\ Task("Leave", p) \in Tasks /\ Task("Leave", p).kind = "Leave"
          /\ Task("Leave", p).who = p
        BY TaskType DEF TaskKinds
    <2>2. conn'[p] = "closed" /\ \A q \in Players \ {p} : conn'[q] = conn[q]
        BY <1>5, <1>t DEF OnDisconnected, TypeOK
    <2> QED
        BY <1>5, <1>t, <2>1, <2>2, PostEntry DEF OnDisconnected
<1>6. ASSUME NEW p \in Players, TickOverflow(p) PROVE EntryInv'
    BY <1>6, <1>c DEF TickOverflow
<1>7. CASE DrainTasks
    BY <1>7, <1>t, DrainPending, EntryFrame DEF DrainTasks
<1>8. CASE RunTask
    <2> DEFINE t == Head(batch)
    <2>1. Pending' = Pending /\ UNCHANGED <<conn, handler, view>> /\ batch # <<>>
        BY <1>8 DEF RunTask, Pending
    <2>2. entered' = IF t.kind = "EnterGame" THEN entered \cup {t.who} ELSE entered
        BY <1>8 DEF RunTask
    <2>3. /\ t.who \in Players /\ HasAny(Pending, t.who)
          /\ t.kind # "Enter" => ~Has(Pending, "Enter", t.who)
        BY <1>t, <2>1, Running
    <2>4. conn[t.who] # "none"
        BY <2>3 DEF EntryInv
    <2> HIDE DEF t
    <2> QED
        BY <2>1, <2>2, <2>3, <2>4 DEF EntryInv
<1>9. ASSUME NEW m \in sends, Send(m) PROVE EntryInv'
    <2>1. m.to \in Players
        BY <1>9, <1>t DEF TypeOK, Messages
    <2>2. CASE conn[m.to] = "open" /\ view' = [view EXCEPT ![m.to] = Told(m)]
               /\ UNCHANGED <<net, queue>>
        <3>1. \A q \in Players \ {m.to} : view'[q] = view[q]
            BY <1>t, <2>1, <2>2 DEF TypeOK
        <3>2. Pending' = Pending /\ UNCHANGED <<conn, handler, entered>>
            BY <1>9, <2>2 DEF Send, Pending
        <3> QED
            BY <2>2, <3>1, <3>2 DEF EntryInv
    <2> QED
        BY <1>9, <1>s, <1>c, <2>1, <2>2 DEF Send
<1>10. CASE FinishTask
    <2>1. batch # <<>> /\ Pending' = Tail(batch) \o tasks
        BY <1>10, <1>t DEF FinishTask, TypeOK, Pending
    <2>2. Pending \in Seq(Tasks) /\ Pending # <<>> /\ Pending' = Tail(Pending)
        BY <1>t, <2>1, PendingType, FinishPending
    <2>3. EnterFirst(Pending')
        BY <2>2, EnterFirstTail DEF EntryInv
    <2>4. \A p : /\ HasAny(Pending', p) => HasAny(Pending, p)
                 /\ Has(Pending', "Enter", p) => Has(Pending, "Enter", p)
        BY <2>2, HasAnyTail, HasTail
    <2>5. UNCHANGED <<conn, handler, entered, view>>
        BY <1>10 DEF FinishTask
    <2> QED
        BY <2>3, <2>4, <2>5 DEF EntryInv
<1>11. CASE BeginTick
    BY <1>11, <1>s DEF BeginTick
<1>12. CASE EndTick
    BY <1>12, <1>s DEF EndTick
<1>13. CASE UNCHANGED vars
    BY <1>13, <1>s DEF vars
<1> QED
    BY <1>1, <1>2, <1>3, <1>4, <1>5, <1>6, <1>7, <1>8, <1>9, <1>10, <1>11, <1>12, <1>13
    DEF Next, GameLoop

\* The variables the views depend on besides the connections.
viewVars == <<batch, phase, sends, room, entered, view>>

\* A step that leaves the loop alone and opens no connection of a client that is
\* not in the room or that was told of anyone.
LEMMA ViewFrame ==
    ASSUME TypeOK, ViewInv, UNCHANGED viewVars,
           \A q \in Players : conn'[q] \in {"open", "closing"} =>
               conn[q] = conn'[q] \/ conn[q] = "open" \/ (q \notin room /\ view[q] = {})
    PROVE  ViewInv'
<1>1. SendsInv'
    BY DEF viewVars, ViewInv, SendsInv
<1>2. ViewersIn'
    BY DEF viewVars, ViewInv, ViewersIn
<1>3. \A q \in Players : conn'[q] = "open" => conn[q] = "open" \/ (q \notin room /\ view[q] = {})
    OBVIOUS
<1>4. KnowsInv'
    <2> SUFFICES ASSUME NEW p \in room \cap entered, NEW c \in room \cap entered,
                        c # p, conn'[c] = "open"
                 PROVE  p \in view[c] \/ IsRunning("Leave", p)
                            \/ (phase = "send" /\ ToTell(p, c))
        BY DEF viewVars, KnowsInv, IsRunning, ToTell
    <2>1. conn[c] = "open"
        BY <1>3 DEF TypeOK
    <2> QED
        BY <2>1 DEF ViewInv, KnowsInv
<1>5. GoneInv'
    BY <1>3 DEF viewVars, ViewInv, GoneInv
<1> QED
    BY <1>1, <1>2, <1>4, <1>5 DEF ViewInv

\* Outside of a task the members that have entered know each other.
LEMMA Idle ==
    ASSUME ViewInv, phase # "send"
    PROVE  \A p, c \in room \cap entered : c # p /\ conn[c] = "open" => p \in view[c]
BY DEF ViewInv, KnowsInv, IsRunning

\* The messages of a task that starts.
LEMMA SendsAre ==
    ASSUME NEW t \in Tasks, NEW m \in Sends(t)
    PROVE  /\ m.about = t.who
           /\ m.kind = "EnterGame" => t.kind = "EnterGame" /\ m.to = m.about
           /\ m.kind = "Spawn" => t.kind = "EnterGame" /\ m.to \in room
           /\ m.kind = "Despawn" => t.kind = "Leave"
<1>0. \A kind, q : /\ Message(kind, q, t).kind = kind /\ Message(kind, q, t).to = q
                   /\ Message(kind, q, t).about = t.who
    BY DEF Message
<1>1. CASE t.kind = "EnterGame"
    BY <1>0, <1>1 DEF Sends, EnterGame
<1>2. CASE t.kind = "Leave"
    BY <1>0, <1>2 DEF Sends, Leave, Broadcast
<1>3. CASE t.kind = "Attack"
    BY <1>0, <1>3 DEF Sends, Broadcast
<1>4. CASE t.kind = "Chat"
    BY <1>0, <1>4 DEF Sends, Broadcast
<1>5. CASE t.kind \notin {"EnterGame", "Leave", "Attack", "Chat"}
    BY <1>5 DEF Sends
<1> QED
    BY <1>1, <1>2, <1>3, <1>4, <1>5

\* A task starts.  A new member has not entered; one that enters is announced to
\* the members, and the members to it; one that leaves is announced to all.
LEMMA RunViews ==
    ASSUME TypeOK, MemberInv, EntryInv, ViewInv, RunTask
    PROVE  ViewInv'
<1> DEFINE t == Head(batch)
<1>1. /\ phase = "run" /\ phase' = "send" /\ batch # <<>> /\ sends' = Sends(t)
      /\ UNCHANGED <<conn, batch, view>>
      /\ room' = IF t.kind = "Enter" THEN room \cup {t.who} ELSE room
      /\ entered' = IF t.kind = "EnterGame" THEN entered \cup {t.who} ELSE entered
    BY DEF RunTask, net, queue
<1>2. /\ t \in Tasks /\ t.who \in Players /\ Has(Pending, t.kind, t.who)
    BY <1>1, Running
<1>3. \A kind, p : IsRunning(kind, p)' <=> t.kind = kind /\ t.who = p
    BY <1>1 DEF IsRunning
<1>h. Head(batch') = t
    BY <1>1
<1> HIDE DEF t
<1>4. SendsInv'
    <2> SUFFICES ASSUME NEW m \in Sends(t)
                 PROVE  /\ m.about = t.who
                        /\ m.kind = "EnterGame" => t.kind = "EnterGame" /\ m.to = m.about
                        /\ m.kind = "Spawn" => t.kind = "EnterGame" /\ m.to \in room'
                        /\ m.kind = "Despawn" => t.kind = "Leave"
        BY <1>1, <1>h DEF SendsInv
    <2>1. room \subseteq room'
        BY <1>1
    <2> QED
        BY <1>2, <2>1, SendsAre
<1>5. ViewersIn'
    BY <1>1 DEF ViewInv, ViewersIn
<1>6. KnowsInv'
    <2> SUFFICES ASSUME NEW p \in room' \cap entered', NEW c \in room' \cap entered',
                        c # p, conn[c] = "open"
                 PROVE  p \in view[c] \/ ToTell(p, c)'
        BY <1>1 DEF KnowsInv
    <2>1. CASE p \in room \cap entered /\ c \in room \cap entered
        BY <1>1, <2>1, Idle
    <2>2. CASE ~(p \in room \cap entered /\ c \in room \cap entered)
        <3>1. t.kind # "Enter"
            <4> SUFFICES ASSUME t.kind = "Enter" PROVE FALSE
                OBVIOUS
            <4>1. t.who \notin entered
                BY <1>2 DEF EntryInv
            <4> QED
                BY <1>1, <2>2, <4>1
        <3>2. t.kind = "EnterGame" /\ t.who \notin entered /\ room' = room
              /\ (p = t.who \/ c = t.who)
            BY <1>1, <2>2, <3>1
        <3>3. Sends(t) = {Message("EnterGame", t.who, t)}
                         \cup {Message("Spawn", q, t) : q \in room \ {t.who}}
            BY <3>2 DEF Sends, EnterGame
        <3>4. CASE c = t.who
            <4>1. Message("EnterGame", c, t) \in sends'
                BY <1>1, <3>3, <3>4
            <4> QED
                BY <4>1 DEF ToTell, Message
        <3>5. CASE p = t.who
            <4>1. Message("Spawn", c, t) \in sends'
                BY <1>1, <3>2, <3>3, <3>5
            <4> QED
                BY <3>5, <4>1 DEF ToTell, Message
        <3> QED
            BY <3>2, <3>4, <3>5
    <2> QED
        BY <2>1, <2>2
<1>7. GoneInv'
    <2> SUFFICES ASSUME t.kind = "Leave", t.who \in room, NEW c \in Players,
                        conn[c] = "open", t.who \in view[c]
                 PROVE  \E m \in Sends(t) : m.to = c /\ m.kind = "Despawn"
        BY <1>1, <1>h DEF GoneInv
    <2>1. c \in room
        BY DEF ViewInv, ViewersIn
    <2>2. Message("Despawn", c, t) \in Sends(t)
        BY <2>1 DEF Sends, Leave, Broadcast
    <2> QED
        BY <2>2 DEF Message
<1> QED
    BY <1>4, <1>5, <1>6, <1>7 DEF ViewInv

\* A client is told a message.
LEMMA TellViews ==
    ASSUME TypeOK, MemberInv, EntryInv, ViewInv, NEW m \in sends, Send(m),
           conn[m.to] = "open", view' = [view EXCEPT ![m.to] = Told(m)],
           UNCHANGED <<net, queue>>
    PROVE  ViewInv'
<1> DEFINE t == Head(batch)
<1>1. /\ phase = "send" /\ batch # <<>> /\ sends' = sends \ {m}
      /\ UNCHANGED <<conn, batch, phase, room, entered>>
    BY DEF Send, net, queue, TypeOK
<1>2. /\ m.to \in Players /\ m.about = t.who
      /\ m.kind = "EnterGame" => t.kind = "EnterGame" /\ m.to = m.about
      /\ m.kind = "Spawn" => t.kind = "EnterGame" /\ m.to \in room
      /\ m.kind = "Despawn" => t.kind = "Leave"
    BY <1>1 DEF ViewInv, SendsInv, TypeOK, Messages
<1>3. view'[m.to] = Told(m) /\ \A c \in Players \ {m.to} : view'[c] = view[c]
    BY <1>2 DEF TypeOK
<1>4. /\ m.kind = "EnterGame" => Told(m) = view[m.to] \cup (room \ {m.to})
      /\ m.kind = "Spawn" => Told(m) = view[m.to] \cup {m.about}
      /\ m.kind = "Despawn" => Told(m) = view[m.to] \ {m.about}
      /\ m.kind \notin {"EnterGame", "Spawn", "Despawn"} => Told(m) = view[m.to]
    BY DEF Told
<1>5. SendsInv'
    BY <1>1 DEF ViewInv, SendsInv
<1>6. ViewersIn'
    <2>1. ASSUME Told(m) # {}, view[m.to] = {} PROVE m.to \in room
        <3>1. CASE m.kind = "EnterGame"
            <4>1. ~Has(Pending, "Enter", m.to)
                BY <1>1, <1>2, <3>1, Running
            <4>2. Exact(m.to)
                BY <1>2 DEF MemberInv, ExactInv
            <4> QED
                BY <4>1, <4>2 DEF Exact
        <3>2. CASE m.kind = "Spawn"
            BY <1>2, <3>2
        <3>3. CASE m.kind \notin {"EnterGame", "Spawn"}
            BY <1>4, <2>1, <3>3
        <3> QED
            BY <3>1, <3>2, <3>3
    <2> QED
        BY <1>1, <1>3, <2>1 DEF ViewInv, ViewersIn
<1>7. KnowsInv'
    <2> SUFFICES ASSUME NEW p \in room \cap entered, NEW c \in room \cap entered,
                        c # p, conn[c] = "open"
                 PROVE  p \in view'[c] \/ IsRunning("Leave", p) \/ ToTell(p, c)'
        BY <1>1 DEF KnowsInv, IsRunning
    <2>0. c \in Players /\ p \in Players
        BY DEF TypeOK
    <2>1. p \in view[c] \/ IsRunning("Leave", p) \/ ToTell(p, c)
        BY DEF ViewInv, KnowsInv
    <2>2. CASE IsRunning("Leave", p)
        BY <2>2
    <2>3. CASE p \in view[c]
        <3>1. p \in view'[c] \/ (c = m.to /\ m.kind = "Despawn" /\ p = m.about)
            BY <1>3, <1>4, <2>0, <2>3
        <3>2. m.kind = "Despawn" /\ p = m.about => IsRunning("Leave", p)
            BY <1>1, <1>2 DEF IsRunning
        <3> QED
            BY <3>1, <3>2
    <2>4. CASE ToTell(p, c)
        <3>1. PICK n \in sends : n.to = c /\ (n.kind = "EnterGame" \/ (n.kind = "Spawn" /\ n.about = p))
            BY <2>4 DEF ToTell
        <3>2. CASE n # m
            BY <1>1, <3>1, <3>2 DEF ToTell
        <3>3. CASE n = m
            BY <1>3, <1>4, <3>1, <3>3
        <3> QED
            BY <3>2, <3>3
    <2> QED
        BY <2>1, <2>2, <2>3, <2>4
<1>8. GoneInv'
    <2> SUFFICES ASSUME t.kind = "Leave", t.who \in room, NEW c \in Players,
                        conn[c] = "open", t.who \in view'[c]
                 PROVE  \E n \in sends' : n.to = c /\ n.kind = "Despawn"
        BY <1>1 DEF GoneInv
    <2>1. t.who \in view[c] /\ ~(c = m.to /\ m.kind = "Despawn")
        BY <1>2, <1>3, <1>4
    <2>2. PICK n \in sends : n.to = c /\ n.kind = "Despawn"
        BY <1>1, <2>1 DEF ViewInv, GoneInv
    <2> QED
        BY <1>1, <2>1, <2>2
<1> QED
    BY <1>5, <1>6, <1>7, <1>8 DEF ViewInv

\* A message goes to no one, and its client's session is not open afterwards.
LEMMA LoseViews ==
    ASSUME TypeOK, ViewInv, NEW m \in sends, sends' = sends \ {m},
           UNCHANGED <<batch, phase, room, entered, view>>,
           \A q \in Players : conn'[q] = conn[q] \/ conn'[q] = "closed",
           conn'[m.to] # "open"
    PROVE  ViewInv'
<1>1. SendsInv' /\ ViewersIn'
    BY DEF ViewInv, SendsInv, ViewersIn
<1>2. KnowsInv'
    <2> SUFFICES ASSUME NEW p \in room \cap entered, NEW c \in room \cap entered,
                        c # p, conn'[c] = "open"
                 PROVE  p \in view[c] \/ IsRunning("Leave", p)
                            \/ (phase = "send" /\ ToTell(p, c)')
        BY DEF KnowsInv, IsRunning
    <2>0. c # m.to /\ conn[c] = "open"
        BY DEF TypeOK
    <2>1. ToTell(p, c) => ToTell(p, c)'
        BY <2>0 DEF ToTell
    <2> QED
        BY <2>0, <2>1 DEF ViewInv, KnowsInv
<1>3. GoneInv'
    <2> SUFFICES ASSUME phase = "send", Head(batch).kind = "Leave", Head(batch).who \in room,
                        NEW c \in Players, conn'[c] = "open", Head(batch).who \in view[c]
                 PROVE  \E n \in sends' : n.to = c /\ n.kind = "Despawn"
        BY DEF GoneInv
    <2>1. c # m.to /\ conn[c] = "open"
        OBVIOUS
    <2> QED
        BY <2>1 DEF ViewInv, GoneInv
<1> QED
    BY <1>1, <1>2, <1>3 DEF ViewInv

\* A task ends: all was told, and one that leaves is gone.
LEMMA FinishViews ==
    ASSUME TypeOK, MemberInv, EntryInv, ViewInv, FinishTask
    PROVE  /\ ViewInv'
           /\ \A p \in room \ room', c \in Players : conn[c] = "open" => p \notin view[c]
<1> DEFINE t == Head(batch)
<1>1. /\ phase = "send" /\ sends = {} /\ phase' = "run" /\ batch # <<>>
      /\ room' = (IF t.kind = "Leave" THEN room \ {t.who} ELSE room)
      /\ UNCHANGED <<conn, sends, entered, view>>
    BY DEF FinishTask, net, TypeOK
<1>2. /\ t.who \in Players /\ Has(Pending, t.kind, t.who)
    BY <1>1, Running
<1>3. \A p : IsRunning("Leave", p) <=> t.kind = "Leave" /\ t.who = p
    BY <1>1 DEF IsRunning
<1>4. t.kind = "Leave" => conn[t.who] = "closed"
    BY <1>2 DEF MemberInv, ConnInv
<1>5. t.kind = "Leave" /\ t.who \in room =>
          \A c \in Players : conn[c] = "open" => t.who \notin view[c]
    BY <1>1 DEF ViewInv, GoneInv
<1> HIDE DEF t
<1>6. SendsInv' /\ GoneInv'
    BY <1>1 DEF SendsInv, GoneInv
<1>7. ViewersIn'
    BY <1>1, <1>4 DEF ViewInv, ViewersIn
<1>8. KnowsInv'
    <2> SUFFICES ASSUME NEW p \in room' \cap entered, NEW c \in room' \cap entered,
                        c # p, conn[c] = "open"
                 PROVE  p \in view[c]
        BY <1>1 DEF KnowsInv
    <2>1. p \in room \cap entered /\ c \in room \cap entered /\ ~IsRunning("Leave", p)
        BY <1>1, <1>3
    <2>2. ~ToTell(p, c)
        BY <1>1 DEF ToTell
    <2> QED
        BY <2>1, <2>2 DEF ViewInv, KnowsInv
<1> QED
    BY <1>1, <1>5, <1>6, <1>7, <1>8 DEF ViewInv

LEMMA InitViews == Init => ViewInv
BY DEF Init, ViewInv, SendsInv, ViewersIn, KnowsInv, GoneInv

\* What a step may not do to the room.
ClearsViews ==
    \A p \in room \ room', c \in Players : conn[c] = "open" => p \notin view[c]

LEMMA NextViews ==
    TypeInv /\ MemberInv /\ EntryInv /\ ViewInv /\ [Next]_vars => ViewInv' /\ ClearsViews
<1> SUFFICES ASSUME TypeInv, MemberInv, EntryInv, ViewInv, [Next]_vars
             PROVE  ViewInv' /\ ClearsViews
    OBVIOUS
<1> USE DEF net, queue
<1>t. TypeOK
    BY DEF TypeInv
<1>r. room \subseteq room' => ClearsViews
    BY DEF ClearsViews
<1>s. UNCHANGED <<conn, viewVars>> => ViewInv' /\ ClearsViews
    BY <1>t, <1>r, ViewFrame DEF viewVars
<1>c. ASSUME NEW p \in Players, CloseFromLoop(p), UNCHANGED <<phase, sends, room, entered, view>>
      PROVE  ViewInv' /\ ClearsViews
    <2>1. conn'[p] = "closed" /\ \A q \in Players \ {p} : conn'[q] = conn[q]
        BY <1>c, <1>t DEF CloseFromLoop, TypeOK
    <2> QED
        BY <1>c, <1>t, <1>r, <2>1, ViewFrame DEF CloseFromLoop, viewVars
<1>1. ASSUME NEW p \in Players, OnConnected(p) PROVE ViewInv' /\ ClearsViews
    <2>1. conn'[p] = "open" /\ \A q \in Players \ {p} : conn'[q] = conn[q]
        BY <1>1, <1>t DEF OnConnected, TypeOK
    <2>2. p \notin room /\ view[p] = {}
        BY <1>1 DEF OnConnected, MemberInv, ConnInv, EntryInv
    <2> QED
        BY <1>1, <1>t, <1>r, <2>1, <2>2, ViewFrame DEF OnConnected, viewVars
<1>2. ASSUME NEW p \in Players, ReceivePacket(p) PROVE ViewInv' /\ ClearsViews
    BY <1>2, <1>s DEF ReceivePacket, viewVars
<1>3. ASSUME NEW p \in Players, HandlePacket(p) PROVE ViewInv' /\ ClearsViews
    BY <1>3, <1>s DEF HandlePacket, viewVars
<1>4. ASSUME NEW p \in Players, BeginClose(p) PROVE ViewInv' /\ ClearsViews
    <2>1. conn[p] = "open" /\ conn'[p] = "closing" /\ \A q \in Players \ {p} : conn'[q] = conn[q]
        BY <1>4, <1>t DEF BeginClose, TypeOK
    <2> QED
        BY <1>4, <1>t, <1>r, <2>1, ViewFrame DEF BeginClose, viewVars
<1>5. ASSUME NEW p \in Players, OnDisconnected(p) PROVE ViewInv' /\ ClearsViews
    <2>1. conn'[p] = "closed" /\ \A q \in Players \ {p} : conn'[q] = conn[q]
        BY <1>5, <1>t DEF OnDisconnected, TypeOK
    <2> QED
        BY <1>5, <1>t, <1>r, <2>1, ViewFrame DEF OnDisconnected, viewVars
<1>6. ASSUME NEW p \in Players, TickOverflow(p) PROVE ViewInv' /\ ClearsViews
    BY <1>6, <1>c DEF TickOverflow
<1>7. CASE DrainTasks
    <2>1. /\ phase # "send" /\ phase' # "send"
          /\ UNCHANGED <<conn, sends, room, entered, view>>
        BY <1>7 DEF DrainTasks
    <2>2. KnowsInv'
        BY <2>1, Idle DEF KnowsInv
    <2>3. SendsInv' /\ GoneInv' /\ ViewersIn'
        BY <2>1 DEF SendsInv, GoneInv, ViewInv, ViewersIn
    <2> QED
        BY <1>r, <2>1, <2>2, <2>3 DEF ViewInv
<1>8. CASE RunTask
    BY <1>8, <1>t, <1>r, RunViews DEF RunTask
<1>9. ASSUME NEW m \in sends, Send(m) PROVE ViewInv' /\ ClearsViews
    <2>1. m.to \in Players
        BY <1>t DEF TypeOK, Messages
    <2>2. sends' = sends \ {m} /\ UNCHANGED <<phase, room, entered>>
        BY <1>9 DEF Send
    <2>3. CASE conn[m.to] = "open" /\ view' = [view EXCEPT ![m.to] = Told(m)]
               /\ UNCHANGED <<net, queue>>
        BY <1>9, <1>t, <1>r, <2>2, <2>3, TellViews
    <2>4. CASE conn[m.to] # "open" /\ UNCHANGED <<net, queue, view>>
        BY <1>t, <1>r, <2>2, <2>4, LoseViews
    <2>5. CASE CloseFromLoop(m.to) /\ UNCHANGED view
        <3>1. conn'[m.to] = "closed" /\ \A q \in Players \ {m.to} : conn'[q] = conn[q]
            BY <1>t, <2>1, <2>5 DEF CloseFromLoop, TypeOK
        <3>2. UNCHANGED batch
            BY <2>5 DEF CloseFromLoop
        <3> QED
            BY <1>t, <1>r, <2>1, <2>2, <2>5, <3>1, <3>2, LoseViews
    <2> QED
        BY <1>9, <2>3, <2>4, <2>5 DEF Send
<1>10. CASE FinishTask
    BY <1>10, <1>t, FinishViews DEF ClearsViews
<1>11. CASE BeginTick
    <2>1. /\ phase # "send" /\ phase' # "send"
          /\ UNCHANGED <<conn, sends, room, entered, view>>
        BY <1>11 DEF BeginTick
    <2>2. KnowsInv'
        BY <2>1, Idle DEF KnowsInv
    <2>3. SendsInv' /\ GoneInv' /\ ViewersIn'
        BY <2>1 DEF SendsInv, GoneInv, ViewInv, ViewersIn
    <2> QED
        BY <1>r, <2>1, <2>2, <2>3 DEF ViewInv
<1>12. CASE EndTick
    <2>1. /\ phase # "send" /\ phase' # "send"
          /\ UNCHANGED <<conn, sends, room, entered, view>>
        BY <1>12 DEF EndTick
    <2>2. KnowsInv'
        BY <2>1, Idle DEF KnowsInv
    <2>3. SendsInv' /\ GoneInv' /\ ViewersIn'
        BY <2>1 DEF SendsInv, GoneInv, ViewInv, ViewersIn
    <2> QED
        BY <1>r, <2>1, <2>2, <2>3 DEF ViewInv
<1>13. CASE UNCHANGED vars
    BY <1>13, <1>s DEF vars, viewVars
<1> QED
    BY <1>1, <1>2, <1>3, <1>4, <1>5, <1>6, <1>7, <1>8, <1>9, <1>10, <1>11, <1>12, <1>13
    DEF Next, GameLoop

LEMMA InvariantViews == Spec => [](TypeInv /\ MemberInv /\ EntryInv /\ ViewInv)
<1>1. Init => TypeInv /\ MemberInv /\ EntryInv /\ ViewInv
    BY InitTypeInv, InitMember, InitEntry, InitViews
<1>2. TypeInv /\ MemberInv /\ EntryInv /\ ViewInv /\ [Next]_vars
          => (TypeInv /\ MemberInv /\ EntryInv /\ ViewInv)'
    BY NextTypeInv, NextMember, NextEntry, NextViews
<1> QED
    BY <1>1, <1>2, PTL DEF Spec

\* GameRoom::EnterGame: whenever no task is running, the members that have
\* entered and can be sent to know each other, whatever came in between.
THEOREM EveryoneKnown == Spec => []ViewsComplete
<1>1. ViewInv => ViewsComplete
    BY Idle DEF ViewsComplete
<1> QED
    BY <1>1, InvariantViews, PTL

\* GameRoom::Leave: a player is erased only when every client that was told of
\* it, and can be sent to, has been told of its departure.
THEOREM DepartureTold == Spec => LeaveClearsViews
<1>1. TypeInv /\ MemberInv /\ EntryInv /\ ViewInv /\ [Next]_vars => [ClearsViews]_vars
    BY NextViews
<1> QED
    BY <1>1, InvariantViews, PTL DEF Spec, LeaveClearsViews, ClearsViews
=============================================================================
