------------------------------ MODULE GameRoom ------------------------------
(***************************************************************************)
(* The game room (SimpleServer/GameRoom.cpp): the tasks other threads post *)
(* to the game loop, the membership they change, and what each client is   *)
(* told about it; with the connection callbacks of ServerMain.cpp and the  *)
(* handlers of ServerPacketHandler.cpp that post the tasks.                *)
(*                                                                         *)
(* Each connected client has one player, and at most one worker handles a  *)
(* packet of it at a time (Session!OneReceiver).  A message to a client    *)
(* whose session is open counts as told: the session then sends it, in     *)
(* order, unless it closes (Session!ImplementsOutbox).  Only the loop      *)
(* thread uses the room and the views, so its steps are those between two  *)
(* sends: other threads may close sessions and post tasks between them.    *)
(***************************************************************************)
EXTENDS Integers, Sequences, FiniteSets

CONSTANTS Players,     \* the clients, and the players OnConnected makes for them
          NoTask,      \* the value of handler when no packet is being handled
          MaxRequests  \* bound: the packets all clients send that end in a task

VARIABLES
    conn,      \* of each client: "none", "open", "closing" (_closing is set,
               \* OnDisconnected has not run) or "closed"
    handler,   \* the task of the packet a worker is handling, past the test of
               \* _closing in OnRecvComplete
    requests,  \* the number of such packets so far
    tasks,     \* _taskQueue
    batch,     \* DrainTasks's local queue, the running task at its head
    phase,     \* where the loop is: "drain", "run", "send" or "tick"
    sends,     \* what the running task has still to send
    room,      \* the keys of _players
    entered,   \* the players with _entered set
    view       \* the players each client has been told of and not told gone

net   == <<conn, handler, requests>>
queue == <<tasks, batch>>
vars  == <<net, queue, phase, sends, room, entered, view>>

\* A task as its kind and its player.
Task(kind, p) == [kind |-> kind, who |-> p]
TaskKinds == {"Enter", "Leave", "EnterGame", "BadName", "Attack", "Chat"}
Tasks == [kind : TaskKinds, who : Players]

\* The packets of a client that end in a task; a BadName is a C_EnterGame whose
\* name is empty or longer than 20 bytes.  A chat goes to everyone whatever its
\* type and target, and a C_LadderState, which tells no client anything, is
\* left out.
ClientTasks(p) ==
    {Task(kind, p) : kind \in {"EnterGame", "BadName", "Attack", "Chat"}}

ASSUME RoomAssumption == NoTask \notin Tasks /\ MaxRequests \in Nat

PostTask(t) == tasks' = Append(tasks, t)

-----------------------------------------------------------------------------
Init ==
    /\ conn = [p \in Players |-> "none"]
    /\ handler = [p \in Players |-> NoTask]
    /\ requests = 0
    /\ tasks = <<>> /\ batch = <<>> /\ phase = "drain" /\ sends = {}
    /\ room = {} /\ entered = {}
    /\ view = [p \in Players |-> {}]

\* The OnConnected callback, before Start posts the first receive.
OnConnected(p) ==
    /\ conn[p] = "none"
    /\ conn' = [conn EXCEPT ![p] = "open"]
    /\ PostTask(Task("Enter", p))
    /\ UNCHANGED <<handler, requests, batch, phase, sends, room, entered, view>>

\* A worker takes a packet off the stream of a session that is not closing.
ReceivePacket(p) ==
    /\ conn[p] = "open" /\ handler[p] = NoTask /\ requests < MaxRequests
    /\ \E t \in ClientTasks(p) : handler' = [handler EXCEPT ![p] = t]
    /\ requests' = requests + 1
    /\ UNCHANGED <<conn, queue, phase, sends, room, entered, view>>

\* HandleEnterGame, HandleChat and HandleAttack, the session closed meanwhile or
\* not.  An attack is ignored unless IsEntered(), which never turns false again.
HandlePacket(p) ==
    /\ handler[p] # NoTask
    /\ IF handler[p].kind = "Attack" /\ p \notin entered
       THEN UNCHANGED tasks
       ELSE PostTask(handler[p])
    /\ handler' = [handler EXCEPT ![p] = NoTask]
    /\ UNCHANGED <<conn, requests, batch, phase, sends, room, entered, view>>

\* A worker closes the session.
BeginClose(p) ==
    /\ conn[p] = "open"
    /\ conn' = [conn EXCEPT ![p] = "closing"]
    /\ UNCHANGED <<handler, requests, queue, phase, sends, room, entered, view>>

\* Faulty variant: a player that has not entered leaves nothing behind.
Faulty_OnDisconnected(p) ==
    /\ conn[p] = "closing"
    /\ conn' = [conn EXCEPT ![p] = "closed"]
    /\ IF p \in entered THEN PostTask(Task("Leave", p)) ELSE UNCHANGED tasks
    /\ UNCHANGED <<handler, requests, batch, phase, sends, room, entered, view>>

\* The OnDisconnected callback: SetSession(nullptr), PostTask.
OnDisconnected(p) ==
    /\ conn[p] = "closing"
    /\ conn' = [conn EXCEPT ![p] = "closed"]
    /\ PostTask(Task("Leave", p))
    /\ UNCHANGED <<handler, requests, batch, phase, sends, room, entered, view>>

-----------------------------------------------------------------------------
\* Faulty variant: a copy in place of the swap.
Faulty_DrainTasks ==
    /\ phase = "drain"
    /\ batch' = tasks
    /\ phase' = "run"
    /\ UNCHANGED <<net, tasks, sends, room, entered, view>>

\* DrainTasks: the swap.
DrainTasks ==
    /\ phase = "drain"
    /\ batch' = tasks /\ tasks' = <<>>
    /\ phase' = "run"
    /\ UNCHANGED <<net, sends, room, entered, view>>

Message(kind, to, t) == [kind |-> kind, to |-> to, about |-> t.who]
Broadcast(kind, t) == {Message(kind, q, t) : q \in room}

\* Faulty variant: the others are not told.
Faulty_EnterGame(t) ==
    IF t.who \in entered THEN {} ELSE {Message("EnterGame", t.who, t)}

\* EnterGame: S_EnterGame and S_PlayerList, one message here, to the player, and
\* S_Spawn to the others in the room.
EnterGame(t) ==
    IF t.who \in entered THEN {}
    ELSE {Message("EnterGame", t.who, t)}
         \cup {Message("Spawn", q, t) : q \in room \ {t.who}}

\* Faulty variant: the departure is announced to those who have entered.
Faulty_Leave(t) ==
    IF t.who \in room THEN {Message("Despawn", q, t) : q \in room \cap entered} ELSE {}

\* Leave: nothing for a player that is not in the room.
Leave(t) == IF t.who \in room THEN Broadcast("Despawn", t) ELSE {}

\* What a task sends.
Sends(t) ==
    CASE t.kind = "EnterGame" -> EnterGame(t)
      [] t.kind = "Leave"     -> Leave(t)
      [] t.kind = "Attack"    -> Broadcast("AttackResult", t)
      [] t.kind = "Chat"      -> Broadcast("Chat", t)
      [] OTHER                -> {}

\* A task starts: Enter inserts the player, EnterGame calls SetName.
RunTask ==
    /\ phase = "run" /\ batch # <<>>
    /\ LET t == Head(batch) IN
           /\ sends' = Sends(t)
           /\ room' = IF t.kind = "Enter" THEN room \cup {t.who} ELSE room
           /\ entered' = IF t.kind = "EnterGame" THEN entered \cup {t.who} ELSE entered
    /\ phase' = "send"
    /\ UNCHANGED <<net, queue, view>>

\* What the client knows once it is told m.
Told(m) ==
    CASE m.kind = "EnterGame" -> view[m.to] \cup (room \ {m.to})
      [] m.kind = "Spawn"     -> view[m.to] \cup {m.about}
      [] m.kind = "Despawn"   -> view[m.to] \ {m.about}
      [] OTHER                -> view[m.to]

\* EnqueueSend on the loop thread finds the queue full, or the post fails: Close.
CloseFromLoop(p) ==
    /\ conn[p] = "open"
    /\ conn' = [conn EXCEPT ![p] = "closed"]
    /\ PostTask(Task("Leave", p))
    /\ UNCHANGED <<handler, requests, batch>>

\* Send and Broadcast: one message; none without an open session.
Send(m) ==
    /\ phase = "send" /\ m \in sends
    /\ sends' = sends \ {m}
    /\ \/ /\ conn[m.to] = "open"
          /\ view' = [view EXCEPT ![m.to] = Told(m)]
          /\ UNCHANGED <<net, queue>>
       \/ /\ conn[m.to] # "open"
          /\ UNCHANGED <<net, queue, view>>
       \/ CloseFromLoop(m.to) /\ UNCHANGED view
    /\ UNCHANGED <<phase, room, entered>>

\* Faulty variant: the queue is cleared after the tasks have run.
Faulty_FinishTask ==
    /\ phase = "send" /\ sends = {}
    /\ room' = IF Head(batch).kind = "Leave" THEN room \ {Head(batch).who} ELSE room
    /\ batch' = Tail(batch) /\ phase' = "run"
    /\ tasks' = <<>>
    /\ UNCHANGED <<net, sends, entered, view>>

\* The task ends, Leave with the erase, and is popped.
FinishTask ==
    /\ phase = "send" /\ sends = {}
    /\ room' = IF Head(batch).kind = "Leave" THEN room \ {Head(batch).who} ELSE room
    /\ batch' = Tail(batch) /\ phase' = "run"
    /\ UNCHANGED <<net, tasks, sends, entered, view>>

\* Faulty variant: a tick follows each task.
Faulty_BeginTick ==
    /\ phase = "run"
    /\ phase' = "tick"
    /\ UNCHANGED <<net, queue, sends, room, entered, view>>

\* DrainTasks has run its batch.
BeginTick ==
    /\ phase = "run" /\ batch = <<>>
    /\ phase' = "tick"
    /\ UNCHANGED <<net, queue, sends, room, entered, view>>

\* TickAll's S_PlayerState and S_BroadcastMove overflow a session's queue.
TickOverflow(p) ==
    /\ phase = "tick" /\ p \in room /\ room \cap entered # {}
    /\ CloseFromLoop(p)
    /\ UNCHANGED <<phase, sends, room, entered, view>>

EndTick ==
    /\ phase = "tick"
    /\ phase' = "drain"
    /\ UNCHANGED <<net, queue, sends, room, entered, view>>

\* GameLoopThread's loop; TickOverflow is a matter of the clients' speed.
GameLoop ==
    \/ DrainTasks \/ RunTask \/ (\E m \in sends : Send(m)) \/ FinishTask
    \/ BeginTick \/ EndTick

Next ==
    \/ \E p \in Players :
           \/ OnConnected(p) \/ ReceivePacket(p) \/ HandlePacket(p)
           \/ BeginClose(p) \/ OnDisconnected(p) \/ TickOverflow(p)
    \/ GameLoop

\* The loop, the handlers and the closing threads run.
Fairness ==
    /\ WF_vars(GameLoop)
    /\ \A p \in Players : WF_vars(HandlePacket(p)) /\ WF_vars(OnDisconnected(p))

Spec == Init /\ [][Next]_vars
FairSpec == Spec /\ Fairness

-----------------------------------------------------------------------------
MessageKinds == {"EnterGame", "Spawn", "Despawn", "AttackResult", "Chat"}
Messages == [kind : MessageKinds, to : Players, about : Players]

\* A message is sent for a task that is running, to a member or its player.
TypeOK ==
    /\ conn \in [Players -> {"none", "open", "closing", "closed"}]
    /\ handler \in [Players -> Tasks \cup {NoTask}]
    /\ requests \in 0..MaxRequests
    /\ tasks \in Seq(Tasks) /\ batch \in Seq(Tasks)
    /\ phase \in {"drain", "run", "send", "tick"}
    /\ phase = "send" => batch # <<>>
    /\ phase \in {"drain", "tick"} => batch = <<>>
    /\ sends \in SUBSET Messages
    /\ room \in SUBSET Players /\ entered \in SUBSET Players
    /\ view \in [Players -> SUBSET Players]

\* The tasks posted and not finished.
Pending == batch \o tasks
Awaits(kind, p) ==
    \E i \in DOMAIN Pending : Pending[i].kind = kind /\ Pending[i].who = p

\* Tasks finish in the order they were posted, none is lost or run twice,
\* whatever is posted while a batch runs.
TasksInOrder ==
    [][\/ Pending' = Pending
       \/ Pending # <<>> /\ Pending' = Tail(Pending)
       \/ \E t \in Tasks : Pending' = Append(Pending, t)]_vars

\* _players holds a player from its Enter to its Leave: a connection that
\* closes, on whatever thread and however early, leaves no player behind.
RoomExact ==
    \A p \in Players :
        p \in room \/ Awaits("Enter", p)
            <=> conn[p] \in {"open", "closing"} \/ Awaits("Leave", p)

\* Between tasks, two members that have entered know each other: the list sent
\* to one and the Spawn sent to the other leave no gap.
ViewsComplete ==
    phase # "send" =>
        \A p, c \in room \cap entered :
            c # p /\ conn[c] = "open" => p \in view[c]

\* When Leave erases a player, no client is left that has been told of it,
\* by list or by Spawn, and not of its departure.
LeaveClearsViews ==
    [][\A p \in room \ room', c \in Players :
           conn[c] = "open" => p \notin view[c]]_vars

\* A player whose connection closed leaves the room and stays out of it.
EventuallyGone ==
    \A p \in Players : conn[p] = "closing" ~> [](p \notin room)

\* A valid C_EnterGame is served.
EventuallyEntered ==
    \A p \in Players :
        handler[p] # NoTask /\ handler[p].kind = "EnterGame" ~> p \in entered

-----------------------------------------------------------------------------
\* game.proto has S_Despawn announce an object's departure: between tasks no
\* client holds an object that is not in the room.  The code breaks this.
NoGhosts ==
    phase # "send" => \A c \in Players : conn[c] = "open" => view[c] \subseteq room
=============================================================================
