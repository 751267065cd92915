------------------------------ MODULE Service ------------------------------
(* A NetService from start to destruction (ServerCore/NetService.cpp), as the
   two programs use it: main of SimpleServer/ServerMain.cpp, which accepts
   connections, and RunDummyBot of DummyClient/DummyClientMain.cpp, which makes
   one and broadcasts chat over it.  The main thread runs start-up, the loop of
   its program and the shutdown; any system call may fail.  The workers take
   completions from the I/O completion port.

   A session is followed as far as NetService and the bot depend on it: open,
   closed, freed, its references, the receive and the send outstanding.  The
   interleavings inside Session's functions are the subject of Session.tla;
   here Close and EnqueueSend are single steps.                              *)
EXTENDS Integers, FiniteSets

CONSTANTS WorkerCount,  \* workerCount: 4 in the server, 1 in a bot
          MaxSessions,  \* bound: connections ever made
          MaxQueue      \* MAX_SEND_QUEUE_SIZE

ASSUME ServiceConstants == /\ WorkerCount \in Nat \ {0}
                           /\ MaxSessions \in Nat \ {0} /\ MaxQueue \in Nat \ {0}

Workers == 1..WorkerCount
Sessions == 1..MaxSessions
Nobody == 0

VARIABLES
    mode,        \* _mode, and which program this is
    pc,          \* what the main thread does next
    running,     \* _running
    listen,      \* _listen: "none", "open" or "closed"
    port,        \* _iocp: "none", "open" or "closed"
    handles,     \* _workers: the threads whose handle is held
    worker,      \* each worker: [at, on], what it does next and on which session
    quits,       \* posted completions with key 0: each ends one worker
    registered,  \* _sessions
    session,     \* each session: "none", "new", "open", "closed" or "freed"
    refs,        \* _refCount of each session
    recv,        \* its receive: "none", "posted", or how it completed
    send,        \* its send: "none", "posted", "done" or "failed"
    queued,      \* length of its _sendQ
    target,      \* the session the main thread works on
    walk,        \* Broadcast: what is left of its snapshot of _sessions
    entered      \* sessions whose C_EnterGame reached the server

mainVars == <<mode, pc, running, listen, port>>
threadVars == <<handles, worker, quits>>
sessionVars == <<registered, session, refs, recv, send, queued>>
vars == <<mainVars, threadVars, sessionVars, target, walk, entered>>

\* How a receive completes: with a packet the handler takes, with one it
\* refuses, or without data because the peer or Close ended the connection.
Completions == {"accepted", "refused", "failed"}

Init ==
    /\ mode \in {"Server", "Client"}
    /\ pc = "start" /\ running = FALSE
    /\ listen = "none" /\ port = "none"
    /\ handles = {} /\ quits = 0
    /\ worker = [w \in Workers |-> [at |-> "none", on |-> Nobody]]
    /\ registered = {}
    /\ session = [s \in Sessions |-> "none"]
    /\ refs = [s \in Sessions |-> 0]
    /\ recv = [s \in Sessions |-> "none"]
    /\ send = [s \in Sessions |-> "none"]
    /\ queued = [s \in Sessions |-> 0]
    /\ target = Nobody /\ walk = {} /\ entered = {}

----------------------------------------------------------------------------
(* Parts of Session.  Each names all of sessionVars. *)

\* What becomes of s when n of its references are dropped.
Left(s, n) == IF refs[s] = n THEN "freed" ELSE session[s]

\* Close, with `more' references the caller drops besides the creator's.
Closed(s, more) ==
    /\ session' = [session EXCEPT ![s] = IF refs[s] = 1 + more THEN "freed" ELSE "closed"]
    /\ refs' = [refs EXCEPT ![s] = @ - 1 - more]
    /\ registered' = registered \ {s}
    /\ queued' = [queued EXCEPT ![s] = 0]

\* Release.
Release(s) ==
    /\ session' = [session EXCEPT ![s] = Left(s, 1)]
    /\ refs' = [refs EXCEPT ![s] = @ - 1]
    /\ UNCHANGED <<registered, recv, send, queued>>

\* EnqueueSend: nothing once closing; Close if the queue is full or WSASend
\* fails; the message is posted if no send is outstanding.
EnqueueSend(s) ==
    \/ session[s] # "open" /\ UNCHANGED sessionVars
    \/ /\ session[s] = "open" /\ queued[s] < MaxQueue /\ send[s] # "none"
       /\ queued' = [queued EXCEPT ![s] = @ + 1]
       /\ UNCHANGED <<registered, session, refs, recv, send>>
    \/ /\ session[s] = "open" /\ queued[s] < MaxQueue /\ send[s] = "none"
       /\ queued' = [queued EXCEPT ![s] = @ + 1]
       /\ refs' = [refs EXCEPT ![s] = @ + 1]
       /\ send' = [send EXCEPT ![s] = "posted"]
       /\ UNCHANGED <<registered, session, recv>>
    \/ /\ session[s] = "open" /\ (queued[s] >= MaxQueue \/ send[s] = "none")
       /\ Closed(s, 0)
       /\ UNCHANGED <<recv, send>>

\* PostRecv: nothing once closing; Close if WSARecv fails.
PostRecv(s) ==
    \/ session[s] # "open" /\ UNCHANGED sessionVars
    \/ /\ session[s] = "open"
       /\ refs' = [refs EXCEPT ![s] = @ + 1]
       /\ recv' = [recv EXCEPT ![s] = "posted"]
       /\ UNCHANGED <<registered, session, send, queued>>
    \/ session[s] = "open" /\ Closed(s, 0) /\ UNCHANGED <<recv, send>>

----------------------------------------------------------------------------
(* The main thread: start-up. *)

StartService ==   \* StartServer, StartClient
    /\ pc = "start"
    /\ running' = TRUE
    /\ pc' = IF mode = "Server" THEN "socket" ELSE "port"
    /\ UNCHANGED <<mode, listen, port, threadVars, sessionVars, target, walk, entered>>

OpenListen ==   \* socket
    /\ pc = "socket"
    /\ \/ listen' = "open" /\ pc' = "bind"
       \/ listen' = "none" /\ pc' = "failed"
    /\ UNCHANGED <<mode, running, port, threadVars, sessionVars, target, walk, entered>>

BindAndListen ==
    /\ pc = "bind"
    /\ pc' \in {"port", "failed"}
    /\ UNCHANGED <<mode, running, listen, port, threadVars, sessionVars, target, walk, entered>>

CreatePort ==   \* InitIocpAndWorkers
    /\ pc = "port"
    /\ \/ port' = "open" /\ pc' = "threads"
       \/ port' = "none" /\ pc' = "failed"
    /\ UNCHANGED <<mode, running, listen, threadVars, sessionVars, target, walk, entered>>

CreateWorker ==
    /\ pc = "threads"
    /\ \/ /\ Cardinality(handles) < WorkerCount
          /\ \E w \in Workers \ handles :
                /\ \A v \in Workers \ handles : w <= v
                /\ handles' = handles \cup {w}
                /\ worker' = [worker EXCEPT ![w].at = "waiting"]
                /\ UNCHANGED pc
       \/ /\ Cardinality(handles) < WorkerCount
          /\ pc' = "failed"
          /\ UNCHANGED <<handles, worker>>
       \/ /\ Cardinality(handles) = WorkerCount
          /\ pc' = IF mode = "Server" THEN "accept" ELSE "connect"
          /\ UNCHANGED <<handles, worker>>
    /\ UNCHANGED <<mode, running, listen, port, quits, sessionVars, target, walk, entered>>

\* The server cleans up Winsock before `service' is destroyed, which closes
\* its sockets; the bot just returns.
StartFailed ==
    /\ pc = "failed"
    /\ pc' = "destroy"
    /\ listen' = IF listen = "open" THEN "closed" ELSE listen
    /\ UNCHANGED <<mode, running, port, threadVars, sessionVars, target, walk, entered>>

----------------------------------------------------------------------------
(* The main thread: connections. *)

NextSession(s) == session[s] = "none" /\ \A r \in Sessions : session[r] = "none" => s <= r

\* accept, in RunAcceptLoop, or connect: a socket and a Session on it.
GetConnection ==
    /\ pc \in {"accept", "connect"}
    /\ \E s \in Sessions :
          /\ NextSession(s)
          /\ session' = [session EXCEPT ![s] = "new"]
          /\ refs' = [refs EXCEPT ![s] = 1]
          /\ target' = s
    /\ pc' = "associate"
    /\ UNCHANGED <<mode, running, listen, port, threadVars, registered, recv, send, queued,
                   walk, entered>>

\* RunAcceptLoop retries as long as _running is set.  Only Stop clears it, and
\* the main thread, which would call Stop after the loop, is in the loop: the
\* loop does not end, and StopGameLoop and Stop in main are never reached.
AcceptFails ==
    /\ pc = "accept" /\ running
    /\ UNCHANGED vars

ConnectFails ==
    /\ pc = "connect"
    /\ pc' = "stop"
    /\ UNCHANGED <<mode, running, listen, port, threadVars, sessionVars, target, walk, entered>>

\* CreateAndRegisterSession: a session that cannot be associated with the port
\* is deleted, which in a bot makes Connect fail.
Associate ==
    /\ pc = "associate"
    /\ \/ /\ session' = [session EXCEPT ![target] = "open"]
          /\ registered' = registered \cup {target}
          /\ pc' = "connected" /\ UNCHANGED <<refs, target>>
       \/ /\ session' = [session EXCEPT ![target] = "freed"]
          /\ refs' = [refs EXCEPT ![target] = 0]
          /\ pc' = (IF mode = "Server" THEN "accept" ELSE "stop")
          /\ target' = Nobody /\ UNCHANGED registered
    /\ UNCHANGED <<mode, running, listen, port, threadVars, recv, send, queued, walk, entered>>

\* Session::Start: OnConnected of a bot sends C_EnterGame, that of the server
\* posts a task; then PostRecv, on a session that a worker may have closed.
NotifyConnected ==
    /\ pc = "connected"
    /\ IF mode = "Client" THEN EnqueueSend(target) ELSE UNCHANGED sessionVars
    /\ pc' = "postrecv"
    /\ UNCHANGED <<mode, running, listen, port, threadVars, target, walk, entered>>

FirstRecv ==
    /\ pc = "postrecv"
    /\ \/ /\ session[target] # "freed"
          /\ PostRecv(target)
          /\ pc' = IF mode = "Server" THEN "accept" ELSE "sleep"
       \/ /\ session[target] = "freed"
          /\ pc' = "useAfterFree"
          /\ UNCHANGED sessionVars
    /\ target' = Nobody
    /\ UNCHANGED <<mode, running, listen, port, threadVars, walk, entered>>

\* NetService::Broadcast, once a second in a bot: a snapshot of _sessions is
\* taken under the lock and walked without it.
TakeSnapshot ==
    /\ pc = "sleep"
    /\ walk' = registered
    /\ pc' = "walk"
    /\ UNCHANGED <<mode, running, listen, port, threadVars, sessionVars, target, entered>>

TestClosing ==
    /\ pc = "walk"
    /\ \/ /\ walk = {} /\ pc' = "sleep" /\ UNCHANGED <<target, walk>>
       \/ \E s \in walk :
             /\ target' = s
             /\ walk' = walk \ {s}
             /\ pc' = CASE session[s] = "freed" -> "useAfterFree"
                        [] session[s] = "closed" -> "walk"
                        [] OTHER -> "enqueue"
    /\ UNCHANGED <<mode, running, listen, port, threadVars, sessionVars, entered>>

EnqueueChat ==
    /\ pc = "enqueue"
    /\ \/ session[target] # "freed" /\ EnqueueSend(target) /\ pc' = "walk"
       \/ session[target] = "freed" /\ pc' = "useAfterFree" /\ UNCHANGED sessionVars
    /\ target' = Nobody
    /\ UNCHANGED <<mode, running, listen, port, threadVars, walk, entered>>

----------------------------------------------------------------------------
(* The main thread: shutdown. *)

Destroy ==   \* ~NetService
    /\ pc = "destroy"
    /\ pc' = IF running THEN "stop" ELSE "gone"
    /\ UNCHANGED <<mode, running, listen, port, threadVars, sessionVars, target, walk, entered>>

\* Stop of a running service; of one that is not, it returns at once.  Closing
\* the snapshot of _sessions is one step: wherever the two programs get to
\* Stop, no session is registered.
Stop ==
    /\ pc = "stop" /\ running
    /\ running' = FALSE
    /\ listen' = IF listen = "open" THEN "closed" ELSE listen
    /\ registered' = {}
    /\ session' = [s \in Sessions |-> IF s \notin registered THEN session[s]
                                      ELSE IF refs[s] = 1 THEN "freed" ELSE "closed"]
    /\ refs' = [s \in Sessions |-> IF s \in registered THEN refs[s] - 1 ELSE refs[s]]
    /\ queued' = [s \in Sessions |-> IF s \in registered THEN 0 ELSE queued[s]]
    /\ pc' = IF port = "open" THEN "quit" ELSE "destroy"
    /\ UNCHANGED <<mode, port, recv, send, threadVars, target, walk, entered>>

\* Faulty variant: the first worker is forgotten.
OneQuitTooFew ==
    /\ pc = "quit"
    /\ quits' = IF handles = {} THEN quits ELSE quits + Cardinality(handles) - 1
    /\ pc' = "wait"
    /\ UNCHANGED <<mode, running, listen, port, handles, worker, sessionVars, target, walk, entered>>

PostQuits ==   \* PostQueuedCompletionStatus, once for every thread
    /\ pc = "quit"
    /\ quits' = quits + Cardinality(handles)
    /\ pc' = "wait"
    /\ UNCHANGED <<mode, running, listen, port, handles, worker, sessionVars, target, walk, entered>>

\* Faulty variant: the port is closed without waiting for the workers.
NoWait ==
    /\ pc = "wait"
    /\ handles' = {} /\ port' = "closed"
    /\ pc' = "destroy"
    /\ UNCHANGED <<mode, running, listen, worker, quits, sessionVars, target, walk, entered>>

WaitForWorkers ==   \* WaitForMultipleObjects, CloseHandle
    /\ pc = "wait"
    /\ \A w \in handles : worker[w].at = "exited"
    /\ handles' = {} /\ port' = "closed"
    /\ pc' = "destroy"
    /\ UNCHANGED <<mode, running, listen, worker, quits, sessionVars, target, walk, entered>>

----------------------------------------------------------------------------
(* The system completes the operations; the server program and the network
   are the other end of a bot's connection. *)

SendCompletes(s) ==
    /\ send[s] = "posted"
    /\ \/ session[s] = "open" /\ send' = [send EXCEPT ![s] = "done"]
          /\ entered' = entered \cup (IF mode = "Client" THEN {s} ELSE {})
       \/ send' = [send EXCEPT ![s] = "failed"] /\ UNCHANGED entered
    /\ UNCHANGED <<mainVars, threadVars, registered, session, refs, recv, queued, target, walk>>

RecvCompletes(s, how) ==
    /\ recv[s] = "posted"
    /\ session[s] # "open" => how = "failed"
    /\ recv' = [recv EXCEPT ![s] = how]
    /\ UNCHANGED <<mainVars, threadVars, registered, session, refs, send, queued, target, walk, entered>>

----------------------------------------------------------------------------
(* A worker: WorkerLoop. *)

WorkerAt(w, at, s) == worker' = [worker EXCEPT ![w] = [at |-> at, on |-> s]]

\* Key 0 and no operation: the thread ends.
TakeQuit(w) ==
    /\ worker[w].at = "waiting" /\ quits > 0
    /\ quits' = quits - 1
    /\ WorkerAt(w, "exited", Nobody)
    /\ UNCHANGED <<mainVars, handles, sessionVars, target, walk, entered>>

TakeRecv(w, s) ==
    /\ worker[w].at = "waiting" /\ recv[s] \in Completions
    /\ WorkerAt(w, recv[s], s)
    /\ recv' = [recv EXCEPT ![s] = "none"]
    /\ UNCHANGED <<mainVars, handles, quits, registered, session, refs, send, queued, target, walk, entered>>

TakeSend(w, s) ==
    /\ worker[w].at = "waiting" /\ send[s] \in {"done", "failed"}
    /\ WorkerAt(w, IF send[s] = "done" THEN "sent" ELSE "failed", s)
    /\ send' = [send EXCEPT ![s] = "completing"]   \* _sending stays set
    /\ UNCHANGED <<mainVars, handles, quits, registered, session, refs, recv, queued, target, walk, entered>>

\* A failed operation, or a receive of no bytes: Close and Release.
CloseAndRelease(w) ==
    /\ worker[w].at = "failed"
    /\ LET s == worker[w].on
       IN IF session[s] = "open" THEN Closed(s, 1) /\ UNCHANGED <<recv, send>> ELSE Release(s)
    /\ WorkerAt(w, "waiting", Nobody)
    /\ UNCHANGED <<mainVars, handles, quits, target, walk, entered>>

\* Faulty variant: the client's handler knows every opcode.
TakesAll(w) ==
    /\ worker[w].at \in {"accepted", "refused"}
    /\ PostRecv(worker[w].on)
    /\ WorkerAt(w, "release", worker[w].on)
    /\ UNCHANGED <<mainVars, handles, quits, target, walk, entered>>

\* OnRecvComplete: a packet HandlePacket refuses closes the session, otherwise
\* the next receive is posted.  A bot's handler refuses the opcodes it has no
\* case for, S_PlayerState and S_BroadcastMove among them.
OnRecvComplete(w) ==
    /\ worker[w].at \in {"accepted", "refused"}
    /\ LET s == worker[w].on
       IN IF worker[w].at = "refused" /\ session[s] = "open"
            THEN Closed(s, 0) /\ UNCHANGED <<recv, send>>
            ELSE PostRecv(s)
    /\ WorkerAt(w, "release", worker[w].on)
    /\ UNCHANGED <<mainVars, handles, quits, target, walk, entered>>

\* OnSendComplete: the message sent leaves the queue and the next is posted.
OnSendComplete(w) ==
    /\ worker[w].at = "sent"
    /\ LET s == worker[w].on
           rest == IF queued[s] = 0 THEN 0 ELSE queued[s] - 1
       IN \/ /\ rest = 0 \/ session[s] # "open"
             /\ queued' = [queued EXCEPT ![s] = rest]
             /\ send' = [send EXCEPT ![s] = "none"]
             /\ UNCHANGED <<registered, session, refs, recv>>
          \/ /\ rest > 0 /\ session[s] = "open"
             /\ queued' = [queued EXCEPT ![s] = rest]
             /\ send' = [send EXCEPT ![s] = "posted"]
             /\ refs' = [refs EXCEPT ![s] = @ + 1]
             /\ UNCHANGED <<registered, session, recv>>
          \/ /\ rest > 0 /\ session[s] = "open"
             /\ Closed(s, 0)
             /\ send' = [send EXCEPT ![s] = "none"]
             /\ UNCHANGED recv
    /\ WorkerAt(w, "release", worker[w].on)
    /\ UNCHANGED <<mainVars, handles, quits, target, walk, entered>>

\* The reference of the operation, dropped when its completion was handled.
ReleaseOperation(w) ==
    /\ worker[w].at = "release"
    /\ Release(worker[w].on)
    /\ WorkerAt(w, "waiting", Nobody)
    /\ UNCHANGED <<mainVars, handles, quits, target, walk, entered>>

----------------------------------------------------------------------------
StartUp == StartService \/ OpenListen \/ BindAndListen \/ CreatePort \/ CreateWorker \/ StartFailed
Connecting == ConnectFails \/ Associate \/ NotifyConnected \/ FirstRecv
Sending == TakeSnapshot \/ TestClosing \/ EnqueueChat
ShutDown == Destroy \/ Stop \/ PostQuits \/ WaitForWorkers
Main == StartUp \/ GetConnection \/ AcceptFails \/ Connecting \/ Sending \/ ShutDown

Handle(w) == CloseAndRelease(w) \/ OnRecvComplete(w) \/ OnSendComplete(w) \/ ReleaseOperation(w)
Work(w) == TakeQuit(w) \/ (\E s \in Sessions : TakeRecv(w, s) \/ TakeSend(w, s)) \/ Handle(w)

System == \E s \in Sessions : SendCompletes(s) \/ \E how \in Completions : RecvCompletes(s, how)

\* Nothing is said of the program once it has used freed memory.
Defined == pc # "useAfterFree"
Finished == pc \in {"gone", "useAfterFree"} /\ UNCHANGED vars

Next == \/ Defined /\ (Main \/ (\E w \in Workers : Work(w)) \/ System)
        \/ Finished

Spec == Init /\ [][Next]_vars

\* Threads are scheduled and operations complete, and the port hands
\* completions out in the order they arrived, so none waits for ever.  The
\* server, which sends S_PlayerState to a player in the game on every tick, is
\* always heard of again while the connection stands.
FairSpec ==
    /\ Spec
    /\ WF_vars(Defined /\ (StartUp \/ Connecting \/ Sending \/ ShutDown))
    /\ \A w \in Workers : WF_vars(Defined /\ Work(w))
    /\ \A s \in Sessions :
          /\ WF_vars(Defined /\ SendCompletes(s))
          /\ WF_vars(Defined /\ \E how \in Completions : RecvCompletes(s, how))
          /\ SF_vars(Defined /\ \E w \in Workers : TakeRecv(w, s))
          /\ SF_vars(Defined /\ \E w \in Workers : TakeSend(w, s))
          /\ SF_vars(Defined /\ s \in entered /\ RecvCompletes(s, "refused"))

----------------------------------------------------------------------------
TypeOK ==
    /\ mode \in {"Server", "Client"} /\ running \in BOOLEAN
    /\ pc \in {"start", "socket", "bind", "port", "threads", "failed", "accept", "connect",
               "associate", "connected", "postrecv", "sleep", "walk", "enqueue",
               "destroy", "stop", "quit", "wait", "gone", "useAfterFree"}
    /\ listen \in {"none", "open", "closed"} /\ port \in {"none", "open", "closed"}
    /\ handles \subseteq Workers /\ quits \in Nat
    /\ worker \in [Workers -> [at : {"none", "waiting", "sent", "release", "exited"} \cup Completions,
                               on : Sessions \cup {Nobody}]]
    /\ registered \subseteq Sessions
    /\ session \in [Sessions -> {"none", "new", "open", "closed", "freed"}]
    /\ refs \in [Sessions -> Int]
    /\ recv \in [Sessions -> {"none", "posted"} \cup Completions]
    /\ send \in [Sessions -> {"none", "posted", "done", "failed", "completing"}]
    /\ queued \in [Sessions -> 0..MaxQueue]
    /\ target \in Sessions \cup {Nobody}
    /\ walk \subseteq Sessions /\ entered \subseteq Sessions

Live(w) == worker[w].at \notin {"none", "exited"}

\* However far start-up came, and whatever fails, a worker never outlives the
\* completion port it waits on or the NetService it runs in: Stop waits for
\* every thread InitIocpAndWorkers created before it closes the port.
PortOutlivesWorkers == \A w \in Workers : Live(w) => port = "open" /\ pc # "gone"

\* Once Stop is called it returns and the NetService goes, leaving no thread,
\* handle, socket or session behind: every worker finds one quit message.
NothingLeft == /\ port # "open" /\ listen # "open" /\ handles = {} /\ registered = {}
               /\ \A s \in Sessions : session[s] \in {"none", "freed"}
StopEnds == pc = "stop" ~> (pc = "gone" /\ NothingLeft)

\* No bot stays in the game: once its C_EnterGame reached the server, the next
\* state packet has its handler close the session, which is then deleted.
RefusedThenGone == \A s \in Sessions : s \in entered /\ session[s] = "open" ~> session[s] = "freed"
============================================================================
