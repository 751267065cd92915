--------------------------- MODULE ServiceProofs ---------------------------
(* Theorem about Service, for every number of workers and of connections.    *)
EXTENDS Service, FiniteSetTheorems, TLAPS

WorkerStates == {"none", "waiting", "sent", "release", "exited"} \cup Completions

\* The types the argument needs: the workers and the handles held.
WorkerInv ==
    /\ worker \in [Workers -> [at : WorkerStates, on : Sessions \cup {Nobody}]]
    /\ handles \subseteq Workers
    /\ recv \in [Sessions -> {"none", "posted"} \cup Completions]

\* A live worker has its handle in _workers, so that Stop waits for it.
HandleInv == \A w \in Workers : Live(w) => w \in handles

\* While a handle is held the port is open.
PortInv == /\ handles # {} => port = "open"
           /\ pc = "threads" => port = "open"

\* Where the main thread is: no handle before InitIocpAndWorkers, _running set
\* from start to Stop, no handle once Stop has returned.
PhaseInv ==
    /\ pc \in {"start", "socket", "bind", "port"} => handles = {}
    /\ ~running => pc \in {"start", "quit", "wait", "destroy", "gone"}
    /\ ~running /\ pc \notin {"quit", "wait"} => handles = {}
    /\ pc = "gone" => ~running

\* What Stop leaves: nothing is registered, listening or open afterwards.
StopInv ==
    /\ ~running => listen # "open" /\ registered = {}
    /\ ~running /\ pc \in {"start", "destroy", "gone"} => port # "open"

Inv == WorkerInv /\ HandleInv /\ PortInv /\ PhaseInv /\ StopInv

LEMMA InitInv == Init => Inv
  BY DEF Init, Inv, WorkerInv, HandleInv, PortInv, PhaseInv, StopInv, Live, WorkerStates, Completions

\* Steps of the main thread before the first connection.
LEMMA StartUpInv == Inv /\ StartUp => Inv'
<1> SUFFICES ASSUME Inv, StartUp PROVE Inv'
  OBVIOUS
<1> USE DEF Inv, WorkerInv, HandleInv, PortInv, PhaseInv, StopInv, Live, mainVars, threadVars, sessionVars
<1>1. CASE StartService \/ OpenListen \/ BindAndListen \/ CreatePort \/ StartFailed
  BY <1>1 DEF StartService, OpenListen, BindAndListen, CreatePort, StartFailed
<1>2. CASE CreateWorker
  <2>1. CASE UNCHANGED <<handles, worker>>
    BY <1>2, <2>1 DEF CreateWorker
  <2>2. CASE \E w \in Workers \ handles :
                /\ handles' = handles \cup {w}
                /\ worker' = [worker EXCEPT ![w].at = "waiting"]
                /\ UNCHANGED pc
    <3>1. PICK w \in Workers \ handles :
                /\ handles' = handles \cup {w}
                /\ worker' = [worker EXCEPT ![w].at = "waiting"]
                /\ UNCHANGED pc
      BY <2>2
    <3>2. pc = "threads" /\ UNCHANGED <<running, port, recv>>
      BY <1>2 DEF CreateWorker
    <3>3. WorkerInv'
      BY <3>1, <3>2 DEF WorkerStates
    <3>4. HandleInv'
      BY <3>1
    <3> QED
      BY <3>1, <3>2, <3>3, <3>4
  <2> QED
    BY <1>2, <2>1, <2>2 DEF CreateWorker
<1> QED
  BY <1>1, <1>2 DEF StartUp

\* The other steps of the main thread: none makes a worker live, and a handle
\* is given up only in WaitForWorkers, when every worker has ended.
LEMMA MainInv == Inv /\ Main => Inv'
<1> SUFFICES ASSUME Inv, Main PROVE Inv'
  OBVIOUS
<1>1. CASE StartUp
  BY <1>1, StartUpInv
<1> USE DEF Inv, WorkerInv, HandleInv, PortInv, PhaseInv, StopInv, Live, mainVars, threadVars, sessionVars
<1>2. CASE GetConnection \/ AcceptFails \/ ConnectFails \/ Associate
  BY <1>2 DEF GetConnection, AcceptFails, ConnectFails, Associate, vars, Nobody
<1>3. CASE NotifyConnected \/ EnqueueChat
  <2>1. recv' = recv
    BY <1>3 DEF NotifyConnected, EnqueueChat, EnqueueSend
  <2> QED
    BY <1>3, <2>1 DEF NotifyConnected, EnqueueChat
<1>4. CASE FirstRecv
  <2>1. recv' \in [Sessions -> {"none", "posted"} \cup Completions]
    BY <1>4 DEF FirstRecv, PostRecv
  <2> QED
    BY <1>4, <2>1 DEF FirstRecv
<1>5. CASE TakeSnapshot \/ TestClosing
  BY <1>5 DEF TakeSnapshot, TestClosing
<1>6. CASE Destroy \/ Stop \/ PostQuits
  BY <1>6 DEF Destroy, Stop, PostQuits
<1>7. CASE WaitForWorkers
  BY <1>7 DEF WaitForWorkers
<1> QED
  BY <1>1, <1>2, <1>3, <1>4, <1>5, <1>6, <1>7 DEF Main, Connecting, Sending, ShutDown

\* The steps of a worker: it was live, and keeps to its types.
LEMMA WorkInv == ASSUME NEW w \in Workers, Inv, Work(w) PROVE Inv'
<1> USE DEF Inv, WorkerInv, HandleInv, PortInv, PhaseInv, StopInv, mainVars, threadVars, sessionVars
<1>1. UNCHANGED <<mainVars, handles>>
  BY DEF Work, Handle, TakeQuit, TakeRecv, TakeSend, CloseAndRelease, OnRecvComplete,
         OnSendComplete, ReleaseOperation
<1>2. \E at \in WorkerStates, on \in Sessions \cup {Nobody} : WorkerAt(w, at, on)
  BY DEF Work, Handle, TakeQuit, TakeRecv, TakeSend, CloseAndRelease, OnRecvComplete,
         OnSendComplete, ReleaseOperation, WorkerStates, Completions
<1>3. Live(w)
  BY DEF Work, Handle, TakeQuit, TakeRecv, TakeSend, CloseAndRelease, OnRecvComplete,
         OnSendComplete, ReleaseOperation, Live
<1>4. recv' \in [Sessions -> {"none", "posted"} \cup Completions]
  BY DEF Work, Handle, TakeQuit, TakeRecv, TakeSend, CloseAndRelease, OnRecvComplete,
         OnSendComplete, ReleaseOperation, Release, PostRecv, Completions
<1>5. WorkerInv'
  BY <1>1, <1>2, <1>4 DEF WorkerAt
<1>6. \A v \in Workers : v # w => worker'[v] = worker[v]
  BY <1>2 DEF WorkerAt
<1>7. HandleInv'
  BY <1>1, <1>3, <1>6 DEF Live
<1>8. registered = {} => registered' = {}
  BY DEF Work, Handle, TakeQuit, TakeRecv, TakeSend, CloseAndRelease, OnRecvComplete,
         OnSendComplete, ReleaseOperation, Release, PostRecv, Closed
<1> QED
  BY <1>1, <1>5, <1>7, <1>8

LEMMA SystemInv == Inv /\ System => Inv'
  BY DEF System, SendCompletes, RecvCompletes, Completions, Inv, WorkerInv, HandleInv, PortInv,
         PhaseInv, StopInv, Live, mainVars, threadVars

LEMMA NextInv == Inv /\ [Next]_vars => Inv'
<1> SUFFICES ASSUME Inv, [Next]_vars PROVE Inv'
  OBVIOUS
<1>1. CASE UNCHANGED vars
  BY <1>1 DEF vars, mainVars, threadVars, sessionVars, Inv, WorkerInv, HandleInv, PortInv, PhaseInv, StopInv, Live
<1>2. CASE Next
  BY <1>1, <1>2, MainInv, WorkInv, SystemInv DEF Next, Finished
<1> QED
  BY <1>1, <1>2

\* No worker outlives the completion port it waits on or the NetService it
\* runs in, however many threads Stop has to wait for and wherever start-up
\* failed.
THEOREM NoWorkerOutlivesPort == Spec => []PortOutlivesWorkers
<1>1. Inv => PortOutlivesWorkers
  BY DEF Inv, HandleInv, PortInv, PhaseInv, StopInv, PortOutlivesWorkers
<1> QED
  BY <1>1, InitInv, NextInv, PTL DEF Spec

\* A NetService that is gone has given everything back: after a failed start,
\* or after Stop, the port and the listening socket are closed, no thread's
\* handle is held and no session is registered.
THEOREM GoneWithNothingOpen ==
  Spec => [](pc = "gone" => /\ port # "open" /\ listen # "open"
                            /\ handles = {} /\ registered = {})
<1>1. Inv => (pc = "gone" => /\ port # "open" /\ listen # "open"
                             /\ handles = {} /\ registered = {})
  BY DEF Inv, PhaseInv, StopInv
<1> QED
  BY <1>1, InitInv, NextInv, PTL DEF Spec

----------------------------------------------------------------------------
(* Types.  The actions touch the variables in four groups.                   *)

Pcs == {"start", "socket", "bind", "port", "threads", "failed", "accept", "connect",
        "associate", "connected", "postrecv", "sleep", "walk", "enqueue",
        "destroy", "stop", "quit", "wait", "gone", "useAfterFree"}

MainType ==
    /\ mode \in {"Server", "Client"} /\ running \in BOOLEAN /\ pc \in Pcs
    /\ listen \in {"none", "open", "closed"} /\ port \in {"none", "open", "closed"}

ThreadType ==
    /\ handles \subseteq Workers /\ quits \in Nat
    /\ worker \in [Workers -> [at : WorkerStates, on : Sessions \cup {Nobody}]]

SessionType ==
    /\ registered \subseteq Sessions
    /\ session \in [Sessions -> {"none", "new", "open", "closed", "freed"}]
    /\ refs \in [Sessions -> Int]
    /\ recv \in [Sessions -> {"none", "posted"} \cup Completions]
    /\ send \in [Sessions -> {"none", "posted", "done", "failed", "completing"}]
    /\ queued \in [Sessions -> 0..MaxQueue]

\* A connection is in hand wherever the main thread registers or uses one.
WalkType ==
    /\ target \in Sessions \cup {Nobody} /\ walk \subseteq Sessions /\ entered \subseteq Sessions
    /\ pc \in {"associate", "connected", "postrecv", "enqueue"} => target \in Sessions

TypeInv == MainType /\ ThreadType /\ SessionType /\ WalkType

\* Changing one count keeps the counts integers.
LEMMA RefsType ==
  ASSUME NEW s, NEW n \in Int, refs \in [Sessions -> Int]
  PROVE  [refs EXCEPT ![s] = @ + n] \in [Sessions -> Int]
<1>1. CASE s \in Sessions
  <2>1. refs[s] + n \in Int
    BY <1>1
  <2> QED
    BY <2>1
<1>2. CASE s \notin Sessions
  BY <1>2
<1> QED
  BY <1>1, <1>2

LEMMA ClosedType ==
  ASSUME NEW s, NEW more \in Nat, SessionType, Closed(s, more)
  PROVE  /\ registered' \subseteq Sessions /\ refs' \in [Sessions -> Int]
         /\ session' \in [Sessions -> {"none", "new", "open", "closed", "freed"}]
         /\ queued' \in [Sessions -> 0..MaxQueue]
<1> USE DEF SessionType
<1>1. refs' \in [Sessions -> Int]
  <2>1. CASE s \in Sessions
    <3>1. refs[s] - 1 - more \in Int
      BY <2>1
    <3> QED
      BY <3>1 DEF Closed
  <2>2. CASE s \notin Sessions
    BY <2>2 DEF Closed
  <2> QED
    BY <2>1, <2>2
<1>2. (IF refs[s] = 1 + more THEN "freed" ELSE "closed") \in {"freed", "closed"}
  OBVIOUS
<1>3. session' \in [Sessions -> {"none", "new", "open", "closed", "freed"}]
  BY <1>2 DEF Closed
<1>4. 0 \in 0..MaxQueue
  BY ServiceConstants
<1>5. queued' \in [Sessions -> 0..MaxQueue]
  BY <1>4 DEF Closed
<1> QED
  BY <1>1, <1>3, <1>5 DEF Closed

LEMMA EnqueueSendType ==
  ASSUME NEW s \in Sessions, SessionType, EnqueueSend(s) PROVE SessionType'
<1>1. CASE session[s] # "open" /\ UNCHANGED sessionVars
  BY <1>1 DEF SessionType, sessionVars
<1>2. CASE Closed(s, 0) /\ UNCHANGED <<recv, send>>
  BY <1>2, ClosedType DEF SessionType
<1>3. CASE /\ queued[s] < MaxQueue /\ queued' = [queued EXCEPT ![s] = @ + 1]
           /\ refs' = refs \/ refs' = [refs EXCEPT ![s] = @ + 1]
           /\ send' = send \/ send' = [send EXCEPT ![s] = "posted"]
           /\ UNCHANGED <<registered, session, recv>>
  <2>1. queued[s] + 1 \in 0..MaxQueue
    BY <1>3, ServiceConstants DEF SessionType
  <2>2. queued' \in [Sessions -> 0..MaxQueue]
    BY <1>3, <2>1 DEF SessionType
  <2>3. refs' \in [Sessions -> Int]
    BY <1>3, RefsType DEF SessionType
  <2> QED
    BY <1>3, <2>2, <2>3 DEF SessionType
<1> QED
  BY <1>1, <1>2, <1>3 DEF EnqueueSend

LEMMA PostRecvType ==
  ASSUME NEW s, SessionType, PostRecv(s) PROVE SessionType'
<1>1. CASE Closed(s, 0) /\ UNCHANGED <<recv, send>>
  BY <1>1, ClosedType DEF SessionType
<1>2. CASE /\ refs' = [refs EXCEPT ![s] = @ + 1] /\ recv' = [recv EXCEPT ![s] = "posted"]
           /\ UNCHANGED <<registered, session, send, queued>>
  <2>1. refs \in [Sessions -> Int] /\ 1 \in Int
    BY DEF SessionType
  <2>2. [refs EXCEPT ![s] = @ + 1] \in [Sessions -> Int]
    BY ONLY <2>1, RefsType
  <2>3. refs' \in [Sessions -> Int]
    BY ONLY <1>2, <2>2
  <2> QED
    BY <1>2, <2>3 DEF SessionType
<1>3. CASE UNCHANGED sessionVars
  BY <1>3 DEF SessionType, sessionVars
<1> QED
  BY <1>1, <1>2, <1>3 DEF PostRecv

LEMMA ReleaseType ==
  ASSUME NEW s, SessionType, Release(s) PROVE SessionType'
<1>1. refs' \in [Sessions -> Int]
  <2>1. CASE s \in Sessions
    <3>1. refs[s] - 1 \in Int
      BY <2>1 DEF SessionType
    <3> QED
      BY <3>1 DEF SessionType, Release
  <2>2. CASE s \notin Sessions
    BY <2>2 DEF SessionType, Release
  <2> QED
    BY <2>1, <2>2
<1>2. session' \in [Sessions -> {"none", "new", "open", "closed", "freed"}]
  <2>1. CASE s \in Sessions
    <3>1. Left(s, 1) \in {"none", "new", "open", "closed", "freed"}
      BY <2>1 DEF Left, SessionType
    <3> QED
      BY <3>1 DEF SessionType, Release
  <2>2. CASE s \notin Sessions
    BY <2>2 DEF SessionType, Release
  <2> QED
    BY <2>1, <2>2
<1> QED
  BY <1>1, <1>2 DEF SessionType, Release

LEMMA MainTypes == TypeInv /\ Main => TypeInv'
<1> SUFFICES ASSUME TypeInv, Main PROVE TypeInv'
  OBVIOUS
<1> USE DEF TypeInv, MainType, ThreadType, WalkType, Pcs, mainVars, threadVars
<1>1. CASE StartService \/ OpenListen \/ BindAndListen \/ CreatePort \/ StartFailed \/ ConnectFails
           \/ AcceptFails \/ TakeSnapshot \/ Destroy
  BY <1>1 DEF StartService, OpenListen, BindAndListen, CreatePort, StartFailed, ConnectFails,
     AcceptFails, TakeSnapshot, Destroy, vars, sessionVars, SessionType
<1>2. CASE CreateWorker
  BY <1>2 DEF CreateWorker, WorkerStates, sessionVars, SessionType
<1>3. CASE GetConnection
  BY <1>3 DEF GetConnection, SessionType
<1>4. CASE Associate
  BY <1>4 DEF Associate, SessionType
<1>5. CASE NotifyConnected
  <2>1. SessionType'
    BY <1>5, EnqueueSendType DEF NotifyConnected, SessionType, sessionVars
  <2> QED
    BY <1>5, <2>1 DEF NotifyConnected
<1>6. CASE FirstRecv
  <2>1. SessionType'
    BY <1>6, PostRecvType DEF FirstRecv, SessionType, sessionVars
  <2> QED
    BY <1>6, <2>1 DEF FirstRecv
<1>7. CASE TestClosing
  <2>1. SessionType' /\ MainType' /\ ThreadType'
    BY <1>7 DEF TestClosing, SessionType, sessionVars
  <2>2. WalkType'
    BY <1>7 DEF TestClosing
  <2> QED
    BY <2>1, <2>2
<1>8. CASE EnqueueChat
  <2>1. SessionType'
    BY <1>8, EnqueueSendType DEF EnqueueChat, SessionType, sessionVars
  <2> QED
    BY <1>8, <2>1 DEF EnqueueChat
<1>9. CASE Stop
  <2>1. MainType' /\ ThreadType' /\ WalkType'
    BY <1>9 DEF Stop
  <2>2. refs' \in [Sessions -> Int]
    BY <1>9 DEF Stop, SessionType
  <2>3. 0 \in 0..MaxQueue
    BY ServiceConstants
  <2>4. queued' \in [Sessions -> 0..MaxQueue]
    BY <1>9, <2>3 DEF Stop, SessionType
  <2>5. session' \in [Sessions -> {"none", "new", "open", "closed", "freed"}]
    BY <1>9 DEF Stop, SessionType
  <2>6. registered' = {} /\ UNCHANGED <<recv, send>>
    BY <1>9 DEF Stop
  <2> QED
    BY <2>1, <2>2, <2>4, <2>5, <2>6 DEF SessionType
<1>10. CASE PostQuits
  <2>1. Cardinality(handles) \in Nat
    <3>1. IsFiniteSet(1..WorkerCount)
      BY FS_Interval, ServiceConstants
    <3>2. IsFiniteSet(handles)
      BY <3>1, FS_Subset DEF Workers
    <3> QED
      BY <3>2, FS_CardinalityType
  <2> QED
    BY <1>10, <2>1 DEF PostQuits, SessionType, sessionVars
<1>11. CASE WaitForWorkers
  BY <1>11 DEF WaitForWorkers, SessionType, sessionVars
<1> QED
  BY <1>1, <1>2, <1>3, <1>4, <1>5, <1>6, <1>7, <1>8, <1>9, <1>10, <1>11
     DEF Main, StartUp, Connecting, Sending, ShutDown

LEMMA WorkTypes == ASSUME NEW w \in Workers, TypeInv, Work(w) PROVE TypeInv'
<1> USE DEF TypeInv, MainType, WalkType, mainVars, threadVars
<1>1. UNCHANGED <<mainVars, handles, target, walk, entered>>
  BY DEF Work, Handle, TakeQuit, TakeRecv, TakeSend, CloseAndRelease, OnRecvComplete,
         OnSendComplete, ReleaseOperation
<1>2. \E at \in WorkerStates, on \in Sessions \cup {Nobody} : WorkerAt(w, at, on)
  BY DEF ThreadType, Work, Handle, TakeQuit, TakeRecv, TakeSend, CloseAndRelease, OnRecvComplete,
         OnSendComplete, ReleaseOperation, WorkerStates, Completions
<1>3. quits' \in Nat
  BY DEF ThreadType, Work, Handle, TakeQuit, TakeRecv, TakeSend, CloseAndRelease, OnRecvComplete,
         OnSendComplete, ReleaseOperation
<1>4. ThreadType'
  BY <1>1, <1>2, <1>3 DEF ThreadType, WorkerAt
<1>5. SessionType'
  <2> USE ServiceConstants DEF SessionType
  <2>1. CASE TakeQuit(w) \/ \E s \in Sessions : TakeRecv(w, s) \/ TakeSend(w, s)
    BY <2>1 DEF TakeQuit, TakeRecv, TakeSend, sessionVars
  <2>2. CASE CloseAndRelease(w)
    <3> DEFINE s == worker[w].on
    <3>1. (Closed(s, 1) /\ UNCHANGED <<recv, send>>) \/ Release(s)
      BY <2>2 DEF CloseAndRelease
    <3> HIDE DEF s
    <3> QED
      BY <3>1, ReleaseType, ClosedType
  <2>3. CASE OnRecvComplete(w)
    <3> DEFINE s == worker[w].on
    <3>1. (Closed(s, 0) /\ UNCHANGED <<recv, send>>) \/ PostRecv(s)
      BY <2>3 DEF OnRecvComplete
    <3> HIDE DEF s
    <3> QED
      BY <3>1, PostRecvType, ClosedType
  <2>4. CASE OnSendComplete(w)
    BY <2>4 DEF OnSendComplete, Closed
  <2>5. CASE ReleaseOperation(w)
    BY <2>5, ReleaseType DEF ReleaseOperation
  <2> QED
    BY <2>1, <2>2, <2>3, <2>4, <2>5 DEF Work, Handle
<1> QED
  BY <1>1, <1>4, <1>5

LEMMA SystemTypes == TypeInv /\ System => TypeInv'
<1> SUFFICES ASSUME TypeInv, NEW s \in Sessions,
                    SendCompletes(s) \/ \E how \in Completions : RecvCompletes(s, how)
             PROVE  TypeInv'
  BY DEF System
<1> QED
  BY DEF TypeInv, MainType, ThreadType, SessionType, WalkType, mainVars, threadVars,
         SendCompletes, RecvCompletes

\* The variables keep their types, and the send queue its limit.
THEOREM TypeCorrect == Spec => []TypeOK
<1>1. Init => TypeInv
  <2> SUFFICES ASSUME Init PROVE TypeInv
    OBVIOUS
  <2>1. 0 \in 0..MaxQueue
    BY ServiceConstants
  <2>2. SessionType
    BY <2>1 DEF Init, SessionType
  <2>3. ThreadType
    BY DEF Init, ThreadType, WorkerStates
  <2> QED
    BY <2>2, <2>3 DEF Init, TypeInv, MainType, WalkType, Pcs
<1>2. TypeInv /\ [Next]_vars => TypeInv'
  <2> SUFFICES ASSUME TypeInv, [Next]_vars PROVE TypeInv'
    OBVIOUS
  <2>1. CASE UNCHANGED vars
    BY <2>1 DEF vars, mainVars, threadVars, sessionVars, TypeInv, MainType, ThreadType,
       SessionType, WalkType
  <2>2. CASE Next
    BY <2>1, <2>2, MainTypes, WorkTypes, SystemTypes DEF Next, Finished
  <2> QED
    BY <2>1, <2>2
<1>3. TypeInv => TypeOK
  BY DEF TypeInv, MainType, ThreadType, SessionType, WalkType, Pcs, WorkerStates, TypeOK
<1> QED
  BY <1>1, <1>2, <1>3, PTL DEF Spec
============================================================================
