------------------------------- MODULE Session -------------------------------
(***************************************************************************)
(* One server-side Session (ServerCore/Session.cpp) and the threads that   *)
(* run its code: the accept thread that creates and starts it, the IOCP    *)
(* workers that dispatch its completions, and the game loop that sends on  *)
(* it through the raw pointer Player::_session.                            *)
(*                                                                         *)
(* Each thread has a program counter.  A step is the code between two      *)
(* accesses to state other threads touch: an atomic, the _sendLock, _sock, *)
(* the I/O completion port or the player's session pointer.  A load of     *)
(* _closing directly followed by AddRef is one step, the increment         *)
(* commuting with every step of Close that leaves the object alive.        *)
(* Every step of a thread reads or writes the Session object, so each one  *)
(* is guarded by "alive"; a thread that arrives at such a step after       *)
(* "delete this" takes UseAfterFree instead, and is not described further. *)
(***************************************************************************)
EXTENDS Integers, Sequences, FiniteSets

CONSTANTS Workers,       \* the IOCP worker threads, NetService::_workers
          Accept,        \* the thread in RunAcceptLoop
          Loop,          \* the game loop thread
          NoOne,         \* the value of sendLock when the mutex is free
          MaxSendQueue,  \* MAX_SEND_QUEUE_SIZE
          MaxMessages    \* bound: no send is begun once this many are queued

Threads == Workers \cup {Accept, Loop}

ASSUME ThreadsAssumption ==
    /\ IsFiniteSet(Workers)
    /\ Accept \notin Workers /\ Loop \notin Workers /\ Accept # Loop
    /\ NoOne \notin Threads

ASSUME BoundsAssumption == MaxSendQueue \in Nat \ {0} /\ MaxMessages \in Nat

IOType == {"RECV", "SEND"}

VARIABLES
    alive,          \* the object is allocated
    refCount,       \* _refCount
    closing,        \* _closing
    sock,           \* _sock # INVALID_SOCKET
    sendLock,       \* the thread holding _sendLock across steps, or NoOne
    sendQ,          \* _sendQ: the numbers of the queued messages
    sending,        \* _sending
    posted,         \* overlapped operations the kernel is working on
    okDone,         \* successful completions (bytes > 0) in the port
    errDone,        \* failed or zero-byte completions in the port
    registered,     \* the session is in NetService::_sessions
    playerSession,  \* Player::_session points to this session
    pc,             \* what each thread does next
    op,             \* the completion type each worker last dispatched
    accepted,       \* history: messages pushed to _sendQ, numbered in order
    wire,           \* history: messages handed to the kernel, in order
    leaves          \* history: Leave tasks posted by OnDisconnected

object   == <<alive, refCount>>
outgoing == <<sendLock, sendQ, sending, accepted, wire>>
kernel   == <<posted, okDone, errDone>>
owners   == <<registered, playerSession, leaves>>
vars     == <<object, closing, sock, outgoing, kernel, owners, pc, op>>

CloseLabels  == {"closeSocket", "clearQueue", "clearStream", "notify",
                 "releaseBase"}
FrontLabels  == {"postFront", "wsaSend"}
StreamLabels == {"recvBegin", "parse", "nextPacket"}
\* The labels at which a thread is about to touch the object.
InsideLabels == CloseLabels \cup FrontLabels \cup StreamLabels
                \cup {"associate", "connected", "postRecv", "wsaRecv", "enqueue",
                      "lockQueue", "sent", "release", "close"}
Labels == InsideLabels \cup {"idle", "done", "failed", "undefined"}

-----------------------------------------------------------------------------
Init ==
    /\ alive = TRUE /\ refCount = 1 /\ closing = FALSE /\ sock = TRUE
    /\ sendLock = NoOne /\ sendQ = <<>> /\ sending = FALSE
    /\ posted = [ty \in IOType |-> 0]
    /\ okDone = [ty \in IOType |-> 0]
    /\ errDone = [ty \in IOType |-> 0]
    /\ registered = FALSE /\ playerSession = FALSE /\ leaves = 0
    /\ pc = [t \in Threads |-> IF t = Accept THEN "associate" ELSE "idle"]
    /\ op = [t \in Threads |-> "RECV"]
    /\ accepted = 0 /\ wire = <<>>

At(t, label) == alive /\ pc[t] = label
Goto(t, label) == pc' = [pc EXCEPT ![t] = label]

\* Where Close and PostRecv return to: a worker finds _closing set or has
\* nothing left to do, and goes on to the Release that ends WorkerLoop's body.
Unwind(t) == CASE t = Loop   -> "idle"
               [] t = Accept -> "done"
               [] OTHER      -> "release"

\* Where EnqueueSend and OnSendComplete return to.
AfterSend(t) == IF t \in Workers /\ op[t] = "RECV" THEN "nextPacket" ELSE Unwind(t)

\* Faulty variant: operations take no reference.
Faulty_AddRef == UNCHANGED <<refCount, alive>>

AddRef == refCount' = refCount + 1 /\ UNCHANGED alive
Release == refCount' = refCount - 1 /\ alive' = (refCount # 1)

Post(ty) == posted' = [posted EXCEPT ![ty] = @ + 1]

-----------------------------------------------------------------------------
\* CreateAndRegisterSession: CreateIoCompletionPort fails, "delete session".
CreateFails ==
    /\ At(Accept, "associate")
    /\ alive' = FALSE /\ sock' = FALSE
    /\ Goto(Accept, "failed")
    /\ UNCHANGED <<refCount, closing, outgoing, kernel, owners, op>>

\* CreateAndRegisterSession: associated with the port, AddSession, then Start.
Register ==
    /\ At(Accept, "associate")
    /\ registered' = TRUE
    /\ Goto(Accept, "connected")
    /\ UNCHANGED <<object, closing, sock, outgoing, kernel, playerSession, leaves, op>>

\* Start: NotifyConnected runs the OnConnected callback, whose SetSession and
\* PostTask(Enter) let the game loop find the session.
OnConnected ==
    /\ At(Accept, "connected")
    /\ playerSession' = TRUE
    /\ Goto(Accept, "postRecv")
    /\ UNCHANGED <<object, closing, sock, outgoing, kernel, registered, leaves, op>>

-----------------------------------------------------------------------------
\* PostRecv: return if closing, else take the operation's reference.
PostRecv(t) ==
    /\ At(t, "postRecv")
    /\ \/ closing /\ Goto(t, Unwind(t)) /\ UNCHANGED object
       \/ ~closing /\ Goto(t, "wsaRecv") /\ AddRef
    /\ UNCHANGED <<closing, sock, outgoing, kernel, owners, op>>

\* Faulty variant: the next receive is posted before the stream is parsed.
Faulty_WsaRecvOk(t) ==
    /\ At(t, "wsaRecv") /\ sock
    /\ Post("RECV")
    /\ Goto(t, IF t \in Workers THEN "parse" ELSE Unwind(t))
    /\ UNCHANGED <<object, closing, sock, outgoing, okDone, errDone, owners, op>>

\* PostRecv: WSARecv accepted the operation.
WsaRecvOk(t) ==
    /\ At(t, "wsaRecv") /\ sock
    /\ Post("RECV")
    /\ Goto(t, Unwind(t))
    /\ UNCHANGED <<object, closing, sock, outgoing, okDone, errDone, owners, op>>

\* Faulty variant: the failed receive keeps its reference.
Faulty_WsaRecvFails(t) ==
    /\ At(t, "wsaRecv")
    /\ Goto(t, "close")
    /\ UNCHANGED <<object, closing, sock, outgoing, kernel, owners, op>>

\* PostRecv: WSARecv failed, as it must once _sock is invalid.
WsaRecvFails(t) ==
    /\ At(t, "wsaRecv")
    /\ Release
    /\ Goto(t, "close")
    /\ UNCHANGED <<closing, sock, outgoing, kernel, owners, op>>

-----------------------------------------------------------------------------
\* EnqueueSend, before the lock.  (A null or empty buffer returns at once and
\* is no step here.)
EnqueueSend(t) ==
    /\ At(t, "enqueue")
    /\ Goto(t, IF closing THEN AfterSend(t) ELSE "lockQueue")
    /\ UNCHANGED <<object, closing, sock, outgoing, kernel, owners, op>>

\* Faulty variant: off by one.
Faulty_QueueFull == Len(sendQ) > MaxSendQueue

QueueFull == Len(sendQ) >= MaxSendQueue

\* Faulty variant: posts whether or not a send is in progress.
Faulty_PushSend(t) ==
    /\ At(t, "lockQueue") /\ sendLock = NoOne /\ ~QueueFull
    /\ sendQ' = Append(sendQ, accepted + 1)
    /\ accepted' = accepted + 1
    /\ sending' = TRUE
    /\ Goto(t, "postFront") /\ sendLock' = t
    /\ UNCHANGED <<wire, object, closing, sock, kernel, owners, op>>

\* EnqueueSend, under _sendLock: a full queue closes the session after the
\* unlock; otherwise push, and post the front unless a send is in progress.
PushSend(t) ==
    /\ At(t, "lockQueue") /\ sendLock = NoOne
    /\ \/ /\ QueueFull
          /\ Goto(t, "close")
          /\ UNCHANGED outgoing
       \/ /\ ~QueueFull
          /\ sendQ' = Append(sendQ, accepted + 1)
          /\ accepted' = accepted + 1
          /\ sending' = TRUE
          /\ IF sending
             THEN Goto(t, AfterSend(t)) /\ UNCHANGED sendLock
             ELSE Goto(t, "postFront") /\ sendLock' = t
          /\ UNCHANGED wire
    /\ UNCHANGED <<object, closing, sock, kernel, owners, op>>

\* PostSendFront_NoLock, with _sendLock held.
PostSendFront(t) ==
    /\ At(t, "postFront")
    /\ \/ /\ sendQ = <<>> \/ closing
          /\ sending' = FALSE /\ sendLock' = NoOne
          /\ Goto(t, AfterSend(t))
          /\ UNCHANGED object
       \/ /\ sendQ # <<>> /\ ~closing
          /\ AddRef
          /\ Goto(t, "wsaSend")
          /\ UNCHANGED <<sending, sendLock>>
    /\ UNCHANGED <<closing, sock, sendQ, accepted, wire, kernel, owners, op>>

\* PostSendFront_NoLock: WSASend accepted the front message; unlock.
WsaSendOk(t) ==
    /\ At(t, "wsaSend") /\ sock
    /\ Post("SEND")
    /\ wire' = Append(wire, Head(sendQ))
    /\ sendLock' = NoOne
    /\ Goto(t, AfterSend(t))
    /\ UNCHANGED <<object, closing, sock, sendQ, sending, accepted, okDone, errDone,
                   owners, op>>

\* Faulty variant: the callers ignore the failure.
Faulty_WsaSendFails(t) ==
    /\ At(t, "wsaSend")
    /\ Release
    /\ sending' = FALSE /\ sendLock' = NoOne
    /\ Goto(t, AfterSend(t))
    /\ UNCHANGED <<closing, sock, sendQ, accepted, wire, kernel, owners, op>>

\* PostSendFront_NoLock: WSASend failed; unlock, and the caller closes.
WsaSendFails(t) ==
    /\ At(t, "wsaSend")
    /\ Release
    /\ sending' = FALSE /\ sendLock' = NoOne
    /\ Goto(t, "close")
    /\ UNCHANGED <<closing, sock, sendQ, accepted, wire, kernel, owners, op>>

\* Faulty variant: the message that was sent stays at the front.
Faulty_OnSendComplete_NoPop(w) ==
    /\ At(w, "sent") /\ sendLock = NoOne
    /\ IF sendQ = <<>> \/ closing
       THEN sending' = FALSE /\ Goto(w, "release") /\ UNCHANGED sendLock
       ELSE sendLock' = w /\ Goto(w, "postFront") /\ UNCHANGED sending
    /\ UNCHANGED <<object, closing, sock, sendQ, accepted, wire, kernel, owners, op>>

\* Faulty variant: the next message is not posted.
Faulty_OnSendComplete_NoPost(w) ==
    /\ At(w, "sent") /\ sendLock = NoOne
    /\ sendQ' = IF sendQ = <<>> THEN sendQ ELSE Tail(sendQ)
    /\ sending' = FALSE /\ Goto(w, "release")
    /\ UNCHANGED <<object, closing, sock, sendLock, accepted, wire, kernel, owners, op>>

\* OnSendComplete: pop the message that was sent and post the next one.
OnSendComplete(w) ==
    /\ At(w, "sent") /\ sendLock = NoOne
    /\ sendQ' = IF sendQ = <<>> THEN sendQ ELSE Tail(sendQ)
    /\ IF sendQ' = <<>> \/ closing
       THEN sending' = FALSE /\ Goto(w, "release") /\ UNCHANGED sendLock
       ELSE sendLock' = w /\ Goto(w, "postFront") /\ UNCHANGED sending
    /\ UNCHANGED <<object, closing, sock, accepted, wire, kernel, owners, op>>

-----------------------------------------------------------------------------
\* OnRecvComplete: return if closing, else append the bytes to _recvStream.
OnRecvComplete(w) ==
    /\ At(w, "recvBegin")
    /\ Goto(w, IF closing THEN "release" ELSE "parse")
    /\ UNCHANGED <<object, closing, sock, outgoing, kernel, owners, op>>

\* One turn of OnRecvComplete's loop: the stream holds no complete packet; a
\* packet or its handling is refused; it is handled; or it is answered
\* (HandlePing), which calls EnqueueSend.
ParsePacket(w) ==
    /\ At(w, "parse")
    /\ \/ \E next \in {"postRecv", "close", "nextPacket"} : Goto(w, next)
       \/ accepted < MaxMessages /\ Goto(w, "enqueue")
    /\ UNCHANGED <<object, closing, sock, outgoing, kernel, owners, op>>

\* The test of _closing at the end of the loop's body.
NextPacket(w) ==
    /\ At(w, "nextPacket")
    /\ Goto(w, IF closing THEN "release" ELSE "parse")
    /\ UNCHANGED <<object, closing, sock, outgoing, kernel, owners, op>>

-----------------------------------------------------------------------------
\* Faulty variant: a store where the code has a compare-and-exchange.
Faulty_Close(t) ==
    /\ At(t, "close")
    /\ closing' = TRUE
    /\ Goto(t, "closeSocket")
    /\ UNCHANGED <<object, sock, outgoing, kernel, owners, op>>

\* Close: compare_exchange on _closing admits one thread.
Close(t) ==
    /\ At(t, "close")
    /\ closing' = TRUE
    /\ Goto(t, IF closing THEN Unwind(t) ELSE "closeSocket")
    /\ UNCHANGED <<object, sock, outgoing, kernel, owners, op>>

\* Close: shutdown, closesocket, _sock = INVALID_SOCKET.
CloseSocket(t) ==
    /\ At(t, "closeSocket")
    /\ sock' = FALSE
    /\ Goto(t, "clearQueue")
    /\ UNCHANGED <<object, closing, outgoing, kernel, owners, op>>

\* Close: clear _sendQ and _sending under _sendLock.
ClearQueue(t) ==
    /\ At(t, "clearQueue") /\ sendLock = NoOne
    /\ sendQ' = <<>> /\ sending' = FALSE
    /\ Goto(t, "clearStream")
    /\ UNCHANGED <<object, closing, sock, sendLock, accepted, wire, kernel, owners, op>>

\* Close: _recvStream.clear(), which takes no lock.
ClearStream(t) ==
    /\ At(t, "clearStream")
    /\ Goto(t, "notify")
    /\ UNCHANGED <<object, closing, sock, outgoing, kernel, owners, op>>

\* Faulty variant: OnDisconnected leaves the player's pointer in place.
Faulty_NotifyDisconnected(t) ==
    /\ At(t, "notify")
    /\ registered' = FALSE /\ leaves' = leaves + 1
    /\ Goto(t, "releaseBase")
    /\ UNCHANGED <<playerSession, object, closing, sock, outgoing, kernel, op>>

\* Close: NotifyDisconnected - RemoveSession, then the OnDisconnected callback's
\* SetSession(nullptr) and PostTask(Leave).
NotifyDisconnected(t) ==
    /\ At(t, "notify")
    /\ registered' = FALSE /\ playerSession' = FALSE /\ leaves' = leaves + 1
    /\ Goto(t, "releaseBase")
    /\ UNCHANGED <<object, closing, sock, outgoing, kernel, op>>

\* Faulty variant: Close does not give up the creator's reference.
Faulty_ReleaseBase(t) ==
    /\ At(t, "releaseBase")
    /\ Goto(t, Unwind(t))
    /\ UNCHANGED <<object, closing, sock, outgoing, kernel, owners, op>>

\* Close: the Release of the reference the object was created with.
ReleaseBase(t) ==
    /\ At(t, "releaseBase")
    /\ Release
    /\ Goto(t, Unwind(t))
    /\ UNCHANGED <<closing, sock, outgoing, kernel, owners, op>>

-----------------------------------------------------------------------------
\* WorkerLoop: GetQueuedCompletionStatus returns a completion of type ty.
DequeueOk(w, ty) ==
    /\ pc[w] = "idle" /\ okDone[ty] > 0
    /\ okDone' = [okDone EXCEPT ![ty] = @ - 1]
    /\ op' = [op EXCEPT ![w] = ty]
    /\ Goto(w, IF ty = "RECV" THEN "recvBegin" ELSE "sent")
    /\ UNCHANGED <<object, closing, sock, outgoing, posted, errDone, owners>>

\* WorkerLoop: "!ok || bytes == 0" closes the session.
DequeueErr(w, ty) ==
    /\ pc[w] = "idle" /\ errDone[ty] > 0
    /\ errDone' = [errDone EXCEPT ![ty] = @ - 1]
    /\ op' = [op EXCEPT ![w] = ty]
    /\ Goto(w, "close")
    /\ UNCHANGED <<object, closing, sock, outgoing, posted, okDone, owners>>

\* WorkerLoop: the Release of the completed operation's reference.
ReleaseIo(w) ==
    /\ At(w, "release")
    /\ Release
    /\ Goto(w, "idle")
    /\ UNCHANGED <<closing, sock, outgoing, kernel, owners, op>>

\* GameRoom::Send and Broadcast: GetSession() returned this session.
LoopSends ==
    /\ pc[Loop] = "idle" /\ playerSession /\ accepted < MaxMessages
    /\ Goto(Loop, "enqueue")
    /\ UNCHANGED <<object, closing, sock, outgoing, kernel, owners, op>>

\* The kernel queues a completion.  Operations pending at closesocket are aborted.
CompleteOk(ty) ==
    /\ posted[ty] > 0 /\ sock
    /\ posted' = [posted EXCEPT ![ty] = @ - 1]
    /\ okDone' = [okDone EXCEPT ![ty] = @ + 1]
    /\ UNCHANGED <<object, closing, sock, outgoing, errDone, owners, pc, op>>

CompleteErr(ty) ==
    /\ posted[ty] > 0
    /\ posted' = [posted EXCEPT ![ty] = @ - 1]
    /\ errDone' = [errDone EXCEPT ![ty] = @ + 1]
    /\ UNCHANGED <<object, closing, sock, outgoing, okDone, owners, pc, op>>

\* A thread dereferences the deleted object.
UseAfterFree(t) ==
    /\ ~alive /\ pc[t] \in InsideLabels
    /\ Goto(t, "undefined")
    /\ UNCHANGED <<object, closing, sock, outgoing, kernel, owners, op>>

-----------------------------------------------------------------------------
\* The steps any thread may take inside the object.
Inside(t) ==
    \/ PostRecv(t) \/ WsaRecvOk(t) \/ WsaRecvFails(t)
    \/ EnqueueSend(t) \/ PushSend(t)
    \/ PostSendFront(t) \/ WsaSendOk(t) \/ WsaSendFails(t)
    \/ Close(t) \/ CloseSocket(t) \/ ClearQueue(t) \/ ClearStream(t)
    \/ NotifyDisconnected(t) \/ ReleaseBase(t)
    \/ UseAfterFree(t)

\* What a worker does with the completion it has dequeued.
Dispatch(w) ==
    \/ OnSendComplete(w) \/ OnRecvComplete(w) \/ ParsePacket(w) \/ NextPacket(w)
    \/ ReleaseIo(w)

Dequeue(w, ty) == DequeueOk(w, ty) \/ DequeueErr(w, ty)

\* Every thread has come to rest and the object is gone.
Finished ==
    /\ ~alive
    /\ \A t \in Threads : pc[t] \notin InsideLabels
    /\ UNCHANGED vars

Next ==
    \/ CreateFails \/ Register \/ OnConnected \/ LoopSends
    \/ \E t \in Threads : Inside(t)
    \/ \E w \in Workers : Dispatch(w)
    \/ \E w \in Workers, ty \in IOType : Dequeue(w, ty)
    \/ \E ty \in IOType : CompleteOk(ty) \/ CompleteErr(ty)
    \/ Finished

\* Threads run; GetQueuedCompletionStatus hands out every queued completion (the
\* port is FIFO); and the kernel completes what it accepted, the sends of a
\* connected peer included.
Fairness ==
    /\ WF_vars(Register) /\ WF_vars(OnConnected)
    /\ \A t \in Threads : WF_vars(Inside(t))
    /\ \A w \in Workers : WF_vars(Dispatch(w))
    /\ \A ty \in IOType : SF_vars(\E w \in Workers : Dequeue(w, ty))
    /\ WF_vars(CompleteOk("SEND") \/ CompleteErr("SEND"))
    /\ WF_vars(~sock /\ CompleteErr("RECV"))

Spec == Init /\ [][Next]_vars
FairSpec == Spec /\ Fairness

-----------------------------------------------------------------------------
TypeOK ==
    /\ alive \in BOOLEAN /\ refCount \in Nat
    /\ closing \in BOOLEAN /\ sock \in BOOLEAN
    /\ sendLock \in Threads \cup {NoOne}
    /\ sendQ \in Seq(Nat) /\ Len(sendQ) <= MaxSendQueue
    /\ sending \in BOOLEAN
    /\ posted \in [IOType -> Nat]
    /\ okDone \in [IOType -> Nat]
    /\ errDone \in [IOType -> Nat]
    /\ registered \in BOOLEAN /\ playerSession \in BOOLEAN /\ leaves \in Nat
    /\ pc \in [Threads -> Labels]
    /\ op \in [Threads -> IOType]
    /\ accepted \in Nat /\ wire \in Seq(Nat)

\* Operations of a type that are with the kernel or in the completion port.
InFlight(ty) == posted[ty] + okDone[ty] + errDone[ty]

\* The holders of references: the object's creator until the closing thread has
\* passed its Release, each operation, each worker from GetQueuedCompletionStatus
\* to its Release, and each thread between AddRef and the result of WSARecv or
\* WSASend.
BaseRef == IF closing /\ \A t \in Threads : pc[t] \notin CloseLabels THEN 0 ELSE 1
Dispatching == {w \in Workers : pc[w] # "idle"}
Posting == {t \in Threads : pc[t] \in {"wsaRecv", "wsaSend"}}
Holders == BaseRef + Cardinality(Dispatching) + Cardinality(Posting)

\* Session::AddRef and Release balance: _refCount is the number of holders at
\* every interleaving of Close, the completions and the posting of operations.
RefCountExact ==
    refCount = Holders + InFlight("RECV") + InFlight("SEND")

\* No worker ever runs a method of a deleted Session, and no completion is left
\* whose key is one: the operation's reference outlives its dispatch.
WorkersNeverTouchFreed ==
    /\ \A w \in Workers : pc[w] # "undefined" /\ (pc[w] # "idle" => alive)
    /\ \A ty \in IOType : InFlight(ty) > 0 => alive

\* Close runs once however many threads call it: a session that was connected
\* posts one Leave, and posts it before it is deleted.
DisconnectedOnce ==
    /\ leaves <= 1
    /\ ~alive /\ pc[Accept] # "failed" => leaves = 1

\* NetService::_sessions and Player::_session hold raw pointers: neither ever
\* holds one to a deleted Session.
NoDanglingPointer == registered \/ playerSession => alive

\* Sends between WSASend and the pop in OnSendComplete.
Completing == {w \in Workers : pc[w] = "sent"}
Handing == {t \in Threads : pc[t] = "wsaSend"}
SendsOutstanding == InFlight("SEND") + Cardinality(Completing) + Cardinality(Handing)

\* At most one WSASend is outstanding, whichever of EnqueueSend's callers and
\* OnSendComplete get to post it: the kernel never has two buffers to order.
OneSendInFlight == SendsOutstanding <= 1

\* Workers that may still use _recvStream.
UsesStream(w) ==
    /\ op[w] = "RECV"
    /\ pc[w] \in StreamLabels \cup FrontLabels
                 \cup {"postRecv", "wsaRecv", "enqueue", "lockQueue"}

Receivers == {w \in Workers : UsesStream(w)}

\* Packets are parsed by one worker at a time though any worker may get the
\* next completion: a receive is posted only when the last one has been parsed.
OneReceiver == InFlight("RECV") + Cardinality(Receivers) <= 1

\* A queued message never waits with nobody in charge of it: an operation is
\* outstanding, or a thread is about to post one or to close the session.
NoStrandedMessage ==
    sendQ # <<>> /\ ~closing =>
        \/ InFlight("SEND") > 0
        \/ \E t \in Threads : pc[t] \in FrontLabels \cup {"sent", "close"}

\* The session as an Outbox: open until Close has emptied _sendQ; the front of
\* _sendQ stays there while its operation is outstanding, but has gone out.
IsOpen == ~closing \/ \E t \in Threads : pc[t] \in {"closeSocket", "clearQueue"}
FrontWentOut == sendQ # <<>> /\ wire # <<>> /\ wire[Len(wire)] = Head(sendQ)
Unsent == IF ~IsOpen THEN <<>> ELSE IF FrontWentOut THEN Tail(sendQ) ELSE sendQ

OutboxView == INSTANCE Outbox
                  WITH Msg <- Nat, open <- IsOpen, unsent <- Unsent, sent <- wire

\* Messages leave in order, once each, and none leaves after the queue is
\* cleared, across failed posts, retries, overflow and Close.
ImplementsOutbox == OutboxView!Spec

\* A closed session is deleted in the end: no reference leaks.
EventuallyFreed == closing ~> ~alive

\* A message that was accepted goes out, or the session closes.
EventuallySent ==
    \A n \in 1..MaxMessages : accepted >= n ~> Len(wire) >= n \/ closing

\* Player.h asks that SetSession run on the game loop thread only.
SetSessionOnLoopOnly ==
    [][playerSession' # playerSession => pc'[Loop] # pc[Loop]]_vars

\* Having read the pointer, the game loop sends on a Session that still exists.
LoopNeverTouchesFreed == pc[Loop] # "undefined"
=============================================================================
