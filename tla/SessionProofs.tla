---------------------------- MODULE SessionProofs ----------------------------
(***************************************************************************)
(* Session's safety, and that it implements the Outbox it promises to its  *)
(* callers, for every finite set of workers, every queue limit and every   *)
(* number of messages.                                                     *)
(***************************************************************************)
EXTENDS Session, FiniteSetTheorems, TLAPS

-----------------------------------------------------------------------------
\* The inductive invariant, part by part.

\* Which code each kind of thread runs, and for which completion.
AcceptLabels == CloseLabels \cup {"associate", "connected", "postRecv", "wsaRecv",
                                  "close", "done", "failed", "undefined"}
LoopLabels == CloseLabels \cup FrontLabels
              \cup {"idle", "enqueue", "lockQueue", "close", "undefined"}
WorkerLabels == CloseLabels \cup FrontLabels \cup StreamLabels
                \cup {"idle", "postRecv", "wsaRecv", "enqueue", "lockQueue", "sent",
                      "close", "release"}
ControlInv ==
    /\ pc[Accept] \in AcceptLabels
    /\ pc[Loop] \in LoopLabels
    /\ \A w \in Workers :
        /\ pc[w] \in WorkerLabels
        /\ pc[w] \in StreamLabels \cup {"enqueue", "postRecv", "wsaRecv"}
             => op[w] = "RECV"

\* A thread between PostSendFront_NoLock's statements holds _sendLock, and the
\* buffer it is about to hand to WSASend is still queued.
LockInv ==
    \A t \in Threads :
        /\ pc[t] \in FrontLabels => sendLock = t
        /\ pc[t] = "wsaSend" => sendQ # <<>>

\* At most one thread is past Close's compare-and-exchange.
CloserInv ==
    \A t \in Threads :
        pc[t] \in CloseLabels =>
            closing /\ \A u \in Threads : pc[u] \in CloseLabels => u = t

\* Until OnConnected has run only the accept thread knows the session.
FreshInv ==
    pc[Accept] \in {"associate", "connected", "failed"} =>
        /\ ~closing /\ ~playerSession /\ leaves = 0
        /\ pc[Accept] # "connected" => ~registered
        /\ sendQ = <<>> /\ ~sending
        /\ \A ty \in IOType : posted[ty] = 0 /\ okDone[ty] = 0 /\ errDone[ty] = 0
        /\ \A t \in Threads \ {Accept} : pc[t] = "idle"

\* The object is deleted when its last reference goes, and only then.
AliveInv == alive <=> refCount > 0 /\ pc[Accept] # "failed"

IInv == TypeOK /\ ControlInv /\ LockInv /\ CloserInv /\ FreshInv /\ AliveInv
        /\ RefCountExact

\* Before the Leave task of the one Close is posted.
PreNotify == {"closeSocket", "clearQueue", "clearStream", "notify"}
OwnersInv ==
    /\ leaves = IF closing /\ \A t \in Threads : pc[t] \notin PreNotify THEN 1 ELSE 0
    /\ registered \/ playerSession => leaves = 0

\* "sending" is what keeps a second WSASend from being posted, until Close resets
\* it while the last one may still be outstanding; then "closing" does.
PostFronts == {t \in Threads : pc[t] = "postFront"}
SendInv ==
    /\ SendsOutstanding <= 1
    /\ ~closing => SendsOutstanding + Cardinality(PostFronts) <= IF sending THEN 1 ELSE 0

\* Whoever set "sending" or left a message queued is still going to act.
ChargeInv ==
    ~closing /\ (sending \/ sendQ # <<>>) =>
        \/ InFlight("SEND") > 0
        \/ \E t \in Threads : pc[t] \in FrontLabels \cup {"sent", "close"}

-----------------------------------------------------------------------------
\* Counting threads by label when one thread moves.

\* The threads are finitely many.
LEMMA ThreadsFinite == IsFiniteSet(Threads)
<1>1. IsFiniteSet(Workers \cup {Accept})
  BY ThreadsAssumption, FS_AddElement
<1>2. IsFiniteSet((Workers \cup {Accept}) \cup {Loop})
  BY <1>1, FS_AddElement
<1>3. Threads = (Workers \cup {Accept}) \cup {Loop}
  BY DEF Threads
<1> QED
  BY <1>2, <1>3

\* The number of members of S that f maps into L.
Count(f, S, L) == Cardinality({u \in S : f[u] \in L})

\* How the number of members of S at the labels L changes when t moves to l.
LEMMA CountStep ==
    ASSUME NEW D, NEW f, f = [d \in D |-> f[d]],
           NEW S, IsFiniteSet(S), S \subseteq D, NEW L,
           NEW t \in D, NEW l, NEW g, g = [f EXCEPT ![t] = l]
    PROVE  /\ Count(f, S, L) \in Nat /\ Count(g, S, L) \in Nat
           /\ Count(g, S, L) =
                Count(f, S, L)
                + (IF t \in S /\ f[t] \notin L /\ l \in L THEN 1
                   ELSE IF t \in S /\ f[t] \in L /\ l \notin L THEN -1 ELSE 0)
<1> DEFINE F == {u \in S : f[u] \in L}
           G == {u \in S : g[u] \in L}
<1>1. IsFiniteSet(F) /\ Cardinality(F) \in Nat /\ Cardinality(G) \in Nat
  BY FS_Subset, FS_CardinalityType
<1>2. \A u \in S : g[u] = IF u = t THEN l ELSE f[u]
  OBVIOUS
<1> DEFINE Enters == t \in S /\ f[t] \notin L /\ l \in L
           Exits  == t \in S /\ f[t] \in L /\ l \notin L
<1>3. Enters => G = F \cup {t} /\ t \notin F
  BY <1>2
<1>4. Exits => G = F \ {t} /\ t \in F
  BY <1>2
<1>5. ~Enters /\ ~Exits => G = F
  BY <1>2
<1>6. Count(f, S, L) = Cardinality(F) /\ Count(g, S, L) = Cardinality(G)
  BY DEF Count
<1> HIDE DEF F, G
<1>7. Enters => Cardinality(G) = Cardinality(F) + 1
  BY <1>1, <1>3, FS_AddElement
<1>8. Exits => Cardinality(G) = Cardinality(F) - 1
  BY <1>1, <1>4, FS_RemoveElement
<1> QED
  BY <1>1, <1>5, <1>6, <1>7, <1>8

-----------------------------------------------------------------------------
\* What moving thread t to the label l does to the two counts of RefCountExact.
LEMMA RefCounts ==
    ASSUME TypeOK, NEW t \in Threads, NEW l \in Labels, Goto(t, l)
    PROVE  /\ Cardinality(Dispatching) \in Nat /\ Cardinality(Posting) \in Nat
           /\ Cardinality(Dispatching)' = Cardinality(Dispatching)
                + (IF t \in Workers /\ pc[t] = "idle" /\ l # "idle" THEN 1
                   ELSE IF t \in Workers /\ pc[t] # "idle" /\ l = "idle" THEN -1 ELSE 0)
           /\ Cardinality(Posting)' = Cardinality(Posting)
                + (IF pc[t] \notin {"wsaRecv", "wsaSend"} /\ l \in {"wsaRecv", "wsaSend"}
                   THEN 1
                   ELSE IF pc[t] \in {"wsaRecv", "wsaSend"} /\ l \notin {"wsaRecv", "wsaSend"}
                   THEN -1 ELSE 0)
<1> DEFINE busy == Labels \ {"idle"}
           post == {"wsaRecv", "wsaSend"}
<1>1. pc \in [Threads -> Labels] /\ pc' = [pc EXCEPT ![t] = l] /\ pc' \in [Threads -> Labels]
  BY DEF TypeOK, Goto
<1>2. /\ IsFiniteSet(Workers) /\ Workers \subseteq Threads
      /\ IsFiniteSet(Threads) /\ Threads \subseteq Threads
  BY ThreadsAssumption, ThreadsFinite DEF Threads
<1>3. /\ Cardinality(Dispatching) = Count(pc, Workers, busy)
      /\ Cardinality(Dispatching)' = Count(pc', Workers, busy)
  <2>1. Dispatching = {w \in Workers : pc[w] \in busy}
    BY <1>1, <1>2 DEF Dispatching
  <2>2. Dispatching' = {w \in Workers : pc'[w] \in busy}
    BY <1>1, <1>2 DEF Dispatching
  <2> QED
    BY <2>1, <2>2 DEF Count
<1>4. /\ Cardinality(Posting) = Count(pc, Threads, post)
      /\ Cardinality(Posting)' = Count(pc', Threads, post)
  BY DEF Posting, Count
<1>a. pc = [d \in Threads |-> pc[d]]
  BY <1>1
<1>b. (pc[t] \in busy <=> pc[t] # "idle") /\ (l \in busy <=> l # "idle")
  BY <1>1
<1> HIDE DEF busy, post
<1>5. /\ Count(pc, Workers, busy) \in Nat
      /\ Count(pc', Workers, busy) = Count(pc, Workers, busy)
           + (IF t \in Workers /\ pc[t] \notin busy /\ l \in busy THEN 1
              ELSE IF t \in Workers /\ pc[t] \in busy /\ l \notin busy THEN -1 ELSE 0)
  BY <1>1, <1>2, <1>a, CountStep
<1>6. /\ Count(pc, Threads, post) \in Nat
      /\ Count(pc', Threads, post) = Count(pc, Threads, post)
           + (IF t \in Threads /\ pc[t] \notin post /\ l \in post THEN 1
              ELSE IF t \in Threads /\ pc[t] \in post /\ l \notin post THEN -1 ELSE 0)
  BY <1>1, <1>2, <1>a, CountStep
<1> USE DEF post
<1> QED
  BY <1>3, <1>4, <1>5, <1>6, <1>b

-----------------------------------------------------------------------------
\* Every step leaves the program counters among the labels.
LEMMA PcStep == pc \in [Threads -> Labels] /\ [Next]_vars => pc' \in [Threads -> Labels]
<1> SUFFICES ASSUME pc \in [Threads -> Labels], [Next]_vars PROVE pc' \in [Threads -> Labels]
  OBVIOUS
<1>l. Labels = {"associate", "connected", "postRecv", "wsaRecv", "enqueue", "lockQueue",
                "postFront", "wsaSend", "sent", "recvBegin", "parse", "nextPacket", "close",
                "closeSocket", "clearQueue", "clearStream", "notify", "releaseBase",
                "release", "idle", "done", "failed", "undefined"}
  BY DEF Labels, InsideLabels, CloseLabels, FrontLabels, StreamLabels
<1>u. \A t \in Threads : Unwind(t) \in Labels /\ AfterSend(t) \in Labels
  BY <1>l DEF Unwind, AfterSend
<1>w. Accept \in Threads /\ Loop \in Threads /\ Workers \subseteq Threads
  BY DEF Threads
<1>1. ASSUME CreateFails PROVE pc' \in [Threads -> Labels]
  BY <1>l, <1>w, <1>1 DEF CreateFails, Goto
<1>2. ASSUME Register PROVE pc' \in [Threads -> Labels]
  BY <1>l, <1>w, <1>2 DEF Register, Goto
<1>3. ASSUME OnConnected PROVE pc' \in [Threads -> Labels]
  BY <1>l, <1>w, <1>3 DEF OnConnected, Goto
<1>4. ASSUME LoopSends PROVE pc' \in [Threads -> Labels]
  BY <1>l, <1>w, <1>4 DEF LoopSends, Goto
<1>5. ASSUME NEW t \in Threads, PostRecv(t) PROVE pc' \in [Threads -> Labels]
  BY <1>l, <1>u, <1>5 DEF PostRecv, Goto
<1>6. ASSUME NEW t \in Threads, WsaRecvOk(t) PROVE pc' \in [Threads -> Labels]
  BY <1>l, <1>u, <1>6 DEF WsaRecvOk, Goto
<1>7. ASSUME NEW t \in Threads, WsaRecvFails(t) PROVE pc' \in [Threads -> Labels]
  BY <1>l, <1>w, <1>7 DEF WsaRecvFails, Goto
<1>8. ASSUME NEW t \in Threads, EnqueueSend(t) PROVE pc' \in [Threads -> Labels]
  BY <1>l, <1>u, <1>8 DEF EnqueueSend, Goto
<1>9. ASSUME NEW t \in Threads, PushSend(t) PROVE pc' \in [Threads -> Labels]
  BY <1>l, <1>u, <1>9 DEF PushSend, Goto
<1>10. ASSUME NEW t \in Threads, PostSendFront(t) PROVE pc' \in [Threads -> Labels]
  BY <1>l, <1>u, <1>10 DEF PostSendFront, Goto
<1>11. ASSUME NEW t \in Threads, WsaSendOk(t) PROVE pc' \in [Threads -> Labels]
  BY <1>l, <1>u, <1>11 DEF WsaSendOk, Goto
<1>12. ASSUME NEW t \in Threads, WsaSendFails(t) PROVE pc' \in [Threads -> Labels]
  BY <1>l, <1>w, <1>12 DEF WsaSendFails, Goto
<1>13. ASSUME NEW t \in Threads, Close(t) PROVE pc' \in [Threads -> Labels]
  BY <1>l, <1>u, <1>13 DEF Close, Goto
<1>14. ASSUME NEW t \in Threads, CloseSocket(t) PROVE pc' \in [Threads -> Labels]
  BY <1>l, <1>w, <1>14 DEF CloseSocket, Goto
<1>15. ASSUME NEW t \in Threads, ClearQueue(t) PROVE pc' \in [Threads -> Labels]
  BY <1>l, <1>w, <1>15 DEF ClearQueue, Goto
<1>16. ASSUME NEW t \in Threads, ClearStream(t) PROVE pc' \in [Threads -> Labels]
  BY <1>l, <1>w, <1>16 DEF ClearStream, Goto
<1>17. ASSUME NEW t \in Threads, NotifyDisconnected(t) PROVE pc' \in [Threads -> Labels]
  BY <1>l, <1>w, <1>17 DEF NotifyDisconnected, Goto
<1>18. ASSUME NEW t \in Threads, ReleaseBase(t) PROVE pc' \in [Threads -> Labels]
  BY <1>l, <1>u, <1>18 DEF ReleaseBase, Goto
<1>19. ASSUME NEW t \in Threads, UseAfterFree(t) PROVE pc' \in [Threads -> Labels]
  BY <1>l, <1>w, <1>19 DEF UseAfterFree, Goto
<1>20. ASSUME NEW w \in Workers, OnSendComplete(w) PROVE pc' \in [Threads -> Labels]
  BY <1>l, <1>w, <1>20 DEF OnSendComplete, Goto
<1>21. ASSUME NEW w \in Workers, OnRecvComplete(w) PROVE pc' \in [Threads -> Labels]
  BY <1>l, <1>w, <1>21 DEF OnRecvComplete, Goto
<1>22. ASSUME NEW w \in Workers, ParsePacket(w) PROVE pc' \in [Threads -> Labels]
  BY <1>l, <1>w, <1>22 DEF ParsePacket, Goto
<1>23. ASSUME NEW w \in Workers, NextPacket(w) PROVE pc' \in [Threads -> Labels]
  BY <1>l, <1>w, <1>23 DEF NextPacket, Goto
<1>24. ASSUME NEW w \in Workers, ReleaseIo(w) PROVE pc' \in [Threads -> Labels]
  BY <1>l, <1>w, <1>24 DEF ReleaseIo, Goto
<1>25. ASSUME NEW w \in Workers, NEW ty \in IOType, DequeueOk(w, ty) PROVE pc' \in [Threads -> Labels]
  BY <1>l, <1>w, <1>25 DEF DequeueOk, Goto
<1>26. ASSUME NEW w \in Workers, NEW ty \in IOType, DequeueErr(w, ty) PROVE pc' \in [Threads -> Labels]
  BY <1>l, <1>w, <1>26 DEF DequeueErr, Goto
<1>27. ASSUME NEW ty \in IOType, CompleteOk(ty) PROVE pc' \in [Threads -> Labels]
  BY <1>27 DEF CompleteOk, Goto
<1>28. ASSUME NEW ty \in IOType, CompleteErr(ty) PROVE pc' \in [Threads -> Labels]
  BY <1>28 DEF CompleteErr, Goto
<1>29. CASE UNCHANGED vars
  BY <1>29 DEF vars
<1> QED
  BY <1>1, <1>2, <1>3, <1>4, <1>5, <1>6, <1>7, <1>8, <1>9, <1>10, <1>11, <1>12, <1>13, <1>14, 
     <1>15, <1>16, <1>17, <1>18, <1>19, <1>20, <1>21, <1>22, <1>23, <1>24, <1>25, <1>26, <1>27, <1>28, <1>29
     DEF Next, Inside, Dispatch, Dequeue, Finished

\* TypeOK but for the program counters.
DataOK ==
    /\ alive \in BOOLEAN /\ refCount \in Nat
    /\ closing \in BOOLEAN /\ sock \in BOOLEAN
    /\ sendLock \in Threads \cup {NoOne}
    /\ sendQ \in Seq(Nat) /\ Len(sendQ) <= MaxSendQueue
    /\ sending \in BOOLEAN
    /\ posted \in [IOType -> Nat] /\ okDone \in [IOType -> Nat] /\ errDone \in [IOType -> Nat]
    /\ registered \in BOOLEAN /\ playerSession \in BOOLEAN /\ leaves \in Nat
    /\ op \in [Threads -> IOType]
    /\ accepted \in Nat /\ wire \in Seq(Nat)

LEMMA DataStep == DataOK /\ LockInv /\ AliveInv /\ [Next]_vars => DataOK'
<1> SUFFICES ASSUME DataOK, LockInv, AliveInv, [Next]_vars PROVE DataOK'
  OBVIOUS
<1>r. alive => refCount - 1 \in Nat
  BY DEF DataOK, AliveInv
<1>s. \A t \in Threads : pc[t] = "wsaSend" => Append(wire, Head(sendQ)) \in Seq(Nat)
  BY DEF DataOK, LockInv
<1>q. /\ Append(sendQ, accepted + 1) \in Seq(Nat)
      /\ Len(Append(sendQ, accepted + 1)) = Len(sendQ) + 1
      /\ <<>> \in Seq(Nat) /\ Len(<<>>) = 0
      /\ sendQ # <<>> => Tail(sendQ) \in Seq(Nat) /\ Len(Tail(sendQ)) = Len(sendQ) - 1
      /\ Len(sendQ) \in Nat
  BY DEF DataOK
<1> USE ThreadsAssumption, BoundsAssumption DEF DataOK, Threads, IOType
<1>1. ASSUME CreateFails PROVE DataOK'
  BY <1>1 DEF CreateFails, At, object, outgoing, kernel, owners
<1>2. ASSUME Register PROVE DataOK'
  BY <1>2 DEF Register, At, object, outgoing, kernel, owners
<1>3. ASSUME OnConnected PROVE DataOK'
  BY <1>3 DEF OnConnected, At, object, outgoing, kernel, owners
<1>4. ASSUME LoopSends PROVE DataOK'
  BY <1>4 DEF LoopSends, At, object, outgoing, kernel, owners
<1>5. ASSUME NEW t \in Threads, PostRecv(t) PROVE DataOK'
  <2>1. refCount' \in Nat
    BY <1>5 DEF PostRecv, AddRef, object, outgoing, kernel, owners
  <2>2. alive' \in BOOLEAN
    BY <1>5 DEF PostRecv, AddRef, object, outgoing, kernel, owners
  <2>3. UNCHANGED <<closing, sock, sendLock, sendQ, sending, posted, okDone, errDone, registered, playerSession, leaves, op, accepted, wire>>
    BY <1>5 DEF PostRecv, AddRef, object, outgoing, kernel, owners
  <2> QED
    BY <2>1, <2>2, <2>3
<1>6. ASSUME NEW t \in Threads, WsaRecvOk(t) PROVE DataOK'
  BY <1>6 DEF WsaRecvOk, Post, At, object, outgoing, kernel, owners
<1>7. ASSUME NEW t \in Threads, WsaRecvFails(t) PROVE DataOK'
  BY <1>r, <1>7 DEF WsaRecvFails, Release, At, object, outgoing, kernel, owners
<1>8. ASSUME NEW t \in Threads, EnqueueSend(t) PROVE DataOK'
  BY <1>8 DEF EnqueueSend, At, object, outgoing, kernel, owners
<1>9. ASSUME NEW t \in Threads, PushSend(t) PROVE DataOK'
  <2>1. sendQ' \in Seq(Nat) /\ Len(sendQ') <= MaxSendQueue
    <3>1. sendQ' = sendQ \/ (sendQ' = Append(sendQ, accepted + 1) /\ ~QueueFull)
      BY <1>9 DEF PushSend, outgoing
    <3>2. ~QueueFull => Len(sendQ) + 1 <= MaxSendQueue
      BY <1>q DEF QueueFull
    <3> QED
      BY <1>q, <3>1, <3>2
  <2>2. sending' \in BOOLEAN
    BY <1>q, <1>9 DEF PushSend, QueueFull, object, outgoing, kernel, owners
  <2>3. accepted' \in Nat
    BY <1>q, <1>9 DEF PushSend, QueueFull, object, outgoing, kernel, owners
  <2>4. sendLock' \in Threads \cup {NoOne}
    BY <1>q, <1>9 DEF PushSend, QueueFull, object, outgoing, kernel, owners
  <2>5. UNCHANGED <<alive, refCount, closing, sock, posted, okDone, errDone, registered, playerSession, leaves, op, wire>>
    BY <1>9 DEF PushSend, QueueFull, object, outgoing, kernel, owners
  <2> QED
    BY <2>1, <2>2, <2>3, <2>4, <2>5
<1>10. ASSUME NEW t \in Threads, PostSendFront(t) PROVE DataOK'
  <2>1. refCount' \in Nat
    BY <1>10 DEF PostSendFront, AddRef, object, outgoing, kernel, owners
  <2>2. alive' \in BOOLEAN
    BY <1>10 DEF PostSendFront, AddRef, object, outgoing, kernel, owners
  <2>3. sending' \in BOOLEAN
    BY <1>10 DEF PostSendFront, AddRef, object, outgoing, kernel, owners
  <2>4. sendLock' \in Threads \cup {NoOne}
    BY <1>10 DEF PostSendFront, AddRef, object, outgoing, kernel, owners
  <2>5. UNCHANGED <<closing, sock, sendQ, posted, okDone, errDone, registered, playerSession, leaves, op, accepted, wire>>
    BY <1>10 DEF PostSendFront, AddRef, object, outgoing, kernel, owners
  <2> QED
    BY <2>1, <2>2, <2>3, <2>4, <2>5
<1>11. ASSUME NEW t \in Threads, WsaSendOk(t) PROVE DataOK'
  <2>1. wire' \in Seq(Nat)
    BY <1>s, <1>11 DEF WsaSendOk, At
  <2>2. posted' \in [IOType -> Nat] /\ sendLock' \in Threads \cup {NoOne}
    <3>1. posted' = [posted EXCEPT !["SEND"] = @ + 1] /\ sendLock' = NoOne
      BY <1>11 DEF WsaSendOk, Post
    <3> QED
      BY <3>1
  <2>3. UNCHANGED <<alive, refCount, closing, sock, sendQ, sending, okDone, errDone, registered, playerSession, leaves, op, accepted>>
    BY <1>11 DEF WsaSendOk, object, owners
  <2> QED
    BY <2>1, <2>2, <2>3
<1>12. ASSUME NEW t \in Threads, WsaSendFails(t) PROVE DataOK'
  BY <1>r, <1>12 DEF WsaSendFails, Release, At, object, outgoing, kernel, owners
<1>13. ASSUME NEW t \in Threads, Close(t) PROVE DataOK'
  BY <1>13 DEF Close, At, object, outgoing, kernel, owners
<1>14. ASSUME NEW t \in Threads, CloseSocket(t) PROVE DataOK'
  BY <1>14 DEF CloseSocket, At, object, outgoing, kernel, owners
<1>15. ASSUME NEW t \in Threads, ClearQueue(t) PROVE DataOK'
  <2>1. sendQ' \in Seq(Nat) /\ Len(sendQ') <= MaxSendQueue
    BY <1>q, <1>15 DEF ClearQueue, object, outgoing, kernel, owners
  <2>2. sending' \in BOOLEAN
    BY <1>q, <1>15 DEF ClearQueue, object, outgoing, kernel, owners
  <2>3. UNCHANGED <<alive, refCount, closing, sock, sendLock, posted, okDone, errDone, registered, playerSession, leaves, op, accepted, wire>>
    BY <1>15 DEF ClearQueue, object, outgoing, kernel, owners
  <2> QED
    BY <2>1, <2>2, <2>3
<1>16. ASSUME NEW t \in Threads, ClearStream(t) PROVE DataOK'
  BY <1>16 DEF ClearStream, At, object, outgoing, kernel, owners
<1>17. ASSUME NEW t \in Threads, NotifyDisconnected(t) PROVE DataOK'
  <2>1. registered' \in BOOLEAN /\ playerSession' \in BOOLEAN
    BY <1>17 DEF NotifyDisconnected, object, outgoing, kernel, owners
  <2>2. leaves' \in Nat
    BY <1>17 DEF NotifyDisconnected, object, outgoing, kernel, owners
  <2>3. UNCHANGED <<alive, refCount, closing, sock, sendLock, sendQ, sending, posted, okDone, errDone, op, accepted, wire>>
    BY <1>17 DEF NotifyDisconnected, object, outgoing, kernel, owners
  <2> QED
    BY <2>1, <2>2, <2>3
<1>18. ASSUME NEW t \in Threads, ReleaseBase(t) PROVE DataOK'
  BY <1>r, <1>18 DEF ReleaseBase, Release, At, object, outgoing, kernel, owners
<1>19. ASSUME NEW t \in Threads, UseAfterFree(t) PROVE DataOK'
  BY <1>19 DEF UseAfterFree, At, object, outgoing, kernel, owners
<1>20. ASSUME NEW w \in Workers, OnSendComplete(w) PROVE DataOK'
  <2>1. sendQ' \in Seq(Nat) /\ Len(sendQ') <= MaxSendQueue
    BY <1>q, <1>20 DEF OnSendComplete, object, outgoing, kernel, owners
  <2>2. sending' \in BOOLEAN
    BY <1>q, <1>20 DEF OnSendComplete, object, outgoing, kernel, owners
  <2>3. sendLock' \in Threads \cup {NoOne}
    BY <1>q, <1>20 DEF OnSendComplete, object, outgoing, kernel, owners
  <2>4. UNCHANGED <<alive, refCount, closing, sock, posted, okDone, errDone, registered, playerSession, leaves, op, accepted, wire>>
    BY <1>20 DEF OnSendComplete, object, outgoing, kernel, owners
  <2> QED
    BY <2>1, <2>2, <2>3, <2>4
<1>21. ASSUME NEW w \in Workers, OnRecvComplete(w) PROVE DataOK'
  BY <1>21 DEF OnRecvComplete, At, object, outgoing, kernel, owners
<1>22. ASSUME NEW w \in Workers, ParsePacket(w) PROVE DataOK'
  BY <1>22 DEF ParsePacket, At, object, outgoing, kernel, owners
<1>23. ASSUME NEW w \in Workers, NextPacket(w) PROVE DataOK'
  BY <1>23 DEF NextPacket, At, object, outgoing, kernel, owners
<1>24. ASSUME NEW w \in Workers, ReleaseIo(w) PROVE DataOK'
  BY <1>r, <1>24 DEF ReleaseIo, Release, At, object, outgoing, kernel, owners
<1>25. ASSUME NEW w \in Workers, NEW ty \in IOType, DequeueOk(w, ty) PROVE DataOK'
  BY <1>25 DEF DequeueOk, At, object, outgoing, kernel, owners
<1>26. ASSUME NEW w \in Workers, NEW ty \in IOType, DequeueErr(w, ty) PROVE DataOK'
  BY <1>26 DEF DequeueErr, At, object, outgoing, kernel, owners
<1>27. ASSUME NEW ty \in IOType, CompleteOk(ty) PROVE DataOK'
  <2>1. posted' \in [IOType -> Nat]
    <3>1. posted[ty] - 1 \in Nat
      BY <1>27 DEF CompleteOk
    <3> QED
      BY <1>27, <3>1 DEF CompleteOk
  <2>2. okDone' \in [IOType -> Nat]
    BY <1>27 DEF CompleteOk
  <2>3. UNCHANGED <<alive, refCount, closing, sock, sendLock, sendQ, sending, errDone, registered, playerSession, leaves, op, accepted, wire>>
    BY <1>27 DEF CompleteOk, object, outgoing, owners
  <2> QED
    BY <2>1, <2>2, <2>3
<1>28. ASSUME NEW ty \in IOType, CompleteErr(ty) PROVE DataOK'
  <2>1. posted' \in [IOType -> Nat]
    <3>1. posted[ty] - 1 \in Nat
      BY <1>28 DEF CompleteErr
    <3> QED
      BY <1>28, <3>1 DEF CompleteErr
  <2>2. errDone' \in [IOType -> Nat]
    BY <1>28 DEF CompleteErr
  <2>3. UNCHANGED <<alive, refCount, closing, sock, sendLock, sendQ, sending, okDone, registered, playerSession, leaves, op, accepted, wire>>
    BY <1>28 DEF CompleteErr, object, outgoing, owners
  <2> QED
    BY <2>1, <2>2, <2>3
<1>29. CASE UNCHANGED vars
  BY <1>29 DEF vars, object, outgoing, kernel, owners
<1> HIDE ThreadsAssumption, BoundsAssumption DEF DataOK, Threads, IOType
<1> QED
  BY <1>1, <1>2, <1>3, <1>4, <1>5, <1>6, <1>7, <1>8, <1>9, <1>10, <1>11, <1>12, <1>13, <1>14, 
     <1>15, <1>16, <1>17, <1>18, <1>19, <1>20, <1>21, <1>22, <1>23, <1>24, <1>25, <1>26, <1>27, <1>28, <1>29
     DEF Next, Inside, Dispatch, Dequeue, Finished

\* _sendLock is held across WSASend, so the queue cannot be emptied under it.
LEMMA LockStep == pc \in [Threads -> Labels] /\ LockInv /\ [Next]_vars => LockInv'
<1> SUFFICES ASSUME pc \in [Threads -> Labels], LockInv, [Next]_vars PROVE LockInv'
  OBVIOUS
<1>u. \A t \in Threads : Unwind(t) \notin FrontLabels /\ AfterSend(t) \notin FrontLabels
  BY DEF Unwind, AfterSend, FrontLabels
<1>w. Accept \in Threads /\ Loop \in Threads /\ Workers \subseteq Threads /\ NoOne \notin Threads
  BY ThreadsAssumption DEF Threads
<1> USE DEF LockInv, FrontLabels
<1>1. ASSUME CreateFails PROVE LockInv'
  BY <1>w, <1>1 DEF CreateFails, At, Goto, outgoing
<1>2. ASSUME Register PROVE LockInv'
  BY <1>w, <1>2 DEF Register, At, Goto, outgoing
<1>3. ASSUME OnConnected PROVE LockInv'
  BY <1>w, <1>3 DEF OnConnected, At, Goto, outgoing
<1>4. ASSUME LoopSends PROVE LockInv'
  BY <1>w, <1>4 DEF LoopSends, At, Goto, outgoing
<1>5. ASSUME NEW t \in Threads, PostRecv(t) PROVE LockInv'
  BY <1>u, <1>w, <1>5 DEF PostRecv, At, Goto, outgoing
<1>6. ASSUME NEW t \in Threads, WsaRecvOk(t) PROVE LockInv'
  BY <1>u, <1>w, <1>6 DEF WsaRecvOk, At, Goto, outgoing
<1>7. ASSUME NEW t \in Threads, WsaRecvFails(t) PROVE LockInv'
  BY <1>w, <1>7 DEF WsaRecvFails, At, Goto, outgoing
<1>8. ASSUME NEW t \in Threads, EnqueueSend(t) PROVE LockInv'
  BY <1>u, <1>w, <1>8 DEF EnqueueSend, At, Goto, outgoing
<1>9. ASSUME NEW t \in Threads, PushSend(t) PROVE LockInv'
  BY <1>u, <1>w, <1>9 DEF PushSend, At, Goto, outgoing
<1>10. ASSUME NEW t \in Threads, PostSendFront(t) PROVE LockInv'
  BY <1>u, <1>w, <1>10 DEF PostSendFront, At, Goto, outgoing
<1>11. ASSUME NEW t \in Threads, WsaSendOk(t) PROVE LockInv'
  BY <1>u, <1>w, <1>11 DEF WsaSendOk, At, Goto, outgoing
<1>12. ASSUME NEW t \in Threads, WsaSendFails(t) PROVE LockInv'
  BY <1>w, <1>12 DEF WsaSendFails, At, Goto, outgoing
<1>13. ASSUME NEW t \in Threads, Close(t) PROVE LockInv'
  BY <1>u, <1>w, <1>13 DEF Close, At, Goto, outgoing
<1>14. ASSUME NEW t \in Threads, CloseSocket(t) PROVE LockInv'
  BY <1>w, <1>14 DEF CloseSocket, At, Goto, outgoing
<1>15. ASSUME NEW t \in Threads, ClearQueue(t) PROVE LockInv'
  BY <1>w, <1>15 DEF ClearQueue, At, Goto, outgoing
<1>16. ASSUME NEW t \in Threads, ClearStream(t) PROVE LockInv'
  BY <1>w, <1>16 DEF ClearStream, At, Goto, outgoing
<1>17. ASSUME NEW t \in Threads, NotifyDisconnected(t) PROVE LockInv'
  BY <1>w, <1>17 DEF NotifyDisconnected, At, Goto, outgoing
<1>18. ASSUME NEW t \in Threads, ReleaseBase(t) PROVE LockInv'
  BY <1>u, <1>w, <1>18 DEF ReleaseBase, At, Goto, outgoing
<1>19. ASSUME NEW t \in Threads, UseAfterFree(t) PROVE LockInv'
  BY <1>w, <1>19 DEF UseAfterFree, At, Goto, outgoing
<1>20. ASSUME NEW w \in Workers, OnSendComplete(w) PROVE LockInv'
  BY <1>w, <1>20 DEF OnSendComplete, At, Goto, outgoing
<1>21. ASSUME NEW w \in Workers, OnRecvComplete(w) PROVE LockInv'
  BY <1>w, <1>21 DEF OnRecvComplete, At, Goto, outgoing
<1>22. ASSUME NEW w \in Workers, ParsePacket(w) PROVE LockInv'
  BY <1>w, <1>22 DEF ParsePacket, At, Goto, outgoing
<1>23. ASSUME NEW w \in Workers, NextPacket(w) PROVE LockInv'
  BY <1>w, <1>23 DEF NextPacket, At, Goto, outgoing
<1>24. ASSUME NEW w \in Workers, ReleaseIo(w) PROVE LockInv'
  BY <1>w, <1>24 DEF ReleaseIo, At, Goto, outgoing
<1>25. ASSUME NEW w \in Workers, NEW ty \in IOType, DequeueOk(w, ty) PROVE LockInv'
  BY <1>w, <1>25 DEF DequeueOk, At, Goto, outgoing
<1>26. ASSUME NEW w \in Workers, NEW ty \in IOType, DequeueErr(w, ty) PROVE LockInv'
  BY <1>w, <1>26 DEF DequeueErr, At, Goto, outgoing
<1>27. ASSUME NEW ty \in IOType, CompleteOk(ty) PROVE LockInv'
  BY <1>27 DEF CompleteOk, At, Goto, outgoing
<1>28. ASSUME NEW ty \in IOType, CompleteErr(ty) PROVE LockInv'
  BY <1>28 DEF CompleteErr, At, Goto, outgoing
<1>29. CASE UNCHANGED vars
  BY <1>29 DEF vars, outgoing
<1> QED
  BY <1>1, <1>2, <1>3, <1>4, <1>5, <1>6, <1>7, <1>8, <1>9, <1>10, <1>11, <1>12, <1>13, <1>14, 
     <1>15, <1>16, <1>17, <1>18, <1>19, <1>20, <1>21, <1>22, <1>23, <1>24, <1>25, <1>26, <1>27, <1>28, <1>29
     DEF Next, Inside, Dispatch, Dequeue, Finished

\* A worker that is not idle, or an operation in flight, holds a reference.
LEMMA WorkersSafe ==
    ASSUME TypeOK, ControlInv, FreshInv, AliveInv, RefCountExact
    PROVE  WorkersNeverTouchFreed
<1>1. IsFiniteSet(Dispatching) /\ IsFiniteSet(Posting)
  BY ThreadsAssumption, ThreadsFinite, FS_Subset DEF Dispatching, Posting
<1>2. Cardinality(Dispatching) \in Nat /\ Cardinality(Posting) \in Nat
  BY <1>1, FS_CardinalityType
<1>3. BaseRef \in Nat /\ InFlight("RECV") \in Nat /\ InFlight("SEND") \in Nat
  BY DEF BaseRef, InFlight, TypeOK, IOType
<1>4. ASSUME NEW w \in Workers PROVE pc[w] # "undefined" /\ (pc[w] # "idle" => alive)
  <2>1. pc[w] # "idle" => Cardinality(Dispatching) # 0
    BY <1>1, FS_EmptySet DEF Dispatching
  <2>2. pc[w] # "idle" => pc[Accept] # "failed"
    BY ThreadsAssumption DEF FreshInv, Threads
  <2>3. pc[w] # "undefined"
    BY DEF ControlInv, WorkerLabels, CloseLabels, FrontLabels, StreamLabels
  <2>4. pc[w] # "idle" => refCount > 0
    BY <1>2, <1>3, <2>1 DEF RefCountExact, Holders
  <2> QED
    BY <2>2, <2>3, <2>4 DEF AliveInv
<1>5. ASSUME NEW ty \in IOType, InFlight(ty) > 0 PROVE alive
  <2>1. refCount > 0
    BY <1>2, <1>3, <1>5 DEF RefCountExact, Holders, IOType
  <2>2. pc[Accept] # "failed"
    BY <1>5 DEF FreshInv, InFlight
  <2> QED
    BY <2>1, <2>2 DEF AliveInv
<1> QED
  BY <1>4, <1>5 DEF WorkersNeverTouchFreed

\* Each kind of thread stays in the code it runs.
LEMMA ControlStep == pc \in [Threads -> Labels] /\ op \in [Threads -> IOType] /\ ControlInv /\ WorkersNeverTouchFreed /\ [Next]_vars => ControlInv'
<1> SUFFICES ASSUME pc \in [Threads -> Labels], op \in [Threads -> IOType], ControlInv, WorkersNeverTouchFreed, [Next]_vars PROVE ControlInv'
  OBVIOUS
<1>w. /\ Accept \in Threads /\ Loop \in Threads /\ Workers \subseteq Threads
      /\ Accept \notin Workers /\ Loop \notin Workers /\ Accept # Loop
  BY ThreadsAssumption DEF Threads
<1> USE DEF ControlInv, AcceptLabels, LoopLabels, WorkerLabels, CloseLabels, FrontLabels,
            StreamLabels
<1>1. ASSUME CreateFails PROVE ControlInv'
  BY <1>w, <1>1 DEF CreateFails, At, Goto
<1>2. ASSUME Register PROVE ControlInv'
  BY <1>w, <1>2 DEF Register, At, Goto
<1>3. ASSUME OnConnected PROVE ControlInv'
  BY <1>w, <1>3 DEF OnConnected, At, Goto
<1>4. ASSUME LoopSends PROVE ControlInv'
  BY <1>w, <1>4 DEF LoopSends, At, Goto
<1>5. ASSUME NEW t \in Threads, PostRecv(t) PROVE ControlInv'
  BY <1>w, <1>5 DEF PostRecv, Unwind, At, Goto
<1>6. ASSUME NEW t \in Threads, WsaRecvOk(t) PROVE ControlInv'
  BY <1>w, <1>6 DEF WsaRecvOk, Unwind, At, Goto
<1>7. ASSUME NEW t \in Threads, WsaRecvFails(t) PROVE ControlInv'
  BY <1>w, <1>7 DEF WsaRecvFails, At, Goto
<1>8. ASSUME NEW t \in Threads, EnqueueSend(t) PROVE ControlInv'
  BY <1>w, <1>8 DEF EnqueueSend, AfterSend, Unwind, At, Goto
<1>9. ASSUME NEW t \in Threads, PushSend(t) PROVE ControlInv'
  BY <1>w, <1>9 DEF PushSend, AfterSend, Unwind, At, Goto
<1>10. ASSUME NEW t \in Threads, PostSendFront(t) PROVE ControlInv'
  BY <1>w, <1>10 DEF PostSendFront, AfterSend, Unwind, At, Goto
<1>11. ASSUME NEW t \in Threads, WsaSendOk(t) PROVE ControlInv'
  BY <1>w, <1>11 DEF WsaSendOk, AfterSend, Unwind, At, Goto
<1>12. ASSUME NEW t \in Threads, WsaSendFails(t) PROVE ControlInv'
  BY <1>w, <1>12 DEF WsaSendFails, At, Goto
<1>13. ASSUME NEW t \in Threads, Close(t) PROVE ControlInv'
  BY <1>w, <1>13 DEF Close, Unwind, At, Goto
<1>14. ASSUME NEW t \in Threads, CloseSocket(t) PROVE ControlInv'
  BY <1>w, <1>14 DEF CloseSocket, At, Goto
<1>15. ASSUME NEW t \in Threads, ClearQueue(t) PROVE ControlInv'
  BY <1>w, <1>15 DEF ClearQueue, At, Goto
<1>16. ASSUME NEW t \in Threads, ClearStream(t) PROVE ControlInv'
  BY <1>w, <1>16 DEF ClearStream, At, Goto
<1>17. ASSUME NEW t \in Threads, NotifyDisconnected(t) PROVE ControlInv'
  BY <1>w, <1>17 DEF NotifyDisconnected, At, Goto
<1>18. ASSUME NEW t \in Threads, ReleaseBase(t) PROVE ControlInv'
  BY <1>w, <1>18 DEF ReleaseBase, Unwind, At, Goto
<1>19. ASSUME NEW t \in Threads, UseAfterFree(t) PROVE ControlInv'
  BY <1>w, <1>19 DEF UseAfterFree, Goto, WorkersNeverTouchFreed, InsideLabels, Labels
<1>20. ASSUME NEW w \in Workers, OnSendComplete(w) PROVE ControlInv'
  BY <1>w, <1>20 DEF OnSendComplete, At, Goto
<1>21. ASSUME NEW w \in Workers, OnRecvComplete(w) PROVE ControlInv'
  BY <1>w, <1>21 DEF OnRecvComplete, At, Goto
<1>22. ASSUME NEW w \in Workers, ParsePacket(w) PROVE ControlInv'
  BY <1>w, <1>22 DEF ParsePacket, At, Goto
<1>23. ASSUME NEW w \in Workers, NextPacket(w) PROVE ControlInv'
  BY <1>w, <1>23 DEF NextPacket, At, Goto
<1>24. ASSUME NEW w \in Workers, ReleaseIo(w) PROVE ControlInv'
  BY <1>w, <1>24 DEF ReleaseIo, At, Goto
<1>25. ASSUME NEW w \in Workers, NEW ty \in IOType, DequeueOk(w, ty) PROVE ControlInv'
  BY <1>w, <1>25 DEF DequeueOk, At, Goto
<1>26. ASSUME NEW w \in Workers, NEW ty \in IOType, DequeueErr(w, ty) PROVE ControlInv'
  BY <1>w, <1>26 DEF DequeueErr, At, Goto
<1>27. ASSUME NEW ty \in IOType, CompleteOk(ty) PROVE ControlInv'
  BY <1>w, <1>27 DEF CompleteOk, At, Goto
<1>28. ASSUME NEW ty \in IOType, CompleteErr(ty) PROVE ControlInv'
  BY <1>w, <1>28 DEF CompleteErr, At, Goto
<1>29. CASE UNCHANGED vars
  BY <1>29 DEF vars
<1> QED
  BY <1>1, <1>2, <1>3, <1>4, <1>5, <1>6, <1>7, <1>8, <1>9, <1>10, <1>11, <1>12, <1>13, <1>14, 
     <1>15, <1>16, <1>17, <1>18, <1>19, <1>20, <1>21, <1>22, <1>23, <1>24, <1>25, <1>26, <1>27, <1>28, <1>29
     DEF Next, Inside, Dispatch, Dequeue, Finished

\* The compare-and-exchange of Close admits one thread.
LEMMA CloserStep == pc \in [Threads -> Labels] /\ CloserInv /\ [Next]_vars => CloserInv'
<1> SUFFICES ASSUME pc \in [Threads -> Labels], CloserInv, [Next]_vars PROVE CloserInv'
  OBVIOUS
<1>u. \A t \in Threads : Unwind(t) \notin CloseLabels /\ AfterSend(t) \notin CloseLabels
  BY DEF Unwind, AfterSend, CloseLabels
<1>w. Accept \in Threads /\ Loop \in Threads /\ Workers \subseteq Threads
  BY DEF Threads
<1> USE DEF CloserInv, CloseLabels
<1>1. ASSUME CreateFails PROVE CloserInv'
  BY <1>w, <1>1 DEF CreateFails, At, Goto
<1>2. ASSUME Register PROVE CloserInv'
  BY <1>w, <1>2 DEF Register, At, Goto
<1>3. ASSUME OnConnected PROVE CloserInv'
  BY <1>w, <1>3 DEF OnConnected, At, Goto
<1>4. ASSUME LoopSends PROVE CloserInv'
  BY <1>w, <1>4 DEF LoopSends, At, Goto
<1>5. ASSUME NEW t \in Threads, PostRecv(t) PROVE CloserInv'
  BY <1>u, <1>w, <1>5 DEF PostRecv, At, Goto
<1>6. ASSUME NEW t \in Threads, WsaRecvOk(t) PROVE CloserInv'
  BY <1>u, <1>w, <1>6 DEF WsaRecvOk, At, Goto
<1>7. ASSUME NEW t \in Threads, WsaRecvFails(t) PROVE CloserInv'
  BY <1>w, <1>7 DEF WsaRecvFails, At, Goto
<1>8. ASSUME NEW t \in Threads, EnqueueSend(t) PROVE CloserInv'
  BY <1>u, <1>w, <1>8 DEF EnqueueSend, At, Goto
<1>9. ASSUME NEW t \in Threads, PushSend(t) PROVE CloserInv'
  BY <1>u, <1>w, <1>9 DEF PushSend, At, Goto
<1>10. ASSUME NEW t \in Threads, PostSendFront(t) PROVE CloserInv'
  BY <1>u, <1>w, <1>10 DEF PostSendFront, At, Goto
<1>11. ASSUME NEW t \in Threads, WsaSendOk(t) PROVE CloserInv'
  BY <1>u, <1>w, <1>11 DEF WsaSendOk, At, Goto
<1>12. ASSUME NEW t \in Threads, WsaSendFails(t) PROVE CloserInv'
  BY <1>w, <1>12 DEF WsaSendFails, At, Goto
<1>13. ASSUME NEW t \in Threads, Close(t) PROVE CloserInv'
  BY <1>u, <1>w, <1>13 DEF Close, At, Goto
<1>14. ASSUME NEW t \in Threads, CloseSocket(t) PROVE CloserInv'
  BY <1>w, <1>14 DEF CloseSocket, At, Goto
<1>15. ASSUME NEW t \in Threads, ClearQueue(t) PROVE CloserInv'
  BY <1>w, <1>15 DEF ClearQueue, At, Goto
<1>16. ASSUME NEW t \in Threads, ClearStream(t) PROVE CloserInv'
  BY <1>w, <1>16 DEF ClearStream, At, Goto
<1>17. ASSUME NEW t \in Threads, NotifyDisconnected(t) PROVE CloserInv'
  BY <1>w, <1>17 DEF NotifyDisconnected, At, Goto
<1>18. ASSUME NEW t \in Threads, ReleaseBase(t) PROVE CloserInv'
  BY <1>u, <1>w, <1>18 DEF ReleaseBase, At, Goto
<1>19. ASSUME NEW t \in Threads, UseAfterFree(t) PROVE CloserInv'
  BY <1>w, <1>19 DEF UseAfterFree, At, Goto
<1>20. ASSUME NEW w \in Workers, OnSendComplete(w) PROVE CloserInv'
  BY <1>w, <1>20 DEF OnSendComplete, At, Goto
<1>21. ASSUME NEW w \in Workers, OnRecvComplete(w) PROVE CloserInv'
  BY <1>w, <1>21 DEF OnRecvComplete, At, Goto
<1>22. ASSUME NEW w \in Workers, ParsePacket(w) PROVE CloserInv'
  BY <1>w, <1>22 DEF ParsePacket, At, Goto
<1>23. ASSUME NEW w \in Workers, NextPacket(w) PROVE CloserInv'
  BY <1>w, <1>23 DEF NextPacket, At, Goto
<1>24. ASSUME NEW w \in Workers, ReleaseIo(w) PROVE CloserInv'
  BY <1>w, <1>24 DEF ReleaseIo, At, Goto
<1>25. ASSUME NEW w \in Workers, NEW ty \in IOType, DequeueOk(w, ty) PROVE CloserInv'
  BY <1>w, <1>25 DEF DequeueOk, At, Goto
<1>26. ASSUME NEW w \in Workers, NEW ty \in IOType, DequeueErr(w, ty) PROVE CloserInv'
  BY <1>w, <1>26 DEF DequeueErr, At, Goto
<1>27. ASSUME NEW ty \in IOType, CompleteOk(ty) PROVE CloserInv'
  BY <1>27 DEF CompleteOk, At, Goto
<1>28. ASSUME NEW ty \in IOType, CompleteErr(ty) PROVE CloserInv'
  BY <1>28 DEF CompleteErr, At, Goto
<1>29. CASE UNCHANGED vars
  BY <1>29 DEF vars
<1> QED
  BY <1>1, <1>2, <1>3, <1>4, <1>5, <1>6, <1>7, <1>8, <1>9, <1>10, <1>11, <1>12, <1>13, <1>14, 
     <1>15, <1>16, <1>17, <1>18, <1>19, <1>20, <1>21, <1>22, <1>23, <1>24, <1>25, <1>26, <1>27, <1>28, <1>29
     DEF Next, Inside, Dispatch, Dequeue, Finished

\* Nobody but the accept thread acts before OnConnected has run.
LEMMA FreshStep == DataOK /\ pc \in [Threads -> Labels] /\ FreshInv /\ [Next]_vars => FreshInv'
<1> SUFFICES ASSUME DataOK, pc \in [Threads -> Labels], FreshInv, [Next]_vars PROVE FreshInv'
  OBVIOUS
<1>u. \A t \in Threads : /\ Unwind(t) \in {"idle", "done", "release"}
                        /\ AfterSend(t) \in {"idle", "done", "release", "nextPacket"}
  BY DEF Unwind, AfterSend
<1>v. Unwind(Accept) = "done"
  BY ThreadsAssumption DEF Unwind
<1>w. /\ Accept \in Threads /\ Loop \in Threads /\ Workers \subseteq Threads
      /\ Accept \notin Workers /\ Loop # Accept
  BY ThreadsAssumption DEF Threads
<1> USE DEF FreshInv, IOType
<1>1. ASSUME CreateFails PROVE FreshInv'
  BY <1>w, <1>1 DEF CreateFails, At, Goto, kernel, owners, outgoing
<1>2. ASSUME Register PROVE FreshInv'
  BY <1>w, <1>2 DEF Register, At, Goto, kernel, owners, outgoing
<1>3. ASSUME OnConnected PROVE FreshInv'
  BY <1>w, <1>3 DEF OnConnected, At, Goto, kernel, owners, outgoing
<1>4. ASSUME LoopSends PROVE FreshInv'
  BY <1>w, <1>4 DEF LoopSends, At, Goto, kernel, owners, outgoing
<1>5. ASSUME NEW t \in Threads, PostRecv(t) PROVE FreshInv'
  BY <1>u, <1>w, <1>5 DEF PostRecv, At, Goto, kernel, owners, outgoing
<1>6. ASSUME NEW t \in Threads, WsaRecvOk(t) PROVE FreshInv'
  BY <1>u, <1>w, <1>6 DEF WsaRecvOk, At, Goto, kernel, owners, outgoing
<1>7. ASSUME NEW t \in Threads, WsaRecvFails(t) PROVE FreshInv'
  BY <1>w, <1>7 DEF WsaRecvFails, At, Goto, kernel, owners, outgoing
<1>8. ASSUME NEW t \in Threads, EnqueueSend(t) PROVE FreshInv'
  BY <1>u, <1>w, <1>8 DEF EnqueueSend, At, Goto, kernel, owners, outgoing
<1>9. ASSUME NEW t \in Threads, PushSend(t) PROVE FreshInv'
  BY <1>u, <1>w, <1>9 DEF PushSend, At, Goto, kernel, owners, outgoing
<1>10. ASSUME NEW t \in Threads, PostSendFront(t) PROVE FreshInv'
  BY <1>u, <1>w, <1>10 DEF PostSendFront, At, Goto, kernel, owners, outgoing
<1>11. ASSUME NEW t \in Threads, WsaSendOk(t) PROVE FreshInv'
  BY <1>u, <1>w, <1>11 DEF WsaSendOk, At, Goto, kernel, owners, outgoing
<1>12. ASSUME NEW t \in Threads, WsaSendFails(t) PROVE FreshInv'
  BY <1>w, <1>12 DEF WsaSendFails, At, Goto, kernel, owners, outgoing
<1>13. ASSUME NEW t \in Threads, Close(t) PROVE FreshInv'
  BY <1>u, <1>w, <1>13 DEF Close, At, Goto, kernel, owners, outgoing
<1>14. ASSUME NEW t \in Threads, CloseSocket(t) PROVE FreshInv'
  BY <1>w, <1>14 DEF CloseSocket, At, Goto, kernel, owners, outgoing
<1>15. ASSUME NEW t \in Threads, ClearQueue(t) PROVE FreshInv'
  BY <1>w, <1>15 DEF ClearQueue, At, Goto, kernel, owners, outgoing
<1>16. ASSUME NEW t \in Threads, ClearStream(t) PROVE FreshInv'
  BY <1>w, <1>16 DEF ClearStream, At, Goto, kernel, owners, outgoing
<1>17. ASSUME NEW t \in Threads, NotifyDisconnected(t) PROVE FreshInv'
  BY <1>w, <1>17 DEF NotifyDisconnected, At, Goto, kernel, owners, outgoing
<1>18. ASSUME NEW t \in Threads, ReleaseBase(t) PROVE FreshInv'
  BY <1>u, <1>w, <1>18 DEF ReleaseBase, At, Goto, kernel, owners, outgoing
<1>19. ASSUME NEW t \in Threads, UseAfterFree(t) PROVE FreshInv'
  BY <1>w, <1>19 DEF UseAfterFree, InsideLabels, CloseLabels, FrontLabels, StreamLabels,
     Goto, kernel, owners, outgoing
<1>20. ASSUME NEW w \in Workers, OnSendComplete(w) PROVE FreshInv'
  BY <1>w, <1>20 DEF OnSendComplete, At, Goto, kernel, owners, outgoing
<1>21. ASSUME NEW w \in Workers, OnRecvComplete(w) PROVE FreshInv'
  BY <1>w, <1>21 DEF OnRecvComplete, At, Goto, kernel, owners, outgoing
<1>22. ASSUME NEW w \in Workers, ParsePacket(w) PROVE FreshInv'
  BY <1>w, <1>22 DEF ParsePacket, At, Goto, kernel, owners, outgoing
<1>23. ASSUME NEW w \in Workers, NextPacket(w) PROVE FreshInv'
  BY <1>w, <1>23 DEF NextPacket, At, Goto, kernel, owners, outgoing
<1>24. ASSUME NEW w \in Workers, ReleaseIo(w) PROVE FreshInv'
  BY <1>w, <1>24 DEF ReleaseIo, At, Goto, kernel, owners, outgoing
<1>25. ASSUME NEW w \in Workers, NEW ty \in IOType, DequeueOk(w, ty) PROVE FreshInv'
  BY <1>w, <1>25 DEF DequeueOk, At, Goto, kernel, owners, outgoing
<1>26. ASSUME NEW w \in Workers, NEW ty \in IOType, DequeueErr(w, ty) PROVE FreshInv'
  BY <1>w, <1>26 DEF DequeueErr, At, Goto, kernel, owners, outgoing
<1>27. ASSUME NEW ty \in IOType, CompleteOk(ty) PROVE FreshInv'
  BY <1>27 DEF CompleteOk, At, Goto, kernel, owners, outgoing
<1>28. ASSUME NEW ty \in IOType, CompleteErr(ty) PROVE FreshInv'
  BY <1>28 DEF CompleteErr, At, Goto, kernel, owners, outgoing
<1>29. CASE UNCHANGED vars
  BY <1>29 DEF vars, kernel, owners, outgoing
<1> QED
  BY <1>1, <1>2, <1>3, <1>4, <1>5, <1>6, <1>7, <1>8, <1>9, <1>10, <1>11, <1>12, <1>13, <1>14, 
     <1>15, <1>16, <1>17, <1>18, <1>19, <1>20, <1>21, <1>22, <1>23, <1>24, <1>25, <1>26, <1>27, <1>28, <1>29
     DEF Next, Inside, Dispatch, Dequeue, Finished

\* How the holders of references change when thread t moves to l without entering Close.
LEMMA HoldersStep ==
    ASSUME TypeOK, CloserInv, NEW t \in Threads, NEW l \in Labels, Goto(t, l),
           closing' = closing, l \in CloseLabels => pc[t] \in CloseLabels
    PROVE  /\ Holders \in Int
           /\ Holders' = Holders
                + (IF t \in Workers /\ pc[t] = "idle" /\ l # "idle" THEN 1
                   ELSE IF t \in Workers /\ pc[t] # "idle" /\ l = "idle" THEN -1 ELSE 0)
                + (IF pc[t] \notin {"wsaRecv", "wsaSend"} /\ l \in {"wsaRecv", "wsaSend"}
                   THEN 1
                   ELSE IF pc[t] \in {"wsaRecv", "wsaSend"} /\ l \notin {"wsaRecv", "wsaSend"}
                   THEN -1 ELSE 0)
                + (IF pc[t] \in CloseLabels /\ l \notin CloseLabels THEN -1 ELSE 0)
<1>1. \A u \in Threads : pc'[u] = IF u = t THEN l ELSE pc[u]
  BY DEF TypeOK, Goto
<1>2. BaseRef \in Int
      /\ BaseRef' = BaseRef + (IF pc[t] \in CloseLabels /\ l \notin CloseLabels THEN -1 ELSE 0)
  <2>1. CASE pc[t] \in CloseLabels /\ l \notin CloseLabels
    <3>1. closing /\ \A u \in Threads : pc[u] \in CloseLabels => u = t
      BY <2>1 DEF CloserInv
    <3> QED
      BY <1>1, <2>1, <3>1 DEF BaseRef
  <2>2. CASE pc[t] \in CloseLabels <=> l \in CloseLabels
    <3>1. (\A u \in Threads : pc'[u] \notin CloseLabels)
             <=> (\A u \in Threads : pc[u] \notin CloseLabels)
      BY <1>1, <2>2
    <3> QED
      BY <2>2, <3>1 DEF BaseRef
  <2> QED
    BY <2>1, <2>2
<1> HIDE DEF BaseRef
<1> QED
  BY <1>2, RefCounts DEF Holders

\* The terms of RefCountExact are numbers.
LEMMA RefCountTypes ==
    ASSUME TypeOK
    PROVE  /\ BaseRef \in Nat /\ Cardinality(Dispatching) \in Nat
           /\ Cardinality(Posting) \in Nat /\ Holders \in Nat
           /\ InFlight("RECV") \in Nat /\ InFlight("SEND") \in Nat
<1>1. IsFiniteSet(Dispatching) /\ IsFiniteSet(Posting)
  BY ThreadsAssumption, ThreadsFinite, FS_Subset DEF Dispatching, Posting
<1>2. Cardinality(Dispatching) \in Nat /\ Cardinality(Posting) \in Nat
  BY <1>1, FS_CardinalityType
<1>3. BaseRef \in Nat
  BY DEF BaseRef
<1>4. ASSUME NEW ty \in IOType PROVE InFlight(ty) \in Nat
  <2>1. posted[ty] \in Nat /\ okDone[ty] \in Nat /\ errDone[ty] \in Nat
    BY DEF TypeOK
  <2> QED
    BY <2>1 DEF InFlight
<1> QED
  BY <1>2, <1>3, <1>4 DEF Holders, IOType

\* How the operations in flight change in the kernel and in the port.
LEMMA InFlightMoves ==
    ASSUME TypeOK, NEW ty \in IOType
    PROVE  /\ Post(ty) /\ UNCHANGED <<okDone, errDone>>
                => InFlight(ty)' = InFlight(ty) + 1
           /\ okDone' = [okDone EXCEPT ![ty] = @ - 1] /\ UNCHANGED <<posted, errDone>>
                => InFlight(ty)' = InFlight(ty) - 1
           /\ errDone' = [errDone EXCEPT ![ty] = @ - 1] /\ UNCHANGED <<posted, okDone>>
                => InFlight(ty)' = InFlight(ty) - 1
           /\ CompleteOk(ty) \/ CompleteErr(ty) => InFlight(ty)' = InFlight(ty)
<1>1. posted[ty] \in Nat /\ okDone[ty] \in Nat /\ errDone[ty] \in Nat
  BY DEF TypeOK
<1>2. DOMAIN posted = IOType /\ DOMAIN okDone = IOType /\ DOMAIN errDone = IOType
  BY DEF TypeOK
<1> QED
  BY <1>1, <1>2 DEF InFlight, Post, CompleteOk, CompleteErr

\* Operations of the other type are left alone.
LEMMA InFlightOthers ==
    ASSUME TypeOK, NEW ty \in IOType, NEW other \in IOType \ {ty}
    PROVE  /\ Post(ty) /\ UNCHANGED <<okDone, errDone>>
                => InFlight(other)' = InFlight(other)
           /\ okDone' = [okDone EXCEPT ![ty] = @ - 1] /\ UNCHANGED <<posted, errDone>>
                => InFlight(other)' = InFlight(other)
           /\ errDone' = [errDone EXCEPT ![ty] = @ - 1] /\ UNCHANGED <<posted, okDone>>
                => InFlight(other)' = InFlight(other)
           /\ CompleteOk(ty) \/ CompleteErr(ty) => InFlight(other)' = InFlight(other)
<1>1. DOMAIN posted = IOType /\ DOMAIN okDone = IOType /\ DOMAIN errDone = IOType
  BY DEF TypeOK
<1> QED
  BY <1>1 DEF InFlight, Post, CompleteOk, CompleteErr

\* Nothing that holds a reference is left when the object is deleted.
LEMMA DeletedUnheld ==
    ASSUME TypeOK, ControlInv, FreshInv, AliveInv, CloserInv, RefCountExact, ~alive,
           NEW t \in Threads, pc[t] \notin {"idle", "failed"}
    PROVE  pc[t] \notin CloseLabels /\ pc[t] \notin {"wsaRecv", "wsaSend"} /\ closing
<1>1. pc[Accept] # "failed"
  BY DEF FreshInv
<1>2. BaseRef = 0 /\ Cardinality(Posting) = 0
  <2>1. refCount = 0
    BY <1>1 DEF AliveInv, TypeOK
  <2>2. refCount = BaseRef + Cardinality(Dispatching) + Cardinality(Posting)
                   + InFlight("RECV") + InFlight("SEND")
    BY RefCountTypes DEF RefCountExact, Holders
  <2>3. /\ BaseRef \in Nat /\ Cardinality(Dispatching) \in Nat /\ Cardinality(Posting) \in Nat
        /\ InFlight("RECV") \in Nat /\ InFlight("SEND") \in Nat
    BY RefCountTypes
  <2> QED
    BY <2>1, <2>2, <2>3
<1>3. Posting = {}
  BY <1>2, ThreadsFinite, FS_Subset, FS_EmptySet DEF Posting
<1>4. closing /\ \A u \in Threads : pc[u] \notin CloseLabels
  BY <1>2 DEF BaseRef
<1> QED
  BY <1>3, <1>4 DEF Posting

\* AddRef and Release balance: the count follows its holders through every step.
LEMMA RefStep ==
    IInv /\ [Next]_vars => RefCountExact'
<1> SUFFICES ASSUME IInv, [Next]_vars PROVE RefCountExact'
  OBVIOUS
<1> USE DEF IInv
<1>h. /\ refCount = Holders + InFlight("RECV") + InFlight("SEND") /\ refCount \in Nat
      /\ Holders \in Nat /\ InFlight("RECV") \in Nat /\ InFlight("SEND") \in Nat
  BY RefCountTypes DEF RefCountExact, TypeOK
<1>l. Labels = {"associate", "connected", "postRecv", "wsaRecv", "enqueue", "lockQueue",
                "postFront", "wsaSend", "sent", "recvBegin", "parse", "nextPacket", "close",
                "closeSocket", "clearQueue", "clearStream", "notify", "releaseBase",
                "release", "idle", "done", "failed", "undefined"}
  BY DEF Labels, InsideLabels, CloseLabels, FrontLabels, StreamLabels
<1>u. \A t \in Threads :
        /\ Unwind(t) \in {"idle", "done", "release"} /\ (t \in Workers => Unwind(t) = "release")
        /\ AfterSend(t) \in {"idle", "done", "release", "nextPacket"}
        /\ t \in Workers => AfterSend(t) \in {"release", "nextPacket"}
  BY ThreadsAssumption DEF Unwind, AfterSend
<1>w. /\ Accept \in Threads /\ Loop \in Threads /\ Workers \subseteq Threads
      /\ Accept \notin Workers /\ Loop \notin Workers
  BY ThreadsAssumption DEF Threads
\* A move between labels that hold the same references.
<1>m. ASSUME NEW t \in Threads, NEW l \in Labels, Goto(t, l), closing' = closing,
             pc[t] \in CloseLabels <=> l \in CloseLabels,
             t \in Workers => pc[t] # "idle" /\ l # "idle",
             pc[t] \notin {"wsaRecv", "wsaSend"}, l \notin {"wsaRecv", "wsaSend"}
      PROVE  Holders' = Holders
  BY <1>m, HoldersStep, <1>h
<1>f. ASSUME UNCHANGED kernel
      PROVE  InFlight("RECV")' = InFlight("RECV") /\ InFlight("SEND")' = InFlight("SEND")
  BY <1>f DEF kernel, InFlight
<1> USE DEF RefCountExact
<1>1. ASSUME CreateFails PROVE RefCountExact'
  BY <1>h, <1>l, <1>u, <1>w, <1>m, <1>f, <1>1 DEF CreateFails, At, object, CloseLabels
<1>2. ASSUME Register PROVE RefCountExact'
  BY <1>h, <1>l, <1>u, <1>w, <1>m, <1>f, <1>2 DEF Register, At, object, CloseLabels
<1>3. ASSUME OnConnected PROVE RefCountExact'
  BY <1>h, <1>l, <1>u, <1>w, <1>m, <1>f, <1>3 DEF OnConnected, At, object, CloseLabels
<1>4. ASSUME LoopSends PROVE RefCountExact'
  BY <1>h, <1>l, <1>u, <1>w, <1>m, <1>f, <1>4 DEF LoopSends, At, object, CloseLabels
<1>5. ASSUME NEW t \in Threads, PostRecv(t) PROVE RefCountExact'
  <2>1. CASE closing /\ Goto(t, Unwind(t)) /\ UNCHANGED object
    BY <1>h, <1>l, <1>u, <1>w, <1>m, <1>f, <1>5, <2>1 DEF PostRecv, At, object, CloseLabels
  <2>2. CASE ~closing /\ Goto(t, "wsaRecv") /\ AddRef
    <3>1. Holders' = Holders + 1
      BY <1>l, <1>w, <1>h, HoldersStep, <1>5, <2>2 DEF PostRecv, At, CloseLabels
    <3> QED
      BY <1>h, <1>f, <1>5, <2>2, <3>1 DEF PostRecv, AddRef
  <2> QED
    BY <1>5, <2>1, <2>2 DEF PostRecv
<1>6. ASSUME NEW t \in Threads, WsaRecvOk(t) PROVE RefCountExact'
  <2>1. Holders' = Holders - 1
    BY <1>l, <1>u, <1>w, <1>h, HoldersStep, <1>6 DEF WsaRecvOk, At, CloseLabels
  <2>2. InFlight("RECV")' = InFlight("RECV") + 1 /\ InFlight("SEND")' = InFlight("SEND")
    BY <1>6, InFlightMoves, InFlightOthers DEF WsaRecvOk, IOType
  <2> QED
    BY <1>h, <1>6, <2>1, <2>2 DEF WsaRecvOk, object
<1>7. ASSUME NEW t \in Threads, WsaRecvFails(t) PROVE RefCountExact'
  <2>1. Holders' = Holders - 1
    BY <1>l, <1>w, <1>h, HoldersStep, <1>7 DEF WsaRecvFails, At, CloseLabels
  <2> QED
    BY <1>h, <1>f, <1>7, <2>1 DEF WsaRecvFails, Release
<1>8. ASSUME NEW t \in Threads, EnqueueSend(t) PROVE RefCountExact'
  BY <1>h, <1>l, <1>u, <1>w, <1>m, <1>f, <1>8 DEF EnqueueSend, At, object, CloseLabels
<1>9. ASSUME NEW t \in Threads, PushSend(t) PROVE RefCountExact'
  BY <1>h, <1>l, <1>u, <1>w, <1>m, <1>f, <1>9 DEF PushSend, At, object, CloseLabels
<1>10. ASSUME NEW t \in Threads, PostSendFront(t) PROVE RefCountExact'
  <2>1. CASE Goto(t, AfterSend(t)) /\ UNCHANGED object
    BY <1>h, <1>l, <1>u, <1>w, <1>m, <1>f, <1>10, <2>1 DEF PostSendFront, At, object, CloseLabels
  <2>2. CASE Goto(t, "wsaSend") /\ AddRef
    <3>1. Holders' = Holders + 1
      BY <1>l, <1>w, <1>h, HoldersStep, <1>10, <2>2 DEF PostSendFront, At, CloseLabels
    <3> QED
      BY <1>h, <1>f, <1>10, <2>2, <3>1 DEF PostSendFront, AddRef
  <2> QED
    BY <1>10, <2>1, <2>2 DEF PostSendFront
<1>11. ASSUME NEW t \in Threads, WsaSendOk(t) PROVE RefCountExact'
  <2>1. Holders' = Holders - 1
    BY <1>l, <1>u, <1>w, <1>h, HoldersStep, <1>11 DEF WsaSendOk, At, CloseLabels
  <2>2. InFlight("SEND")' = InFlight("SEND") + 1 /\ InFlight("RECV")' = InFlight("RECV")
    BY <1>11, InFlightMoves, InFlightOthers DEF WsaSendOk, IOType
  <2> QED
    BY <1>h, <1>11, <2>1, <2>2 DEF WsaSendOk, object
<1>12. ASSUME NEW t \in Threads, WsaSendFails(t) PROVE RefCountExact'
  <2>1. Holders' = Holders - 1
    BY <1>l, <1>w, <1>h, HoldersStep, <1>12 DEF WsaSendFails, At, CloseLabels
  <2> QED
    BY <1>h, <1>f, <1>12, <2>1 DEF WsaSendFails, Release
<1>13. ASSUME NEW t \in Threads, Close(t) PROVE RefCountExact'
  <2>1. CASE closing
    BY <1>h, <1>l, <1>u, <1>w, <1>m, <1>f, <1>13, <2>1 DEF Close, At, object, CloseLabels
  <2>2. CASE ~closing
    <3>1. Goto(t, "closeSocket") /\ pc[t] = "close"
      BY <1>13, <2>2 DEF Close, At
    <3>2. BaseRef = 1 /\ BaseRef' = 1
      BY <2>2, <3>1 DEF BaseRef, CloserInv, Goto, TypeOK, CloseLabels
    <3>3. /\ Cardinality(Dispatching)' = Cardinality(Dispatching)
          /\ Cardinality(Posting)' = Cardinality(Posting)
      BY <1>l, <3>1, RefCounts
    <3> QED
      BY <1>h, <1>f, <1>13, <3>2, <3>3 DEF Close, Holders, object
  <2> QED
    BY <2>1, <2>2
<1>14. ASSUME NEW t \in Threads, CloseSocket(t) PROVE RefCountExact'
  BY <1>h, <1>l, <1>u, <1>w, <1>m, <1>f, <1>14 DEF CloseSocket, At, object, CloseLabels
<1>15. ASSUME NEW t \in Threads, ClearQueue(t) PROVE RefCountExact'
  BY <1>h, <1>l, <1>u, <1>w, <1>m, <1>f, <1>15 DEF ClearQueue, At, object, CloseLabels
<1>16. ASSUME NEW t \in Threads, ClearStream(t) PROVE RefCountExact'
  BY <1>h, <1>l, <1>u, <1>w, <1>m, <1>f, <1>16 DEF ClearStream, At, object, CloseLabels
<1>17. ASSUME NEW t \in Threads, NotifyDisconnected(t) PROVE RefCountExact'
  BY <1>h, <1>l, <1>u, <1>w, <1>m, <1>f, <1>17 DEF NotifyDisconnected, At, object, CloseLabels
<1>18. ASSUME NEW t \in Threads, ReleaseBase(t) PROVE RefCountExact'
  <2>1. Holders' = Holders - 1
    BY <1>l, <1>u, <1>w, <1>h, HoldersStep, <1>18 DEF ReleaseBase, At, CloseLabels
  <2> QED
    BY <1>h, <1>f, <1>18, <2>1 DEF ReleaseBase, Release
<1>19. ASSUME NEW t \in Threads, UseAfterFree(t) PROVE RefCountExact'
  <2>1. Goto(t, "undefined") /\ UNCHANGED <<object, closing, kernel>> /\ t \notin Workers
    BY <1>19, WorkersSafe DEF UseAfterFree, WorkersNeverTouchFreed, InsideLabels, CloseLabels,
       FrontLabels, StreamLabels
  <2>2. pc[t] \notin CloseLabels /\ pc[t] \notin {"wsaRecv", "wsaSend"}
    BY <1>19, DeletedUnheld DEF UseAfterFree, InsideLabels, CloseLabels, FrontLabels,
       StreamLabels
  <2> QED
    BY <1>h, <1>l, <1>m, <1>f, <2>1, <2>2 DEF object, CloseLabels
<1>20. ASSUME NEW w \in Workers, OnSendComplete(w) PROVE RefCountExact'
  BY <1>h, <1>l, <1>u, <1>w, <1>m, <1>f, <1>20 DEF OnSendComplete, At, object, CloseLabels
<1>21. ASSUME NEW w \in Workers, OnRecvComplete(w) PROVE RefCountExact'
  BY <1>h, <1>l, <1>u, <1>w, <1>m, <1>f, <1>21 DEF OnRecvComplete, At, object, CloseLabels
<1>22. ASSUME NEW w \in Workers, ParsePacket(w) PROVE RefCountExact'
  BY <1>h, <1>l, <1>u, <1>w, <1>m, <1>f, <1>22 DEF ParsePacket, At, object, CloseLabels
<1>23. ASSUME NEW w \in Workers, NextPacket(w) PROVE RefCountExact'
  BY <1>h, <1>l, <1>u, <1>w, <1>m, <1>f, <1>23 DEF NextPacket, At, object, CloseLabels
<1>24. ASSUME NEW w \in Workers, ReleaseIo(w) PROVE RefCountExact'
  <2>1. Holders' = Holders - 1
    BY <1>l, <1>w, <1>h, HoldersStep, <1>24 DEF ReleaseIo, At, CloseLabels
  <2> QED
    BY <1>h, <1>f, <1>24, <2>1 DEF ReleaseIo, Release
<1>25. ASSUME NEW w \in Workers, NEW ty \in IOType, DequeueOk(w, ty) PROVE RefCountExact'
  <2>1. Holders' = Holders + 1
    BY <1>l, <1>w, <1>h, HoldersStep, <1>25 DEF DequeueOk, CloseLabels
  <2>2. refCount' = refCount
    BY <1>25 DEF DequeueOk, object
  <2>3. CASE ty = "RECV"
    <3>1. InFlight("RECV")' = InFlight("RECV") - 1 /\ InFlight("SEND")' = InFlight("SEND")
      BY <1>25, <2>3, InFlightMoves, InFlightOthers DEF DequeueOk, IOType
    <3> QED
      BY <1>h, <2>1, <2>2, <3>1
  <2>4. CASE ty = "SEND"
    <3>1. InFlight("SEND")' = InFlight("SEND") - 1 /\ InFlight("RECV")' = InFlight("RECV")
      BY <1>25, <2>4, InFlightMoves, InFlightOthers DEF DequeueOk, IOType
    <3> QED
      BY <1>h, <2>1, <2>2, <3>1
  <2> QED
    BY <2>3, <2>4 DEF IOType
<1>26. ASSUME NEW w \in Workers, NEW ty \in IOType, DequeueErr(w, ty) PROVE RefCountExact'
  <2>1. Holders' = Holders + 1
    BY <1>l, <1>w, <1>h, HoldersStep, <1>26 DEF DequeueErr, CloseLabels
  <2>2. refCount' = refCount
    BY <1>26 DEF DequeueErr, object
  <2>3. CASE ty = "RECV"
    <3>1. InFlight("RECV")' = InFlight("RECV") - 1 /\ InFlight("SEND")' = InFlight("SEND")
      BY <1>26, <2>3, InFlightMoves, InFlightOthers DEF DequeueErr, IOType
    <3> QED
      BY <1>h, <2>1, <2>2, <3>1
  <2>4. CASE ty = "SEND"
    <3>1. InFlight("SEND")' = InFlight("SEND") - 1 /\ InFlight("RECV")' = InFlight("RECV")
      BY <1>26, <2>4, InFlightMoves, InFlightOthers DEF DequeueErr, IOType
    <3> QED
      BY <1>h, <2>1, <2>2, <3>1
  <2> QED
    BY <2>3, <2>4 DEF IOType
<1>27. ASSUME NEW ty \in IOType, CompleteOk(ty) PROVE RefCountExact'
  <2>1. InFlight("RECV")' = InFlight("RECV") /\ InFlight("SEND")' = InFlight("SEND")
    BY <1>27, InFlightMoves, InFlightOthers DEF IOType
  <2>2. Holders' = Holders /\ refCount' = refCount
    BY <1>27 DEF CompleteOk, object, Holders, BaseRef, Dispatching, Posting
  <2> QED
    BY <1>h, <2>1, <2>2
<1>28. ASSUME NEW ty \in IOType, CompleteErr(ty) PROVE RefCountExact'
  <2>1. InFlight("RECV")' = InFlight("RECV") /\ InFlight("SEND")' = InFlight("SEND")
    BY <1>28, InFlightMoves, InFlightOthers DEF IOType
  <2>2. Holders' = Holders /\ refCount' = refCount
    BY <1>28 DEF CompleteErr, object, Holders, BaseRef, Dispatching, Posting
  <2> QED
    BY <1>h, <2>1, <2>2
<1>29. CASE UNCHANGED vars
  BY <1>29 DEF vars, object, kernel, InFlight, Holders, BaseRef, Dispatching, Posting
<1> QED
  BY <1>1, <1>2, <1>3, <1>4, <1>5, <1>6, <1>7, <1>8, <1>9, <1>10, <1>11, <1>12, <1>13, <1>14, 
     <1>15, <1>16, <1>17, <1>18, <1>19, <1>20, <1>21, <1>22, <1>23, <1>24, <1>25, <1>26, <1>27, <1>28, <1>29
     DEF Next, Inside, Dispatch, Dequeue, Finished

\* "delete this" runs with the last Release, or in CreateAndRegisterSession.
LEMMA AliveStep == refCount \in Nat /\ pc \in [Threads -> Labels] /\ AliveInv /\ [Next]_vars => AliveInv'
<1> SUFFICES ASSUME refCount \in Nat, pc \in [Threads -> Labels], AliveInv, [Next]_vars PROVE AliveInv'
  OBVIOUS
<1>u. \A t \in Threads : Unwind(t) # "failed" /\ AfterSend(t) # "failed"
  BY DEF Unwind, AfterSend
<1>w. /\ Accept \in Threads /\ Loop \in Threads /\ Workers \subseteq Threads
      /\ Accept \notin Workers /\ Loop # Accept
  BY ThreadsAssumption DEF Threads
<1>r. alive /\ Release => (alive' <=> refCount' > 0)
  <2> SUFFICES ASSUME alive, Release PROVE alive' <=> refCount' > 0
    OBVIOUS
  <2>1. (refCount # 1) <=> refCount' > 0
    BY DEF AliveInv, Release
  <2>2. alive' = (refCount # 1)
    BY DEF Release
  <2> QED
    BY <2>1, <2>2, Zenon
<1>a. alive /\ AddRef => alive' /\ refCount' > 0
  BY DEF AliveInv, AddRef
<1> USE DEF AliveInv
<1>1. ASSUME CreateFails PROVE AliveInv'
  BY <1>w, <1>1 DEF CreateFails, At, Goto, object
<1>2. ASSUME Register PROVE AliveInv'
  BY <1>w, <1>2 DEF Register, At, Goto, object
<1>3. ASSUME OnConnected PROVE AliveInv'
  BY <1>w, <1>3 DEF OnConnected, At, Goto, object
<1>4. ASSUME LoopSends PROVE AliveInv'
  BY <1>w, <1>4 DEF LoopSends, At, Goto, object
<1>5. ASSUME NEW t \in Threads, PostRecv(t) PROVE AliveInv'
  BY <1>a, <1>u, <1>w, <1>5 DEF PostRecv, At, Goto, object
<1>6. ASSUME NEW t \in Threads, WsaRecvOk(t) PROVE AliveInv'
  BY <1>u, <1>w, <1>6 DEF WsaRecvOk, At, Goto, object
<1>7. ASSUME NEW t \in Threads, WsaRecvFails(t) PROVE AliveInv'
  BY <1>r, <1>w, <1>7 DEF WsaRecvFails, At, Goto, object
<1>8. ASSUME NEW t \in Threads, EnqueueSend(t) PROVE AliveInv'
  BY <1>u, <1>w, <1>8 DEF EnqueueSend, At, Goto, object
<1>9. ASSUME NEW t \in Threads, PushSend(t) PROVE AliveInv'
  BY <1>u, <1>w, <1>9 DEF PushSend, At, Goto, object
<1>10. ASSUME NEW t \in Threads, PostSendFront(t) PROVE AliveInv'
  BY <1>a, <1>u, <1>w, <1>10 DEF PostSendFront, At, Goto, object
<1>11. ASSUME NEW t \in Threads, WsaSendOk(t) PROVE AliveInv'
  BY <1>u, <1>w, <1>11 DEF WsaSendOk, At, Goto, object
<1>12. ASSUME NEW t \in Threads, WsaSendFails(t) PROVE AliveInv'
  BY <1>r, <1>w, <1>12 DEF WsaSendFails, At, Goto, object
<1>13. ASSUME NEW t \in Threads, Close(t) PROVE AliveInv'
  BY <1>u, <1>w, <1>13 DEF Close, At, Goto, object
<1>14. ASSUME NEW t \in Threads, CloseSocket(t) PROVE AliveInv'
  BY <1>w, <1>14 DEF CloseSocket, At, Goto, object
<1>15. ASSUME NEW t \in Threads, ClearQueue(t) PROVE AliveInv'
  BY <1>w, <1>15 DEF ClearQueue, At, Goto, object
<1>16. ASSUME NEW t \in Threads, ClearStream(t) PROVE AliveInv'
  BY <1>w, <1>16 DEF ClearStream, At, Goto, object
<1>17. ASSUME NEW t \in Threads, NotifyDisconnected(t) PROVE AliveInv'
  BY <1>w, <1>17 DEF NotifyDisconnected, At, Goto, object
<1>18. ASSUME NEW t \in Threads, ReleaseBase(t) PROVE AliveInv'
  BY <1>r, <1>u, <1>w, <1>18 DEF ReleaseBase, At, Goto, object
<1>19. ASSUME NEW t \in Threads, UseAfterFree(t) PROVE AliveInv'
  BY <1>w, <1>19 DEF UseAfterFree, InsideLabels, CloseLabels, FrontLabels, StreamLabels, At, Goto, object
<1>20. ASSUME NEW w \in Workers, OnSendComplete(w) PROVE AliveInv'
  BY <1>w, <1>20 DEF OnSendComplete, At, Goto, object
<1>21. ASSUME NEW w \in Workers, OnRecvComplete(w) PROVE AliveInv'
  BY <1>w, <1>21 DEF OnRecvComplete, At, Goto, object
<1>22. ASSUME NEW w \in Workers, ParsePacket(w) PROVE AliveInv'
  BY <1>w, <1>22 DEF ParsePacket, At, Goto, object
<1>23. ASSUME NEW w \in Workers, NextPacket(w) PROVE AliveInv'
  BY <1>w, <1>23 DEF NextPacket, At, Goto, object
<1>24. ASSUME NEW w \in Workers, ReleaseIo(w) PROVE AliveInv'
  BY <1>r, <1>w, <1>24 DEF ReleaseIo, At, Goto, object
<1>25. ASSUME NEW w \in Workers, NEW ty \in IOType, DequeueOk(w, ty) PROVE AliveInv'
  BY <1>w, <1>25 DEF DequeueOk, At, Goto, object
<1>26. ASSUME NEW w \in Workers, NEW ty \in IOType, DequeueErr(w, ty) PROVE AliveInv'
  BY <1>w, <1>26 DEF DequeueErr, At, Goto, object
<1>27. ASSUME NEW ty \in IOType, CompleteOk(ty) PROVE AliveInv'
  BY <1>w, <1>27 DEF CompleteOk, At, Goto, object
<1>28. ASSUME NEW ty \in IOType, CompleteErr(ty) PROVE AliveInv'
  BY <1>w, <1>28 DEF CompleteErr, At, Goto, object
<1>29. CASE UNCHANGED vars
  BY <1>29 DEF vars, object
<1> QED
  BY <1>1, <1>2, <1>3, <1>4, <1>5, <1>6, <1>7, <1>8, <1>9, <1>10, <1>11, <1>12, <1>13, <1>14, 
     <1>15, <1>16, <1>17, <1>18, <1>19, <1>20, <1>21, <1>22, <1>23, <1>24, <1>25, <1>26, <1>27, <1>28, <1>29
     DEF Next, Inside, Dispatch, Dequeue, Finished

-----------------------------------------------------------------------------
\* The initial state of a session just allocated.
LEMMA InitIInv == Init => IInv
<1> SUFFICES ASSUME Init PROVE IInv
  OBVIOUS
<1>w. /\ Accept \in Threads /\ Loop \in Threads /\ Workers \subseteq Threads
      /\ Accept \notin Workers /\ Loop # Accept
  BY ThreadsAssumption DEF Threads
<1>p. \A t \in Threads : pc[t] = IF t = Accept THEN "associate" ELSE "idle"
  BY DEF Init
<1>1. TypeOK
  <2>1. pc \in [Threads -> Labels]
    BY DEF Init, Labels, InsideLabels
  <2>2. <<>> \in Seq(Nat) /\ Len(<<>>) <= MaxSendQueue
    BY BoundsAssumption
  <2> QED
    BY <2>1, <2>2 DEF Init, TypeOK, IOType
<1>2. ControlInv
  BY <1>p, <1>w DEF ControlInv, AcceptLabels, LoopLabels, WorkerLabels, StreamLabels
<1>3. LockInv /\ CloserInv
  BY <1>p DEF LockInv, CloserInv, FrontLabels, CloseLabels
<1>4. FreshInv
  BY <1>p DEF Init, FreshInv, IOType
<1>5. AliveInv
  BY <1>p, <1>w DEF Init, AliveInv
<1>6. RefCountExact
  <2>1. Dispatching = {} /\ Posting = {}
    BY <1>p, <1>w DEF Dispatching, Posting
  <2>2. BaseRef = 1 /\ refCount = 1
    BY DEF Init, BaseRef
  <2>3. InFlight("RECV") = 0 /\ InFlight("SEND") = 0
    BY DEF Init, InFlight, IOType
  <2> QED
    BY <2>1, <2>2, <2>3, FS_EmptySet DEF RefCountExact, Holders
<1> QED
  BY <1>1, <1>2, <1>3, <1>4, <1>5, <1>6 DEF IInv

\* Every step preserves the inductive invariant.
LEMMA NextIInv == IInv /\ [Next]_vars => IInv'
<1> SUFFICES ASSUME IInv, [Next]_vars PROVE IInv'
  OBVIOUS
<1>1. TypeOK'
  BY PcStep, DataStep DEF IInv, TypeOK, DataOK
<1>2. ControlInv'
  BY ControlStep, WorkersSafe DEF IInv, TypeOK
<1>3. LockInv' /\ CloserInv'
  BY LockStep, CloserStep DEF IInv, TypeOK
<1>4. FreshInv'
  BY FreshStep DEF IInv, TypeOK, DataOK
<1>5. AliveInv'
  BY AliveStep DEF IInv, TypeOK
<1>6. RefCountExact'
  BY RefStep
<1> QED
  BY <1>1, <1>2, <1>3, <1>4, <1>5, <1>6 DEF IInv

LEMMA InvariantIInv == Spec => []IInv
BY InitIInv, NextIInv, PTL DEF Spec

\* The variables keep their types, the send queue its limit.
THEOREM TypeCorrect == Spec => []TypeOK
<1>1. IInv => TypeOK
  BY DEF IInv
<1> QED
  BY InvariantIInv, <1>1, PTL

\* Session::AddRef and Release balance in every interleaving.
THEOREM ReferencesBalance == Spec => []RefCountExact
<1>1. IInv => RefCountExact
  BY DEF IInv
<1> QED
  BY InvariantIInv, <1>1, PTL

\* No IOCP worker touches a deleted session, and no completion refers to one.
THEOREM NoWorkerUseAfterFree == Spec => []WorkersNeverTouchFreed
<1>1. IInv => WorkersNeverTouchFreed
  BY WorkersSafe DEF IInv
<1> QED
  BY InvariantIInv, <1>1, PTL

-----------------------------------------------------------------------------
\* The one Leave task of a session, and the pointers to it.
LEMMA OwnersStep == IInv /\ OwnersInv /\ [Next]_vars => OwnersInv'
<1> SUFFICES ASSUME IInv, OwnersInv, [Next]_vars PROVE OwnersInv'
  OBVIOUS
<1>i. pc \in [Threads -> Labels] /\ CloserInv /\ FreshInv
  BY DEF IInv, TypeOK
<1>u. \A t \in Threads : Unwind(t) \notin CloseLabels /\ AfterSend(t) \notin CloseLabels
  BY DEF Unwind, AfterSend, CloseLabels
<1>w. Accept \in Threads /\ Loop \in Threads /\ Workers \subseteq Threads
  BY DEF Threads
<1> USE DEF OwnersInv, PreNotify, CloseLabels
<1>1. ASSUME CreateFails PROVE OwnersInv'
  BY <1>i, <1>w, <1>1 DEF CreateFails, At, Goto, owners
<1>2. ASSUME Register PROVE OwnersInv'
  BY <1>i, <1>w, <1>2 DEF Register, FreshInv, At, Goto, owners
<1>3. ASSUME OnConnected PROVE OwnersInv'
  BY <1>i, <1>w, <1>3 DEF OnConnected, FreshInv, At, Goto, owners
<1>4. ASSUME LoopSends PROVE OwnersInv'
  BY <1>i, <1>w, <1>4 DEF LoopSends, At, Goto, owners
<1>5. ASSUME NEW t \in Threads, PostRecv(t) PROVE OwnersInv'
  BY <1>i, <1>u, <1>w, <1>5 DEF PostRecv, At, Goto, owners
<1>6. ASSUME NEW t \in Threads, WsaRecvOk(t) PROVE OwnersInv'
  BY <1>i, <1>u, <1>w, <1>6 DEF WsaRecvOk, At, Goto, owners
<1>7. ASSUME NEW t \in Threads, WsaRecvFails(t) PROVE OwnersInv'
  BY <1>i, <1>w, <1>7 DEF WsaRecvFails, At, Goto, owners
<1>8. ASSUME NEW t \in Threads, EnqueueSend(t) PROVE OwnersInv'
  BY <1>i, <1>u, <1>w, <1>8 DEF EnqueueSend, At, Goto, owners
<1>9. ASSUME NEW t \in Threads, PushSend(t) PROVE OwnersInv'
  BY <1>i, <1>u, <1>w, <1>9 DEF PushSend, At, Goto, owners
<1>10. ASSUME NEW t \in Threads, PostSendFront(t) PROVE OwnersInv'
  BY <1>i, <1>u, <1>w, <1>10 DEF PostSendFront, At, Goto, owners
<1>11. ASSUME NEW t \in Threads, WsaSendOk(t) PROVE OwnersInv'
  BY <1>i, <1>u, <1>w, <1>11 DEF WsaSendOk, At, Goto, owners
<1>12. ASSUME NEW t \in Threads, WsaSendFails(t) PROVE OwnersInv'
  BY <1>i, <1>w, <1>12 DEF WsaSendFails, At, Goto, owners
<1>13. ASSUME NEW t \in Threads, Close(t) PROVE OwnersInv'
  BY <1>i, <1>u, <1>w, <1>13 DEF Close, CloserInv, At, Goto, owners
<1>14. ASSUME NEW t \in Threads, CloseSocket(t) PROVE OwnersInv'
  BY <1>i, <1>w, <1>14 DEF CloseSocket, At, Goto, owners
<1>15. ASSUME NEW t \in Threads, ClearQueue(t) PROVE OwnersInv'
  BY <1>i, <1>w, <1>15 DEF ClearQueue, At, Goto, owners
<1>16. ASSUME NEW t \in Threads, ClearStream(t) PROVE OwnersInv'
  BY <1>i, <1>w, <1>16 DEF ClearStream, At, Goto, owners
<1>17. ASSUME NEW t \in Threads, NotifyDisconnected(t) PROVE OwnersInv'
  BY <1>i, <1>w, <1>17 DEF NotifyDisconnected, CloserInv, At, Goto, owners
<1>18. ASSUME NEW t \in Threads, ReleaseBase(t) PROVE OwnersInv'
  BY <1>i, <1>u, <1>w, <1>18 DEF ReleaseBase, CloserInv, At, Goto, owners
<1>19. ASSUME NEW t \in Threads, UseAfterFree(t) PROVE OwnersInv'
  BY <1>i, <1>w, <1>19, DeletedUnheld
     DEF IInv, UseAfterFree, InsideLabels, FrontLabels, StreamLabels, Goto, owners
<1>20. ASSUME NEW w \in Workers, OnSendComplete(w) PROVE OwnersInv'
  BY <1>i, <1>w, <1>20 DEF OnSendComplete, At, Goto, owners
<1>21. ASSUME NEW w \in Workers, OnRecvComplete(w) PROVE OwnersInv'
  BY <1>i, <1>w, <1>21 DEF OnRecvComplete, At, Goto, owners
<1>22. ASSUME NEW w \in Workers, ParsePacket(w) PROVE OwnersInv'
  BY <1>i, <1>w, <1>22 DEF ParsePacket, At, Goto, owners
<1>23. ASSUME NEW w \in Workers, NextPacket(w) PROVE OwnersInv'
  BY <1>i, <1>w, <1>23 DEF NextPacket, At, Goto, owners
<1>24. ASSUME NEW w \in Workers, ReleaseIo(w) PROVE OwnersInv'
  BY <1>i, <1>w, <1>24 DEF ReleaseIo, At, Goto, owners
<1>25. ASSUME NEW w \in Workers, NEW ty \in IOType, DequeueOk(w, ty) PROVE OwnersInv'
  BY <1>i, <1>w, <1>25 DEF DequeueOk, At, Goto, owners
<1>26. ASSUME NEW w \in Workers, NEW ty \in IOType, DequeueErr(w, ty) PROVE OwnersInv'
  BY <1>i, <1>w, <1>26 DEF DequeueErr, At, Goto, owners
<1>27. ASSUME NEW ty \in IOType, CompleteOk(ty) PROVE OwnersInv'
  BY <1>i, <1>27 DEF CompleteOk, At, Goto, owners
<1>28. ASSUME NEW ty \in IOType, CompleteErr(ty) PROVE OwnersInv'
  BY <1>i, <1>28 DEF CompleteErr, At, Goto, owners
<1>29. CASE UNCHANGED vars
  BY <1>29 DEF vars, owners
<1> QED
  BY <1>1, <1>2, <1>3, <1>4, <1>5, <1>6, <1>7, <1>8, <1>9, <1>10, <1>11, <1>12, <1>13, <1>14, 
     <1>15, <1>16, <1>17, <1>18, <1>19, <1>20, <1>21, <1>22, <1>23, <1>24, <1>25, <1>26, <1>27, <1>28, <1>29
     DEF Next, Inside, Dispatch, Dequeue, Finished

LEMMA InvariantOwners == Spec => [](IInv /\ OwnersInv)
<1>1. Init => IInv /\ OwnersInv
  BY InitIInv DEF Init, OwnersInv
<1>2. (IInv /\ OwnersInv) /\ [Next]_vars => (IInv /\ OwnersInv)'
  BY NextIInv, OwnersStep
<1> QED
  BY <1>1, <1>2, PTL DEF Spec

\* Until the object is deleted the creator's reference outlives the notification.
LEMMA BaseOutlivesNotify ==
    ASSUME IInv, OwnersInv
    PROVE  /\ leaves = 0 /\ pc[Accept] # "failed" => alive
           /\ ~alive /\ pc[Accept] # "failed" => leaves = 1
<1>1. refCount >= BaseRef
  <2>1. TypeOK
    BY DEF IInv
  <2>2. refCount = BaseRef + Cardinality(Dispatching) + Cardinality(Posting)
                   + InFlight("RECV") + InFlight("SEND")
    BY <2>1, RefCountTypes DEF IInv, RefCountExact, Holders
  <2> QED
    BY <2>1, <2>2, RefCountTypes
<1>2. leaves = 0 => BaseRef = 1
  BY DEF OwnersInv, BaseRef, PreNotify, CloseLabels
<1>3. BaseRef = 0 => leaves = 1
  BY DEF OwnersInv, BaseRef, PreNotify, CloseLabels
<1>4. BaseRef \in {0, 1} /\ refCount \in Nat
  BY DEF BaseRef, IInv, TypeOK
<1> QED
  BY <1>1, <1>2, <1>3, <1>4 DEF IInv, AliveInv

\* However many threads call Close, one Leave is posted, before the deletion.
THEOREM ClosedOnce == Spec => []DisconnectedOnce
<1>1. IInv /\ OwnersInv => DisconnectedOnce
  BY BaseOutlivesNotify DEF OwnersInv, DisconnectedOnce
<1> QED
  BY InvariantOwners, <1>1, PTL

\* The service and the player never keep a pointer to a deleted session.
THEOREM PointersValid == Spec => []NoDanglingPointer
<1>1. IInv /\ OwnersInv => NoDanglingPointer
  <2> SUFFICES ASSUME IInv, OwnersInv PROVE NoDanglingPointer
    OBVIOUS
  <2>1. pc[Accept] = "failed" => ~registered /\ ~playerSession
    BY DEF IInv, FreshInv
  <2>2. registered \/ playerSession => leaves = 0
    BY DEF OwnersInv
  <2> QED
    BY <2>1, <2>2, BaseOutlivesNotify DEF NoDanglingPointer
<1> QED
  BY InvariantOwners, <1>1, PTL

-----------------------------------------------------------------------------
\* How the three counts of SendInv change when thread t moves to l.
LEMMA SendCounts ==
    ASSUME pc \in [Threads -> Labels], NEW t \in Threads, NEW l \in Labels, Goto(t, l)
    PROVE  /\ Cardinality(Completing) \in Nat /\ Cardinality(Completing)' \in Nat
           /\ Cardinality(Completing)' = Cardinality(Completing)
                + (IF t \in Workers /\ pc[t] # "sent" /\ l = "sent" THEN 1
                   ELSE IF t \in Workers /\ pc[t] = "sent" /\ l # "sent" THEN -1 ELSE 0)
           /\ Cardinality(Handing) \in Nat /\ Cardinality(Handing)' \in Nat
           /\ Cardinality(Handing)' = Cardinality(Handing)
                + (IF pc[t] # "wsaSend" /\ l = "wsaSend" THEN 1
                   ELSE IF pc[t] = "wsaSend" /\ l # "wsaSend" THEN -1 ELSE 0)
           /\ Cardinality(PostFronts) \in Nat /\ Cardinality(PostFronts)' \in Nat
           /\ Cardinality(PostFronts)' = Cardinality(PostFronts)
                + (IF pc[t] # "postFront" /\ l = "postFront" THEN 1
                   ELSE IF pc[t] = "postFront" /\ l # "postFront" THEN -1 ELSE 0)
<1>1. pc = [u \in Threads |-> pc[u]] /\ pc' = [pc EXCEPT ![t] = l]
  BY DEF Goto
<1>2. /\ IsFiniteSet(Workers) /\ Workers \subseteq Threads
      /\ IsFiniteSet(Threads) /\ Threads \subseteq Threads
  BY ThreadsAssumption, ThreadsFinite DEF Threads
<1>3. /\ Cardinality(Completing) = Count(pc, Workers, {"sent"})
      /\ Cardinality(Completing)' = Count(pc', Workers, {"sent"})
  <2>1. Completing = {w \in Workers : pc[w] \in {"sent"}}
    BY DEF Completing
  <2>2. Completing' = {w \in Workers : pc'[w] \in {"sent"}}
    BY DEF Completing
  <2> QED
    BY <2>1, <2>2 DEF Count
<1>4. /\ Cardinality(Handing) = Count(pc, Threads, {"wsaSend"})
      /\ Cardinality(Handing)' = Count(pc', Threads, {"wsaSend"})
  <2>1. Handing = {u \in Threads : pc[u] \in {"wsaSend"}}
    BY DEF Handing
  <2>2. Handing' = {u \in Threads : pc'[u] \in {"wsaSend"}}
    BY DEF Handing
  <2> QED
    BY <2>1, <2>2 DEF Count
<1>5. /\ Cardinality(PostFronts) = Count(pc, Threads, {"postFront"})
      /\ Cardinality(PostFronts)' = Count(pc', Threads, {"postFront"})
  <2>1. PostFronts = {u \in Threads : pc[u] \in {"postFront"}}
    BY DEF PostFronts
  <2>2. PostFronts' = {u \in Threads : pc'[u] \in {"postFront"}}
    BY DEF PostFronts
  <2> QED
    BY <2>1, <2>2 DEF Count
<1>6. /\ Count(pc, Workers, {"sent"}) \in Nat /\ Count(pc', Workers, {"sent"}) \in Nat
      /\ Count(pc', Workers, {"sent"}) = Count(pc, Workers, {"sent"})
           + (IF t \in Workers /\ pc[t] \notin {"sent"} /\ l \in {"sent"} THEN 1
              ELSE IF t \in Workers /\ pc[t] \in {"sent"} /\ l \notin {"sent"} THEN -1 ELSE 0)
  BY <1>1, <1>2, CountStep
<1>7. /\ Count(pc, Threads, {"wsaSend"}) \in Nat /\ Count(pc', Threads, {"wsaSend"}) \in Nat
      /\ Count(pc', Threads, {"wsaSend"}) = Count(pc, Threads, {"wsaSend"})
           + (IF t \in Threads /\ pc[t] \notin {"wsaSend"} /\ l \in {"wsaSend"} THEN 1
              ELSE IF t \in Threads /\ pc[t] \in {"wsaSend"} /\ l \notin {"wsaSend"}
              THEN -1 ELSE 0)
  BY <1>1, <1>2, CountStep
<1>8. /\ Count(pc, Threads, {"postFront"}) \in Nat /\ Count(pc', Threads, {"postFront"}) \in Nat
      /\ Count(pc', Threads, {"postFront"}) = Count(pc, Threads, {"postFront"})
           + (IF t \in Threads /\ pc[t] \notin {"postFront"} /\ l \in {"postFront"} THEN 1
              ELSE IF t \in Threads /\ pc[t] \in {"postFront"} /\ l \notin {"postFront"}
              THEN -1 ELSE 0)
  BY <1>1, <1>2, CountStep
<1> QED
  BY <1>3, <1>4, <1>5, <1>6, <1>7, <1>8

\* Moves that do not pass through the code that posts or completes a send.
LEMMA SendInvFrame ==
    ASSUME IInv, SendInv, InFlight("SEND")' = InFlight("SEND"), UNCHANGED <<closing, sending>>,
           NEW t \in Threads, NEW l \in Labels, Goto(t, l),
           l \notin {"sent", "wsaSend", "postFront"}
    PROVE  SendInv'
<1>1. pc \in [Threads -> Labels] /\ InFlight("SEND") \in Nat
  BY RefCountTypes DEF IInv, TypeOK
<1>2. /\ Cardinality(Completing)' <= Cardinality(Completing)
      /\ Cardinality(Handing)' <= Cardinality(Handing)
      /\ Cardinality(PostFronts)' <= Cardinality(PostFronts)
      /\ Cardinality(Completing) \in Nat /\ Cardinality(Completing)' \in Nat
      /\ Cardinality(Handing) \in Nat /\ Cardinality(Handing)' \in Nat
      /\ Cardinality(PostFronts) \in Nat /\ Cardinality(PostFronts)' \in Nat
  BY <1>1, SendCounts
<1> QED
  BY <1>1, <1>2 DEF SendInv, SendsOutstanding

\* _sending and _closing between them keep a second send from being posted.
LEMMA SendStep == IInv /\ SendInv /\ [Next]_vars => SendInv'
<1> SUFFICES ASSUME IInv, SendInv, [Next]_vars PROVE SendInv'
  OBVIOUS
<1>i. pc \in [Threads -> Labels] /\ InFlight("SEND") \in Nat /\ InFlight("RECV") \in Nat
  BY RefCountTypes DEF IInv, TypeOK
<1>l. Labels = {"associate", "connected", "postRecv", "wsaRecv", "enqueue", "lockQueue",
                "postFront", "wsaSend", "sent", "recvBegin", "parse", "nextPacket", "close",
                "closeSocket", "clearQueue", "clearStream", "notify", "releaseBase",
                "release", "idle", "done", "failed", "undefined"}
  BY DEF Labels, InsideLabels, CloseLabels, FrontLabels, StreamLabels
<1>u. \A t \in Threads : /\ Unwind(t) \in {"idle", "done", "release"}
                        /\ AfterSend(t) \in {"idle", "done", "release", "nextPacket"}
  BY DEF Unwind, AfterSend
<1>w. Accept \in Threads /\ Loop \in Threads /\ Workers \subseteq Threads
  BY DEF Threads
<1>k. UNCHANGED kernel => InFlight("SEND")' = InFlight("SEND")
  BY DEF kernel, InFlight
<1>s. /\ SendsOutstanding <= 1
      /\ ~closing => SendsOutstanding + Cardinality(PostFronts) <= IF sending THEN 1 ELSE 0
  BY DEF SendInv
<1> USE DEF SendsOutstanding
<1>1. ASSUME CreateFails PROVE SendInv'
  BY <1>1, <1>k, <1>l, <1>u, <1>w, SendInvFrame DEF CreateFails, outgoing
<1>2. ASSUME Register PROVE SendInv'
  BY <1>2, <1>k, <1>l, <1>u, <1>w, SendInvFrame DEF Register, outgoing
<1>3. ASSUME OnConnected PROVE SendInv'
  BY <1>3, <1>k, <1>l, <1>u, <1>w, SendInvFrame DEF OnConnected, outgoing
<1>4. ASSUME LoopSends PROVE SendInv'
  BY <1>4, <1>k, <1>l, <1>u, <1>w, SendInvFrame DEF LoopSends, outgoing
<1>5. ASSUME NEW t \in Threads, PostRecv(t) PROVE SendInv'
  BY <1>5, <1>k, <1>l, <1>u, <1>w, SendInvFrame DEF PostRecv, outgoing
<1>6. ASSUME NEW t \in Threads, WsaRecvOk(t) PROVE SendInv'
  <2>1. InFlight("SEND")' = InFlight("SEND")
    BY <1>6, InFlightOthers DEF WsaRecvOk, IInv, IOType
  <2> QED
    BY <1>6, <2>1, <1>l, <1>u, SendInvFrame DEF WsaRecvOk, outgoing
<1>7. ASSUME NEW t \in Threads, WsaRecvFails(t) PROVE SendInv'
  BY <1>7, <1>k, <1>l, <1>u, <1>w, SendInvFrame DEF WsaRecvFails, outgoing
<1>8. ASSUME NEW t \in Threads, EnqueueSend(t) PROVE SendInv'
  BY <1>8, <1>k, <1>l, <1>u, <1>w, SendInvFrame DEF EnqueueSend, outgoing
<1>9. ASSUME NEW t \in Threads, PushSend(t) PROVE SendInv'
  <2>1. CASE Goto(t, "postFront")
    <3>1. /\ Cardinality(Completing)' = Cardinality(Completing)
          /\ Cardinality(Handing)' = Cardinality(Handing)
          /\ Cardinality(PostFronts)' = Cardinality(PostFronts) + 1
      <4>1. pc[t] = "lockQueue" /\ t \in Threads /\ "postFront" \in Labels
        BY <1>9, <1>l, <1>w DEF PushSend, At
      <4> QED
        BY <4>1, <1>9, <2>1, <1>i, SendCounts
    <3>2. /\ Cardinality(Completing) \in Nat /\ Cardinality(Completing)' \in Nat
          /\ Cardinality(Handing) \in Nat /\ Cardinality(Handing)' \in Nat
          /\ Cardinality(PostFronts) \in Nat /\ Cardinality(PostFronts)' \in Nat
      BY <1>9, <2>1, <1>i, <1>l, <1>u, <1>w, SendCounts DEF PushSend, At
    <3>3. UNCHANGED <<kernel, closing>> /\ sending' = TRUE /\ ~sending
      BY <1>9, <2>1, <1>u, <1>l, <1>i DEF PushSend, Goto, At
    <3> QED
      BY <1>i, <1>k, <1>s, <3>1, <3>2, <3>3 DEF SendInv
  <2>2. CASE Goto(t, "close") /\ UNCHANGED outgoing
    BY <1>9, <2>2, <1>k, <1>l, SendInvFrame DEF PushSend, outgoing
  <2>3. CASE sending /\ sending' = TRUE /\ Goto(t, AfterSend(t))
    <3>1. UNCHANGED <<kernel, closing>> /\ sending = TRUE
      BY <1>9, <2>3 DEF PushSend, IInv, TypeOK
    <3> QED
      BY <2>3, <3>1, <1>k, <1>l, <1>u, SendInvFrame
  <2> QED
    BY <1>9, <2>1, <2>2, <2>3 DEF PushSend
<1>10. ASSUME NEW t \in Threads, PostSendFront(t) PROVE SendInv'
  <2>1. CASE sending' = FALSE /\ Goto(t, AfterSend(t))
    <3>1. /\ Cardinality(Completing)' = Cardinality(Completing)
          /\ Cardinality(Handing)' = Cardinality(Handing)
          /\ Cardinality(PostFronts)' = Cardinality(PostFronts) - 1
      BY <1>10, <2>1, <1>i, <1>l, <1>u, <1>w, SendCounts DEF PostSendFront, At
    <3>2. /\ Cardinality(Completing) \in Nat /\ Cardinality(Completing)' \in Nat
          /\ Cardinality(Handing) \in Nat /\ Cardinality(Handing)' \in Nat
          /\ Cardinality(PostFronts) \in Nat /\ Cardinality(PostFronts)' \in Nat
      BY <1>10, <2>1, <1>i, <1>l, <1>u, <1>w, SendCounts DEF PostSendFront, At
    <3>3. UNCHANGED <<kernel, closing>>
      BY <1>10 DEF PostSendFront
    <3> QED
      BY <1>i, <1>k, <1>s, <2>1, <3>1, <3>2, <3>3 DEF SendInv
  <2>2. CASE ~closing /\ Goto(t, "wsaSend") /\ UNCHANGED sending
    <3>1. /\ Cardinality(Completing)' = Cardinality(Completing)
          /\ Cardinality(Handing)' = Cardinality(Handing) + 1
          /\ Cardinality(PostFronts)' = Cardinality(PostFronts) - 1
      BY <1>10, <2>2, <1>i, <1>l, <1>u, <1>w, SendCounts DEF PostSendFront, At
    <3>2. /\ Cardinality(Completing) \in Nat /\ Cardinality(Completing)' \in Nat
          /\ Cardinality(Handing) \in Nat /\ Cardinality(Handing)' \in Nat
          /\ Cardinality(PostFronts) \in Nat /\ Cardinality(PostFronts)' \in Nat
      BY <1>10, <2>2, <1>i, <1>l, <1>u, <1>w, SendCounts DEF PostSendFront, At
    <3>3. UNCHANGED <<kernel, closing>>
      BY <1>10 DEF PostSendFront
    <3> QED
      BY <1>i, <1>k, <1>s, <2>2, <3>1, <3>2, <3>3 DEF SendInv
  <2> QED
    BY <1>10, <2>1, <2>2 DEF PostSendFront
<1>11. ASSUME NEW t \in Threads, WsaSendOk(t) PROVE SendInv'
  <2>1. /\ Cardinality(Completing)' = Cardinality(Completing)
        /\ Cardinality(Handing)' = Cardinality(Handing) - 1
        /\ Cardinality(PostFronts)' = Cardinality(PostFronts)
    BY <1>11, <1>i, <1>l, <1>u, <1>w, SendCounts DEF WsaSendOk, At
  <2>2. /\ Cardinality(Completing) \in Nat /\ Cardinality(Completing)' \in Nat
        /\ Cardinality(Handing) \in Nat /\ Cardinality(Handing)' \in Nat
        /\ Cardinality(PostFronts) \in Nat /\ Cardinality(PostFronts)' \in Nat
    BY <1>11, <1>i, <1>l, <1>u, <1>w, SendCounts DEF WsaSendOk, At
  <2>3. InFlight("SEND")' = InFlight("SEND") + 1
    BY <1>11, InFlightMoves DEF WsaSendOk, IInv, IOType
  <2>4. UNCHANGED <<closing, sending>>
    BY <1>11 DEF WsaSendOk
  <2> QED
    BY <1>i, <1>s, <2>1, <2>2, <2>3, <2>4 DEF SendInv
<1>12. ASSUME NEW t \in Threads, WsaSendFails(t) PROVE SendInv'
  <2>1. /\ Cardinality(Completing)' = Cardinality(Completing)
        /\ Cardinality(Handing)' = Cardinality(Handing) - 1
        /\ Cardinality(PostFronts)' = Cardinality(PostFronts)
    BY <1>12, <1>i, <1>l, <1>u, <1>w, SendCounts DEF WsaSendFails, At
  <2>2. /\ Cardinality(Completing) \in Nat /\ Cardinality(Completing)' \in Nat
        /\ Cardinality(Handing) \in Nat /\ Cardinality(Handing)' \in Nat
        /\ Cardinality(PostFronts) \in Nat /\ Cardinality(PostFronts)' \in Nat
    BY <1>12, <1>i, <1>l, <1>u, <1>w, SendCounts DEF WsaSendFails, At
  <2>3. UNCHANGED <<kernel, closing>> /\ sending' = FALSE
    BY <1>12 DEF WsaSendFails
  <2> QED
    BY <1>i, <1>k, <1>s, <2>1, <2>2, <2>3 DEF SendInv
<1>13. ASSUME NEW t \in Threads, Close(t) PROVE SendInv'
  <2>1. /\ Cardinality(Completing)' = Cardinality(Completing)
        /\ Cardinality(Handing)' = Cardinality(Handing)
    BY <1>13, <1>i, <1>l, <1>u, <1>w, SendCounts DEF Close, At
  <2>2. UNCHANGED kernel /\ closing' = TRUE
    BY <1>13 DEF Close
  <2> QED
    BY <1>k, <1>s, <2>1, <2>2 DEF SendInv
<1>14. ASSUME NEW t \in Threads, CloseSocket(t) PROVE SendInv'
  BY <1>14, <1>k, <1>l, <1>u, <1>w, SendInvFrame DEF CloseSocket, outgoing
<1>15. ASSUME NEW t \in Threads, ClearQueue(t) PROVE SendInv'
  <2>1. /\ Cardinality(Completing)' = Cardinality(Completing)
        /\ Cardinality(Handing)' = Cardinality(Handing)
    BY <1>15, <1>i, <1>l, <1>u, <1>w, SendCounts DEF ClearQueue, At
  <2>2. UNCHANGED kernel /\ closing' = TRUE
    BY <1>15 DEF ClearQueue, IInv, TypeOK, CloserInv, CloseLabels, At
  <2> QED
    BY <1>k, <1>s, <2>1, <2>2 DEF SendInv
<1>16. ASSUME NEW t \in Threads, ClearStream(t) PROVE SendInv'
  BY <1>16, <1>k, <1>l, <1>u, <1>w, SendInvFrame DEF ClearStream, outgoing
<1>17. ASSUME NEW t \in Threads, NotifyDisconnected(t) PROVE SendInv'
  BY <1>17, <1>k, <1>l, <1>u, <1>w, SendInvFrame DEF NotifyDisconnected, outgoing
<1>18. ASSUME NEW t \in Threads, ReleaseBase(t) PROVE SendInv'
  BY <1>18, <1>k, <1>l, <1>u, <1>w, SendInvFrame DEF ReleaseBase, outgoing
<1>19. ASSUME NEW t \in Threads, UseAfterFree(t) PROVE SendInv'
  BY <1>19, <1>k, <1>l, <1>u, <1>w, SendInvFrame DEF UseAfterFree, outgoing
<1>20. ASSUME NEW w \in Workers, OnSendComplete(w) PROVE SendInv'
  <2>1. CASE sending' = FALSE /\ Goto(w, "release")
    <3>1. /\ Cardinality(Completing)' = Cardinality(Completing) - 1
          /\ Cardinality(Handing)' = Cardinality(Handing)
          /\ Cardinality(PostFronts)' = Cardinality(PostFronts)
      <4>1. pc[w] = "sent" /\ w \in Threads /\ "release" \in Labels
        BY <1>20, <1>l, <1>w DEF OnSendComplete, At
      <4> QED
        BY <4>1, <1>20, <2>1, <1>i, SendCounts
    <3>2. /\ Cardinality(Completing) \in Nat /\ Cardinality(Completing)' \in Nat
          /\ Cardinality(Handing) \in Nat /\ Cardinality(Handing)' \in Nat
          /\ Cardinality(PostFronts) \in Nat /\ Cardinality(PostFronts)' \in Nat
      BY <1>20, <2>1, <1>i, <1>l, <1>u, <1>w, SendCounts DEF OnSendComplete, At
    <3>3. UNCHANGED <<kernel, closing>>
      BY <1>20 DEF OnSendComplete
    <3> QED
      BY <1>i, <1>k, <1>s, <2>1, <3>1, <3>2, <3>3 DEF SendInv
  <2>2. CASE Goto(w, "postFront") /\ UNCHANGED sending
    <3>1. /\ Cardinality(Completing)' = Cardinality(Completing) - 1
          /\ Cardinality(Handing)' = Cardinality(Handing)
          /\ Cardinality(PostFronts)' = Cardinality(PostFronts) + 1
      <4>1. pc[w] = "sent" /\ w \in Threads /\ "postFront" \in Labels
        BY <1>20, <1>l, <1>w DEF OnSendComplete, At
      <4> QED
        BY <4>1, <1>20, <2>2, <1>i, SendCounts
    <3>2. /\ Cardinality(Completing) \in Nat /\ Cardinality(Completing)' \in Nat
          /\ Cardinality(Handing) \in Nat /\ Cardinality(Handing)' \in Nat
          /\ Cardinality(PostFronts) \in Nat /\ Cardinality(PostFronts)' \in Nat
      BY <1>20, <2>2, <1>i, <1>l, <1>u, <1>w, SendCounts DEF OnSendComplete, At
    <3>3. UNCHANGED <<kernel, closing>>
      BY <1>20 DEF OnSendComplete
    <3> QED
      BY <1>i, <1>k, <1>s, <2>2, <3>1, <3>2, <3>3 DEF SendInv
  <2> QED
    BY <1>20, <2>1, <2>2 DEF OnSendComplete
<1>21. ASSUME NEW w \in Workers, OnRecvComplete(w) PROVE SendInv'
  BY <1>21, <1>k, <1>l, <1>u, <1>w, SendInvFrame DEF OnRecvComplete, outgoing
<1>22. ASSUME NEW w \in Workers, ParsePacket(w) PROVE SendInv'
  BY <1>22, <1>k, <1>l, <1>u, <1>w, SendInvFrame DEF ParsePacket, outgoing
<1>23. ASSUME NEW w \in Workers, NextPacket(w) PROVE SendInv'
  BY <1>23, <1>k, <1>l, <1>u, <1>w, SendInvFrame DEF NextPacket, outgoing
<1>24. ASSUME NEW w \in Workers, ReleaseIo(w) PROVE SendInv'
  BY <1>24, <1>k, <1>l, <1>u, <1>w, SendInvFrame DEF ReleaseIo, outgoing
<1>25. ASSUME NEW w \in Workers, NEW ty \in IOType, DequeueOk(w, ty) PROVE SendInv'
  <2>1. CASE ty = "SEND"
    <3>1. /\ Cardinality(Completing)' = Cardinality(Completing) + 1
          /\ Cardinality(Handing)' = Cardinality(Handing)
          /\ Cardinality(PostFronts)' = Cardinality(PostFronts)
      BY <1>25, <2>1, <1>i, <1>l, <1>u, <1>w, SendCounts DEF DequeueOk, At
    <3>2. /\ Cardinality(Completing) \in Nat /\ Cardinality(Completing)' \in Nat
          /\ Cardinality(Handing) \in Nat /\ Cardinality(Handing)' \in Nat
          /\ Cardinality(PostFronts) \in Nat /\ Cardinality(PostFronts)' \in Nat
      BY <1>25, <2>1, <1>i, <1>l, <1>u, <1>w, SendCounts DEF DequeueOk, At
    <3>3. InFlight("SEND")' = InFlight("SEND") - 1 /\ UNCHANGED <<closing, sending>>
      BY <1>25, <2>1, InFlightMoves DEF DequeueOk, IInv, outgoing
    <3> QED
      BY <1>i, <1>s, <3>1, <3>2, <3>3 DEF SendInv
  <2>2. CASE ty = "RECV"
    <3>1. /\ Cardinality(Completing)' = Cardinality(Completing)
          /\ Cardinality(Handing)' = Cardinality(Handing)
          /\ Cardinality(PostFronts)' = Cardinality(PostFronts)
      BY <1>25, <2>2, <1>i, <1>l, <1>u, <1>w, SendCounts DEF DequeueOk, At
    <3>2. /\ Cardinality(Completing) \in Nat /\ Cardinality(Completing)' \in Nat
          /\ Cardinality(Handing) \in Nat /\ Cardinality(Handing)' \in Nat
          /\ Cardinality(PostFronts) \in Nat /\ Cardinality(PostFronts)' \in Nat
      BY <1>25, <2>2, <1>i, <1>l, <1>u, <1>w, SendCounts DEF DequeueOk, At
    <3>3. InFlight("SEND")' = InFlight("SEND") /\ UNCHANGED <<closing, sending>>
      BY <1>25, <2>2, InFlightOthers DEF DequeueOk, IInv, outgoing, IOType
    <3> QED
      BY <1>i, <1>s, <3>1, <3>2, <3>3 DEF SendInv
  <2> QED
    BY <2>1, <2>2 DEF IOType
<1>26. ASSUME NEW w \in Workers, NEW ty \in IOType, DequeueErr(w, ty) PROVE SendInv'
  <2>1. /\ Cardinality(Completing)' = Cardinality(Completing)
        /\ Cardinality(Handing)' = Cardinality(Handing)
        /\ Cardinality(PostFronts)' = Cardinality(PostFronts)
    BY <1>26, <1>i, <1>l, <1>u, <1>w, SendCounts DEF DequeueErr, At
  <2>2. /\ Cardinality(Completing) \in Nat /\ Cardinality(Completing)' \in Nat
        /\ Cardinality(Handing) \in Nat /\ Cardinality(Handing)' \in Nat
        /\ Cardinality(PostFronts) \in Nat /\ Cardinality(PostFronts)' \in Nat
    BY <1>26, <1>i, <1>l, <1>u, <1>w, SendCounts DEF DequeueErr, At
  <2>3. InFlight("SEND")' <= InFlight("SEND") /\ InFlight("SEND")' \in Int
    <3>1. CASE ty = "SEND"
      <4>1. InFlight("SEND")' = InFlight("SEND") - 1
        BY <1>26, <3>1, InFlightMoves DEF DequeueErr, IInv
      <4> QED
        BY <1>i, <4>1
    <3>2. CASE ty = "RECV"
      BY <1>26, <1>i, <3>2, InFlightOthers DEF DequeueErr, IInv, IOType
    <3> QED
      BY <3>1, <3>2 DEF IOType
  <2>4. UNCHANGED <<closing, sending>>
    BY <1>26 DEF DequeueErr, outgoing
  <2> QED
    BY <1>i, <1>s, <2>1, <2>2, <2>3, <2>4 DEF SendInv
<1>27. ASSUME NEW ty \in IOType, CompleteOk(ty) PROVE SendInv'
  <2>1. InFlight("SEND")' = InFlight("SEND")
    BY <1>27, InFlightMoves, InFlightOthers DEF IInv, IOType
  <2>2. UNCHANGED <<pc, closing, sending>>
    BY <1>27 DEF CompleteOk, outgoing
  <2> QED
    BY <2>1, <2>2 DEF SendInv, Completing, Handing, PostFronts
<1>28. ASSUME NEW ty \in IOType, CompleteErr(ty) PROVE SendInv'
  <2>1. InFlight("SEND")' = InFlight("SEND")
    BY <1>28, InFlightMoves, InFlightOthers DEF IInv, IOType
  <2>2. UNCHANGED <<pc, closing, sending>>
    BY <1>28 DEF CompleteErr, outgoing
  <2> QED
    BY <2>1, <2>2 DEF SendInv, Completing, Handing, PostFronts
<1>29. CASE UNCHANGED vars
  BY <1>29 DEF vars, kernel, outgoing, SendInv, InFlight, Completing, Handing, PostFronts
<1> QED
  BY <1>1, <1>2, <1>3, <1>4, <1>5, <1>6, <1>7, <1>8, <1>9, <1>10, <1>11, <1>12, <1>13, <1>14, 
     <1>15, <1>16, <1>17, <1>18, <1>19, <1>20, <1>21, <1>22, <1>23, <1>24, <1>25, <1>26, <1>27, <1>28, <1>29
     DEF Next, Inside, Dispatch, Dequeue, Finished

\* A queued message always has an operation or a thread in charge of it.
LEMMA ChargeStep == IInv /\ ChargeInv /\ [Next]_vars => ChargeInv'
<1> SUFFICES ASSUME IInv, ChargeInv, [Next]_vars PROVE ChargeInv'
  OBVIOUS
<1>i. pc \in [Threads -> Labels] /\ InFlight("SEND") \in Nat
  BY RefCountTypes DEF IInv, TypeOK
<1>u. \A t \in Threads : /\ Unwind(t) \in {"idle", "done", "release"}
                        /\ AfterSend(t) \in {"idle", "done", "release", "nextPacket"}
  BY DEF Unwind, AfterSend
<1>w. Accept \in Threads /\ Loop \in Threads /\ Workers \subseteq Threads
  BY DEF Threads
<1>k. UNCHANGED kernel => InFlight("SEND")' = InFlight("SEND")
  BY DEF kernel, InFlight
<1> USE DEF ChargeInv, FrontLabels
<1>1. ASSUME CreateFails PROVE ChargeInv'
  BY <1>i, <1>k, <1>u, <1>w, <1>1 DEF CreateFails, At, Goto, outgoing
<1>2. ASSUME Register PROVE ChargeInv'
  BY <1>i, <1>k, <1>u, <1>w, <1>2 DEF Register, At, Goto, outgoing
<1>3. ASSUME OnConnected PROVE ChargeInv'
  BY <1>i, <1>k, <1>u, <1>w, <1>3 DEF OnConnected, At, Goto, outgoing
<1>4. ASSUME LoopSends PROVE ChargeInv'
  BY <1>i, <1>k, <1>u, <1>w, <1>4 DEF LoopSends, At, Goto, outgoing
<1>5. ASSUME NEW t \in Threads, PostRecv(t) PROVE ChargeInv'
  BY <1>i, <1>k, <1>u, <1>w, <1>5 DEF PostRecv, At, Goto, outgoing
<1>6. ASSUME NEW t \in Threads, WsaRecvOk(t) PROVE ChargeInv'
  <2>1. InFlight("SEND")' = InFlight("SEND")
    BY <1>6, InFlightOthers DEF WsaRecvOk, IInv, IOType
  <2> QED
    BY <1>6, <2>1, <1>i, <1>u DEF WsaRecvOk, At, Goto, outgoing
<1>7. ASSUME NEW t \in Threads, WsaRecvFails(t) PROVE ChargeInv'
  BY <1>i, <1>k, <1>u, <1>w, <1>7 DEF WsaRecvFails, At, Goto, outgoing
<1>8. ASSUME NEW t \in Threads, EnqueueSend(t) PROVE ChargeInv'
  BY <1>i, <1>k, <1>u, <1>w, <1>8 DEF EnqueueSend, At, Goto, outgoing
<1>9. ASSUME NEW t \in Threads, PushSend(t) PROVE ChargeInv'
  BY <1>i, <1>k, <1>u, <1>w, <1>9 DEF PushSend, At, Goto, outgoing
<1>10. ASSUME NEW t \in Threads, PostSendFront(t) PROVE ChargeInv'
  BY <1>i, <1>k, <1>u, <1>w, <1>10 DEF PostSendFront, At, Goto, outgoing
<1>11. ASSUME NEW t \in Threads, WsaSendOk(t) PROVE ChargeInv'
  <2>1. InFlight("SEND")' = InFlight("SEND") + 1
    BY <1>11, InFlightMoves DEF WsaSendOk, IInv, IOType
  <2> QED
    BY <1>i, <2>1
<1>12. ASSUME NEW t \in Threads, WsaSendFails(t) PROVE ChargeInv'
  BY <1>i, <1>k, <1>u, <1>w, <1>12 DEF WsaSendFails, At, Goto, outgoing
<1>13. ASSUME NEW t \in Threads, Close(t) PROVE ChargeInv'
  BY <1>i, <1>k, <1>u, <1>w, <1>13 DEF Close, At, Goto, outgoing
<1>14. ASSUME NEW t \in Threads, CloseSocket(t) PROVE ChargeInv'
  BY <1>i, <1>k, <1>u, <1>w, <1>14 DEF CloseSocket, At, Goto, outgoing
<1>15. ASSUME NEW t \in Threads, ClearQueue(t) PROVE ChargeInv'
  BY <1>i, <1>k, <1>u, <1>w, <1>15 DEF ClearQueue, IInv, CloserInv, CloseLabels, At, Goto, outgoing
<1>16. ASSUME NEW t \in Threads, ClearStream(t) PROVE ChargeInv'
  BY <1>i, <1>k, <1>u, <1>w, <1>16 DEF ClearStream, At, Goto, outgoing
<1>17. ASSUME NEW t \in Threads, NotifyDisconnected(t) PROVE ChargeInv'
  BY <1>i, <1>k, <1>u, <1>w, <1>17 DEF NotifyDisconnected, At, Goto, outgoing
<1>18. ASSUME NEW t \in Threads, ReleaseBase(t) PROVE ChargeInv'
  BY <1>i, <1>k, <1>u, <1>w, <1>18 DEF ReleaseBase, At, Goto, outgoing
<1>19. ASSUME NEW t \in Threads, UseAfterFree(t) PROVE ChargeInv'
  <2>1. closing /\ UNCHANGED closing
    BY <1>19, DeletedUnheld DEF IInv, UseAfterFree, InsideLabels, CloseLabels, StreamLabels
  <2> QED
    BY <2>1
<1>20. ASSUME NEW w \in Workers, OnSendComplete(w) PROVE ChargeInv'
  BY <1>i, <1>k, <1>u, <1>w, <1>20 DEF OnSendComplete, At, Goto, outgoing
<1>21. ASSUME NEW w \in Workers, OnRecvComplete(w) PROVE ChargeInv'
  BY <1>i, <1>k, <1>u, <1>w, <1>21 DEF OnRecvComplete, At, Goto, outgoing
<1>22. ASSUME NEW w \in Workers, ParsePacket(w) PROVE ChargeInv'
  BY <1>i, <1>k, <1>u, <1>w, <1>22 DEF ParsePacket, At, Goto, outgoing
<1>23. ASSUME NEW w \in Workers, NextPacket(w) PROVE ChargeInv'
  BY <1>i, <1>k, <1>u, <1>w, <1>23 DEF NextPacket, At, Goto, outgoing
<1>24. ASSUME NEW w \in Workers, ReleaseIo(w) PROVE ChargeInv'
  BY <1>i, <1>k, <1>u, <1>w, <1>24 DEF ReleaseIo, At, Goto, outgoing
<1>25. ASSUME NEW w \in Workers, NEW ty \in IOType, DequeueOk(w, ty) PROVE ChargeInv'
  <2>1. CASE ty = "SEND"
    BY <1>25, <2>1, <1>i, <1>w DEF DequeueOk, Goto
  <2>2. CASE ty = "RECV"
    <3>1. InFlight("SEND")' = InFlight("SEND")
      BY <1>25, <2>2, InFlightOthers DEF DequeueOk, IInv, IOType
    <3> QED
      BY <1>25, <2>2, <3>1, <1>i, <1>w DEF DequeueOk, Goto, outgoing
  <2> QED
    BY <2>1, <2>2 DEF IOType
<1>26. ASSUME NEW w \in Workers, NEW ty \in IOType, DequeueErr(w, ty) PROVE ChargeInv'
  <2>1. CASE ty = "SEND"
    BY <1>26, <2>1, <1>i, <1>w DEF DequeueErr, Goto
  <2>2. CASE ty = "RECV"
    <3>1. InFlight("SEND")' = InFlight("SEND")
      BY <1>26, <2>2, InFlightOthers DEF DequeueErr, IInv, IOType
    <3> QED
      BY <1>26, <2>2, <3>1, <1>i, <1>w DEF DequeueErr, Goto, outgoing
  <2> QED
    BY <2>1, <2>2 DEF IOType
<1>27. ASSUME NEW ty \in IOType, CompleteOk(ty) PROVE ChargeInv'
  <2>1. InFlight("SEND")' = InFlight("SEND")
    BY <1>27, InFlightMoves, InFlightOthers DEF IInv, IOType
  <2> QED
    BY <1>27, <2>1 DEF CompleteOk, outgoing
<1>28. ASSUME NEW ty \in IOType, CompleteErr(ty) PROVE ChargeInv'
  <2>1. InFlight("SEND")' = InFlight("SEND")
    BY <1>28, InFlightMoves, InFlightOthers DEF IInv, IOType
  <2> QED
    BY <1>28, <2>1 DEF CompleteErr, outgoing
<1>29. CASE UNCHANGED vars
  BY <1>29 DEF vars, outgoing, kernel, InFlight
<1> QED
  BY <1>1, <1>2, <1>3, <1>4, <1>5, <1>6, <1>7, <1>8, <1>9, <1>10, <1>11, <1>12, <1>13, <1>14, 
     <1>15, <1>16, <1>17, <1>18, <1>19, <1>20, <1>21, <1>22, <1>23, <1>24, <1>25, <1>26, <1>27, <1>28, <1>29
     DEF Next, Inside, Dispatch, Dequeue, Finished

LEMMA InvariantSends == Spec => [](IInv /\ SendInv /\ ChargeInv)
<1>1. Init => IInv /\ SendInv /\ ChargeInv
  <2> SUFFICES ASSUME Init PROVE SendInv /\ ChargeInv
    BY InitIInv
  <2>1. Completing = {} /\ Handing = {} /\ PostFronts = {}
    BY DEF Init, Completing, Handing, PostFronts, Threads
  <2>2. InFlight("SEND") = 0
    BY DEF Init, InFlight, IOType
  <2>3. SendInv
    BY <2>1, <2>2, FS_EmptySet DEF Init, SendInv, SendsOutstanding
  <2> QED
    BY <2>3 DEF Init, ChargeInv
<1>2. (IInv /\ SendInv /\ ChargeInv) /\ [Next]_vars => (IInv /\ SendInv /\ ChargeInv)'
  BY NextIInv, SendStep, ChargeStep
<1> QED
  BY <1>1, <1>2, PTL DEF Spec

\* The kernel never holds two sends of one session.
THEOREM OneSend == Spec => []OneSendInFlight
<1>1. SendInv => OneSendInFlight
  BY DEF SendInv, OneSendInFlight
<1> QED
  BY InvariantSends, <1>1, PTL

\* No message waits in an open session with nobody about to send it.
THEOREM NothingStranded == Spec => []NoStrandedMessage
<1>1. ChargeInv => NoStrandedMessage
  BY DEF ChargeInv, NoStrandedMessage
<1> QED
  BY InvariantSends, <1>1, PTL

-----------------------------------------------------------------------------
\* The receive path: who may use _recvStream.

\* The accept thread counts from the start, it posts the first receive.
UserLabels == StreamLabels \cup FrontLabels
              \cup {"associate", "connected", "postRecv", "wsaRecv", "enqueue", "lockQueue"}
StreamUsers == {t \in Workers \cup {Accept} : op[t] = "RECV" /\ pc[t] \in UserLabels}

\* One receive is with the kernel, in the port, or with the thread that parses
\* what it brought or posts the next; a worker in OnSendComplete is not that one.
ReceiveInv ==
    /\ InFlight("RECV") + Cardinality(StreamUsers) <= 1
    /\ op[Accept] = "RECV" /\ \A w \in Workers : pc[w] = "sent" => op[w] = "SEND"

\* The users of the stream are finitely many.
LEMMA StreamUsersFinite == IsFiniteSet(StreamUsers) /\ Cardinality(StreamUsers) \in Nat
<1>1. IsFiniteSet(Workers \cup {Accept})
  BY ThreadsAssumption, FS_AddElement
<1>2. StreamUsers \subseteq Workers \cup {Accept}
  BY DEF StreamUsers
<1> QED
  BY <1>1, <1>2, FS_Subset, FS_CardinalityType

\* A step that posts no receive and brings nobody to the stream.
LEMMA ReceiveFrame ==
    ASSUME IInv, ReceiveInv, InFlight("RECV")' \in Nat,
           InFlight("RECV")' <= InFlight("RECV"),
           NEW t \in Threads, NEW l \in Labels, Goto(t, l), UNCHANGED op,
           l \in UserLabels => t = Loop \/ op[t] = "SEND" \/ pc[t] \in UserLabels,
           l # "sent"
    PROVE  ReceiveInv'
<1>1. pc \in [Threads -> Labels] /\ pc' = [pc EXCEPT ![t] = l]
  BY DEF IInv, TypeOK, Goto
<1>2. Loop \notin Workers \cup {Accept} /\ Workers \subseteq Threads /\ Accept \in Threads
  BY ThreadsAssumption DEF Threads
<1>3. StreamUsers' \subseteq StreamUsers
  <2> SUFFICES ASSUME NEW u \in StreamUsers' PROVE u \in StreamUsers
    OBVIOUS
  <2>1. CASE u = t
    BY <2>1, <1>1, <1>2 DEF StreamUsers
  <2>2. CASE u # t
    BY <2>2, <1>1, <1>2 DEF StreamUsers
  <2> QED
    BY <2>1, <2>2
<1>4. /\ Cardinality(StreamUsers') <= Cardinality(StreamUsers)
      /\ Cardinality(StreamUsers') \in Nat /\ Cardinality(StreamUsers) \in Nat
  BY <1>3, StreamUsersFinite, FS_Subset, FS_CardinalityType
<1>5. InFlight("RECV") \in Nat
  BY RefCountTypes DEF IInv
<1>6. InFlight("RECV")' + Cardinality(StreamUsers)' <= 1
  BY <1>4, <1>5 DEF ReceiveInv
<1>7. op'[Accept] = "RECV" /\ \A w \in Workers : pc'[w] = "sent" => op'[w] = "SEND"
  BY <1>1, <1>2 DEF ReceiveInv
<1> QED
  BY <1>6, <1>7 DEF ReceiveInv

\* A receive is posted by the thread that parsed the last one, or the accept thread.
LEMMA ReceiveStep == IInv /\ ReceiveInv /\ [Next]_vars => ReceiveInv'
<1> SUFFICES ASSUME IInv, ReceiveInv, [Next]_vars PROVE ReceiveInv'
  OBVIOUS
<1>i. /\ pc \in [Threads -> Labels] /\ op \in [Threads -> IOType]
      /\ InFlight("RECV") \in Nat /\ InFlight("SEND") \in Nat
  BY RefCountTypes DEF IInv, TypeOK
<1>l. Labels = {"associate", "connected", "postRecv", "wsaRecv", "enqueue", "lockQueue",
                "postFront", "wsaSend", "sent", "recvBegin", "parse", "nextPacket", "close",
                "closeSocket", "clearQueue", "clearStream", "notify", "releaseBase",
                "release", "idle", "done", "failed", "undefined"}
  BY DEF Labels, InsideLabels, CloseLabels, FrontLabels, StreamLabels
<1>u. \A t \in Threads : /\ Unwind(t) \in Labels /\ Unwind(t) # "sent"
                        /\ AfterSend(t) \in Labels /\ AfterSend(t) # "sent"
                        /\ Unwind(t) \notin UserLabels
  BY <1>l DEF Unwind, AfterSend, UserLabels, StreamLabels, FrontLabels
<1>w. /\ Accept \in Threads /\ Loop \in Threads /\ Workers \subseteq Threads
      /\ Accept \notin Workers /\ Loop \notin Workers /\ Accept # Loop
      /\ \A t \in Threads : t = Loop \/ t \in Workers \cup {Accept}
  BY ThreadsAssumption DEF Threads
<1>k. UNCHANGED kernel => InFlight("RECV")' = InFlight("RECV")
  BY DEF kernel, InFlight
<1>c. /\ pc[Loop] \notin StreamLabels \cup {"associate", "connected", "postRecv", "wsaRecv", "sent"}
      /\ pc[Accept] # "sent"
  BY DEF IInv, ControlInv, AcceptLabels, LoopLabels, CloseLabels, FrontLabels, StreamLabels
<1>t. op[Accept] = "RECV" /\ \A w \in Workers : pc[w] = "sent" => op[w] = "SEND"
  BY DEF ReceiveInv
<1> USE DEF UserLabels, StreamLabels, FrontLabels
<1>v. \A l \in Labels : \A t \in Threads :
        /\ Goto(t, l) /\ UNCHANGED <<kernel, op>> /\ l # "sent"
        /\ l \in UserLabels => t = Loop \/ op[t] = "SEND" \/ pc[t] \in UserLabels
        => ReceiveInv'
  BY <1>i, <1>k, ReceiveFrame
<1>1. ASSUME CreateFails PROVE ReceiveInv'
  BY <1>1, <1>i, <1>k, <1>l, <1>u, <1>w, ReceiveFrame DEF CreateFails, At
<1>2. ASSUME Register PROVE ReceiveInv'
  BY <1>2, <1>i, <1>k, <1>l, <1>u, <1>w, ReceiveFrame DEF Register, At
<1>3. ASSUME OnConnected PROVE ReceiveInv'
  BY <1>3, <1>i, <1>k, <1>l, <1>u, <1>w, ReceiveFrame DEF OnConnected, At
<1>4. ASSUME LoopSends PROVE ReceiveInv'
  BY <1>4, <1>i, <1>k, <1>l, <1>u, <1>w, ReceiveFrame DEF LoopSends, At
<1>5. ASSUME NEW t \in Threads, PostRecv(t) PROVE ReceiveInv'
  BY <1>5, <1>l, <1>u, <1>v DEF PostRecv, At
<1>6. ASSUME NEW t \in Threads, WsaRecvOk(t) PROVE ReceiveInv'
  <2>1. t \in StreamUsers /\ t \in Workers \cup {Accept}
    <3>1. t \in Workers \cup {Accept} /\ pc[t] = "wsaRecv"
      BY <1>6, <1>c, <1>w DEF WsaRecvOk, At
    <3>2. t = Accept => op[t] = "RECV"
      BY <1>t
    <3>3. t \in Workers => op[t] = "RECV"
      BY <3>1 DEF IInv, ControlInv
    <3> QED
      BY <3>1, <3>2, <3>3 DEF StreamUsers
  <2>2. StreamUsers' = StreamUsers \ {t}
    BY <1>6, <2>1, <1>i, <1>u, <1>w DEF WsaRecvOk, Goto, StreamUsers
  <2>3. Cardinality(StreamUsers') = Cardinality(StreamUsers) - 1
    BY <2>1, <2>2, StreamUsersFinite, FS_RemoveElement
  <2>4. InFlight("RECV")' = InFlight("RECV") + 1
    BY <1>6, InFlightMoves DEF WsaRecvOk, IInv, IOType
  <2>5. InFlight("RECV")' + Cardinality(StreamUsers)' <= 1
    BY <2>3, <2>4, <1>i, StreamUsersFinite DEF ReceiveInv
  <2>6. op'[Accept] = "RECV" /\ \A w \in Workers : pc'[w] = "sent" => op'[w] = "SEND"
    BY <1>6, <1>i, <1>u, <1>w, <1>t DEF WsaRecvOk, Goto
  <2> QED
    BY <2>5, <2>6 DEF ReceiveInv
<1>7. ASSUME NEW t \in Threads, WsaRecvFails(t) PROVE ReceiveInv'
  BY <1>7, <1>i, <1>k, <1>l, <1>u, <1>w, ReceiveFrame DEF WsaRecvFails, At, InsideLabels, CloseLabels
<1>8. ASSUME NEW t \in Threads, EnqueueSend(t) PROVE ReceiveInv'
  BY <1>8, <1>i, <1>k, <1>l, <1>u, <1>w, ReceiveFrame DEF EnqueueSend, At, InsideLabels, CloseLabels
<1>9. ASSUME NEW t \in Threads, PushSend(t) PROVE ReceiveInv'
  BY <1>9, <1>i, <1>k, <1>l, <1>u, <1>w, ReceiveFrame DEF PushSend, At, InsideLabels, CloseLabels
<1>10. ASSUME NEW t \in Threads, PostSendFront(t) PROVE ReceiveInv'
  BY <1>10, <1>i, <1>k, <1>l, <1>u, <1>w, ReceiveFrame DEF PostSendFront, At, InsideLabels, CloseLabels
<1>11. ASSUME NEW t \in Threads, WsaSendOk(t) PROVE ReceiveInv'
  <2>1. InFlight("RECV")' = InFlight("RECV")
    BY <1>11, InFlightOthers DEF WsaSendOk, IInv, IOType
  <2> QED
    BY <1>11, <2>1, <1>i, <1>l, <1>u, <1>w, ReceiveFrame DEF WsaSendOk, At
<1>12. ASSUME NEW t \in Threads, WsaSendFails(t) PROVE ReceiveInv'
  BY <1>12, <1>i, <1>k, <1>l, <1>u, <1>w, ReceiveFrame DEF WsaSendFails, At, InsideLabels, CloseLabels
<1>13. ASSUME NEW t \in Threads, Close(t) PROVE ReceiveInv'
  BY <1>13, <1>i, <1>k, <1>l, <1>u, <1>w, ReceiveFrame DEF Close, At, InsideLabels, CloseLabels
<1>14. ASSUME NEW t \in Threads, CloseSocket(t) PROVE ReceiveInv'
  BY <1>14, <1>i, <1>k, <1>l, <1>u, <1>w, ReceiveFrame DEF CloseSocket, At, InsideLabels, CloseLabels
<1>15. ASSUME NEW t \in Threads, ClearQueue(t) PROVE ReceiveInv'
  BY <1>15, <1>i, <1>k, <1>l, <1>u, <1>w, ReceiveFrame DEF ClearQueue, At, InsideLabels, CloseLabels
<1>16. ASSUME NEW t \in Threads, ClearStream(t) PROVE ReceiveInv'
  BY <1>16, <1>i, <1>k, <1>l, <1>u, <1>w, ReceiveFrame DEF ClearStream, At, InsideLabels, CloseLabels
<1>17. ASSUME NEW t \in Threads, NotifyDisconnected(t) PROVE ReceiveInv'
  BY <1>17, <1>i, <1>k, <1>l, <1>u, <1>w, ReceiveFrame DEF NotifyDisconnected, At, InsideLabels, CloseLabels
<1>18. ASSUME NEW t \in Threads, ReleaseBase(t) PROVE ReceiveInv'
  BY <1>18, <1>l, <1>u, <1>v DEF ReleaseBase, At
<1>19. ASSUME NEW t \in Threads, UseAfterFree(t) PROVE ReceiveInv'
  BY <1>19, <1>i, <1>k, <1>l, <1>u, <1>w, ReceiveFrame DEF UseAfterFree, At, InsideLabels, CloseLabels
<1>20. ASSUME NEW w \in Workers, OnSendComplete(w) PROVE ReceiveInv'
  BY <1>20, <1>i, <1>k, <1>l, <1>t, <1>u, <1>w, ReceiveFrame DEF OnSendComplete, At
<1>21. ASSUME NEW w \in Workers, OnRecvComplete(w) PROVE ReceiveInv'
  BY <1>21, <1>i, <1>k, <1>l, <1>t, <1>u, <1>w, ReceiveFrame DEF OnRecvComplete, At
<1>22. ASSUME NEW w \in Workers, ParsePacket(w) PROVE ReceiveInv'
  BY <1>22, <1>i, <1>k, <1>l, <1>t, <1>u, <1>w, ReceiveFrame DEF ParsePacket, At
<1>23. ASSUME NEW w \in Workers, NextPacket(w) PROVE ReceiveInv'
  BY <1>23, <1>i, <1>k, <1>l, <1>t, <1>u, <1>w, ReceiveFrame DEF NextPacket, At
<1>24. ASSUME NEW w \in Workers, ReleaseIo(w) PROVE ReceiveInv'
  BY <1>24, <1>i, <1>k, <1>l, <1>t, <1>u, <1>w, ReceiveFrame DEF ReleaseIo, At
<1>25. ASSUME NEW w \in Workers, NEW ty \in IOType, DequeueOk(w, ty) PROVE ReceiveInv'
  <2>1. CASE ty = "RECV"
    <3>1. StreamUsers' = StreamUsers \cup {w} /\ w \notin StreamUsers
      BY <1>25, <2>1, <1>i, <1>w DEF DequeueOk, Goto, StreamUsers
    <3>2. Cardinality(StreamUsers') = Cardinality(StreamUsers) + 1
      BY <3>1, StreamUsersFinite, FS_AddElement
    <3>3. InFlight("RECV")' = InFlight("RECV") - 1
      BY <1>25, <2>1, InFlightMoves DEF DequeueOk, IInv
    <3>4. InFlight("RECV")' + Cardinality(StreamUsers)' <= 1
      BY <3>2, <3>3, <1>i, StreamUsersFinite DEF ReceiveInv
    <3>5. op'[Accept] = "RECV" /\ \A v \in Workers : pc'[v] = "sent" => op'[v] = "SEND"
      BY <1>25, <2>1, <1>i, <1>w, <1>t DEF DequeueOk, Goto
    <3> QED
      BY <3>4, <3>5 DEF ReceiveInv
  <2>2. CASE ty = "SEND"
    <3>1. StreamUsers' = StreamUsers
      BY <1>25, <2>2, <1>i, <1>w DEF DequeueOk, Goto, StreamUsers
    <3>2. InFlight("RECV")' = InFlight("RECV")
      BY <1>25, <2>2, InFlightOthers DEF DequeueOk, IInv, IOType
    <3>3. op'[Accept] = "RECV" /\ \A v \in Workers : pc'[v] = "sent" => op'[v] = "SEND"
      BY <1>25, <2>2, <1>i, <1>w, <1>t DEF DequeueOk, Goto
    <3> QED
      BY <3>1, <3>2, <3>3 DEF ReceiveInv
  <2> QED
    BY <2>1, <2>2 DEF IOType
<1>26. ASSUME NEW w \in Workers, NEW ty \in IOType, DequeueErr(w, ty) PROVE ReceiveInv'
  <2>1. StreamUsers' = StreamUsers
    BY <1>26, <1>i, <1>w DEF DequeueErr, Goto, StreamUsers
  <2>2. InFlight("RECV")' <= InFlight("RECV") /\ InFlight("RECV")' \in Int
    <3>1. CASE ty = "RECV"
      <4>1. InFlight("RECV")' = InFlight("RECV") - 1
        BY <1>26, <3>1, InFlightMoves DEF DequeueErr, IInv
      <4> QED
        BY <4>1, <1>i
    <3>2. CASE ty = "SEND"
      <4>1. InFlight("RECV")' = InFlight("RECV")
        BY <1>26, <3>2, InFlightOthers DEF DequeueErr, IInv, IOType
      <4> QED
        BY <4>1, <1>i
    <3> QED
      BY <3>1, <3>2 DEF IOType
  <2>3. op'[Accept] = "RECV" /\ \A v \in Workers : pc'[v] = "sent" => op'[v] = "SEND"
    BY <1>26, <1>i, <1>w, <1>t DEF DequeueErr, Goto
  <2>4. InFlight("RECV")' + Cardinality(StreamUsers)' <= 1
    BY <2>1, <2>2, <1>i, StreamUsersFinite DEF ReceiveInv
  <2> QED
    BY <2>3, <2>4 DEF ReceiveInv
<1>27. ASSUME NEW ty \in IOType, CompleteOk(ty) PROVE ReceiveInv'
  <2>1. InFlight("RECV")' = InFlight("RECV")
    BY <1>27, InFlightMoves, InFlightOthers DEF IInv, IOType
  <2>2. UNCHANGED <<pc, op>>
    BY <1>27 DEF CompleteOk
  <2> QED
    BY <2>1, <2>2 DEF ReceiveInv, StreamUsers
<1>28. ASSUME NEW ty \in IOType, CompleteErr(ty) PROVE ReceiveInv'
  <2>1. InFlight("RECV")' = InFlight("RECV")
    BY <1>28, InFlightMoves, InFlightOthers DEF IInv, IOType
  <2>2. UNCHANGED <<pc, op>>
    BY <1>28 DEF CompleteErr
  <2> QED
    BY <2>1, <2>2 DEF ReceiveInv, StreamUsers
<1>29. CASE UNCHANGED vars
  BY <1>29 DEF vars, kernel, ReceiveInv, InFlight, StreamUsers
<1> QED
  BY <1>1, <1>2, <1>3, <1>4, <1>5, <1>6, <1>7, <1>8, <1>9, <1>10, <1>11, <1>12, <1>13, <1>14,
     <1>15, <1>16, <1>17, <1>18, <1>19, <1>20, <1>21, <1>22, <1>23, <1>24, <1>25, <1>26, <1>27, <1>28, <1>29
     DEF Next, Inside, Dispatch, Dequeue, Finished

LEMMA InvariantReceives == Spec => [](IInv /\ ReceiveInv)
<1>1. Init => IInv /\ ReceiveInv
  <2> SUFFICES ASSUME Init PROVE ReceiveInv
    BY InitIInv
  <2>1. StreamUsers = {Accept}
    BY ThreadsAssumption DEF Init, StreamUsers, UserLabels, StreamLabels, FrontLabels, Threads
  <2>2. InFlight("RECV") = 0
    BY DEF Init, InFlight, IOType
  <2>3. Cardinality(StreamUsers) = 1
    BY <2>1, FS_Singleton
  <2>4. op[Accept] = "RECV" /\ \A w \in Workers : pc[w] # "sent"
    BY DEF Init, Threads
  <2> QED
    BY <2>2, <2>3, <2>4 DEF ReceiveInv
<1>2. (IInv /\ ReceiveInv) /\ [Next]_vars => (IInv /\ ReceiveInv)'
  BY NextIInv, ReceiveStep
<1> QED
  BY <1>1, <1>2, PTL DEF Spec

\* No two workers parse one session's stream, and none parses it while a receive
\* that may complete is posted.
THEOREM OneReceives == Spec => []OneReceiver
<1>1. IInv /\ ReceiveInv => OneReceiver
  <2> SUFFICES ASSUME IInv, ReceiveInv PROVE OneReceiver
    OBVIOUS
  <2>1. Receivers \subseteq StreamUsers
    BY DEF Receivers, UsesStream, StreamUsers, UserLabels
  <2>2. Cardinality(Receivers) <= Cardinality(StreamUsers) /\ Cardinality(Receivers) \in Nat
    BY <2>1, StreamUsersFinite, FS_Subset, FS_CardinalityType
  <2>3. InFlight("RECV") \in Nat
    BY RefCountTypes DEF IInv
  <2> QED
    BY <2>2, <2>3, StreamUsersFinite DEF ReceiveInv, OneReceiver
<1> QED
  BY InvariantReceives, <1>1, PTL

-----------------------------------------------------------------------------
\* What the refinement mapping rests on, part by part.

\* _sendQ holds the messages accepted last, in order, and what went out is no
\* later than its front.
QueueInv ==
    /\ \A i \in 1..Len(sendQ) : sendQ[i] = accepted - Len(sendQ) + i
    /\ wire # <<>> => wire[Len(wire)] <= accepted - Len(sendQ) + 1
    /\ wire # <<>> => wire[Len(wire)] <= accepted

\* Past Close's closesocket there is no socket to send on.
SockInv == closing /\ (\A t \in Threads : pc[t] # "closeSocket") => ~sock

\* The front has gone out exactly while its operation is outstanding: no thread
\* is about to send it again, and "sending" or "closing" keeps others from it.
FrontInv ==
    /\ \A t \in Threads : pc[t] = "wsaSend" => ~FrontWentOut
    /\ \A t \in Threads : pc[t] = "postFront" /\ ~closing => ~FrontWentOut
    /\ ~closing /\ FrontWentOut => sending
    /\ IsOpen /\ (InFlight("SEND") > 0 \/ Completing # {}) => FrontWentOut

OutboxInv == IInv /\ SendInv /\ QueueInv /\ SockInv /\ FrontInv

-----------------------------------------------------------------------------
\* The kinds of steps: four of them change the queue, and every other one is quiet.

\* The queue, the wire and "open" stay, and no thread comes closer to WSASend
\* but through PostSendFront's test of _closing.
Quiet ==
    /\ UNCHANGED <<sendQ, wire, accepted>>
    /\ IsOpen' <=> IsOpen
    /\ closing => closing'
    /\ \A t \in Threads : pc'[t] = "wsaSend" =>
            pc[t] = "wsaSend" \/ (pc[t] = "postFront" /\ ~closing)
    /\ \A t \in Threads : pc'[t] = "postFront" => pc[t] = "postFront"
    /\ ~closing' /\ sending /\ FrontWentOut => sending'
    /\ InFlight("SEND")' > 0 \/ Completing' # {} => InFlight("SEND") > 0 \/ Completing # {}

Push(t) == PushSend(t) /\ ~QueueFull

\* IsOpen and FrontWentOut are Booleans and the counts are numbers.
LEMMA OutboxTypes ==
    ASSUME OutboxInv
    PROVE  /\ pc \in [Threads -> Labels] /\ op \in [Threads -> IOType]
           /\ InFlight("SEND") \in Nat /\ InFlight("RECV") \in Nat
           /\ sendQ \in Seq(Nat) /\ wire \in Seq(Nat) /\ accepted \in Nat
           /\ sending \in BOOLEAN /\ closing \in BOOLEAN /\ sock \in BOOLEAN
           /\ IsOpen \in BOOLEAN /\ FrontWentOut \in BOOLEAN
BY RefCountTypes DEF OutboxInv, IInv, TypeOK, IsOpen, FrontWentOut

\* A thread that moves outside Close's two steps leaves the outbox as open as it was.
LEMMA OpenFrame ==
    ASSUME pc \in [Threads -> Labels], NEW t \in Threads, NEW l \in Labels, Goto(t, l),
           UNCHANGED closing, pc[t] \notin {"closeSocket", "clearQueue"},
           l \notin {"closeSocket", "clearQueue"}
    PROVE  IsOpen' <=> IsOpen
<1>1. pc' = [pc EXCEPT ![t] = l]
  BY DEF Goto
<1>2. \A u \in Threads : pc'[u] \in {"closeSocket", "clearQueue"}
                            <=> pc[u] \in {"closeSocket", "clearQueue"}
  BY <1>1
<1> QED
  BY <1>2 DEF IsOpen

\* A move between labels that leaves queue and wire alone is quiet.
LEMMA QuietMove ==
    ASSUME OutboxInv, NEW t \in Threads, NEW l \in Labels, Goto(t, l),
           UNCHANGED <<sendQ, wire, accepted, closing>>,
           pc[t] \notin {"closeSocket", "clearQueue"},
           l \notin {"closeSocket", "clearQueue", "sent", "postFront"},
           l = "wsaSend" => pc[t] = "postFront" /\ ~closing,
           ~closing /\ sending /\ FrontWentOut => sending',
           InFlight("SEND")' <= InFlight("SEND"), InFlight("SEND")' \in Int
    PROVE  Quiet
<1>1. pc' = [pc EXCEPT ![t] = l] /\ pc \in [Threads -> Labels] /\ InFlight("SEND") \in Nat
  BY OutboxTypes DEF Goto
<1>2. IsOpen' <=> IsOpen
  BY <1>1, OpenFrame
<1>3. /\ \A u \in Threads : pc'[u] = "wsaSend" =>
            pc[u] = "wsaSend" \/ (pc[u] = "postFront" /\ ~closing)
      /\ \A u \in Threads : pc'[u] = "postFront" => pc[u] = "postFront"
  BY <1>1
<1>4. Completing' \subseteq Completing
  BY <1>1 DEF Completing, Threads
<1>5. InFlight("SEND")' > 0 => InFlight("SEND") > 0
  BY <1>1
<1> QED
  BY <1>2, <1>3, <1>4, <1>5 DEF Quiet

LEMMA StepKinds ==
    ASSUME OutboxInv, [Next]_vars
    PROVE  \/ Quiet
           \/ \E t \in Threads : Push(t) \/ WsaSendOk(t) \/ ClearQueue(t)
           \/ \E w \in Workers : OnSendComplete(w)
<1> DEFINE Kinds == \/ Quiet
                    \/ \E t \in Threads : Push(t) \/ WsaSendOk(t) \/ ClearQueue(t)
                    \/ \E w \in Workers : OnSendComplete(w)
<1> SUFFICES Kinds
  OBVIOUS
<1>l. Labels = {"associate", "connected", "postRecv", "wsaRecv", "enqueue", "lockQueue",
                "postFront", "wsaSend", "sent", "recvBegin", "parse", "nextPacket", "close",
                "closeSocket", "clearQueue", "clearStream", "notify", "releaseBase",
                "release", "idle", "done", "failed", "undefined"}
  BY DEF Labels, InsideLabels, CloseLabels, FrontLabels, StreamLabels
<1>u. \A t \in Threads : /\ Unwind(t) \in {"idle", "done", "release"}
                        /\ AfterSend(t) \in {"idle", "done", "release", "nextPacket"}
  BY DEF Unwind, AfterSend
<1>w. Accept \in Threads /\ Loop \in Threads /\ Workers \subseteq Threads
  BY DEF Threads
<1>v. \A l \in Labels : \A t \in Threads :
        /\ Goto(t, l) /\ UNCHANGED <<kernel, outgoing, closing>>
        /\ pc[t] \notin {"closeSocket", "clearQueue"}
        /\ l \notin {"closeSocket", "clearQueue", "sent", "postFront", "wsaSend"}
        => Quiet
  <2> SUFFICES ASSUME NEW l \in Labels, NEW t \in Threads,
                      Goto(t, l), UNCHANGED <<kernel, outgoing, closing>>,
                      pc[t] \notin {"closeSocket", "clearQueue"},
                      l \notin {"closeSocket", "clearQueue", "sent", "postFront", "wsaSend"}
               PROVE  Quiet
    OBVIOUS
  <2>1. InFlight("SEND")' = InFlight("SEND") /\ InFlight("SEND") \in Nat
    BY OutboxTypes DEF kernel, InFlight
  <2>2. UNCHANGED <<sendQ, wire, accepted, sending>>
    BY DEF outgoing
  <2> QED
    BY <2>1, <2>2, QuietMove
<1>i. /\ IInv /\ pc \in [Threads -> Labels]
      /\ InFlight("SEND") \in Nat /\ (UNCHANGED kernel => InFlight("SEND")' = InFlight("SEND"))
  BY OutboxTypes DEF OutboxInv, kernel, InFlight
<1> HIDE DEF Kinds
<1>q. Quiet => Kinds
  BY DEF Kinds
<1>1. ASSUME CreateFails PROVE Kinds
  BY <1>1, <1>l, <1>q, <1>u, <1>v, <1>w DEF CreateFails, At
<1>2. ASSUME Register PROVE Kinds
  BY <1>2, <1>l, <1>q, <1>u, <1>v, <1>w DEF Register, At
<1>3. ASSUME OnConnected PROVE Kinds
  BY <1>3, <1>l, <1>q, <1>u, <1>v, <1>w DEF OnConnected, At
<1>4. ASSUME LoopSends PROVE Kinds
  BY <1>4, <1>l, <1>q, <1>u, <1>v, <1>w DEF LoopSends, At
<1>5. ASSUME NEW t \in Threads, PostRecv(t) PROVE Kinds
  BY <1>5, <1>l, <1>q, <1>u, <1>v, <1>w DEF PostRecv, At
<1>6. ASSUME NEW t \in Threads, WsaRecvOk(t) PROVE Kinds
  <2>1. InFlight("SEND")' = InFlight("SEND")
    BY <1>6, <1>i, InFlightOthers DEF WsaRecvOk, IInv, IOType
  <2>2. UNCHANGED <<sendQ, wire, accepted, sending, closing>>
    BY <1>6 DEF WsaRecvOk, outgoing
  <2> QED
    BY <1>6, <2>1, <2>2, <1>i, <1>l, <1>q, <1>u, QuietMove DEF WsaRecvOk, At
<1>7. ASSUME NEW t \in Threads, WsaRecvFails(t) PROVE Kinds
  BY <1>7, <1>l, <1>q, <1>u, <1>v, <1>w DEF WsaRecvFails, At
<1>8. ASSUME NEW t \in Threads, EnqueueSend(t) PROVE Kinds
  BY <1>8, <1>l, <1>q, <1>u, <1>v, <1>w DEF EnqueueSend, At
<1>9. ASSUME NEW t \in Threads, PushSend(t) PROVE Kinds
  <2>1. CASE QueueFull
    BY <1>9, <2>1, <1>l, <1>q, <1>v DEF PushSend, At
  <2>2. CASE ~QueueFull
    BY <1>9, <2>2 DEF Kinds, Push
  <2> QED
    BY <2>1, <2>2
<1>10. ASSUME NEW t \in Threads, PostSendFront(t) PROVE Kinds
  <2>1. InFlight("SEND")' = InFlight("SEND") /\ UNCHANGED <<sendQ, wire, accepted, closing>>
    BY <1>10, <1>i DEF PostSendFront
  <2>2. CASE sendQ = <<>> \/ closing
    <3>1. Goto(t, AfterSend(t)) /\ (~closing => ~FrontWentOut)
      BY <1>10, <2>2 DEF PostSendFront, FrontWentOut
    <3> QED
      BY <1>10, <2>1, <3>1, <1>i, <1>l, <1>q, <1>u, QuietMove DEF PostSendFront, At
  <2>3. CASE sendQ # <<>> /\ ~closing
    <3>1. Goto(t, "wsaSend") /\ UNCHANGED sending /\ pc[t] = "postFront"
      BY <1>10, <2>3 DEF PostSendFront, At
    <3> QED
      BY <2>1, <2>3, <3>1, <1>i, <1>l, <1>q, QuietMove
  <2> QED
    BY <2>2, <2>3
<1>11. ASSUME NEW t \in Threads, WsaSendOk(t) PROVE Kinds
  BY <1>11 DEF Kinds
<1>12. ASSUME NEW t \in Threads, WsaSendFails(t) PROVE Kinds
  <2>1. InFlight("SEND")' = InFlight("SEND") /\ UNCHANGED <<sendQ, wire, accepted, closing>>
    BY <1>12, <1>i DEF WsaSendFails
  <2>2. Goto(t, "close") /\ pc[t] = "wsaSend" /\ ~FrontWentOut
    BY <1>12 DEF WsaSendFails, At, OutboxInv, FrontInv
  <2> QED
    BY <2>1, <2>2, <1>i, <1>l, <1>q, QuietMove
<1>13. ASSUME NEW t \in Threads, Close(t) PROVE Kinds
  <2>1. CASE closing
    <3>1. UNCHANGED closing
      BY <1>13, <2>1, OutboxTypes DEF Close
    <3> QED
      BY <1>13, <2>1, <3>1, <1>l, <1>q, <1>u, <1>v DEF Close, At
  <2>2. CASE ~closing
    <3>1. Goto(t, "closeSocket") /\ closing' /\ pc[t] = "close"
      BY <1>13, <2>2 DEF Close, At
    <3>2. IsOpen /\ IsOpen'
      BY <2>2, <3>1, <1>i DEF IsOpen, Goto
    <3>3. UNCHANGED <<sendQ, wire, accepted, sending, kernel>>
      BY <1>13 DEF Close, outgoing
    <3>4. \A u \in Threads : u # t => pc'[u] = pc[u]
      BY <3>1, <1>i DEF Goto
    <3>5. pc'[t] = "closeSocket"
      BY <3>1, <1>i DEF Goto
    <3>6. Completing' \subseteq Completing
      BY <3>4, <3>5, <1>w DEF Completing
    <3> QED
      BY <3>1, <3>2, <3>3, <3>4, <3>5, <3>6, <1>i, <1>q DEF Quiet
  <2> QED
    BY <2>1, <2>2
<1>14. ASSUME NEW t \in Threads, CloseSocket(t) PROVE Kinds
  <2>1. Goto(t, "clearQueue") /\ pc[t] = "closeSocket"
    BY <1>14 DEF CloseSocket, At
  <2>2. IsOpen /\ IsOpen'
    BY <2>1, <1>i DEF IsOpen, Goto
  <2>3. UNCHANGED <<sendQ, wire, accepted, sending, kernel, closing>>
    BY <1>14 DEF CloseSocket, outgoing
  <2>4. \A u \in Threads : u # t => pc'[u] = pc[u]
    BY <2>1, <1>i DEF Goto
  <2>5. pc'[t] = "clearQueue"
    BY <2>1, <1>i DEF Goto
  <2>6. Completing' \subseteq Completing
    BY <2>4, <2>5, <1>w DEF Completing
  <2> QED
    BY <2>2, <2>3, <2>4, <2>5, <2>6, <1>i, <1>q DEF Quiet
<1>15. ASSUME NEW t \in Threads, ClearQueue(t) PROVE Kinds
  BY <1>15 DEF Kinds
<1>16. ASSUME NEW t \in Threads, ClearStream(t) PROVE Kinds
  BY <1>16, <1>l, <1>q, <1>u, <1>v, <1>w DEF ClearStream, At
<1>17. ASSUME NEW t \in Threads, NotifyDisconnected(t) PROVE Kinds
  BY <1>17, <1>l, <1>q, <1>u, <1>v, <1>w DEF NotifyDisconnected, At
<1>18. ASSUME NEW t \in Threads, ReleaseBase(t) PROVE Kinds
  BY <1>18, <1>l, <1>q, <1>u, <1>v, <1>w DEF ReleaseBase, At
<1>19. ASSUME NEW t \in Threads, UseAfterFree(t) PROVE Kinds
  <2>1. pc[t] \notin CloseLabels
    BY <1>19, <1>i, DeletedUnheld DEF IInv, UseAfterFree, InsideLabels, CloseLabels, FrontLabels,
       StreamLabels
  <2> QED
    BY <1>19, <2>1, <1>l, <1>q, <1>v DEF UseAfterFree, CloseLabels
<1>20. ASSUME NEW w \in Workers, OnSendComplete(w) PROVE Kinds
  BY <1>20 DEF Kinds
<1>21. ASSUME NEW w \in Workers, OnRecvComplete(w) PROVE Kinds
  BY <1>21, <1>l, <1>q, <1>u, <1>v, <1>w DEF OnRecvComplete, At
<1>22. ASSUME NEW w \in Workers, ParsePacket(w) PROVE Kinds
  BY <1>22, <1>l, <1>q, <1>u, <1>v, <1>w DEF ParsePacket, At
<1>23. ASSUME NEW w \in Workers, NextPacket(w) PROVE Kinds
  BY <1>23, <1>l, <1>q, <1>u, <1>v, <1>w DEF NextPacket, At
<1>24. ASSUME NEW w \in Workers, ReleaseIo(w) PROVE Kinds
  BY <1>24, <1>l, <1>q, <1>u, <1>v, <1>w DEF ReleaseIo, At
<1>25. ASSUME NEW w \in Workers, NEW ty \in IOType, DequeueOk(w, ty) PROVE Kinds
  <2>1. CASE ty = "RECV"
    <3>1. InFlight("SEND")' = InFlight("SEND")
      BY <1>25, <2>1, <1>i, InFlightOthers DEF DequeueOk, IInv, IOType
    <3>2. UNCHANGED <<sendQ, wire, accepted, sending, closing>>
      BY <1>25 DEF DequeueOk, outgoing
    <3>3. Goto(w, "recvBegin") /\ pc[w] = "idle"
      BY <1>25, <2>1 DEF DequeueOk
    <3> QED
      BY <3>1, <3>2, <3>3, <1>i, <1>l, <1>q, <1>w, QuietMove
  <2>2. CASE ty = "SEND"
    <3>1. InFlight("SEND") > 0
      BY <1>25, <2>2, <1>i DEF DequeueOk, InFlight, IInv, TypeOK, IOType
    <3>2. UNCHANGED <<sendQ, wire, accepted, sending, closing>>
      BY <1>25 DEF DequeueOk, outgoing
    <3>3. Goto(w, "sent") /\ pc[w] = "idle"
      BY <1>25, <2>2 DEF DequeueOk
    <3>4. IsOpen' <=> IsOpen
      BY <3>2, <3>3, <1>i, <1>l, <1>w, OpenFrame
    <3>5. \A u \in Threads : pc'[u] \in {"wsaSend", "postFront"} => pc'[u] = pc[u]
      BY <3>3, <1>i, <1>w DEF Goto
    <3> QED
      BY <3>1, <3>2, <3>4, <3>5, <1>q DEF Quiet
  <2> QED
    BY <2>1, <2>2 DEF IOType
<1>26. ASSUME NEW w \in Workers, NEW ty \in IOType, DequeueErr(w, ty) PROVE Kinds
  <2>1. InFlight("SEND")' <= InFlight("SEND") /\ InFlight("SEND")' \in Int
    <3>1. CASE ty = "RECV"
      <4>1. InFlight("SEND")' = InFlight("SEND")
        BY <1>26, <3>1, <1>i, InFlightOthers DEF DequeueErr, IInv, IOType
      <4> QED
        BY <4>1, <1>i
    <3>2. CASE ty = "SEND"
      <4>1. InFlight("SEND")' = InFlight("SEND") - 1
        BY <1>26, <3>2, <1>i, InFlightMoves DEF DequeueErr, IInv
      <4> QED
        BY <4>1, <1>i
    <3> QED
      BY <3>1, <3>2 DEF IOType
  <2>2. UNCHANGED <<sendQ, wire, accepted, sending, closing>>
    BY <1>26 DEF DequeueErr, outgoing
  <2>3. Goto(w, "close") /\ pc[w] = "idle"
    BY <1>26 DEF DequeueErr
  <2> QED
    BY <2>1, <2>2, <2>3, <1>i, <1>l, <1>q, <1>w, QuietMove
<1>27. ASSUME NEW ty \in IOType, CompleteOk(ty) PROVE Kinds
  <2>1. InFlight("SEND")' = InFlight("SEND")
    BY <1>27, <1>i, InFlightMoves, InFlightOthers DEF IInv, IOType
  <2>2. UNCHANGED <<sendQ, wire, accepted, sending, closing, pc>>
    BY <1>27 DEF CompleteOk, outgoing
  <2>3. IsOpen' <=> IsOpen
    BY <2>2 DEF IsOpen
  <2> QED
    BY <2>1, <2>2, <2>3, <1>q DEF Quiet, Completing
<1>28. ASSUME NEW ty \in IOType, CompleteErr(ty) PROVE Kinds
  <2>1. InFlight("SEND")' = InFlight("SEND")
    BY <1>28, <1>i, InFlightMoves, InFlightOthers DEF IInv, IOType
  <2>2. UNCHANGED <<sendQ, wire, accepted, sending, closing, pc>>
    BY <1>28 DEF CompleteErr, outgoing
  <2>3. IsOpen' <=> IsOpen
    BY <2>2 DEF IsOpen
  <2> QED
    BY <2>1, <2>2, <2>3, <1>q DEF Quiet, Completing
<1>29. CASE UNCHANGED vars
  <2>1. UNCHANGED <<sendQ, wire, accepted, sending, closing, pc, kernel>>
    BY <1>29 DEF vars, outgoing
  <2>2. IsOpen' <=> IsOpen
    BY <2>1 DEF IsOpen
  <2> QED
    BY <2>1, <2>2, <1>i, <1>q DEF Quiet, Completing
<1> QED
  BY <1>1, <1>2, <1>3, <1>4, <1>5, <1>6, <1>7, <1>8, <1>9, <1>10, <1>11, <1>12, <1>13, <1>14,
     <1>15, <1>16, <1>17, <1>18, <1>19, <1>20, <1>21, <1>22, <1>23, <1>24, <1>25, <1>26, <1>27, <1>28, <1>29
     DEF Next, Inside, Dispatch, Dequeue, Finished

-----------------------------------------------------------------------------
\* Facts about the queue's two ends.

\* A message pushed to a queue stays behind its front.
LEMMA PushEnds ==
    ASSUME NEW q \in Seq(Nat), NEW n \in Nat
    PROVE  /\ Append(q, n) \in Seq(Nat) /\ Append(q, n) # <<>>
           /\ Len(Append(q, n)) = Len(q) + 1
           /\ \A i \in 1..Len(q) : Append(q, n)[i] = q[i]
           /\ Append(q, n)[Len(q) + 1] = n
           /\ q = <<>> => Head(Append(q, n)) = n /\ Append(q, n) = <<n>>
           /\ q # <<>> => /\ Head(Append(q, n)) = Head(q)
                          /\ Tail(Append(q, n)) = Append(Tail(q), n)
<1>1. /\ Append(q, n) \in Seq(Nat) /\ Append(q, n) # <<>>
      /\ Len(Append(q, n)) = Len(q) + 1
      /\ \A i \in 1..Len(q) : Append(q, n)[i] = q[i]
      /\ Append(q, n)[Len(q) + 1] = n
  OBVIOUS
<1>2. q = <<>> => Head(Append(q, n)) = n /\ Append(q, n) = <<n>>
  OBVIOUS
<1>3. ASSUME q # <<>>
      PROVE  Head(Append(q, n)) = Head(q) /\ Tail(Append(q, n)) = Append(Tail(q), n)
  <2>1. Len(q) \in Nat \ {0} /\ Head(q) = q[1]
    BY <1>3
  <2>2. Head(Append(q, n)) = Head(q)
    BY <1>1, <2>1
  <2>3. Tail(Append(q, n)) = Append(Tail(q), n)
    BY <1>3
  <2> QED
    BY <2>2, <2>3
<1> QED
  BY <1>1, <1>2, <1>3

\* Popping the front brings the messages behind it one place forward.
LEMMA PopEnds ==
    ASSUME NEW q \in Seq(Nat), q # <<>>
    PROVE  /\ Tail(q) \in Seq(Nat) /\ Len(Tail(q)) = Len(q) - 1 /\ Len(q) \in Nat \ {0}
           /\ \A i \in 1..Len(Tail(q)) : Tail(q)[i] = q[i + 1]
           /\ Head(q) = q[1] /\ Head(q) \in Nat
           /\ Tail(q) # <<>> => Head(Tail(q)) = q[2] /\ Len(q) >= 2
OBVIOUS

\* With the queue numbered in order, its front is the oldest message in it.
LEMMA FrontNumber ==
    ASSUME OutboxInv, sendQ # <<>>
    PROVE  Head(sendQ) = accepted - Len(sendQ) + 1 /\ Len(sendQ) \in Nat \ {0}
<1>1. Len(sendQ) \in Nat \ {0} /\ Head(sendQ) = sendQ[1]
  BY OutboxTypes, PopEnds
<1> QED
  BY <1>1 DEF OutboxInv, QueueInv

\* While a thread holds _sendLock in PostSendFront_NoLock no other touches the queue.
LEMMA LockedOut ==
    ASSUME OutboxInv, sendLock = NoOne
    PROVE  \A t \in Threads : pc[t] \notin FrontLabels
BY ThreadsAssumption DEF OutboxInv, IInv, LockInv

\* A thread between the lock and WSASend has it alone.
LEMMA LockedAlone ==
    ASSUME OutboxInv, NEW t \in Threads, pc[t] \in FrontLabels
    PROVE  \A u \in Threads : pc[u] \in FrontLabels => u = t
BY DEF OutboxInv, IInv, LockInv

\* What each thread that posts or completes a send counts for.
LEMMA SendsCounted ==
    ASSUME OutboxInv
    PROVE  /\ \A t \in Threads : pc[t] = "wsaSend" =>
                  /\ InFlight("SEND") = 0 /\ Completing = {}
                  /\ ~closing => sending
           /\ \A t \in Threads : pc[t] = "postFront" /\ ~closing => sending
           /\ \A w \in Workers : pc[w] = "sent" =>
                  InFlight("SEND") = 0 /\ Completing = {w}
<1>1. /\ IsFiniteSet(Completing) /\ IsFiniteSet(Handing) /\ IsFiniteSet(PostFronts)
      /\ Cardinality(Completing) \in Nat /\ Cardinality(Handing) \in Nat
      /\ Cardinality(PostFronts) \in Nat /\ InFlight("SEND") \in Nat
  BY ThreadsAssumption, ThreadsFinite, FS_Subset, FS_CardinalityType, OutboxTypes
     DEF Completing, Handing, PostFronts
<1>2. /\ InFlight("SEND") + Cardinality(Completing) + Cardinality(Handing) <= 1
      /\ ~closing => InFlight("SEND") + Cardinality(Completing) + Cardinality(Handing)
                       + Cardinality(PostFronts) <= IF sending THEN 1 ELSE 0
  BY DEF OutboxInv, SendInv, SendsOutstanding
<1>3. ASSUME NEW t \in Threads, pc[t] = "wsaSend"
      PROVE  InFlight("SEND") = 0 /\ Completing = {} /\ (~closing => sending)
  <2>1. Handing # {}
    BY <1>3 DEF Handing
  <2>2. Cardinality(Handing) >= 1
    BY <2>1, <1>1, FS_EmptySet
  <2>3. InFlight("SEND") = 0 /\ Cardinality(Completing) = 0
    BY <1>1, <1>2, <2>2
  <2>4. ~closing => sending
    BY <1>1, <1>2, <2>2
  <2> QED
    BY <1>1, <2>3, <2>4, FS_EmptySet
<1>4. ASSUME NEW t \in Threads, pc[t] = "postFront", ~closing PROVE sending
  <2>1. PostFronts # {}
    BY <1>4 DEF PostFronts
  <2>2. Cardinality(PostFronts) >= 1
    BY <2>1, <1>1, FS_EmptySet
  <2> QED
    BY <1>1, <1>2, <1>4, <2>2
<1>5. ASSUME NEW w \in Workers, pc[w] = "sent"
      PROVE  InFlight("SEND") = 0 /\ Completing = {w}
  <2>1. w \in Completing
    BY <1>5 DEF Completing
  <2>2. Cardinality(Completing \ {w}) = Cardinality(Completing) - 1
    BY <2>1, <1>1, FS_RemoveElement
  <2>3. IsFiniteSet(Completing \ {w}) /\ Cardinality(Completing \ {w}) \in Nat
    BY <1>1, FS_Subset, FS_CardinalityType
  <2> DEFINE others == Cardinality(Completing \ {w})
  <2> HIDE DEF others
  <2>a. others \in Nat /\ Cardinality(Completing) = others + 1
    BY <1>1, <2>2, <2>3 DEF others
  <2>b. InFlight("SEND") = 0 /\ others = 0
    BY <1>1, <1>2, <2>a
  <2>4. InFlight("SEND") = 0 /\ Cardinality(Completing \ {w}) = 0
    BY <2>b DEF others
  <2>5. Completing \ {w} = {}
    BY <2>3, <2>4, FS_EmptySet
  <2> QED
    BY <2>1, <2>4, <2>5
<1> QED
  BY <1>3, <1>4, <1>5

-----------------------------------------------------------------------------
\* The invariant is kept.

\* Only closesocket takes a closer past the point where the socket is gone.
LEMMA SockStep == OutboxInv /\ [Next]_vars => SockInv'
<1> SUFFICES ASSUME OutboxInv, [Next]_vars PROVE SockInv'
  OBVIOUS
<1>i. pc \in [Threads -> Labels] /\ SockInv /\ IInv
  BY OutboxTypes DEF OutboxInv
<1>w. Accept \in Threads /\ Loop \in Threads /\ Workers \subseteq Threads
  BY DEF Threads
<1> DEFINE Same == /\ UNCHANGED <<sock, closing>>
                   /\ \A t \in Threads : pc[t] = "closeSocket" => pc'[t] = "closeSocket"
<1>s. Same => SockInv'
  BY <1>i DEF SockInv
<1>1. ASSUME CreateFails PROVE SockInv'
  BY <1>1 DEF CreateFails, SockInv
<1>2. ASSUME Register \/ OnConnected \/ LoopSends PROVE Same
  BY <1>2, <1>i, <1>w DEF Register, OnConnected, LoopSends, At, Goto
<1>3. ASSUME NEW t \in Threads, PostRecv(t) PROVE Same
  BY <1>3, <1>i DEF PostRecv, At, Goto
<1>4. ASSUME NEW t \in Threads, WsaRecvOk(t) PROVE Same
  BY <1>4, <1>i DEF WsaRecvOk, At, Goto
<1>5. ASSUME NEW t \in Threads, WsaRecvFails(t) PROVE Same
  BY <1>5, <1>i DEF WsaRecvFails, At, Goto
<1>6. ASSUME NEW t \in Threads, EnqueueSend(t) PROVE Same
  BY <1>6, <1>i DEF EnqueueSend, At, Goto
<1>7. ASSUME NEW t \in Threads, PushSend(t) PROVE Same
  BY <1>7, <1>i DEF PushSend, At, Goto
<1>8. ASSUME NEW t \in Threads, PostSendFront(t) PROVE Same
  BY <1>8, <1>i DEF PostSendFront, At, Goto
<1>9. ASSUME NEW t \in Threads, WsaSendOk(t) PROVE Same
  BY <1>9, <1>i DEF WsaSendOk, At, Goto
<1>10. ASSUME NEW t \in Threads, WsaSendFails(t) PROVE Same
  BY <1>10, <1>i DEF WsaSendFails, At, Goto
<1>11. ASSUME NEW t \in Threads, ClearQueue(t) PROVE Same
  BY <1>11, <1>i DEF ClearQueue, At, Goto
<1>12. ASSUME NEW t \in Threads, ClearStream(t) PROVE Same
  BY <1>12, <1>i DEF ClearStream, At, Goto
<1>13. ASSUME NEW t \in Threads, NotifyDisconnected(t) PROVE Same
  BY <1>13, <1>i DEF NotifyDisconnected, At, Goto
<1>14. ASSUME NEW t \in Threads, ReleaseBase(t) PROVE Same
  BY <1>14, <1>i DEF ReleaseBase, At, Goto
<1>15. ASSUME NEW t \in Threads, UseAfterFree(t) PROVE Same
  <2>1. pc[t] # "closeSocket"
    BY <1>15, <1>i, DeletedUnheld DEF IInv, UseAfterFree, InsideLabels, CloseLabels, FrontLabels,
       StreamLabels
  <2> QED
    BY <1>15, <2>1, <1>i DEF UseAfterFree, Goto
<1>16. ASSUME NEW t \in Threads, Close(t) PROVE SockInv'
  <2>1. CASE closing
    <3>1. pc[t] = "close" /\ UNCHANGED sock /\ closing'
      BY <1>16 DEF Close, At
    <3>2. \A u \in Threads : pc[u] = "closeSocket" => pc'[u] = "closeSocket"
      BY <1>16, <3>1, <1>i DEF Close, Goto
    <3> QED
      BY <2>1, <3>1, <3>2, <1>i DEF SockInv
  <2>2. CASE ~closing
    <3>1. pc'[t] = "closeSocket"
      BY <1>16, <2>2, <1>i DEF Close, Goto
    <3> QED
      BY <3>1 DEF SockInv
  <2> QED
    BY <2>1, <2>2
<1>17. ASSUME NEW t \in Threads, CloseSocket(t) PROVE SockInv'
  BY <1>17 DEF CloseSocket, SockInv
<1>18. ASSUME NEW w \in Workers, OnSendComplete(w) PROVE Same
  BY <1>18, <1>i, <1>w DEF OnSendComplete, At, Goto
<1>19. ASSUME NEW w \in Workers, OnRecvComplete(w) PROVE Same
  BY <1>19, <1>i, <1>w DEF OnRecvComplete, At, Goto
<1>20. ASSUME NEW w \in Workers, ParsePacket(w) PROVE Same
  BY <1>20, <1>i, <1>w DEF ParsePacket, At, Goto
<1>21. ASSUME NEW w \in Workers, NextPacket(w) PROVE Same
  BY <1>21, <1>i, <1>w DEF NextPacket, At, Goto
<1>22. ASSUME NEW w \in Workers, ReleaseIo(w) PROVE Same
  BY <1>22, <1>i, <1>w DEF ReleaseIo, At, Goto
<1>23. ASSUME NEW w \in Workers, NEW ty \in IOType, Dequeue(w, ty) PROVE Same
  BY <1>23, <1>i, <1>w DEF Dequeue, DequeueOk, DequeueErr, Goto
<1>24. ASSUME NEW ty \in IOType, CompleteOk(ty) \/ CompleteErr(ty) PROVE Same
  BY <1>24 DEF CompleteOk, CompleteErr
<1>25. CASE UNCHANGED vars
  BY <1>25, <1>i DEF vars, SockInv
<1> HIDE DEF Same
<1> QED
  BY <1>s, <1>1, <1>2, <1>3, <1>4, <1>5, <1>6, <1>7, <1>8, <1>9, <1>10, <1>11, <1>12, <1>13,
     <1>14, <1>15, <1>16, <1>17, <1>18, <1>19, <1>20, <1>21, <1>22, <1>23, <1>24, <1>25
     DEF Next, Inside, Dispatch, Finished

\* Quiet steps keep the queue, the wire and who has sent what.
LEMMA QuietStep == OutboxInv /\ Quiet => QueueInv' /\ FrontInv'
<1> SUFFICES ASSUME OutboxInv, Quiet PROVE QueueInv' /\ FrontInv'
  OBVIOUS
<1>1. UNCHANGED <<sendQ, wire, accepted>> /\ (FrontWentOut' <=> FrontWentOut)
  BY DEF Quiet, FrontWentOut
<1>2. QueueInv'
  BY <1>1 DEF OutboxInv, QueueInv
<1>3. \A t \in Threads : pc'[t] = "wsaSend" => ~FrontWentOut'
  BY <1>1 DEF Quiet, OutboxInv, FrontInv
<1>4. \A t \in Threads : pc'[t] = "postFront" /\ ~closing' => ~FrontWentOut'
  BY <1>1 DEF Quiet, OutboxInv, FrontInv
<1>5. ~closing' /\ FrontWentOut' => sending'
  BY <1>1 DEF Quiet, OutboxInv, FrontInv
<1>6. IsOpen' /\ (InFlight("SEND")' > 0 \/ Completing' # {}) => FrontWentOut'
  BY <1>1 DEF Quiet, OutboxInv, FrontInv
<1> QED
  BY <1>2, <1>3, <1>4, <1>5, <1>6 DEF FrontInv

\* What a push does, and that it leaves the front's state as it was.
LEMMA PushEffect ==
    ASSUME OutboxInv, NEW t \in Threads, Push(t)
    PROVE  /\ sendQ' = Append(sendQ, accepted + 1) /\ accepted' = accepted + 1
           /\ sending' = TRUE
           /\ UNCHANGED <<wire, closing>> /\ InFlight("SEND")' = InFlight("SEND")
           /\ FrontWentOut' <=> FrontWentOut
           /\ IsOpen' <=> IsOpen
           /\ Completing' = Completing
           /\ \A u \in Threads : pc'[u] # "wsaSend"
           /\ \A u \in Threads : pc'[u] = "postFront" => ~sending
<1>1. /\ sendQ' = Append(sendQ, accepted + 1) /\ accepted' = accepted + 1
      /\ sending' = TRUE /\ UNCHANGED <<wire, closing, kernel>>
      /\ pc[t] = "lockQueue" /\ sendLock = NoOne
  BY DEF Push, PushSend, At
<1>2. InFlight("SEND")' = InFlight("SEND")
  BY <1>1 DEF kernel, InFlight
<1>3. FrontWentOut' <=> FrontWentOut
  <2>0. sendQ \in Seq(Nat) /\ accepted + 1 \in Nat /\ wire \in Seq(Nat) /\ accepted \in Nat
    BY OutboxTypes
  <2>1. CASE sendQ # <<>>
    BY <2>0, <2>1, <1>1, PushEnds DEF FrontWentOut
  <2>2. CASE sendQ = <<>>
    <3>1. Head(sendQ') = accepted + 1 /\ ~FrontWentOut
      BY <2>0, <2>2, <1>1, PushEnds DEF FrontWentOut
    <3>2. wire # <<>> => wire[Len(wire)] <= accepted
      BY DEF OutboxInv, QueueInv
    <3>3. wire # <<>> => wire[Len(wire)] # accepted + 1
      BY <3>2, <2>0
    <3> QED
      BY <3>1, <3>3, <1>1 DEF FrontWentOut
  <2> QED
    BY <2>1, <2>2
<1>l. Labels = {"associate", "connected", "postRecv", "wsaRecv", "enqueue", "lockQueue",
                "postFront", "wsaSend", "sent", "recvBegin", "parse", "nextPacket", "close",
                "closeSocket", "clearQueue", "clearStream", "notify", "releaseBase",
                "release", "idle", "done", "failed", "undefined"}
  BY DEF Labels, InsideLabels, CloseLabels, FrontLabels, StreamLabels
<1>4. PICK l \in {"idle", "done", "release", "nextPacket", "postFront"} :
            Goto(t, l) /\ (l = "postFront" => ~sending)
  <2>1. AfterSend(t) \in {"idle", "done", "release", "nextPacket"}
    BY DEF Unwind, AfterSend
  <2> QED
    BY <2>1 DEF Push, PushSend
<1>5. pc' = [pc EXCEPT ![t] = l] /\ pc \in [Threads -> Labels]
  BY <1>4, OutboxTypes DEF Goto
<1>6. IsOpen' <=> IsOpen
  BY <1>1, <1>4, <1>5, <1>l, OpenFrame
<1>7. Completing' = Completing
  BY <1>1, <1>4, <1>5 DEF Completing, Threads
<1>8. \A u \in Threads : pc'[u] # "wsaSend"
  BY <1>1, <1>4, <1>5, LockedOut DEF FrontLabels
<1>9. \A u \in Threads : pc'[u] = "postFront" => ~sending
  BY <1>1, <1>4, <1>5, LockedOut DEF FrontLabels
<1> QED
  BY <1>1, <1>2, <1>3, <1>6, <1>7, <1>8, <1>9

LEMMA PushStep ==
    ASSUME OutboxInv, NEW t \in Threads, Push(t)
    PROVE  QueueInv' /\ FrontInv'
<1>0. /\ sendQ \in Seq(Nat) /\ wire \in Seq(Nat) /\ accepted \in Nat /\ accepted + 1 \in Nat
  BY OutboxTypes
<1>1. QueueInv'
  <2>1. /\ Len(sendQ') = Len(sendQ) + 1 /\ sendQ'[Len(sendQ) + 1] = accepted + 1
        /\ \A i \in 1..Len(sendQ) : sendQ'[i] = sendQ[i]
        /\ accepted' = accepted + 1 /\ wire' = wire /\ Len(sendQ) \in Nat
    <3>1. /\ sendQ' = Append(sendQ, accepted + 1) /\ accepted' = accepted + 1
          /\ wire' = wire
      BY PushEffect
    <3> QED
      BY <1>0, <3>1, PushEnds
  <2>2. \A i \in 1..Len(sendQ) : sendQ[i] = accepted - Len(sendQ) + i
    BY DEF OutboxInv, QueueInv
  <2>3. \A i \in 1..Len(sendQ') : sendQ'[i] = accepted' - Len(sendQ') + i
    <3> SUFFICES ASSUME NEW i \in 1..(Len(sendQ) + 1)
                 PROVE  sendQ'[i] = (accepted + 1) - (Len(sendQ) + 1) + i
      BY <2>1
    <3>1. CASE i = Len(sendQ) + 1
      BY <3>1, <2>1, <1>0
    <3>2. CASE i \in 1..Len(sendQ)
      <4>1. sendQ'[i] = accepted - Len(sendQ) + i
        BY <3>2, <2>1, <2>2
      <4> QED
        BY <4>1, <1>0, <2>1
    <3> QED
      BY <3>1, <3>2, <2>1
  <2>4. wire # <<>> => wire[Len(wire)] <= accepted
                       /\ wire[Len(wire)] <= accepted - Len(sendQ) + 1
    BY DEF OutboxInv, QueueInv
  <2>5. wire # <<>> => wire[Len(wire)] \in Nat
    BY <1>0
  <2>6. wire' # <<>> => /\ wire'[Len(wire')] <= accepted'
                        /\ wire'[Len(wire')] <= accepted' - Len(sendQ') + 1
    BY <2>1, <2>4, <2>5, <1>0
  <2> QED
    BY <2>3, <2>6 DEF QueueInv
<1>2. FrontInv'
  BY PushEffect DEF OutboxInv, FrontInv
<1> QED
  BY <1>1, <1>2

\* WSASend takes the front, which had not gone out, and only while there is a socket.
LEMMA TransmitEffect ==
    ASSUME OutboxInv, NEW t \in Threads, WsaSendOk(t)
    PROVE  /\ sendQ # <<>> /\ ~FrontWentOut /\ IsOpen
           /\ wire' = Append(wire, Head(sendQ))
           /\ UNCHANGED <<sendQ, accepted, sending, closing>>
           /\ IsOpen' /\ FrontWentOut'
           /\ ~closing => sending
           /\ \A u \in Threads : pc'[u] \notin FrontLabels
<1>1. /\ pc[t] = "wsaSend" /\ sock /\ wire' = Append(wire, Head(sendQ))
      /\ UNCHANGED <<sendQ, accepted, sending, closing>> /\ Goto(t, AfterSend(t))
  BY DEF WsaSendOk, At
<1>2. sendQ # <<>> /\ ~FrontWentOut /\ (~closing => sending)
  BY <1>1, SendsCounted DEF OutboxInv, IInv, LockInv, FrontInv
<1>3. IsOpen
  <2>1. ~closing \/ \E u \in Threads : pc[u] = "closeSocket"
    BY <1>1 DEF OutboxInv, SockInv
  <2> QED
    BY <2>1 DEF IsOpen
<1>4. AfterSend(t) \in {"idle", "done", "release", "nextPacket"}
  BY DEF Unwind, AfterSend
<1>5. /\ pc \in [Threads -> Labels] /\ pc' = [pc EXCEPT ![t] = AfterSend(t)]
      /\ AfterSend(t) \in Labels
  BY <1>1, <1>4, OutboxTypes DEF Goto, Labels, InsideLabels, StreamLabels
<1>6. IsOpen'
  BY <1>1, <1>3, <1>4, <1>5, OpenFrame
<1>7. FrontWentOut'
  <2>1. wire \in Seq(Nat) /\ Head(sendQ) \in Nat
    BY <1>2, OutboxTypes, PopEnds
  <2>2. wire' # <<>> /\ wire'[Len(wire')] = Head(sendQ)
    BY <1>1, <2>1, PushEnds
  <2> QED
    BY <1>1, <1>2, <2>2 DEF FrontWentOut
<1>8. \A u \in Threads : pc'[u] \notin FrontLabels
  BY <1>1, <1>4, <1>5, LockedAlone DEF FrontLabels
<1> QED
  BY <1>1, <1>2, <1>3, <1>6, <1>7, <1>8

LEMMA TransmitStep ==
    ASSUME OutboxInv, NEW t \in Threads, WsaSendOk(t)
    PROVE  QueueInv' /\ FrontInv'
<1>0. wire \in Seq(Nat) /\ sendQ \in Seq(Nat) /\ accepted \in Nat
  BY OutboxTypes
<1>1. /\ sendQ # <<>> /\ UNCHANGED <<sendQ, accepted, sending, closing>>
      /\ wire' = Append(wire, Head(sendQ)) /\ FrontWentOut'
      /\ ~closing => sending
      /\ \A u \in Threads : pc'[u] \notin FrontLabels
  BY TransmitEffect
<1>2. QueueInv'
  <2>1. Head(sendQ) = accepted - Len(sendQ) + 1 /\ Len(sendQ) \in Nat \ {0}
    BY <1>1, FrontNumber
  <2>2. wire'[Len(wire')] = Head(sendQ)
    BY <1>1, <1>0, PushEnds, PopEnds
  <2>3. /\ wire'[Len(wire')] <= accepted' - Len(sendQ') + 1
        /\ wire'[Len(wire')] <= accepted'
    BY <1>0, <1>1, <2>1, <2>2
  <2> QED
    BY <1>1, <2>3 DEF OutboxInv, QueueInv
<1>3. FrontInv'
  BY <1>1 DEF FrontInv, FrontLabels
<1> QED
  BY <1>2, <1>3

\* OnSendComplete pops the message that went out; the next one has not.
LEMMA PopEffect ==
    ASSUME OutboxInv, NEW w \in Workers, OnSendComplete(w)
    PROVE  /\ sendQ' = (IF sendQ = <<>> THEN sendQ ELSE Tail(sendQ))
           /\ UNCHANGED <<wire, accepted, closing>>
           /\ IsOpen => sendQ # <<>> /\ FrontWentOut
           /\ IsOpen' <=> IsOpen
           /\ ~FrontWentOut'
           /\ InFlight("SEND")' = 0 /\ Completing' = {}
<1>0. wire \in Seq(Nat) /\ sendQ \in Seq(Nat) /\ accepted \in Nat
  BY OutboxTypes
<1>1. /\ sendQ' = (IF sendQ = <<>> THEN sendQ ELSE Tail(sendQ))
      /\ UNCHANGED <<wire, accepted, closing, kernel>>
      /\ pc[w] = "sent" /\ sendLock = NoOne /\ w \in Threads
  BY DEF OnSendComplete, At, Threads
<1>2. InFlight("SEND") = 0 /\ Completing = {w}
  BY <1>1, SendsCounted
<1>3. IsOpen => sendQ # <<>> /\ FrontWentOut
  BY <1>2 DEF OutboxInv, FrontInv, FrontWentOut
<1>4. PICK l \in {"release", "postFront"} : Goto(w, l)
  BY DEF OnSendComplete
<1>5. /\ pc \in [Threads -> Labels] /\ pc' = [pc EXCEPT ![w] = l]
      /\ l \in Labels
  BY <1>4, OutboxTypes DEF Goto, Labels, InsideLabels, FrontLabels
<1>6. IsOpen' <=> IsOpen
  BY <1>1, <1>4, <1>5, OpenFrame
<1>7. InFlight("SEND")' = 0
  BY <1>1, <1>2 DEF kernel, InFlight
<1>8. Completing' = {}
  <2>1. \A v \in Workers : pc[v] = "sent" => v = w
    BY <1>2 DEF Completing
  <2>2. \A v \in Workers : pc'[v] # "sent"
    BY <1>1, <1>4, <1>5, <2>1 DEF Threads
  <2> QED
    BY <2>2 DEF Completing
<1>9. ~FrontWentOut'
  <2> SUFFICES ASSUME sendQ' # <<>>, wire # <<>> PROVE wire[Len(wire)] # Head(sendQ')
    BY <1>1 DEF FrontWentOut
  <2>1. sendQ # <<>> /\ sendQ' = Tail(sendQ)
    BY <1>1
  <2>2. Head(sendQ') = sendQ[2] /\ Len(sendQ) >= 2 /\ Len(sendQ) \in Nat
    BY <2>1, <1>0, PopEnds
  <2>3. sendQ[2] = accepted - Len(sendQ) + 2
    BY <2>2 DEF OutboxInv, QueueInv
  <2>4. wire[Len(wire)] <= accepted - Len(sendQ) + 1 /\ wire[Len(wire)] \in Nat
    BY <1>0 DEF OutboxInv, QueueInv
  <2> QED
    BY <1>0, <2>2, <2>3, <2>4
<1> QED
  BY <1>1, <1>3, <1>6, <1>7, <1>8, <1>9

LEMMA PopStep ==
    ASSUME OutboxInv, NEW w \in Workers, OnSendComplete(w)
    PROVE  QueueInv' /\ FrontInv'
<1>0. wire \in Seq(Nat) /\ sendQ \in Seq(Nat) /\ accepted \in Nat
  BY OutboxTypes
<1>1. /\ sendQ' = (IF sendQ = <<>> THEN sendQ ELSE Tail(sendQ))
      /\ UNCHANGED <<wire, accepted>> /\ ~FrontWentOut'
      /\ InFlight("SEND")' = 0 /\ Completing' = {}
  BY PopEffect
<1>2. QueueInv'
  <2>1. CASE sendQ = <<>>
    BY <2>1, <1>1 DEF OutboxInv, QueueInv
  <2>2. CASE sendQ # <<>>
    <3>1. /\ Len(sendQ') = Len(sendQ) - 1 /\ Len(sendQ) \in Nat \ {0}
          /\ \A i \in 1..Len(sendQ') : sendQ'[i] = sendQ[i + 1]
      BY <2>2, <1>0, <1>1, PopEnds
    <3>2. \A i \in 1..Len(sendQ) : sendQ[i] = accepted - Len(sendQ) + i
      BY DEF OutboxInv, QueueInv
    <3>3. \A i \in 1..Len(sendQ') : sendQ'[i] = accepted - Len(sendQ') + i
      <4> SUFFICES ASSUME NEW i \in 1..(Len(sendQ) - 1)
                   PROVE  sendQ'[i] = accepted - (Len(sendQ) - 1) + i
        BY <3>1
      <4>1. i + 1 \in 1..Len(sendQ)
        BY <3>1
      <4>2. sendQ'[i] = accepted - Len(sendQ) + (i + 1)
        BY <3>1, <3>2, <4>1
      <4> QED
        BY <4>2, <3>1, <1>0
    <3>4. wire # <<>> => /\ wire[Len(wire)] <= accepted - Len(sendQ) + 1
                         /\ wire[Len(wire)] <= accepted /\ wire[Len(wire)] \in Nat
      BY <1>0 DEF OutboxInv, QueueInv
    <3>5. wire # <<>> => wire[Len(wire)] <= accepted - Len(sendQ') + 1
      BY <3>1, <3>4, <1>0
    <3> QED
      BY <3>3, <3>4, <3>5, <1>1 DEF QueueInv
  <2> QED
    BY <2>1, <2>2
<1>3. FrontInv'
  BY <1>1, OutboxTypes DEF FrontInv
<1> QED
  BY <1>2, <1>3

\* Close empties the queue, and from then on the session is no outbox.
LEMMA ClearEffect ==
    ASSUME OutboxInv, NEW t \in Threads, ClearQueue(t)
    PROVE  /\ sendQ' = <<>> /\ UNCHANGED <<wire, accepted, closing>> /\ closing
           /\ IsOpen /\ ~IsOpen' /\ ~FrontWentOut'
<1>1. /\ sendQ' = <<>> /\ UNCHANGED <<wire, accepted, closing>>
      /\ pc[t] = "clearQueue" /\ Goto(t, "clearStream")
  BY DEF ClearQueue, At
<1>2. closing /\ \A u \in Threads : pc[u] \in CloseLabels => u = t
  BY <1>1 DEF OutboxInv, IInv, CloserInv, CloseLabels
<1>3. pc \in [Threads -> Labels] /\ pc' = [pc EXCEPT ![t] = "clearStream"]
  BY <1>1, OutboxTypes DEF Goto
<1>4. \A u \in Threads : pc'[u] \notin {"closeSocket", "clearQueue"}
  BY <1>2, <1>3 DEF CloseLabels
<1> QED
  BY <1>1, <1>2, <1>4 DEF IsOpen, FrontWentOut

LEMMA ClearStep ==
    ASSUME OutboxInv, NEW t \in Threads, ClearQueue(t)
    PROVE  QueueInv' /\ FrontInv'
<1>0. wire \in Seq(Nat) /\ accepted \in Nat
  BY OutboxTypes
<1>1. sendQ' = <<>> /\ UNCHANGED <<wire, accepted, closing>> /\ ~IsOpen' /\ ~FrontWentOut'
  BY ClearEffect
<1>2. QueueInv'
  <2>1. Len(sendQ') = 0
    BY <1>1
  <2>2. wire # <<>> => wire[Len(wire)] <= accepted /\ wire[Len(wire)] \in Nat
    BY <1>0 DEF OutboxInv, QueueInv
  <2>3. wire # <<>> => wire[Len(wire)] <= accepted - 0 + 1
    BY <2>2, <1>0
  <2> QED
    BY <1>1, <2>1, <2>2, <2>3 DEF QueueInv
<1>3. FrontInv'
  BY <1>1 DEF FrontInv
<1> QED
  BY <1>2, <1>3

LEMMA OutboxStep == OutboxInv /\ [Next]_vars => OutboxInv'
<1> SUFFICES ASSUME OutboxInv, [Next]_vars PROVE OutboxInv'
  OBVIOUS
<1>1. IInv' /\ SendInv' /\ SockInv'
  BY NextIInv, SendStep, SockStep DEF OutboxInv
<1>2. QueueInv' /\ FrontInv'
  BY StepKinds, QuietStep, PushStep, TransmitStep, PopStep, ClearStep
<1> QED
  BY <1>1, <1>2 DEF OutboxInv

-----------------------------------------------------------------------------
\* The mapping: each step of the session is a step of the Outbox or a stutter.
LEMMA RefinementStep ==
    OutboxInv /\ [Next]_vars => [OutboxView!Next]_(OutboxView!outboxVars)
<1> SUFFICES ASSUME OutboxInv, [Next]_vars
             PROVE  [OutboxView!Next]_(OutboxView!outboxVars)
  OBVIOUS
<1>0. /\ wire \in Seq(Nat) /\ sendQ \in Seq(Nat) /\ accepted \in Nat /\ accepted + 1 \in Nat
      /\ IsOpen \in BOOLEAN /\ FrontWentOut \in BOOLEAN
  BY OutboxTypes
<1>1. ASSUME Quiet PROVE UNCHANGED OutboxView!outboxVars
  <2>1. UNCHANGED <<sendQ, wire>> /\ (IsOpen' <=> IsOpen) /\ (FrontWentOut' <=> FrontWentOut)
    BY <1>1 DEF Quiet, FrontWentOut
  <2>2. Unsent' = Unsent
    BY <2>1 DEF Unsent
  <2>3. IsOpen' = IsOpen
    BY <2>1 DEF IsOpen
  <2> QED
    BY <2>1, <2>2, <2>3 DEF OutboxView!outboxVars
<1>2. ASSUME NEW t \in Threads, Push(t)
      PROVE  OutboxView!Put \/ UNCHANGED OutboxView!outboxVars
  <2>1. /\ sendQ' = Append(sendQ, accepted + 1) /\ wire' = wire
        /\ (FrontWentOut' <=> FrontWentOut) /\ (IsOpen' <=> IsOpen)
    BY <1>2, PushEffect
  <2>2. IsOpen' = IsOpen
    BY <2>1 DEF IsOpen
  <2>3. CASE ~IsOpen
    BY <2>1, <2>2, <2>3 DEF Unsent, OutboxView!outboxVars
  <2>4. CASE IsOpen
    <3>1. Unsent \in Seq(Nat) /\ Unsent' = Append(Unsent, accepted + 1)
      <4>1. CASE FrontWentOut
        <5>1. sendQ # <<>>
          BY <4>1 DEF FrontWentOut
        <5>2. Unsent = Tail(sendQ) /\ Unsent' = Tail(Append(sendQ, accepted + 1))
          BY <2>1, <2>4, <4>1 DEF Unsent
        <5> QED
          BY <5>1, <5>2, <1>0, PushEnds, PopEnds
      <4>2. CASE ~FrontWentOut
        BY <2>1, <2>4, <4>2, <1>0 DEF Unsent
      <4> QED
        BY <4>1, <4>2
    <3>2. Unsent' # <<>> /\ Unsent'[Len(Unsent')] = accepted + 1
      BY <3>1, <1>0, PushEnds
    <3> QED
      BY <2>1, <2>2, <2>4, <3>1, <3>2, <1>0 DEF OutboxView!Put
  <2> QED
    BY <2>3, <2>4
<1>3. ASSUME NEW t \in Threads, WsaSendOk(t) PROVE OutboxView!Transmit
  <2>1. /\ sendQ # <<>> /\ ~FrontWentOut /\ IsOpen /\ sendQ' = sendQ
        /\ wire' = Append(wire, Head(sendQ)) /\ IsOpen' /\ FrontWentOut'
    BY <1>3, TransmitEffect
  <2>2. Unsent = sendQ /\ Unsent' = Tail(sendQ)
    BY <2>1 DEF Unsent
  <2>3. IsOpen' = IsOpen
    BY <2>1 DEF IsOpen
  <2> QED
    BY <2>1, <2>2, <2>3 DEF OutboxView!Transmit
<1>4. ASSUME NEW w \in Workers, OnSendComplete(w) PROVE UNCHANGED OutboxView!outboxVars
  <2>1. /\ sendQ' = (IF sendQ = <<>> THEN sendQ ELSE Tail(sendQ)) /\ wire' = wire
        /\ (IsOpen => sendQ # <<>> /\ FrontWentOut)
        /\ (IsOpen' <=> IsOpen) /\ ~FrontWentOut'
    BY <1>4, PopEffect
  <2>2. Unsent' = Unsent
    BY <2>1 DEF Unsent
  <2>3. IsOpen' = IsOpen
    BY <2>1 DEF IsOpen
  <2> QED
    BY <2>1, <2>2, <2>3 DEF OutboxView!outboxVars
<1>5. ASSUME NEW t \in Threads, ClearQueue(t) PROVE OutboxView!Discard
  <2>1. wire' = wire /\ IsOpen /\ ~IsOpen'
    BY <1>5, ClearEffect
  <2>2. Unsent' = <<>>
    BY <2>1 DEF Unsent
  <2>3. IsOpen' = FALSE
    BY <2>1 DEF IsOpen
  <2> QED
    BY <2>1, <2>2, <2>3 DEF OutboxView!Discard
<1> QED
  BY <1>1, <1>2, <1>3, <1>4, <1>5, StepKinds DEF OutboxView!Next

\* A Session is an Outbox: messages leave in the order they were accepted in, once
\* each, through failed posts, overflow and Close, and none after the queue is cleared.
THEOREM SessionIsOutbox == Spec => ImplementsOutbox
<1>1. Init => OutboxInv
  <2> SUFFICES ASSUME Init PROVE OutboxInv
    OBVIOUS
  <2>1. IInv
    BY InitIInv
  <2>2. InFlight("SEND") = 0 /\ \A t \in Threads : pc[t] \in {"associate", "idle"}
    BY DEF Init, InFlight, IOType
  <2>3. Completing = {} /\ Handing = {} /\ PostFronts = {}
    BY <2>2 DEF Completing, Handing, PostFronts, Threads
  <2>4. SendInv
    BY <2>2, <2>3, FS_EmptySet DEF Init, SendInv, SendsOutstanding
  <2>5. QueueInv /\ SockInv /\ FrontInv
    BY <2>2, <2>3 DEF Init, QueueInv, SockInv, FrontInv, FrontWentOut
  <2> QED
    BY <2>1, <2>4, <2>5 DEF OutboxInv
<1>2. Init => OutboxView!Init
  <2> SUFFICES ASSUME Init PROVE OutboxView!Init
    OBVIOUS
  <2>1. IsOpen = TRUE
    BY DEF Init, IsOpen
  <2>2. Unsent = <<>>
    BY <2>1 DEF Init, Unsent, FrontWentOut
  <2> QED
    BY <2>1, <2>2 DEF Init, OutboxView!Init
<1>3. OutboxInv /\ [Next]_vars => OutboxInv'
  BY OutboxStep
<1>4. OutboxInv /\ [Next]_vars => [OutboxView!Next]_(OutboxView!outboxVars)
  BY RefinementStep
<1> QED
  BY <1>1, <1>2, <1>3, <1>4, PTL DEF Spec, ImplementsOutbox, OutboxView!Spec
==============================================================================
