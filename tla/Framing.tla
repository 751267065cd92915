------------------------------- MODULE Framing -------------------------------
(***************************************************************************)
(* Packets on a byte stream (ServerCore/Packet.cpp, ProtoUtil.cpp and the  *)
(* loop of Session::OnRecvComplete).  The peer writes packets, or any      *)
(* bytes at all; the receives return them in pieces of any size; the parse *)
(* loop takes complete packets off the front of _recvStream.               *)
(*                                                                         *)
(* A header field is one unit of the stream instead of two bytes.  A field *)
(* wraps at Word.                                                          *)
(***************************************************************************)
EXTENDS Integers, Sequences

CONSTANTS Word,           \* 2^16, the modulus of a header field
          MaxPacketSize,  \* MAX_PACKET_SIZE
          RecvPostSize,   \* RECV_POST_SIZE
          ValidOpcodes,   \* the opcodes of Opcodes.h
          HandledOpcodes, \* those HandlePacket has a case for
          Messages,       \* bound: what the peer serialises, [opcode, payload]
          RawUnits,       \* bound: the units of a peer that does not frame
          MaxUnits,       \* bound: no send begins once this many units are out
          MaxRawUnits     \* bound: the same for a peer that does not frame

\* sizeof(PacketHeader), in units.
HeaderSize == 2

ASSUME FramingAssumption ==
    /\ Word \in Nat /\ MaxPacketSize \in HeaderSize..Word - 1
    /\ RecvPostSize \in Nat \ {0} /\ MaxUnits \in Nat /\ MaxRawUnits \in Nat
    /\ HandledOpcodes \subseteq ValidOpcodes /\ ValidOpcodes \subseteq 0..Word - 1
    /\ \A msg \in Messages : msg \in [opcode : HandledOpcodes, payload : Seq(0..Word - 1)]
    /\ RawUnits \subseteq 0..Word - 1

VARIABLES
    frames,     \* whether the peer frames what it sends; chosen at the start
    wire,       \* units sent and not received
    stream,     \* _recvStream
    phase,      \* "recv": a receive is posted; "parse"; "closed"
    sent,       \* history: the messages framed, in order
    received,   \* history: all units received
    delivered   \* history: the packets handed to HandlePacket

vars == <<frames, wire, stream, phase, sent, received, delivered>>

-----------------------------------------------------------------------------
\* MakePacket: the size is a uint16_t, and so is payloadLen.
MakePacket(opcode, payload) ==
    LET size == (HeaderSize + Len(payload)) % Word
    IN  SubSeq(<<size, opcode>> \o payload, 1, size)

\* Faulty variant: the size of the message is not tested.
Faulty_MakePacketFromProto(msg) ==
    IF msg.payload = <<>> THEN <<>> ELSE MakePacket(msg.opcode, msg.payload)

\* MakePacketFromProto: a message too large, or of no bytes, gives no packet.
MakePacketFromProto(msg) ==
    IF Len(msg.payload) > MaxPacketSize - HeaderSize \/ msg.payload = <<>>
    THEN <<>>
    ELSE MakePacket(msg.opcode, msg.payload)

IsValidOpcode(opcode) == opcode \in ValidOpcodes

\* HandlePacket's switch has a case for the opcode, and no handler refuses.
HandlePacket(opcode) == opcode \in HandledOpcodes

\* Faulty variant: the opcode is not tested.
Faulty_TryGetPacket_NoOpcode(s) ==
    IF Len(s) < HeaderSize THEN "Incomplete"
    ELSE IF s[1] < HeaderSize THEN "InvalidHeader"
    ELSE IF s[1] > MaxPacketSize THEN "PacketTooLarge"
    ELSE IF Len(s) < s[1] THEN "Incomplete"
    ELSE "Success"

\* Faulty variant: the limit on the size is not tested.
Faulty_TryGetPacket_NoLimit(s) ==
    IF Len(s) < HeaderSize THEN "Incomplete"
    ELSE IF s[1] < HeaderSize THEN "InvalidHeader"
    ELSE IF ~IsValidOpcode(s[2]) THEN "InvalidOpcode"
    ELSE IF Len(s) < s[1] THEN "Incomplete"
    ELSE "Success"

\* TryGetPacket's result; the tests in its order.
TryGetPacket(s) ==
    IF Len(s) < HeaderSize THEN "Incomplete"
    ELSE IF s[1] < HeaderSize THEN "InvalidHeader"
    ELSE IF s[1] > MaxPacketSize THEN "PacketTooLarge"
    ELSE IF ~IsValidOpcode(s[2]) THEN "InvalidOpcode"
    ELSE IF Len(s) < s[1] THEN "Incomplete"
    ELSE "Success"

\* The packet TryGetPacket returns on Success, and what it leaves in the stream.
Front(s) == [opcode |-> s[2], payload |-> SubSeq(s, HeaderSize + 1, s[1])]

\* Faulty variant: the header stays in the stream.
Faulty_Remainder(s) == SubSeq(s, s[1] - HeaderSize + 1, Len(s))

Remainder(s) == SubSeq(s, s[1] + 1, Len(s))

-----------------------------------------------------------------------------
Init ==
    /\ frames \in BOOLEAN
    /\ wire = <<>> /\ stream = <<>> /\ phase = "recv"
    /\ sent = <<>> /\ received = <<>> /\ delivered = <<>>

Room == Len(received) + Len(wire) < IF frames THEN MaxUnits ELSE MaxRawUnits

\* A peer that frames: MakePacketFromProto, MakeSendBuffer, EnqueueSend, which
\* drops an empty packet.
SendMessage(msg) ==
    /\ frames /\ Room /\ MakePacketFromProto(msg) # <<>>
    /\ wire' = wire \o MakePacketFromProto(msg)
    /\ sent' = Append(sent, msg)
    /\ UNCHANGED <<frames, stream, phase, received, delivered>>

\* A peer that writes what it likes.
SendRaw(unit) ==
    /\ ~frames /\ Room
    /\ wire' = Append(wire, unit)
    /\ UNCHANGED <<frames, stream, phase, sent, received, delivered>>

\* A receive completes with n units: OnRecvComplete appends them.
Receive(n) ==
    /\ phase = "recv" /\ n <= Len(wire)
    /\ stream' = stream \o SubSeq(wire, 1, n)
    /\ received' = received \o SubSeq(wire, 1, n)
    /\ wire' = SubSeq(wire, n + 1, Len(wire))
    /\ phase' = "parse"
    /\ UNCHANGED <<frames, sent, delivered>>

\* Faulty variant: the loop posts the next receive after one packet.
Faulty_HandleFront ==
    /\ phase = "parse" /\ TryGetPacket(stream) = "Success"
    /\ delivered' = Append(delivered, Front(stream))
    /\ stream' = Remainder(stream)
    /\ phase' = IF HandlePacket(stream[2]) THEN "recv" ELSE "closed"
    /\ UNCHANGED <<frames, wire, sent, received>>

\* OnRecvComplete's loop: a packet is taken and handled; a handler's refusal,
\* that of HandlePacket's default included, closes the session.
HandleFront ==
    /\ phase = "parse" /\ TryGetPacket(stream) = "Success"
    /\ delivered' = Append(delivered, Front(stream))
    /\ stream' = Remainder(stream)
    /\ phase' = IF HandlePacket(stream[2]) THEN "parse" ELSE "closed"
    /\ UNCHANGED <<frames, wire, sent, received>>

\* OnRecvComplete's loop ends: PostRecv, or Close, which clears the stream.
EndLoop ==
    /\ phase = "parse" /\ TryGetPacket(stream) # "Success"
    /\ phase' = IF TryGetPacket(stream) = "Incomplete" THEN "recv" ELSE "closed"
    /\ UNCHANGED <<frames, wire, stream, sent, received, delivered>>

OnRecvComplete == HandleFront \/ EndLoop

Receives == \E n \in 1..RecvPostSize : Receive(n)

\* Nothing more happens once the bound is reached or the session has closed.
Quiet ==
    /\ ~Room /\ (phase = "closed" \/ (phase = "recv" /\ wire = <<>>))
    /\ UNCHANGED vars

Next ==
    \/ \E msg \in Messages : SendMessage(msg)
    \/ \E unit \in RawUnits : SendRaw(unit)
    \/ Receives \/ OnRecvComplete \/ Quiet

\* The network delivers and the worker runs.
Fairness == WF_vars(Receives) /\ WF_vars(OnRecvComplete)

Spec == Init /\ [][Next]_vars /\ Fairness

-----------------------------------------------------------------------------
\* What HandlePacket may be called with.
Packets == [opcode : ValidOpcodes, payload : Seq(0..Word - 1)]

\* The handler gets packets of a known opcode and of no more than MAX_PACKET_SIZE.
TypeOK ==
    /\ frames \in BOOLEAN
    /\ wire \in Seq(0..Word - 1) /\ stream \in Seq(0..Word - 1)
    /\ received \in Seq(0..Word - 1)
    /\ phase \in {"recv", "parse", "closed"}
    /\ sent \in Seq(Messages) /\ delivered \in Seq(Packets)
    /\ \A i \in DOMAIN delivered :
           HeaderSize + Len(delivered[i].payload) <= MaxPacketSize

\* From a peer that frames, the handler gets the messages sent, whole and in
\* order, however the stream was cut; and the session is not closed over it.
DeliveredInOrder ==
    frames => /\ phase # "closed"
              /\ Len(delivered) <= Len(sent)
              /\ delivered = SubSeq(sent, 1, Len(delivered))

\* _recvStream has no limit of its own (MAX_RECV_STREAM_SIZE only reserves), but
\* the limit on packets gives it one, whatever the peer writes.
StreamBounded == Len(stream) <= MaxPacketSize - 1 + RecvPostSize

\* The encoding of the first n packets delivered.
Encoded[n \in Nat] ==
    IF n = 0 THEN <<>>
    ELSE Encoded[n - 1]
         \o <<HeaderSize + Len(delivered[n].payload), delivered[n].opcode>>
         \o delivered[n].payload

\* Whatever the peer writes and however it is cut, the packets delivered and
\* the rest of the stream are the units received: the parser invents, skips and
\* repeats nothing.
NothingInvented == Encoded[Len(delivered)] \o stream = received

\* A message sent is handled in the end.
EventuallyDelivered ==
    \A n \in 1..MaxUnits : Len(sent) >= n ~> Len(delivered) >= n
=============================================================================
