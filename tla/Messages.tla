----------------------------- MODULE Messages -----------------------------
(* The generated protocol code at work (src/ServerCore/game.pb.h, game.pb.cc)
   and ProtoUtil.cpp's MakePacketFromProto: two objects of one message class,
   `this' and `other', under any sequence of the operations the class offers,
   next to what game.proto says each should then hold.

   The tables of MessageClasses, MessageObjects and MessageWire are the code;
   the operators below give each kind of function its meaning in memory.  An
   object is its has-bits and its members.  A number, bool, enumeration or
   string is 0 (default, empty) or 1; a list is a sequence of these; a member
   that holds a message is <<>> (a null pointer) or <<c>>, c telling whether
   the message behind it is empty (0) or not (1): that message has a class of
   its own, which is checked on its own.  Junk is what a member must never
   hold: uninitialised memory, or a pointer another object also owns.        *)
EXTENDS Integers, FiniteSets, Proto, MessageClasses, MessageObjects, MessageWire
LOCAL INSTANCE SequencesExt
LOCAL INSTANCE FiniteSetsExt

CONSTANTS MaxTouched,  \* bound: members of the two objects not as first made
          MaxList,     \* bound: length of a list
          MaxBody      \* longest body a packet has room for (65527 in the code)

ASSUME MessageBounds == {MaxTouched, MaxList, MaxBody} \subseteq Nat

VARIABLES type,        \* the class of the two objects
          this, other, \* the objects: [bits, val]
          plain,       \* what `this' should hold, by game.proto
          plainOther,  \* what `other' should hold
          leaked       \* heap memory was lost

vars == <<type, this, other, plain, plainOther, leaked>>

----------------------------------------------------------------------------
(* What game.proto says. *)

Declared == ProtoFields[type]
Names(t) == {ProtoFields[t][i].name : i \in DOMAIN ProtoFields[t]}
Kind(d) == IF d.repeated THEN "list"
           ELSE IF d.ty \in MessageTypes THEN "child" ELSE "value"
KindOf(f) == Kind(CHOOSE d \in ToSet(Declared) : d.name = f)

DefaultOf(kind) == IF kind = "value" THEN 0 ELSE <<>>
Default(t) == [f \in Names(t) |->
                 DefaultOf(Kind(CHOOSE d \in ToSet(ProtoFields[t]) : d.name = f))]

Larger(a, b) == IF a > b THEN a ELSE b

\* Merging q into p: what is set in q replaces, a message is merged, a list
\* is appended.
Merged(p, q) ==
  [f \in DOMAIN p |->
     CASE KindOf(f) = "value" -> IF q[f] = 0 THEN p[f] ELSE q[f]
       [] KindOf(f) = "child" -> IF p[f] = <<>> THEN q[f]
                                 ELSE IF q[f] = <<>> THEN p[f]
                                 ELSE <<Larger(p[f][1], q[f][1])>>
       [] KindOf(f) = "list"  -> p[f] \o q[f]]

\* The format a type has on the wire.
FormatOf(ty) ==
  CASE ty \in Enums -> "Enum"
    [] ty \in MessageTypes -> "Message"
    [] OTHER -> [float |-> "Float", bool |-> "Bool", string |-> "String",
                 int32 |-> "Int32", int64 |-> "Int64",
                 uint32 |-> "UInt32", uint64 |-> "UInt64"][ty]

\* What is written for one field: its number, format and contents.
Unit(number, format, data) == [number |-> number, format |-> format, data |-> data]

FieldEncoding(d, v) ==
  CASE Kind(d) = "value" -> IF v = 0 THEN <<>> ELSE <<Unit(d.number, FormatOf(d.ty), <<v>>)>>
    [] Kind(d) = "child" -> IF v = <<>> THEN <<>> ELSE <<Unit(d.number, "Message", v)>>
    [] Kind(d) = "list" ->
         IF d.ty \in MessageTypes
           THEN [i \in DOMAIN v |-> Unit(d.number, "Message", <<v[i]>>)]
           ELSE IF v = <<>> THEN <<>> ELSE <<Unit(d.number, "UInt64Packed", v)>>

Encoding(p) == FlattenSeq([i \in DOMAIN Declared |-> FieldEncoding(Declared[i], p[Declared[i].name])])

\* Bytes of a unit: a tag, then the value or a length and the contents.
UnitSize(u) == CASE u.format = "Float" -> 5
                 [] u.format = "String" -> 3
                 [] u.format = "Message" -> 2 + 2 * u.data[1]
                 [] u.format = "UInt64Packed" -> 2 + Len(u.data)
                 [] OTHER -> 2
SizeOf(units) == MapThenSumSet(LAMBDA i : UnitSize(units[i]), DOMAIN units)

----------------------------------------------------------------------------
(* The generated functions. *)

Junk == 2
Shape(f) == Accessors[type][f].shape
Bit(f) == Accessors[type][f].bit
Empty(f) == IF Shape(f) \in {"scalar", "text"} THEN 0 ELSE <<>>
JunkIn(f) == IF Shape(f) \in {"scalar", "text"} THEN Junk ELSE <<Junk>>

\* A member whose bytes are all zero; a string needs a pointer in it.
Zeroed(f) == IF Shape(f) = "text" THEN Junk ELSE Empty(f)

\* The members of a span.
Span(s) == IF s = NoSpan THEN {}
           ELSE LET at(f) == CHOOSE i \in DOMAIN Impl[type] : Impl[type][i] = f
                IN {Impl[type][i] : i \in at(s[1])..at(s[2])}

\* A new object: Impl_'s constructor, then the memset of SharedCtor; or, as
\* the parser makes one, memory set to zero or copied from the default instance.
Construct ==
  [bits |-> {},
   val |-> [f \in DOMAIN Accessors[type] |->
              IF f \in Span(Life[type].zeroed) THEN Zeroed(f)
              ELSE IF f \in Life[type].made THEN Empty(f) ELSE JunkIn(f)]]
ZeroInit == [bits |-> {}, val |-> [f \in DOMAIN Accessors[type] |-> Zeroed(f)]]
CopyInit == [bits |-> {},
             val |-> [f \in DOMAIN Accessors[type] |->
                        IF f \in DefaultInstance[type] THEN Empty(f) ELSE JunkIn(f)]]
Creations == {Construct} \cup (IF "ZeroInit" \in New[type] THEN {ZeroInit} ELSE {})
                         \cup (IF "CopyInit" \in New[type] THEN {CopyInit} ELSE {})

\* The copy constructor: strings and lists copied by their own constructors,
\* messages cloned if their has-bit is set, the rest by memcpy.
CopyConstruct(from) ==
  LET how == Copy[type]
      Clone(f) == LET bit == (CHOOSE c \in how.cloned : c[1] = f)[2]
                  IN IF bit \notin from.bits THEN <<>>
                     ELSE IF from.val[f] = <<>> THEN <<Junk>> ELSE from.val[f]
      Bytes(f) == IF Shape(f) = "scalar" \/ from.val[f] = Empty(f)
                    THEN from.val[f] ELSE JunkIn(f)
  IN IF how.whole THEN from
     ELSE [bits |-> from.bits,
           val |-> [f \in DOMAIN from.val |->
                      IF f \in Span(how.raw) THEN Bytes(f)
                      ELSE IF f \in how.made THEN from.val[f]
                      ELSE IF \E c \in how.cloned : c[1] = f THEN Clone(f)
                      ELSE JunkIn(f)]]

\* A member cleared: a message is cleared where it is and kept.
Cleared(f, v) ==
  IF Shape(f) = "child" THEN IF v = <<>> THEN <<Junk>> ELSE <<0>> ELSE Empty(f)

Clear(o) ==
  LET hit == {g \in ClearOf[type] : g.bits = {} \/ g.bits \cap o.bits # {}}
      reset == UNION {Span(g.span) : g \in hit}
  IN [bits |-> {},
      val |-> [f \in DOMAIN o.val |-> IF f \in reset THEN Cleared(f, o.val[f]) ELSE o.val[f]]]

\* MergeImpl.
MergeFrom(to, from) ==
  LET Take(f, how) ==
        CASE how = "value" -> IF from.val[f] = 0 THEN to.val[f] ELSE from.val[f]
          [] how = "child" -> IF to.val[f] = <<>> THEN from.val[f]
                              ELSE <<Larger(to.val[f][1], from.val[f][1])>>
          [] how = "append" -> to.val[f] \o from.val[f]
  IN [bits |-> to.bits \cup from.bits,
      val |-> [f \in DOMAIN to.val |->
                 IF f \in DOMAIN MergeOf[type] /\ MergeOf[type][f].bit \in from.bits
                   THEN Take(f, MergeOf[type][f].how) ELSE to.val[f]]]

\* InternalSwap: o with its has-bits and the members of the spans taken from p.
SwappedWith(o, p) ==
  LET moved == UNION {Span(s) : s \in SwapOf[type]}
  IN [bits |-> p.bits,
      val |-> [f \in DOMAIN o.val |-> IF f \in moved THEN p.val[f] ELSE o.val[f]]]

\* The destructor: a string or a message left on the heap is lost.
Loses(o) == \E f \in DOMAIN o.val : /\ Shape(f) \in {"text", "child"}
                                    /\ o.val[f] # Empty(f)
                                    /\ f \notin Life[type].freed

\* _InternalSerialize.
Written(o, w) ==
  IF w.bit \notin o.bits THEN <<>>
  ELSE CASE w.format = "Message" -> <<Unit(w.number, "Message", o.val[w.name])>>
         [] w.format = "RepMessage" ->
              [i \in DOMAIN o.val[w.name] |-> Unit(w.number, "Message", <<o.val[w.name][i]>>)]
         [] w.format = "UInt64Packed" ->
              IF o.val[w.name] = <<>> THEN <<>>
              ELSE <<Unit(w.number, "UInt64Packed", o.val[w.name])>>
         [] OTHER -> IF o.val[w.name] = 0 THEN <<>>
                     ELSE <<Unit(w.number, w.format, <<o.val[w.name]>>)>>
Serialize(o) == FlattenSeq([i \in DOMAIN SerializeOf[type] |-> Written(o, SerializeOf[type][i])])

\* ByteSizeLong.
FieldSize(v, format) ==
  CASE format = "Message" -> 2 + 2 * v[1]
    [] format = "RepMessage" -> 2 * Len(v) + MapThenSumSet(LAMBDA i : 2 * v[i], DOMAIN v)
    [] format = "UInt64Packed" -> IF v = <<>> THEN 0 ELSE 2 + Len(v)
    [] format = "String" -> IF v = 0 THEN 0 ELSE 3
    [] format = "Float" -> IF v = 0 THEN 0 ELSE 5
    [] OTHER -> IF v = 0 THEN 0 ELSE 2
ByteSizeLong(o) ==
  MapThenSumSet(LAMBDA f : FieldSize(o.val[f], ByteSizeOf[type][f].format),
                {f \in DOMAIN ByteSizeOf[type] : ByteSizeOf[type][f].bit \in o.bits})

\* The parser, for one unit: the entry with its number, of its format, says
\* where the contents go and which has-bit to set.
FormatRead(kind) ==
  CASE kind = "OpenEnum" -> "Enum"
    [] kind = "Utf8String" -> "String"
    [] kind = "RepeatedMessage" -> "Message"
    [] kind = "RepeatedPackedUInt64" -> "UInt64Packed"
    [] OTHER -> kind
Parsed(o, unit) ==
  LET entries == {f \in DOMAIN TableOf[type] : TableOf[type][f].number = unit.number}
      f == CHOOSE e \in entries : TRUE
      kind == TableOf[type][f].kind
      read == CASE kind = "Message" -> IF o.val[f] = <<>> THEN unit.data
                                       ELSE <<Larger(o.val[f][1], unit.data[1])>>
                [] kind \in {"RepeatedMessage", "RepeatedPackedUInt64"} -> o.val[f] \o unit.data
                [] OTHER -> unit.data[1]
  IN IF entries = {} THEN o
     ELSE [bits |-> o.bits \cup {TableOf[type][f].bit},
           val |-> [o.val EXCEPT ![f] = IF FormatRead(kind) = unit.format THEN read ELSE JunkIn(f)]]
ParseFrom(o, units) == FoldLeft(Parsed, o, units)

\* Faulty variant: what does not fit into a packet is sent cut off.
SendsTooLong(o) == IF ByteSizeLong(o) = 0 THEN <<>> ELSE Serialize(o)

\* MakePacketFromProto: nothing for a body that is empty or too long.
MakePacketFromProto(o) == IF ByteSizeLong(o) \in 1..MaxBody THEN Serialize(o) ELSE <<>>

----------------------------------------------------------------------------
(* The operations. *)

Touched(o) == {f \in DOMAIN o.val : Bit(f) \in o.bits \/ o.val[f] # Empty(f)}
WithinBounds ==
  /\ Cardinality(Touched(this')) + Cardinality(Touched(other')) <= MaxTouched
  /\ \A f \in DOMAIN this'.val : Shape(f) = "list" => Len(this'.val[f]) <= MaxList

With(o, f, v) == [bits |-> o.bits \cup {Bit(f)}, val |-> [o.val EXCEPT ![f] = v]]
Without(o, f, v) == [bits |-> o.bits \ {Bit(f)}, val |-> [o.val EXCEPT ![f] = v]]

Init == /\ type \in MessageTypes
        /\ this \in Creations
        /\ other = Construct
        /\ plain = Default(type)
        /\ plainOther = Default(type)
        /\ leaked = FALSE

\* `this' becomes o, and should then hold p.
Becomes(o, p) == /\ this' = o
                 /\ plain' = p
                 /\ UNCHANGED <<type, other, plainOther>>
                 /\ WithinBounds

\* set_x of a number; set_x, mutable_x or set_allocated_x of a string.
SetValue(f, v) == /\ Shape(f) \in {"scalar", "text"}
                  /\ Becomes(With(this, f, v), [plain EXCEPT ![f] = v])
                  /\ UNCHANGED leaked

\* mutable_x of a message, through which the caller may fill it.
MutableChild(f, c) ==
  /\ Shape(f) = "child"
  /\ LET old == IF this.val[f] = <<>> THEN 0 ELSE this.val[f][1]
         was == IF plain[f] = <<>> THEN 0 ELSE plain[f][1]
     IN Becomes(With(this, f, <<Larger(old, c)>>), [plain EXCEPT ![f] = <<Larger(was, c)>>])
  /\ UNCHANGED leaked

\* set_allocated_x of a message: the message that was there is deleted.
SetAllocatedChild(f, v) ==
  /\ Shape(f) = "child"
  /\ Becomes(IF v = <<>> THEN Without(this, f, v) ELSE With(this, f, v), [plain EXCEPT ![f] = v])
  /\ UNCHANGED leaked

\* release_x of a message or a string, which the caller then owns.
Release(f) == /\ \/ Shape(f) = "child"
                 \/ Shape(f) = "text" /\ Bit(f) \in this.bits
              /\ Becomes(Without(this, f, Empty(f)), [plain EXCEPT ![f] = Empty(f)])
              /\ UNCHANGED leaked

\* clear_x: a message, if there is one, is cleared where it is.
ClearField(f) ==
  /\ Becomes(Without(this, f, IF this.val[f] = Empty(f) THEN Empty(f) ELSE Cleared(f, this.val[f])),
             [plain EXCEPT ![f] = Empty(f)])
  /\ UNCHANGED leaked

\* add_x, and mutable_x of a list, with which nothing need be added.
AddElement(f, v) == /\ Shape(f) = "list"
                    /\ Becomes(With(this, f, Append(this.val[f], v)),
                               [plain EXCEPT ![f] = Append(@, v)])
                    /\ UNCHANGED leaked
MutableList(f) == /\ Shape(f) = "list"
                  /\ Becomes(With(this, f, this.val[f]), plain)
                  /\ UNCHANGED leaked

\* set_x(i) of a list; it leaves the has-bit alone.
SetElement(f, i, v) == /\ Shape(f) = "list"
                       /\ i \in DOMAIN this.val[f]
                       /\ Becomes([this EXCEPT !.val[f][i] = v], [plain EXCEPT ![f][i] = v])
                       /\ UNCHANGED leaked

ClearAll == /\ Becomes(Clear(this), Default(type))
            /\ UNCHANGED leaked

\* MergeFrom, CopyFrom, and the copy constructor replacing `this'.
MergeOther == /\ Becomes(MergeFrom(this, other), Merged(plain, plainOther))
              /\ UNCHANGED leaked
CopyOther == /\ Becomes(MergeFrom(Clear(this), other), plainOther)
             /\ UNCHANGED leaked
RebuildAsCopy == /\ Becomes(CopyConstruct(other), plainOther)
                 /\ leaked' = (leaked \/ Loses(this))

\* A new object replaces `this', which is destroyed.
Rebuild == /\ \E o \in Creations : Becomes(o, Default(type))
           /\ leaked' = (leaked \/ Loses(this))

Swap == /\ this' = SwappedWith(this, other)
        /\ other' = SwappedWith(other, this)
        /\ plain' = plainOther
        /\ plainOther' = plain
        /\ UNCHANGED <<type, leaked>>

\* The bytes of `other', as its sender should have written them, are parsed
\* into `this': ParseFromArray clears first, MergeFromString does not.
ParseFromArray == /\ Becomes(ParseFrom(Clear(this), Encoding(plainOther)), plainOther)
                  /\ UNCHANGED leaked
MergeFromString == /\ Becomes(ParseFrom(this, Encoding(plainOther)), Merged(plain, plainOther))
                   /\ UNCHANGED leaked

Next == \/ \E f \in DOMAIN Accessors[type] :
             \/ \E v \in 0..1 : SetValue(f, v) \/ MutableChild(f, v) \/ AddElement(f, v)
             \/ \E v \in {<<>>, <<0>>, <<1>>} : SetAllocatedChild(f, v)
             \/ \E i \in 1..MaxList, v \in 0..1 : SetElement(f, i, v)
             \/ Release(f) \/ ClearField(f) \/ MutableList(f)
        \/ ClearAll \/ MergeOther \/ CopyOther \/ RebuildAsCopy \/ Rebuild
        \/ Swap \/ ParseFromArray \/ MergeFromString

Spec == Init /\ [][Next]_vars

----------------------------------------------------------------------------
(* Properties. *)

\* An object reads as game.proto says, and what it does not have is empty:
\* has-bits and members agree, as CheckHasBitConsistency of the library asks.
Agrees(o, p) ==
  /\ o.bits \subseteq {Bit(f) : f \in DOMAIN o.val}
  /\ \A f \in DOMAIN o.val :
       /\ p[f] = IF Shape(f) = "child" /\ Bit(f) \notin o.bits THEN <<>> ELSE o.val[f]
       /\ Bit(f) \notin o.bits => o.val[f] \in {Empty(f)} \cup (IF Shape(f) = "child" THEN {<<0>>} ELSE {})

\* Whatever is done to two objects of a class of game.pb.cc, through its
\* accessors, Clear, merging, copying, swapping, parsing and destroying, each
\* holds exactly the fields game.proto says it should and nothing stale, and
\* no string or child message on the heap is lost.
ObjectExact == Agrees(this, plain) /\ Agrees(other, plainOther) /\ ~leaked

\* MakePacketFromProto sends exactly the encoding game.proto prescribes for
\* the message, of the size ByteSizeLong announced; only a message whose
\* fields all have their default, or one too long, is not sent.
SentAsDeclared ==
  /\ ByteSizeLong(this) = SizeOf(Serialize(this))
  /\ MakePacketFromProto(this) =
       IF SizeOf(Encoding(plain)) \in 1..MaxBody THEN Encoding(plain) ELSE <<>>
============================================================================
