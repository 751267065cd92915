----------------------------- MODULE MessagesProofs -----------------------------
(***************************************************************************)
(* The generated classes agree with game.proto, for lists of every length  *)
(* and bounds of every size: what the tables of each class must satisfy,   *)
(* that those of all 27 classes do, what each generated function does to   *)
(* one field, and from these the invariants of Messages.                   *)
(***************************************************************************)
EXTENDS Messages, NatSets, TLAPS
LOCAL INSTANCE SequencesExt
LOCAL INSTANCE FiniteSetTheorems

-----------------------------------------------------------------------------
(* What the tables of a class t must satisfy. *)

Fields(t) == DOMAIN Accessors[t]
ShapeIn(t, f) == Accessors[t][f].shape
BitIn(t, f) == Accessors[t][f].bit

PlaceIn(t, f) == CHOOSE i \in DOMAIN Impl[t] : Impl[t][i] = f
SpanIn(t, s) == IF s = NoSpan THEN {}
                ELSE {Impl[t][i] : i \in PlaceIn(t, s[1])..PlaceIn(t, s[2])}

\* Impl_ has each field once.
LaidOut(t) ==
    /\ DOMAIN Impl[t] = 1..Len(Impl[t]) /\ Len(Impl[t]) \in Nat
    /\ Fields(t) = {Impl[t][i] : i \in DOMAIN Impl[t]}
    /\ \A i, j \in DOMAIN Impl[t] : Impl[t][i] = Impl[t][j] => i = j

\* A field has one of the four shapes and a has-bit of its own.
ShapeSound(t, f) ==
    /\ ShapeIn(t, f) \in {"scalar", "text", "child", "list"}
    /\ BitIn(t, f) \in Nat
    /\ \A g \in Fields(t) : BitIn(t, g) = BitIn(t, f) => g = f

\* Every way to make an object leaves the field empty.
FreshSound(t, f) ==
    /\ IF f \in SpanIn(t, Life[t].zeroed) THEN ShapeIn(t, f) # "text" ELSE f \in Life[t].made
    /\ "ZeroInit" \in New[t] => ShapeIn(t, f) # "text"
    /\ "CopyInit" \in New[t] => f \in DefaultInstance[t]

\* Bytes are copied only where no pointer is; a message is cloned by its bit.
CopySound(t, f) ==
    IF Copy[t].whole \/ f \in SpanIn(t, Copy[t].raw) THEN ShapeIn(t, f) = "scalar"
    ELSE IF f \in Copy[t].made THEN ShapeIn(t, f) # "child"
    ELSE /\ ShapeIn(t, f) = "child"
         /\ <<f, BitIn(t, f)>> \in Copy[t].cloned
         /\ \A c \in Copy[t].cloned : c[1] = f => c[2] = BitIn(t, f)

\* Whenever its has-bit is set the field is cleared, a message only then.
ClearSound(t, f) ==
    /\ \E g \in ClearOf[t] : f \in SpanIn(t, g.span) /\ (g.bits = {} \/ BitIn(t, f) \in g.bits)
    /\ \A g \in ClearOf[t] :
         f \in SpanIn(t, g.span) /\ ShapeIn(t, f) = "child" => g.bits = {BitIn(t, f)}

MergeSound(t, f) ==
    /\ f \in DOMAIN MergeOf[t]
    /\ MergeOf[t][f].bit = BitIn(t, f)
    /\ MergeOf[t][f].how = CASE ShapeIn(t, f) = "child" -> "child"
                             [] ShapeIn(t, f) = "list" -> "append"
                             [] OTHER -> "value"

SwapSound(t, f) == \E s \in SwapOf[t] : f \in SpanIn(t, s)

FreedSound(t, f) == ShapeIn(t, f) \in {"text", "child"} => f \in Life[t].freed

FieldSound(t, f) ==
    /\ ShapeSound(t, f) /\ FreshSound(t, f) /\ CopySound(t, f) /\ ClearSound(t, f)
    /\ MergeSound(t, f) /\ SwapSound(t, f) /\ FreedSound(t, f)

\* What game.proto declares for the field: its shape, and the number, has-bit
\* and format by which it is written, measured and read.
WireFormat(d) == IF ~d.repeated THEN FormatOf(d.ty)
                 ELSE IF d.ty \in MessageTypes THEN "RepMessage" ELSE "UInt64Packed"
TableReads(kind, d) ==
    IF Kind(d) = "list"
      THEN kind = IF d.ty \in MessageTypes THEN "RepeatedMessage" ELSE "RepeatedPackedUInt64"
      ELSE /\ kind \notin {"RepeatedMessage", "RepeatedPackedUInt64"}
           /\ FormatRead(kind) = FormatOf(d.ty)
           /\ kind = "Message" <=> Kind(d) = "child"
DeclarationSound(t, d, w) ==
    /\ d.name \in Fields(t)
    /\ d.repeated <=> ShapeIn(t, d.name) = "list"
    /\ Kind(d) = IF d.repeated THEN "list" ELSE IF ShapeIn(t, d.name) = "child" THEN "child" ELSE "value"
    /\ Kind(d) = "value" => WireFormat(d) \notin {"Message", "RepMessage", "UInt64Packed"}
    /\ w = Write(d.name, d.number, BitIn(t, d.name), WireFormat(d))
    /\ ByteSizeOf[t][d.name] = Size(BitIn(t, d.name), WireFormat(d))
    /\ TableOf[t][d.name].number = d.number
    /\ TableOf[t][d.name].bit = BitIn(t, d.name)
    /\ TableReads(TableOf[t][d.name].kind, d)

Listed(t) ==
    /\ DOMAIN ProtoFields[t] = 1..Len(ProtoFields[t]) /\ Len(ProtoFields[t]) \in Nat
    /\ DOMAIN SerializeOf[t] = DOMAIN ProtoFields[t]
    /\ Fields(t) = {ProtoFields[t][i].name : i \in DOMAIN ProtoFields[t]}
    /\ DOMAIN ByteSizeOf[t] = Fields(t)
    /\ DOMAIN TableOf[t] = Fields(t)
    /\ \A i, j \in DOMAIN ProtoFields[t] :
         ProtoFields[t][i].name = ProtoFields[t][j].name
         \/ ProtoFields[t][i].number = ProtoFields[t][j].number => i = j

ClassSound(t) ==
    /\ LaidOut(t)
    /\ \A f \in Fields(t) : FieldSound(t, f)
    /\ Listed(t)
    /\ \A i \in DOMAIN ProtoFields[t] : DeclarationSound(t, ProtoFields[t][i], SerializeOf[t][i])

-----------------------------------------------------------------------------
(* The tables of every class do. *)

\* A span holds the fields laid out between its ends.
LEMMA SpanPlaces ==
    ASSUME NEW t, LaidOut(t), NEW a \in Fields(t), NEW b \in Fields(t), NEW f \in Fields(t)
    PROVE  f \in SpanIn(t, <<a, b>>) <=> PlaceIn(t, a) <= PlaceIn(t, f) /\ PlaceIn(t, f) <= PlaceIn(t, b)
<1>1. \A g \in Fields(t) : PlaceIn(t, g) \in DOMAIN Impl[t] /\ Impl[t][PlaceIn(t, g)] = g
  BY DEF LaidOut, PlaceIn
<1>2. SpanIn(t, <<a, b>>) = {Impl[t][i] : i \in PlaceIn(t, a)..PlaceIn(t, b)}
  BY DEF SpanIn, NoSpan
<1>3. PlaceIn(t, a) \in Int /\ PlaceIn(t, b) \in Int /\ PlaceIn(t, f) \in Int
  BY <1>1 DEF LaidOut
<1>4. \A i, j \in DOMAIN Impl[t] : Impl[t][i] = Impl[t][j] => i = j
  BY DEF LaidOut
<1>5. \A i \in PlaceIn(t, a)..PlaceIn(t, b) : i \in DOMAIN Impl[t]
  <2>1. DOMAIN Impl[t] = 1..Len(Impl[t]) /\ Len(Impl[t]) \in Nat
    BY DEF LaidOut
  <2> QED
    BY <1>1, <2>1
<1>6. \A i \in PlaceIn(t, a)..PlaceIn(t, b) : Impl[t][i] = f => i = PlaceIn(t, f)
  BY <1>1, <1>4, <1>5
<1> QED
  BY <1>1, <1>2, <1>3, <1>6

LEMMA NoSpanEmpty == \A t : SpanIn(t, NoSpan) = {}
BY DEF SpanIn

LEMMA Vector2Sound == ClassSound("Vector2")
<1> DEFINE t == "Vector2"
<1>1. Fields(t) = {"x", "y"}
  BY DEF Fields, Accessors, Vector2_Accessors
<1>2. LaidOut(t)
  BY <1>1 DEF LaidOut, Impl, Vector2_Impl
<1>3. /\ SpanIn(t, <<"x", "y">>) = {"x", "y"}
  <2>1. PlaceIn(t, "x") = 1 /\ PlaceIn(t, "y") = 2
    BY DEF PlaceIn, Impl, Vector2_Impl
  <2> QED
    BY <2>1 DEF SpanIn, NoSpan, Impl, Vector2_Impl
<1>4. /\ ShapeIn(t, "x") = "scalar" /\ BitIn(t, "x") = 0
      /\ ShapeIn(t, "y") = "scalar" /\ BitIn(t, "y") = 1
  BY DEF ShapeIn, BitIn, Accessors, Vector2_Accessors, Text, Child, List, Scalar
<1>5. ASSUME NEW f \in Fields(t) PROVE FieldSound(t, f)
  <2>1. ShapeSound(t, f) /\ FreedSound(t, f)
    BY <1>1, <1>4 DEF ShapeSound, FreedSound, Life, Vector2_Life
  <2>2. FreshSound(t, f) /\ SwapSound(t, f)
    BY <1>1, <1>3, <1>4, NoSpanEmpty DEF FreshSound, Life, Vector2_Life, New, Vector2_New,
      DefaultInstance, Vector2_Default, SwapSound, SwapOf, Vector2_Swap
  <2>3. MergeSound(t, f)
    BY <1>1, <1>4 DEF MergeSound, MergeOf, Vector2_Merge, IfNonZero, IfNonEmpty, MergeChild, AppendList
  <2>4. CopySound(t, f)
    BY <1>1, <1>4 DEF CopySound, Copy, Vector2_Copy, Memberwise
  <2>5. ClearSound(t, f)
    <3>1. \E g \in ClearOf[t] : f \in SpanIn(t, g.span) /\ (g.bits = {} \/ BitIn(t, f) \in g.bits)
      BY <1>1, <1>3, <1>4 DEF ClearOf, Vector2_Clear, When, Always
    <3>2. ASSUME NEW g \in ClearOf[t], f \in SpanIn(t, g.span), ShapeIn(t, f) = "child"
          PROVE  g.bits = {BitIn(t, f)}
      BY <1>1, <1>3, <1>4, <3>2 DEF ClearOf, Vector2_Clear, When, Always
    <3> QED
      BY <3>1, <3>2 DEF ClearSound
  <2> QED
    BY <2>1, <2>2, <2>3, <2>4, <2>5 DEF FieldSound
<1>6. Listed(t)
  BY <1>1 DEF Listed, ProtoFields, Vector2_Proto, Field, Repeated, SerializeOf, Vector2_Serialize,
    ByteSizeOf, Vector2_ByteSize, TableOf, Vector2_Table
<1>7. ASSUME NEW i \in DOMAIN ProtoFields[t]
      PROVE  DeclarationSound(t, ProtoFields[t][i], SerializeOf[t][i])
  <2> DEFINE d == ProtoFields[t][i]
             w == SerializeOf[t][i]
  <2>1. \/ d = Field("x", 1, "float") /\ w = Write("x", 1, 0, "Float")
        \/ d = Field("y", 2, "float") /\ w = Write("y", 2, 1, "Float")
    BY DEF ProtoFields, Vector2_Proto, SerializeOf, Vector2_Serialize
  <2>2. (d.ty \in MessageTypes <=> d.ty \in {}) /\ (d.ty \in Enums <=> d.ty \in {})
    BY <2>1 DEF MessageTypes, ProtoFields, Enums, Field, Repeated
  <2> HIDE DEF d, w
  <2>3. WireFormat(d) = w.format /\ (~d.repeated => FormatOf(d.ty) = w.format)
    BY <2>1, <2>2 DEF WireFormat, FormatOf, Write, Field, Repeated
  <2>4. /\ Kind(d) = IF d.repeated THEN "list" ELSE IF ShapeIn(t, d.name) = "child" THEN "child" ELSE "value"
        /\ d.repeated <=> ShapeIn(t, d.name) = "list"
        /\ d.name \in Fields(t)
    BY <1>1, <1>4, <2>1, <2>2 DEF Kind, Field, Repeated
  <2>5. Kind(d) = "value" => w.format \notin {"Message", "RepMessage", "UInt64Packed"}
    BY <2>1, <2>2 DEF Kind, Field, Repeated, Write
  <2>6. /\ w = Write(d.name, d.number, BitIn(t, d.name), w.format)
        /\ ByteSizeOf[t][d.name] = Size(BitIn(t, d.name), w.format)
    BY <1>4, <2>1 DEF ByteSizeOf, Vector2_ByteSize, Size, Write, Field, Repeated
  <2>7. /\ TableOf[t][d.name].number = d.number /\ TableOf[t][d.name].bit = BitIn(t, d.name)
        /\ TableReads(TableOf[t][d.name].kind, d)
    BY <1>4, <2>1, <2>2, <2>3, <2>4 DEF TableReads, FormatRead, TableOf, Vector2_Table, Entry, Write,
      Field, Repeated
  <2> QED
    BY <2>3, <2>4, <2>5, <2>6, <2>7 DEF DeclarationSound, d, w
<1> QED
  BY <1>2, <1>5, <1>6, <1>7 DEF ClassSound

LEMMA StatInfoSound == ClassSound("StatInfo")
<1> DEFINE t == "StatInfo"
<1>1. Fields(t) = {"hp", "max_hp", "mp", "max_mp", "attack", "defence", "speed", "level", "exp",
                  "max_exp"}
  BY DEF Fields, Accessors, StatInfo_Accessors
<1>2. LaidOut(t)
  BY <1>1 DEF LaidOut, Impl, StatInfo_Impl
<1>3. /\ SpanIn(t, <<"hp", "max_exp">>) = {"hp", "max_hp", "mp", "max_mp", "attack", "defence",
              "speed", "level", "exp", "max_exp"}
      /\ SpanIn(t, <<"hp", "level">>) = {"hp", "max_hp", "mp", "max_mp", "attack", "defence", "speed",
              "level"}
      /\ SpanIn(t, <<"exp", "max_exp">>) = {"exp", "max_exp"}
  <2>1. PlaceIn(t, "hp") = 1 /\ PlaceIn(t, "max_hp") = 2 /\ PlaceIn(t, "mp") = 3 /\
        PlaceIn(t, "max_mp") = 4 /\ PlaceIn(t, "attack") = 5 /\ PlaceIn(t, "defence") = 6 /\
        PlaceIn(t, "speed") = 7 /\ PlaceIn(t, "level") = 8 /\ PlaceIn(t, "exp") = 9 /\
        PlaceIn(t, "max_exp") = 10
    BY DEF PlaceIn, Impl, StatInfo_Impl
  <2> QED
    BY <2>1 DEF SpanIn, NoSpan, Impl, StatInfo_Impl
<1>4. /\ ShapeIn(t, "hp") = "scalar" /\ BitIn(t, "hp") = 0
      /\ ShapeIn(t, "max_hp") = "scalar" /\ BitIn(t, "max_hp") = 1
      /\ ShapeIn(t, "mp") = "scalar" /\ BitIn(t, "mp") = 2
      /\ ShapeIn(t, "max_mp") = "scalar" /\ BitIn(t, "max_mp") = 3
      /\ ShapeIn(t, "attack") = "scalar" /\ BitIn(t, "attack") = 4
      /\ ShapeIn(t, "defence") = "scalar" /\ BitIn(t, "defence") = 5
      /\ ShapeIn(t, "speed") = "scalar" /\ BitIn(t, "speed") = 6
      /\ ShapeIn(t, "level") = "scalar" /\ BitIn(t, "level") = 7
      /\ ShapeIn(t, "exp") = "scalar" /\ BitIn(t, "exp") = 8
      /\ ShapeIn(t, "max_exp") = "scalar" /\ BitIn(t, "max_exp") = 9
  BY DEF ShapeIn, BitIn, Accessors, StatInfo_Accessors, Text, Child, List, Scalar
<1>5. ASSUME NEW f \in Fields(t) PROVE FieldSound(t, f)
  <2>1. ShapeSound(t, f) /\ FreedSound(t, f)
    BY <1>1, <1>4 DEF ShapeSound, FreedSound, Life, StatInfo_Life
  <2>2. FreshSound(t, f) /\ SwapSound(t, f)
    BY <1>1, <1>3, <1>4, NoSpanEmpty DEF FreshSound, Life, StatInfo_Life, New, StatInfo_New,
      DefaultInstance, StatInfo_Default, SwapSound, SwapOf, StatInfo_Swap
  <2>3. MergeSound(t, f)
    BY <1>1, <1>4 DEF MergeSound, MergeOf, StatInfo_Merge, IfNonZero, IfNonEmpty, MergeChild,
      AppendList
  <2>4. CopySound(t, f)
    BY <1>1, <1>4 DEF CopySound, Copy, StatInfo_Copy, Memberwise
  <2>5. ClearSound(t, f)
    <3>1. \E g \in ClearOf[t] : f \in SpanIn(t, g.span) /\ (g.bits = {} \/ BitIn(t, f) \in g.bits)
      BY <1>1, <1>3, <1>4 DEF ClearOf, StatInfo_Clear, When, Always
    <3>2. ASSUME NEW g \in ClearOf[t], f \in SpanIn(t, g.span), ShapeIn(t, f) = "child"
          PROVE  g.bits = {BitIn(t, f)}
      BY <1>1, <1>3, <1>4, <3>2 DEF ClearOf, StatInfo_Clear, When, Always
    <3> QED
      BY <3>1, <3>2 DEF ClearSound
  <2> QED
    BY <2>1, <2>2, <2>3, <2>4, <2>5 DEF FieldSound
<1>6. Listed(t)
  BY <1>1 DEF Listed, ProtoFields, StatInfo_Proto, Field, Repeated, SerializeOf, StatInfo_Serialize,
    ByteSizeOf, StatInfo_ByteSize, TableOf, StatInfo_Table
<1>7. ASSUME NEW i \in DOMAIN ProtoFields[t]
      PROVE  DeclarationSound(t, ProtoFields[t][i], SerializeOf[t][i])
  <2> DEFINE d == ProtoFields[t][i]
             w == SerializeOf[t][i]
  <2>1. \/ d = Field("hp", 1, "int32") /\ w = Write("hp", 1, 0, "Int32")
        \/ d = Field("max_hp", 2, "int32") /\ w = Write("max_hp", 2, 1, "Int32")
        \/ d = Field("mp", 3, "int32") /\ w = Write("mp", 3, 2, "Int32")
        \/ d = Field("max_mp", 4, "int32") /\ w = Write("max_mp", 4, 3, "Int32")
        \/ d = Field("attack", 5, "int32") /\ w = Write("attack", 5, 4, "Int32")
        \/ d = Field("defence", 6, "int32") /\ w = Write("defence", 6, 5, "Int32")
        \/ d = Field("speed", 7, "int32") /\ w = Write("speed", 7, 6, "Int32")
        \/ d = Field("level", 8, "int32") /\ w = Write("level", 8, 7, "Int32")
        \/ d = Field("exp", 9, "int64") /\ w = Write("exp", 9, 8, "Int64")
        \/ d = Field("max_exp", 10, "int64") /\ w = Write("max_exp", 10, 9, "Int64")
    BY DEF ProtoFields, StatInfo_Proto, SerializeOf, StatInfo_Serialize
  <2>2. (d.ty \in MessageTypes <=> d.ty \in {}) /\ (d.ty \in Enums <=> d.ty \in {})
    BY <2>1 DEF MessageTypes, ProtoFields, Enums, Field, Repeated
  <2> HIDE DEF d, w
  <2>3. WireFormat(d) = w.format /\ (~d.repeated => FormatOf(d.ty) = w.format)
    BY <2>1, <2>2 DEF WireFormat, FormatOf, Write, Field, Repeated
  <2>4. /\ Kind(d) = IF d.repeated THEN "list" ELSE IF ShapeIn(t, d.name) = "child" THEN "child" ELSE "value"
        /\ d.repeated <=> ShapeIn(t, d.name) = "list"
        /\ d.name \in Fields(t)
    BY <1>1, <1>4, <2>1, <2>2 DEF Kind, Field, Repeated
  <2>5. Kind(d) = "value" => w.format \notin {"Message", "RepMessage", "UInt64Packed"}
    BY <2>1, <2>2 DEF Kind, Field, Repeated, Write
  <2>6. /\ w = Write(d.name, d.number, BitIn(t, d.name), w.format)
        /\ ByteSizeOf[t][d.name] = Size(BitIn(t, d.name), w.format)
    BY <1>4, <2>1 DEF ByteSizeOf, StatInfo_ByteSize, Size, Write, Field, Repeated
  <2>7. /\ TableOf[t][d.name].number = d.number /\ TableOf[t][d.name].bit = BitIn(t, d.name)
        /\ TableReads(TableOf[t][d.name].kind, d)
    BY <1>4, <2>1, <2>2, <2>3, <2>4 DEF TableReads, FormatRead, TableOf, StatInfo_Table, Entry, Write,
      Field, Repeated
  <2> QED
    BY <2>3, <2>4, <2>5, <2>6, <2>7 DEF DeclarationSound, d, w
<1> QED
  BY <1>2, <1>5, <1>6, <1>7 DEF ClassSound

LEMMA PlayerInfoSound == ClassSound("PlayerInfo")
<1> DEFINE t == "PlayerInfo"
<1>1. Fields(t) = {"name", "position", "stat", "player_id", "dir", "is_moving", "is_jumping"}
  BY DEF Fields, Accessors, PlayerInfo_Accessors
<1>2. LaidOut(t)
  BY <1>1 DEF LaidOut, Impl, PlayerInfo_Impl
<1>3. /\ SpanIn(t, <<"position", "is_jumping">>) = {"position", "stat", "player_id", "dir",
              "is_moving", "is_jumping"}
      /\ SpanIn(t, <<"player_id", "is_jumping">>) = {"player_id", "dir", "is_moving", "is_jumping"}
      /\ SpanIn(t, <<"name", "name">>) = {"name"}
      /\ SpanIn(t, <<"position", "position">>) = {"position"}
      /\ SpanIn(t, <<"stat", "stat">>) = {"stat"}
  <2>1. PlaceIn(t, "name") = 1 /\ PlaceIn(t, "position") = 2 /\ PlaceIn(t, "stat") = 3 /\
        PlaceIn(t, "player_id") = 4 /\ PlaceIn(t, "dir") = 5 /\ PlaceIn(t, "is_moving") = 6 /\
        PlaceIn(t, "is_jumping") = 7
    BY DEF PlaceIn, Impl, PlayerInfo_Impl
  <2> QED
    BY <2>1 DEF SpanIn, NoSpan, Impl, PlayerInfo_Impl
<1>4. /\ ShapeIn(t, "name") = "text" /\ BitIn(t, "name") = 0
      /\ ShapeIn(t, "position") = "child" /\ BitIn(t, "position") = 1
      /\ ShapeIn(t, "stat") = "child" /\ BitIn(t, "stat") = 2
      /\ ShapeIn(t, "player_id") = "scalar" /\ BitIn(t, "player_id") = 3
      /\ ShapeIn(t, "dir") = "scalar" /\ BitIn(t, "dir") = 4
      /\ ShapeIn(t, "is_moving") = "scalar" /\ BitIn(t, "is_moving") = 5
      /\ ShapeIn(t, "is_jumping") = "scalar" /\ BitIn(t, "is_jumping") = 6
  BY DEF ShapeIn, BitIn, Accessors, PlayerInfo_Accessors, Text, Child, List, Scalar
<1>5. ASSUME NEW f \in Fields(t) PROVE FieldSound(t, f)
  <2>1. ShapeSound(t, f) /\ FreedSound(t, f)
    BY <1>1, <1>4 DEF ShapeSound, FreedSound, Life, PlayerInfo_Life
  <2>2. FreshSound(t, f) /\ SwapSound(t, f)
    BY <1>1, <1>3, <1>4, NoSpanEmpty DEF FreshSound, Life, PlayerInfo_Life, New, PlayerInfo_New,
      DefaultInstance, PlayerInfo_Default, SwapSound, SwapOf, PlayerInfo_Swap
  <2>3. MergeSound(t, f)
    BY <1>1, <1>4 DEF MergeSound, MergeOf, PlayerInfo_Merge, IfNonZero, IfNonEmpty, MergeChild,
      AppendList
  <2>4. CopySound(t, f)
    BY <1>1, <1>3, <1>4, NoSpanEmpty DEF CopySound, Copy, PlayerInfo_Copy
  <2>5. ClearSound(t, f)
    <3>1. \E g \in ClearOf[t] : f \in SpanIn(t, g.span) /\ (g.bits = {} \/ BitIn(t, f) \in g.bits)
      BY <1>1, <1>3, <1>4 DEF ClearOf, PlayerInfo_Clear, When, Always
    <3>2. ASSUME NEW g \in ClearOf[t], f \in SpanIn(t, g.span), ShapeIn(t, f) = "child"
          PROVE  g.bits = {BitIn(t, f)}
      BY <1>1, <1>3, <1>4, <3>2 DEF ClearOf, PlayerInfo_Clear, When, Always
    <3> QED
      BY <3>1, <3>2 DEF ClearSound
  <2> QED
    BY <2>1, <2>2, <2>3, <2>4, <2>5 DEF FieldSound
<1>6. Listed(t)
  BY <1>1 DEF Listed, ProtoFields, PlayerInfo_Proto, Field, Repeated, SerializeOf,
    PlayerInfo_Serialize, ByteSizeOf, PlayerInfo_ByteSize, TableOf, PlayerInfo_Table
<1>7. ASSUME NEW i \in DOMAIN ProtoFields[t]
      PROVE  DeclarationSound(t, ProtoFields[t][i], SerializeOf[t][i])
  <2> DEFINE d == ProtoFields[t][i]
             w == SerializeOf[t][i]
  <2>1. \/ d = Field("player_id", 1, "uint64") /\ w = Write("player_id", 1, 3, "UInt64")
        \/ d = Field("name", 2, "string") /\ w = Write("name", 2, 0, "String")
        \/ d = Field("position", 3, "Vector2") /\ w = Write("position", 3, 1, "Message")
        \/ d = Field("dir", 4, "MoveDir") /\ w = Write("dir", 4, 4, "Enum")
        \/ d = Field("stat", 5, "StatInfo") /\ w = Write("stat", 5, 2, "Message")
        \/ d = Field("is_moving", 6, "bool") /\ w = Write("is_moving", 6, 5, "Bool")
        \/ d = Field("is_jumping", 7, "bool") /\ w = Write("is_jumping", 7, 6, "Bool")
    BY DEF ProtoFields, PlayerInfo_Proto, SerializeOf, PlayerInfo_Serialize
  <2>2. (d.ty \in MessageTypes <=> d.ty \in {"StatInfo", "Vector2"}) /\ (d.ty \in Enums <=> d.ty \in {"MoveDir"})
    BY <2>1 DEF MessageTypes, ProtoFields, Enums, Field, Repeated
  <2> HIDE DEF d, w
  <2>3. WireFormat(d) = w.format /\ (~d.repeated => FormatOf(d.ty) = w.format)
    BY <2>1, <2>2 DEF WireFormat, FormatOf, Write, Field, Repeated
  <2>4. /\ Kind(d) = IF d.repeated THEN "list" ELSE IF ShapeIn(t, d.name) = "child" THEN "child" ELSE "value"
        /\ d.repeated <=> ShapeIn(t, d.name) = "list"
        /\ d.name \in Fields(t)
    BY <1>1, <1>4, <2>1, <2>2 DEF Kind, Field, Repeated
  <2>5. Kind(d) = "value" => w.format \notin {"Message", "RepMessage", "UInt64Packed"}
    BY <2>1, <2>2 DEF Kind, Field, Repeated, Write
  <2>6. /\ w = Write(d.name, d.number, BitIn(t, d.name), w.format)
        /\ ByteSizeOf[t][d.name] = Size(BitIn(t, d.name), w.format)
    BY <1>4, <2>1 DEF ByteSizeOf, PlayerInfo_ByteSize, Size, Write, Field, Repeated
  <2>7. /\ TableOf[t][d.name].number = d.number /\ TableOf[t][d.name].bit = BitIn(t, d.name)
        /\ TableReads(TableOf[t][d.name].kind, d)
    BY <1>4, <2>1, <2>2, <2>3, <2>4 DEF TableReads, FormatRead, TableOf, PlayerInfo_Table, Entry,
      Write, Field, Repeated
  <2> QED
    BY <2>3, <2>4, <2>5, <2>6, <2>7 DEF DeclarationSound, d, w
<1> QED
  BY <1>2, <1>5, <1>6, <1>7 DEF ClassSound

LEMMA CEnterGameSound == ClassSound("C_EnterGame")
<1> DEFINE t == "C_EnterGame"
<1>1. Fields(t) = {"name"}
  BY DEF Fields, Accessors, C_EnterGame_Accessors
<1>2. LaidOut(t)
  BY <1>1 DEF LaidOut, Impl, C_EnterGame_Impl
<1>3. /\ SpanIn(t, <<"name", "name">>) = {"name"}
  <2>1. PlaceIn(t, "name") = 1
    BY DEF PlaceIn, Impl, C_EnterGame_Impl
  <2> QED
    BY <2>1 DEF SpanIn, NoSpan, Impl, C_EnterGame_Impl
<1>4. /\ ShapeIn(t, "name") = "text" /\ BitIn(t, "name") = 0
  BY DEF ShapeIn, BitIn, Accessors, C_EnterGame_Accessors, Text, Child, List, Scalar
<1>5. ASSUME NEW f \in Fields(t) PROVE FieldSound(t, f)
  <2>1. ShapeSound(t, f) /\ FreedSound(t, f)
    BY <1>1, <1>4 DEF ShapeSound, FreedSound, Life, C_EnterGame_Life
  <2>2. FreshSound(t, f) /\ SwapSound(t, f)
    BY <1>1, <1>3, <1>4, NoSpanEmpty DEF FreshSound, Life, C_EnterGame_Life, New, C_EnterGame_New,
      DefaultInstance, C_EnterGame_Default, SwapSound, SwapOf, C_EnterGame_Swap
  <2>3. MergeSound(t, f)
    BY <1>1, <1>4 DEF MergeSound, MergeOf, C_EnterGame_Merge, IfNonZero, IfNonEmpty, MergeChild,
      AppendList
  <2>4. CopySound(t, f)
    BY <1>1, <1>3, <1>4, NoSpanEmpty DEF CopySound, Copy, C_EnterGame_Copy
  <2>5. ClearSound(t, f)
    <3>1. \E g \in ClearOf[t] : f \in SpanIn(t, g.span) /\ (g.bits = {} \/ BitIn(t, f) \in g.bits)
      BY <1>1, <1>3, <1>4 DEF ClearOf, C_EnterGame_Clear, When, Always
    <3>2. ASSUME NEW g \in ClearOf[t], f \in SpanIn(t, g.span), ShapeIn(t, f) = "child"
          PROVE  g.bits = {BitIn(t, f)}
      BY <1>1, <1>3, <1>4, <3>2 DEF ClearOf, C_EnterGame_Clear, When, Always
    <3> QED
      BY <3>1, <3>2 DEF ClearSound
  <2> QED
    BY <2>1, <2>2, <2>3, <2>4, <2>5 DEF FieldSound
<1>6. Listed(t)
  BY <1>1 DEF Listed, ProtoFields, C_EnterGame_Proto, Field, Repeated, SerializeOf,
    C_EnterGame_Serialize, ByteSizeOf, C_EnterGame_ByteSize, TableOf, C_EnterGame_Table
<1>7. ASSUME NEW i \in DOMAIN ProtoFields[t]
      PROVE  DeclarationSound(t, ProtoFields[t][i], SerializeOf[t][i])
  <2> DEFINE d == ProtoFields[t][i]
             w == SerializeOf[t][i]
  <2>1. \/ d = Field("name", 1, "string") /\ w = Write("name", 1, 0, "String")
    BY DEF ProtoFields, C_EnterGame_Proto, SerializeOf, C_EnterGame_Serialize
  <2>2. (d.ty \in MessageTypes <=> d.ty \in {}) /\ (d.ty \in Enums <=> d.ty \in {})
    BY <2>1 DEF MessageTypes, ProtoFields, Enums, Field, Repeated
  <2> HIDE DEF d, w
  <2>3. WireFormat(d) = w.format /\ (~d.repeated => FormatOf(d.ty) = w.format)
    BY <2>1, <2>2 DEF WireFormat, FormatOf, Write, Field, Repeated
  <2>4. /\ Kind(d) = IF d.repeated THEN "list" ELSE IF ShapeIn(t, d.name) = "child" THEN "child" ELSE "value"
        /\ d.repeated <=> ShapeIn(t, d.name) = "list"
        /\ d.name \in Fields(t)
    BY <1>1, <1>4, <2>1, <2>2 DEF Kind, Field, Repeated
  <2>5. Kind(d) = "value" => w.format \notin {"Message", "RepMessage", "UInt64Packed"}
    BY <2>1, <2>2 DEF Kind, Field, Repeated, Write
  <2>6. /\ w = Write(d.name, d.number, BitIn(t, d.name), w.format)
        /\ ByteSizeOf[t][d.name] = Size(BitIn(t, d.name), w.format)
    BY <1>4, <2>1 DEF ByteSizeOf, C_EnterGame_ByteSize, Size, Write, Field, Repeated
  <2>7. /\ TableOf[t][d.name].number = d.number /\ TableOf[t][d.name].bit = BitIn(t, d.name)
        /\ TableReads(TableOf[t][d.name].kind, d)
    BY <1>4, <2>1, <2>2, <2>3, <2>4 DEF TableReads, FormatRead, TableOf, C_EnterGame_Table, Entry,
      Write, Field, Repeated
  <2> QED
    BY <2>3, <2>4, <2>5, <2>6, <2>7 DEF DeclarationSound, d, w
<1> QED
  BY <1>2, <1>5, <1>6, <1>7 DEF ClassSound

LEMMA SEnterGameSound == ClassSound("S_EnterGame")
<1> DEFINE t == "S_EnterGame"
<1>1. Fields(t) = {"error", "my_info", "success"}
  BY DEF Fields, Accessors, S_EnterGame_Accessors
<1>2. LaidOut(t)
  BY <1>1 DEF LaidOut, Impl, S_EnterGame_Impl
<1>3. /\ SpanIn(t, <<"my_info", "success">>) = {"my_info", "success"}
      /\ SpanIn(t, <<"success", "success">>) = {"success"}
      /\ SpanIn(t, <<"error", "error">>) = {"error"}
      /\ SpanIn(t, <<"my_info", "my_info">>) = {"my_info"}
  <2>1. PlaceIn(t, "error") = 1 /\ PlaceIn(t, "my_info") = 2 /\ PlaceIn(t, "success") = 3
    BY DEF PlaceIn, Impl, S_EnterGame_Impl
  <2> QED
    BY <2>1 DEF SpanIn, NoSpan, Impl, S_EnterGame_Impl
<1>4. /\ ShapeIn(t, "error") = "text" /\ BitIn(t, "error") = 0
      /\ ShapeIn(t, "my_info") = "child" /\ BitIn(t, "my_info") = 1
      /\ ShapeIn(t, "success") = "scalar" /\ BitIn(t, "success") = 2
  BY DEF ShapeIn, BitIn, Accessors, S_EnterGame_Accessors, Text, Child, List, Scalar
<1>5. ASSUME NEW f \in Fields(t) PROVE FieldSound(t, f)
  <2>1. ShapeSound(t, f) /\ FreedSound(t, f)
    BY <1>1, <1>4 DEF ShapeSound, FreedSound, Life, S_EnterGame_Life
  <2>2. FreshSound(t, f) /\ SwapSound(t, f)
    BY <1>1, <1>3, <1>4, NoSpanEmpty DEF FreshSound, Life, S_EnterGame_Life, New, S_EnterGame_New,
      DefaultInstance, S_EnterGame_Default, SwapSound, SwapOf, S_EnterGame_Swap
  <2>3. MergeSound(t, f)
    BY <1>1, <1>4 DEF MergeSound, MergeOf, S_EnterGame_Merge, IfNonZero, IfNonEmpty, MergeChild,
      AppendList
  <2>4. CopySound(t, f)
    BY <1>1, <1>3, <1>4, NoSpanEmpty DEF CopySound, Copy, S_EnterGame_Copy
  <2>5. ClearSound(t, f)
    <3>1. \E g \in ClearOf[t] : f \in SpanIn(t, g.span) /\ (g.bits = {} \/ BitIn(t, f) \in g.bits)
      BY <1>1, <1>3, <1>4 DEF ClearOf, S_EnterGame_Clear, When, Always
    <3>2. ASSUME NEW g \in ClearOf[t], f \in SpanIn(t, g.span), ShapeIn(t, f) = "child"
          PROVE  g.bits = {BitIn(t, f)}
      BY <1>1, <1>3, <1>4, <3>2 DEF ClearOf, S_EnterGame_Clear, When, Always
    <3> QED
      BY <3>1, <3>2 DEF ClearSound
  <2> QED
    BY <2>1, <2>2, <2>3, <2>4, <2>5 DEF FieldSound
<1>6. Listed(t)
  BY <1>1 DEF Listed, ProtoFields, S_EnterGame_Proto, Field, Repeated, SerializeOf,
    S_EnterGame_Serialize, ByteSizeOf, S_EnterGame_ByteSize, TableOf, S_EnterGame_Table
<1>7. ASSUME NEW i \in DOMAIN ProtoFields[t]
      PROVE  DeclarationSound(t, ProtoFields[t][i], SerializeOf[t][i])
  <2> DEFINE d == ProtoFields[t][i]
             w == SerializeOf[t][i]
  <2>1. \/ d = Field("success", 1, "bool") /\ w = Write("success", 1, 2, "Bool")
        \/ d = Field("error", 2, "string") /\ w = Write("error", 2, 0, "String")
        \/ d = Field("my_info", 3, "PlayerInfo") /\ w = Write("my_info", 3, 1, "Message")
    BY DEF ProtoFields, S_EnterGame_Proto, SerializeOf, S_EnterGame_Serialize
  <2>2. (d.ty \in MessageTypes <=> d.ty \in {"PlayerInfo"}) /\ (d.ty \in Enums <=> d.ty \in {})
    BY <2>1 DEF MessageTypes, ProtoFields, Enums, Field, Repeated
  <2> HIDE DEF d, w
  <2>3. WireFormat(d) = w.format /\ (~d.repeated => FormatOf(d.ty) = w.format)
    BY <2>1, <2>2 DEF WireFormat, FormatOf, Write, Field, Repeated
  <2>4. /\ Kind(d) = IF d.repeated THEN "list" ELSE IF ShapeIn(t, d.name) = "child" THEN "child" ELSE "value"
        /\ d.repeated <=> ShapeIn(t, d.name) = "list"
        /\ d.name \in Fields(t)
    BY <1>1, <1>4, <2>1, <2>2 DEF Kind, Field, Repeated
  <2>5. Kind(d) = "value" => w.format \notin {"Message", "RepMessage", "UInt64Packed"}
    BY <2>1, <2>2 DEF Kind, Field, Repeated, Write
  <2>6. /\ w = Write(d.name, d.number, BitIn(t, d.name), w.format)
        /\ ByteSizeOf[t][d.name] = Size(BitIn(t, d.name), w.format)
    BY <1>4, <2>1 DEF ByteSizeOf, S_EnterGame_ByteSize, Size, Write, Field, Repeated
  <2>7. /\ TableOf[t][d.name].number = d.number /\ TableOf[t][d.name].bit = BitIn(t, d.name)
        /\ TableReads(TableOf[t][d.name].kind, d)
    BY <1>4, <2>1, <2>2, <2>3, <2>4 DEF TableReads, FormatRead, TableOf, S_EnterGame_Table, Entry,
      Write, Field, Repeated
  <2> QED
    BY <2>3, <2>4, <2>5, <2>6, <2>7 DEF DeclarationSound, d, w
<1> QED
  BY <1>2, <1>5, <1>6, <1>7 DEF ClassSound

LEMMA SSpawnSound == ClassSound("S_Spawn")
<1> DEFINE t == "S_Spawn"
<1>1. Fields(t) = {"players"}
  BY DEF Fields, Accessors, S_Spawn_Accessors
<1>2. LaidOut(t)
  BY <1>1 DEF LaidOut, Impl, S_Spawn_Impl
<1>3. /\ SpanIn(t, <<"players", "players">>) = {"players"}
  <2>1. PlaceIn(t, "players") = 1
    BY DEF PlaceIn, Impl, S_Spawn_Impl
  <2> QED
    BY <2>1 DEF SpanIn, NoSpan, Impl, S_Spawn_Impl
<1>4. /\ ShapeIn(t, "players") = "list" /\ BitIn(t, "players") = 0
  BY DEF ShapeIn, BitIn, Accessors, S_Spawn_Accessors, Text, Child, List, Scalar
<1>5. ASSUME NEW f \in Fields(t) PROVE FieldSound(t, f)
  <2>1. ShapeSound(t, f) /\ FreedSound(t, f)
    BY <1>1, <1>4 DEF ShapeSound, FreedSound, Life, S_Spawn_Life
  <2>2. FreshSound(t, f) /\ SwapSound(t, f)
    BY <1>1, <1>3, <1>4, NoSpanEmpty DEF FreshSound, Life, S_Spawn_Life, New, S_Spawn_New,
      DefaultInstance, S_Spawn_Default, SwapSound, SwapOf, S_Spawn_Swap
  <2>3. MergeSound(t, f)
    BY <1>1, <1>4 DEF MergeSound, MergeOf, S_Spawn_Merge, IfNonZero, IfNonEmpty, MergeChild, AppendList
  <2>4. CopySound(t, f)
    BY <1>1, <1>3, <1>4, NoSpanEmpty DEF CopySound, Copy, S_Spawn_Copy
  <2>5. ClearSound(t, f)
    <3>1. \E g \in ClearOf[t] : f \in SpanIn(t, g.span) /\ (g.bits = {} \/ BitIn(t, f) \in g.bits)
      BY <1>1, <1>3, <1>4 DEF ClearOf, S_Spawn_Clear, When, Always
    <3>2. ASSUME NEW g \in ClearOf[t], f \in SpanIn(t, g.span), ShapeIn(t, f) = "child"
          PROVE  g.bits = {BitIn(t, f)}
      BY <1>1, <1>3, <1>4, <3>2 DEF ClearOf, S_Spawn_Clear, When, Always
    <3> QED
      BY <3>1, <3>2 DEF ClearSound
  <2> QED
    BY <2>1, <2>2, <2>3, <2>4, <2>5 DEF FieldSound
<1>6. Listed(t)
  BY <1>1 DEF Listed, ProtoFields, S_Spawn_Proto, Field, Repeated, SerializeOf, S_Spawn_Serialize,
    ByteSizeOf, S_Spawn_ByteSize, TableOf, S_Spawn_Table
<1>7. ASSUME NEW i \in DOMAIN ProtoFields[t]
      PROVE  DeclarationSound(t, ProtoFields[t][i], SerializeOf[t][i])
  <2> DEFINE d == ProtoFields[t][i]
             w == SerializeOf[t][i]
  <2>1. \/ d = Repeated("players", 1, "PlayerInfo") /\ w = Write("players", 1, 0, "RepMessage")
    BY DEF ProtoFields, S_Spawn_Proto, SerializeOf, S_Spawn_Serialize
  <2>2. (d.ty \in MessageTypes <=> d.ty \in {"PlayerInfo"}) /\ (d.ty \in Enums <=> d.ty \in {})
    BY <2>1 DEF MessageTypes, ProtoFields, Enums, Field, Repeated
  <2> HIDE DEF d, w
  <2>3. WireFormat(d) = w.format /\ (~d.repeated => FormatOf(d.ty) = w.format)
    BY <2>1, <2>2 DEF WireFormat, FormatOf, Write, Field, Repeated
  <2>4. /\ Kind(d) = IF d.repeated THEN "list" ELSE IF ShapeIn(t, d.name) = "child" THEN "child" ELSE "value"
        /\ d.repeated <=> ShapeIn(t, d.name) = "list"
        /\ d.name \in Fields(t)
    BY <1>1, <1>4, <2>1, <2>2 DEF Kind, Field, Repeated
  <2>5. Kind(d) = "value" => w.format \notin {"Message", "RepMessage", "UInt64Packed"}
    BY <2>1, <2>2 DEF Kind, Field, Repeated, Write
  <2>6. /\ w = Write(d.name, d.number, BitIn(t, d.name), w.format)
        /\ ByteSizeOf[t][d.name] = Size(BitIn(t, d.name), w.format)
    BY <1>4, <2>1 DEF ByteSizeOf, S_Spawn_ByteSize, Size, Write, Field, Repeated
  <2>7. /\ TableOf[t][d.name].number = d.number /\ TableOf[t][d.name].bit = BitIn(t, d.name)
        /\ TableReads(TableOf[t][d.name].kind, d)
    BY <1>4, <2>1, <2>2, <2>3, <2>4 DEF TableReads, FormatRead, TableOf, S_Spawn_Table, Entry, Write,
      Field, Repeated
  <2> QED
    BY <2>3, <2>4, <2>5, <2>6, <2>7 DEF DeclarationSound, d, w
<1> QED
  BY <1>2, <1>5, <1>6, <1>7 DEF ClassSound

LEMMA SDespawnSound == ClassSound("S_Despawn")
<1> DEFINE t == "S_Despawn"
<1>1. Fields(t) = {"player_ids"}
  BY DEF Fields, Accessors, S_Despawn_Accessors
<1>2. LaidOut(t)
  BY <1>1 DEF LaidOut, Impl, S_Despawn_Impl
<1>3. /\ SpanIn(t, <<"player_ids", "player_ids">>) = {"player_ids"}
  <2>1. PlaceIn(t, "player_ids") = 1
    BY DEF PlaceIn, Impl, S_Despawn_Impl
  <2> QED
    BY <2>1 DEF SpanIn, NoSpan, Impl, S_Despawn_Impl
<1>4. /\ ShapeIn(t, "player_ids") = "list" /\ BitIn(t, "player_ids") = 0
  BY DEF ShapeIn, BitIn, Accessors, S_Despawn_Accessors, Text, Child, List, Scalar
<1>5. ASSUME NEW f \in Fields(t) PROVE FieldSound(t, f)
  <2>1. ShapeSound(t, f) /\ FreedSound(t, f)
    BY <1>1, <1>4 DEF ShapeSound, FreedSound, Life, S_Despawn_Life
  <2>2. FreshSound(t, f) /\ SwapSound(t, f)
    BY <1>1, <1>3, <1>4, NoSpanEmpty DEF FreshSound, Life, S_Despawn_Life, New, S_Despawn_New,
      DefaultInstance, S_Despawn_Default, SwapSound, SwapOf, S_Despawn_Swap
  <2>3. MergeSound(t, f)
    BY <1>1, <1>4 DEF MergeSound, MergeOf, S_Despawn_Merge, IfNonZero, IfNonEmpty, MergeChild,
      AppendList
  <2>4. CopySound(t, f)
    BY <1>1, <1>3, <1>4, NoSpanEmpty DEF CopySound, Copy, S_Despawn_Copy
  <2>5. ClearSound(t, f)
    <3>1. \E g \in ClearOf[t] : f \in SpanIn(t, g.span) /\ (g.bits = {} \/ BitIn(t, f) \in g.bits)
      BY <1>1, <1>3, <1>4 DEF ClearOf, S_Despawn_Clear, When, Always
    <3>2. ASSUME NEW g \in ClearOf[t], f \in SpanIn(t, g.span), ShapeIn(t, f) = "child"
          PROVE  g.bits = {BitIn(t, f)}
      BY <1>1, <1>3, <1>4, <3>2 DEF ClearOf, S_Despawn_Clear, When, Always
    <3> QED
      BY <3>1, <3>2 DEF ClearSound
  <2> QED
    BY <2>1, <2>2, <2>3, <2>4, <2>5 DEF FieldSound
<1>6. Listed(t)
  BY <1>1 DEF Listed, ProtoFields, S_Despawn_Proto, Field, Repeated, SerializeOf, S_Despawn_Serialize,
    ByteSizeOf, S_Despawn_ByteSize, TableOf, S_Despawn_Table
<1>7. ASSUME NEW i \in DOMAIN ProtoFields[t]
      PROVE  DeclarationSound(t, ProtoFields[t][i], SerializeOf[t][i])
  <2> DEFINE d == ProtoFields[t][i]
             w == SerializeOf[t][i]
  <2>1. \/ d = Repeated("player_ids", 1, "uint64") /\ w = Write("player_ids", 1, 0, "UInt64Packed")
    BY DEF ProtoFields, S_Despawn_Proto, SerializeOf, S_Despawn_Serialize
  <2>2. (d.ty \in MessageTypes <=> d.ty \in {}) /\ (d.ty \in Enums <=> d.ty \in {})
    BY <2>1 DEF MessageTypes, ProtoFields, Enums, Field, Repeated
  <2> HIDE DEF d, w
  <2>3. WireFormat(d) = w.format /\ (~d.repeated => FormatOf(d.ty) = w.format)
    BY <2>1, <2>2 DEF WireFormat, FormatOf, Write, Field, Repeated
  <2>4. /\ Kind(d) = IF d.repeated THEN "list" ELSE IF ShapeIn(t, d.name) = "child" THEN "child" ELSE "value"
        /\ d.repeated <=> ShapeIn(t, d.name) = "list"
        /\ d.name \in Fields(t)
    BY <1>1, <1>4, <2>1, <2>2 DEF Kind, Field, Repeated
  <2>5. Kind(d) = "value" => w.format \notin {"Message", "RepMessage", "UInt64Packed"}
    BY <2>1, <2>2 DEF Kind, Field, Repeated, Write
  <2>6. /\ w = Write(d.name, d.number, BitIn(t, d.name), w.format)
        /\ ByteSizeOf[t][d.name] = Size(BitIn(t, d.name), w.format)
    BY <1>4, <2>1 DEF ByteSizeOf, S_Despawn_ByteSize, Size, Write, Field, Repeated
  <2>7. /\ TableOf[t][d.name].number = d.number /\ TableOf[t][d.name].bit = BitIn(t, d.name)
        /\ TableReads(TableOf[t][d.name].kind, d)
    BY <1>4, <2>1, <2>2, <2>3, <2>4 DEF TableReads, FormatRead, TableOf, S_Despawn_Table, Entry, Write,
      Field, Repeated
  <2> QED
    BY <2>3, <2>4, <2>5, <2>6, <2>7 DEF DeclarationSound, d, w
<1> QED
  BY <1>2, <1>5, <1>6, <1>7 DEF ClassSound

LEMMA SPlayerListSound == ClassSound("S_PlayerList")
<1> DEFINE t == "S_PlayerList"
<1>1. Fields(t) = {"players"}
  BY DEF Fields, Accessors, S_PlayerList_Accessors
<1>2. LaidOut(t)
  BY <1>1 DEF LaidOut, Impl, S_PlayerList_Impl
<1>3. /\ SpanIn(t, <<"players", "players">>) = {"players"}
  <2>1. PlaceIn(t, "players") = 1
    BY DEF PlaceIn, Impl, S_PlayerList_Impl
  <2> QED
    BY <2>1 DEF SpanIn, NoSpan, Impl, S_PlayerList_Impl
<1>4. /\ ShapeIn(t, "players") = "list" /\ BitIn(t, "players") = 0
  BY DEF ShapeIn, BitIn, Accessors, S_PlayerList_Accessors, Text, Child, List, Scalar
<1>5. ASSUME NEW f \in Fields(t) PROVE FieldSound(t, f)
  <2>1. ShapeSound(t, f) /\ FreedSound(t, f)
    BY <1>1, <1>4 DEF ShapeSound, FreedSound, Life, S_PlayerList_Life
  <2>2. FreshSound(t, f) /\ SwapSound(t, f)
    BY <1>1, <1>3, <1>4, NoSpanEmpty DEF FreshSound, Life, S_PlayerList_Life, New, S_PlayerList_New,
      DefaultInstance, S_PlayerList_Default, SwapSound, SwapOf, S_PlayerList_Swap
  <2>3. MergeSound(t, f)
    BY <1>1, <1>4 DEF MergeSound, MergeOf, S_PlayerList_Merge, IfNonZero, IfNonEmpty, MergeChild,
      AppendList
  <2>4. CopySound(t, f)
    BY <1>1, <1>3, <1>4, NoSpanEmpty DEF CopySound, Copy, S_PlayerList_Copy
  <2>5. ClearSound(t, f)
    <3>1. \E g \in ClearOf[t] : f \in SpanIn(t, g.span) /\ (g.bits = {} \/ BitIn(t, f) \in g.bits)
      BY <1>1, <1>3, <1>4 DEF ClearOf, S_PlayerList_Clear, When, Always
    <3>2. ASSUME NEW g \in ClearOf[t], f \in SpanIn(t, g.span), ShapeIn(t, f) = "child"
          PROVE  g.bits = {BitIn(t, f)}
      BY <1>1, <1>3, <1>4, <3>2 DEF ClearOf, S_PlayerList_Clear, When, Always
    <3> QED
      BY <3>1, <3>2 DEF ClearSound
  <2> QED
    BY <2>1, <2>2, <2>3, <2>4, <2>5 DEF FieldSound
<1>6. Listed(t)
  BY <1>1 DEF Listed, ProtoFields, S_PlayerList_Proto, Field, Repeated, SerializeOf,
    S_PlayerList_Serialize, ByteSizeOf, S_PlayerList_ByteSize, TableOf, S_PlayerList_Table
<1>7. ASSUME NEW i \in DOMAIN ProtoFields[t]
      PROVE  DeclarationSound(t, ProtoFields[t][i], SerializeOf[t][i])
  <2> DEFINE d == ProtoFields[t][i]
             w == SerializeOf[t][i]
  <2>1. \/ d = Repeated("players", 1, "PlayerInfo") /\ w = Write("players", 1, 0, "RepMessage")
    BY DEF ProtoFields, S_PlayerList_Proto, SerializeOf, S_PlayerList_Serialize
  <2>2. (d.ty \in MessageTypes <=> d.ty \in {"PlayerInfo"}) /\ (d.ty \in Enums <=> d.ty \in {})
    BY <2>1 DEF MessageTypes, ProtoFields, Enums, Field, Repeated
  <2> HIDE DEF d, w
  <2>3. WireFormat(d) = w.format /\ (~d.repeated => FormatOf(d.ty) = w.format)
    BY <2>1, <2>2 DEF WireFormat, FormatOf, Write, Field, Repeated
  <2>4. /\ Kind(d) = IF d.repeated THEN "list" ELSE IF ShapeIn(t, d.name) = "child" THEN "child" ELSE "value"
        /\ d.repeated <=> ShapeIn(t, d.name) = "list"
        /\ d.name \in Fields(t)
    BY <1>1, <1>4, <2>1, <2>2 DEF Kind, Field, Repeated
  <2>5. Kind(d) = "value" => w.format \notin {"Message", "RepMessage", "UInt64Packed"}
    BY <2>1, <2>2 DEF Kind, Field, Repeated, Write
  <2>6. /\ w = Write(d.name, d.number, BitIn(t, d.name), w.format)
        /\ ByteSizeOf[t][d.name] = Size(BitIn(t, d.name), w.format)
    BY <1>4, <2>1 DEF ByteSizeOf, S_PlayerList_ByteSize, Size, Write, Field, Repeated
  <2>7. /\ TableOf[t][d.name].number = d.number /\ TableOf[t][d.name].bit = BitIn(t, d.name)
        /\ TableReads(TableOf[t][d.name].kind, d)
    BY <1>4, <2>1, <2>2, <2>3, <2>4 DEF TableReads, FormatRead, TableOf, S_PlayerList_Table, Entry,
      Write, Field, Repeated
  <2> QED
    BY <2>3, <2>4, <2>5, <2>6, <2>7 DEF DeclarationSound, d, w
<1> QED
  BY <1>2, <1>5, <1>6, <1>7 DEF ClassSound

LEMMA CLadderStateSound == ClassSound("C_LadderState")
<1> DEFINE t == "C_LadderState"
<1>1. Fields(t) = {"on_ladder", "pos_x", "pos_y", "vel_x", "vel_y"}
  BY DEF Fields, Accessors, C_LadderState_Accessors
<1>2. LaidOut(t)
  BY <1>1 DEF LaidOut, Impl, C_LadderState_Impl
<1>3. /\ SpanIn(t, <<"on_ladder", "vel_y">>) = {"on_ladder", "pos_x", "pos_y", "vel_x", "vel_y"}
  <2>1. PlaceIn(t, "on_ladder") = 1 /\ PlaceIn(t, "pos_x") = 2 /\ PlaceIn(t, "pos_y") = 3 /\
        PlaceIn(t, "vel_x") = 4 /\ PlaceIn(t, "vel_y") = 5
    BY DEF PlaceIn, Impl, C_LadderState_Impl
  <2> QED
    BY <2>1 DEF SpanIn, NoSpan, Impl, C_LadderState_Impl
<1>4. /\ ShapeIn(t, "on_ladder") = "scalar" /\ BitIn(t, "on_ladder") = 0
      /\ ShapeIn(t, "pos_x") = "scalar" /\ BitIn(t, "pos_x") = 1
      /\ ShapeIn(t, "pos_y") = "scalar" /\ BitIn(t, "pos_y") = 2
      /\ ShapeIn(t, "vel_x") = "scalar" /\ BitIn(t, "vel_x") = 3
      /\ ShapeIn(t, "vel_y") = "scalar" /\ BitIn(t, "vel_y") = 4
  BY DEF ShapeIn, BitIn, Accessors, C_LadderState_Accessors, Text, Child, List, Scalar
<1>5. ASSUME NEW f \in Fields(t) PROVE FieldSound(t, f)
  <2>1. ShapeSound(t, f) /\ FreedSound(t, f)
    BY <1>1, <1>4 DEF ShapeSound, FreedSound, Life, C_LadderState_Life
  <2>2. FreshSound(t, f) /\ SwapSound(t, f)
    BY <1>1, <1>3, <1>4, NoSpanEmpty DEF FreshSound, Life, C_LadderState_Life, New, C_LadderState_New,
      DefaultInstance, C_LadderState_Default, SwapSound, SwapOf, C_LadderState_Swap
  <2>3. MergeSound(t, f)
    BY <1>1, <1>4 DEF MergeSound, MergeOf, C_LadderState_Merge, IfNonZero, IfNonEmpty, MergeChild,
      AppendList
  <2>4. CopySound(t, f)
    BY <1>1, <1>4 DEF CopySound, Copy, C_LadderState_Copy, Memberwise
  <2>5. ClearSound(t, f)
    <3>1. \E g \in ClearOf[t] : f \in SpanIn(t, g.span) /\ (g.bits = {} \/ BitIn(t, f) \in g.bits)
      BY <1>1, <1>3, <1>4 DEF ClearOf, C_LadderState_Clear, When, Always
    <3>2. ASSUME NEW g \in ClearOf[t], f \in SpanIn(t, g.span), ShapeIn(t, f) = "child"
          PROVE  g.bits = {BitIn(t, f)}
      BY <1>1, <1>3, <1>4, <3>2 DEF ClearOf, C_LadderState_Clear, When, Always
    <3> QED
      BY <3>1, <3>2 DEF ClearSound
  <2> QED
    BY <2>1, <2>2, <2>3, <2>4, <2>5 DEF FieldSound
<1>6. Listed(t)
  BY <1>1 DEF Listed, ProtoFields, C_LadderState_Proto, Field, Repeated, SerializeOf,
    C_LadderState_Serialize, ByteSizeOf, C_LadderState_ByteSize, TableOf, C_LadderState_Table
<1>7. ASSUME NEW i \in DOMAIN ProtoFields[t]
      PROVE  DeclarationSound(t, ProtoFields[t][i], SerializeOf[t][i])
  <2> DEFINE d == ProtoFields[t][i]
             w == SerializeOf[t][i]
  <2>1. \/ d = Field("on_ladder", 1, "bool") /\ w = Write("on_ladder", 1, 0, "Bool")
        \/ d = Field("pos_x", 2, "float") /\ w = Write("pos_x", 2, 1, "Float")
        \/ d = Field("pos_y", 3, "float") /\ w = Write("pos_y", 3, 2, "Float")
        \/ d = Field("vel_x", 4, "float") /\ w = Write("vel_x", 4, 3, "Float")
        \/ d = Field("vel_y", 5, "float") /\ w = Write("vel_y", 5, 4, "Float")
    BY DEF ProtoFields, C_LadderState_Proto, SerializeOf, C_LadderState_Serialize
  <2>2. (d.ty \in MessageTypes <=> d.ty \in {}) /\ (d.ty \in Enums <=> d.ty \in {})
    BY <2>1 DEF MessageTypes, ProtoFields, Enums, Field, Repeated
  <2> HIDE DEF d, w
  <2>3. WireFormat(d) = w.format /\ (~d.repeated => FormatOf(d.ty) = w.format)
    BY <2>1, <2>2 DEF WireFormat, FormatOf, Write, Field, Repeated
  <2>4. /\ Kind(d) = IF d.repeated THEN "list" ELSE IF ShapeIn(t, d.name) = "child" THEN "child" ELSE "value"
        /\ d.repeated <=> ShapeIn(t, d.name) = "list"
        /\ d.name \in Fields(t)
    BY <1>1, <1>4, <2>1, <2>2 DEF Kind, Field, Repeated
  <2>5. Kind(d) = "value" => w.format \notin {"Message", "RepMessage", "UInt64Packed"}
    BY <2>1, <2>2 DEF Kind, Field, Repeated, Write
  <2>6. /\ w = Write(d.name, d.number, BitIn(t, d.name), w.format)
        /\ ByteSizeOf[t][d.name] = Size(BitIn(t, d.name), w.format)
    BY <1>4, <2>1 DEF ByteSizeOf, C_LadderState_ByteSize, Size, Write, Field, Repeated
  <2>7. /\ TableOf[t][d.name].number = d.number /\ TableOf[t][d.name].bit = BitIn(t, d.name)
        /\ TableReads(TableOf[t][d.name].kind, d)
    BY <1>4, <2>1, <2>2, <2>3, <2>4 DEF TableReads, FormatRead, TableOf, C_LadderState_Table, Entry,
      Write, Field, Repeated
  <2> QED
    BY <2>3, <2>4, <2>5, <2>6, <2>7 DEF DeclarationSound, d, w
<1> QED
  BY <1>2, <1>5, <1>6, <1>7 DEF ClassSound

LEMMA CInputCmdSound == ClassSound("C_InputCmd")
<1> DEFINE t == "C_InputCmd"
<1>1. Fields(t) = {"input_seq", "delta_time", "move_left", "move_right", "jump", "drop_through",
                  "face_dir", "move_up", "move_down"}
  BY DEF Fields, Accessors, C_InputCmd_Accessors
<1>2. LaidOut(t)
  BY <1>1 DEF LaidOut, Impl, C_InputCmd_Impl
<1>3. /\ SpanIn(t, <<"input_seq", "move_down">>) = {"input_seq", "delta_time", "move_left",
              "move_right", "jump", "drop_through", "face_dir", "move_up", "move_down"}
      /\ SpanIn(t, <<"input_seq", "move_up">>) = {"input_seq", "delta_time", "move_left", "move_right",
              "jump", "drop_through", "face_dir", "move_up"}
      /\ SpanIn(t, <<"move_down", "move_down">>) = {"move_down"}
  <2>1. PlaceIn(t, "input_seq") = 1 /\ PlaceIn(t, "delta_time") = 2 /\ PlaceIn(t, "move_left") = 3 /\
        PlaceIn(t, "move_right") = 4 /\ PlaceIn(t, "jump") = 5 /\ PlaceIn(t, "drop_through") = 6 /\
        PlaceIn(t, "face_dir") = 7 /\ PlaceIn(t, "move_up") = 8 /\ PlaceIn(t, "move_down") = 9
    BY DEF PlaceIn, Impl, C_InputCmd_Impl
  <2> QED
    BY <2>1 DEF SpanIn, NoSpan, Impl, C_InputCmd_Impl
<1>4. /\ ShapeIn(t, "input_seq") = "scalar" /\ BitIn(t, "input_seq") = 0
      /\ ShapeIn(t, "delta_time") = "scalar" /\ BitIn(t, "delta_time") = 1
      /\ ShapeIn(t, "move_left") = "scalar" /\ BitIn(t, "move_left") = 2
      /\ ShapeIn(t, "move_right") = "scalar" /\ BitIn(t, "move_right") = 3
      /\ ShapeIn(t, "jump") = "scalar" /\ BitIn(t, "jump") = 4
      /\ ShapeIn(t, "drop_through") = "scalar" /\ BitIn(t, "drop_through") = 5
      /\ ShapeIn(t, "face_dir") = "scalar" /\ BitIn(t, "face_dir") = 6
      /\ ShapeIn(t, "move_up") = "scalar" /\ BitIn(t, "move_up") = 7
      /\ ShapeIn(t, "move_down") = "scalar" /\ BitIn(t, "move_down") = 8
  BY DEF ShapeIn, BitIn, Accessors, C_InputCmd_Accessors, Text, Child, List, Scalar
<1>5. ASSUME NEW f \in Fields(t) PROVE FieldSound(t, f)
  <2>1. ShapeSound(t, f) /\ FreedSound(t, f)
    BY <1>1, <1>4 DEF ShapeSound, FreedSound, Life, C_InputCmd_Life
  <2>2. FreshSound(t, f) /\ SwapSound(t, f)
    BY <1>1, <1>3, <1>4, NoSpanEmpty DEF FreshSound, Life, C_InputCmd_Life, New, C_InputCmd_New,
      DefaultInstance, C_InputCmd_Default, SwapSound, SwapOf, C_InputCmd_Swap
  <2>3. MergeSound(t, f)
    BY <1>1, <1>4 DEF MergeSound, MergeOf, C_InputCmd_Merge, IfNonZero, IfNonEmpty, MergeChild,
      AppendList
  <2>4. CopySound(t, f)
    BY <1>1, <1>4 DEF CopySound, Copy, C_InputCmd_Copy, Memberwise
  <2>5. ClearSound(t, f)
    <3>1. \E g \in ClearOf[t] : f \in SpanIn(t, g.span) /\ (g.bits = {} \/ BitIn(t, f) \in g.bits)
      BY <1>1, <1>3, <1>4 DEF ClearOf, C_InputCmd_Clear, When, Always
    <3>2. ASSUME NEW g \in ClearOf[t], f \in SpanIn(t, g.span), ShapeIn(t, f) = "child"
          PROVE  g.bits = {BitIn(t, f)}
      BY <1>1, <1>3, <1>4, <3>2 DEF ClearOf, C_InputCmd_Clear, When, Always
    <3> QED
      BY <3>1, <3>2 DEF ClearSound
  <2> QED
    BY <2>1, <2>2, <2>3, <2>4, <2>5 DEF FieldSound
<1>6. Listed(t)
  BY <1>1 DEF Listed, ProtoFields, C_InputCmd_Proto, Field, Repeated, SerializeOf,
    C_InputCmd_Serialize, ByteSizeOf, C_InputCmd_ByteSize, TableOf, C_InputCmd_Table
<1>7. ASSUME NEW i \in DOMAIN ProtoFields[t]
      PROVE  DeclarationSound(t, ProtoFields[t][i], SerializeOf[t][i])
  <2> DEFINE d == ProtoFields[t][i]
             w == SerializeOf[t][i]
  <2>1. \/ d = Field("input_seq", 1, "uint32") /\ w = Write("input_seq", 1, 0, "UInt32")
        \/ d = Field("delta_time", 2, "float") /\ w = Write("delta_time", 2, 1, "Float")
        \/ d = Field("move_left", 3, "bool") /\ w = Write("move_left", 3, 2, "Bool")
        \/ d = Field("move_right", 4, "bool") /\ w = Write("move_right", 4, 3, "Bool")
        \/ d = Field("jump", 5, "bool") /\ w = Write("jump", 5, 4, "Bool")
        \/ d = Field("drop_through", 6, "bool") /\ w = Write("drop_through", 6, 5, "Bool")
        \/ d = Field("face_dir", 7, "MoveDir") /\ w = Write("face_dir", 7, 6, "Enum")
        \/ d = Field("move_up", 8, "bool") /\ w = Write("move_up", 8, 7, "Bool")
        \/ d = Field("move_down", 9, "bool") /\ w = Write("move_down", 9, 8, "Bool")
    BY DEF ProtoFields, C_InputCmd_Proto, SerializeOf, C_InputCmd_Serialize
  <2>2. (d.ty \in MessageTypes <=> d.ty \in {}) /\ (d.ty \in Enums <=> d.ty \in {"MoveDir"})
    BY <2>1 DEF MessageTypes, ProtoFields, Enums, Field, Repeated
  <2> HIDE DEF d, w
  <2>3. WireFormat(d) = w.format /\ (~d.repeated => FormatOf(d.ty) = w.format)
    BY <2>1, <2>2 DEF WireFormat, FormatOf, Write, Field, Repeated
  <2>4. /\ Kind(d) = IF d.repeated THEN "list" ELSE IF ShapeIn(t, d.name) = "child" THEN "child" ELSE "value"
        /\ d.repeated <=> ShapeIn(t, d.name) = "list"
        /\ d.name \in Fields(t)
    BY <1>1, <1>4, <2>1, <2>2 DEF Kind, Field, Repeated
  <2>5. Kind(d) = "value" => w.format \notin {"Message", "RepMessage", "UInt64Packed"}
    BY <2>1, <2>2 DEF Kind, Field, Repeated, Write
  <2>6. /\ w = Write(d.name, d.number, BitIn(t, d.name), w.format)
        /\ ByteSizeOf[t][d.name] = Size(BitIn(t, d.name), w.format)
    BY <1>4, <2>1 DEF ByteSizeOf, C_InputCmd_ByteSize, Size, Write, Field, Repeated
  <2>7. /\ TableOf[t][d.name].number = d.number /\ TableOf[t][d.name].bit = BitIn(t, d.name)
        /\ TableReads(TableOf[t][d.name].kind, d)
    BY <1>4, <2>1, <2>2, <2>3, <2>4 DEF TableReads, FormatRead, TableOf, C_InputCmd_Table, Entry,
      Write, Field, Repeated
  <2> QED
    BY <2>3, <2>4, <2>5, <2>6, <2>7 DEF DeclarationSound, d, w
<1> QED
  BY <1>2, <1>5, <1>6, <1>7 DEF ClassSound

LEMMA SPlayerStateSound == ClassSound("S_PlayerState")
<1> DEFINE t == "S_PlayerState"
<1>1. Fields(t) = {"position", "velocity", "player_id", "last_processed_input_seq", "dir",
                  "is_grounded", "is_moving", "is_jumping", "is_on_ladder"}
  BY DEF Fields, Accessors, S_PlayerState_Accessors
<1>2. LaidOut(t)
  BY <1>1 DEF LaidOut, Impl, S_PlayerState_Impl
<1>3. /\ SpanIn(t, <<"position", "is_on_ladder">>) = {"position", "velocity", "player_id",
              "last_processed_input_seq", "dir", "is_grounded", "is_moving", "is_jumping",
              "is_on_ladder"}
      /\ SpanIn(t, <<"player_id", "is_on_ladder">>) = {"player_id", "last_processed_input_seq", "dir",
              "is_grounded", "is_moving", "is_jumping", "is_on_ladder"}
      /\ SpanIn(t, <<"position", "position">>) = {"position"}
      /\ SpanIn(t, <<"velocity", "velocity">>) = {"velocity"}
      /\ SpanIn(t, <<"player_id", "is_jumping">>) = {"player_id", "last_processed_input_seq", "dir",
              "is_grounded", "is_moving", "is_jumping"}
      /\ SpanIn(t, <<"is_on_ladder", "is_on_ladder">>) = {"is_on_ladder"}
  <2>1. PlaceIn(t, "position") = 1 /\ PlaceIn(t, "velocity") = 2 /\ PlaceIn(t, "player_id") = 3 /\
        PlaceIn(t, "last_processed_input_seq") = 4 /\ PlaceIn(t, "dir") = 5 /\
        PlaceIn(t, "is_grounded") = 6 /\ PlaceIn(t, "is_moving") = 7 /\ PlaceIn(t, "is_jumping") = 8 /\
        PlaceIn(t, "is_on_ladder") = 9
    BY DEF PlaceIn, Impl, S_PlayerState_Impl
  <2> QED
    BY <2>1 DEF SpanIn, NoSpan, Impl, S_PlayerState_Impl
<1>4. /\ ShapeIn(t, "position") = "child" /\ BitIn(t, "position") = 0
      /\ ShapeIn(t, "velocity") = "child" /\ BitIn(t, "velocity") = 1
      /\ ShapeIn(t, "player_id") = "scalar" /\ BitIn(t, "player_id") = 2
      /\ ShapeIn(t, "last_processed_input_seq") = "scalar" /\ BitIn(t, "last_processed_input_seq") = 3
      /\ ShapeIn(t, "dir") = "scalar" /\ BitIn(t, "dir") = 4
      /\ ShapeIn(t, "is_grounded") = "scalar" /\ BitIn(t, "is_grounded") = 5
      /\ ShapeIn(t, "is_moving") = "scalar" /\ BitIn(t, "is_moving") = 6
      /\ ShapeIn(t, "is_jumping") = "scalar" /\ BitIn(t, "is_jumping") = 7
      /\ ShapeIn(t, "is_on_ladder") = "scalar" /\ BitIn(t, "is_on_ladder") = 8
  BY DEF ShapeIn, BitIn, Accessors, S_PlayerState_Accessors, Text, Child, List, Scalar
<1>5. ASSUME NEW f \in Fields(t) PROVE FieldSound(t, f)
  <2>1. ShapeSound(t, f) /\ FreedSound(t, f)
    BY <1>1, <1>4 DEF ShapeSound, FreedSound, Life, S_PlayerState_Life
  <2>2. FreshSound(t, f) /\ SwapSound(t, f)
    BY <1>1, <1>3, <1>4, NoSpanEmpty DEF FreshSound, Life, S_PlayerState_Life, New, S_PlayerState_New,
      DefaultInstance, S_PlayerState_Default, SwapSound, SwapOf, S_PlayerState_Swap
  <2>3. MergeSound(t, f)
    BY <1>1, <1>4 DEF MergeSound, MergeOf, S_PlayerState_Merge, IfNonZero, IfNonEmpty, MergeChild,
      AppendList
  <2>4. CopySound(t, f)
    BY <1>1, <1>3, <1>4, NoSpanEmpty DEF CopySound, Copy, S_PlayerState_Copy
  <2>5. ClearSound(t, f)
    <3>1. \E g \in ClearOf[t] : f \in SpanIn(t, g.span) /\ (g.bits = {} \/ BitIn(t, f) \in g.bits)
      BY <1>1, <1>3, <1>4 DEF ClearOf, S_PlayerState_Clear, When, Always
    <3>2. ASSUME NEW g \in ClearOf[t], f \in SpanIn(t, g.span), ShapeIn(t, f) = "child"
          PROVE  g.bits = {BitIn(t, f)}
      BY <1>1, <1>3, <1>4, <3>2 DEF ClearOf, S_PlayerState_Clear, When, Always
    <3> QED
      BY <3>1, <3>2 DEF ClearSound
  <2> QED
    BY <2>1, <2>2, <2>3, <2>4, <2>5 DEF FieldSound
<1>6. Listed(t)
  BY <1>1 DEF Listed, ProtoFields, S_PlayerState_Proto, Field, Repeated, SerializeOf,
    S_PlayerState_Serialize, ByteSizeOf, S_PlayerState_ByteSize, TableOf, S_PlayerState_Table
<1>7. ASSUME NEW i \in DOMAIN ProtoFields[t]
      PROVE  DeclarationSound(t, ProtoFields[t][i], SerializeOf[t][i])
  <2> DEFINE d == ProtoFields[t][i]
             w == SerializeOf[t][i]
  <2>1. \/ d = Field("player_id", 1, "uint64") /\ w = Write("player_id", 1, 2, "UInt64")
        \/ d = Field("last_processed_input_seq", 2, "uint32") /\ w = Write("last_processed_input_seq", 2, 3, "UInt32")
        \/ d = Field("position", 3, "Vector2") /\ w = Write("position", 3, 0, "Message")
        \/ d = Field("velocity", 4, "Vector2") /\ w = Write("velocity", 4, 1, "Message")
        \/ d = Field("is_grounded", 5, "bool") /\ w = Write("is_grounded", 5, 5, "Bool")
        \/ d = Field("dir", 6, "MoveDir") /\ w = Write("dir", 6, 4, "Enum")
        \/ d = Field("is_moving", 7, "bool") /\ w = Write("is_moving", 7, 6, "Bool")
        \/ d = Field("is_jumping", 8, "bool") /\ w = Write("is_jumping", 8, 7, "Bool")
        \/ d = Field("is_on_ladder", 9, "bool") /\ w = Write("is_on_ladder", 9, 8, "Bool")
    BY DEF ProtoFields, S_PlayerState_Proto, SerializeOf, S_PlayerState_Serialize
  <2>2. (d.ty \in MessageTypes <=> d.ty \in {"Vector2"}) /\ (d.ty \in Enums <=> d.ty \in {"MoveDir"})
    BY <2>1 DEF MessageTypes, ProtoFields, Enums, Field, Repeated
  <2> HIDE DEF d, w
  <2>3. WireFormat(d) = w.format /\ (~d.repeated => FormatOf(d.ty) = w.format)
    BY <2>1, <2>2 DEF WireFormat, FormatOf, Write, Field, Repeated
  <2>4. /\ Kind(d) = IF d.repeated THEN "list" ELSE IF ShapeIn(t, d.name) = "child" THEN "child" ELSE "value"
        /\ d.repeated <=> ShapeIn(t, d.name) = "list"
        /\ d.name \in Fields(t)
    BY <1>1, <1>4, <2>1, <2>2 DEF Kind, Field, Repeated
  <2>5. Kind(d) = "value" => w.format \notin {"Message", "RepMessage", "UInt64Packed"}
    BY <2>1, <2>2 DEF Kind, Field, Repeated, Write
  <2>6. /\ w = Write(d.name, d.number, BitIn(t, d.name), w.format)
        /\ ByteSizeOf[t][d.name] = Size(BitIn(t, d.name), w.format)
    BY <1>4, <2>1 DEF ByteSizeOf, S_PlayerState_ByteSize, Size, Write, Field, Repeated
  <2>7. /\ TableOf[t][d.name].number = d.number /\ TableOf[t][d.name].bit = BitIn(t, d.name)
        /\ TableReads(TableOf[t][d.name].kind, d)
    BY <1>4, <2>1, <2>2, <2>3, <2>4 DEF TableReads, FormatRead, TableOf, S_PlayerState_Table, Entry,
      Write, Field, Repeated
  <2> QED
    BY <2>3, <2>4, <2>5, <2>6, <2>7 DEF DeclarationSound, d, w
<1> QED
  BY <1>2, <1>5, <1>6, <1>7 DEF ClassSound

LEMMA SBroadcastMoveSound == ClassSound("S_BroadcastMove")
<1> DEFINE t == "S_BroadcastMove"
<1>1. Fields(t) = {"position", "velocity", "player_id", "dir", "is_grounded", "is_moving",
                  "is_jumping", "is_crouching", "server_tick", "is_on_ladder"}
  BY DEF Fields, Accessors, S_BroadcastMove_Accessors
<1>2. LaidOut(t)
  BY <1>1 DEF LaidOut, Impl, S_BroadcastMove_Impl
<1>3. /\ SpanIn(t, <<"position", "is_on_ladder">>) = {"position", "velocity", "player_id", "dir",
              "is_grounded", "is_moving", "is_jumping", "is_crouching", "server_tick", "is_on_ladder"}
      /\ SpanIn(t, <<"player_id", "is_on_ladder">>) = {"player_id", "dir", "is_grounded", "is_moving",
              "is_jumping", "is_crouching", "server_tick", "is_on_ladder"}
      /\ SpanIn(t, <<"position", "position">>) = {"position"}
      /\ SpanIn(t, <<"velocity", "velocity">>) = {"velocity"}
      /\ SpanIn(t, <<"player_id", "is_crouching">>) = {"player_id", "dir", "is_grounded", "is_moving",
              "is_jumping", "is_crouching"}
      /\ SpanIn(t, <<"server_tick", "is_on_ladder">>) = {"server_tick", "is_on_ladder"}
  <2>1. PlaceIn(t, "position") = 1 /\ PlaceIn(t, "velocity") = 2 /\ PlaceIn(t, "player_id") = 3 /\
        PlaceIn(t, "dir") = 4 /\ PlaceIn(t, "is_grounded") = 5 /\ PlaceIn(t, "is_moving") = 6 /\
        PlaceIn(t, "is_jumping") = 7 /\ PlaceIn(t, "is_crouching") = 8 /\
        PlaceIn(t, "server_tick") = 9 /\ PlaceIn(t, "is_on_ladder") = 10
    BY DEF PlaceIn, Impl, S_BroadcastMove_Impl
  <2> QED
    BY <2>1 DEF SpanIn, NoSpan, Impl, S_BroadcastMove_Impl
<1>4. /\ ShapeIn(t, "position") = "child" /\ BitIn(t, "position") = 0
      /\ ShapeIn(t, "velocity") = "child" /\ BitIn(t, "velocity") = 1
      /\ ShapeIn(t, "player_id") = "scalar" /\ BitIn(t, "player_id") = 2
      /\ ShapeIn(t, "dir") = "scalar" /\ BitIn(t, "dir") = 3
      /\ ShapeIn(t, "is_grounded") = "scalar" /\ BitIn(t, "is_grounded") = 4
      /\ ShapeIn(t, "is_moving") = "scalar" /\ BitIn(t, "is_moving") = 5
      /\ ShapeIn(t, "is_jumping") = "scalar" /\ BitIn(t, "is_jumping") = 6
      /\ ShapeIn(t, "is_crouching") = "scalar" /\ BitIn(t, "is_crouching") = 7
      /\ ShapeIn(t, "server_tick") = "scalar" /\ BitIn(t, "server_tick") = 8
      /\ ShapeIn(t, "is_on_ladder") = "scalar" /\ BitIn(t, "is_on_ladder") = 9
  BY DEF ShapeIn, BitIn, Accessors, S_BroadcastMove_Accessors, Text, Child, List, Scalar
<1>5. ASSUME NEW f \in Fields(t) PROVE FieldSound(t, f)
  <2>1. ShapeSound(t, f) /\ FreedSound(t, f)
    BY <1>1, <1>4 DEF ShapeSound, FreedSound, Life, S_BroadcastMove_Life
  <2>2. FreshSound(t, f) /\ SwapSound(t, f)
    BY <1>1, <1>3, <1>4, NoSpanEmpty DEF FreshSound, Life, S_BroadcastMove_Life, New,
      S_BroadcastMove_New, DefaultInstance, S_BroadcastMove_Default, SwapSound, SwapOf,
      S_BroadcastMove_Swap
  <2>3. MergeSound(t, f)
    BY <1>1, <1>4 DEF MergeSound, MergeOf, S_BroadcastMove_Merge, IfNonZero, IfNonEmpty, MergeChild,
      AppendList
  <2>4. CopySound(t, f)
    BY <1>1, <1>3, <1>4, NoSpanEmpty DEF CopySound, Copy, S_BroadcastMove_Copy
  <2>5. ClearSound(t, f)
    <3>1. \E g \in ClearOf[t] : f \in SpanIn(t, g.span) /\ (g.bits = {} \/ BitIn(t, f) \in g.bits)
      BY <1>1, <1>3, <1>4 DEF ClearOf, S_BroadcastMove_Clear, When, Always
    <3>2. ASSUME NEW g \in ClearOf[t], f \in SpanIn(t, g.span), ShapeIn(t, f) = "child"
          PROVE  g.bits = {BitIn(t, f)}
      BY <1>1, <1>3, <1>4, <3>2 DEF ClearOf, S_BroadcastMove_Clear, When, Always
    <3> QED
      BY <3>1, <3>2 DEF ClearSound
  <2> QED
    BY <2>1, <2>2, <2>3, <2>4, <2>5 DEF FieldSound
<1>6. Listed(t)
  BY <1>1 DEF Listed, ProtoFields, S_BroadcastMove_Proto, Field, Repeated, SerializeOf,
    S_BroadcastMove_Serialize, ByteSizeOf, S_BroadcastMove_ByteSize, TableOf, S_BroadcastMove_Table
<1>7. ASSUME NEW i \in DOMAIN ProtoFields[t]
      PROVE  DeclarationSound(t, ProtoFields[t][i], SerializeOf[t][i])
  <2> DEFINE d == ProtoFields[t][i]
             w == SerializeOf[t][i]
  <2>1. \/ d = Field("player_id", 1, "uint64") /\ w = Write("player_id", 1, 2, "UInt64")
        \/ d = Field("position", 2, "Vector2") /\ w = Write("position", 2, 0, "Message")
        \/ d = Field("velocity", 3, "Vector2") /\ w = Write("velocity", 3, 1, "Message")
        \/ d = Field("dir", 4, "MoveDir") /\ w = Write("dir", 4, 3, "Enum")
        \/ d = Field("is_grounded", 5, "bool") /\ w = Write("is_grounded", 5, 4, "Bool")
        \/ d = Field("is_moving", 6, "bool") /\ w = Write("is_moving", 6, 5, "Bool")
        \/ d = Field("is_jumping", 7, "bool") /\ w = Write("is_jumping", 7, 6, "Bool")
        \/ d = Field("server_tick", 8, "uint32") /\ w = Write("server_tick", 8, 8, "UInt32")
        \/ d = Field("is_crouching", 9, "bool") /\ w = Write("is_crouching", 9, 7, "Bool")
        \/ d = Field("is_on_ladder", 10, "bool") /\ w = Write("is_on_ladder", 10, 9, "Bool")
    BY DEF ProtoFields, S_BroadcastMove_Proto, SerializeOf, S_BroadcastMove_Serialize
  <2>2. (d.ty \in MessageTypes <=> d.ty \in {"Vector2"}) /\ (d.ty \in Enums <=> d.ty \in {"MoveDir"})
    BY <2>1 DEF MessageTypes, ProtoFields, Enums, Field, Repeated
  <2> HIDE DEF d, w
  <2>3. WireFormat(d) = w.format /\ (~d.repeated => FormatOf(d.ty) = w.format)
    BY <2>1, <2>2 DEF WireFormat, FormatOf, Write, Field, Repeated
  <2>4. /\ Kind(d) = IF d.repeated THEN "list" ELSE IF ShapeIn(t, d.name) = "child" THEN "child" ELSE "value"
        /\ d.repeated <=> ShapeIn(t, d.name) = "list"
        /\ d.name \in Fields(t)
    BY <1>1, <1>4, <2>1, <2>2 DEF Kind, Field, Repeated
  <2>5. Kind(d) = "value" => w.format \notin {"Message", "RepMessage", "UInt64Packed"}
    BY <2>1, <2>2 DEF Kind, Field, Repeated, Write
  <2>6. /\ w = Write(d.name, d.number, BitIn(t, d.name), w.format)
        /\ ByteSizeOf[t][d.name] = Size(BitIn(t, d.name), w.format)
    BY <1>4, <2>1 DEF ByteSizeOf, S_BroadcastMove_ByteSize, Size, Write, Field, Repeated
  <2>7. /\ TableOf[t][d.name].number = d.number /\ TableOf[t][d.name].bit = BitIn(t, d.name)
        /\ TableReads(TableOf[t][d.name].kind, d)
    BY <1>4, <2>1, <2>2, <2>3, <2>4 DEF TableReads, FormatRead, TableOf, S_BroadcastMove_Table, Entry,
      Write, Field, Repeated
  <2> QED
    BY <2>3, <2>4, <2>5, <2>6, <2>7 DEF DeclarationSound, d, w
<1> QED
  BY <1>2, <1>5, <1>6, <1>7 DEF ClassSound

LEMMA CAttackSound == ClassSound("C_Attack")
<1> DEFINE t == "C_Attack"
<1>1. Fields(t) = {"aim_dir", "input_seq", "attack_type", "skill_id"}
  BY DEF Fields, Accessors, C_Attack_Accessors
<1>2. LaidOut(t)
  BY <1>1 DEF LaidOut, Impl, C_Attack_Impl
<1>3. /\ SpanIn(t, <<"aim_dir", "skill_id">>) = {"aim_dir", "input_seq", "attack_type", "skill_id"}
      /\ SpanIn(t, <<"input_seq", "skill_id">>) = {"input_seq", "attack_type", "skill_id"}
      /\ SpanIn(t, <<"aim_dir", "aim_dir">>) = {"aim_dir"}
  <2>1. PlaceIn(t, "aim_dir") = 1 /\ PlaceIn(t, "input_seq") = 2 /\ PlaceIn(t, "attack_type") = 3 /\
        PlaceIn(t, "skill_id") = 4
    BY DEF PlaceIn, Impl, C_Attack_Impl
  <2> QED
    BY <2>1 DEF SpanIn, NoSpan, Impl, C_Attack_Impl
<1>4. /\ ShapeIn(t, "aim_dir") = "child" /\ BitIn(t, "aim_dir") = 0
      /\ ShapeIn(t, "input_seq") = "scalar" /\ BitIn(t, "input_seq") = 1
      /\ ShapeIn(t, "attack_type") = "scalar" /\ BitIn(t, "attack_type") = 2
      /\ ShapeIn(t, "skill_id") = "scalar" /\ BitIn(t, "skill_id") = 3
  BY DEF ShapeIn, BitIn, Accessors, C_Attack_Accessors, Text, Child, List, Scalar
<1>5. ASSUME NEW f \in Fields(t) PROVE FieldSound(t, f)
  <2>1. ShapeSound(t, f) /\ FreedSound(t, f)
    BY <1>1, <1>4 DEF ShapeSound, FreedSound, Life, C_Attack_Life
  <2>2. FreshSound(t, f) /\ SwapSound(t, f)
    BY <1>1, <1>3, <1>4, NoSpanEmpty DEF FreshSound, Life, C_Attack_Life, New, C_Attack_New,
      DefaultInstance, C_Attack_Default, SwapSound, SwapOf, C_Attack_Swap
  <2>3. MergeSound(t, f)
    BY <1>1, <1>4 DEF MergeSound, MergeOf, C_Attack_Merge, IfNonZero, IfNonEmpty, MergeChild,
      AppendList
  <2>4. CopySound(t, f)
    BY <1>1, <1>3, <1>4, NoSpanEmpty DEF CopySound, Copy, C_Attack_Copy
  <2>5. ClearSound(t, f)
    <3>1. \E g \in ClearOf[t] : f \in SpanIn(t, g.span) /\ (g.bits = {} \/ BitIn(t, f) \in g.bits)
      BY <1>1, <1>3, <1>4 DEF ClearOf, C_Attack_Clear, When, Always
    <3>2. ASSUME NEW g \in ClearOf[t], f \in SpanIn(t, g.span), ShapeIn(t, f) = "child"
          PROVE  g.bits = {BitIn(t, f)}
      BY <1>1, <1>3, <1>4, <3>2 DEF ClearOf, C_Attack_Clear, When, Always
    <3> QED
      BY <3>1, <3>2 DEF ClearSound
  <2> QED
    BY <2>1, <2>2, <2>3, <2>4, <2>5 DEF FieldSound
<1>6. Listed(t)
  BY <1>1 DEF Listed, ProtoFields, C_Attack_Proto, Field, Repeated, SerializeOf, C_Attack_Serialize,
    ByteSizeOf, C_Attack_ByteSize, TableOf, C_Attack_Table
<1>7. ASSUME NEW i \in DOMAIN ProtoFields[t]
      PROVE  DeclarationSound(t, ProtoFields[t][i], SerializeOf[t][i])
  <2> DEFINE d == ProtoFields[t][i]
             w == SerializeOf[t][i]
  <2>1. \/ d = Field("input_seq", 1, "uint32") /\ w = Write("input_seq", 1, 1, "UInt32")
        \/ d = Field("attack_type", 2, "AttackType") /\ w = Write("attack_type", 2, 2, "Enum")
        \/ d = Field("skill_id", 3, "uint32") /\ w = Write("skill_id", 3, 3, "UInt32")
        \/ d = Field("aim_dir", 4, "Vector2") /\ w = Write("aim_dir", 4, 0, "Message")
    BY DEF ProtoFields, C_Attack_Proto, SerializeOf, C_Attack_Serialize
  <2>2. (d.ty \in MessageTypes <=> d.ty \in {"Vector2"}) /\ (d.ty \in Enums <=> d.ty \in {"AttackType"})
    BY <2>1 DEF MessageTypes, ProtoFields, Enums, Field, Repeated
  <2> HIDE DEF d, w
  <2>3. WireFormat(d) = w.format /\ (~d.repeated => FormatOf(d.ty) = w.format)
    BY <2>1, <2>2 DEF WireFormat, FormatOf, Write, Field, Repeated
  <2>4. /\ Kind(d) = IF d.repeated THEN "list" ELSE IF ShapeIn(t, d.name) = "child" THEN "child" ELSE "value"
        /\ d.repeated <=> ShapeIn(t, d.name) = "list"
        /\ d.name \in Fields(t)
    BY <1>1, <1>4, <2>1, <2>2 DEF Kind, Field, Repeated
  <2>5. Kind(d) = "value" => w.format \notin {"Message", "RepMessage", "UInt64Packed"}
    BY <2>1, <2>2 DEF Kind, Field, Repeated, Write
  <2>6. /\ w = Write(d.name, d.number, BitIn(t, d.name), w.format)
        /\ ByteSizeOf[t][d.name] = Size(BitIn(t, d.name), w.format)
    BY <1>4, <2>1 DEF ByteSizeOf, C_Attack_ByteSize, Size, Write, Field, Repeated
  <2>7. /\ TableOf[t][d.name].number = d.number /\ TableOf[t][d.name].bit = BitIn(t, d.name)
        /\ TableReads(TableOf[t][d.name].kind, d)
    BY <1>4, <2>1, <2>2, <2>3, <2>4 DEF TableReads, FormatRead, TableOf, C_Attack_Table, Entry, Write,
      Field, Repeated
  <2> QED
    BY <2>3, <2>4, <2>5, <2>6, <2>7 DEF DeclarationSound, d, w
<1> QED
  BY <1>2, <1>5, <1>6, <1>7 DEF ClassSound

LEMMA SAttackResultSound == ClassSound("S_AttackResult")
<1> DEFINE t == "S_AttackResult"
<1>1. Fields(t) = {"hit_target_ids", "origin", "aim_dir", "attacker_id", "attack_type", "skill_id"}
  BY DEF Fields, Accessors, S_AttackResult_Accessors
<1>2. LaidOut(t)
  BY <1>1 DEF LaidOut, Impl, S_AttackResult_Impl
<1>3. /\ SpanIn(t, <<"origin", "skill_id">>) = {"origin", "aim_dir", "attacker_id", "attack_type",
              "skill_id"}
      /\ SpanIn(t, <<"attacker_id", "skill_id">>) = {"attacker_id", "attack_type", "skill_id"}
      /\ SpanIn(t, <<"hit_target_ids", "hit_target_ids">>) = {"hit_target_ids"}
      /\ SpanIn(t, <<"origin", "origin">>) = {"origin"}
      /\ SpanIn(t, <<"aim_dir", "aim_dir">>) = {"aim_dir"}
  <2>1. PlaceIn(t, "hit_target_ids") = 1 /\ PlaceIn(t, "origin") = 2 /\ PlaceIn(t, "aim_dir") = 3 /\
        PlaceIn(t, "attacker_id") = 4 /\ PlaceIn(t, "attack_type") = 5 /\ PlaceIn(t, "skill_id") = 6
    BY DEF PlaceIn, Impl, S_AttackResult_Impl
  <2> QED
    BY <2>1 DEF SpanIn, NoSpan, Impl, S_AttackResult_Impl
<1>4. /\ ShapeIn(t, "hit_target_ids") = "list" /\ BitIn(t, "hit_target_ids") = 0
      /\ ShapeIn(t, "origin") = "child" /\ BitIn(t, "origin") = 1
      /\ ShapeIn(t, "aim_dir") = "child" /\ BitIn(t, "aim_dir") = 2
      /\ ShapeIn(t, "attacker_id") = "scalar" /\ BitIn(t, "attacker_id") = 3
      /\ ShapeIn(t, "attack_type") = "scalar" /\ BitIn(t, "attack_type") = 4
      /\ ShapeIn(t, "skill_id") = "scalar" /\ BitIn(t, "skill_id") = 5
  BY DEF ShapeIn, BitIn, Accessors, S_AttackResult_Accessors, Text, Child, List, Scalar
<1>5. ASSUME NEW f \in Fields(t) PROVE FieldSound(t, f)
  <2>1. ShapeSound(t, f) /\ FreedSound(t, f)
    BY <1>1, <1>4 DEF ShapeSound, FreedSound, Life, S_AttackResult_Life
  <2>2. FreshSound(t, f) /\ SwapSound(t, f)
    BY <1>1, <1>3, <1>4, NoSpanEmpty DEF FreshSound, Life, S_AttackResult_Life, New,
      S_AttackResult_New, DefaultInstance, S_AttackResult_Default, SwapSound, SwapOf,
      S_AttackResult_Swap
  <2>3. MergeSound(t, f)
    BY <1>1, <1>4 DEF MergeSound, MergeOf, S_AttackResult_Merge, IfNonZero, IfNonEmpty, MergeChild,
      AppendList
  <2>4. CopySound(t, f)
    BY <1>1, <1>3, <1>4, NoSpanEmpty DEF CopySound, Copy, S_AttackResult_Copy
  <2>5. ClearSound(t, f)
    <3>1. \E g \in ClearOf[t] : f \in SpanIn(t, g.span) /\ (g.bits = {} \/ BitIn(t, f) \in g.bits)
      BY <1>1, <1>3, <1>4 DEF ClearOf, S_AttackResult_Clear, When, Always
    <3>2. ASSUME NEW g \in ClearOf[t], f \in SpanIn(t, g.span), ShapeIn(t, f) = "child"
          PROVE  g.bits = {BitIn(t, f)}
      BY <1>1, <1>3, <1>4, <3>2 DEF ClearOf, S_AttackResult_Clear, When, Always
    <3> QED
      BY <3>1, <3>2 DEF ClearSound
  <2> QED
    BY <2>1, <2>2, <2>3, <2>4, <2>5 DEF FieldSound
<1>6. Listed(t)
  BY <1>1 DEF Listed, ProtoFields, S_AttackResult_Proto, Field, Repeated, SerializeOf,
    S_AttackResult_Serialize, ByteSizeOf, S_AttackResult_ByteSize, TableOf, S_AttackResult_Table
<1>7. ASSUME NEW i \in DOMAIN ProtoFields[t]
      PROVE  DeclarationSound(t, ProtoFields[t][i], SerializeOf[t][i])
  <2> DEFINE d == ProtoFields[t][i]
             w == SerializeOf[t][i]
  <2>1. \/ d = Field("attacker_id", 1, "uint64") /\ w = Write("attacker_id", 1, 3, "UInt64")
        \/ d = Field("attack_type", 2, "AttackType") /\ w = Write("attack_type", 2, 4, "Enum")
        \/ d = Field("skill_id", 3, "uint32") /\ w = Write("skill_id", 3, 5, "UInt32")
        \/ d = Field("origin", 4, "Vector2") /\ w = Write("origin", 4, 1, "Message")
        \/ d = Field("aim_dir", 5, "Vector2") /\ w = Write("aim_dir", 5, 2, "Message")
        \/ d = Repeated("hit_target_ids", 6, "uint64") /\ w = Write("hit_target_ids", 6, 0, "UInt64Packed")
    BY DEF ProtoFields, S_AttackResult_Proto, SerializeOf, S_AttackResult_Serialize
  <2>2. (d.ty \in MessageTypes <=> d.ty \in {"Vector2"}) /\ (d.ty \in Enums <=> d.ty \in {"AttackType"})
    BY <2>1 DEF MessageTypes, ProtoFields, Enums, Field, Repeated
  <2> HIDE DEF d, w
  <2>3. WireFormat(d) = w.format /\ (~d.repeated => FormatOf(d.ty) = w.format)
    BY <2>1, <2>2 DEF WireFormat, FormatOf, Write, Field, Repeated
  <2>4. /\ Kind(d) = IF d.repeated THEN "list" ELSE IF ShapeIn(t, d.name) = "child" THEN "child" ELSE "value"
        /\ d.repeated <=> ShapeIn(t, d.name) = "list"
        /\ d.name \in Fields(t)
    BY <1>1, <1>4, <2>1, <2>2 DEF Kind, Field, Repeated
  <2>5. Kind(d) = "value" => w.format \notin {"Message", "RepMessage", "UInt64Packed"}
    BY <2>1, <2>2 DEF Kind, Field, Repeated, Write
  <2>6. /\ w = Write(d.name, d.number, BitIn(t, d.name), w.format)
        /\ ByteSizeOf[t][d.name] = Size(BitIn(t, d.name), w.format)
    BY <1>4, <2>1 DEF ByteSizeOf, S_AttackResult_ByteSize, Size, Write, Field, Repeated
  <2>7. /\ TableOf[t][d.name].number = d.number /\ TableOf[t][d.name].bit = BitIn(t, d.name)
        /\ TableReads(TableOf[t][d.name].kind, d)
    BY <1>4, <2>1, <2>2, <2>3, <2>4 DEF TableReads, FormatRead, TableOf, S_AttackResult_Table, Entry,
      Write, Field, Repeated
  <2> QED
    BY <2>3, <2>4, <2>5, <2>6, <2>7 DEF DeclarationSound, d, w
<1> QED
  BY <1>2, <1>5, <1>6, <1>7 DEF ClassSound

LEMMA STakeDamageSound == ClassSound("S_TakeDamage")
<1> DEFINE t == "S_TakeDamage"
<1>1. Fields(t) = {"target_id", "attacker_id", "damage", "remain_hp", "is_critical"}
  BY DEF Fields, Accessors, S_TakeDamage_Accessors
<1>2. LaidOut(t)
  BY <1>1 DEF LaidOut, Impl, S_TakeDamage_Impl
<1>3. /\ SpanIn(t, <<"target_id", "is_critical">>) = {"target_id", "attacker_id", "damage",
              "remain_hp", "is_critical"}
  <2>1. PlaceIn(t, "target_id") = 1 /\ PlaceIn(t, "attacker_id") = 2 /\ PlaceIn(t, "damage") = 3 /\
        PlaceIn(t, "remain_hp") = 4 /\ PlaceIn(t, "is_critical") = 5
    BY DEF PlaceIn, Impl, S_TakeDamage_Impl
  <2> QED
    BY <2>1 DEF SpanIn, NoSpan, Impl, S_TakeDamage_Impl
<1>4. /\ ShapeIn(t, "target_id") = "scalar" /\ BitIn(t, "target_id") = 0
      /\ ShapeIn(t, "attacker_id") = "scalar" /\ BitIn(t, "attacker_id") = 1
      /\ ShapeIn(t, "damage") = "scalar" /\ BitIn(t, "damage") = 2
      /\ ShapeIn(t, "remain_hp") = "scalar" /\ BitIn(t, "remain_hp") = 3
      /\ ShapeIn(t, "is_critical") = "scalar" /\ BitIn(t, "is_critical") = 4
  BY DEF ShapeIn, BitIn, Accessors, S_TakeDamage_Accessors, Text, Child, List, Scalar
<1>5. ASSUME NEW f \in Fields(t) PROVE FieldSound(t, f)
  <2>1. ShapeSound(t, f) /\ FreedSound(t, f)
    BY <1>1, <1>4 DEF ShapeSound, FreedSound, Life, S_TakeDamage_Life
  <2>2. FreshSound(t, f) /\ SwapSound(t, f)
    BY <1>1, <1>3, <1>4, NoSpanEmpty DEF FreshSound, Life, S_TakeDamage_Life, New, S_TakeDamage_New,
      DefaultInstance, S_TakeDamage_Default, SwapSound, SwapOf, S_TakeDamage_Swap
  <2>3. MergeSound(t, f)
    BY <1>1, <1>4 DEF MergeSound, MergeOf, S_TakeDamage_Merge, IfNonZero, IfNonEmpty, MergeChild,
      AppendList
  <2>4. CopySound(t, f)
    BY <1>1, <1>4 DEF CopySound, Copy, S_TakeDamage_Copy, Memberwise
  <2>5. ClearSound(t, f)
    <3>1. \E g \in ClearOf[t] : f \in SpanIn(t, g.span) /\ (g.bits = {} \/ BitIn(t, f) \in g.bits)
      BY <1>1, <1>3, <1>4 DEF ClearOf, S_TakeDamage_Clear, When, Always
    <3>2. ASSUME NEW g \in ClearOf[t], f \in SpanIn(t, g.span), ShapeIn(t, f) = "child"
          PROVE  g.bits = {BitIn(t, f)}
      BY <1>1, <1>3, <1>4, <3>2 DEF ClearOf, S_TakeDamage_Clear, When, Always
    <3> QED
      BY <3>1, <3>2 DEF ClearSound
  <2> QED
    BY <2>1, <2>2, <2>3, <2>4, <2>5 DEF FieldSound
<1>6. Listed(t)
  BY <1>1 DEF Listed, ProtoFields, S_TakeDamage_Proto, Field, Repeated, SerializeOf,
    S_TakeDamage_Serialize, ByteSizeOf, S_TakeDamage_ByteSize, TableOf, S_TakeDamage_Table
<1>7. ASSUME NEW i \in DOMAIN ProtoFields[t]
      PROVE  DeclarationSound(t, ProtoFields[t][i], SerializeOf[t][i])
  <2> DEFINE d == ProtoFields[t][i]
             w == SerializeOf[t][i]
  <2>1. \/ d = Field("target_id", 1, "uint64") /\ w = Write("target_id", 1, 0, "UInt64")
        \/ d = Field("attacker_id", 2, "uint64") /\ w = Write("attacker_id", 2, 1, "UInt64")
        \/ d = Field("damage", 3, "int32") /\ w = Write("damage", 3, 2, "Int32")
        \/ d = Field("remain_hp", 4, "int32") /\ w = Write("remain_hp", 4, 3, "Int32")
        \/ d = Field("is_critical", 5, "bool") /\ w = Write("is_critical", 5, 4, "Bool")
    BY DEF ProtoFields, S_TakeDamage_Proto, SerializeOf, S_TakeDamage_Serialize
  <2>2. (d.ty \in MessageTypes <=> d.ty \in {}) /\ (d.ty \in Enums <=> d.ty \in {})
    BY <2>1 DEF MessageTypes, ProtoFields, Enums, Field, Repeated
  <2> HIDE DEF d, w
  <2>3. WireFormat(d) = w.format /\ (~d.repeated => FormatOf(d.ty) = w.format)
    BY <2>1, <2>2 DEF WireFormat, FormatOf, Write, Field, Repeated
  <2>4. /\ Kind(d) = IF d.repeated THEN "list" ELSE IF ShapeIn(t, d.name) = "child" THEN "child" ELSE "value"
        /\ d.repeated <=> ShapeIn(t, d.name) = "list"
        /\ d.name \in Fields(t)
    BY <1>1, <1>4, <2>1, <2>2 DEF Kind, Field, Repeated
  <2>5. Kind(d) = "value" => w.format \notin {"Message", "RepMessage", "UInt64Packed"}
    BY <2>1, <2>2 DEF Kind, Field, Repeated, Write
  <2>6. /\ w = Write(d.name, d.number, BitIn(t, d.name), w.format)
        /\ ByteSizeOf[t][d.name] = Size(BitIn(t, d.name), w.format)
    BY <1>4, <2>1 DEF ByteSizeOf, S_TakeDamage_ByteSize, Size, Write, Field, Repeated
  <2>7. /\ TableOf[t][d.name].number = d.number /\ TableOf[t][d.name].bit = BitIn(t, d.name)
        /\ TableReads(TableOf[t][d.name].kind, d)
    BY <1>4, <2>1, <2>2, <2>3, <2>4 DEF TableReads, FormatRead, TableOf, S_TakeDamage_Table, Entry,
      Write, Field, Repeated
  <2> QED
    BY <2>3, <2>4, <2>5, <2>6, <2>7 DEF DeclarationSound, d, w
<1> QED
  BY <1>2, <1>5, <1>6, <1>7 DEF ClassSound

LEMMA SDieSound == ClassSound("S_Die")
<1> DEFINE t == "S_Die"
<1>1. Fields(t) = {"player_id", "killer_id"}
  BY DEF Fields, Accessors, S_Die_Accessors
<1>2. LaidOut(t)
  BY <1>1 DEF LaidOut, Impl, S_Die_Impl
<1>3. /\ SpanIn(t, <<"player_id", "killer_id">>) = {"player_id", "killer_id"}
  <2>1. PlaceIn(t, "player_id") = 1 /\ PlaceIn(t, "killer_id") = 2
    BY DEF PlaceIn, Impl, S_Die_Impl
  <2> QED
    BY <2>1 DEF SpanIn, NoSpan, Impl, S_Die_Impl
<1>4. /\ ShapeIn(t, "player_id") = "scalar" /\ BitIn(t, "player_id") = 0
      /\ ShapeIn(t, "killer_id") = "scalar" /\ BitIn(t, "killer_id") = 1
  BY DEF ShapeIn, BitIn, Accessors, S_Die_Accessors, Text, Child, List, Scalar
<1>5. ASSUME NEW f \in Fields(t) PROVE FieldSound(t, f)
  <2>1. ShapeSound(t, f) /\ FreedSound(t, f)
    BY <1>1, <1>4 DEF ShapeSound, FreedSound, Life, S_Die_Life
  <2>2. FreshSound(t, f) /\ SwapSound(t, f)
    BY <1>1, <1>3, <1>4, NoSpanEmpty DEF FreshSound, Life, S_Die_Life, New, S_Die_New, DefaultInstance,
      S_Die_Default, SwapSound, SwapOf, S_Die_Swap
  <2>3. MergeSound(t, f)
    BY <1>1, <1>4 DEF MergeSound, MergeOf, S_Die_Merge, IfNonZero, IfNonEmpty, MergeChild, AppendList
  <2>4. CopySound(t, f)
    BY <1>1, <1>4 DEF CopySound, Copy, S_Die_Copy, Memberwise
  <2>5. ClearSound(t, f)
    <3>1. \E g \in ClearOf[t] : f \in SpanIn(t, g.span) /\ (g.bits = {} \/ BitIn(t, f) \in g.bits)
      BY <1>1, <1>3, <1>4 DEF ClearOf, S_Die_Clear, When, Always
    <3>2. ASSUME NEW g \in ClearOf[t], f \in SpanIn(t, g.span), ShapeIn(t, f) = "child"
          PROVE  g.bits = {BitIn(t, f)}
      BY <1>1, <1>3, <1>4, <3>2 DEF ClearOf, S_Die_Clear, When, Always
    <3> QED
      BY <3>1, <3>2 DEF ClearSound
  <2> QED
    BY <2>1, <2>2, <2>3, <2>4, <2>5 DEF FieldSound
<1>6. Listed(t)
  BY <1>1 DEF Listed, ProtoFields, S_Die_Proto, Field, Repeated, SerializeOf, S_Die_Serialize,
    ByteSizeOf, S_Die_ByteSize, TableOf, S_Die_Table
<1>7. ASSUME NEW i \in DOMAIN ProtoFields[t]
      PROVE  DeclarationSound(t, ProtoFields[t][i], SerializeOf[t][i])
  <2> DEFINE d == ProtoFields[t][i]
             w == SerializeOf[t][i]
  <2>1. \/ d = Field("player_id", 1, "uint64") /\ w = Write("player_id", 1, 0, "UInt64")
        \/ d = Field("killer_id", 2, "uint64") /\ w = Write("killer_id", 2, 1, "UInt64")
    BY DEF ProtoFields, S_Die_Proto, SerializeOf, S_Die_Serialize
  <2>2. (d.ty \in MessageTypes <=> d.ty \in {}) /\ (d.ty \in Enums <=> d.ty \in {})
    BY <2>1 DEF MessageTypes, ProtoFields, Enums, Field, Repeated
  <2> HIDE DEF d, w
  <2>3. WireFormat(d) = w.format /\ (~d.repeated => FormatOf(d.ty) = w.format)
    BY <2>1, <2>2 DEF WireFormat, FormatOf, Write, Field, Repeated
  <2>4. /\ Kind(d) = IF d.repeated THEN "list" ELSE IF ShapeIn(t, d.name) = "child" THEN "child" ELSE "value"
        /\ d.repeated <=> ShapeIn(t, d.name) = "list"
        /\ d.name \in Fields(t)
    BY <1>1, <1>4, <2>1, <2>2 DEF Kind, Field, Repeated
  <2>5. Kind(d) = "value" => w.format \notin {"Message", "RepMessage", "UInt64Packed"}
    BY <2>1, <2>2 DEF Kind, Field, Repeated, Write
  <2>6. /\ w = Write(d.name, d.number, BitIn(t, d.name), w.format)
        /\ ByteSizeOf[t][d.name] = Size(BitIn(t, d.name), w.format)
    BY <1>4, <2>1 DEF ByteSizeOf, S_Die_ByteSize, Size, Write, Field, Repeated
  <2>7. /\ TableOf[t][d.name].number = d.number /\ TableOf[t][d.name].bit = BitIn(t, d.name)
        /\ TableReads(TableOf[t][d.name].kind, d)
    BY <1>4, <2>1, <2>2, <2>3, <2>4 DEF TableReads, FormatRead, TableOf, S_Die_Table, Entry, Write,
      Field, Repeated
  <2> QED
    BY <2>3, <2>4, <2>5, <2>6, <2>7 DEF DeclarationSound, d, w
<1> QED
  BY <1>2, <1>5, <1>6, <1>7 DEF ClassSound

LEMMA CResurrectSound == ClassSound("C_Resurrect")
<1> DEFINE t == "C_Resurrect"
<1>1. Fields(t) = {}
  BY DEF Fields, Accessors
<1>2. LaidOut(t)
  BY <1>1 DEF LaidOut, Impl
<1>5. \A f \in Fields(t) : FieldSound(t, f)
  BY <1>1
<1>6. Listed(t)
  BY <1>1 DEF Listed, ProtoFields, C_Resurrect_Proto, Field, Repeated, SerializeOf, ByteSizeOf,
    TableOf, C_Resurrect_Table
<1>7. ASSUME NEW i \in DOMAIN ProtoFields[t]
      PROVE  DeclarationSound(t, ProtoFields[t][i], SerializeOf[t][i])
  BY DEF ProtoFields, C_Resurrect_Proto
<1> QED
  BY <1>2, <1>5, <1>6, <1>7 DEF ClassSound

LEMMA SResurrectSound == ClassSound("S_Resurrect")
<1> DEFINE t == "S_Resurrect"
<1>1. Fields(t) = {"position", "player_id", "hp"}
  BY DEF Fields, Accessors, S_Resurrect_Accessors
<1>2. LaidOut(t)
  BY <1>1 DEF LaidOut, Impl, S_Resurrect_Impl
<1>3. /\ SpanIn(t, <<"position", "hp">>) = {"position", "player_id", "hp"}
      /\ SpanIn(t, <<"player_id", "hp">>) = {"player_id", "hp"}
      /\ SpanIn(t, <<"position", "position">>) = {"position"}
  <2>1. PlaceIn(t, "position") = 1 /\ PlaceIn(t, "player_id") = 2 /\ PlaceIn(t, "hp") = 3
    BY DEF PlaceIn, Impl, S_Resurrect_Impl
  <2> QED
    BY <2>1 DEF SpanIn, NoSpan, Impl, S_Resurrect_Impl
<1>4. /\ ShapeIn(t, "position") = "child" /\ BitIn(t, "position") = 0
      /\ ShapeIn(t, "player_id") = "scalar" /\ BitIn(t, "player_id") = 1
      /\ ShapeIn(t, "hp") = "scalar" /\ BitIn(t, "hp") = 2
  BY DEF ShapeIn, BitIn, Accessors, S_Resurrect_Accessors, Text, Child, List, Scalar
<1>5. ASSUME NEW f \in Fields(t) PROVE FieldSound(t, f)
  <2>1. ShapeSound(t, f) /\ FreedSound(t, f)
    BY <1>1, <1>4 DEF ShapeSound, FreedSound, Life, S_Resurrect_Life
  <2>2. FreshSound(t, f) /\ SwapSound(t, f)
    BY <1>1, <1>3, <1>4, NoSpanEmpty DEF FreshSound, Life, S_Resurrect_Life, New, S_Resurrect_New,
      DefaultInstance, S_Resurrect_Default, SwapSound, SwapOf, S_Resurrect_Swap
  <2>3. MergeSound(t, f)
    BY <1>1, <1>4 DEF MergeSound, MergeOf, S_Resurrect_Merge, IfNonZero, IfNonEmpty, MergeChild,
      AppendList
  <2>4. CopySound(t, f)
    BY <1>1, <1>3, <1>4, NoSpanEmpty DEF CopySound, Copy, S_Resurrect_Copy
  <2>5. ClearSound(t, f)
    <3>1. \E g \in ClearOf[t] : f \in SpanIn(t, g.span) /\ (g.bits = {} \/ BitIn(t, f) \in g.bits)
      BY <1>1, <1>3, <1>4 DEF ClearOf, S_Resurrect_Clear, When, Always
    <3>2. ASSUME NEW g \in ClearOf[t], f \in SpanIn(t, g.span), ShapeIn(t, f) = "child"
          PROVE  g.bits = {BitIn(t, f)}
      BY <1>1, <1>3, <1>4, <3>2 DEF ClearOf, S_Resurrect_Clear, When, Always
    <3> QED
      BY <3>1, <3>2 DEF ClearSound
  <2> QED
    BY <2>1, <2>2, <2>3, <2>4, <2>5 DEF FieldSound
<1>6. Listed(t)
  BY <1>1 DEF Listed, ProtoFields, S_Resurrect_Proto, Field, Repeated, SerializeOf,
    S_Resurrect_Serialize, ByteSizeOf, S_Resurrect_ByteSize, TableOf, S_Resurrect_Table
<1>7. ASSUME NEW i \in DOMAIN ProtoFields[t]
      PROVE  DeclarationSound(t, ProtoFields[t][i], SerializeOf[t][i])
  <2> DEFINE d == ProtoFields[t][i]
             w == SerializeOf[t][i]
  <2>1. \/ d = Field("player_id", 1, "uint64") /\ w = Write("player_id", 1, 1, "UInt64")
        \/ d = Field("position", 2, "Vector2") /\ w = Write("position", 2, 0, "Message")
        \/ d = Field("hp", 3, "int32") /\ w = Write("hp", 3, 2, "Int32")
    BY DEF ProtoFields, S_Resurrect_Proto, SerializeOf, S_Resurrect_Serialize
  <2>2. (d.ty \in MessageTypes <=> d.ty \in {"Vector2"}) /\ (d.ty \in Enums <=> d.ty \in {})
    BY <2>1 DEF MessageTypes, ProtoFields, Enums, Field, Repeated
  <2> HIDE DEF d, w
  <2>3. WireFormat(d) = w.format /\ (~d.repeated => FormatOf(d.ty) = w.format)
    BY <2>1, <2>2 DEF WireFormat, FormatOf, Write, Field, Repeated
  <2>4. /\ Kind(d) = IF d.repeated THEN "list" ELSE IF ShapeIn(t, d.name) = "child" THEN "child" ELSE "value"
        /\ d.repeated <=> ShapeIn(t, d.name) = "list"
        /\ d.name \in Fields(t)
    BY <1>1, <1>4, <2>1, <2>2 DEF Kind, Field, Repeated
  <2>5. Kind(d) = "value" => w.format \notin {"Message", "RepMessage", "UInt64Packed"}
    BY <2>1, <2>2 DEF Kind, Field, Repeated, Write
  <2>6. /\ w = Write(d.name, d.number, BitIn(t, d.name), w.format)
        /\ ByteSizeOf[t][d.name] = Size(BitIn(t, d.name), w.format)
    BY <1>4, <2>1 DEF ByteSizeOf, S_Resurrect_ByteSize, Size, Write, Field, Repeated
  <2>7. /\ TableOf[t][d.name].number = d.number /\ TableOf[t][d.name].bit = BitIn(t, d.name)
        /\ TableReads(TableOf[t][d.name].kind, d)
    BY <1>4, <2>1, <2>2, <2>3, <2>4 DEF TableReads, FormatRead, TableOf, S_Resurrect_Table, Entry,
      Write, Field, Repeated
  <2> QED
    BY <2>3, <2>4, <2>5, <2>6, <2>7 DEF DeclarationSound, d, w
<1> QED
  BY <1>2, <1>5, <1>6, <1>7 DEF ClassSound

LEMMA CChatSound == ClassSound("C_Chat")
<1> DEFINE t == "C_Chat"
<1>1. Fields(t) = {"message", "target", "type"}
  BY DEF Fields, Accessors, C_Chat_Accessors
<1>2. LaidOut(t)
  BY <1>1 DEF LaidOut, Impl, C_Chat_Impl
<1>3. /\ SpanIn(t, <<"type", "type">>) = {"type"}
      /\ SpanIn(t, <<"message", "message">>) = {"message"}
      /\ SpanIn(t, <<"target", "target">>) = {"target"}
  <2>1. PlaceIn(t, "message") = 1 /\ PlaceIn(t, "target") = 2 /\ PlaceIn(t, "type") = 3
    BY DEF PlaceIn, Impl, C_Chat_Impl
  <2> QED
    BY <2>1 DEF SpanIn, NoSpan, Impl, C_Chat_Impl
<1>4. /\ ShapeIn(t, "message") = "text" /\ BitIn(t, "message") = 0
      /\ ShapeIn(t, "target") = "text" /\ BitIn(t, "target") = 1
      /\ ShapeIn(t, "type") = "scalar" /\ BitIn(t, "type") = 2
  BY DEF ShapeIn, BitIn, Accessors, C_Chat_Accessors, Text, Child, List, Scalar
<1>5. ASSUME NEW f \in Fields(t) PROVE FieldSound(t, f)
  <2>1. ShapeSound(t, f) /\ FreedSound(t, f)
    BY <1>1, <1>4 DEF ShapeSound, FreedSound, Life, C_Chat_Life
  <2>2. FreshSound(t, f) /\ SwapSound(t, f)
    BY <1>1, <1>3, <1>4, NoSpanEmpty DEF FreshSound, Life, C_Chat_Life, New, C_Chat_New,
      DefaultInstance, C_Chat_Default, SwapSound, SwapOf, C_Chat_Swap
  <2>3. MergeSound(t, f)
    BY <1>1, <1>4 DEF MergeSound, MergeOf, C_Chat_Merge, IfNonZero, IfNonEmpty, MergeChild, AppendList
  <2>4. CopySound(t, f)
    BY <1>1, <1>3, <1>4, NoSpanEmpty DEF CopySound, Copy, C_Chat_Copy
  <2>5. ClearSound(t, f)
    <3>1. \E g \in ClearOf[t] : f \in SpanIn(t, g.span) /\ (g.bits = {} \/ BitIn(t, f) \in g.bits)
      BY <1>1, <1>3, <1>4 DEF ClearOf, C_Chat_Clear, When, Always
    <3>2. ASSUME NEW g \in ClearOf[t], f \in SpanIn(t, g.span), ShapeIn(t, f) = "child"
          PROVE  g.bits = {BitIn(t, f)}
      BY <1>1, <1>3, <1>4, <3>2 DEF ClearOf, C_Chat_Clear, When, Always
    <3> QED
      BY <3>1, <3>2 DEF ClearSound
  <2> QED
    BY <2>1, <2>2, <2>3, <2>4, <2>5 DEF FieldSound
<1>6. Listed(t)
  BY <1>1 DEF Listed, ProtoFields, C_Chat_Proto, Field, Repeated, SerializeOf, C_Chat_Serialize,
    ByteSizeOf, C_Chat_ByteSize, TableOf, C_Chat_Table
<1>7. ASSUME NEW i \in DOMAIN ProtoFields[t]
      PROVE  DeclarationSound(t, ProtoFields[t][i], SerializeOf[t][i])
  <2> DEFINE d == ProtoFields[t][i]
             w == SerializeOf[t][i]
  <2>1. \/ d = Field("type", 1, "ChatType") /\ w = Write("type", 1, 2, "Enum")
        \/ d = Field("message", 2, "string") /\ w = Write("message", 2, 0, "String")
        \/ d = Field("target", 3, "string") /\ w = Write("target", 3, 1, "String")
    BY DEF ProtoFields, C_Chat_Proto, SerializeOf, C_Chat_Serialize
  <2>2. (d.ty \in MessageTypes <=> d.ty \in {}) /\ (d.ty \in Enums <=> d.ty \in {"ChatType"})
    BY <2>1 DEF MessageTypes, ProtoFields, Enums, Field, Repeated
  <2> HIDE DEF d, w
  <2>3. WireFormat(d) = w.format /\ (~d.repeated => FormatOf(d.ty) = w.format)
    BY <2>1, <2>2 DEF WireFormat, FormatOf, Write, Field, Repeated
  <2>4. /\ Kind(d) = IF d.repeated THEN "list" ELSE IF ShapeIn(t, d.name) = "child" THEN "child" ELSE "value"
        /\ d.repeated <=> ShapeIn(t, d.name) = "list"
        /\ d.name \in Fields(t)
    BY <1>1, <1>4, <2>1, <2>2 DEF Kind, Field, Repeated
  <2>5. Kind(d) = "value" => w.format \notin {"Message", "RepMessage", "UInt64Packed"}
    BY <2>1, <2>2 DEF Kind, Field, Repeated, Write
  <2>6. /\ w = Write(d.name, d.number, BitIn(t, d.name), w.format)
        /\ ByteSizeOf[t][d.name] = Size(BitIn(t, d.name), w.format)
    BY <1>4, <2>1 DEF ByteSizeOf, C_Chat_ByteSize, Size, Write, Field, Repeated
  <2>7. /\ TableOf[t][d.name].number = d.number /\ TableOf[t][d.name].bit = BitIn(t, d.name)
        /\ TableReads(TableOf[t][d.name].kind, d)
    BY <1>4, <2>1, <2>2, <2>3, <2>4 DEF TableReads, FormatRead, TableOf, C_Chat_Table, Entry, Write,
      Field, Repeated
  <2> QED
    BY <2>3, <2>4, <2>5, <2>6, <2>7 DEF DeclarationSound, d, w
<1> QED
  BY <1>2, <1>5, <1>6, <1>7 DEF ClassSound

LEMMA SChatSound == ClassSound("S_Chat")
<1> DEFINE t == "S_Chat"
<1>1. Fields(t) = {"name", "message", "player_id", "type"}
  BY DEF Fields, Accessors, S_Chat_Accessors
<1>2. LaidOut(t)
  BY <1>1 DEF LaidOut, Impl, S_Chat_Impl
<1>3. /\ SpanIn(t, <<"player_id", "type">>) = {"player_id", "type"}
      /\ SpanIn(t, <<"name", "name">>) = {"name"}
      /\ SpanIn(t, <<"message", "message">>) = {"message"}
  <2>1. PlaceIn(t, "name") = 1 /\ PlaceIn(t, "message") = 2 /\ PlaceIn(t, "player_id") = 3 /\
        PlaceIn(t, "type") = 4
    BY DEF PlaceIn, Impl, S_Chat_Impl
  <2> QED
    BY <2>1 DEF SpanIn, NoSpan, Impl, S_Chat_Impl
<1>4. /\ ShapeIn(t, "name") = "text" /\ BitIn(t, "name") = 0
      /\ ShapeIn(t, "message") = "text" /\ BitIn(t, "message") = 1
      /\ ShapeIn(t, "player_id") = "scalar" /\ BitIn(t, "player_id") = 2
      /\ ShapeIn(t, "type") = "scalar" /\ BitIn(t, "type") = 3
  BY DEF ShapeIn, BitIn, Accessors, S_Chat_Accessors, Text, Child, List, Scalar
<1>5. ASSUME NEW f \in Fields(t) PROVE FieldSound(t, f)
  <2>1. ShapeSound(t, f) /\ FreedSound(t, f)
    BY <1>1, <1>4 DEF ShapeSound, FreedSound, Life, S_Chat_Life
  <2>2. FreshSound(t, f) /\ SwapSound(t, f)
    BY <1>1, <1>3, <1>4, NoSpanEmpty DEF FreshSound, Life, S_Chat_Life, New, S_Chat_New,
      DefaultInstance, S_Chat_Default, SwapSound, SwapOf, S_Chat_Swap
  <2>3. MergeSound(t, f)
    BY <1>1, <1>4 DEF MergeSound, MergeOf, S_Chat_Merge, IfNonZero, IfNonEmpty, MergeChild, AppendList
  <2>4. CopySound(t, f)
    BY <1>1, <1>3, <1>4, NoSpanEmpty DEF CopySound, Copy, S_Chat_Copy
  <2>5. ClearSound(t, f)
    <3>1. \E g \in ClearOf[t] : f \in SpanIn(t, g.span) /\ (g.bits = {} \/ BitIn(t, f) \in g.bits)
      BY <1>1, <1>3, <1>4 DEF ClearOf, S_Chat_Clear, When, Always
    <3>2. ASSUME NEW g \in ClearOf[t], f \in SpanIn(t, g.span), ShapeIn(t, f) = "child"
          PROVE  g.bits = {BitIn(t, f)}
      BY <1>1, <1>3, <1>4, <3>2 DEF ClearOf, S_Chat_Clear, When, Always
    <3> QED
      BY <3>1, <3>2 DEF ClearSound
  <2> QED
    BY <2>1, <2>2, <2>3, <2>4, <2>5 DEF FieldSound
<1>6. Listed(t)
  BY <1>1 DEF Listed, ProtoFields, S_Chat_Proto, Field, Repeated, SerializeOf, S_Chat_Serialize,
    ByteSizeOf, S_Chat_ByteSize, TableOf, S_Chat_Table
<1>7. ASSUME NEW i \in DOMAIN ProtoFields[t]
      PROVE  DeclarationSound(t, ProtoFields[t][i], SerializeOf[t][i])
  <2> DEFINE d == ProtoFields[t][i]
             w == SerializeOf[t][i]
  <2>1. \/ d = Field("player_id", 1, "uint64") /\ w = Write("player_id", 1, 2, "UInt64")
        \/ d = Field("name", 2, "string") /\ w = Write("name", 2, 0, "String")
        \/ d = Field("type", 3, "ChatType") /\ w = Write("type", 3, 3, "Enum")
        \/ d = Field("message", 4, "string") /\ w = Write("message", 4, 1, "String")
    BY DEF ProtoFields, S_Chat_Proto, SerializeOf, S_Chat_Serialize
  <2>2. (d.ty \in MessageTypes <=> d.ty \in {}) /\ (d.ty \in Enums <=> d.ty \in {"ChatType"})
    BY <2>1 DEF MessageTypes, ProtoFields, Enums, Field, Repeated
  <2> HIDE DEF d, w
  <2>3. WireFormat(d) = w.format /\ (~d.repeated => FormatOf(d.ty) = w.format)
    BY <2>1, <2>2 DEF WireFormat, FormatOf, Write, Field, Repeated
  <2>4. /\ Kind(d) = IF d.repeated THEN "list" ELSE IF ShapeIn(t, d.name) = "child" THEN "child" ELSE "value"
        /\ d.repeated <=> ShapeIn(t, d.name) = "list"
        /\ d.name \in Fields(t)
    BY <1>1, <1>4, <2>1, <2>2 DEF Kind, Field, Repeated
  <2>5. Kind(d) = "value" => w.format \notin {"Message", "RepMessage", "UInt64Packed"}
    BY <2>1, <2>2 DEF Kind, Field, Repeated, Write
  <2>6. /\ w = Write(d.name, d.number, BitIn(t, d.name), w.format)
        /\ ByteSizeOf[t][d.name] = Size(BitIn(t, d.name), w.format)
    BY <1>4, <2>1 DEF ByteSizeOf, S_Chat_ByteSize, Size, Write, Field, Repeated
  <2>7. /\ TableOf[t][d.name].number = d.number /\ TableOf[t][d.name].bit = BitIn(t, d.name)
        /\ TableReads(TableOf[t][d.name].kind, d)
    BY <1>4, <2>1, <2>2, <2>3, <2>4 DEF TableReads, FormatRead, TableOf, S_Chat_Table, Entry, Write,
      Field, Repeated
  <2> QED
    BY <2>3, <2>4, <2>5, <2>6, <2>7 DEF DeclarationSound, d, w
<1> QED
  BY <1>2, <1>5, <1>6, <1>7 DEF ClassSound

LEMMA ItemInfoSound == ClassSound("ItemInfo")
<1> DEFINE t == "ItemInfo"
<1>1. Fields(t) = {"item_id", "template_id", "count", "slot"}
  BY DEF Fields, Accessors, ItemInfo_Accessors
<1>2. LaidOut(t)
  BY <1>1 DEF LaidOut, Impl, ItemInfo_Impl
<1>3. /\ SpanIn(t, <<"item_id", "slot">>) = {"item_id", "template_id", "count", "slot"}
  <2>1. PlaceIn(t, "item_id") = 1 /\ PlaceIn(t, "template_id") = 2 /\ PlaceIn(t, "count") = 3 /\
        PlaceIn(t, "slot") = 4
    BY DEF PlaceIn, Impl, ItemInfo_Impl
  <2> QED
    BY <2>1 DEF SpanIn, NoSpan, Impl, ItemInfo_Impl
<1>4. /\ ShapeIn(t, "item_id") = "scalar" /\ BitIn(t, "item_id") = 0
      /\ ShapeIn(t, "template_id") = "scalar" /\ BitIn(t, "template_id") = 1
      /\ ShapeIn(t, "count") = "scalar" /\ BitIn(t, "count") = 2
      /\ ShapeIn(t, "slot") = "scalar" /\ BitIn(t, "slot") = 3
  BY DEF ShapeIn, BitIn, Accessors, ItemInfo_Accessors, Text, Child, List, Scalar
<1>5. ASSUME NEW f \in Fields(t) PROVE FieldSound(t, f)
  <2>1. ShapeSound(t, f) /\ FreedSound(t, f)
    BY <1>1, <1>4 DEF ShapeSound, FreedSound, Life, ItemInfo_Life
  <2>2. FreshSound(t, f) /\ SwapSound(t, f)
    BY <1>1, <1>3, <1>4, NoSpanEmpty DEF FreshSound, Life, ItemInfo_Life, New, ItemInfo_New,
      DefaultInstance, ItemInfo_Default, SwapSound, SwapOf, ItemInfo_Swap
  <2>3. MergeSound(t, f)
    BY <1>1, <1>4 DEF MergeSound, MergeOf, ItemInfo_Merge, IfNonZero, IfNonEmpty, MergeChild,
      AppendList
  <2>4. CopySound(t, f)
    BY <1>1, <1>4 DEF CopySound, Copy, ItemInfo_Copy, Memberwise
  <2>5. ClearSound(t, f)
    <3>1. \E g \in ClearOf[t] : f \in SpanIn(t, g.span) /\ (g.bits = {} \/ BitIn(t, f) \in g.bits)
      BY <1>1, <1>3, <1>4 DEF ClearOf, ItemInfo_Clear, When, Always
    <3>2. ASSUME NEW g \in ClearOf[t], f \in SpanIn(t, g.span), ShapeIn(t, f) = "child"
          PROVE  g.bits = {BitIn(t, f)}
      BY <1>1, <1>3, <1>4, <3>2 DEF ClearOf, ItemInfo_Clear, When, Always
    <3> QED
      BY <3>1, <3>2 DEF ClearSound
  <2> QED
    BY <2>1, <2>2, <2>3, <2>4, <2>5 DEF FieldSound
<1>6. Listed(t)
  BY <1>1 DEF Listed, ProtoFields, ItemInfo_Proto, Field, Repeated, SerializeOf, ItemInfo_Serialize,
    ByteSizeOf, ItemInfo_ByteSize, TableOf, ItemInfo_Table
<1>7. ASSUME NEW i \in DOMAIN ProtoFields[t]
      PROVE  DeclarationSound(t, ProtoFields[t][i], SerializeOf[t][i])
  <2> DEFINE d == ProtoFields[t][i]
             w == SerializeOf[t][i]
  <2>1. \/ d = Field("item_id", 1, "uint64") /\ w = Write("item_id", 1, 0, "UInt64")
        \/ d = Field("template_id", 2, "uint32") /\ w = Write("template_id", 2, 1, "UInt32")
        \/ d = Field("count", 3, "int32") /\ w = Write("count", 3, 2, "Int32")
        \/ d = Field("slot", 4, "int32") /\ w = Write("slot", 4, 3, "Int32")
    BY DEF ProtoFields, ItemInfo_Proto, SerializeOf, ItemInfo_Serialize
  <2>2. (d.ty \in MessageTypes <=> d.ty \in {}) /\ (d.ty \in Enums <=> d.ty \in {})
    BY <2>1 DEF MessageTypes, ProtoFields, Enums, Field, Repeated
  <2> HIDE DEF d, w
  <2>3. WireFormat(d) = w.format /\ (~d.repeated => FormatOf(d.ty) = w.format)
    BY <2>1, <2>2 DEF WireFormat, FormatOf, Write, Field, Repeated
  <2>4. /\ Kind(d) = IF d.repeated THEN "list" ELSE IF ShapeIn(t, d.name) = "child" THEN "child" ELSE "value"
        /\ d.repeated <=> ShapeIn(t, d.name) = "list"
        /\ d.name \in Fields(t)
    BY <1>1, <1>4, <2>1, <2>2 DEF Kind, Field, Repeated
  <2>5. Kind(d) = "value" => w.format \notin {"Message", "RepMessage", "UInt64Packed"}
    BY <2>1, <2>2 DEF Kind, Field, Repeated, Write
  <2>6. /\ w = Write(d.name, d.number, BitIn(t, d.name), w.format)
        /\ ByteSizeOf[t][d.name] = Size(BitIn(t, d.name), w.format)
    BY <1>4, <2>1 DEF ByteSizeOf, ItemInfo_ByteSize, Size, Write, Field, Repeated
  <2>7. /\ TableOf[t][d.name].number = d.number /\ TableOf[t][d.name].bit = BitIn(t, d.name)
        /\ TableReads(TableOf[t][d.name].kind, d)
    BY <1>4, <2>1, <2>2, <2>3, <2>4 DEF TableReads, FormatRead, TableOf, ItemInfo_Table, Entry, Write,
      Field, Repeated
  <2> QED
    BY <2>3, <2>4, <2>5, <2>6, <2>7 DEF DeclarationSound, d, w
<1> QED
  BY <1>2, <1>5, <1>6, <1>7 DEF ClassSound

LEMMA CUseItemSound == ClassSound("C_UseItem")
<1> DEFINE t == "C_UseItem"
<1>1. Fields(t) = {"item_id"}
  BY DEF Fields, Accessors, C_UseItem_Accessors
<1>2. LaidOut(t)
  BY <1>1 DEF LaidOut, Impl, C_UseItem_Impl
<1>3. /\ SpanIn(t, <<"item_id", "item_id">>) = {"item_id"}
  <2>1. PlaceIn(t, "item_id") = 1
    BY DEF PlaceIn, Impl, C_UseItem_Impl
  <2> QED
    BY <2>1 DEF SpanIn, NoSpan, Impl, C_UseItem_Impl
<1>4. /\ ShapeIn(t, "item_id") = "scalar" /\ BitIn(t, "item_id") = 0
  BY DEF ShapeIn, BitIn, Accessors, C_UseItem_Accessors, Text, Child, List, Scalar
<1>5. ASSUME NEW f \in Fields(t) PROVE FieldSound(t, f)
  <2>1. ShapeSound(t, f) /\ FreedSound(t, f)
    BY <1>1, <1>4 DEF ShapeSound, FreedSound, Life, C_UseItem_Life
  <2>2. FreshSound(t, f) /\ SwapSound(t, f)
    BY <1>1, <1>3, <1>4, NoSpanEmpty DEF FreshSound, Life, C_UseItem_Life, New, C_UseItem_New,
      DefaultInstance, C_UseItem_Default, SwapSound, SwapOf, C_UseItem_Swap
  <2>3. MergeSound(t, f)
    BY <1>1, <1>4 DEF MergeSound, MergeOf, C_UseItem_Merge, IfNonZero, IfNonEmpty, MergeChild,
      AppendList
  <2>4. CopySound(t, f)
    BY <1>1, <1>4 DEF CopySound, Copy, C_UseItem_Copy, Memberwise
  <2>5. ClearSound(t, f)
    <3>1. \E g \in ClearOf[t] : f \in SpanIn(t, g.span) /\ (g.bits = {} \/ BitIn(t, f) \in g.bits)
      BY <1>1, <1>3, <1>4 DEF ClearOf, C_UseItem_Clear, When, Always
    <3>2. ASSUME NEW g \in ClearOf[t], f \in SpanIn(t, g.span), ShapeIn(t, f) = "child"
          PROVE  g.bits = {BitIn(t, f)}
      BY <1>1, <1>3, <1>4, <3>2 DEF ClearOf, C_UseItem_Clear, When, Always
    <3> QED
      BY <3>1, <3>2 DEF ClearSound
  <2> QED
    BY <2>1, <2>2, <2>3, <2>4, <2>5 DEF FieldSound
<1>6. Listed(t)
  BY <1>1 DEF Listed, ProtoFields, C_UseItem_Proto, Field, Repeated, SerializeOf, C_UseItem_Serialize,
    ByteSizeOf, C_UseItem_ByteSize, TableOf, C_UseItem_Table
<1>7. ASSUME NEW i \in DOMAIN ProtoFields[t]
      PROVE  DeclarationSound(t, ProtoFields[t][i], SerializeOf[t][i])
  <2> DEFINE d == ProtoFields[t][i]
             w == SerializeOf[t][i]
  <2>1. \/ d = Field("item_id", 1, "uint64") /\ w = Write("item_id", 1, 0, "UInt64")
    BY DEF ProtoFields, C_UseItem_Proto, SerializeOf, C_UseItem_Serialize
  <2>2. (d.ty \in MessageTypes <=> d.ty \in {}) /\ (d.ty \in Enums <=> d.ty \in {})
    BY <2>1 DEF MessageTypes, ProtoFields, Enums, Field, Repeated
  <2> HIDE DEF d, w
  <2>3. WireFormat(d) = w.format /\ (~d.repeated => FormatOf(d.ty) = w.format)
    BY <2>1, <2>2 DEF WireFormat, FormatOf, Write, Field, Repeated
  <2>4. /\ Kind(d) = IF d.repeated THEN "list" ELSE IF ShapeIn(t, d.name) = "child" THEN "child" ELSE "value"
        /\ d.repeated <=> ShapeIn(t, d.name) = "list"
        /\ d.name \in Fields(t)
    BY <1>1, <1>4, <2>1, <2>2 DEF Kind, Field, Repeated
  <2>5. Kind(d) = "value" => w.format \notin {"Message", "RepMessage", "UInt64Packed"}
    BY <2>1, <2>2 DEF Kind, Field, Repeated, Write
  <2>6. /\ w = Write(d.name, d.number, BitIn(t, d.name), w.format)
        /\ ByteSizeOf[t][d.name] = Size(BitIn(t, d.name), w.format)
    BY <1>4, <2>1 DEF ByteSizeOf, C_UseItem_ByteSize, Size, Write, Field, Repeated
  <2>7. /\ TableOf[t][d.name].number = d.number /\ TableOf[t][d.name].bit = BitIn(t, d.name)
        /\ TableReads(TableOf[t][d.name].kind, d)
    BY <1>4, <2>1, <2>2, <2>3, <2>4 DEF TableReads, FormatRead, TableOf, C_UseItem_Table, Entry, Write,
      Field, Repeated
  <2> QED
    BY <2>3, <2>4, <2>5, <2>6, <2>7 DEF DeclarationSound, d, w
<1> QED
  BY <1>2, <1>5, <1>6, <1>7 DEF ClassSound

LEMMA SInventoryUpdateSound == ClassSound("S_InventoryUpdate")
<1> DEFINE t == "S_InventoryUpdate"
<1>1. Fields(t) = {"items"}
  BY DEF Fields, Accessors, S_InventoryUpdate_Accessors
<1>2. LaidOut(t)
  BY <1>1 DEF LaidOut, Impl, S_InventoryUpdate_Impl
<1>3. /\ SpanIn(t, <<"items", "items">>) = {"items"}
  <2>1. PlaceIn(t, "items") = 1
    BY DEF PlaceIn, Impl, S_InventoryUpdate_Impl
  <2> QED
    BY <2>1 DEF SpanIn, NoSpan, Impl, S_InventoryUpdate_Impl
<1>4. /\ ShapeIn(t, "items") = "list" /\ BitIn(t, "items") = 0
  BY DEF ShapeIn, BitIn, Accessors, S_InventoryUpdate_Accessors, Text, Child, List, Scalar
<1>5. ASSUME NEW f \in Fields(t) PROVE FieldSound(t, f)
  <2>1. ShapeSound(t, f) /\ FreedSound(t, f)
    BY <1>1, <1>4 DEF ShapeSound, FreedSound, Life, S_InventoryUpdate_Life
  <2>2. FreshSound(t, f) /\ SwapSound(t, f)
    BY <1>1, <1>3, <1>4, NoSpanEmpty DEF FreshSound, Life, S_InventoryUpdate_Life, New,
      S_InventoryUpdate_New, DefaultInstance, S_InventoryUpdate_Default, SwapSound, SwapOf,
      S_InventoryUpdate_Swap
  <2>3. MergeSound(t, f)
    BY <1>1, <1>4 DEF MergeSound, MergeOf, S_InventoryUpdate_Merge, IfNonZero, IfNonEmpty, MergeChild,
      AppendList
  <2>4. CopySound(t, f)
    BY <1>1, <1>3, <1>4, NoSpanEmpty DEF CopySound, Copy, S_InventoryUpdate_Copy
  <2>5. ClearSound(t, f)
    <3>1. \E g \in ClearOf[t] : f \in SpanIn(t, g.span) /\ (g.bits = {} \/ BitIn(t, f) \in g.bits)
      BY <1>1, <1>3, <1>4 DEF ClearOf, S_InventoryUpdate_Clear, When, Always
    <3>2. ASSUME NEW g \in ClearOf[t], f \in SpanIn(t, g.span), ShapeIn(t, f) = "child"
          PROVE  g.bits = {BitIn(t, f)}
      BY <1>1, <1>3, <1>4, <3>2 DEF ClearOf, S_InventoryUpdate_Clear, When, Always
    <3> QED
      BY <3>1, <3>2 DEF ClearSound
  <2> QED
    BY <2>1, <2>2, <2>3, <2>4, <2>5 DEF FieldSound
<1>6. Listed(t)
  BY <1>1 DEF Listed, ProtoFields, S_InventoryUpdate_Proto, Field, Repeated, SerializeOf,
    S_InventoryUpdate_Serialize, ByteSizeOf, S_InventoryUpdate_ByteSize, TableOf,
    S_InventoryUpdate_Table
<1>7. ASSUME NEW i \in DOMAIN ProtoFields[t]
      PROVE  DeclarationSound(t, ProtoFields[t][i], SerializeOf[t][i])
  <2> DEFINE d == ProtoFields[t][i]
             w == SerializeOf[t][i]
  <2>1. \/ d = Repeated("items", 1, "ItemInfo") /\ w = Write("items", 1, 0, "RepMessage")
    BY DEF ProtoFields, S_InventoryUpdate_Proto, SerializeOf, S_InventoryUpdate_Serialize
  <2>2. (d.ty \in MessageTypes <=> d.ty \in {"ItemInfo"}) /\ (d.ty \in Enums <=> d.ty \in {})
    BY <2>1 DEF MessageTypes, ProtoFields, Enums, Field, Repeated
  <2> HIDE DEF d, w
  <2>3. WireFormat(d) = w.format /\ (~d.repeated => FormatOf(d.ty) = w.format)
    BY <2>1, <2>2 DEF WireFormat, FormatOf, Write, Field, Repeated
  <2>4. /\ Kind(d) = IF d.repeated THEN "list" ELSE IF ShapeIn(t, d.name) = "child" THEN "child" ELSE "value"
        /\ d.repeated <=> ShapeIn(t, d.name) = "list"
        /\ d.name \in Fields(t)
    BY <1>1, <1>4, <2>1, <2>2 DEF Kind, Field, Repeated
  <2>5. Kind(d) = "value" => w.format \notin {"Message", "RepMessage", "UInt64Packed"}
    BY <2>1, <2>2 DEF Kind, Field, Repeated, Write
  <2>6. /\ w = Write(d.name, d.number, BitIn(t, d.name), w.format)
        /\ ByteSizeOf[t][d.name] = Size(BitIn(t, d.name), w.format)
    BY <1>4, <2>1 DEF ByteSizeOf, S_InventoryUpdate_ByteSize, Size, Write, Field, Repeated
  <2>7. /\ TableOf[t][d.name].number = d.number /\ TableOf[t][d.name].bit = BitIn(t, d.name)
        /\ TableReads(TableOf[t][d.name].kind, d)
    BY <1>4, <2>1, <2>2, <2>3, <2>4 DEF TableReads, FormatRead, TableOf, S_InventoryUpdate_Table,
      Entry, Write, Field, Repeated
  <2> QED
    BY <2>3, <2>4, <2>5, <2>6, <2>7 DEF DeclarationSound, d, w
<1> QED
  BY <1>2, <1>5, <1>6, <1>7 DEF ClassSound

LEMMA CEnterZoneSound == ClassSound("C_EnterZone")
<1> DEFINE t == "C_EnterZone"
<1>1. Fields(t) = {"zone_id"}
  BY DEF Fields, Accessors, C_EnterZone_Accessors
<1>2. LaidOut(t)
  BY <1>1 DEF LaidOut, Impl, C_EnterZone_Impl
<1>3. /\ SpanIn(t, <<"zone_id", "zone_id">>) = {"zone_id"}
  <2>1. PlaceIn(t, "zone_id") = 1
    BY DEF PlaceIn, Impl, C_EnterZone_Impl
  <2> QED
    BY <2>1 DEF SpanIn, NoSpan, Impl, C_EnterZone_Impl
<1>4. /\ ShapeIn(t, "zone_id") = "scalar" /\ BitIn(t, "zone_id") = 0
  BY DEF ShapeIn, BitIn, Accessors, C_EnterZone_Accessors, Text, Child, List, Scalar
<1>5. ASSUME NEW f \in Fields(t) PROVE FieldSound(t, f)
  <2>1. ShapeSound(t, f) /\ FreedSound(t, f)
    BY <1>1, <1>4 DEF ShapeSound, FreedSound, Life, C_EnterZone_Life
  <2>2. FreshSound(t, f) /\ SwapSound(t, f)
    BY <1>1, <1>3, <1>4, NoSpanEmpty DEF FreshSound, Life, C_EnterZone_Life, New, C_EnterZone_New,
      DefaultInstance, C_EnterZone_Default, SwapSound, SwapOf, C_EnterZone_Swap
  <2>3. MergeSound(t, f)
    BY <1>1, <1>4 DEF MergeSound, MergeOf, C_EnterZone_Merge, IfNonZero, IfNonEmpty, MergeChild,
      AppendList
  <2>4. CopySound(t, f)
    BY <1>1, <1>4 DEF CopySound, Copy, C_EnterZone_Copy, Memberwise
  <2>5. ClearSound(t, f)
    <3>1. \E g \in ClearOf[t] : f \in SpanIn(t, g.span) /\ (g.bits = {} \/ BitIn(t, f) \in g.bits)
      BY <1>1, <1>3, <1>4 DEF ClearOf, C_EnterZone_Clear, When, Always
    <3>2. ASSUME NEW g \in ClearOf[t], f \in SpanIn(t, g.span), ShapeIn(t, f) = "child"
          PROVE  g.bits = {BitIn(t, f)}
      BY <1>1, <1>3, <1>4, <3>2 DEF ClearOf, C_EnterZone_Clear, When, Always
    <3> QED
      BY <3>1, <3>2 DEF ClearSound
  <2> QED
    BY <2>1, <2>2, <2>3, <2>4, <2>5 DEF FieldSound
<1>6. Listed(t)
  BY <1>1 DEF Listed, ProtoFields, C_EnterZone_Proto, Field, Repeated, SerializeOf,
    C_EnterZone_Serialize, ByteSizeOf, C_EnterZone_ByteSize, TableOf, C_EnterZone_Table
<1>7. ASSUME NEW i \in DOMAIN ProtoFields[t]
      PROVE  DeclarationSound(t, ProtoFields[t][i], SerializeOf[t][i])
  <2> DEFINE d == ProtoFields[t][i]
             w == SerializeOf[t][i]
  <2>1. \/ d = Field("zone_id", 1, "uint32") /\ w = Write("zone_id", 1, 0, "UInt32")
    BY DEF ProtoFields, C_EnterZone_Proto, SerializeOf, C_EnterZone_Serialize
  <2>2. (d.ty \in MessageTypes <=> d.ty \in {}) /\ (d.ty \in Enums <=> d.ty \in {})
    BY <2>1 DEF MessageTypes, ProtoFields, Enums, Field, Repeated
  <2> HIDE DEF d, w
  <2>3. WireFormat(d) = w.format /\ (~d.repeated => FormatOf(d.ty) = w.format)
    BY <2>1, <2>2 DEF WireFormat, FormatOf, Write, Field, Repeated
  <2>4. /\ Kind(d) = IF d.repeated THEN "list" ELSE IF ShapeIn(t, d.name) = "child" THEN "child" ELSE "value"
        /\ d.repeated <=> ShapeIn(t, d.name) = "list"
        /\ d.name \in Fields(t)
    BY <1>1, <1>4, <2>1, <2>2 DEF Kind, Field, Repeated
  <2>5. Kind(d) = "value" => w.format \notin {"Message", "RepMessage", "UInt64Packed"}
    BY <2>1, <2>2 DEF Kind, Field, Repeated, Write
  <2>6. /\ w = Write(d.name, d.number, BitIn(t, d.name), w.format)
        /\ ByteSizeOf[t][d.name] = Size(BitIn(t, d.name), w.format)
    BY <1>4, <2>1 DEF ByteSizeOf, C_EnterZone_ByteSize, Size, Write, Field, Repeated
  <2>7. /\ TableOf[t][d.name].number = d.number /\ TableOf[t][d.name].bit = BitIn(t, d.name)
        /\ TableReads(TableOf[t][d.name].kind, d)
    BY <1>4, <2>1, <2>2, <2>3, <2>4 DEF TableReads, FormatRead, TableOf, C_EnterZone_Table, Entry,
      Write, Field, Repeated
  <2> QED
    BY <2>3, <2>4, <2>5, <2>6, <2>7 DEF DeclarationSound, d, w
<1> QED
  BY <1>2, <1>5, <1>6, <1>7 DEF ClassSound

LEMMA SEnterZoneSound == ClassSound("S_EnterZone")
<1> DEFINE t == "S_EnterZone"
<1>1. Fields(t) = {"spawn_pos", "success", "zone_id"}
  BY DEF Fields, Accessors, S_EnterZone_Accessors
<1>2. LaidOut(t)
  BY <1>1 DEF LaidOut, Impl, S_EnterZone_Impl
<1>3. /\ SpanIn(t, <<"spawn_pos", "zone_id">>) = {"spawn_pos", "success", "zone_id"}
      /\ SpanIn(t, <<"success", "zone_id">>) = {"success", "zone_id"}
      /\ SpanIn(t, <<"spawn_pos", "spawn_pos">>) = {"spawn_pos"}
  <2>1. PlaceIn(t, "spawn_pos") = 1 /\ PlaceIn(t, "success") = 2 /\ PlaceIn(t, "zone_id") = 3
    BY DEF PlaceIn, Impl, S_EnterZone_Impl
  <2> QED
    BY <2>1 DEF SpanIn, NoSpan, Impl, S_EnterZone_Impl
<1>4. /\ ShapeIn(t, "spawn_pos") = "child" /\ BitIn(t, "spawn_pos") = 0
      /\ ShapeIn(t, "success") = "scalar" /\ BitIn(t, "success") = 1
      /\ ShapeIn(t, "zone_id") = "scalar" /\ BitIn(t, "zone_id") = 2
  BY DEF ShapeIn, BitIn, Accessors, S_EnterZone_Accessors, Text, Child, List, Scalar
<1>5. ASSUME NEW f \in Fields(t) PROVE FieldSound(t, f)
  <2>1. ShapeSound(t, f) /\ FreedSound(t, f)
    BY <1>1, <1>4 DEF ShapeSound, FreedSound, Life, S_EnterZone_Life
  <2>2. FreshSound(t, f) /\ SwapSound(t, f)
    BY <1>1, <1>3, <1>4, NoSpanEmpty DEF FreshSound, Life, S_EnterZone_Life, New, S_EnterZone_New,
      DefaultInstance, S_EnterZone_Default, SwapSound, SwapOf, S_EnterZone_Swap
  <2>3. MergeSound(t, f)
    BY <1>1, <1>4 DEF MergeSound, MergeOf, S_EnterZone_Merge, IfNonZero, IfNonEmpty, MergeChild,
      AppendList
  <2>4. CopySound(t, f)
    BY <1>1, <1>3, <1>4, NoSpanEmpty DEF CopySound, Copy, S_EnterZone_Copy
  <2>5. ClearSound(t, f)
    <3>1. \E g \in ClearOf[t] : f \in SpanIn(t, g.span) /\ (g.bits = {} \/ BitIn(t, f) \in g.bits)
      BY <1>1, <1>3, <1>4 DEF ClearOf, S_EnterZone_Clear, When, Always
    <3>2. ASSUME NEW g \in ClearOf[t], f \in SpanIn(t, g.span), ShapeIn(t, f) = "child"
          PROVE  g.bits = {BitIn(t, f)}
      BY <1>1, <1>3, <1>4, <3>2 DEF ClearOf, S_EnterZone_Clear, When, Always
    <3> QED
      BY <3>1, <3>2 DEF ClearSound
  <2> QED
    BY <2>1, <2>2, <2>3, <2>4, <2>5 DEF FieldSound
<1>6. Listed(t)
  BY <1>1 DEF Listed, ProtoFields, S_EnterZone_Proto, Field, Repeated, SerializeOf,
    S_EnterZone_Serialize, ByteSizeOf, S_EnterZone_ByteSize, TableOf, S_EnterZone_Table
<1>7. ASSUME NEW i \in DOMAIN ProtoFields[t]
      PROVE  DeclarationSound(t, ProtoFields[t][i], SerializeOf[t][i])
  <2> DEFINE d == ProtoFields[t][i]
             w == SerializeOf[t][i]
  <2>1. \/ d = Field("success", 1, "bool") /\ w = Write("success", 1, 1, "Bool")
        \/ d = Field("zone_id", 2, "uint32") /\ w = Write("zone_id", 2, 2, "UInt32")
        \/ d = Field("spawn_pos", 3, "Vector2") /\ w = Write("spawn_pos", 3, 0, "Message")
    BY DEF ProtoFields, S_EnterZone_Proto, SerializeOf, S_EnterZone_Serialize
  <2>2. (d.ty \in MessageTypes <=> d.ty \in {"Vector2"}) /\ (d.ty \in Enums <=> d.ty \in {})
    BY <2>1 DEF MessageTypes, ProtoFields, Enums, Field, Repeated
  <2> HIDE DEF d, w
  <2>3. WireFormat(d) = w.format /\ (~d.repeated => FormatOf(d.ty) = w.format)
    BY <2>1, <2>2 DEF WireFormat, FormatOf, Write, Field, Repeated
  <2>4. /\ Kind(d) = IF d.repeated THEN "list" ELSE IF ShapeIn(t, d.name) = "child" THEN "child" ELSE "value"
        /\ d.repeated <=> ShapeIn(t, d.name) = "list"
        /\ d.name \in Fields(t)
    BY <1>1, <1>4, <2>1, <2>2 DEF Kind, Field, Repeated
  <2>5. Kind(d) = "value" => w.format \notin {"Message", "RepMessage", "UInt64Packed"}
    BY <2>1, <2>2 DEF Kind, Field, Repeated, Write
  <2>6. /\ w = Write(d.name, d.number, BitIn(t, d.name), w.format)
        /\ ByteSizeOf[t][d.name] = Size(BitIn(t, d.name), w.format)
    BY <1>4, <2>1 DEF ByteSizeOf, S_EnterZone_ByteSize, Size, Write, Field, Repeated
  <2>7. /\ TableOf[t][d.name].number = d.number /\ TableOf[t][d.name].bit = BitIn(t, d.name)
        /\ TableReads(TableOf[t][d.name].kind, d)
    BY <1>4, <2>1, <2>2, <2>3, <2>4 DEF TableReads, FormatRead, TableOf, S_EnterZone_Table, Entry,
      Write, Field, Repeated
  <2> QED
    BY <2>3, <2>4, <2>5, <2>6, <2>7 DEF DeclarationSound, d, w
<1> QED
  BY <1>2, <1>5, <1>6, <1>7 DEF ClassSound

LEMMA CPingSound == ClassSound("C_Ping")
<1> DEFINE t == "C_Ping"
<1>1. Fields(t) = {"client_time"}
  BY DEF Fields, Accessors, C_Ping_Accessors
<1>2. LaidOut(t)
  BY <1>1 DEF LaidOut, Impl, C_Ping_Impl
<1>3. /\ SpanIn(t, <<"client_time", "client_time">>) = {"client_time"}
  <2>1. PlaceIn(t, "client_time") = 1
    BY DEF PlaceIn, Impl, C_Ping_Impl
  <2> QED
    BY <2>1 DEF SpanIn, NoSpan, Impl, C_Ping_Impl
<1>4. /\ ShapeIn(t, "client_time") = "scalar" /\ BitIn(t, "client_time") = 0
  BY DEF ShapeIn, BitIn, Accessors, C_Ping_Accessors, Text, Child, List, Scalar
<1>5. ASSUME NEW f \in Fields(t) PROVE FieldSound(t, f)
  <2>1. ShapeSound(t, f) /\ FreedSound(t, f)
    BY <1>1, <1>4 DEF ShapeSound, FreedSound, Life, C_Ping_Life
  <2>2. FreshSound(t, f) /\ SwapSound(t, f)
    BY <1>1, <1>3, <1>4, NoSpanEmpty DEF FreshSound, Life, C_Ping_Life, New, C_Ping_New,
      DefaultInstance, C_Ping_Default, SwapSound, SwapOf, C_Ping_Swap
  <2>3. MergeSound(t, f)
    BY <1>1, <1>4 DEF MergeSound, MergeOf, C_Ping_Merge, IfNonZero, IfNonEmpty, MergeChild, AppendList
  <2>4. CopySound(t, f)
    BY <1>1, <1>4 DEF CopySound, Copy, C_Ping_Copy, Memberwise
  <2>5. ClearSound(t, f)
    <3>1. \E g \in ClearOf[t] : f \in SpanIn(t, g.span) /\ (g.bits = {} \/ BitIn(t, f) \in g.bits)
      BY <1>1, <1>3, <1>4 DEF ClearOf, C_Ping_Clear, When, Always
    <3>2. ASSUME NEW g \in ClearOf[t], f \in SpanIn(t, g.span), ShapeIn(t, f) = "child"
          PROVE  g.bits = {BitIn(t, f)}
      BY <1>1, <1>3, <1>4, <3>2 DEF ClearOf, C_Ping_Clear, When, Always
    <3> QED
      BY <3>1, <3>2 DEF ClearSound
  <2> QED
    BY <2>1, <2>2, <2>3, <2>4, <2>5 DEF FieldSound
<1>6. Listed(t)
  BY <1>1 DEF Listed, ProtoFields, C_Ping_Proto, Field, Repeated, SerializeOf, C_Ping_Serialize,
    ByteSizeOf, C_Ping_ByteSize, TableOf, C_Ping_Table
<1>7. ASSUME NEW i \in DOMAIN ProtoFields[t]
      PROVE  DeclarationSound(t, ProtoFields[t][i], SerializeOf[t][i])
  <2> DEFINE d == ProtoFields[t][i]
             w == SerializeOf[t][i]
  <2>1. \/ d = Field("client_time", 1, "uint64") /\ w = Write("client_time", 1, 0, "UInt64")
    BY DEF ProtoFields, C_Ping_Proto, SerializeOf, C_Ping_Serialize
  <2>2. (d.ty \in MessageTypes <=> d.ty \in {}) /\ (d.ty \in Enums <=> d.ty \in {})
    BY <2>1 DEF MessageTypes, ProtoFields, Enums, Field, Repeated
  <2> HIDE DEF d, w
  <2>3. WireFormat(d) = w.format /\ (~d.repeated => FormatOf(d.ty) = w.format)
    BY <2>1, <2>2 DEF WireFormat, FormatOf, Write, Field, Repeated
  <2>4. /\ Kind(d) = IF d.repeated THEN "list" ELSE IF ShapeIn(t, d.name) = "child" THEN "child" ELSE "value"
        /\ d.repeated <=> ShapeIn(t, d.name) = "list"
        /\ d.name \in Fields(t)
    BY <1>1, <1>4, <2>1, <2>2 DEF Kind, Field, Repeated
  <2>5. Kind(d) = "value" => w.format \notin {"Message", "RepMessage", "UInt64Packed"}
    BY <2>1, <2>2 DEF Kind, Field, Repeated, Write
  <2>6. /\ w = Write(d.name, d.number, BitIn(t, d.name), w.format)
        /\ ByteSizeOf[t][d.name] = Size(BitIn(t, d.name), w.format)
    BY <1>4, <2>1 DEF ByteSizeOf, C_Ping_ByteSize, Size, Write, Field, Repeated
  <2>7. /\ TableOf[t][d.name].number = d.number /\ TableOf[t][d.name].bit = BitIn(t, d.name)
        /\ TableReads(TableOf[t][d.name].kind, d)
    BY <1>4, <2>1, <2>2, <2>3, <2>4 DEF TableReads, FormatRead, TableOf, C_Ping_Table, Entry, Write,
      Field, Repeated
  <2> QED
    BY <2>3, <2>4, <2>5, <2>6, <2>7 DEF DeclarationSound, d, w
<1> QED
  BY <1>2, <1>5, <1>6, <1>7 DEF ClassSound

LEMMA SPongSound == ClassSound("S_Pong")
<1> DEFINE t == "S_Pong"
<1>1. Fields(t) = {"client_time", "server_time"}
  BY DEF Fields, Accessors, S_Pong_Accessors
<1>2. LaidOut(t)
  BY <1>1 DEF LaidOut, Impl, S_Pong_Impl
<1>3. /\ SpanIn(t, <<"client_time", "server_time">>) = {"client_time", "server_time"}
  <2>1. PlaceIn(t, "client_time") = 1 /\ PlaceIn(t, "server_time") = 2
    BY DEF PlaceIn, Impl, S_Pong_Impl
  <2> QED
    BY <2>1 DEF SpanIn, NoSpan, Impl, S_Pong_Impl
<1>4. /\ ShapeIn(t, "client_time") = "scalar" /\ BitIn(t, "client_time") = 0
      /\ ShapeIn(t, "server_time") = "scalar" /\ BitIn(t, "server_time") = 1
  BY DEF ShapeIn, BitIn, Accessors, S_Pong_Accessors, Text, Child, List, Scalar
<1>5. ASSUME NEW f \in Fields(t) PROVE FieldSound(t, f)
  <2>1. ShapeSound(t, f) /\ FreedSound(t, f)
    BY <1>1, <1>4 DEF ShapeSound, FreedSound, Life, S_Pong_Life
  <2>2. FreshSound(t, f) /\ SwapSound(t, f)
    BY <1>1, <1>3, <1>4, NoSpanEmpty DEF FreshSound, Life, S_Pong_Life, New, S_Pong_New,
      DefaultInstance, S_Pong_Default, SwapSound, SwapOf, S_Pong_Swap
  <2>3. MergeSound(t, f)
    BY <1>1, <1>4 DEF MergeSound, MergeOf, S_Pong_Merge, IfNonZero, IfNonEmpty, MergeChild, AppendList
  <2>4. CopySound(t, f)
    BY <1>1, <1>4 DEF CopySound, Copy, S_Pong_Copy, Memberwise
  <2>5. ClearSound(t, f)
    <3>1. \E g \in ClearOf[t] : f \in SpanIn(t, g.span) /\ (g.bits = {} \/ BitIn(t, f) \in g.bits)
      BY <1>1, <1>3, <1>4 DEF ClearOf, S_Pong_Clear, When, Always
    <3>2. ASSUME NEW g \in ClearOf[t], f \in SpanIn(t, g.span), ShapeIn(t, f) = "child"
          PROVE  g.bits = {BitIn(t, f)}
      BY <1>1, <1>3, <1>4, <3>2 DEF ClearOf, S_Pong_Clear, When, Always
    <3> QED
      BY <3>1, <3>2 DEF ClearSound
  <2> QED
    BY <2>1, <2>2, <2>3, <2>4, <2>5 DEF FieldSound
<1>6. Listed(t)
  BY <1>1 DEF Listed, ProtoFields, S_Pong_Proto, Field, Repeated, SerializeOf, S_Pong_Serialize,
    ByteSizeOf, S_Pong_ByteSize, TableOf, S_Pong_Table
<1>7. ASSUME NEW i \in DOMAIN ProtoFields[t]
      PROVE  DeclarationSound(t, ProtoFields[t][i], SerializeOf[t][i])
  <2> DEFINE d == ProtoFields[t][i]
             w == SerializeOf[t][i]
  <2>1. \/ d = Field("client_time", 1, "uint64") /\ w = Write("client_time", 1, 0, "UInt64")
        \/ d = Field("server_time", 2, "uint64") /\ w = Write("server_time", 2, 1, "UInt64")
    BY DEF ProtoFields, S_Pong_Proto, SerializeOf, S_Pong_Serialize
  <2>2. (d.ty \in MessageTypes <=> d.ty \in {}) /\ (d.ty \in Enums <=> d.ty \in {})
    BY <2>1 DEF MessageTypes, ProtoFields, Enums, Field, Repeated
  <2> HIDE DEF d, w
  <2>3. WireFormat(d) = w.format /\ (~d.repeated => FormatOf(d.ty) = w.format)
    BY <2>1, <2>2 DEF WireFormat, FormatOf, Write, Field, Repeated
  <2>4. /\ Kind(d) = IF d.repeated THEN "list" ELSE IF ShapeIn(t, d.name) = "child" THEN "child" ELSE "value"
        /\ d.repeated <=> ShapeIn(t, d.name) = "list"
        /\ d.name \in Fields(t)
    BY <1>1, <1>4, <2>1, <2>2 DEF Kind, Field, Repeated
  <2>5. Kind(d) = "value" => w.format \notin {"Message", "RepMessage", "UInt64Packed"}
    BY <2>1, <2>2 DEF Kind, Field, Repeated, Write
  <2>6. /\ w = Write(d.name, d.number, BitIn(t, d.name), w.format)
        /\ ByteSizeOf[t][d.name] = Size(BitIn(t, d.name), w.format)
    BY <1>4, <2>1 DEF ByteSizeOf, S_Pong_ByteSize, Size, Write, Field, Repeated
  <2>7. /\ TableOf[t][d.name].number = d.number /\ TableOf[t][d.name].bit = BitIn(t, d.name)
        /\ TableReads(TableOf[t][d.name].kind, d)
    BY <1>4, <2>1, <2>2, <2>3, <2>4 DEF TableReads, FormatRead, TableOf, S_Pong_Table, Entry, Write,
      Field, Repeated
  <2> QED
    BY <2>3, <2>4, <2>5, <2>6, <2>7 DEF DeclarationSound, d, w
<1> QED
  BY <1>2, <1>5, <1>6, <1>7 DEF ClassSound

\* So every class satisfies them.
LEMMA EveryClassSound == ASSUME NEW t \in MessageTypes PROVE ClassSound(t)
<1>1. t \in {"Vector2", "StatInfo", "PlayerInfo", "C_EnterGame", "S_EnterGame", "S_Spawn",
              "S_Despawn", "S_PlayerList", "C_LadderState", "C_InputCmd", "S_PlayerState",
              "S_BroadcastMove", "C_Attack", "S_AttackResult", "S_TakeDamage", "S_Die",
              "C_Resurrect", "S_Resurrect", "C_Chat", "S_Chat", "ItemInfo", "C_UseItem",
              "S_InventoryUpdate", "C_EnterZone", "S_EnterZone", "C_Ping", "S_Pong"}
  BY DEF MessageTypes, ProtoFields
<1> QED
  BY <1>1, Vector2Sound, StatInfoSound, PlayerInfoSound, CEnterGameSound, SEnterGameSound, SSpawnSound,
     SDespawnSound, SPlayerListSound, CLadderStateSound, CInputCmdSound, SPlayerStateSound,
     SBroadcastMoveSound, CAttackSound, SAttackResultSound, STakeDamageSound, SDieSound,
     CResurrectSound, SResurrectSound, CChatSound, SChatSound, ItemInfoSound, CUseItemSound,
     SInventoryUpdateSound, CEnterZoneSound, SEnterZoneSound, CPingSound, SPongSound

-----------------------------------------------------------------------------
(* An object that holds what game.proto says. *)

EmptyOf(shape) == IF shape \in {"scalar", "text"} THEN 0 ELSE <<>>
ValuesOf(shape) ==
    IF shape \in {"scalar", "text"} THEN Nat
    ELSE IF shape = "child" THEN {<<>>} \cup {<<n>> : n \in Nat} ELSE Seq(Nat)

\* One field of this shape, its has-bit set or not, stores v and should hold q.
FieldHolds(shape, set, v, q) ==
    /\ v \in ValuesOf(shape)
    /\ q = IF shape = "child" /\ ~set THEN <<>> ELSE v
    /\ ~set => v = EmptyOf(shape) \/ (shape = "child" /\ v = <<0>>)
    /\ set /\ shape = "child" => v # <<>>

\* The object o of class t holds p.
Holds(t, o, p) ==
    /\ o = [bits |-> o.bits, val |-> [f \in Fields(t) |-> o.val[f]]]
    /\ o.bits \subseteq {BitIn(t, f) : f \in Fields(t)}
    /\ p = [f \in Fields(t) |-> p[f]]
    /\ \A f \in Fields(t) : FieldHolds(ShapeIn(t, f), BitIn(t, f) \in o.bits, o.val[f], p[f])

\* The invariant: ObjectExact, with what a set has-bit says of a child.
ObjectInv ==
    /\ type \in MessageTypes
    /\ Holds(type, this, plain)
    /\ Holds(type, other, plainOther)
    /\ ~leaked

LEMMA ObjectInvExact == ObjectInv => ObjectExact
<1>1. ASSUME NEW o, NEW p, Holds(type, o, p) PROVE Agrees(o, p)
  <2>1. DOMAIN o.val = Fields(type) /\ o.bits \subseteq {Bit(f) : f \in DOMAIN o.val}
    BY <1>1 DEF Holds, Fields, Bit, BitIn
  <2>2. ASSUME NEW f \in Fields(type)
        PROVE  /\ p[f] = IF Shape(f) = "child" /\ Bit(f) \notin o.bits THEN <<>> ELSE o.val[f]
               /\ Bit(f) \notin o.bits
                    => o.val[f] \in {Empty(f)} \cup (IF Shape(f) = "child" THEN {<<0>>} ELSE {})
    BY <1>1 DEF Holds, FieldHolds, EmptyOf, ShapeIn, BitIn, Shape, Bit, Empty
  <2> QED
    BY <2>1, <2>2 DEF Agrees
<1> QED
  BY <1>1 DEF ObjectInv, ObjectExact

\* What is known of each field of the class at hand.
LEMMA TypeSound ==
    ASSUME type \in MessageTypes
    PROVE  /\ \A f \in Fields(type) : FieldSound(type, f)
           /\ \A f \in Fields(type) : Shape(f) = ShapeIn(type, f) /\ Bit(f) = BitIn(type, f)
           /\ \A s : Span(s) = SpanIn(type, s)
<1>1. \A f \in Fields(type) : FieldSound(type, f)
  BY EveryClassSound DEF ClassSound
<1>2. \A f \in Fields(type) : Shape(f) = ShapeIn(type, f) /\ Bit(f) = BitIn(type, f)
  BY DEF ShapeIn, BitIn, Shape, Bit
<1>3. ASSUME NEW s PROVE Span(s) = SpanIn(type, s)
  BY DEF Span, SpanIn, PlaceIn
<1> QED
  BY <1>1, <1>2, <1>3

\* The kind of a field in game.proto is the shape of its accessors.
LEMMA KindIs ==
    ASSUME type \in MessageTypes, NEW f \in Fields(type)
    PROVE  KindOf(f) = CASE ShapeIn(type, f) = "child" -> "child"
                         [] ShapeIn(type, f) = "list" -> "list"
                         [] OTHER -> "value"
<1>1. ClassSound(type)
  BY EveryClassSound
<1>2. PICK i \in DOMAIN Declared : Declared[i].name = f
  BY <1>1 DEF ClassSound, Listed, Declared
<1>3. \A d \in ToSet(Declared) : d.name = f => d = Declared[i]
  BY <1>1, <1>2 DEF ClassSound, Listed, Declared, ToSet
<1>4. (CHOOSE d \in ToSet(Declared) : d.name = f) = Declared[i]
  BY <1>2, <1>3 DEF ToSet
<1>5. DeclarationSound(type, Declared[i], SerializeOf[type][i])
  BY <1>1, <1>2 DEF ClassSound, Declared
<1> QED
  BY <1>2, <1>4, <1>5 DEF KindOf, DeclarationSound

LEMMA DefaultIs ==
    ASSUME type \in MessageTypes
    PROVE  Default(type) = [f \in Fields(type) |-> EmptyOf(ShapeIn(type, f))]
<1>1. Names(type) = Fields(type)
  BY EveryClassSound DEF ClassSound, Listed, Names
<1>2. ASSUME NEW f \in Fields(type)
      PROVE  DefaultOf(KindOf(f)) = EmptyOf(ShapeIn(type, f))
  <2>1. ShapeIn(type, f) \in {"scalar", "text", "child", "list"}
    BY TypeSound DEF FieldSound, ShapeSound
  <2> QED
    BY <2>1, KindIs DEF DefaultOf, EmptyOf
<1>3. Default(type) = [f \in Names(type) |-> DefaultOf(KindOf(f))]
  BY DEF Default, KindOf, Declared
<1> QED
  BY <1>1, <1>2, <1>3

-----------------------------------------------------------------------------
(* What each generated function does to an object and its fields. *)

\* A field that is not set; a message may have been kept, empty.
LEMMA UnsetField ==
    ASSUME NEW shape \in {"scalar", "text", "child", "list"}, NEW v,
           v = EmptyOf(shape) \/ (shape = "child" /\ v = << 0 >>)
    PROVE  FieldHolds(shape, FALSE, v, EmptyOf(shape))
<1>1. CASE shape \in {"scalar", "text"}
  BY <1>1 DEF FieldHolds, EmptyOf, ValuesOf
<1>2. CASE shape = "child"
  BY <1>2 DEF FieldHolds, EmptyOf, ValuesOf
<1>3. CASE shape = "list"
  BY <1>3 DEF FieldHolds, EmptyOf, ValuesOf
<1> QED
  BY <1>1, <1>2, <1>3

\* Every way to make an object gives an empty one.
LEMMA CreationHolds ==
    ASSUME type \in MessageTypes, NEW o \in Creations
    PROVE  Holds(type, o, Default(type))
<1>1. \A f \in Fields(type) :
         /\ ShapeIn(type, f) \in {"scalar", "text", "child", "list"}
         /\ FreshSound(type, f)
         /\ Shape(f) = ShapeIn(type, f)
  BY TypeSound DEF FieldSound, ShapeSound
<1>2. o.bits = {} /\ o = [bits |-> o.bits, val |-> [f \in Fields(type) |-> o.val[f]]]
  BY DEF Creations, Construct, ZeroInit, CopyInit, Fields
<1>3. ASSUME NEW f \in Fields(type) PROVE o.val[f] = EmptyOf(ShapeIn(type, f))
  <2>1. Empty(f) = EmptyOf(ShapeIn(type, f)) /\ (Shape(f) # "text" => Zeroed(f) = Empty(f))
    BY <1>1 DEF Empty, EmptyOf, Zeroed
  <2>2. CASE o = Construct
    <3>1. o.val[f] = IF f \in Span(Life[type].zeroed) THEN Zeroed(f)
                     ELSE IF f \in Life[type].made THEN Empty(f) ELSE JunkIn(f)
      BY <2>2 DEF Construct, Fields
    <3> QED
      BY <1>1, <2>1, <3>1, TypeSound DEF FreshSound
  <2>3. CASE "ZeroInit" \in New[type] /\ o = ZeroInit
    <3>1. o.val[f] = Zeroed(f)
      BY <2>3 DEF ZeroInit, Fields
    <3> QED
      BY <1>1, <2>1, <2>3, <3>1 DEF FreshSound
  <2>4. CASE "CopyInit" \in New[type] /\ o = CopyInit
    <3>1. o.val[f] = IF f \in DefaultInstance[type] THEN Empty(f) ELSE JunkIn(f)
      BY <2>4 DEF CopyInit, Fields
    <3> QED
      BY <1>1, <2>1, <2>4, <3>1 DEF FreshSound
  <2> QED
    BY <2>2, <2>3, <2>4 DEF Creations
<1>4. ASSUME NEW f \in Fields(type)
      PROVE  FieldHolds(ShapeIn(type, f), BitIn(type, f) \in o.bits, o.val[f], Default(type)[f])
  <2>1. Default(type)[f] = EmptyOf(ShapeIn(type, f))
    BY DefaultIs
  <2>2. (BitIn(type, f) \in o.bits) = FALSE
    BY <1>2
  <2> QED
    BY <1>1, <1>3, <2>1, <2>2, UnsetField
<1>5. Default(type) = [f \in Fields(type) |-> Default(type)[f]]
  BY DefaultIs
<1> QED
  BY <1>2, <1>4, <1>5 DEF Holds

\* An accessor: one field is given a value, its has-bit set or not.
LEMMA FieldUpdateHolds ==
    ASSUME type \in MessageTypes, NEW o, NEW p, Holds(type, o, p), NEW f \in Fields(type),
           NEW bits, NEW v, NEW q,
           \/ bits = o.bits \cup {Bit(f)} /\ FieldHolds(ShapeIn(type, f), TRUE, v, q)
           \/ bits = o.bits \ {Bit(f)} /\ FieldHolds(ShapeIn(type, f), FALSE, v, q)
    PROVE  Holds(type, [bits |-> bits, val |-> [o.val EXCEPT ![f] = v]], [p EXCEPT ![f] = q])
<1> DEFINE n == [bits |-> bits, val |-> [o.val EXCEPT ![f] = v]]
           r == [p EXCEPT ![f] = q]
<1>1. Bit(f) = BitIn(type, f) /\ \A g \in Fields(type) : BitIn(type, g) = BitIn(type, f) => g = f
  BY TypeSound DEF FieldSound, ShapeSound
<1>2. DOMAIN o.val = Fields(type) /\ DOMAIN p = Fields(type)
  BY DEF Holds
<1>3. n.bits = bits /\ n.val = [g \in Fields(type) |-> IF g = f THEN v ELSE o.val[g]]
  BY <1>2
<1>4. r = [g \in Fields(type) |-> IF g = f THEN q ELSE p[g]]
  BY <1>2
<1>5. bits \subseteq {BitIn(type, g) : g \in Fields(type)}
  BY <1>1 DEF Holds
<1>6. ASSUME NEW g \in Fields(type)
      PROVE  FieldHolds(ShapeIn(type, g), BitIn(type, g) \in bits, n.val[g], r[g])
  <2>1. CASE g = f
    <3>1. n.val[g] = v /\ r[g] = q
      BY <1>3, <1>4, <2>1
    <3>2. CASE bits = o.bits \cup {Bit(f)} /\ FieldHolds(ShapeIn(type, f), TRUE, v, q)
      <4>1. (BitIn(type, g) \in bits) = TRUE
        BY <1>1, <2>1, <3>2
      <4> QED
        BY <2>1, <3>1, <3>2, <4>1 DEF FieldHolds
    <3>3. CASE bits = o.bits \ {Bit(f)} /\ FieldHolds(ShapeIn(type, f), FALSE, v, q)
      <4>1. (BitIn(type, g) \in bits) = FALSE
        BY <1>1, <2>1, <3>3
      <4> QED
        BY <2>1, <3>1, <3>3, <4>1 DEF FieldHolds
    <3> QED
      BY <3>2, <3>3
  <2>2. CASE g # f
    <3>1. n.val[g] = o.val[g] /\ r[g] = p[g]
      BY <1>3, <1>4, <2>2
    <3>2. bits = o.bits \cup {Bit(f)} \/ bits = o.bits \ {Bit(f)}
      OBVIOUS
    <3>3. BitIn(type, g) \in bits <=> BitIn(type, g) \in o.bits
      BY <1>1, <2>2, <3>2
    <3>4. (BitIn(type, g) \in bits) = (BitIn(type, g) \in o.bits)
      BY <3>3
    <3> QED
      BY <3>1, <3>4 DEF Holds
  <2> QED
    BY <2>1, <2>2
<1>7. n = [bits |-> n.bits, val |-> [g \in Fields(type) |-> n.val[g]]]
  BY <1>3
<1>8. r = [g \in Fields(type) |-> r[g]]
  BY <1>4
<1> QED
  BY <1>3, <1>5, <1>6, <1>7, <1>8 DEF Holds

\* Clear leaves every field unset: what it skips was not set before.
LEMMA ClearHolds ==
    ASSUME type \in MessageTypes, NEW o, NEW p, Holds(type, o, p)
    PROVE  Holds(type, Clear(o), Default(type))
<1> DEFINE hit == {g \in ClearOf[type] : g.bits = {} \/ g.bits \cap o.bits # {}}
           reset == UNION {Span(g.span) : g \in hit}
           n == Clear(o)
<1>1. DOMAIN o.val = Fields(type)
  BY DEF Holds
<1>2. /\ n = [bits |-> n.bits, val |-> [f \in Fields(type) |-> n.val[f]]]
      /\ n.bits = {}
      /\ \A f \in Fields(type) : n.val[f] = IF f \in reset THEN Cleared(f, o.val[f]) ELSE o.val[f]
  <2> HIDE DEF reset
  <2>1. n = [bits |-> {}, val |-> [f \in Fields(type) |-> IF f \in reset THEN Cleared(f, o.val[f])
                                                          ELSE o.val[f]]]
    BY <1>1 DEF Clear, reset
  <2> QED
    BY <2>1
<1>3. ASSUME NEW f \in Fields(type)
      PROVE  FieldHolds(ShapeIn(type, f), FALSE, n.val[f], EmptyOf(ShapeIn(type, f)))
  <2>1. /\ ShapeIn(type, f) \in {"scalar", "text", "child", "list"}
        /\ ClearSound(type, f)
        /\ Shape(f) = ShapeIn(type, f)
        /\ FieldHolds(ShapeIn(type, f), BitIn(type, f) \in o.bits, o.val[f], p[f])
    BY TypeSound DEF FieldSound, ShapeSound, Holds
  <2>2. CASE f \in reset
    <3>1. PICK g \in hit : f \in SpanIn(type, g.span)
      BY <2>2, TypeSound
    <3>2. ShapeIn(type, f) = "child" => BitIn(type, f) \in o.bits
      BY <2>1, <3>1 DEF ClearSound
    <3>3. n.val[f] = IF ShapeIn(type, f) = "child" THEN <<0>> ELSE EmptyOf(ShapeIn(type, f))
      BY <1>2, <2>1, <2>2, <3>2 DEF Cleared, FieldHolds, Empty, EmptyOf
    <3> QED
      BY <2>1, <3>3, UnsetField
  <2>3. CASE f \notin reset
    <3>1. PICK g \in ClearOf[type] : f \in SpanIn(type, g.span) /\ (g.bits = {} \/ BitIn(type, f) \in g.bits)
      BY <2>1 DEF ClearSound
    <3>2. g \notin hit
      BY <2>3, <3>1, TypeSound
    <3>3. BitIn(type, f) \notin o.bits
      BY <3>1, <3>2
    <3>4. n.val[f] = EmptyOf(ShapeIn(type, f)) \/ (ShapeIn(type, f) = "child" /\ n.val[f] = <<0>>)
      BY <1>2, <2>1, <2>3, <3>3 DEF FieldHolds
    <3> QED
      BY <2>1, <3>4, UnsetField
  <2> QED
    BY <2>2, <2>3
<1> HIDE DEF n
<1>4. Default(type) = [f \in Fields(type) |-> EmptyOf(ShapeIn(type, f))]
  BY DefaultIs
<1>5. ASSUME NEW f \in Fields(type)
      PROVE  FieldHolds(ShapeIn(type, f), BitIn(type, f) \in n.bits, n.val[f], Default(type)[f])
  <2>1. (BitIn(type, f) \in n.bits) = FALSE
    BY <1>2
  <2> QED
    BY <1>3, <1>4, <2>1
<1>6. Default(type) = [f \in Fields(type) |-> Default(type)[f]]
  BY <1>4
<1>7. Holds(type, n, Default(type))
  BY <1>2, <1>5, <1>6 DEF Holds
<1> QED
  BY <1>7 DEF n

\* Two values of a field merged, as game.proto means it, and what MergeImpl
\* stores for a field set in the source.
MergedBy(shape, a, b) ==
    IF shape \in {"scalar", "text"} THEN (IF b = 0 THEN a ELSE b)
    ELSE IF shape = "child" THEN (IF a = <<>> THEN b ELSE IF b = <<>> THEN a ELSE <<Larger(a[1], b[1])>>)
    ELSE a \o b
StoredBy(shape, v, w) ==
    IF shape \in {"scalar", "text"} THEN (IF w = 0 THEN v ELSE w)
    ELSE IF shape = "child" THEN (IF v = <<>> THEN w ELSE <<Larger(v[1], w[1])>>)
    ELSE v \o w

LEMMA MergedFieldHolds ==
    ASSUME NEW shape \in {"scalar", "text", "child", "list"},
           NEW set \in BOOLEAN, NEW v, NEW q, FieldHolds(shape, set, v, q),
           NEW from \in BOOLEAN, NEW w, NEW r, FieldHolds(shape, from, w, r)
    PROVE  IF from THEN FieldHolds(shape, TRUE, StoredBy(shape, v, w), MergedBy(shape, q, r))
                   ELSE FieldHolds(shape, set, v, MergedBy(shape, q, r))
<1>1. CASE shape \in {"scalar", "text"}
  BY <1>1 DEF FieldHolds, MergedBy, StoredBy, EmptyOf, ValuesOf
<1>2. CASE shape = "child"
  <2>1. CASE ~from
    BY <1>2, <2>1 DEF FieldHolds, MergedBy, EmptyOf, ValuesOf
  <2>2. CASE from
    <3>1. PICK c \in Nat : w = <<c>> /\ r = <<c>>
      BY <1>2, <2>2 DEF FieldHolds, ValuesOf
    <3>2. CASE v = <<>>
      <4>1. StoredBy(shape, v, w) = <<c>> /\ MergedBy(shape, q, r) = <<c>>
        BY <1>2, <3>1, <3>2 DEF FieldHolds, StoredBy, MergedBy
      <4> QED
        BY <1>2, <2>2, <4>1 DEF FieldHolds, ValuesOf
    <3>3. CASE v # <<>>
      <4>1. PICK e \in Nat : v = <<e>> /\ (q = <<e>> \/ (q = <<>> /\ e = 0))
        BY <1>2, <3>3 DEF FieldHolds, ValuesOf, EmptyOf
      <4>2. StoredBy(shape, v, w) = <<Larger(e, c)>>
        BY <1>2, <3>1, <4>1 DEF StoredBy
      <4>3. MergedBy(shape, q, r) = <<Larger(e, c)>>
        BY <1>2, <3>1, <4>1 DEF MergedBy, Larger
      <4>4. Larger(e, c) \in Nat
        BY DEF Larger
      <4> QED
        BY <1>2, <2>2, <4>2, <4>3, <4>4 DEF FieldHolds, ValuesOf
    <3> QED
      BY <3>2, <3>3
  <2> QED
    BY <2>1, <2>2
<1>3. CASE shape = "list"
  <2>1. v \in Seq(Nat) /\ q = v /\ w \in Seq(Nat) /\ r = w /\ (~from => w = <<>>)
    BY <1>3 DEF FieldHolds, ValuesOf, EmptyOf
  <2>2. v \o w \in Seq(Nat) /\ v \o <<>> = v
    BY <2>1
  <2> QED
    BY <1>3, <2>1, <2>2 DEF FieldHolds, MergedBy, StoredBy, EmptyOf, ValuesOf
<1> QED
  BY <1>1, <1>2, <1>3

LEMMA MergedIs ==
    ASSUME type \in MessageTypes, NEW p, p = [f \in Fields(type) |-> p[f]], NEW q
    PROVE  Merged(p, q) = [f \in Fields(type) |-> MergedBy(ShapeIn(type, f), p[f], q[f])]
<1>1. ASSUME NEW f \in Fields(type)
      PROVE  Merged(p, q)[f] = MergedBy(ShapeIn(type, f), p[f], q[f])
  <2>1. ShapeIn(type, f) \in {"scalar", "text", "child", "list"}
    BY TypeSound DEF FieldSound, ShapeSound
  <2>2. DOMAIN p = Fields(type)
    OBVIOUS
  <2>3. CASE ShapeIn(type, f) \in {"scalar", "text"}
    BY <2>2, <2>3, KindIs DEF Merged, MergedBy
  <2>4. CASE ShapeIn(type, f) = "child"
    BY <2>2, <2>4, KindIs DEF Merged, MergedBy
  <2>5. CASE ShapeIn(type, f) = "list"
    BY <2>2, <2>5, KindIs DEF Merged, MergedBy
  <2> QED
    BY <2>1, <2>3, <2>4, <2>5
<1>2. Merged(p, q) = [f \in Fields(type) |-> Merged(p, q)[f]]
  <2> DEFINE E(f) == CASE KindOf(f) = "value" -> IF q[f] = 0 THEN p[f] ELSE q[f]
                       [] KindOf(f) = "child" -> IF p[f] = <<>> THEN q[f]
                                                 ELSE IF q[f] = <<>> THEN p[f]
                                                 ELSE <<Larger(p[f][1], q[f][1])>>
                       [] KindOf(f) = "list"  -> p[f] \o q[f]
  <2>1. Merged(p, q) = [f \in Fields(type) |-> E(f)]
    BY DEF Merged
  <2> HIDE DEF E
  <2> QED
    BY <2>1
<1> QED
  BY <1>1, <1>2

\* MergeFrom merges every field.
LEMMA MergeHolds ==
    ASSUME type \in MessageTypes, NEW o, NEW p, Holds(type, o, p), NEW e, NEW q, Holds(type, e, q)
    PROVE  Holds(type, MergeFrom(o, e), Merged(p, q))
<1> DEFINE n == MergeFrom(o, e)
<1>1. DOMAIN o.val = Fields(type) /\ p = [f \in Fields(type) |-> p[f]]
  BY DEF Holds
<1>2. n.bits = o.bits \cup e.bits /\ n = [bits |-> n.bits, val |-> [f \in Fields(type) |-> n.val[f]]]
  <2> DEFINE Take(f, how) ==
               CASE how = "value" -> IF e.val[f] = 0 THEN o.val[f] ELSE e.val[f]
                 [] how = "child" -> IF o.val[f] = <<>> THEN e.val[f]
                                     ELSE <<Larger(o.val[f][1], e.val[f][1])>>
                 [] how = "append" -> o.val[f] \o e.val[f]
             E(f) == IF f \in DOMAIN MergeOf[type] /\ MergeOf[type][f].bit \in e.bits
                       THEN Take(f, MergeOf[type][f].how) ELSE o.val[f]
  <2>1. n = [bits |-> o.bits \cup e.bits, val |-> [f \in Fields(type) |-> E(f)]]
    BY <1>1 DEF MergeFrom
  <2> HIDE DEF E, n
  <2> QED
    BY <2>1
<1>3. ASSUME NEW f \in Fields(type)
      PROVE  n.val[f] = IF BitIn(type, f) \in e.bits THEN StoredBy(ShapeIn(type, f), o.val[f], e.val[f])
                                                     ELSE o.val[f]
  <2>1. ShapeIn(type, f) \in {"scalar", "text", "child", "list"} /\ MergeSound(type, f)
    BY TypeSound DEF FieldSound, ShapeSound
  <2>2. CASE ShapeIn(type, f) \in {"scalar", "text"}
    BY <1>1, <2>1, <2>2 DEF MergeFrom, MergeSound, StoredBy
  <2>3. CASE ShapeIn(type, f) = "child"
    BY <1>1, <2>1, <2>3 DEF MergeFrom, MergeSound, StoredBy
  <2>4. CASE ShapeIn(type, f) = "list"
    BY <1>1, <2>1, <2>4 DEF MergeFrom, MergeSound, StoredBy
  <2> QED
    BY <2>1, <2>2, <2>3, <2>4
<1> HIDE DEF n
<1>4. ASSUME NEW f \in Fields(type)
      PROVE  FieldHolds(ShapeIn(type, f), BitIn(type, f) \in n.bits, n.val[f], Merged(p, q)[f])
  <2> DEFINE a == BitIn(type, f) \in o.bits
             b == BitIn(type, f) \in e.bits
             s == ShapeIn(type, f)
  <2>1. s \in {"scalar", "text", "child", "list"}
    BY TypeSound DEF FieldSound, ShapeSound
  <2>2. FieldHolds(s, a, o.val[f], p[f]) /\ FieldHolds(s, b, e.val[f], q[f])
    BY DEF Holds
  <2>3. Merged(p, q)[f] = MergedBy(s, p[f], q[f])
    BY <1>1, MergedIs
  <2>4. a \in BOOLEAN /\ b \in BOOLEAN
    OBVIOUS
  <2>5. /\ (BitIn(type, f) \in n.bits) = (a \/ b)
        /\ n.val[f] = IF b THEN StoredBy(s, o.val[f], e.val[f]) ELSE o.val[f]
    BY <1>2, <1>3
  <2> HIDE DEF a, b, s
  <2>6. IF b THEN FieldHolds(s, TRUE, StoredBy(s, o.val[f], e.val[f]), MergedBy(s, p[f], q[f]))
             ELSE FieldHolds(s, a, o.val[f], MergedBy(s, p[f], q[f]))
    BY <2>1, <2>2, <2>4, MergedFieldHolds
  <2>7. FieldHolds(s, a \/ b, n.val[f], Merged(p, q)[f])
    <3>1. CASE b
      <4>1. (a \/ b) = TRUE
        BY <3>1
      <4> QED
        BY <2>3, <2>5, <2>6, <3>1, <4>1
    <3>2. CASE ~b
      <4>1. (a \/ b) = a
        BY <2>4, <3>2
      <4> QED
        BY <2>3, <2>5, <2>6, <3>2, <4>1
    <3> QED
      BY <3>1, <3>2
  <2> QED
    BY <2>5, <2>7 DEF s
<1>5. n.bits \subseteq {BitIn(type, f) : f \in Fields(type)}
  BY <1>2 DEF Holds
<1>6. Merged(p, q) = [f \in Fields(type) |-> Merged(p, q)[f]]
  BY <1>1, MergedIs
<1>7. Holds(type, n, Merged(p, q))
  BY <1>2, <1>4, <1>5, <1>6 DEF Holds
<1> QED
  BY <1>7 DEF n

\* Merging into a message without values gives the other.
LEMMA MergedIntoDefault ==
    ASSUME type \in MessageTypes, NEW o, NEW q, Holds(type, o, q)
    PROVE  Merged(Default(type), q) = q
<1>1. Default(type) = [f \in Fields(type) |-> EmptyOf(ShapeIn(type, f))]
  BY DefaultIs
<1>2. Default(type) = [f \in Fields(type) |-> Default(type)[f]]
  BY <1>1
<1>3. ASSUME NEW f \in Fields(type)
      PROVE  MergedBy(ShapeIn(type, f), EmptyOf(ShapeIn(type, f)), q[f]) = q[f]
  <2>1. /\ ShapeIn(type, f) \in {"scalar", "text", "child", "list"}
        /\ FieldHolds(ShapeIn(type, f), BitIn(type, f) \in o.bits, o.val[f], q[f])
    BY TypeSound DEF FieldSound, ShapeSound, Holds
  <2>2. CASE ShapeIn(type, f) \in {"scalar", "text", "child"}
    BY <2>2 DEF MergedBy, EmptyOf
  <2>3. CASE ShapeIn(type, f) = "list"
    <3>1. q[f] \in Seq(Nat)
      BY <2>1, <2>3 DEF FieldHolds, ValuesOf
    <3> QED
      BY <2>3, <3>1 DEF MergedBy, EmptyOf
  <2> QED
    BY <2>1, <2>2, <2>3
<1>4. q = [f \in Fields(type) |-> q[f]]
  BY DEF Holds
<1> QED
  BY <1>1, <1>2, <1>3, <1>4, MergedIs

\* The copy constructor: bytes only where no pointer is, messages cloned.
LEMMA CopyHolds ==
    ASSUME type \in MessageTypes, NEW o, NEW p, Holds(type, o, p)
    PROVE  Holds(type, CopyConstruct(o), p)
<1>1. DOMAIN o.val = Fields(type) /\ o = [bits |-> o.bits, val |-> [f \in Fields(type) |-> o.val[f]]]
  BY DEF Holds
<1>2. CASE Copy[type].whole
  BY <1>2 DEF CopyConstruct
<1>3. CASE ~Copy[type].whole
  <2> DEFINE n == CopyConstruct(o)
  <2>1. n.bits = o.bits /\ n = [bits |-> n.bits, val |-> [f \in Fields(type) |-> n.val[f]]]
    BY <1>1, <1>3 DEF CopyConstruct
  <2>2. ASSUME NEW f \in Fields(type)
        PROVE  n.val[f] = IF ShapeIn(type, f) = "child" /\ BitIn(type, f) \notin o.bits THEN <<>>
                          ELSE o.val[f]
    <3>1. /\ CopySound(type, f)
          /\ Shape(f) = ShapeIn(type, f)
          /\ FieldHolds(ShapeIn(type, f), BitIn(type, f) \in o.bits, o.val[f], p[f])
          /\ \A s : Span(s) = SpanIn(type, s)
      BY TypeSound DEF FieldSound, Holds
    <3>2. CASE f \in Span(Copy[type].raw)
      <4>1. ShapeIn(type, f) = "scalar"
        BY <3>1, <3>2 DEF CopySound
      <4> QED
        BY <1>1, <1>3, <3>1, <3>2, <4>1 DEF CopyConstruct
    <3>3. CASE f \notin Span(Copy[type].raw) /\ f \in Copy[type].made
      <4>1. ShapeIn(type, f) # "child"
        BY <1>3, <3>1, <3>3 DEF CopySound
      <4> QED
        BY <1>1, <1>3, <3>3, <4>1 DEF CopyConstruct
    <3>4. CASE f \notin Span(Copy[type].raw) /\ f \notin Copy[type].made
      <4>1. /\ ShapeIn(type, f) = "child"
            /\ <<f, BitIn(type, f)>> \in Copy[type].cloned
            /\ \A c \in Copy[type].cloned : c[1] = f => c[2] = BitIn(type, f)
        BY <1>3, <3>1, <3>4 DEF CopySound
      <4>2. (CHOOSE c \in Copy[type].cloned : c[1] = f)[2] = BitIn(type, f)
        <5>1. \E c \in Copy[type].cloned : c[1] = f
          BY <4>1
        <5> QED
          BY <4>1, <5>1
      <4>3. \E c \in Copy[type].cloned : c[1] = f
        BY <4>1
      <4>4. n.val[f] = IF BitIn(type, f) \notin o.bits THEN <<>>
                       ELSE IF o.val[f] = <<>> THEN <<Junk>> ELSE o.val[f]
        BY <1>1, <1>3, <3>4, <4>2, <4>3 DEF CopyConstruct
      <4> QED
        BY <3>1, <4>1, <4>4 DEF FieldHolds
    <3> QED
      BY <3>2, <3>3, <3>4
  <2> HIDE DEF n
  <2>3. ASSUME NEW f \in Fields(type)
        PROVE  FieldHolds(ShapeIn(type, f), BitIn(type, f) \in n.bits, n.val[f], p[f])
    <3>1. /\ FieldHolds(ShapeIn(type, f), BitIn(type, f) \in o.bits, o.val[f], p[f])
          /\ ShapeIn(type, f) \in {"scalar", "text", "child", "list"}
      BY TypeSound DEF FieldSound, ShapeSound, Holds
    <3>2. CASE ShapeIn(type, f) = "child" /\ BitIn(type, f) \notin o.bits
      <4>1. n.val[f] = EmptyOf(ShapeIn(type, f)) /\ p[f] = EmptyOf(ShapeIn(type, f))
        BY <2>2, <3>1, <3>2 DEF EmptyOf, FieldHolds
      <4>2. (BitIn(type, f) \in n.bits) = FALSE
        BY <2>1, <3>2
      <4> QED
        BY <3>1, <4>1, <4>2, UnsetField
    <3>3. CASE ~(ShapeIn(type, f) = "child" /\ BitIn(type, f) \notin o.bits)
      BY <2>1, <2>2, <3>1, <3>3
    <3> QED
      BY <3>2, <3>3
  <2>4. Holds(type, n, p)
    BY <2>1, <2>3 DEF Holds
  <2> QED
    BY <2>4 DEF n
<1> QED
  BY <1>2, <1>3

\* InternalSwap exchanges the objects: its spans are all of the members.
LEMMA SwapIs ==
    ASSUME type \in MessageTypes, NEW o, NEW p, Holds(type, o, p), NEW e, NEW q, Holds(type, e, q)
    PROVE  SwappedWith(o, e) = e
<1>1. \A f \in Fields(type) : f \in UNION {Span(s) : s \in SwapOf[type]}
  BY TypeSound DEF FieldSound, SwapSound
<1>2. DOMAIN o.val = Fields(type) /\ e = [bits |-> e.bits, val |-> [f \in Fields(type) |-> e.val[f]]]
  BY DEF Holds
<1>3. SwappedWith(o, e) = [bits |-> e.bits, val |-> [f \in Fields(type) |-> e.val[f]]]
  BY <1>1, <1>2 DEF SwappedWith
<1> QED
  BY <1>2, <1>3

\* The destructor frees whatever is on the heap.
LEMMA NothingLost ==
    ASSUME type \in MessageTypes, NEW o, NEW p, Holds(type, o, p)
    PROVE  ~Loses(o)
<1>1. \A f \in Fields(type) : FreedSound(type, f) /\ Shape(f) = ShapeIn(type, f)
  BY TypeSound DEF FieldSound
<1>2. DOMAIN o.val = Fields(type)
  BY DEF Holds
<1> QED
  BY <1>1, <1>2 DEF Loses, FreedSound

-----------------------------------------------------------------------------
(* Parsing one unit after the other, and a message written field by field. *)

\* g runs through the objects the parser makes of o while it reads units.
Parses(o, units, g) ==
    /\ g[0] = o
    /\ \A i \in 1..Len(units) : g[i] = Parsed(g[i - 1], units[i])

\* ParseFrom reads the units in order.
LEMMA ParsesInOrder ==
    ASSUME NEW o, NEW U, NEW units \in Seq(U)
    PROVE  \E g : Parses(o, units, g) /\ ParseFrom(o, units) = g[Len(units)]
<1> DEFINE Folds(h, k) ==
             h = [s \in SUBSET (1..k) |->
                    IF s = {} THEN o ELSE Parsed(h[s \ {Max(s)}], units[Max(s)])]
           T == {k \in Nat : \E h : Folds(h, k)}
<1>1. 0 \in T
  <2>1. 1..0 = {}
    OBVIOUS
  <2>2. Folds([s \in SUBSET (1..0) |-> o], 0)
    BY <2>1
  <2> QED
    BY <2>2
<1>2. ASSUME NEW k \in Nat, k \in T PROVE k + 1 \in T
  <2>1. PICK h : Folds(h, k)
    BY <1>2
  <2> DEFINE e == [s \in SUBSET (1..(k + 1)) |->
                     IF k + 1 \in s THEN Parsed(h[s \ {k + 1}], units[k + 1]) ELSE h[s]]
  <2>2. ASSUME NEW s \in SUBSET (1..(k + 1))
        PROVE  e[s] = IF s = {} THEN o ELSE Parsed(e[s \ {Max(s)}], units[Max(s)])
    <3>1. CASE k + 1 \in s
      <4>1. Max(s) = k + 1
        <5>1. \A x \in s : x \in Int /\ k + 1 >= x
          OBVIOUS
        <5>2. \A x \in s : (\A y \in s : x >= y) => x = k + 1
          BY <3>1, <5>1
        <5> QED
          BY <3>1, <5>1, <5>2 DEF Max
      <4>2. s \ {k + 1} \in SUBSET (1..k) /\ s \ {k + 1} \in SUBSET (1..(k + 1))
        OBVIOUS
      <4>3. e[s \ {k + 1}] = h[s \ {k + 1}]
        BY <4>2
      <4> QED
        BY <3>1, <4>1, <4>3
    <3>2. CASE k + 1 \notin s /\ s # {}
      <4>1. s \in SUBSET (1..k) /\ s \ {Max(s)} \in SUBSET (1..k)
        <5>1. \A x \in s : x \in 1..k
          BY <3>2
        <5> QED
          BY <5>1
      <4>2. h[s] = Parsed(h[s \ {Max(s)}], units[Max(s)])
        BY <2>1, <3>2, <4>1
      <4>3. e[s] = h[s] /\ e[s \ {Max(s)}] = h[s \ {Max(s)}]
        BY <3>2, <4>1
      <4> QED
        BY <3>2, <4>2, <4>3
    <3>3. CASE s = {}
      <4>1. h[s] = o
        BY <2>1, <3>3
      <4> QED
        BY <3>3, <4>1
    <3> QED
      BY <3>1, <3>2, <3>3
  <2>3. e = [s \in SUBSET (1..(k + 1)) |-> e[s]]
    OBVIOUS
  <2> HIDE DEF e
  <2>4. Folds(e, k + 1)
    BY <2>2, <2>3
  <2> HIDE DEF Folds
  <2> QED
    BY <2>4
<1>3. Len(units) \in T
  <2> HIDE DEF T
  <2> QED
    BY <1>1, <1>2, NatSetInduction
<1> DEFINE n == Len(units)
           f == CHOOSE h : Folds(h, n)
<1>4. Folds(f, n)
  <2>1. \E h : Folds(h, n)
    BY <1>3
  <2> HIDE DEF Folds
  <2> QED
    BY <2>1
<1>5. DOMAIN units = 1..n
  OBVIOUS
<1>6. ParseFrom(o, units) = f[1..n]
  BY <1>5 DEF ParseFrom, FoldLeft, MapThenFoldSet
<1> HIDE DEF f
<1> DEFINE g == [i \in 0..n |-> f[1..i]]
<1>7. g[0] = o
  <2>1. 1..0 = {}
    OBVIOUS
  <2> QED
    BY <1>4, <2>1
<1>8. ASSUME NEW i \in 1..n PROVE g[i] = Parsed(g[i - 1], units[i])
  <2>1. Max(1..i) = i
    BY DEF Max
  <2>2. 1..i # {} /\ 1..i \in SUBSET (1..n) /\ (1..i) \ {i} = 1..(i - 1)
    OBVIOUS
  <2>3. f[1..i] = Parsed(f[1..(i - 1)], units[i])
    BY <1>4, <2>1, <2>2
  <2> QED
    BY <2>3
<1>9. g[n] = f[1..n] /\ Parses(o, units, g)
  <2>1. g[n] = f[1..n]
    OBVIOUS
  <2> HIDE DEF g
  <2> QED
    BY <1>7, <1>8, <2>1 DEF Parses
<1> HIDE DEF g
<1> QED
  BY <1>6, <1>9

\* Whatever runs through these objects ends at the parser's.
LEMMA ParsesTo ==
    ASSUME NEW o, NEW U, NEW units \in Seq(U), NEW g, Parses(o, units, g)
    PROVE  ParseFrom(o, units) = g[Len(units)]
<1>1. PICK e : Parses(o, units, e) /\ ParseFrom(o, units) = e[Len(units)]
  BY ParsesInOrder
<1> DEFINE T == {k \in Nat : k <= Len(units) => e[k] = g[k]}
<1>2. 0 \in T
  BY <1>1 DEF Parses
<1>3. ASSUME NEW k \in Nat, k \in T PROVE k + 1 \in T
  <2> SUFFICES ASSUME k + 1 <= Len(units) PROVE e[k + 1] = g[k + 1]
    OBVIOUS
  <2>1. e[k] = g[k]
    BY <1>3
  <2>2. k + 1 \in 1..Len(units) /\ (k + 1) - 1 = k
    OBVIOUS
  <2> QED
    BY <1>1, <2>1, <2>2 DEF Parses
<1> HIDE DEF T
<1>4. Len(units) \in T
  BY <1>2, <1>3, NatSetInduction
<1> QED
  BY <1>1, <1>4 DEF T

LEMMA ParseNone == ASSUME NEW o PROVE ParseFrom(o, <<>>) = o
<1>1. Parses(o, <<>>, [i \in 0..0 |-> o])
  BY DEF Parses
<1>2. <<>> \in Seq({}) /\ Len(<<>>) = 0
  OBVIOUS
<1> QED
  BY <1>1, <1>2, ParsesTo

\* What is read is read after what was read before.
LEMMA ParseAppend ==
    ASSUME NEW o, NEW U, NEW units \in Seq(U), NEW u \in U
    PROVE  ParseFrom(o, Append(units, u)) = Parsed(ParseFrom(o, units), u)
<1>0. Append(units, u) \in Seq(U) /\ Len(Append(units, u)) = Len(units) + 1
  OBVIOUS
<1>1. PICK g : Parses(o, Append(units, u), g) /\ ParseFrom(o, Append(units, u)) = g[Len(units) + 1]
  BY <1>0, ParsesInOrder
<1>2. Parses(o, units, g)
  BY <1>1 DEF Parses
<1>3. ParseFrom(o, units) = g[Len(units)]
  BY <1>2, ParsesTo
<1>4. g[Len(units) + 1] = Parsed(g[Len(units)], u)
  <2>1. Len(units) + 1 \in 1..Len(Append(units, u)) /\ Append(units, u)[Len(units) + 1] = u
    OBVIOUS
  <2>2. (Len(units) + 1) - 1 = Len(units)
    OBVIOUS
  <2> QED
    BY <1>1, <2>1, <2>2 DEF Parses
<1> QED
  BY <1>1, <1>3, <1>4

LEMMA ParseCat ==
    ASSUME NEW o, NEW U, NEW units \in Seq(U), NEW more \in Seq(U)
    PROVE  ParseFrom(o, units \o more) = ParseFrom(ParseFrom(o, units), more)
<1> DEFINE m == Len(units)
           s == units \o more
<1>1. /\ s \in Seq(U) /\ Len(s) = m + Len(more) /\ m \in Nat /\ Len(more) \in Nat
      /\ \A i \in 1..m : s[i] = units[i]
      /\ \A i \in 1..Len(more) : s[m + i] = more[i]
  OBVIOUS
<1> HIDE DEF m, s
<1>2. PICK g : Parses(o, s, g) /\ ParseFrom(o, s) = g[Len(s)]
  BY <1>1, ParsesInOrder
<1>3. Parses(o, units, g)
  BY <1>1, <1>2 DEF Parses, m
<1>4. ParseFrom(o, units) = g[m]
  BY <1>3, ParsesTo DEF m
<1> DEFINE e == [i \in 0..Len(more) |-> g[m + i]]
<1>5. e[0] = g[m]
  BY <1>1
<1>6. ASSUME NEW i \in 1..Len(more) PROVE e[i] = Parsed(e[i - 1], more[i])
  <2>1. m + i \in 1..Len(s) /\ (m + i) - 1 = m + (i - 1) /\ i - 1 \in 0..Len(more) /\ i \in 0..Len(more)
    BY <1>1
  <2>2. g[m + i] = Parsed(g[(m + i) - 1], s[m + i])
    BY <1>2, <2>1 DEF Parses
  <2>3. e[i] = g[m + i] /\ e[i - 1] = g[m + (i - 1)]
    BY <2>1
  <2> QED
    BY <1>1, <2>1, <2>2, <2>3
<1>7. ParseFrom(g[m], more) = e[Len(more)]
  <2>1. Parses(g[m], more, e)
    BY <1>5, <1>6 DEF Parses
  <2> HIDE DEF e
  <2> QED
    BY <2>1, ParsesTo
<1>8. e[Len(more)] = g[Len(s)]
  BY <1>1
<1> QED
  BY <1>2, <1>4, <1>7, <1>8 DEF s

\* A message is written as the concatenation of its fields' encodings.
Builds(g, s, n) ==
    /\ g[0] = <<>>
    /\ \A i \in 1..n : g[i] = g[i - 1] \o s[i]
    /\ FlattenSeq(s) = g[n]

LEMMA FlattenInOrder ==
    ASSUME NEW U, NEW n \in Nat, NEW s, DOMAIN s = 1..n, Len(s) = n, s = [i \in 1..n |-> s[i]],
           \A i \in 1..n : s[i] \in Seq(U)
    PROVE  \E g : Builds(g, s, n)
<1>1. CASE n = 0
  <2>1. s = <<>>
    BY <1>1
  <2>2. FlattenSeq(s) = <<>>
    BY <1>1, <2>1 DEF FlattenSeq
  <2>3. Builds([i \in 0..0 |-> <<>>], s, n)
    BY <1>1, <2>2 DEF Builds
  <2> QED
    BY <2>3
<1>2. CASE n # 0
  <2> DEFINE Flattens(h, k) == h = [i \in 1..k |-> IF i = 1 THEN s[i] ELSE h[i - 1] \o s[i]]
             T == {k \in Nat : \E h : Flattens(h, k)}
  <2>1. 0 \in T
    <3>1. Flattens([i \in 1..0 |-> 0], 0)
      OBVIOUS
    <3> QED
      BY <3>1
  <2>2. ASSUME NEW k \in Nat, k \in T PROVE k + 1 \in T
    <3>1. PICK h : Flattens(h, k)
      BY <2>2
    <3> DEFINE e == [i \in 1..(k + 1) |-> IF i = 1 THEN s[i] ELSE h[i - 1] \o s[i]]
    <3>2. ASSUME NEW i \in 1..(k + 1), i # 1 PROVE e[i - 1] = h[i - 1]
      <4>1. i - 1 \in 1..k /\ i - 1 \in 1..(k + 1)
        BY <3>2
      <4> QED
        BY <3>1, <4>1
    <3>3. Flattens(e, k + 1)
      BY <3>2
    <3> HIDE DEF Flattens
    <3> QED
      BY <3>3
  <2>3. n \in T
    <3> HIDE DEF T
    <3> QED
      BY <2>1, <2>2, NatSetInduction
  <2> DEFINE f == CHOOSE h : Flattens(h, n)
  <2>4. Flattens(f, n)
    <3>1. \E h : Flattens(h, n)
      BY <2>3
    <3> HIDE DEF Flattens
    <3> QED
      BY <3>1
  <2>5. FlattenSeq(s) = f[n]
    BY <1>2 DEF FlattenSeq
  <2> HIDE DEF f
  <2> DEFINE g == [i \in 0..n |-> IF i = 0 THEN <<>> ELSE f[i]]
  <2>6. g[0] = <<>> /\ g[n] = f[n]
    BY <1>2
  <2>7. ASSUME NEW i \in 1..n PROVE g[i] = g[i - 1] \o s[i]
    <3>1. CASE i = 1
      <4>1. g[i] = s[i] /\ g[i - 1] = <<>>
        BY <2>4, <3>1
      <4>2. <<>> \o s[i] = s[i]
        BY <3>1
      <4> QED
        BY <4>1, <4>2
    <3>2. CASE i # 1
      <4>1. g[i] = f[i] /\ g[i - 1] = f[i - 1]
        BY <3>2
      <4>2. f[i] = f[i - 1] \o s[i]
        BY <2>4, <3>2
      <4> QED
        BY <4>1, <4>2
    <3> QED
      BY <3>1, <3>2
  <2> HIDE DEF g
  <2>8. Builds(g, s, n)
    BY <2>5, <2>6, <2>7 DEF Builds
  <2> QED
    BY <2>8
<1> QED
  BY <1>1, <1>2

-----------------------------------------------------------------------------
(* Parsing what game.proto says is written. *)

UnitsOf(t) ==
    [ number : {ProtoFields[t][i].number : i \in DOMAIN ProtoFields[t]},
      format : {FormatOf(ProtoFields[t][i].ty) : i \in DOMAIN ProtoFields[t]} \cup {"Message", "UInt64Packed"},
      data : Seq(Nat)]

\* What is known of the declaration at place i.
LEMMA DeclaredSound ==
    ASSUME type \in MessageTypes, NEW i \in DOMAIN Declared
    PROVE  /\ DeclarationSound(type, Declared[i], SerializeOf[type][i])
           /\ Declared[i].name \in Fields(type)
           /\ ShapeIn(type, Declared[i].name) \in {"scalar", "text", "child", "list"}
           /\ Kind(Declared[i]) = CASE ShapeIn(type, Declared[i].name) = "child" -> "child"
                                    [] ShapeIn(type, Declared[i].name) = "list" -> "list"
                                    [] OTHER -> "value"
<1>1. DeclarationSound(type, Declared[i], SerializeOf[type][i])
  BY EveryClassSound DEF ClassSound, Declared
<1>2. Declared[i].name \in Fields(type)
  BY <1>1 DEF DeclarationSound
<1>3. ShapeIn(type, Declared[i].name) \in {"scalar", "text", "child", "list"}
  BY <1>2, TypeSound DEF FieldSound, ShapeSound
<1> QED
  BY <1>1, <1>2, <1>3 DEF DeclarationSound

\* The parser finds the entry of a declared field by its number.
LEMMA EntryFound ==
    ASSUME type \in MessageTypes, NEW i \in DOMAIN Declared
    PROVE  {f \in DOMAIN TableOf[type] : TableOf[type][f].number = Declared[i].number} = {Declared[i].name}
<1>1. Listed(type)
  BY EveryClassSound DEF ClassSound
<1>2. \A j \in DOMAIN Declared : TableOf[type][Declared[j].name].number = Declared[j].number
  BY DeclaredSound DEF DeclarationSound
<1>3. \A f \in DOMAIN TableOf[type] : \E j \in DOMAIN Declared : f = Declared[j].name
  BY <1>1 DEF Listed, Declared
<1>4. \A j \in DOMAIN Declared : Declared[j].number = Declared[i].number => j = i
  BY <1>1 DEF Listed, Declared
<1>5. Declared[i].name \in DOMAIN TableOf[type]
  BY <1>1 DEF Listed, Declared
<1> QED
  BY <1>2, <1>3, <1>4, <1>5

LEMMA NoEnumIsMessage == Enums \cap MessageTypes = {}
BY DEF Enums, MessageTypes, ProtoFields

\* A unit with the value w of field d, or with elements w of it.
Carries(unit, d, w) ==
    /\ unit.number = d.number
    /\ Kind(d) = "value" => w # 0 /\ unit.format = FormatOf(d.ty) /\ unit.data = <<w>>
    /\ Kind(d) = "child" => w # <<>> /\ unit.format = "Message" /\ unit.data = w
    /\ Kind(d) = "list" => /\ unit.format = IF d.ty \in MessageTypes THEN "Message" ELSE "UInt64Packed"
                           /\ unit.data = w

\* A unit in the declared format is stored as MergeImpl would store it.
LEMMA ParsedIs ==
    ASSUME type \in MessageTypes, NEW i \in DOMAIN Declared, NEW o, NEW w, NEW unit, Carries(unit, Declared[i], w)
    PROVE  LET f == Declared[i].name
           IN  Parsed(o, unit) =
                 [bits |-> o.bits \cup {Bit(f)},
                  val |-> [o.val EXCEPT ![f] = StoredBy(ShapeIn(type, f), o.val[f], w)]]
<1> DEFINE d == Declared[i]
           f == Declared[i].name
           kind == TableOf[type][f].kind
           read == CASE kind = "Message" -> IF o.val[f] = <<>> THEN unit.data
                                            ELSE <<Larger(o.val[f][1], unit.data[1])>>
                     [] kind \in {"RepeatedMessage", "RepeatedPackedUInt64"} -> o.val[f] \o unit.data
                     [] OTHER -> unit.data[1]
<1>1. {e \in DOMAIN TableOf[type] : TableOf[type][e].number = unit.number} = {f}
  BY EntryFound DEF Carries
<1>2. f = CHOOSE e \in {e \in DOMAIN TableOf[type] : TableOf[type][e].number = unit.number} : TRUE
  BY <1>1
<1>3. /\ TableOf[type][f].bit = BitIn(type, f) /\ Bit(f) = BitIn(type, f)
      /\ TableReads(kind, d)
      /\ ShapeIn(type, f) \in {"scalar", "text", "child", "list"}
      /\ Kind(d) = CASE ShapeIn(type, f) = "child" -> "child"
                     [] ShapeIn(type, f) = "list" -> "list"
                     [] OTHER -> "value"
  <2>1. DeclarationSound(type, d, SerializeOf[type][i])
    BY DeclaredSound
  <2>2. Bit(f) = BitIn(type, f)
    BY DEF Bit, BitIn
  <2>3. TableOf[type][f].bit = BitIn(type, f) /\ TableReads(kind, d)
    BY <2>1 DEF DeclarationSound
  <2> QED
    BY <2>2, <2>3, DeclaredSound
<1>4. Parsed(o, unit) =
        [bits |-> o.bits \cup {Bit(f)},
         val |-> [o.val EXCEPT ![f] = IF FormatRead(kind) = unit.format THEN read ELSE JunkIn(f)]]
  BY <1>1, <1>2, <1>3, Zenon DEF Parsed
<1>5. FormatRead(kind) = unit.format /\ read = StoredBy(ShapeIn(type, f), o.val[f], w)
  <2>1. CASE Kind(d) = "value"
    <3>1. ShapeIn(type, f) \in {"scalar", "text"}
      BY <1>3, <2>1
    <3>2. /\ kind \notin {"Message", "RepeatedMessage", "RepeatedPackedUInt64"}
          /\ FormatRead(kind) = FormatOf(d.ty)
      BY <1>3, <2>1 DEF TableReads
    <3>3. unit.format = FormatOf(d.ty) /\ unit.data = <<w>> /\ w # 0
      BY <2>1 DEF Carries
    <3> QED
      BY <3>1, <3>2, <3>3 DEF StoredBy
  <2>2. CASE Kind(d) = "child"
    <3>1. ShapeIn(type, f) = "child"
      BY <1>3, <2>2
    <3>2. kind = "Message" /\ unit.format = "Message" /\ unit.data = w
      BY <1>3, <2>2 DEF TableReads, Carries
    <3>3. FormatRead(kind) = "Message"
      BY <3>2 DEF FormatRead
    <3> QED
      BY <3>1, <3>2, <3>3 DEF StoredBy
  <2>3. CASE Kind(d) = "list"
    <3>1. ShapeIn(type, f) = "list"
      BY <1>3, <2>3
    <3>2. /\ kind = IF d.ty \in MessageTypes THEN "RepeatedMessage" ELSE "RepeatedPackedUInt64"
          /\ unit.format = IF d.ty \in MessageTypes THEN "Message" ELSE "UInt64Packed"
          /\ unit.data = w
      BY <1>3, <2>3 DEF TableReads, Carries
    <3>3. FormatRead(kind) = unit.format
      BY <3>2 DEF FormatRead
    <3> QED
      BY <3>1, <3>2, <3>3 DEF StoredBy
  <2> QED
    BY <1>3, <2>1, <2>2, <2>3
<1> QED
  BY <1>4, <1>5

\* Such a unit merges its value into the field.
LEMMA ParsedHolds ==
    ASSUME type \in MessageTypes, NEW i \in DOMAIN Declared, NEW o, NEW p, Holds(type, o, p), NEW w, NEW unit,
           w \in ValuesOf(ShapeIn(type, Declared[i].name)), Carries(unit, Declared[i], w)
    PROVE  LET f == Declared[i].name
           IN  Holds(type, Parsed(o, unit), [p EXCEPT ![f] = MergedBy(ShapeIn(type, f), p[f], w)])
<1> DEFINE f == Declared[i].name
           s == ShapeIn(type, f)
<1>1. f \in Fields(type) /\ s \in {"scalar", "text", "child", "list"}
  BY DeclaredSound
<1>2. s = "child" => w # <<>>
  BY DeclaredSound DEF Carries
<1>3. FieldHolds(s, TRUE, w, w)
  BY <1>2 DEF FieldHolds
<1>4. FieldHolds(s, BitIn(type, f) \in o.bits, o.val[f], p[f])
  BY <1>1 DEF Holds
<1>5. FieldHolds(s, TRUE, StoredBy(s, o.val[f], w), MergedBy(s, p[f], w))
  <2> DEFINE set == BitIn(type, f) \in o.bits
  <2>1. set \in BOOLEAN /\ FieldHolds(s, set, o.val[f], p[f])
    BY <1>4
  <2> HIDE DEF set, s, f
  <2> QED
    BY <1>1, <1>3, <2>1, MergedFieldHolds
<1> DEFINE bits == o.bits \cup {Bit(f)}
           v == StoredBy(s, o.val[f], w)
           q == MergedBy(s, p[f], w)
<1>6. Parsed(o, unit) = [bits |-> bits, val |-> [o.val EXCEPT ![f] = v]]
  BY ParsedIs
<1>7. bits = o.bits \cup {Bit(f)} /\ FieldHolds(ShapeIn(type, f), TRUE, v, q)
  BY <1>5
<1> HIDE DEF bits, v, q, f
<1>8. Holds(type, [bits |-> bits, val |-> [o.val EXCEPT ![f] = v]], [p EXCEPT ![f] = q])
  BY <1>1, <1>7, FieldUpdateHolds
<1> QED
  BY <1>6, <1>8 DEF q, f

\* Sequences, once for all.
Joined(a, b) == a \o b

LEMMA JoinedAppend ==
    ASSUME NEW U, NEW a \in Seq(U), NEW b \in Seq(U), NEW x \in U
    PROVE  Joined(Joined(a, b), <<x>>) = Joined(a, Append(b, x))
BY DEF Joined

LEMMA JoinedNone == ASSUME NEW a \in Seq(Nat) PROVE Joined(a, <<>>) = a
BY DEF Joined

LEMMA TabulatedSeq ==
    ASSUME NEW U, NEW n \in Nat, NEW s, s = [j \in 1..n |-> s[j]], \A j \in 1..n : s[j] \in U
    PROVE  s \in Seq(U) /\ Len(s) = n
OBVIOUS

\* An appended sequence, as a function.
LEMMA AppendIs ==
    ASSUME NEW U, NEW s \in Seq(U), NEW u \in U
    PROVE  /\ Append(s, u) \in Seq(U) /\ Len(Append(s, u)) = Len(s) + 1
           /\ \A j \in 1..(Len(s) + 1) : Append(s, u)[j] = IF j = Len(s) + 1 THEN u ELSE s[j]
OBVIOUS

\* Two sequences are equal that have the same length and elements.
LEMMA SameSeq ==
    ASSUME NEW U, NEW n \in Nat, NEW s \in Seq(U), NEW e, Len(s) = n, e = [j \in 1..n |-> e[j]],
           \A j \in 1..n : e[j] = s[j]
    PROVE  e = s
<1>1. s = [j \in 1..n |-> s[j]]
  OBVIOUS
<1> QED
  BY <1>1, Zenon

\* The first n elements of a list.
Prefix(v, n) == [j \in 1..n |-> v[j]]

LEMMA PrefixGrows ==
    ASSUME NEW v \in Seq(Nat), NEW n \in Nat, n + 1 <= Len(v)
    PROVE  /\ Prefix(v, n) \in Seq(Nat) /\ v[n + 1] \in Nat
           /\ Prefix(v, n + 1) = Append(Prefix(v, n), v[n + 1])
<1> DEFINE b == Prefix(v, n)
           e == Prefix(v, n + 1)
           x == v[n + 1]
<1>1. x \in Nat /\ \A j \in 1..n : v[j] \in Nat
  OBVIOUS
<1>2. b \in Seq(Nat) /\ Len(b) = n
  BY <1>1 DEF Prefix
<1>3. e = [j \in 1..(n + 1) |-> e[j]] /\ \A j \in 1..(n + 1) : e[j] = IF j = n + 1 THEN x ELSE b[j]
  BY DEF Prefix
<1> DEFINE a == Append(b, x)
<1> HIDE DEF b, x, e
<1>4. /\ a \in Seq(Nat) /\ Len(a) = n + 1
      /\ \A j \in 1..(n + 1) : a[j] = IF j = n + 1 THEN x ELSE b[j]
  BY <1>1, <1>2
<1> HIDE DEF a
<1>5. e = a
  <2>1. \A j \in 1..(n + 1) : e[j] = a[j]
    BY <1>3, <1>4
  <2>2. /\ n + 1 \in Nat /\ a \in Seq(Nat) /\ Len(a) = n + 1
        /\ e = [j \in 1..(n + 1) |-> e[j]]
    BY <1>3, <1>4
  <2> QED
    BY <2>1, <2>2, SameSeq
<1> QED
  BY <1>1, <1>2, <1>5 DEF a, b, x, e

LEMMA PrefixWhole == ASSUME NEW v \in Seq(Nat) PROVE Prefix(v, Len(v)) = v
BY DEF Prefix

\* The encoding of one field is a sequence of units that carry its value.
LEMMA FieldUnits ==
    ASSUME type \in MessageTypes, NEW i \in DOMAIN Declared,
           NEW w \in ValuesOf(ShapeIn(type, Declared[i].name))
    PROVE  FieldEncoding(Declared[i], w) \in Seq(UnitsOf(type))
<1> DEFINE d == Declared[i]
<1>1. /\ ShapeIn(type, d.name) \in {"scalar", "text", "child", "list"}
      /\ Kind(d) = CASE ShapeIn(type, d.name) = "child" -> "child"
                     [] ShapeIn(type, d.name) = "list" -> "list"
                     [] OTHER -> "value"
  BY DeclaredSound
<1>2. ASSUME NEW fm \in {FormatOf(d.ty), "Message", "UInt64Packed"}, NEW x \in Seq(Nat)
      PROVE  Unit(d.number, fm, x) \in UnitsOf(type)
  BY DEF Unit, UnitsOf, Declared
<1> HIDE DEF d
<1>3. CASE Kind(d) = "value"
  <2>1. w \in Nat
    BY <1>1, <1>3 DEF ValuesOf, d
  <2>2. Unit(d.number, FormatOf(d.ty), <<w>>) \in UnitsOf(type)
    <3>1. <<w>> \in Seq(Nat)
      BY <2>1
    <3> QED
      BY <1>2, <3>1
  <2>3. FieldEncoding(d, w) = IF w = 0 THEN <<>> ELSE <<Unit(d.number, FormatOf(d.ty), <<w>>)>>
    BY <1>3 DEF FieldEncoding
  <2> QED
    BY <2>2, <2>3 DEF d
<1>4. CASE Kind(d) = "child"
  <2>1. w \in Seq(Nat)
    <3>1. w \in {<<>>} \cup {<<n>> : n \in Nat}
      BY <1>1, <1>4 DEF ValuesOf, d
    <3>2. <<>> \in Seq(Nat) /\ \A n \in Nat : <<n>> \in Seq(Nat)
      OBVIOUS
    <3> QED
      BY <3>1, <3>2
  <2>2. Unit(d.number, "Message", w) \in UnitsOf(type)
    BY <1>2, <2>1
  <2>3. FieldEncoding(d, w) = IF w = <<>> THEN <<>> ELSE <<Unit(d.number, "Message", w)>>
    BY <1>4 DEF FieldEncoding
  <2> QED
    BY <2>2, <2>3 DEF d
<1>5. CASE Kind(d) = "list"
  <2>1. w \in Seq(Nat)
    BY <1>1, <1>5 DEF ValuesOf, d
  <2>2. CASE d.ty \in MessageTypes
    <3> DEFINE e == [j \in DOMAIN w |-> Unit(d.number, "Message", <<w[j]>>)]
    <3>1. DOMAIN w = 1..Len(w) /\ Len(w) \in Nat /\ \A j \in DOMAIN w : <<w[j]>> \in Seq(Nat)
      BY <2>1
    <3>2. e \in Seq(UnitsOf(type))
      <4>1. \A j \in DOMAIN w : Unit(d.number, "Message", <<w[j]>>) \in UnitsOf(type)
        BY <1>2, <3>1
      <4>2. e = [j \in 1..Len(w) |-> e[j]] /\ \A j \in 1..Len(w) : e[j] \in UnitsOf(type)
        BY <3>1, <4>1
      <4> HIDE DEF e
      <4> QED
        BY <3>1, <4>2, TabulatedSeq
    <3>3. FieldEncoding(d, w) = [j \in DOMAIN w |-> Unit(d.number, "Message", <<w[j]>>)]
      BY <1>5, <2>2 DEF FieldEncoding
    <3> QED
      BY <3>2, <3>3 DEF d
  <2>3. CASE d.ty \notin MessageTypes
    <3>1. Unit(d.number, "UInt64Packed", w) \in UnitsOf(type)
      BY <1>2, <2>1
    <3>2. FieldEncoding(d, w) = IF w = <<>> THEN <<>> ELSE <<Unit(d.number, "UInt64Packed", w)>>
      BY <1>5, <2>3 DEF FieldEncoding
    <3> QED
      BY <3>1, <3>2 DEF d
  <2> QED
    BY <2>2, <2>3
<1> QED
  BY <1>1, <1>3, <1>4, <1>5

\* A single unit is parsed in one step.
LEMMA ParseOne == ASSUME NEW o, NEW U, NEW u \in U PROVE ParseFrom(o, <<u>>) = Parsed(o, u)
<1>1. <<>> \in Seq(U) /\ Append(<<>>, u) = <<u>>
  OBVIOUS
<1>2. ParseFrom(o, Append(<<>>, u)) = Parsed(ParseFrom(o, <<>>), u)
  <2>1. <<>> \in Seq(U)
    OBVIOUS
  <2> QED
    BY <2>1, ParseAppend
<1> QED
  BY <1>1, <1>2, ParseNone

\* An element appended to a list of messages is one more unit.
ListUnits(number, v) == [j \in DOMAIN v |-> Unit(number, "Message", <<v[j]>>)]

LEMMA NoElementUnits == ASSUME NEW number PROVE ListUnits(number, <<>>) = <<>>
<1>1. DOMAIN <<>> = {}
  OBVIOUS
<1>2. ListUnits(number, <<>>) = [j \in {} |-> Unit(number, "Message", <<(<<>>)[j]>>)]
  BY <1>1, Zenon DEF ListUnits
<1> QED
  BY <1>2

LEMMA ElementUnit ==
    ASSUME NEW U, NEW number, \A z \in Nat : Unit(number, "Message", <<z>>) \in U,
           NEW b \in Seq(Nat), NEW x \in Nat
    PROVE  ListUnits(number, Append(b, x)) = Append(ListUnits(number, b), Unit(number, "Message", <<x>>))
<1> DEFINE u(z) == Unit(number, "Message", <<z>>)
           n == Len(b)
           v == Append(b, x)
           s == [j \in 1..n |-> u(b[j])]
           ux == u(x)
           e == [j \in 1..(n + 1) |-> u(v[j])]
<1>1. /\ n \in Nat /\ DOMAIN b = 1..n /\ DOMAIN v = 1..(n + 1) /\ v[n + 1] = x
      /\ \A j \in 1..n : v[j] = b[j] /\ b[j] \in Nat
  OBVIOUS
<1> HIDE DEF n, v
<1>0. \A z \in Nat : u(z) \in U
  OBVIOUS
<1> HIDE DEF u
<1>2. /\ s = [j \in 1..n |-> s[j]] /\ \A j \in 1..n : s[j] \in U
      /\ \A j \in 1..(n + 1) : e[j] = IF j = n + 1 THEN ux ELSE s[j]
      /\ ux \in U /\ e = [j \in 1..(n + 1) |-> e[j]]
  <2>1. ux \in U /\ \A j \in 1..n : s[j] \in U
    BY <1>0, <1>1
  <2>2. \A j \in 1..(n + 1) : j # n + 1 => j \in 1..n
    BY <1>1
  <2>3. \A j \in 1..(n + 1) : e[j] = IF j = n + 1 THEN ux ELSE s[j]
    BY <1>1, <2>2
  <2> QED
    BY <2>1, <2>3, Zenon
<1> HIDE DEF s, e, ux
<1>3. s \in Seq(U) /\ Len(s) = n
  BY <1>1, <1>2, TabulatedSeq
<1> DEFINE a == Append(s, ux)
<1>4. /\ a \in Seq(U) /\ Len(a) = n + 1
      /\ \A j \in 1..(n + 1) : a[j] = IF j = n + 1 THEN ux ELSE s[j]
  <2>1. ux \in U
    BY <1>2
  <2> QED
    BY <1>1, <1>3, <2>1
<1> HIDE DEF a
<1>5. e = a
  <2>1. \A j \in 1..(n + 1) : e[j] = a[j]
    BY <1>2, <1>4
  <2>2. /\ n + 1 \in Nat /\ a \in Seq(U) /\ Len(a) = n + 1
        /\ e = [j \in 1..(n + 1) |-> e[j]]
    BY <1>1, <1>2, <1>4
  <2> QED
    BY <2>1, <2>2, SameSeq
<1>6. ListUnits(number, v) = e /\ ListUnits(number, b) = s
  BY <1>1 DEF ListUnits, s, e, u
<1> QED
  BY <1>5, <1>6 DEF v, ux, a, u

\* Elements of a list of messages come in units of their own.
LEMMA MessageListParsed ==
    ASSUME type \in MessageTypes, NEW i \in DOMAIN Declared, NEW o, NEW p, Holds(type, o, p),
           Kind(Declared[i]) = "list", Declared[i].ty \in MessageTypes, NEW w \in Seq(Nat)
    PROVE  LET f == Declared[i].name
           IN  Holds(type, ParseFrom(o, FieldEncoding(Declared[i], w)), [p EXCEPT ![f] = Joined(p[f], w)])
<1> DEFINE d == Declared[i]
           f == Declared[i].name
           Enc(v) == FieldEncoding(d, v)
           Goal(v) == Holds(type, ParseFrom(o, Enc(v)), [p EXCEPT ![f] = Joined(p[f], v)])
           T == {n \in Nat : n <= Len(w) => Goal(Prefix(w, n))}
<1>1. /\ f \in Fields(type) /\ ShapeIn(type, f) = "list"
  BY DeclaredSound
<1>2. p[f] \in Seq(Nat) /\ p = [g \in Fields(type) |-> p[g]]
  BY <1>1 DEF Holds, FieldHolds, ValuesOf
<1>3. \A v : Enc(v) = ListUnits(d.number, v)
  BY DEF FieldEncoding, ListUnits
<1>4. 0 \in T
  <2> DEFINE v == Prefix(w, 0)
  <2>1. v = <<>>
    BY DEF Prefix
  <2>2. Enc(<<>>) = <<>>
    <3> HIDE DEF Enc, d
    <3> QED
      BY <1>3, NoElementUnits
  <2>3. Joined(p[f], <<>>) = p[f] /\ [p EXCEPT ![f] = p[f]] = p
    BY <1>2, JoinedNone
  <2>4. Goal(<<>>)
    BY <2>2, <2>3, ParseNone
  <2> HIDE DEF Goal, v
  <2> QED
    BY <2>1, <2>4 DEF v
<1>5. ASSUME NEW n \in Nat, n \in T PROVE n + 1 \in T
  <2> DEFINE b == Prefix(w, n)
             v == Prefix(w, n + 1)
             x == w[n + 1]
  <2> SUFFICES ASSUME n + 1 <= Len(w) PROVE Goal(v)
    <3> HIDE DEF Goal, v
    <3> QED
      BY DEF v
  <2>1. b \in Seq(Nat) /\ x \in Nat /\ v = Append(b, x)
    BY PrefixGrows
  <2>0. Goal(b)
    <3> HIDE DEF Goal, b
    <3> QED
      BY <1>5 DEF b
  <2> HIDE DEF b, x, v
  <2> DEFINE u == Unit(d.number, "Message", <<x>>)
  <2>2. Goal(b)
    BY <2>0
  <2>3. Enc(b) \in Seq(UnitsOf(type)) /\ u \in UnitsOf(type)
    <3>1. b \in ValuesOf(ShapeIn(type, f))
      BY <1>1, <2>1 DEF ValuesOf
    <3>2. Enc(b) \in Seq(UnitsOf(type))
      BY <3>1, FieldUnits
    <3>3. u \in UnitsOf(type)
      BY <2>1 DEF Unit, UnitsOf, Declared
    <3> QED
      BY <3>2, <3>3
  <2>4. Enc(v) = Append(Enc(b), u)
    <3>1. \A z \in Nat : Unit(d.number, "Message", <<z>>) \in UnitsOf(type)
      BY DEF Unit, UnitsOf, Declared
    <3> HIDE DEF Enc, d
    <3>2. ListUnits(d.number, Append(b, x)) = Append(ListUnits(d.number, b), u)
      BY <2>1, <3>1, ElementUnit
    <3> HIDE DEF u
    <3> QED
      BY <1>3, <2>1, <3>2
  <2>5. ParseFrom(o, Enc(v)) = Parsed(ParseFrom(o, Enc(b)), u)
    <3> HIDE DEF Enc, u
    <3> QED
      BY <2>3, <2>4, ParseAppend
  <2>6. Carries(u, d, <<x>>)
    BY DEF Carries, Unit
  <2> DEFINE e == ParseFrom(o, Enc(b))
             r == [p EXCEPT ![f] = Joined(p[f], b)]
  <2>7. Holds(type, e, r)
    BY <2>2
  <2>8. <<x>> \in ValuesOf(ShapeIn(type, f))
    BY <1>1, <2>1 DEF ValuesOf
  <2>9. [r EXCEPT ![f] = MergedBy(ShapeIn(type, f), r[f], <<x>>)] = [p EXCEPT ![f] = Joined(p[f], v)]
    <3>1. r[f] = Joined(p[f], b)
      BY <1>1, <1>2
    <3>2. MergedBy(ShapeIn(type, f), r[f], <<x>>) = Joined(r[f], <<x>>)
      BY <1>1 DEF MergedBy, Joined
    <3>3. Joined(Joined(p[f], b), <<x>>) = Joined(p[f], v)
      BY <1>2, <2>1, JoinedAppend
    <3> QED
      BY <1>1, <1>2, <3>1, <3>2, <3>3
  <2> HIDE DEF e, r, u
  <2>10. Holds(type, Parsed(e, u), [r EXCEPT ![f] = MergedBy(ShapeIn(type, f), r[f], <<x>>)])
    BY <2>6, <2>7, <2>8, ParsedHolds
  <2> QED
    BY <2>5, <2>9, <2>10 DEF e
<1>6. Nat \subseteq T
  <2> HIDE DEF T
  <2> QED
    BY <1>4, <1>5, NatSetInduction
<1>7. Len(w) \in T /\ Prefix(w, Len(w)) = w
  BY <1>6, PrefixWhole
<1> HIDE DEF Goal
<1>8. Goal(w)
  BY <1>7
<1> QED
  BY <1>8 DEF Goal

\* What is written for one field is merged into it, whatever its kind.
LEMMA FieldParseHolds ==
    ASSUME type \in MessageTypes, NEW i \in DOMAIN Declared, NEW o, NEW p, Holds(type, o, p),
           NEW w \in ValuesOf(ShapeIn(type, Declared[i].name))
    PROVE  LET f == Declared[i].name
           IN  Holds(type, ParseFrom(o, FieldEncoding(Declared[i], w)),
                           [p EXCEPT ![f] = MergedBy(ShapeIn(type, f), p[f], w)])
<1> DEFINE d == Declared[i]
           f == Declared[i].name
           s == ShapeIn(type, f)
           u == CASE Kind(d) = "value" -> Unit(d.number, FormatOf(d.ty), <<w>>)
                  [] Kind(d) = "child" -> Unit(d.number, "Message", w)
                  [] Kind(d) = "list" -> Unit(d.number, "UInt64Packed", w)
           Wrote == FieldEncoding(d, w)
           r == [p EXCEPT ![f] = MergedBy(s, p[f], w)]
<1>1. /\ f \in Fields(type) /\ s \in {"scalar", "text", "child", "list"}
      /\ Kind(d) = CASE s = "child" -> "child" [] s = "list" -> "list" [] OTHER -> "value"
  BY DeclaredSound
<1>2. p = [g \in Fields(type) |-> p[g]] /\ (s = "list" => p[f] \in Seq(Nat))
  BY <1>1 DEF Holds, FieldHolds, ValuesOf
<1>3. CASE Kind(d) = "list" /\ d.ty \in MessageTypes
  <2>1. s = "list"
    BY <1>1, <1>3
  <2>2. w \in Seq(Nat)
    BY <2>1 DEF ValuesOf
  <2>3. Holds(type, ParseFrom(o, Wrote), [p EXCEPT ![f] = Joined(p[f], w)])
    BY <1>3, <2>2, MessageListParsed
  <2>4. MergedBy(s, p[f], w) = Joined(p[f], w)
    BY <2>1 DEF MergedBy, Joined
  <2> HIDE DEF Wrote, f, s
  <2>5. Holds(type, ParseFrom(o, Wrote), r)
    BY <2>3, <2>4
  <2> QED
    BY <2>5 DEF Wrote, f, s
<1>4. CASE ~(Kind(d) = "list" /\ d.ty \in MessageTypes) /\ w = EmptyOf(s)
  <2>1. Wrote = <<>>
    <3>1. CASE Kind(d) = "value"
      <4>1. w = 0
        BY <1>1, <1>4, <3>1 DEF EmptyOf
      <4> QED
        BY <3>1, <4>1 DEF FieldEncoding
    <3>2. CASE Kind(d) = "child"
      <4>1. w = <<>>
        BY <1>1, <1>4, <3>2 DEF EmptyOf
      <4> QED
        BY <3>2, <4>1 DEF FieldEncoding
    <3>3. CASE Kind(d) = "list"
      <4>1. w = <<>> /\ d.ty \notin MessageTypes
        BY <1>1, <1>4, <3>3 DEF EmptyOf
      <4> QED
        BY <3>3, <4>1 DEF FieldEncoding
    <3> QED
      BY <1>1, <3>1, <3>2, <3>3
  <2>2. MergedBy(s, p[f], w) = p[f]
    <3>1. CASE s \in {"scalar", "text"}
      BY <1>4, <3>1 DEF MergedBy, EmptyOf
    <3>2. CASE s = "child"
      BY <1>4, <3>2 DEF MergedBy, EmptyOf
    <3>3. CASE s = "list"
      <4>1. MergedBy(s, p[f], w) = Joined(p[f], <<>>)
        BY <1>4, <3>3 DEF MergedBy, EmptyOf, Joined
      <4> QED
        BY <1>2, <3>3, <4>1, JoinedNone
    <3> QED
      BY <1>1, <3>1, <3>2, <3>3
  <2>3. r = p
    <3> HIDE DEF f, s
    <3> QED
      BY <1>2, <2>2
  <2> HIDE DEF Wrote, r
  <2>4. Holds(type, ParseFrom(o, Wrote), r)
    BY <2>1, <2>3, ParseNone
  <2> QED
    BY <2>4 DEF Wrote, r
<1>5. CASE ~(Kind(d) = "list" /\ d.ty \in MessageTypes) /\ w # EmptyOf(s)
  <2>1. Wrote = <<u>> /\ Carries(u, d, w)
    <3>1. CASE Kind(d) = "value"
      <4>1. w # 0
        BY <1>1, <1>5, <3>1 DEF EmptyOf
      <4> QED
        BY <3>1, <4>1 DEF FieldEncoding, Carries, Unit
    <3>2. CASE Kind(d) = "child"
      <4>1. w # <<>>
        BY <1>1, <1>5, <3>2 DEF EmptyOf
      <4> QED
        BY <3>2, <4>1 DEF FieldEncoding, Carries, Unit
    <3>3. CASE Kind(d) = "list"
      <4>1. w # <<>> /\ d.ty \notin MessageTypes
        BY <1>1, <1>5, <3>3 DEF EmptyOf
      <4> QED
        BY <3>3, <4>1 DEF FieldEncoding, Carries, Unit
    <3> QED
      BY <1>1, <3>1, <3>2, <3>3
  <2>2. Holds(type, Parsed(o, u), r)
    <3> HIDE DEF u
    <3> QED
      BY <2>1, ParsedHolds
  <2>3. ParseFrom(o, Wrote) = Parsed(o, u)
    <3> HIDE DEF u, Wrote
    <3>1. u \in {u}
      OBVIOUS
    <3>2. ParseFrom(o, <<u>>) = Parsed(o, u)
      BY <3>1, ParseOne, Zenon
    <3> QED
      BY <2>1, <3>2
  <2> HIDE DEF Wrote, r, u
  <2>4. Holds(type, ParseFrom(o, Wrote), r)
    BY <2>2, <2>3
  <2> QED
    BY <2>4 DEF Wrote, r
<1> QED
  BY <1>3, <1>4, <1>5

\* The parser merges what game.proto has written of q into what it finds.
LEMMA ParseHolds ==
    ASSUME type \in MessageTypes, NEW o, NEW p, Holds(type, o, p), NEW e, NEW q, Holds(type, e, q)
    PROVE  Holds(type, ParseFrom(o, Encoding(q)), Merged(p, q))
<1> DEFINE n == Len(Declared)
           s == [i \in DOMAIN Declared |-> FieldEncoding(Declared[i], q[Declared[i].name])]
           U == UnitsOf(type)
<1>1. /\ DOMAIN Declared = 1..n /\ n \in Nat
      /\ Fields(type) = {Declared[i].name : i \in 1..n}
      /\ \A i, j \in 1..n : Declared[i].name = Declared[j].name => i = j
  BY EveryClassSound DEF ClassSound, Listed, Declared
<1>2. p = [f \in Fields(type) |-> p[f]] /\ \A f \in Fields(type) : q[f] \in ValuesOf(ShapeIn(type, f))
  <2>1. ASSUME NEW f \in Fields(type) PROVE q[f] \in ValuesOf(ShapeIn(type, f))
    BY DEF Holds, FieldHolds, ValuesOf
  <2> QED
    BY <2>1 DEF Holds
<1>3. \A i \in 1..n : s[i] \in Seq(U)
  <2> HIDE DEF n
  <2>1. ASSUME NEW i \in 1..n PROVE FieldEncoding(Declared[i], q[Declared[i].name]) \in Seq(U)
    <3>1. i \in DOMAIN Declared /\ q[Declared[i].name] \in ValuesOf(ShapeIn(type, Declared[i].name))
      BY <1>1, <1>2
    <3> QED
      BY <3>1, FieldUnits
  <2> QED
    BY <1>1, <2>1
<1>4. DOMAIN s = 1..n /\ Len(s) = n /\ s = [i \in 1..n |-> s[i]]
  <2> HIDE DEF n
  <2> QED
    BY <1>1
<1> HIDE DEF n
<1>5. \A i \in 1..n : s[i] = FieldEncoding(Declared[i], q[Declared[i].name])
  BY <1>1
<1>6. Encoding(q) = FlattenSeq(s)
  BY DEF Encoding
<1> HIDE DEF s, U
<1>7. PICK g : Builds(g, s, n)
  BY <1>1, <1>3, <1>4, FlattenInOrder
<1>7a. /\ g[0] = <<>>
      /\ \A i \in 1..n : g[i] = g[i - 1] \o s[i]
      /\ FlattenSeq(s) = g[n]
  BY <1>7 DEF Builds
<1> DEFINE Done(k) == {Declared[j].name : j \in 1..k}
           R(k) == [f \in Fields(type) |-> IF f \in Done(k) THEN MergedBy(ShapeIn(type, f), p[f], q[f])
                                                            ELSE p[f]]
           Reads(k) == g[k] \in Seq(U) /\ Holds(type, ParseFrom(o, g[k]), R(k))
           T == {k \in Nat : k <= n => Reads(k)}
<1>8. Reads(0)
  <2>1. Done(0) = {}
    OBVIOUS
  <2>2. R(0) = p
    BY <1>2, <2>1
  <2> HIDE DEF R
  <2>3. <<>> \in Seq(U)
    OBVIOUS
  <2> QED
    BY <1>7a, <2>2, <2>3, ParseNone
<1>9. ASSUME NEW k \in Nat, k + 1 <= n, Reads(k) PROVE Reads(k + 1)
  <2> DEFINE i == k + 1
             f == Declared[k + 1].name
  <2>1. i \in 1..n /\ i \in DOMAIN Declared /\ i - 1 = k
    BY <1>1, <1>9
  <2>2. f \in Fields(type)
    BY <1>1, <2>1
  <2>3. f \notin Done(k) /\ Done(i) = Done(k) \cup {f}
    <3>1. \A j \in 1..k : j \in 1..n /\ j # i
      BY <1>1, <1>9
    <3>2. f \notin Done(k)
      BY <1>1, <2>1, <3>1
    <3>3. 1..i = (1..k) \cup {i}
      OBVIOUS
    <3> QED
      BY <3>2, <3>3
  <2>4. R(i) = [R(k) EXCEPT ![f] = MergedBy(ShapeIn(type, f), R(k)[f], q[f])]
    <3> HIDE DEF f, Done, i
    <3>1. R(k)[f] = p[f]
      BY <2>2, <2>3
    <3>2. R(i) = [h \in Fields(type) |-> IF h = f THEN MergedBy(ShapeIn(type, f), p[f], q[f]) ELSE R(k)[h]]
      BY <2>3
    <3> QED
      BY <2>2, <3>1, <3>2
  <2>5. g[i] = g[k] \o s[i] /\ s[i] = FieldEncoding(Declared[i], q[f]) /\ s[i] \in Seq(U)
    BY <1>3, <1>5, <1>7a, <2>1
  <2> DEFINE a == ParseFrom(o, g[k])
             b == R(k)
             w == q[f]
  <2>6. Holds(type, a, b) /\ g[k] \in Seq(U)
    BY <1>9
  <2>7. w \in ValuesOf(ShapeIn(type, f))
    BY <1>2, <2>2
  <2> HIDE DEF i, a, b, w
  <2>8. Holds(type, ParseFrom(a, FieldEncoding(Declared[i], w)), [b EXCEPT ![Declared[i].name] = MergedBy(ShapeIn(type, Declared[i].name), b[Declared[i].name], w)])
    BY <2>1, <2>6, <2>7, FieldParseHolds DEF i
  <2>9. ParseFrom(o, g[i]) = ParseFrom(a, s[i]) /\ g[i] \in Seq(U)
    <3>1. g[i] \in Seq(U)
      BY <2>5, <2>6
    <3> DEFINE x == g[k]
               y == s[i]
    <3>2. x \in Seq(U) /\ y \in Seq(U)
      BY <2>5, <2>6
    <3> HIDE DEF x, y
    <3>3. ParseFrom(o, x \o y) = ParseFrom(ParseFrom(o, x), y)
      BY <3>2, ParseCat
    <3> QED
      BY <2>5, <3>1, <3>3 DEF x, y, a
  <2> HIDE DEF R
  <2>10. R(i) = [b EXCEPT ![f] = MergedBy(ShapeIn(type, f), b[f], w)] /\ f = Declared[i].name
    BY <2>4 DEF b, w, i
  <2> HIDE DEF f
  <2>11. Holds(type, ParseFrom(o, g[i]), R(i))
    BY <2>5, <2>8, <2>9, <2>10 DEF w
  <2> QED
    BY <2>9, <2>11 DEF i
<1>10. n \in T
  <2> HIDE DEF Reads
  <2>1. 0 \in T
    BY <1>8
  <2>2. ASSUME NEW k \in Nat, k \in T PROVE k + 1 \in T
    <3> SUFFICES ASSUME k + 1 <= n PROVE Reads(k + 1)
      OBVIOUS
    <3>1. k <= n
      BY <1>1
    <3>2. Reads(k)
      BY <2>2, <3>1
    <3> QED
      BY <1>9, <3>2
  <2> HIDE DEF T
  <2> QED
    BY <1>1, <2>1, <2>2, NatSetInduction
<1>11. R(n) = Merged(p, q)
  <2>1. Done(n) = Fields(type)
    BY <1>1
  <2>2. R(n) = [f \in Fields(type) |-> MergedBy(ShapeIn(type, f), p[f], q[f])]
    BY <2>1
  <2> QED
    BY <1>2, <2>2, MergedIs
<1> HIDE DEF R
<1>12. Reads(n)
  <2> HIDE DEF Reads
  <2> QED
    BY <1>1, <1>10
<1>13. ParseFrom(o, Encoding(q)) = ParseFrom(o, g[n])
  <2>1. FlattenSeq(s) = g[n]
    BY <1>7, Zenon DEF Builds
  <2> QED
    BY <1>6, <2>1, Zenon
<1> QED
  BY <1>11, <1>12, <1>13

-----------------------------------------------------------------------------
(* The invariant: Init establishes it and every operation preserves it. *)

LEMMA InitHolds == Init => ObjectInv
<1> SUFFICES ASSUME Init PROVE ObjectInv
  OBVIOUS
<1>1. type \in MessageTypes /\ this \in Creations /\ other \in Creations /\ ~leaked
  BY DEF Init, Creations
<1>2. plain = Default(type) /\ plainOther = Default(type)
  BY DEF Init
<1> QED
  BY <1>1, <1>2, CreationHolds DEF ObjectInv

\* An operation after which `this' holds what it should.
LEMMA BecomesHolds ==
    ASSUME ObjectInv, NEW o, NEW p, Becomes(o, p), Holds(type, o, p), leaked' = FALSE
    PROVE  ObjectInv'
<1>1. this' = o /\ plain' = p /\ type' = type /\ other' = other /\ plainOther' = plainOther
  BY DEF Becomes
<1> QED
  BY <1>1 DEF ObjectInv

\* An accessor after which one field holds what it should.
LEMMA AccessorHolds ==
    ASSUME ObjectInv, NEW f \in Fields(type), NEW bits, NEW v, NEW q,
           \/ bits = this.bits \cup {Bit(f)} /\ FieldHolds(ShapeIn(type, f), TRUE, v, q)
           \/ bits = this.bits \ {Bit(f)} /\ FieldHolds(ShapeIn(type, f), FALSE, v, q),
           Becomes([bits |-> bits, val |-> [this.val EXCEPT ![f] = v]], [plain EXCEPT ![f] = q]),
           UNCHANGED leaked
    PROVE  ObjectInv'
<1> DEFINE o == [bits |-> bits, val |-> [this.val EXCEPT ![f] = v]]
           p == [plain EXCEPT ![f] = q]
<1>1. type \in MessageTypes /\ Holds(type, this, plain) /\ leaked' = FALSE
  BY DEF ObjectInv
<1>2. Holds(type, o, p)
  BY <1>1, FieldUpdateHolds
<1>3. Becomes(o, p)
  OBVIOUS
<1> HIDE DEF o, p
<1> QED
  BY <1>1, <1>2, <1>3, BecomesHolds

\* The field an accessor of `this' is about.
LEMMA FieldOfThis ==
    ASSUME ObjectInv, NEW f \in Fields(type)
    PROVE  /\ type \in MessageTypes
           /\ ShapeIn(type, f) \in {"scalar", "text", "child", "list"}
           /\ Shape(f) = ShapeIn(type, f) /\ Empty(f) = EmptyOf(ShapeIn(type, f))
           /\ FieldHolds(ShapeIn(type, f), Bit(f) \in this.bits, this.val[f], plain[f])
           /\ plain = [g \in Fields(type) |-> plain[g]]
           /\ this = [bits |-> this.bits, val |-> [g \in Fields(type) |-> this.val[g]]]
<1>1. type \in MessageTypes /\ Holds(type, this, plain)
  BY DEF ObjectInv
<1>2. FieldSound(type, f) /\ Shape(f) = ShapeIn(type, f) /\ Bit(f) = BitIn(type, f)
  BY <1>1, TypeSound
<1>3. ShapeIn(type, f) \in {"scalar", "text", "child", "list"}
  BY <1>2 DEF FieldSound, ShapeSound
<1>4. Empty(f) = EmptyOf(ShapeIn(type, f))
  BY <1>2 DEF Empty, EmptyOf
<1>5. FieldHolds(ShapeIn(type, f), Bit(f) \in this.bits, this.val[f], plain[f])
  <2>1. FieldHolds(ShapeIn(type, f), BitIn(type, f) \in this.bits, this.val[f], plain[f])
    BY <1>1 DEF Holds
  <2>2. (Bit(f) \in this.bits) = (BitIn(type, f) \in this.bits)
    BY <1>2
  <2> QED
    BY <2>1, <2>2
<1>6. /\ plain = [g \in Fields(type) |-> plain[g]]
      /\ this = [bits |-> this.bits, val |-> [g \in Fields(type) |-> this.val[g]]]
  BY <1>1 DEF Holds
<1> QED
  BY <1>1, <1>2, <1>3, <1>4, <1>5, <1>6

LEMMA SetValueHolds ==
    ASSUME ObjectInv, NEW f \in Fields(type), NEW v \in 0..1, SetValue(f, v)
    PROVE  ObjectInv'
<1>1. ShapeIn(type, f) \in {"scalar", "text"}
  BY FieldOfThis DEF SetValue
<1>2. FieldHolds(ShapeIn(type, f), TRUE, v, v)
  BY <1>1 DEF FieldHolds, ValuesOf
<1> DEFINE bits == this.bits \cup {Bit(f)}
<1>3. Becomes([bits |-> bits, val |-> [this.val EXCEPT ![f] = v]], [plain EXCEPT ![f] = v]) /\ UNCHANGED leaked
  BY DEF SetValue, With
<1>4. bits = this.bits \cup {Bit(f)}
  OBVIOUS
<1> HIDE DEF bits
<1> QED
  BY <1>2, <1>3, <1>4, AccessorHolds

LEMMA MutableChildHolds ==
    ASSUME ObjectInv, NEW f \in Fields(type), NEW c \in 0..1, MutableChild(f, c)
    PROVE  ObjectInv'
<1> DEFINE old == IF this.val[f] = <<>> THEN 0 ELSE this.val[f][1]
           was == IF plain[f] = <<>> THEN 0 ELSE plain[f][1]
           bits == this.bits \cup {Bit(f)}
           v == <<Larger(old, c)>>
           q == <<Larger(was, c)>>
<1>1. ShapeIn(type, f) = "child" /\ FieldHolds("child", Bit(f) \in this.bits, this.val[f], plain[f])
  BY FieldOfThis DEF MutableChild
<1>2. old \in Nat /\ old = was
  BY <1>1 DEF FieldHolds, ValuesOf, EmptyOf
<1>3. Becomes([bits |-> bits, val |-> [this.val EXCEPT ![f] = v]], [plain EXCEPT ![f] = q]) /\ UNCHANGED leaked
  BY DEF MutableChild, With
<1> HIDE DEF old, was
<1>4. v = q /\ v \in {<<n>> : n \in Nat} /\ v # <<>>
  BY <1>2 DEF Larger
<1>5. bits = this.bits \cup {Bit(f)}
  OBVIOUS
<1> HIDE DEF v, q, bits
<1>6. FieldHolds(ShapeIn(type, f), TRUE, v, q)
  BY <1>1, <1>4 DEF FieldHolds, ValuesOf
<1> QED
  BY <1>3, <1>5, <1>6, AccessorHolds

LEMMA SetAllocatedChildHolds ==
    ASSUME ObjectInv, NEW f \in Fields(type), NEW v \in {<<>>, << 0 >>, << 1 >>}, SetAllocatedChild(f, v)
    PROVE  ObjectInv'
<1>1. ShapeIn(type, f) = "child"
  BY FieldOfThis DEF SetAllocatedChild
<1>2. v \in {<<>>} \cup {<<n>> : n \in Nat}
  OBVIOUS
<1>3. FieldHolds(ShapeIn(type, f), v # <<>>, v, v)
  BY <1>1, <1>2 DEF FieldHolds, ValuesOf, EmptyOf
<1> DEFINE bits == IF v = <<>> THEN this.bits \ {Bit(f)} ELSE this.bits \cup {Bit(f)}
<1>4. Becomes([bits |-> bits, val |-> [this.val EXCEPT ![f] = v]], [plain EXCEPT ![f] = v]) /\ UNCHANGED leaked
  BY DEF SetAllocatedChild, With, Without
<1>5. \/ bits = this.bits \cup {Bit(f)} /\ FieldHolds(ShapeIn(type, f), TRUE, v, v)
      \/ bits = this.bits \ {Bit(f)} /\ FieldHolds(ShapeIn(type, f), FALSE, v, v)
  <2>1. CASE v = <<>>
    <3>1. (v # <<>>) = FALSE
      BY <2>1
    <3> QED
      BY <1>3, <2>1, <3>1
  <2>2. CASE v # <<>>
    <3>1. (v # <<>>) = TRUE
      BY <2>2
    <3> QED
      BY <1>3, <2>2, <3>1
  <2> QED
    BY <2>1, <2>2
<1> HIDE DEF bits
<1> QED
  BY <1>4, <1>5, AccessorHolds

LEMMA ReleaseHolds ==
    ASSUME ObjectInv, NEW f \in Fields(type), Release(f)
    PROVE  ObjectInv'
<1> DEFINE bits == this.bits \ {Bit(f)}
           v == Empty(f)
<1>1. Becomes([bits |-> bits, val |-> [this.val EXCEPT ![f] = v]], [plain EXCEPT ![f] = v]) /\ UNCHANGED leaked
  BY DEF Release, Without
<1>2. FieldHolds(ShapeIn(type, f), FALSE, v, v)
  BY FieldOfThis, UnsetField
<1>3. bits = this.bits \ {Bit(f)}
  OBVIOUS
<1> HIDE DEF bits, v
<1> QED
  BY <1>1, <1>2, <1>3, AccessorHolds

LEMMA ClearFieldHolds ==
    ASSUME ObjectInv, NEW f \in Fields(type), ClearField(f)
    PROVE  ObjectInv'
<1> DEFINE bits == this.bits \ {Bit(f)}
           v == IF this.val[f] = Empty(f) THEN Empty(f) ELSE Cleared(f, this.val[f])
           q == Empty(f)
           s == ShapeIn(type, f)
<1>1. Becomes([bits |-> bits, val |-> [this.val EXCEPT ![f] = v]], [plain EXCEPT ![f] = q]) /\ UNCHANGED leaked
  BY DEF ClearField, Without
<1>2. s \in {"scalar", "text", "child", "list"} /\ Shape(f) = s /\ Empty(f) = EmptyOf(s)
  BY FieldOfThis
<1>3. v = EmptyOf(s) \/ (s = "child" /\ v = <<0>>)
  BY <1>2 DEF Cleared, EmptyOf
<1>4. q = EmptyOf(s)
  BY <1>2
<1>5. bits = this.bits \ {Bit(f)}
  OBVIOUS
<1> HIDE DEF bits, v, q
<1>6. FieldHolds(s, FALSE, v, q)
  BY <1>2, <1>3, <1>4, UnsetField
<1> QED
  BY <1>1, <1>5, <1>6, AccessorHolds

LEMMA AddElementHolds ==
    ASSUME ObjectInv, NEW f \in Fields(type), NEW x \in 0..1, AddElement(f, x)
    PROVE  ObjectInv'
<1> DEFINE bits == this.bits \cup {Bit(f)}
           v == Append(this.val[f], x)
           q == Append(plain[f], x)
<1>1. ShapeIn(type, f) = "list" /\ FieldHolds("list", Bit(f) \in this.bits, this.val[f], plain[f])
  BY FieldOfThis DEF AddElement
<1>2. this.val[f] \in Seq(Nat) /\ plain[f] = this.val[f]
  BY <1>1 DEF FieldHolds, ValuesOf
<1>3. f \in DOMAIN plain
  <2>1. plain = [g \in Fields(type) |-> plain[g]]
    BY FieldOfThis
  <2> QED
    BY <2>1
<1>4. Becomes([bits |-> bits, val |-> [this.val EXCEPT ![f] = v]], [plain EXCEPT ![f] = q]) /\ UNCHANGED leaked
  BY <1>3 DEF AddElement, With
<1>5. v \in Seq(Nat) /\ q = v
  BY <1>2
<1>6. bits = this.bits \cup {Bit(f)}
  OBVIOUS
<1> HIDE DEF bits, v, q
<1>7. FieldHolds(ShapeIn(type, f), TRUE, v, q)
  BY <1>1, <1>5 DEF FieldHolds, ValuesOf
<1> QED
  BY <1>4, <1>6, <1>7, AccessorHolds

LEMMA MutableListHolds ==
    ASSUME ObjectInv, NEW f \in Fields(type), MutableList(f)
    PROVE  ObjectInv'
<1> DEFINE bits == this.bits \cup {Bit(f)}
           v == this.val[f]
           q == plain[f]
<1>1. ShapeIn(type, f) = "list" /\ FieldHolds("list", Bit(f) \in this.bits, v, q)
  BY FieldOfThis DEF MutableList
<1>2. FieldHolds(ShapeIn(type, f), TRUE, v, q)
  BY <1>1 DEF FieldHolds
<1>3. [plain EXCEPT ![f] = q] = plain
  BY FieldOfThis
<1>4. Becomes([bits |-> bits, val |-> [this.val EXCEPT ![f] = v]], [plain EXCEPT ![f] = q]) /\ UNCHANGED leaked
  BY <1>3 DEF MutableList, With
<1>5. bits = this.bits \cup {Bit(f)}
  OBVIOUS
<1> HIDE DEF bits, v, q
<1> QED
  BY <1>2, <1>4, <1>5, AccessorHolds

\* A list whose has-bit is not set has no element to set.
LEMMA SetElementHolds ==
    ASSUME ObjectInv, NEW f \in Fields(type), NEW i \in 1..MaxList, NEW x \in 0..1, SetElement(f, i, x)
    PROVE  ObjectInv'
<1> DEFINE bits == this.bits
           v == [this.val[f] EXCEPT ![i] = x]
           q == [plain[f] EXCEPT ![i] = x]
<1>1. /\ ShapeIn(type, f) = "list" /\ i \in DOMAIN this.val[f]
      /\ FieldHolds("list", Bit(f) \in this.bits, this.val[f], plain[f])
  BY FieldOfThis DEF SetElement
<1>2. this.val[f] \in Seq(Nat) /\ plain[f] = this.val[f]
  BY <1>1 DEF FieldHolds, ValuesOf
<1>3. Bit(f) \in this.bits
  <2> SUFFICES ASSUME Bit(f) \notin this.bits PROVE FALSE
    OBVIOUS
  <2>1. this.val[f] = <<>>
    BY <1>1 DEF FieldHolds, EmptyOf
  <2> QED
    BY <1>1, <2>1
<1>4. /\ plain = [g \in Fields(type) |-> plain[g]]
      /\ this = [bits |-> this.bits, val |-> [g \in Fields(type) |-> this.val[g]]]
  BY FieldOfThis
<1>5. Becomes([bits |-> bits, val |-> [this.val EXCEPT ![f] = v]], [plain EXCEPT ![f] = q]) /\ UNCHANGED leaked
  <2>1. [this EXCEPT !.val[f][i] = x] = [bits |-> bits, val |-> [this.val EXCEPT ![f] = v]]
    BY <1>4
  <2>2. [plain EXCEPT ![f][i] = x] = [plain EXCEPT ![f] = q]
    BY <1>4
  <2>3. Becomes([this EXCEPT !.val[f][i] = x], [plain EXCEPT ![f][i] = x]) /\ UNCHANGED leaked
    BY DEF SetElement
  <2> QED
    BY <2>1, <2>2, <2>3
<1>6. v \in Seq(Nat) /\ q = v
  BY <1>1, <1>2
<1>7. bits = this.bits \cup {Bit(f)}
  BY <1>3
<1> HIDE DEF bits, v, q
<1>8. FieldHolds(ShapeIn(type, f), TRUE, v, q)
  BY <1>1, <1>6 DEF FieldHolds, ValuesOf
<1> QED
  BY <1>5, <1>7, <1>8, AccessorHolds

\* Clear, merging, copying and parsing, whatever `this' held before.
LEMMA WholeObjectHolds ==
    ASSUME ObjectInv,
           ClearAll \/ MergeOther \/ CopyOther \/ ParseFromArray \/ MergeFromString
    PROVE  ObjectInv'
<1>1. /\ type \in MessageTypes /\ Holds(type, this, plain) /\ Holds(type, other, plainOther)
      /\ ~leaked
  BY DEF ObjectInv
<1>2. Holds(type, Clear(this), Default(type))
  BY <1>1, ClearHolds
<1>3. Merged(Default(type), plainOther) = plainOther
  BY <1>1, MergedIntoDefault
<1>4. CASE ClearAll
  <2>1. Becomes(Clear(this), Default(type)) /\ leaked' = FALSE
    BY <1>1, <1>4 DEF ClearAll
  <2> QED
    BY <1>2, <2>1, BecomesHolds
<1>5. CASE MergeOther
  <2>1. Becomes(MergeFrom(this, other), Merged(plain, plainOther)) /\ leaked' = FALSE
    BY <1>1, <1>5 DEF MergeOther
  <2> QED
    BY <1>1, <2>1, MergeHolds, BecomesHolds
<1>6. CASE CopyOther
  <2>1. Becomes(MergeFrom(Clear(this), other), plainOther) /\ leaked' = FALSE
    BY <1>1, <1>6 DEF CopyOther
  <2>2. Holds(type, MergeFrom(Clear(this), other), plainOther)
    <3>1. Holds(type, MergeFrom(Clear(this), other), Merged(Default(type), plainOther))
      BY <1>1, <1>2, MergeHolds
    <3> QED
      BY <1>3, <3>1
  <2> QED
    BY <2>1, <2>2, BecomesHolds
<1>7. CASE ParseFromArray
  <2>1. Becomes(ParseFrom(Clear(this), Encoding(plainOther)), plainOther) /\ leaked' = FALSE
    BY <1>1, <1>7 DEF ParseFromArray
  <2>2. Holds(type, ParseFrom(Clear(this), Encoding(plainOther)), plainOther)
    <3>1. Holds(type, ParseFrom(Clear(this), Encoding(plainOther)), Merged(Default(type), plainOther))
      BY <1>1, <1>2, ParseHolds
    <3> QED
      BY <1>3, <3>1
  <2> QED
    BY <2>1, <2>2, BecomesHolds
<1>8. CASE MergeFromString
  <2>1. Becomes(ParseFrom(this, Encoding(plainOther)), Merged(plain, plainOther)) /\ leaked' = FALSE
    BY <1>1, <1>8 DEF MergeFromString
  <2> QED
    BY <1>1, <2>1, ParseHolds, BecomesHolds
<1> QED
  BY <1>4, <1>5, <1>6, <1>7, <1>8

\* Making `this' anew, and exchanging the objects.
LEMMA RebuildHolds ==
    ASSUME ObjectInv, RebuildAsCopy \/ Rebuild
    PROVE  ObjectInv'
<1>1. /\ type \in MessageTypes /\ Holds(type, this, plain) /\ Holds(type, other, plainOther)
      /\ ~leaked
  BY DEF ObjectInv
<1>2. leaked' = FALSE
  <2>1. ~Loses(this)
    BY <1>1, NothingLost
  <2> QED
    BY <1>1, <2>1 DEF RebuildAsCopy, Rebuild
<1>3. CASE RebuildAsCopy
  <2>1. Becomes(CopyConstruct(other), plainOther)
    BY <1>3 DEF RebuildAsCopy
  <2> QED
    BY <1>1, <1>2, <2>1, CopyHolds, BecomesHolds
<1>4. CASE Rebuild
  <2>1. PICK o \in Creations : Becomes(o, Default(type))
    BY <1>4 DEF Rebuild
  <2> QED
    BY <1>1, <1>2, <2>1, CreationHolds, BecomesHolds
<1> QED
  BY <1>3, <1>4

LEMMA SwapHolds == ASSUME ObjectInv, Swap PROVE ObjectInv'
<1>1. /\ type \in MessageTypes /\ Holds(type, this, plain) /\ Holds(type, other, plainOther)
      /\ ~leaked
  BY DEF ObjectInv
<1>2. SwappedWith(this, other) = other /\ SwappedWith(other, this) = this
  BY <1>1, SwapIs
<1>3. /\ this' = other /\ other' = this /\ plain' = plainOther /\ plainOther' = plain
      /\ type' = type /\ leaked' = leaked
  BY <1>2 DEF Swap
<1> QED
  BY <1>1, <1>3 DEF ObjectInv

LEMMA NextHolds == ObjectInv /\ [Next]_vars => ObjectInv'
<1> SUFFICES ASSUME ObjectInv, [Next]_vars PROVE ObjectInv'
  OBVIOUS
<1>1. CASE \E f \in Fields(type) :
             \/ \E v \in 0..1 : SetValue(f, v) \/ MutableChild(f, v) \/ AddElement(f, v)
             \/ \E v \in {<<>>, <<0>>, <<1>>} : SetAllocatedChild(f, v)
             \/ \E i \in 1..MaxList, v \in 0..1 : SetElement(f, i, v)
             \/ Release(f) \/ ClearField(f) \/ MutableList(f)
  BY <1>1, SetValueHolds, MutableChildHolds, AddElementHolds, SetAllocatedChildHolds, SetElementHolds,
     ReleaseHolds, ClearFieldHolds, MutableListHolds, Zenon
<1>2. CASE ClearAll \/ MergeOther \/ CopyOther \/ ParseFromArray \/ MergeFromString
  BY <1>2, WholeObjectHolds
<1>3. CASE RebuildAsCopy \/ Rebuild
  BY <1>3, RebuildHolds
<1>4. CASE Swap
  BY <1>4, SwapHolds
<1>5. CASE UNCHANGED vars
  BY <1>5 DEF vars, ObjectInv
<1> QED
  BY <1>1, <1>2, <1>3, <1>4, <1>5 DEF Next, Fields

\* Whatever is done to two objects of any of the 27 classes, with lists of
\* any length, each holds what game.proto says it should, and nothing is lost.
THEOREM ObjectsExact == Spec => []ObjectExact
<1>1. Init => ObjectInv
  BY InitHolds
<1>2. ObjectInv /\ [Next]_vars => ObjectInv'
  BY NextHolds
<1>3. ObjectInv => ObjectExact
  BY ObjectInvExact
<1> QED
  BY <1>1, <1>2, <1>3, PTL DEF Spec

-----------------------------------------------------------------------------
(* Sums over finite sets, as MapThenSumSet adds them up. *)

First(s) == CHOOSE x \in s : TRUE

\* F holds the sum of h over each subset of S.
Sums(F, h, S) ==
    \A s \in SUBSET S : F[s] = IF s = {} THEN 0 ELSE h[First(s)] + F[s \ {First(s)}]

SumRule(F, h, S) ==
    F = [s \in SUBSET S |-> IF s = {} THEN 0 ELSE h[First(s)] + F[s \ {First(s)}]]

LEMMA SmallerSet ==
    ASSUME NEW S, IsFiniteSet(S), NEW s \in SUBSET S, NEW x \in s
    PROVE  /\ Cardinality(s) \in Nat /\ Cardinality(s) # 0
           /\ s \ {x} \in SUBSET S /\ Cardinality(s \ {x}) = Cardinality(s) - 1
<1>1. IsFiniteSet(s)
  BY FS_Subset
<1>2. Cardinality(s) \in Nat /\ Cardinality(s) # 0
  BY <1>1, FS_CardinalityType, FS_EmptySet
<1>3. Cardinality(s \ {x}) = Cardinality(s) - 1
  BY <1>1, FS_RemoveElement
<1> QED
  BY <1>2, <1>3

LEMMA SumsExist ==
    ASSUME NEW h, NEW S, IsFiniteSet(S)
    PROVE  \E F : SumRule(F, h, S)
<1> DEFINE Rule(F, s) == IF s = {} THEN 0 ELSE h[First(s)] + F[s \ {First(s)}]
           Upto(F, n) == \A s \in SUBSET S : Cardinality(s) <= n => F[s] = Rule(F, s)
           T == {n \in Nat : \E F : Upto(F, n)}
<1>1. \A s \in SUBSET S : Cardinality(s) \in Nat /\ (s # {} => First(s) \in s)
  <2>1. \A s \in SUBSET S : IsFiniteSet(s)
    BY FS_Subset
  <2> QED
    BY <2>1, FS_CardinalityType DEF First
<1>2. \A s \in SUBSET S : s # {} => s \ {First(s)} \in SUBSET S
                                    /\ Cardinality(s \ {First(s)}) = Cardinality(s) - 1
  <2>1. ASSUME NEW s \in SUBSET S, s # {}
        PROVE  s \ {First(s)} \in SUBSET S /\ Cardinality(s \ {First(s)}) = Cardinality(s) - 1
    <3>1. First(s) \in s
      BY <1>1, <2>1
    <3> QED
      BY <3>1, SmallerSet
  <2> QED
    BY <2>1
<1>3. 0 \in T
  <2> DEFINE F == [s \in SUBSET S |-> 0]
  <2>1. ASSUME NEW s \in SUBSET S, Cardinality(s) <= 0 PROVE s = {}
    <3>1. Cardinality(s) = 0 /\ IsFiniteSet(s)
      BY <1>1, <2>1, FS_Subset
    <3> QED
      BY <3>1, FS_EmptySet
  <2>2. Upto(F, 0)
    BY <2>1
  <2> HIDE DEF Upto, F
  <2> QED
    BY <2>2
<1>4. ASSUME NEW n \in Nat, n \in T PROVE n + 1 \in T
  <2>1. PICK F : Upto(F, n)
    BY <1>4
  <2> DEFINE G == [s \in SUBSET S |-> Rule(F, s)]
  <2>2. \A s \in SUBSET S : Cardinality(s) <= n => G[s] = F[s]
    BY <2>1
  <2>3. ASSUME NEW s \in SUBSET S, Cardinality(s) <= n + 1 PROVE G[s] = Rule(G, s)
    <3>1. CASE s = {}
      BY <3>1
    <3>2. CASE s # {}
      <4>1. s \ {First(s)} \in SUBSET S /\ Cardinality(s \ {First(s)}) <= n
        BY <1>1, <1>2, <2>3, <3>2
      <4>2. G[s \ {First(s)}] = F[s \ {First(s)}]
        BY <2>2, <4>1
      <4> QED
        BY <3>2, <4>2
    <3> QED
      BY <3>1, <3>2
  <2> HIDE DEF G, Rule
  <2>4. Upto(G, n + 1)
    BY <2>3
  <2> HIDE DEF Upto
  <2> QED
    BY <2>4
<1>5. Cardinality(S) \in T
  <2> HIDE DEF T
  <2> QED
    BY <1>1, <1>3, <1>4, NatSetInduction
<1>6. PICK F : Upto(F, Cardinality(S))
  BY <1>5
<1> DEFINE G == [s \in SUBSET S |-> F[s]]
<1>7. \A s \in SUBSET S : Cardinality(s) <= Cardinality(S)
  BY FS_Subset
<1>8. \A s \in SUBSET S : G[s] = Rule(G, s)
  BY <1>2, <1>6, <1>7
<1>9. G = [s \in SUBSET S |-> G[s]]
  OBVIOUS
<1> HIDE DEF G
<1>10. SumRule(G, h, S)
  BY <1>8, <1>9 DEF SumRule
<1> QED
  BY <1>10

\* F holds the sums of integers.
Totals(F, h, S) == IsFiniteSet(S) /\ Sums(F, h, S) /\ \A x \in S : h[x] \in Int

\* Any member may be taken out first.
LEMMA SumStep ==
    ASSUME NEW F, NEW h, NEW S, Totals(F, h, S), NEW s \in SUBSET S
    PROVE  F[s] \in Int /\ \A x \in s : F[s] = h[x] + F[s \ {x}]
<1>1. IsFiniteSet(S) /\ Sums(F, h, S) /\ \A x \in S : h[x] \in Int
  BY DEF Totals
<1> DEFINE TakenOut(r) == F[r] \in Int /\ \A x \in r : F[r \ {x}] \in Int /\ F[r] = h[x] + F[r \ {x}]
           T == {n \in Nat : \A r \in SUBSET S : Cardinality(r) = n => TakenOut(r)}
<1>2. 0 \in T
  <2> SUFFICES ASSUME NEW r \in SUBSET S, Cardinality(r) = 0 PROVE TakenOut(r)
    OBVIOUS
  <2>1. r = {}
    <3>1. IsFiniteSet(r)
      BY <1>1, FS_Subset
    <3> QED
      BY <3>1, FS_EmptySet
  <2> QED
    <3>1. F[r] = 0
      BY <1>1, <2>1 DEF Sums
    <3> QED
      BY <2>1, <3>1
<1>3. ASSUME NEW n \in Nat, n \in T PROVE n + 1 \in T
  <2> SUFFICES ASSUME NEW r \in SUBSET S, Cardinality(r) = n + 1 PROVE TakenOut(r)
    <3> HIDE DEF TakenOut
    <3> QED
      OBVIOUS
  <2> DEFINE c == First(r)
  <2>1. r # {}
    BY FS_EmptySet
  <2>2. c \in r /\ F[r] = h[c] + F[r \ {c}]
    BY <1>1, <2>1 DEF Sums, First
  <2> HIDE DEF c
  <2>3. \A x \in r : r \ {x} \in SUBSET S /\ Cardinality(r \ {x}) = n
    <3>1. ASSUME NEW x \in r PROVE r \ {x} \in SUBSET S /\ Cardinality(r \ {x}) = n
      <4>1. Cardinality(r \ {x}) = Cardinality(r) - 1
        BY <1>1, SmallerSet
      <4> QED
        BY <4>1
    <3> QED
      BY <3>1
  <2>4. \A x \in r : TakenOut(r \ {x})
    <3> HIDE DEF TakenOut
    <3> QED
      BY <1>3, <2>3
  <2>5. \A x \in r : F[r \ {x}] \in Int /\ h[x] \in Int
    BY <1>1, <2>4
  <2>6. ASSUME NEW x \in r PROVE F[r] = h[x] + F[r \ {x}]
    <3>1. CASE x = c
      BY <2>2, <3>1
    <3>2. CASE x # c
      <4> DEFINE b == F[(r \ {x}) \ {c}]
      <4>1. (r \ {c}) \ {x} = (r \ {x}) \ {c}
        OBVIOUS
      <4>2. F[r \ {c}] = h[x] + b
        <5>1. x \in r \ {c}
          BY <3>2
        <5>2. F[r \ {c}] = h[x] + F[(r \ {c}) \ {x}]
          BY <2>2, <2>4, <5>1
        <5> QED
          BY <4>1, <5>2
      <4>3. F[r \ {x}] = h[c] + b
        <5>1. c \in r \ {x}
          BY <2>2, <3>2
        <5> QED
          BY <2>4, <5>1
      <4>4. b \in Int
        <5>1. c \in r \ {x}
          BY <2>2, <3>2
        <5> QED
          BY <2>4, <5>1
      <4>5. h[x] \in Int /\ h[c] \in Int
        BY <2>2, <2>5
      <4> HIDE DEF b
      <4> QED
        BY <2>2, <4>2, <4>3, <4>4, <4>5
    <3> QED
      BY <3>1, <3>2
  <2>7. F[r] \in Int
    BY <2>2, <2>5
  <2> QED
    BY <2>5, <2>6, <2>7
<1>4. Cardinality(s) \in Nat
  <2>1. IsFiniteSet(s)
    BY <1>1, FS_Subset
  <2> QED
    BY <2>1, FS_CardinalityType
<1>5. Cardinality(s) \in T
  <2> HIDE DEF T
  <2> QED
    BY <1>2, <1>3, <1>4, NatSetInduction
<1> QED
  BY <1>5

\* A function into the integers, summed over 1..n, can be added up in order.
AddsUp(g, h, n) ==
    /\ g[0] = 0
    /\ \A i \in 1..n : g[i] \in Int /\ g[i] = g[i - 1] + h[i]

LEMMA SumInOrder ==
    ASSUME NEW n \in Nat, NEW h, \A i \in 1..n : h[i] \in Int, NEW F, Sums(F, h, 1..n)
    PROVE  AddsUp([i \in 0..n |-> F[1..i]], h, n)
<1> DEFINE g == [i \in 0..n |-> F[1..i]]
<1>1. IsFiniteSet(1..n)
  BY FS_Interval
<1>2. g[0] = 0
  <2>1. 1..0 = {} /\ {} \in SUBSET (1..n)
    OBVIOUS
  <2>2. F[{}] = 0
    BY <2>1 DEF Sums
  <2> QED
    BY <2>1, <2>2
<1>3. \A s \in SUBSET (1..n) : F[s] \in Int /\ \A x \in s : F[s] = h[x] + F[s \ {x}]
  <2> DEFINE S == 1..n
  <2> HIDE DEF S
  <2>1. Totals(F, h, S)
    BY <1>1 DEF Totals, S
  <2>2. ASSUME NEW s \in SUBSET S PROVE F[s] \in Int /\ \A x \in s : F[s] = h[x] + F[s \ {x}]
    BY <2>1, SumStep
  <2> QED
    BY <2>2 DEF S
<1>4. ASSUME NEW i \in 1..n PROVE g[i] \in Int /\ g[i] = g[i - 1] + h[i]
  <2> DEFINE a == 1..i
             b == 1..(i - 1)
  <2>1. a \in SUBSET (1..n) /\ i \in a /\ a \ {i} = b /\ b \in SUBSET (1..n)
    OBVIOUS
  <2>2. g[i] = F[a] /\ g[i - 1] = F[b]
    OBVIOUS
  <2> HIDE DEF a, b, g
  <2>3. F[a] \in Int /\ \A x \in a : F[a] = h[x] + F[a \ {x}]
    BY <1>3, <2>1
  <2>4. F[b] \in Int
    BY <1>3, <2>1
  <2>5. F[a] = h[i] + F[b] /\ h[i] \in Int
    BY <2>1, <2>3
  <2> QED
    BY <2>2, <2>3, <2>4, <2>5
<1> HIDE DEF g
<1>5. AddsUp(g, h, n)
  BY <1>2, <1>4 DEF AddsUp
<1> QED
  BY <1>5 DEF g

-----------------------------------------------------------------------------
(* The size of what is written. *)

\* Units that have a size: what names a message holds one.
Measured(t) == {u \in UnitsOf(t) : UnitSize(u) \in Nat}

\* g adds up the sizes of the units, one after the other.
Measures(g, units) ==
    /\ g[0] = 0
    /\ \A i \in 1..Len(units) : g[i] \in Int /\ g[i] = g[i - 1] + UnitSize(units[i])

LEMMA SizesInOrder ==
    ASSUME NEW U, \A u \in U : UnitSize(u) \in Nat, NEW units \in Seq(U)
    PROVE  \E g : Measures(g, units) /\ SizeOf(units) = g[Len(units)]
<1> DEFINE n == Len(units)
           D == DOMAIN units
           h == [i \in D |-> UnitSize(units[i])]
           Rule(F) == F = [s \in SUBSET D |->
                             IF s = {} THEN 0 ELSE UnitSize(units[First(s)]) + F[s \ {First(s)}]]
           f == CHOOSE F : Rule(F)
<1>3. SizeOf(units) = f[D]
  BY DEF SizeOf, MapThenSumSet, MapThenFoldSet, First
<1>1. n \in Nat /\ D = 1..n /\ \A i \in 1..n : units[i] \in U
  OBVIOUS
<1> HIDE DEF n
<1>2. \A i \in D : h[i] = UnitSize(units[i]) /\ h[i] \in Int
  BY <1>1
<1> HIDE DEF D
<1>4. IsFiniteSet(D)
  BY <1>1, FS_Interval
<1>5. \A s \in SUBSET D : s # {} => h[First(s)] = UnitSize(units[First(s)])
  BY <1>2 DEF First
<1> HIDE DEF h
<1>6. Rule(f)
  <2>1. PICK F : SumRule(F, h, D)
    BY <1>4, SumsExist
  <2>2. Rule(F)
    <3>1. \A s \in SUBSET D :
            F[s] = IF s = {} THEN 0 ELSE UnitSize(units[First(s)]) + F[s \ {First(s)}]
      BY <1>5, <2>1 DEF SumRule
    <3>2. F = [s \in SUBSET D |-> F[s]]
      BY <2>1 DEF SumRule
    <3> QED
      BY <3>1, <3>2
  <2> HIDE DEF Rule
  <2> QED
    BY <2>2
<1>7. Sums(f, h, D)
  <2> HIDE DEF f
  <2>1. \A s \in SUBSET D :
          f[s] = IF s = {} THEN 0 ELSE UnitSize(units[First(s)]) + f[s \ {First(s)}]
    BY <1>6
  <2> QED
    BY <1>5, <2>1 DEF Sums
<1> HIDE DEF f
<1> DEFINE g == [i \in 0..n |-> f[1..i]]
<1>8. AddsUp(g, h, n)
  BY <1>1, <1>2, <1>7, SumInOrder
<1>9. g[n] = f[1..n]
  BY <1>1
<1> HIDE DEF g
<1>10. Measures(g, units)
  BY <1>1, <1>2, <1>8 DEF Measures, AddsUp, n
<1>11. SizeOf(units) = g[Len(units)]
  BY <1>1, <1>3, <1>9 DEF n
<1> QED
  BY <1>10, <1>11

\* Whatever adds them up ends at their size.
LEMMA SizesTo ==
    ASSUME NEW U, \A u \in U : UnitSize(u) \in Nat, NEW units \in Seq(U), NEW g, Measures(g, units)
    PROVE  SizeOf(units) = g[Len(units)]
<1>1. PICK e : Measures(e, units) /\ SizeOf(units) = e[Len(units)]
  BY SizesInOrder
<1> DEFINE T == {k \in Nat : k <= Len(units) => e[k] = g[k]}
<1>2. 0 \in T
  BY <1>1 DEF Measures
<1>3. ASSUME NEW k \in Nat, k \in T PROVE k + 1 \in T
  <2> SUFFICES ASSUME k + 1 <= Len(units) PROVE e[k + 1] = g[k + 1]
    OBVIOUS
  <2>1. e[k] = g[k]
    BY <1>3
  <2>2. k + 1 \in 1..Len(units) /\ (k + 1) - 1 = k
    OBVIOUS
  <2> QED
    BY <1>1, <2>1, <2>2 DEF Measures
<1> HIDE DEF T
<1>4. Len(units) \in T
  <2>1. Len(units) \in Nat
    OBVIOUS
  <2> QED
    BY <1>2, <1>3, <2>1, NatSetInduction
<1> QED
  BY <1>1, <1>4 DEF T

LEMMA SizeNone == SizeOf(<<>>) = 0
<1>1. Measures([i \in 0..0 |-> 0], <<>>)
  BY DEF Measures
<1>2. <<>> \in Seq({}) /\ Len(<<>>) = 0 /\ \A u \in {} : UnitSize(u) \in Nat
  OBVIOUS
<1> QED
  BY <1>1, <1>2, SizesTo

LEMMA SizeOne == ASSUME NEW u, UnitSize(u) \in Nat PROVE SizeOf(<<u>>) = UnitSize(u)
<1> DEFINE g == [i \in 0..1 |-> IF i = 0 THEN 0 ELSE UnitSize(u)]
           units == <<u>>
<1>1. units \in Seq({u}) /\ Len(units) = 1 /\ units[1] = u
  OBVIOUS
<1>2. g[0] = 0 /\ g[1] = UnitSize(u) /\ 1..1 = {1}
  OBVIOUS
<1> HIDE DEF g, units
<1>3. Measures(g, units)
  BY <1>1, <1>2 DEF Measures
<1>4. \A x \in {u} : UnitSize(x) \in Nat
  OBVIOUS
<1>5. SizeOf(units) = g[1]
  BY <1>1, <1>3, <1>4, SizesTo
<1> QED
  BY <1>2, <1>5 DEF units

\* What is written after something else adds its own size.
LEMMA SizeCat ==
    ASSUME NEW U, \A u \in U : UnitSize(u) \in Nat, NEW units \in Seq(U), NEW more \in Seq(U)
    PROVE  /\ SizeOf(units) \in Int /\ SizeOf(more) \in Int
           /\ SizeOf(units \o more) = SizeOf(units) + SizeOf(more)
<1> DEFINE m == Len(units)
           n == Len(more)
           s == units \o more
<1>1. /\ s \in Seq(U) /\ Len(s) = m + n /\ m \in Nat /\ n \in Nat
      /\ \A i \in 1..m : s[i] = units[i]
      /\ \A i \in 1..n : s[m + i] = more[i]
  OBVIOUS
<1> HIDE DEF m, n, s
<1>2. PICK a : Measures(a, units) /\ SizeOf(units) = a[m]
  BY SizesInOrder DEF m
<1>3. PICK b : Measures(b, more) /\ SizeOf(more) = b[n]
  BY SizesInOrder DEF n
<1>4. /\ a[0] = 0 /\ \A i \in 1..m : a[i] \in Int /\ a[i] = a[i - 1] + UnitSize(units[i])
      /\ b[0] = 0 /\ \A i \in 1..n : b[i] \in Int /\ b[i] = b[i - 1] + UnitSize(more[i])
  BY <1>2, <1>3 DEF Measures, m, n
<1>5. a[m] \in Int /\ \A i \in 0..n : b[i] \in Int
  <2>1. m = 0 \/ m \in 1..m
    BY <1>1
  <2>2. \A i \in 0..n : i = 0 \/ i \in 1..n
    BY <1>1
  <2> QED
    BY <1>4, <2>1, <2>2
<1> DEFINE g == [i \in 0..(m + n) |-> IF i <= m THEN a[i] ELSE a[m] + b[i - m]]
<1>6. g[0] = 0 /\ g[m + n] = a[m] + b[n]
  <2>1. g[0] = a[0]
    BY <1>1
  <2>2. CASE n = 0
    <3>1. g[m + n] = a[m] /\ b[n] = 0
      BY <1>1, <1>4, <2>2
    <3> QED
      BY <1>5, <2>1, <3>1, <1>4
  <2>3. CASE n # 0
    <3>1. m + n \in 0..(m + n) /\ ~(m + n <= m) /\ (m + n) - m = n
      BY <1>1, <2>3
    <3> QED
      BY <1>4, <2>1, <3>1
  <2> QED
    BY <2>2, <2>3
<1>7. ASSUME NEW i \in 1..(m + n) PROVE g[i] \in Int /\ g[i] = g[i - 1] + UnitSize(s[i])
  <2>1. CASE i <= m
    <3>1. i \in 1..m /\ i \in 0..(m + n) /\ i - 1 \in 0..(m + n) /\ i - 1 <= m
      BY <1>1, <2>1
    <3> QED
      BY <1>1, <1>4, <2>1, <3>1
  <2>2. CASE i = m + 1
    <3>1. /\ 1 \in 1..n /\ i \in 0..(m + n) /\ i - 1 \in 0..(m + n)
          /\ i - 1 = m /\ ~(i <= m) /\ i - m = 1 /\ m <= m
      BY <1>1, <2>2
    <3>2. g[i] = a[m] + b[1] /\ g[i - 1] = a[m]
      BY <3>1
    <3>3. b[1] \in Int /\ b[1] = b[1 - 1] + UnitSize(more[1])
      BY <1>4, <3>1
    <3>4. b[1 - 1] = 0 /\ s[i] = more[1] /\ more[1] \in U
      <4>1. 1 - 1 = 0 /\ s[m + 1] = more[1]
        BY <1>1, <3>1
      <4>2. more[1] \in U
        BY <3>1 DEF n
      <4> QED
        BY <1>4, <2>2, <4>1, <4>2
    <3> DEFINE u == UnitSize(more[1])
    <3>5. u \in Int /\ UnitSize(s[i]) = u /\ b[1] = u
      BY <3>3, <3>4
    <3> HIDE DEF u, g
    <3> QED
      BY <1>5, <3>2, <3>5
  <2>3. CASE i > m + 1
    <3> DEFINE j == i - m
    <3>1. /\ j \in 1..n /\ j - 1 \in 1..n /\ i \in 0..(m + n) /\ i - 1 \in 0..(m + n)
          /\ ~(i - 1 <= m) /\ ~(i <= m) /\ (i - 1) - m = j - 1 /\ i = m + j
      BY <1>1, <2>3
    <3>2. g[i] = a[m] + b[j] /\ g[i - 1] = a[m] + b[j - 1]
      BY <3>1
    <3>3. s[i] = more[j] /\ more[j] \in U
      <4>1. more[j] \in U
        BY <3>1 DEF n
      <4> QED
        BY <1>1, <3>1, <4>1
    <3> HIDE DEF j, g
    <3>4. b[j] \in Int /\ b[j - 1] \in Int /\ b[j] = b[j - 1] + UnitSize(more[j])
      BY <1>4, <3>1
    <3> DEFINE u == UnitSize(more[j])
    <3>5. u \in Int /\ UnitSize(s[i]) = u /\ b[j] = b[j - 1] + u
      BY <3>3, <3>4
    <3>6. a[m] \in Int
      BY <1>5
    <3> DEFINE x == b[j]
               y == b[j - 1]
               z == a[m]
    <3>7. g[i] = z + x /\ g[i - 1] = z + y /\ x = y + u
      BY <3>2, <3>5
    <3>8. u \in Int /\ x \in Int /\ y \in Int /\ z \in Int
      BY <3>4, <3>5, <3>6
    <3> HIDE DEF u, x, y, z
    <3>9. g[i] = g[i - 1] + u
      BY <3>7, <3>8
    <3> QED
      BY <3>5, <3>7, <3>8, <3>9
  <2> QED
    BY <1>1, <2>1, <2>2, <2>3
<1> HIDE DEF g
<1>8. Measures(g, s)
  BY <1>1, <1>6, <1>7 DEF Measures
<1>9. SizeOf(s) = g[m + n]
  BY <1>1, <1>8, SizesTo
<1>10. SizeOf(s) = SizeOf(units) + SizeOf(more)
  BY <1>2, <1>3, <1>6, <1>9
<1> QED
  BY <1>2, <1>3, <1>5, <1>1, <1>10 DEF s

-----------------------------------------------------------------------------
(* _InternalSerialize writes, and ByteSizeLong measures, what game.proto says. *)

\* The format in which each kind of field is written.
LEMMA WireFormatIs ==
    ASSUME type \in MessageTypes, NEW i \in DOMAIN Declared
    PROVE  LET d == Declared[i]
           IN  /\ Kind(d) = "value" =>
                    /\ WireFormat(d) = FormatOf(d.ty)
                    /\ WireFormat(d) \notin {"Message", "RepMessage", "UInt64Packed"}
               /\ Kind(d) = "child" => WireFormat(d) = "Message"
               /\ Kind(d) = "list" => /\ d.ty \in MessageTypes => WireFormat(d) = "RepMessage"
                                      /\ d.ty \notin MessageTypes => WireFormat(d) = "UInt64Packed"
<1> DEFINE d == Declared[i]
<1>1. Kind(d) = "value" => WireFormat(d) \notin {"Message", "RepMessage", "UInt64Packed"}
  BY DeclaredSound DEF DeclarationSound
<1> HIDE DEF d
<1>2. Kind(d) = "value" => WireFormat(d) = FormatOf(d.ty)
  BY DEF Kind, WireFormat
<1>3. Kind(d) = "child" => WireFormat(d) = "Message"
  <2> SUFFICES ASSUME Kind(d) = "child" PROVE WireFormat(d) = "Message"
    OBVIOUS
  <2>1. ~d.repeated /\ d.ty \in MessageTypes
    BY DEF Kind
  <2>2. d.ty \notin Enums
    BY <2>1, NoEnumIsMessage
  <2> QED
    BY <2>1, <2>2 DEF WireFormat, FormatOf
<1>4. Kind(d) = "list" => /\ d.ty \in MessageTypes => WireFormat(d) = "RepMessage"
                          /\ d.ty \notin MessageTypes => WireFormat(d) = "UInt64Packed"
  BY DEF Kind, WireFormat
<1> QED
  BY <1>1, <1>2, <1>3, <1>4 DEF d

\* What game.proto prescribes for a field of each shape.
LEMMA FieldEncodingIs ==
    ASSUME type \in MessageTypes, NEW i \in DOMAIN Declared, NEW w
    PROVE  LET d == Declared[i]
               s == ShapeIn(type, d.name)
           IN  /\ s \in {"scalar", "text"} =>
                    FieldEncoding(d, w) = IF w = 0 THEN <<>> ELSE <<Unit(d.number, WireFormat(d), <<w>>)>>
               /\ s = "child" =>
                    FieldEncoding(d, w) = IF w = <<>> THEN <<>> ELSE <<Unit(d.number, "Message", w)>>
               /\ s = "list" /\ d.ty \in MessageTypes => FieldEncoding(d, w) = ListUnits(d.number, w)
               /\ s = "list" /\ d.ty \notin MessageTypes =>
                    FieldEncoding(d, w) = IF w = <<>> THEN <<>> ELSE <<Unit(d.number, "UInt64Packed", w)>>
<1> DEFINE d == Declared[i]
           s == ShapeIn(type, d.name)
<1>1. Kind(d) = CASE s = "child" -> "child" [] s = "list" -> "list" [] OTHER -> "value"
  BY DeclaredSound
<1>2. Kind(d) = "value" => WireFormat(d) = FormatOf(d.ty)
  BY WireFormatIs
<1> HIDE DEF d, s
<1>3. CASE s \in {"scalar", "text"}
  <2>1. Kind(d) = "value"
    BY <1>1, <1>3
  <2> QED
    BY <1>2, <1>3, <2>1 DEF FieldEncoding, d, s
<1>4. CASE s = "child"
  <2>1. Kind(d) = "child"
    BY <1>1, <1>4
  <2> QED
    BY <1>4, <2>1 DEF FieldEncoding, d, s
<1>5. CASE s = "list"
  <2>1. Kind(d) = "list"
    BY <1>1, <1>5
  <2> QED
    BY <1>5, <2>1 DEF FieldEncoding, ListUnits, d, s
<1> QED
  BY <1>3, <1>4, <1>5 DEF d, s

\* A field that is not set holds nothing that is written.
LEMMA UnsetHolds ==
    ASSUME NEW shape, NEW v, NEW q, FieldHolds(shape, FALSE, v, q)
    PROVE  q = EmptyOf(shape)
BY DEF FieldHolds, EmptyOf

LEMMA SetHolds ==
    ASSUME NEW shape, NEW v, NEW q, FieldHolds(shape, TRUE, v, q)
    PROVE  q = v /\ v \in ValuesOf(shape) /\ (shape = "child" => v # <<>>)
BY DEF FieldHolds

\* Each write of _InternalSerialize is the encoding of the field it names.
LEMMA WrittenIs ==
    ASSUME type \in MessageTypes, NEW i \in DOMAIN Declared, NEW o, NEW p, Holds(type, o, p)
    PROVE  Written(o, SerializeOf[type][i]) = FieldEncoding(Declared[i], p[Declared[i].name])
<1> DEFINE d == Declared[i]
           f == d.name
           s == ShapeIn(type, f)
           w == SerializeOf[type][i]
           q == p[f]
           v == o.val[f]
           set == BitIn(type, f) \in o.bits
<1>1. w.name = f /\ w.number = d.number /\ w.bit = BitIn(type, f) /\ w.format = WireFormat(d)
  <2>1. w = Write(f, d.number, BitIn(type, f), WireFormat(d))
    BY DeclaredSound DEF DeclarationSound
  <2> HIDE DEF w, f, d
  <2> QED
    BY <2>1 DEF Write
<1>2. /\ f \in Fields(type) /\ s \in {"scalar", "text", "child", "list"}
      /\ Kind(d) = CASE s = "child" -> "child" [] s = "list" -> "list" [] OTHER -> "value"
  BY DeclaredSound
<1>3. FieldHolds(s, set, v, q)
  BY <1>2 DEF Holds
<1>4. CASE ~set
  <2>1. Written(o, w) = <<>>
    BY <1>1, <1>4 DEF Written
  <2>2. q = EmptyOf(s)
    <3>1. set = FALSE
      BY <1>4
    <3> HIDE DEF set, v, q, s
    <3> QED
      BY <1>3, <3>1, UnsetHolds
  <2> HIDE DEF q
  <2>3. FieldEncoding(d, q) = <<>>
    <3>1. CASE s \in {"scalar", "text"}
      BY <2>2, <3>1, FieldEncodingIs DEF EmptyOf
    <3>2. CASE s = "child"
      BY <2>2, <3>2, FieldEncodingIs DEF EmptyOf
    <3>3. CASE s = "list"
      <4>1. q = <<>>
        BY <2>2, <3>3 DEF EmptyOf
      <4> QED
        BY <3>3, <4>1, FieldEncodingIs, NoElementUnits
    <3> QED
      BY <1>2, <3>1, <3>2, <3>3
  <2> QED
    BY <2>1, <2>3 DEF q
<1>5. CASE set
  <2>1. q = v
    <3>1. set = TRUE
      BY <1>5
    <3> HIDE DEF set, v, q, s
    <3> QED
      BY <1>3, <3>1, SetHolds
  <2>2. w.bit \in o.bits
    BY <1>1, <1>5
  <2> HIDE DEF q
  <2> DEFINE e == FieldEncoding(d, q)
  <2> SUFFICES Written(o, w) = e
    BY DEF q
  <2>3. CASE s \in {"scalar", "text"}
    <3>1. w.format \notin {"Message", "RepMessage", "UInt64Packed"}
      BY <1>1, <1>2, <2>3, WireFormatIs
    <3>2. Written(o, w) = IF v = 0 THEN <<>> ELSE <<Unit(d.number, WireFormat(d), <<v>>)>>
      BY <1>1, <2>2, <3>1 DEF Written
    <3>3. e = IF q = 0 THEN <<>> ELSE <<Unit(d.number, WireFormat(d), <<q>>)>>
      BY <2>3, FieldEncodingIs
    <3> HIDE DEF e, v, w, d
    <3> QED
      BY <2>1, <3>2, <3>3
  <2>4. CASE s = "child"
    <3>1. w.format = "Message"
      BY <1>1, <1>2, <2>4, WireFormatIs
    <3>2. Written(o, w) = <<Unit(d.number, "Message", v)>>
      BY <1>1, <2>2, <3>1 DEF Written
    <3>3. q # <<>>
      BY <1>3, <1>5, <2>1, <2>4 DEF FieldHolds
    <3>4. e = IF q = <<>> THEN <<>> ELSE <<Unit(d.number, "Message", q)>>
      BY <2>4, FieldEncodingIs
    <3> HIDE DEF e, v, w, d
    <3> QED
      BY <2>1, <3>2, <3>3, <3>4
  <2>5. CASE s = "list" /\ d.ty \in MessageTypes
    <3>1. w.format = "RepMessage"
      BY <1>1, <1>2, <2>5, WireFormatIs
    <3>2. Written(o, w) = ListUnits(d.number, v)
      BY <1>1, <2>2, <3>1 DEF Written, ListUnits
    <3>3. e = ListUnits(d.number, q)
      BY <2>5, FieldEncodingIs
    <3> HIDE DEF e, v, w, d
    <3> QED
      BY <2>1, <3>2, <3>3
  <2>6. CASE s = "list" /\ d.ty \notin MessageTypes
    <3>1. w.format = "UInt64Packed"
      BY <1>1, <1>2, <2>6, WireFormatIs
    <3>2. Written(o, w) = IF v = <<>> THEN <<>> ELSE <<Unit(d.number, "UInt64Packed", v)>>
      BY <1>1, <2>2, <3>1 DEF Written
    <3>3. e = IF q = <<>> THEN <<>> ELSE <<Unit(d.number, "UInt64Packed", q)>>
      BY <2>6, FieldEncodingIs
    <3> HIDE DEF e, v, w, d
    <3> QED
      BY <2>1, <3>2, <3>3
  <2> HIDE DEF e, v, w, d, s
  <2> QED
    BY <1>2, <2>3, <2>4, <2>5, <2>6
<1> QED
  BY <1>4, <1>5

\* So the object is written as the message it holds.
LEMMA SerializeIs ==
    ASSUME type \in MessageTypes, NEW o, NEW p, Holds(type, o, p)
    PROVE  Serialize(o) = Encoding(p)
<1>1. DOMAIN SerializeOf[type] = DOMAIN Declared
  BY EveryClassSound DEF ClassSound, Listed, Declared
<1>2. \A i \in DOMAIN Declared :
        Written(o, SerializeOf[type][i]) = FieldEncoding(Declared[i], p[Declared[i].name])
  BY WrittenIs
<1>3. [i \in DOMAIN SerializeOf[type] |-> Written(o, SerializeOf[type][i])]
      = [i \in DOMAIN Declared |-> FieldEncoding(Declared[i], p[Declared[i].name])]
  BY <1>1, <1>2
<1> QED
  BY <1>3, Zenon DEF Serialize, Encoding

\* The elements of a list of messages: two bytes each, and their contents.
ElementUnits(number) == {Unit(number, "Message", <<z>>) : z \in Nat}

LEMMA ListSize ==
    ASSUME NEW number, NEW v \in Seq(Nat)
    PROVE  /\ ListUnits(number, v) \in Seq(ElementUnits(number))
           /\ SizeOf(ListUnits(number, v)) = FieldSize(v, "RepMessage")
           /\ FieldSize(v, "RepMessage") \in Int
<1> DEFINE n == Len(v)
           D == DOMAIN v
           h == [i \in D |-> 2 * v[i]]
           Rule(F) == F = [s \in SUBSET D |-> IF s = {} THEN 0 ELSE 2 * v[First(s)] + F[s \ {First(s)}]]
           f == CHOOSE F : Rule(F)
           units == ListUnits(number, v)
           U == ElementUnits(number)
<1>1. FieldSize(v, "RepMessage") = 2 * n + f[D]
  BY DEF FieldSize, MapThenSumSet, MapThenFoldSet, First
<1>2. n \in Nat /\ D = 1..n /\ \A i \in 1..n : v[i] \in Nat
  OBVIOUS
<1>3. /\ units = [i \in 1..n |-> units[i]]
      /\ \A i \in 1..n : units[i] = Unit(number, "Message", <<v[i]>>) /\ units[i] \in U
  BY <1>2 DEF ListUnits, ElementUnits
<1>4. \A i \in 1..n : UnitSize(units[i]) = 2 + 2 * v[i]
  BY <1>3 DEF UnitSize, Unit
<1>5. \A u \in U : UnitSize(u) \in Nat
  BY DEF UnitSize, Unit, ElementUnits
<1> HIDE DEF n, units, U
<1>6. units \in Seq(U) /\ Len(units) = n
  BY <1>2, <1>3, TabulatedSeq
<1>7. \A i \in D : h[i] = 2 * v[i] /\ h[i] \in Int
  BY <1>2
<1> HIDE DEF D
<1>8. IsFiniteSet(D)
  BY <1>2, FS_Interval
<1>9. \A s \in SUBSET D : s # {} => h[First(s)] = 2 * v[First(s)]
  BY <1>7 DEF First
<1> HIDE DEF h
<1>10. Rule(f)
  <2>1. PICK F : SumRule(F, h, D)
    BY <1>8, SumsExist
  <2>2. Rule(F)
    <3>1. \A s \in SUBSET D : F[s] = IF s = {} THEN 0 ELSE 2 * v[First(s)] + F[s \ {First(s)}]
      BY <1>9, <2>1 DEF SumRule
    <3>2. F = [s \in SUBSET D |-> F[s]]
      BY <2>1 DEF SumRule
    <3> QED
      BY <3>1, <3>2
  <2> HIDE DEF Rule
  <2> QED
    BY <2>2
<1>11. Sums(f, h, D)
  <2> HIDE DEF f
  <2>1. \A s \in SUBSET D : f[s] = IF s = {} THEN 0 ELSE 2 * v[First(s)] + f[s \ {First(s)}]
    BY <1>10
  <2> QED
    BY <1>9, <2>1 DEF Sums
<1> HIDE DEF f
<1> DEFINE e == [i \in 0..n |-> f[1..i]]
<1>12. AddsUp(e, h, n)
  BY <1>2, <1>7, <1>11, SumInOrder
<1>13. e[n] = f[D]
  BY <1>2
<1> HIDE DEF e
<1>14. /\ e[0] = 0
       /\ \A i \in 1..n : e[i] \in Int /\ e[i] = e[i - 1] + 2 * v[i]
  BY <1>2, <1>7, <1>12 DEF AddsUp
<1>15. \A i \in 0..n : e[i] \in Int
  <2>1. \A i \in 0..n : i = 0 \/ i \in 1..n
    BY <1>2
  <2> QED
    BY <1>14, <2>1
<1> DEFINE g == [i \in 0..n |-> 2 * i + e[i]]
<1>16. g[0] = 0 /\ g[n] = 2 * n + e[n]
  BY <1>2, <1>14
<1>17. ASSUME NEW i \in 1..n PROVE g[i] \in Int /\ g[i] = g[i - 1] + UnitSize(units[i])
  <2>1. i \in 0..n /\ i - 1 \in 0..n /\ i \in Int
    BY <1>2
  <2>2. g[i] = 2 * i + e[i] /\ g[i - 1] = 2 * (i - 1) + e[i - 1]
    BY <2>1
  <2> DEFINE x == e[i]
             y == e[i - 1]
             z == v[i]
  <2>3. x \in Int /\ y \in Int /\ z \in Int /\ x = y + 2 * z /\ UnitSize(units[i]) = 2 + 2 * z
    BY <1>2, <1>4, <1>14, <1>15, <2>1
  <2>4. g[i] = 2 * i + x /\ g[i - 1] = 2 * (i - 1) + y
    BY <2>2
  <2> HIDE DEF x, y, z, g
  <2> QED
    BY <2>1, <2>3, <2>4
<1> HIDE DEF g
<1>18. Measures(g, units)
  BY <1>6, <1>16, <1>17 DEF Measures
<1>19. SizeOf(units) = g[n]
  BY <1>5, <1>6, <1>18, SizesTo
<1>20. SizeOf(units) = FieldSize(v, "RepMessage") /\ FieldSize(v, "RepMessage") \in Int
  <2>1. e[n] \in Int /\ n \in Int
    BY <1>2, <1>15
  <2> QED
    BY <1>1, <1>13, <1>16, <1>19, <2>1
<1> QED
  BY <1>6, <1>20 DEF units, U

\* A unit with a value of its field has a size, of which ByteSizeLong knows.
LEMMA UnitMeasured ==
    ASSUME NEW number, NEW v
    PROVE  /\ \A format : format \notin {"Message", "RepMessage", "UInt64Packed"} /\ v # 0 =>
                /\ UnitSize(Unit(number, format, <<v>>)) = FieldSize(v, format)
                /\ FieldSize(v, format) \in Nat
           /\ \A n \in Nat : v = <<n>> =>
                /\ UnitSize(Unit(number, "Message", v)) = FieldSize(v, "Message")
                /\ FieldSize(v, "Message") \in Nat
           /\ v \in Seq(Nat) /\ v # <<>> =>
                /\ UnitSize(Unit(number, "UInt64Packed", v)) = FieldSize(v, "UInt64Packed")
                /\ FieldSize(v, "UInt64Packed") \in Nat
<1>1. ASSUME NEW format, format \notin {"Message", "RepMessage", "UInt64Packed"}, v # 0
      PROVE  /\ UnitSize(Unit(number, format, <<v>>)) = FieldSize(v, format)
             /\ FieldSize(v, format) \in Nat
  BY <1>1 DEF UnitSize, Unit, FieldSize
<1>2. ASSUME NEW n \in Nat, v = <<n>>
      PROVE  /\ UnitSize(Unit(number, "Message", v)) = FieldSize(v, "Message")
             /\ FieldSize(v, "Message") \in Nat
  <2>1. v[1] = n
    BY <1>2
  <2>2. UnitSize(Unit(number, "Message", v)) = 2 + 2 * v[1] /\ FieldSize(v, "Message") = 2 + 2 * v[1]
    BY DEF UnitSize, Unit, FieldSize
  <2> QED
    BY <2>1, <2>2
<1>3. ASSUME v \in Seq(Nat), v # <<>>
      PROVE  /\ UnitSize(Unit(number, "UInt64Packed", v)) = FieldSize(v, "UInt64Packed")
             /\ FieldSize(v, "UInt64Packed") \in Nat
  <2>1. Len(v) \in Nat
    BY <1>3
  <2>2. UnitSize(Unit(number, "UInt64Packed", v)) = 2 + Len(v)
    BY DEF UnitSize, Unit
  <2>3. FieldSize(v, "UInt64Packed") = 2 + Len(v)
    BY <1>3 DEF FieldSize
  <2> QED
    BY <2>1, <2>2, <2>3
<1> QED
  BY <1>1, <1>2, <1>3

\* What is written for a field has the size ByteSizeLong adds for it.
LEMMA FieldMeasured ==
    ASSUME type \in MessageTypes, NEW i \in DOMAIN Declared, NEW set \in BOOLEAN, NEW v, NEW q,
           FieldHolds(ShapeIn(type, Declared[i].name), set, v, q)
    PROVE  LET d == Declared[i]
               size == FieldSize(v, WireFormat(d))
           IN  /\ FieldEncoding(d, q) \in Seq(Measured(type))
               /\ SizeOf(FieldEncoding(d, q)) = IF set THEN size ELSE 0
               /\ set => size \in Int
<1> DEFINE d == Declared[i]
           s == ShapeIn(type, d.name)
           size == FieldSize(v, WireFormat(d))
           e == FieldEncoding(d, q)
           M == Measured(type)
           Fits(x) == x \in Seq(M) /\ SizeOf(x) = size /\ size \in Int
<1>1. /\ s \in {"scalar", "text", "child", "list"}
      /\ Kind(d) = CASE s = "child" -> "child" [] s = "list" -> "list" [] OTHER -> "value"
  BY DeclaredSound
<1>2. q \in ValuesOf(s) /\ e \in Seq(UnitsOf(type))
  <2>1. q \in ValuesOf(s)
    BY DEF FieldHolds, ValuesOf
  <2> QED
    BY <2>1, FieldUnits
<1>3. FieldHolds(s, set, v, q)
  OBVIOUS
<1>4. SizeOf(<<>>) = 0 /\ <<>> \in Seq(M)
  BY SizeNone
<1>5. ASSUME NEW u, e = <<u>>, UnitSize(u) \in Nat
      PROVE  e \in Seq(M) /\ SizeOf(e) = UnitSize(u)
  <2> HIDE DEF e, M
  <2>1. <<u>> \in Seq(UnitsOf(type))
    BY <1>2, <1>5
  <2>2. u \in UnitsOf(type)
    BY <2>1
  <2>3. u \in M
    BY <1>5, <2>2 DEF Measured, M
  <2> QED
    BY <1>5, <2>3, SizeOne
<1> HIDE DEF s, size, M
<1>6. CASE ~set
  <2>1. q = EmptyOf(s)
    <3>1. set = FALSE
      BY <1>6
    <3> QED
      BY <1>3, <3>1, UnsetHolds
  <2>2. e = <<>>
    <3>1. CASE s \in {"scalar", "text"}
      BY <2>1, <3>1, FieldEncodingIs DEF EmptyOf, s
    <3>2. CASE s = "child"
      BY <2>1, <3>2, FieldEncodingIs DEF EmptyOf, s
    <3>3. CASE s = "list"
      <4>1. q = <<>>
        BY <2>1, <3>3 DEF EmptyOf
      <4> QED
        BY <3>3, <4>1, FieldEncodingIs, NoElementUnits DEF s
    <3> QED
      BY <1>1, <3>1, <3>2, <3>3
  <2> HIDE DEF e
  <2> QED
    BY <1>4, <1>6, <2>2 DEF e, M
<1>7. CASE set
  <2> SUFFICES Fits(e)
    BY <1>7 DEF M, size
  <2>1. q = v /\ v \in ValuesOf(s) /\ (s = "child" => v # <<>>)
    <3>1. set = TRUE
      BY <1>7
    <3> QED
      BY <1>3, <3>1, SetHolds
  <2>2. ASSUME NEW u, e = <<u>>, UnitSize(u) = size, size \in Nat PROVE Fits(e)
    <3> HIDE DEF e
    <3> QED
      BY <1>5, <2>2
  <2>3. ASSUME e = <<>>, size = 0 PROVE Fits(e)
    <3> HIDE DEF e
    <3> QED
      BY <1>4, <2>3
  <2> HIDE DEF Fits
  <2>4. CASE s \in {"scalar", "text"}
    <3> DEFINE u == Unit(d.number, WireFormat(d), <<v>>)
    <3>1. e = IF v = 0 THEN <<>> ELSE <<u>>
      BY <2>1, <2>4, FieldEncodingIs DEF s
    <3>2. WireFormat(d) \notin {"Message", "RepMessage", "UInt64Packed"}
      BY <1>1, <2>4, WireFormatIs
    <3> HIDE DEF e, d
    <3>3. CASE v = 0
      <4>1. size = 0
        BY <3>2, <3>3 DEF size, FieldSize
      <4> QED
        BY <2>3, <3>1, <3>3, <4>1
    <3>4. CASE v # 0
      <4>1. UnitSize(u) = size /\ size \in Nat
        BY <3>2, <3>4, UnitMeasured DEF size
      <4> HIDE DEF u
      <4> QED
        BY <2>2, <3>1, <3>4, <4>1
    <3> QED
      BY <3>3, <3>4
  <2>5. CASE s = "child"
    <3> DEFINE u == Unit(d.number, "Message", v)
    <3>1. e = IF v = <<>> THEN <<>> ELSE <<u>>
      BY <2>1, <2>5, FieldEncodingIs DEF s
    <3>2. WireFormat(d) = "Message"
      BY <1>1, <2>5, WireFormatIs
    <3>3. v # <<>> /\ \E n \in Nat : v = <<n>>
      BY <2>1, <2>5 DEF ValuesOf
    <3> HIDE DEF e, d
    <3>4. UnitSize(u) = size /\ size \in Nat
      BY <3>2, <3>3, UnitMeasured DEF size
    <3> HIDE DEF u
    <3> QED
      BY <2>2, <3>1, <3>3, <3>4
  <2>6. CASE s = "list" /\ d.ty \in MessageTypes
    <3>1. e = ListUnits(d.number, v)
      BY <2>1, <2>6, FieldEncodingIs DEF s
    <3>2. size = FieldSize(v, "RepMessage")
      BY <1>1, <2>6, WireFormatIs DEF size
    <3>3. v \in Seq(Nat)
      BY <2>1, <2>6 DEF ValuesOf
    <3>4. \A z \in Nat : Unit(d.number, "Message", <<z>>) \in M
      BY DEF Unit, UnitsOf, Declared, Measured, M, UnitSize
    <3> HIDE DEF e, d
    <3>5. ElementUnits(d.number) \subseteq M
      BY <3>4 DEF ElementUnits
    <3>6. e \in Seq(ElementUnits(d.number)) /\ SizeOf(e) = size /\ size \in Int
      BY <3>1, <3>2, <3>3, ListSize
    <3> QED
      BY <3>5, <3>6 DEF Fits
  <2>7. CASE s = "list" /\ d.ty \notin MessageTypes
    <3> DEFINE u == Unit(d.number, "UInt64Packed", v)
    <3>1. e = IF v = <<>> THEN <<>> ELSE <<u>>
      BY <2>1, <2>7, FieldEncodingIs DEF s
    <3>2. size = FieldSize(v, "UInt64Packed")
      BY <1>1, <2>7, WireFormatIs DEF size
    <3>3. v \in Seq(Nat)
      BY <2>1, <2>7 DEF ValuesOf
    <3> HIDE DEF e, d
    <3>4. CASE v = <<>>
      <4>1. size = 0
        BY <3>2, <3>4 DEF FieldSize
      <4> QED
        BY <2>3, <3>1, <3>4, <4>1
    <3>5. CASE v # <<>>
      <4>1. UnitSize(u) = size /\ size \in Nat
        BY <3>2, <3>3, <3>5, UnitMeasured
      <4> HIDE DEF u
      <4> QED
        BY <2>2, <3>1, <3>5, <4>1
    <3> QED
      BY <3>4, <3>5
  <2> QED
    BY <1>1, <2>4, <2>5, <2>6, <2>7
<1> QED
  BY <1>6, <1>7

\* A sum over a class's fields can be taken one declared field at a time.
LEMMA FieldsFinite == ASSUME type \in MessageTypes PROVE IsFiniteSet(Fields(type))
<1> DEFINE n == Len(Declared)
           S == Fields(type)
           m == [i \in 1..n |-> Declared[i].name]
<1>1. n \in Nat /\ S = {Declared[i].name : i \in 1..n}
  BY EveryClassSound DEF ClassSound, Listed, Declared
<1> HIDE DEF n, S
<1>2. m \in Surjection(1..n, S)
  BY <1>1 DEF Surjection
<1>3. IsFiniteSet(1..n)
  BY <1>1, FS_Interval
<1> HIDE DEF m
<1>4. IsFiniteSet(S)
  BY <1>2, <1>3, FS_Surjection
<1> QED
  BY <1>4 DEF S

\* The sizes ByteSizeLong adds up are those of the fields whose has-bit is set.
LEMMA ByteSizeIs ==
    ASSUME type \in MessageTypes, NEW o, NEW p, Holds(type, o, p)
    PROVE  LET S == {f \in Fields(type) : BitIn(type, f) \in o.bits}
               h == [f \in S |-> FieldSize(o.val[f], ByteSizeOf[type][f].format)]
           IN  \E F : Totals(F, h, S) /\ ByteSizeLong(o) = F[S]
<1> DEFINE S == {f \in Fields(type) : BitIn(type, f) \in o.bits}
           Z(f) == FieldSize(o.val[f], ByteSizeOf[type][f].format)
           h == [f \in S |-> Z(f)]
           C == {f \in DOMAIN ByteSizeOf[type] : ByteSizeOf[type][f].bit \in o.bits}
           Rule(F) == F = [s \in SUBSET C |-> IF s = {} THEN 0 ELSE Z(First(s)) + F[s \ {First(s)}]]
           G == CHOOSE F : Rule(F)
<1>1. ByteSizeLong(o) = G[C]
  BY DEF ByteSizeLong, MapThenSumSet, MapThenFoldSet, First
<1>2. \A f \in Fields(type) : \E i \in DOMAIN Declared : Declared[i].name = f
  BY EveryClassSound DEF ClassSound, Listed, Declared
<1>3. \A f \in Fields(type) : \E i \in DOMAIN Declared :
        Declared[i].name = f /\ ByteSizeOf[type][f] = Size(BitIn(type, f), WireFormat(Declared[i]))
  BY <1>2, DeclaredSound DEF DeclarationSound
<1>4. C = S
  <2>1. DOMAIN ByteSizeOf[type] = Fields(type)
    BY EveryClassSound DEF ClassSound, Listed
  <2>2. ASSUME NEW f \in Fields(type) PROVE ByteSizeOf[type][f].bit = BitIn(type, f)
    <3>1. PICK i \in DOMAIN Declared : ByteSizeOf[type][f] = Size(BitIn(type, f), WireFormat(Declared[i]))
      BY <1>3
    <3> QED
      BY <3>1 DEF Size
  <2> QED
    BY <2>1, <2>2
<1>5. \A f \in S : Z(f) \in Int
  <2> SUFFICES ASSUME NEW f \in S PROVE Z(f) \in Int
    OBVIOUS
  <2>1. PICK i \in DOMAIN Declared :
          Declared[i].name = f /\ ByteSizeOf[type][f] = Size(BitIn(type, f), WireFormat(Declared[i]))
    BY <1>3
  <2>2. ByteSizeOf[type][f].format = WireFormat(Declared[i])
    BY <2>1 DEF Size
  <2>3. FieldHolds(ShapeIn(type, Declared[i].name), TRUE, o.val[f], p[f])
    <3>1. (BitIn(type, f) \in o.bits) = TRUE
      OBVIOUS
    <3>2. FieldHolds(ShapeIn(type, f), BitIn(type, f) \in o.bits, o.val[f], p[f])
      BY DEF Holds
    <3> QED
      BY <2>1, <3>1, <3>2
  <2>4. FieldSize(o.val[f], WireFormat(Declared[i])) \in Int
    BY <2>3, FieldMeasured
  <2> QED
    BY <2>2, <2>4
<1>6. IsFiniteSet(S)
  <2>1. S \subseteq Fields(type)
    OBVIOUS
  <2> HIDE DEF S
  <2> QED
    BY <2>1, FieldsFinite, FS_Subset
<1> HIDE DEF C, S, Z
<1>7. \A f \in S : h[f] = Z(f) /\ h[f] \in Int
  BY <1>5
<1>8. \A s \in SUBSET C : s # {} => h[First(s)] = Z(First(s))
  BY <1>4, <1>7 DEF First
<1> HIDE DEF h
<1>9. Rule(G)
  <2>1. PICK F : SumRule(F, h, S)
    BY <1>6, SumsExist
  <2>2. Rule(F)
    <3>1. \A s \in SUBSET C : F[s] = IF s = {} THEN 0 ELSE Z(First(s)) + F[s \ {First(s)}]
      BY <1>4, <1>8, <2>1 DEF SumRule
    <3>2. F = [s \in SUBSET C |-> F[s]]
      BY <1>4, <2>1 DEF SumRule
    <3> QED
      BY <3>1, <3>2
  <2> HIDE DEF Rule
  <2> QED
    BY <2>2
<1>10. Totals(G, h, S)
  <2> HIDE DEF G
  <2>1. \A s \in SUBSET C : G[s] = IF s = {} THEN 0 ELSE Z(First(s)) + G[s \ {First(s)}]
    BY <1>9
  <2> QED
    BY <1>4, <1>6, <1>7, <1>8, <2>1 DEF Totals, Sums
<1> HIDE DEF G
<1>11. \E F : Totals(F, h, S) /\ ByteSizeLong(o) = F[S]
  BY <1>1, <1>4, <1>10
<1> QED
  BY <1>11 DEF h, S, Z

\* What game.proto prescribes for the message has the size announced for the object.
LEMMA EncodingSize ==
    ASSUME type \in MessageTypes, NEW o, NEW p, Holds(type, o, p)
    PROVE  SizeOf(Encoding(p)) = ByteSizeLong(o)
<1> DEFINE n == Len(Declared)
           s == [i \in DOMAIN Declared |-> FieldEncoding(Declared[i], p[Declared[i].name])]
           U == Measured(type)
           S == {f \in Fields(type) : BitIn(type, f) \in o.bits}
           h == [f \in S |-> FieldSize(o.val[f], ByteSizeOf[type][f].format)]
<1>1. /\ DOMAIN Declared = 1..n /\ n \in Nat
      /\ Fields(type) = {Declared[i].name : i \in 1..n}
      /\ \A i, j \in 1..n : Declared[i].name = Declared[j].name => i = j
  BY EveryClassSound DEF ClassSound, Listed, Declared
<1>2. PICK F : Totals(F, h, S) /\ ByteSizeLong(o) = F[S]
  BY ByteSizeIs
<1> HIDE DEF n
<1>3. ASSUME NEW i \in 1..n
      PROVE  LET f == Declared[i].name
             IN  /\ s[i] \in Seq(U) /\ f \in Fields(type)
                 /\ f \in S => SizeOf(s[i]) = h[f]
                 /\ f \notin S => SizeOf(s[i]) = 0
  <2> DEFINE d == Declared[i]
             f == Declared[i].name
             set == BitIn(type, f) \in o.bits
             v == o.val[f]
             q == p[f]
             size == FieldSize(v, WireFormat(d))
  <2>1. i \in DOMAIN Declared /\ f \in Fields(type)
    BY <1>1
  <2>2. FieldHolds(ShapeIn(type, f), set, v, q) /\ set \in BOOLEAN
    BY <2>1 DEF Holds
  <2>3. s[i] = FieldEncoding(d, q)
    BY <2>1
  <2>4. f \in S => set = TRUE /\ h[f] = size
    <3> SUFFICES ASSUME f \in S PROVE set = TRUE /\ h[f] = size
      OBVIOUS
    <3>1. set = TRUE
      OBVIOUS
    <3>2. ByteSizeOf[type][f].format = WireFormat(d)
      <4>1. ByteSizeOf[type][f] = Size(BitIn(type, f), WireFormat(d))
        BY <2>1, DeclaredSound DEF DeclarationSound
      <4> QED
        BY <4>1 DEF Size
    <3> QED
      BY <3>1, <3>2
  <2>5. f \notin S => set = FALSE
    BY <2>1
  <2> HIDE DEF set, v, q, S, h, s, size, U
  <2>6. /\ FieldEncoding(d, q) \in Seq(U)
        /\ SizeOf(FieldEncoding(d, q)) = IF set THEN size ELSE 0
    BY <2>1, <2>2, FieldMeasured DEF U, size
  <2> QED
    BY <2>1, <2>3, <2>4, <2>5, <2>6
<1>4. DOMAIN s = 1..n /\ Len(s) = n /\ s = [i \in 1..n |-> s[i]]
  BY <1>1
<1>5. Encoding(p) = FlattenSeq(s)
  BY DEF Encoding
<1>6. \A u \in U : UnitSize(u) \in Nat
  BY DEF Measured
<1> HIDE DEF s, U, S, h
<1>7. PICK g : Builds(g, s, n)
  BY <1>1, <1>3, <1>4, FlattenInOrder
<1>8. /\ g[0] = <<>>
      /\ \A i \in 1..n : g[i] = g[i - 1] \o s[i]
      /\ FlattenSeq(s) = g[n]
  BY <1>7 DEF Builds
<1> DEFINE Hit(k) == {f \in S : \E j \in 1..k : Declared[j].name = f}
           Adds(k) == g[k] \in Seq(U) /\ SizeOf(g[k]) = F[Hit(k)]
           T == {k \in Nat : k <= n => Adds(k)}
<1>9. Adds(0)
  <2>1. Hit(0) = {}
    OBVIOUS
  <2>2. F[{}] = 0
    BY <1>2 DEF Totals, Sums
  <2>3. <<>> \in Seq(U)
    OBVIOUS
  <2> HIDE DEF Hit
  <2> QED
    BY <1>8, <2>1, <2>2, <2>3, SizeNone
<1>10. ASSUME NEW k \in Nat, k + 1 <= n, Adds(k) PROVE Adds(k + 1)
  <2> DEFINE i == k + 1
             f == Declared[k + 1].name
             x == g[k]
             y == s[i]
  <2>1. i \in 1..n /\ i - 1 = k
    BY <1>1, <1>10
  <2>2. g[i] = x \o y
    BY <1>8, <2>1
  <2>3. x \in Seq(U) /\ y \in Seq(U) /\ (f \in S => SizeOf(y) = h[f]) /\ (f \notin S => SizeOf(y) = 0)
    BY <1>3, <1>10, <2>1
  <2>4. f \notin Hit(k) /\ Hit(i) = Hit(k) \cup (S \cap {f})
    <3>1. \A j \in 1..k : j \in 1..n /\ j # i
      BY <1>1, <1>10
    <3>2. f \notin Hit(k)
      BY <1>1, <2>1, <3>1
    <3>3. 1..i = (1..k) \cup {i}
      OBVIOUS
    <3> QED
      BY <3>2, <3>3
  <2>5. SizeOf(x) = F[Hit(k)] /\ Hit(k) \in SUBSET S /\ Hit(i) \in SUBSET S
    BY <1>10
  <2> HIDE DEF Hit, i, f, x, y
  <2>6. g[i] \in Seq(U) /\ SizeOf(x) \in Int /\ SizeOf(g[i]) = SizeOf(x) + SizeOf(y)
    <3>1. SizeOf(x) \in Int /\ SizeOf(x \o y) = SizeOf(x) + SizeOf(y)
      BY <1>6, <2>3, SizeCat
    <3>2. x \o y \in Seq(U)
      BY <2>3
    <3> QED
      BY <2>2, <3>1, <3>2
  <2>7. CASE f \in S
    <3>1. f \in Hit(i) /\ Hit(i) \ {f} = Hit(k)
      BY <2>4, <2>7
    <3>2. F[Hit(i)] = h[f] + F[Hit(i) \ {f}]
      <4> DEFINE H == Hit(i)
      <4>1. H \in SUBSET S /\ Totals(F, h, S) /\ f \in H
        BY <1>2, <2>5, <3>1
      <4> HIDE DEF H
      <4>2. \A z \in H : F[H] = h[z] + F[H \ {z}]
        BY <4>1, SumStep
      <4> QED
        BY <4>1, <4>2 DEF H
    <3>3. h[f] \in Int
      BY <1>2, <2>7 DEF Totals
    <3>4. F[Hit(i)] = h[f] + SizeOf(x)
      BY <2>5, <3>1, <3>2
    <3> QED
      BY <2>3, <2>6, <2>7, <3>3, <3>4 DEF i
  <2>8. CASE f \notin S
    <3>1. Hit(i) = Hit(k)
      BY <2>4, <2>8
    <3>2. F[Hit(i)] = SizeOf(x) /\ SizeOf(y) = 0
      BY <2>3, <2>5, <2>8, <3>1
    <3> QED
      BY <2>6, <3>2 DEF i
  <2> QED
    BY <2>7, <2>8
<1>11. n \in T
  <2> HIDE DEF Adds
  <2>1. 0 \in T
    BY <1>9
  <2>2. ASSUME NEW k \in Nat, k \in T PROVE k + 1 \in T
    <3> SUFFICES ASSUME k + 1 <= n PROVE Adds(k + 1)
      OBVIOUS
    <3>1. k <= n
      BY <1>1
    <3>2. Adds(k)
      BY <2>2, <3>1
    <3> QED
      BY <1>10, <3>2
  <2> HIDE DEF T
  <2> QED
    BY <1>1, <2>1, <2>2, NatSetInduction
<1>12. SizeOf(g[n]) = F[Hit(n)]
  <2> HIDE DEF Hit
  <2> QED
    BY <1>1, <1>11
<1>13. Hit(n) = S
  BY <1>1 DEF S
<1> HIDE DEF Hit
<1>14. Encoding(p) = g[n]
  BY <1>5, <1>8
<1> QED
  BY <1>2, <1>12, <1>13, <1>14

\* MakePacketFromProto sends what game.proto prescribes, of the size
\* ByteSizeLong announced, and only if that fits: whatever the class, the
\* fields that are set and the lengths of lists.
THEOREM SentExactly == Spec => []SentAsDeclared
<1>1. ObjectInv => SentAsDeclared
  <2> SUFFICES ASSUME ObjectInv PROVE SentAsDeclared
    OBVIOUS
  <2>1. type \in MessageTypes /\ Holds(type, this, plain)
    BY DEF ObjectInv
  <2>2. Serialize(this) = Encoding(plain)
    BY <2>1, SerializeIs
  <2>3. SizeOf(Encoding(plain)) = ByteSizeLong(this)
    BY <2>1, EncodingSize
  <2> QED
    BY <2>2, <2>3 DEF SentAsDeclared, MakePacketFromProto
<1>2. Init => ObjectInv
  BY InitHolds
<1>3. ObjectInv /\ [Next]_vars => ObjectInv'
  BY NextHolds
<1> QED
  BY <1>1, <1>2, <1>3, PTL DEF Spec
=============================================================================
