--------------------------- MODULE MessageWire ---------------------------
(* src/ServerCore/game.pb.cc: the encoding of each message.  Of each class: the
   writes of _InternalSerialize in order, the sizes ByteSizeLong adds up, and
   the parse table that TcParser, library code, walks.  The fast entries of a
   table repeat its field entries for the first fields and are left out.     *)
EXTENDS Naturals

\* Write field `name' with this number as `format', if has-bit `bit' is set.
Write(name, number, bit, format) == [name |-> name, number |-> number, bit |-> bit, format |-> format]

\* Add the size of a field in this format, if has-bit `bit' is set.
Size(bit, format) == [bit |-> bit, format |-> format]

\* A field entry of the parse table: number, has-bit and kind.
Entry(number, bit, kind) == [number |-> number, bit |-> bit, kind |-> kind]

Vector2_Serialize == <<Write("x", 1, 0, "Float"), Write("y", 2, 1, "Float")>>

Vector2_ByteSize == [x |-> Size(0, "Float"), y |-> Size(1, "Float")]

Vector2_Table == [x |-> Entry(1, 0, "Float"), y |-> Entry(2, 1, "Float")]

StatInfo_Serialize ==
  << Write("hp", 1, 0, "Int32"), Write("max_hp", 2, 1, "Int32"), Write("mp", 3, 2, "Int32"),
     Write("max_mp", 4, 3, "Int32"), Write("attack", 5, 4, "Int32"), Write("defence", 6, 5, "Int32"),
     Write("speed", 7, 6, "Int32"), Write("level", 8, 7, "Int32"), Write("exp", 9, 8, "Int64"),
     Write("max_exp", 10, 9, "Int64")>>

StatInfo_ByteSize ==
  [ hp |-> Size(0, "Int32"), max_hp |-> Size(1, "Int32"), mp |-> Size(2, "Int32"),
    max_mp |-> Size(3, "Int32"), attack |-> Size(4, "Int32"), defence |-> Size(5, "Int32"),
    speed |-> Size(6, "Int32"), level |-> Size(7, "Int32"), exp |-> Size(8, "Int64"),
    max_exp |-> Size(9, "Int64")]

StatInfo_Table ==
  [ hp |-> Entry(1, 0, "Int32"), max_hp |-> Entry(2, 1, "Int32"), mp |-> Entry(3, 2, "Int32"),
    max_mp |-> Entry(4, 3, "Int32"), attack |-> Entry(5, 4, "Int32"), defence |-> Entry(6, 5, "Int32"),
    speed |-> Entry(7, 6, "Int32"), level |-> Entry(8, 7, "Int32"), exp |-> Entry(9, 8, "Int64"),
    max_exp |-> Entry(10, 9, "Int64")]

PlayerInfo_Serialize ==
  << Write("player_id", 1, 3, "UInt64"), Write("name", 2, 0, "String"), Write("position", 3, 1, "Message"),
     Write("dir", 4, 4, "Enum"), Write("stat", 5, 2, "Message"), Write("is_moving", 6, 5, "Bool"),
     Write("is_jumping", 7, 6, "Bool")>>

PlayerInfo_ByteSize ==
  [ name |-> Size(0, "String"), position |-> Size(1, "Message"), stat |-> Size(2, "Message"),
    player_id |-> Size(3, "UInt64"), dir |-> Size(4, "Enum"), is_moving |-> Size(5, "Bool"),
    is_jumping |-> Size(6, "Bool")]

PlayerInfo_Table ==
  [ player_id |-> Entry(1, 3, "UInt64"), name |-> Entry(2, 0, "Utf8String"),
    position |-> Entry(3, 1, "Message"), dir |-> Entry(4, 4, "OpenEnum"), stat |-> Entry(5, 2, "Message"),
    is_moving |-> Entry(6, 5, "Bool"), is_jumping |-> Entry(7, 6, "Bool")]

C_EnterGame_Serialize == <<Write("name", 1, 0, "String")>>

C_EnterGame_ByteSize == [name |-> Size(0, "String")]

C_EnterGame_Table == [name |-> Entry(1, 0, "Utf8String")]

S_EnterGame_Serialize ==
  << Write("success", 1, 2, "Bool"), Write("error", 2, 0, "String"), Write("my_info", 3, 1, "Message")>>

S_EnterGame_ByteSize ==
  [ error |-> Size(0, "String"), my_info |-> Size(1, "Message"), success |-> Size(2, "Bool")]

S_EnterGame_Table ==
  [ success |-> Entry(1, 2, "Bool"), error |-> Entry(2, 0, "Utf8String"), my_info |-> Entry(3, 1, "Message")]

S_Spawn_Serialize == <<Write("players", 1, 0, "RepMessage")>>

S_Spawn_ByteSize == [players |-> Size(0, "RepMessage")]

S_Spawn_Table == [players |-> Entry(1, 0, "RepeatedMessage")]

S_Despawn_Serialize == <<Write("player_ids", 1, 0, "UInt64Packed")>>

S_Despawn_ByteSize == [player_ids |-> Size(0, "UInt64Packed")]

S_Despawn_Table == [player_ids |-> Entry(1, 0, "RepeatedPackedUInt64")]

S_PlayerList_Serialize == <<Write("players", 1, 0, "RepMessage")>>

S_PlayerList_ByteSize == [players |-> Size(0, "RepMessage")]

S_PlayerList_Table == [players |-> Entry(1, 0, "RepeatedMessage")]

C_LadderState_Serialize ==
  << Write("on_ladder", 1, 0, "Bool"), Write("pos_x", 2, 1, "Float"), Write("pos_y", 3, 2, "Float"),
     Write("vel_x", 4, 3, "Float"), Write("vel_y", 5, 4, "Float")>>

C_LadderState_ByteSize ==
  [ on_ladder |-> Size(0, "Bool"), pos_x |-> Size(1, "Float"), pos_y |-> Size(2, "Float"),
    vel_x |-> Size(3, "Float"), vel_y |-> Size(4, "Float")]

C_LadderState_Table ==
  [ on_ladder |-> Entry(1, 0, "Bool"), pos_x |-> Entry(2, 1, "Float"), pos_y |-> Entry(3, 2, "Float"),
    vel_x |-> Entry(4, 3, "Float"), vel_y |-> Entry(5, 4, "Float")]

C_InputCmd_Serialize ==
  << Write("input_seq", 1, 0, "UInt32"), Write("delta_time", 2, 1, "Float"), Write("move_left", 3, 2, "Bool"),
     Write("move_right", 4, 3, "Bool"), Write("jump", 5, 4, "Bool"), Write("drop_through", 6, 5, "Bool"),
     Write("face_dir", 7, 6, "Enum"), Write("move_up", 8, 7, "Bool"), Write("move_down", 9, 8, "Bool")>>

C_InputCmd_ByteSize ==
  [ input_seq |-> Size(0, "UInt32"), delta_time |-> Size(1, "Float"), move_left |-> Size(2, "Bool"),
    move_right |-> Size(3, "Bool"), jump |-> Size(4, "Bool"), drop_through |-> Size(5, "Bool"),
    face_dir |-> Size(6, "Enum"), move_up |-> Size(7, "Bool"), move_down |-> Size(8, "Bool")]

C_InputCmd_Table ==
  [ input_seq |-> Entry(1, 0, "UInt32"), delta_time |-> Entry(2, 1, "Float"),
    move_left |-> Entry(3, 2, "Bool"), move_right |-> Entry(4, 3, "Bool"), jump |-> Entry(5, 4, "Bool"),
    drop_through |-> Entry(6, 5, "Bool"), face_dir |-> Entry(7, 6, "OpenEnum"),
    move_up |-> Entry(8, 7, "Bool"), move_down |-> Entry(9, 8, "Bool")]

S_PlayerState_Serialize ==
  << Write("player_id", 1, 2, "UInt64"), Write("last_processed_input_seq", 2, 3, "UInt32"),
     Write("position", 3, 0, "Message"), Write("velocity", 4, 1, "Message"),
     Write("is_grounded", 5, 5, "Bool"), Write("dir", 6, 4, "Enum"), Write("is_moving", 7, 6, "Bool"),
     Write("is_jumping", 8, 7, "Bool"), Write("is_on_ladder", 9, 8, "Bool")>>

S_PlayerState_ByteSize ==
  [ position |-> Size(0, "Message"), velocity |-> Size(1, "Message"), player_id |-> Size(2, "UInt64"),
    last_processed_input_seq |-> Size(3, "UInt32"), dir |-> Size(4, "Enum"), is_grounded |-> Size(5, "Bool"),
    is_moving |-> Size(6, "Bool"), is_jumping |-> Size(7, "Bool"), is_on_ladder |-> Size(8, "Bool")]

S_PlayerState_Table ==
  [ player_id |-> Entry(1, 2, "UInt64"), last_processed_input_seq |-> Entry(2, 3, "UInt32"),
    position |-> Entry(3, 0, "Message"), velocity |-> Entry(4, 1, "Message"),
    is_grounded |-> Entry(5, 5, "Bool"), dir |-> Entry(6, 4, "OpenEnum"), is_moving |-> Entry(7, 6, "Bool"),
    is_jumping |-> Entry(8, 7, "Bool"), is_on_ladder |-> Entry(9, 8, "Bool")]

S_BroadcastMove_Serialize ==
  << Write("player_id", 1, 2, "UInt64"), Write("position", 2, 0, "Message"),
     Write("velocity", 3, 1, "Message"), Write("dir", 4, 3, "Enum"), Write("is_grounded", 5, 4, "Bool"),
     Write("is_moving", 6, 5, "Bool"), Write("is_jumping", 7, 6, "Bool"),
     Write("server_tick", 8, 8, "UInt32"), Write("is_crouching", 9, 7, "Bool"),
     Write("is_on_ladder", 10, 9, "Bool")>>

S_BroadcastMove_ByteSize ==
  [ position |-> Size(0, "Message"), velocity |-> Size(1, "Message"), player_id |-> Size(2, "UInt64"),
    dir |-> Size(3, "Enum"), is_grounded |-> Size(4, "Bool"), is_moving |-> Size(5, "Bool"),
    is_jumping |-> Size(6, "Bool"), is_crouching |-> Size(7, "Bool"), server_tick |-> Size(8, "UInt32"),
    is_on_ladder |-> Size(9, "Bool")]

S_BroadcastMove_Table ==
  [ player_id |-> Entry(1, 2, "UInt64"), position |-> Entry(2, 0, "Message"),
    velocity |-> Entry(3, 1, "Message"), dir |-> Entry(4, 3, "OpenEnum"), is_grounded |-> Entry(5, 4, "Bool"),
    is_moving |-> Entry(6, 5, "Bool"), is_jumping |-> Entry(7, 6, "Bool"),
    server_tick |-> Entry(8, 8, "UInt32"), is_crouching |-> Entry(9, 7, "Bool"),
    is_on_ladder |-> Entry(10, 9, "Bool")]

C_Attack_Serialize ==
  << Write("input_seq", 1, 1, "UInt32"), Write("attack_type", 2, 2, "Enum"),
     Write("skill_id", 3, 3, "UInt32"), Write("aim_dir", 4, 0, "Message")>>

C_Attack_ByteSize ==
  [ aim_dir |-> Size(0, "Message"), input_seq |-> Size(1, "UInt32"), attack_type |-> Size(2, "Enum"),
    skill_id |-> Size(3, "UInt32")]

C_Attack_Table ==
  [ input_seq |-> Entry(1, 1, "UInt32"), attack_type |-> Entry(2, 2, "OpenEnum"),
    skill_id |-> Entry(3, 3, "UInt32"), aim_dir |-> Entry(4, 0, "Message")]

S_AttackResult_Serialize ==
  << Write("attacker_id", 1, 3, "UInt64"), Write("attack_type", 2, 4, "Enum"),
     Write("skill_id", 3, 5, "UInt32"), Write("origin", 4, 1, "Message"), Write("aim_dir", 5, 2, "Message"),
     Write("hit_target_ids", 6, 0, "UInt64Packed")>>

S_AttackResult_ByteSize ==
  [ hit_target_ids |-> Size(0, "UInt64Packed"), origin |-> Size(1, "Message"), aim_dir |-> Size(2, "Message"),
    attacker_id |-> Size(3, "UInt64"), attack_type |-> Size(4, "Enum"), skill_id |-> Size(5, "UInt32")]

S_AttackResult_Table ==
  [ attacker_id |-> Entry(1, 3, "UInt64"), attack_type |-> Entry(2, 4, "OpenEnum"),
    skill_id |-> Entry(3, 5, "UInt32"), origin |-> Entry(4, 1, "Message"), aim_dir |-> Entry(5, 2, "Message"),
    hit_target_ids |-> Entry(6, 0, "RepeatedPackedUInt64")]

S_TakeDamage_Serialize ==
  << Write("target_id", 1, 0, "UInt64"), Write("attacker_id", 2, 1, "UInt64"), Write("damage", 3, 2, "Int32"),
     Write("remain_hp", 4, 3, "Int32"), Write("is_critical", 5, 4, "Bool")>>

S_TakeDamage_ByteSize ==
  [ target_id |-> Size(0, "UInt64"), attacker_id |-> Size(1, "UInt64"), damage |-> Size(2, "Int32"),
    remain_hp |-> Size(3, "Int32"), is_critical |-> Size(4, "Bool")]

S_TakeDamage_Table ==
  [ target_id |-> Entry(1, 0, "UInt64"), attacker_id |-> Entry(2, 1, "UInt64"),
    damage |-> Entry(3, 2, "Int32"), remain_hp |-> Entry(4, 3, "Int32"), is_critical |-> Entry(5, 4, "Bool")]

S_Die_Serialize == <<Write("player_id", 1, 0, "UInt64"), Write("killer_id", 2, 1, "UInt64")>>

S_Die_ByteSize == [player_id |-> Size(0, "UInt64"), killer_id |-> Size(1, "UInt64")]

S_Die_Table == [player_id |-> Entry(1, 0, "UInt64"), killer_id |-> Entry(2, 1, "UInt64")]

S_Resurrect_Serialize ==
  << Write("player_id", 1, 1, "UInt64"), Write("position", 2, 0, "Message"), Write("hp", 3, 2, "Int32")>>

S_Resurrect_ByteSize ==
  [ position |-> Size(0, "Message"), player_id |-> Size(1, "UInt64"), hp |-> Size(2, "Int32")]

S_Resurrect_Table ==
  [ player_id |-> Entry(1, 1, "UInt64"), position |-> Entry(2, 0, "Message"), hp |-> Entry(3, 2, "Int32")]

C_Chat_Serialize ==
  << Write("type", 1, 2, "Enum"), Write("message", 2, 0, "String"), Write("target", 3, 1, "String")>>

C_Chat_ByteSize == [message |-> Size(0, "String"), target |-> Size(1, "String"), type |-> Size(2, "Enum")]

C_Chat_Table ==
  [ type |-> Entry(1, 2, "OpenEnum"), message |-> Entry(2, 0, "Utf8String"),
    target |-> Entry(3, 1, "Utf8String")]

S_Chat_Serialize ==
  << Write("player_id", 1, 2, "UInt64"), Write("name", 2, 0, "String"), Write("type", 3, 3, "Enum"),
     Write("message", 4, 1, "String")>>

S_Chat_ByteSize ==
  [ name |-> Size(0, "String"), message |-> Size(1, "String"), player_id |-> Size(2, "UInt64"),
    type |-> Size(3, "Enum")]

S_Chat_Table ==
  [ player_id |-> Entry(1, 2, "UInt64"), name |-> Entry(2, 0, "Utf8String"), type |-> Entry(3, 3, "OpenEnum"),
    message |-> Entry(4, 1, "Utf8String")]

ItemInfo_Serialize ==
  << Write("item_id", 1, 0, "UInt64"), Write("template_id", 2, 1, "UInt32"), Write("count", 3, 2, "Int32"),
     Write("slot", 4, 3, "Int32")>>

ItemInfo_ByteSize ==
  [ item_id |-> Size(0, "UInt64"), template_id |-> Size(1, "UInt32"), count |-> Size(2, "Int32"),
    slot |-> Size(3, "Int32")]

ItemInfo_Table ==
  [ item_id |-> Entry(1, 0, "UInt64"), template_id |-> Entry(2, 1, "UInt32"), count |-> Entry(3, 2, "Int32"),
    slot |-> Entry(4, 3, "Int32")]

C_UseItem_Serialize == <<Write("item_id", 1, 0, "UInt64")>>

C_UseItem_ByteSize == [item_id |-> Size(0, "UInt64")]

C_UseItem_Table == [item_id |-> Entry(1, 0, "UInt64")]

S_InventoryUpdate_Serialize == <<Write("items", 1, 0, "RepMessage")>>

S_InventoryUpdate_ByteSize == [items |-> Size(0, "RepMessage")]

S_InventoryUpdate_Table == [items |-> Entry(1, 0, "RepeatedMessage")]

C_EnterZone_Serialize == <<Write("zone_id", 1, 0, "UInt32")>>

C_EnterZone_ByteSize == [zone_id |-> Size(0, "UInt32")]

C_EnterZone_Table == [zone_id |-> Entry(1, 0, "UInt32")]

S_EnterZone_Serialize ==
  << Write("success", 1, 1, "Bool"), Write("zone_id", 2, 2, "UInt32"), Write("spawn_pos", 3, 0, "Message")>>

S_EnterZone_ByteSize ==
  [ spawn_pos |-> Size(0, "Message"), success |-> Size(1, "Bool"), zone_id |-> Size(2, "UInt32")]

S_EnterZone_Table ==
  [ success |-> Entry(1, 1, "Bool"), zone_id |-> Entry(2, 2, "UInt32"), spawn_pos |-> Entry(3, 0, "Message")]

C_Ping_Serialize == <<Write("client_time", 1, 0, "UInt64")>>

C_Ping_ByteSize == [client_time |-> Size(0, "UInt64")]

C_Ping_Table == [client_time |-> Entry(1, 0, "UInt64")]

S_Pong_Serialize == <<Write("client_time", 1, 0, "UInt64"), Write("server_time", 2, 1, "UInt64")>>

S_Pong_ByteSize == [client_time |-> Size(0, "UInt64"), server_time |-> Size(1, "UInt64")]

S_Pong_Table == [client_time |-> Entry(1, 0, "UInt64"), server_time |-> Entry(2, 1, "UInt64")]

C_Resurrect_Table == <<>>

\* _InternalSerialize.
SerializeOf ==
  [ Vector2 |-> Vector2_Serialize, StatInfo |-> StatInfo_Serialize, PlayerInfo |-> PlayerInfo_Serialize,
    C_EnterGame |-> C_EnterGame_Serialize, S_EnterGame |-> S_EnterGame_Serialize,
    S_Spawn |-> S_Spawn_Serialize, S_Despawn |-> S_Despawn_Serialize, S_PlayerList |-> S_PlayerList_Serialize,
    C_LadderState |-> C_LadderState_Serialize, C_InputCmd |-> C_InputCmd_Serialize,
    S_PlayerState |-> S_PlayerState_Serialize, S_BroadcastMove |-> S_BroadcastMove_Serialize,
    C_Attack |-> C_Attack_Serialize, S_AttackResult |-> S_AttackResult_Serialize,
    S_TakeDamage |-> S_TakeDamage_Serialize, S_Die |-> S_Die_Serialize, C_Resurrect |-> <<>>,
    S_Resurrect |-> S_Resurrect_Serialize, C_Chat |-> C_Chat_Serialize, S_Chat |-> S_Chat_Serialize,
    ItemInfo |-> ItemInfo_Serialize, C_UseItem |-> C_UseItem_Serialize,
    S_InventoryUpdate |-> S_InventoryUpdate_Serialize, C_EnterZone |-> C_EnterZone_Serialize,
    S_EnterZone |-> S_EnterZone_Serialize, C_Ping |-> C_Ping_Serialize, S_Pong |-> S_Pong_Serialize]

\* ByteSizeLong.
ByteSizeOf ==
  [ Vector2 |-> Vector2_ByteSize, StatInfo |-> StatInfo_ByteSize, PlayerInfo |-> PlayerInfo_ByteSize,
    C_EnterGame |-> C_EnterGame_ByteSize, S_EnterGame |-> S_EnterGame_ByteSize, S_Spawn |-> S_Spawn_ByteSize,
    S_Despawn |-> S_Despawn_ByteSize, S_PlayerList |-> S_PlayerList_ByteSize,
    C_LadderState |-> C_LadderState_ByteSize, C_InputCmd |-> C_InputCmd_ByteSize,
    S_PlayerState |-> S_PlayerState_ByteSize, S_BroadcastMove |-> S_BroadcastMove_ByteSize,
    C_Attack |-> C_Attack_ByteSize, S_AttackResult |-> S_AttackResult_ByteSize,
    S_TakeDamage |-> S_TakeDamage_ByteSize, S_Die |-> S_Die_ByteSize, C_Resurrect |-> <<>>,
    S_Resurrect |-> S_Resurrect_ByteSize, C_Chat |-> C_Chat_ByteSize, S_Chat |-> S_Chat_ByteSize,
    ItemInfo |-> ItemInfo_ByteSize, C_UseItem |-> C_UseItem_ByteSize,
    S_InventoryUpdate |-> S_InventoryUpdate_ByteSize, C_EnterZone |-> C_EnterZone_ByteSize,
    S_EnterZone |-> S_EnterZone_ByteSize, C_Ping |-> C_Ping_ByteSize, S_Pong |-> S_Pong_ByteSize]

\* The parse tables.
TableOf ==
  [ Vector2 |-> Vector2_Table, StatInfo |-> StatInfo_Table, PlayerInfo |-> PlayerInfo_Table,
    C_EnterGame |-> C_EnterGame_Table, S_EnterGame |-> S_EnterGame_Table, S_Spawn |-> S_Spawn_Table,
    S_Despawn |-> S_Despawn_Table, S_PlayerList |-> S_PlayerList_Table, C_LadderState |-> C_LadderState_Table,
    C_InputCmd |-> C_InputCmd_Table, S_PlayerState |-> S_PlayerState_Table,
    S_BroadcastMove |-> S_BroadcastMove_Table, C_Attack |-> C_Attack_Table,
    S_AttackResult |-> S_AttackResult_Table, S_TakeDamage |-> S_TakeDamage_Table, S_Die |-> S_Die_Table,
    C_Resurrect |-> C_Resurrect_Table, S_Resurrect |-> S_Resurrect_Table, C_Chat |-> C_Chat_Table,
    S_Chat |-> S_Chat_Table, ItemInfo |-> ItemInfo_Table, C_UseItem |-> C_UseItem_Table,
    S_InventoryUpdate |-> S_InventoryUpdate_Table, C_EnterZone |-> C_EnterZone_Table,
    S_EnterZone |-> S_EnterZone_Table, C_Ping |-> C_Ping_Table, S_Pong |-> S_Pong_Table]
============================================================================
