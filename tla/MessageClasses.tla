-------------------------- MODULE MessageClasses --------------------------
(* src/ServerCore/game.pb.h: the classes protoc generated from game.proto.  Of
   each class: the members of its Impl_ in the order they lie in memory (which
   the memset, memcpy and memswap of game.pb.cc rely on, see MessageObjects),
   and its inline accessors: which of the four shapes the accessors of a field
   have, and the has-bit all of them use.  What an accessor of each shape does
   to an object is in Messages.                                              *)
EXTENDS Naturals

\* A number, an enumeration or a bool: clear_x, x, set_x.
Scalar(bit) == [shape |-> "scalar", bit |-> bit]

\* A string: clear_x, x, set_x, mutable_x, release_x, set_allocated_x.
Text(bit) == [shape |-> "text", bit |-> bit]

\* A message: has_x, clear_x, x, mutable_x, release_x, set_allocated_x.
Child(bit) == [shape |-> "child", bit |-> bit]

\* A repeated field: clear_x, x(i), set_x(i), add_x, mutable_x.
List(bit) == [shape |-> "list", bit |-> bit]

Vector2_Impl == <<"x", "y">>

Vector2_Accessors == [x |-> Scalar(0), y |-> Scalar(1)]

StatInfo_Impl == <<"hp", "max_hp", "mp", "max_mp", "attack", "defence", "speed", "level", "exp", "max_exp">>

StatInfo_Accessors ==
  [ hp |-> Scalar(0), max_hp |-> Scalar(1), mp |-> Scalar(2), max_mp |-> Scalar(3), attack |-> Scalar(4),
    defence |-> Scalar(5), speed |-> Scalar(6), level |-> Scalar(7), exp |-> Scalar(8), max_exp |-> Scalar(9)]

PlayerInfo_Impl == <<"name", "position", "stat", "player_id", "dir", "is_moving", "is_jumping">>

PlayerInfo_Accessors ==
  [ player_id |-> Scalar(3), name |-> Text(0), position |-> Child(1), dir |-> Scalar(4), stat |-> Child(2),
    is_moving |-> Scalar(5), is_jumping |-> Scalar(6)]

C_EnterGame_Impl == <<"name">>

C_EnterGame_Accessors == [name |-> Text(0)]

S_EnterGame_Impl == <<"error", "my_info", "success">>

S_EnterGame_Accessors == [success |-> Scalar(2), error |-> Text(0), my_info |-> Child(1)]

S_Spawn_Impl == <<"players">>

S_Spawn_Accessors == [players |-> List(0)]

S_Despawn_Impl == <<"player_ids">>

S_Despawn_Accessors == [player_ids |-> List(0)]

S_PlayerList_Impl == <<"players">>

S_PlayerList_Accessors == [players |-> List(0)]

C_LadderState_Impl == <<"on_ladder", "pos_x", "pos_y", "vel_x", "vel_y">>

C_LadderState_Accessors ==
  [ on_ladder |-> Scalar(0), pos_x |-> Scalar(1), pos_y |-> Scalar(2), vel_x |-> Scalar(3),
    vel_y |-> Scalar(4)]

C_InputCmd_Impl ==
  << "input_seq", "delta_time", "move_left", "move_right", "jump", "drop_through", "face_dir", "move_up",
     "move_down">>

C_InputCmd_Accessors ==
  [ input_seq |-> Scalar(0), delta_time |-> Scalar(1), move_left |-> Scalar(2), move_right |-> Scalar(3),
    jump |-> Scalar(4), drop_through |-> Scalar(5), face_dir |-> Scalar(6), move_up |-> Scalar(7),
    move_down |-> Scalar(8)]

S_PlayerState_Impl ==
  << "position", "velocity", "player_id", "last_processed_input_seq", "dir", "is_grounded", "is_moving",
     "is_jumping", "is_on_ladder">>

S_PlayerState_Accessors ==
  [ player_id |-> Scalar(2), last_processed_input_seq |-> Scalar(3), position |-> Child(0),
    velocity |-> Child(1), is_grounded |-> Scalar(5), dir |-> Scalar(4), is_moving |-> Scalar(6),
    is_jumping |-> Scalar(7), is_on_ladder |-> Scalar(8)]

S_BroadcastMove_Impl ==
  << "position", "velocity", "player_id", "dir", "is_grounded", "is_moving", "is_jumping", "is_crouching",
     "server_tick", "is_on_ladder">>

S_BroadcastMove_Accessors ==
  [ player_id |-> Scalar(2), position |-> Child(0), velocity |-> Child(1), dir |-> Scalar(3),
    is_grounded |-> Scalar(4), is_moving |-> Scalar(5), is_jumping |-> Scalar(6), server_tick |-> Scalar(8),
    is_crouching |-> Scalar(7), is_on_ladder |-> Scalar(9)]

C_Attack_Impl == <<"aim_dir", "input_seq", "attack_type", "skill_id">>

C_Attack_Accessors ==
  [ input_seq |-> Scalar(1), attack_type |-> Scalar(2), skill_id |-> Scalar(3), aim_dir |-> Child(0)]

S_AttackResult_Impl == <<"hit_target_ids", "origin", "aim_dir", "attacker_id", "attack_type", "skill_id">>

S_AttackResult_Accessors ==
  [ attacker_id |-> Scalar(3), attack_type |-> Scalar(4), skill_id |-> Scalar(5), origin |-> Child(1),
    aim_dir |-> Child(2), hit_target_ids |-> List(0)]

S_TakeDamage_Impl == <<"target_id", "attacker_id", "damage", "remain_hp", "is_critical">>

S_TakeDamage_Accessors ==
  [ target_id |-> Scalar(0), attacker_id |-> Scalar(1), damage |-> Scalar(2), remain_hp |-> Scalar(3),
    is_critical |-> Scalar(4)]

S_Die_Impl == <<"player_id", "killer_id">>

S_Die_Accessors == [player_id |-> Scalar(0), killer_id |-> Scalar(1)]

S_Resurrect_Impl == <<"position", "player_id", "hp">>

S_Resurrect_Accessors == [player_id |-> Scalar(1), position |-> Child(0), hp |-> Scalar(2)]

C_Chat_Impl == <<"message", "target", "type">>

C_Chat_Accessors == [type |-> Scalar(2), message |-> Text(0), target |-> Text(1)]

S_Chat_Impl == <<"name", "message", "player_id", "type">>

S_Chat_Accessors == [player_id |-> Scalar(2), name |-> Text(0), type |-> Scalar(3), message |-> Text(1)]

ItemInfo_Impl == <<"item_id", "template_id", "count", "slot">>

ItemInfo_Accessors ==
  [ item_id |-> Scalar(0), template_id |-> Scalar(1), count |-> Scalar(2), slot |-> Scalar(3)]

C_UseItem_Impl == <<"item_id">>

C_UseItem_Accessors == [item_id |-> Scalar(0)]

S_InventoryUpdate_Impl == <<"items">>

S_InventoryUpdate_Accessors == [items |-> List(0)]

C_EnterZone_Impl == <<"zone_id">>

C_EnterZone_Accessors == [zone_id |-> Scalar(0)]

S_EnterZone_Impl == <<"spawn_pos", "success", "zone_id">>

S_EnterZone_Accessors == [success |-> Scalar(1), zone_id |-> Scalar(2), spawn_pos |-> Child(0)]

C_Ping_Impl == <<"client_time">>

C_Ping_Accessors == [client_time |-> Scalar(0)]

S_Pong_Impl == <<"client_time", "server_time">>

S_Pong_Accessors == [client_time |-> Scalar(0), server_time |-> Scalar(1)]

\* The memory layout of every message; C_Resurrect has no field.
Impl ==
  [ Vector2 |-> Vector2_Impl, StatInfo |-> StatInfo_Impl, PlayerInfo |-> PlayerInfo_Impl,
    C_EnterGame |-> C_EnterGame_Impl, S_EnterGame |-> S_EnterGame_Impl, S_Spawn |-> S_Spawn_Impl,
    S_Despawn |-> S_Despawn_Impl, S_PlayerList |-> S_PlayerList_Impl, C_LadderState |-> C_LadderState_Impl,
    C_InputCmd |-> C_InputCmd_Impl, S_PlayerState |-> S_PlayerState_Impl,
    S_BroadcastMove |-> S_BroadcastMove_Impl, C_Attack |-> C_Attack_Impl,
    S_AttackResult |-> S_AttackResult_Impl, S_TakeDamage |-> S_TakeDamage_Impl, S_Die |-> S_Die_Impl,
    C_Resurrect |-> <<>>, S_Resurrect |-> S_Resurrect_Impl, C_Chat |-> C_Chat_Impl, S_Chat |-> S_Chat_Impl,
    ItemInfo |-> ItemInfo_Impl, C_UseItem |-> C_UseItem_Impl, S_InventoryUpdate |-> S_InventoryUpdate_Impl,
    C_EnterZone |-> C_EnterZone_Impl, S_EnterZone |-> S_EnterZone_Impl, C_Ping |-> C_Ping_Impl,
    S_Pong |-> S_Pong_Impl]

\* The accessors of every message.
Accessors ==
  [ Vector2 |-> Vector2_Accessors, StatInfo |-> StatInfo_Accessors, PlayerInfo |-> PlayerInfo_Accessors,
    C_EnterGame |-> C_EnterGame_Accessors, S_EnterGame |-> S_EnterGame_Accessors,
    S_Spawn |-> S_Spawn_Accessors, S_Despawn |-> S_Despawn_Accessors, S_PlayerList |-> S_PlayerList_Accessors,
    C_LadderState |-> C_LadderState_Accessors, C_InputCmd |-> C_InputCmd_Accessors,
    S_PlayerState |-> S_PlayerState_Accessors, S_BroadcastMove |-> S_BroadcastMove_Accessors,
    C_Attack |-> C_Attack_Accessors, S_AttackResult |-> S_AttackResult_Accessors,
    S_TakeDamage |-> S_TakeDamage_Accessors, S_Die |-> S_Die_Accessors, C_Resurrect |-> <<>>,
    S_Resurrect |-> S_Resurrect_Accessors, C_Chat |-> C_Chat_Accessors, S_Chat |-> S_Chat_Accessors,
    ItemInfo |-> ItemInfo_Accessors, C_UseItem |-> C_UseItem_Accessors,
    S_InventoryUpdate |-> S_InventoryUpdate_Accessors, C_EnterZone |-> C_EnterZone_Accessors,
    S_EnterZone |-> S_EnterZone_Accessors, C_Ping |-> C_Ping_Accessors, S_Pong |-> S_Pong_Accessors]
============================================================================
