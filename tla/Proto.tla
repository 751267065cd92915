------------------------------ MODULE Proto ------------------------------
(* src/Proto/game.proto: the messages of the protocol, as the client and the
   server agreed on them.  This is what the generated code of game.pb.h and
   game.pb.cc (MessageClasses, MessageObjects, MessageWire) is held against:
   for each message its fields in the order of their numbers, each with its
   name, number and type.                                                    *)
EXTENDS Naturals

\* `type name = number;'
Field(name, number, ty) == [name |-> name, number |-> number, ty |-> ty, repeated |-> FALSE]

\* `repeated type name = number;'
Repeated(name, number, ty) == [name |-> name, number |-> number, ty |-> ty, repeated |-> TRUE]

\* The enumerations.
Enums == {"MoveDir", "AttackType", "ChatType"}

Vector2_Proto == <<Field("x", 1, "float"), Field("y", 2, "float")>>

StatInfo_Proto ==
  << Field("hp", 1, "int32"), Field("max_hp", 2, "int32"), Field("mp", 3, "int32"),
     Field("max_mp", 4, "int32"), Field("attack", 5, "int32"), Field("defence", 6, "int32"),
     Field("speed", 7, "int32"), Field("level", 8, "int32"), Field("exp", 9, "int64"),
     Field("max_exp", 10, "int64")>>

PlayerInfo_Proto ==
  << Field("player_id", 1, "uint64"), Field("name", 2, "string"), Field("position", 3, "Vector2"),
     Field("dir", 4, "MoveDir"), Field("stat", 5, "StatInfo"), Field("is_moving", 6, "bool"),
     Field("is_jumping", 7, "bool")>>

C_EnterGame_Proto == <<Field("name", 1, "string")>>

S_EnterGame_Proto ==
  << Field("success", 1, "bool"), Field("error", 2, "string"), Field("my_info", 3, "PlayerInfo")>>

S_Spawn_Proto == <<Repeated("players", 1, "PlayerInfo")>>

S_Despawn_Proto == <<Repeated("player_ids", 1, "uint64")>>

S_PlayerList_Proto == <<Repeated("players", 1, "PlayerInfo")>>

C_LadderState_Proto ==
  << Field("on_ladder", 1, "bool"), Field("pos_x", 2, "float"), Field("pos_y", 3, "float"),
     Field("vel_x", 4, "float"), Field("vel_y", 5, "float")>>

C_InputCmd_Proto ==
  << Field("input_seq", 1, "uint32"), Field("delta_time", 2, "float"), Field("move_left", 3, "bool"),
     Field("move_right", 4, "bool"), Field("jump", 5, "bool"), Field("drop_through", 6, "bool"),
     Field("face_dir", 7, "MoveDir"), Field("move_up", 8, "bool"), Field("move_down", 9, "bool")>>

S_PlayerState_Proto ==
  << Field("player_id", 1, "uint64"), Field("last_processed_input_seq", 2, "uint32"),
     Field("position", 3, "Vector2"), Field("velocity", 4, "Vector2"), Field("is_grounded", 5, "bool"),
     Field("dir", 6, "MoveDir"), Field("is_moving", 7, "bool"), Field("is_jumping", 8, "bool"),
     Field("is_on_ladder", 9, "bool")>>

S_BroadcastMove_Proto ==
  << Field("player_id", 1, "uint64"), Field("position", 2, "Vector2"), Field("velocity", 3, "Vector2"),
     Field("dir", 4, "MoveDir"), Field("is_grounded", 5, "bool"), Field("is_moving", 6, "bool"),
     Field("is_jumping", 7, "bool"), Field("server_tick", 8, "uint32"), Field("is_crouching", 9, "bool"),
     Field("is_on_ladder", 10, "bool")>>

C_Attack_Proto ==
  << Field("input_seq", 1, "uint32"), Field("attack_type", 2, "AttackType"), Field("skill_id", 3, "uint32"),
     Field("aim_dir", 4, "Vector2")>>

S_AttackResult_Proto ==
  << Field("attacker_id", 1, "uint64"), Field("attack_type", 2, "AttackType"), Field("skill_id", 3, "uint32"),
     Field("origin", 4, "Vector2"), Field("aim_dir", 5, "Vector2"), Repeated("hit_target_ids", 6, "uint64")>>

S_TakeDamage_Proto ==
  << Field("target_id", 1, "uint64"), Field("attacker_id", 2, "uint64"), Field("damage", 3, "int32"),
     Field("remain_hp", 4, "int32"), Field("is_critical", 5, "bool")>>

S_Die_Proto == <<Field("player_id", 1, "uint64"), Field("killer_id", 2, "uint64")>>

C_Resurrect_Proto == <<>>

S_Resurrect_Proto ==
  << Field("player_id", 1, "uint64"), Field("position", 2, "Vector2"), Field("hp", 3, "int32")>>

C_Chat_Proto == <<Field("type", 1, "ChatType"), Field("message", 2, "string"), Field("target", 3, "string")>>

S_Chat_Proto ==
  << Field("player_id", 1, "uint64"), Field("name", 2, "string"), Field("type", 3, "ChatType"),
     Field("message", 4, "string")>>

ItemInfo_Proto ==
  << Field("item_id", 1, "uint64"), Field("template_id", 2, "uint32"), Field("count", 3, "int32"),
     Field("slot", 4, "int32")>>

C_UseItem_Proto == <<Field("item_id", 1, "uint64")>>

S_InventoryUpdate_Proto == <<Repeated("items", 1, "ItemInfo")>>

C_EnterZone_Proto == <<Field("zone_id", 1, "uint32")>>

S_EnterZone_Proto ==
  << Field("success", 1, "bool"), Field("zone_id", 2, "uint32"), Field("spawn_pos", 3, "Vector2")>>

C_Ping_Proto == <<Field("client_time", 1, "uint64")>>

S_Pong_Proto == <<Field("client_time", 1, "uint64"), Field("server_time", 2, "uint64")>>

\* The fields of every message.
ProtoFields ==
  [ Vector2 |-> Vector2_Proto, StatInfo |-> StatInfo_Proto, PlayerInfo |-> PlayerInfo_Proto,
    C_EnterGame |-> C_EnterGame_Proto, S_EnterGame |-> S_EnterGame_Proto, S_Spawn |-> S_Spawn_Proto,
    S_Despawn |-> S_Despawn_Proto, S_PlayerList |-> S_PlayerList_Proto, C_LadderState |-> C_LadderState_Proto,
    C_InputCmd |-> C_InputCmd_Proto, S_PlayerState |-> S_PlayerState_Proto,
    S_BroadcastMove |-> S_BroadcastMove_Proto, C_Attack |-> C_Attack_Proto,
    S_AttackResult |-> S_AttackResult_Proto, S_TakeDamage |-> S_TakeDamage_Proto, S_Die |-> S_Die_Proto,
    C_Resurrect |-> C_Resurrect_Proto, S_Resurrect |-> S_Resurrect_Proto, C_Chat |-> C_Chat_Proto,
    S_Chat |-> S_Chat_Proto, ItemInfo |-> ItemInfo_Proto, C_UseItem |-> C_UseItem_Proto,
    S_InventoryUpdate |-> S_InventoryUpdate_Proto, C_EnterZone |-> C_EnterZone_Proto,
    S_EnterZone |-> S_EnterZone_Proto, C_Ping |-> C_Ping_Proto, S_Pong |-> S_Pong_Proto]

MessageTypes == DOMAIN ProtoFields
============================================================================
