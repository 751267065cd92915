-------------------------- MODULE MessageObjects --------------------------
(* src/ServerCore/game.pb.cc: how an object of each generated class is made,
   copied, cleared, merged, swapped and destroyed.  A definition names, for
   one function of one class, the members that function touches, the has-bit
   it tests first, and what it does; Messages gives these the meaning they
   have in memory.  A span <<first, last>> stands for the members of Impl_ from
   first to last, the range a memset, a memcpy or a memswap is given.

   The tests of several bits at once (BatchCheckHasBit) around groups of single
   tests only skip work and are left out; ZeroFieldsBase, of which C_Resurrect
   is derived, is library code.                                              *)
EXTENDS Naturals

NoSpan == <<>>

\* Clear: members cleared only when one of these has-bits is set, or always.
When(bits, first, last) == [bits |-> bits, span |-> <<first, last>>]
Always(first, last) == [bits |-> {}, span |-> <<first, last>>]

\* MergeImpl: what is done with a member whose has-bit is set in the source.
IfNonZero(bit) == [bit |-> bit, how |-> "value"]
IfNonEmpty(bit) == [bit |-> bit, how |-> "value"]
MergeChild(bit) == [bit |-> bit, how |-> "child"]
AppendList(bit) == [bit |-> bit, how |-> "append"]

\* The copy constructor of a class without strings, messages and lists.
Memberwise == [whole |-> TRUE, made |-> {}, cloned |-> {}, raw |-> NoSpan]

Vector2_Default == {"x", "y"}

Vector2_Life == [made |-> {}, zeroed |-> <<"x", "y">>, freed |-> {}]

Vector2_New == {"ZeroInit"}

Vector2_Copy == Memberwise

Vector2_Clear == {When({0, 1}, "x", "y")}

Vector2_Merge == [x |-> IfNonZero(0), y |-> IfNonZero(1)]

Vector2_Swap == {<<"x", "y">>}

StatInfo_Default == {"hp", "max_hp", "mp", "max_mp", "attack", "defence", "speed", "level", "exp", "max_exp"}

StatInfo_Life == [made |-> {}, zeroed |-> <<"hp", "max_exp">>, freed |-> {}]

StatInfo_New == {"ZeroInit"}

StatInfo_Copy == Memberwise

StatInfo_Clear == {When({0, 1, 2, 3, 4, 5, 6, 7}, "hp", "level"), When({8, 9}, "exp", "max_exp")}

StatInfo_Merge ==
  [ hp |-> IfNonZero(0), max_hp |-> IfNonZero(1), mp |-> IfNonZero(2), max_mp |-> IfNonZero(3),
    attack |-> IfNonZero(4), defence |-> IfNonZero(5), speed |-> IfNonZero(6), level |-> IfNonZero(7),
    exp |-> IfNonZero(8), max_exp |-> IfNonZero(9)]

StatInfo_Swap == {<<"hp", "max_exp">>}

PlayerInfo_Default == {"name", "position", "stat", "player_id", "dir", "is_moving", "is_jumping"}

PlayerInfo_Life ==
  [ made |-> {"name"}, zeroed |-> <<"position", "is_jumping">>, freed |-> {"name", "position", "stat"}]

PlayerInfo_New == {"CopyInit"}

PlayerInfo_Copy ==
  [ whole |-> FALSE, made |-> {"name"}, cloned |-> {<<"position", 1>>, <<"stat", 2>>},
    raw |-> <<"player_id", "is_jumping">>]

PlayerInfo_Clear ==
  { When({0}, "name", "name"), When({1}, "position", "position"), When({2}, "stat", "stat"),
    When({3, 4, 5, 6}, "player_id", "is_jumping")}

PlayerInfo_Merge ==
  [ name |-> IfNonEmpty(0), position |-> MergeChild(1), stat |-> MergeChild(2), player_id |-> IfNonZero(3),
    dir |-> IfNonZero(4), is_moving |-> IfNonZero(5), is_jumping |-> IfNonZero(6)]

PlayerInfo_Swap == {<<"name", "name">>, <<"position", "is_jumping">>}

C_EnterGame_Default == {"name"}

C_EnterGame_Life == [made |-> {"name"}, zeroed |-> NoSpan, freed |-> {"name"}]

C_EnterGame_New == {"CopyInit"}

C_EnterGame_Copy == [whole |-> FALSE, made |-> {"name"}, cloned |-> {}, raw |-> NoSpan]

C_EnterGame_Clear == {When({0}, "name", "name")}

C_EnterGame_Merge == [name |-> IfNonEmpty(0)]

C_EnterGame_Swap == {<<"name", "name">>}

\* Faulty variant: S_EnterGame forgets its PlayerInfo when it is destroyed.
KeepsMyInfo == [made |-> {"error"}, zeroed |-> <<"my_info", "success">>, freed |-> {"error"}]

\* Faulty variant: the bool behind the tested groups is not reset.
KeepsSuccess == {When({0}, "error", "error"), When({1}, "my_info", "my_info")}

S_EnterGame_Default == {"error", "my_info", "success"}

S_EnterGame_Life == [made |-> {"error"}, zeroed |-> <<"my_info", "success">>, freed |-> {"error", "my_info"}]

S_EnterGame_New == {"CopyInit"}

S_EnterGame_Copy ==
  [ whole |-> FALSE, made |-> {"error"}, cloned |-> {<<"my_info", 1>>}, raw |-> <<"success", "success">>]

S_EnterGame_Clear ==
  { When({0}, "error", "error"), When({1}, "my_info", "my_info"), Always("success", "success")}

S_EnterGame_Merge == [error |-> IfNonEmpty(0), my_info |-> MergeChild(1), success |-> IfNonZero(2)]

S_EnterGame_Swap == {<<"error", "error">>, <<"my_info", "success">>}

S_Spawn_Default == {"players"}

S_Spawn_Life == [made |-> {"players"}, zeroed |-> NoSpan, freed |-> {}]

S_Spawn_New == {"PlacementNew", "ZeroInit"}

S_Spawn_Copy == [whole |-> FALSE, made |-> {"players"}, cloned |-> {}, raw |-> NoSpan]

S_Spawn_Clear == {When({0}, "players", "players")}

S_Spawn_Merge == [players |-> AppendList(0)]

S_Spawn_Swap == {<<"players", "players">>}

S_Despawn_Default == {"player_ids"}

S_Despawn_Life == [made |-> {"player_ids"}, zeroed |-> NoSpan, freed |-> {}]

S_Despawn_New == {"PlacementNew", "ZeroInit"}

S_Despawn_Copy == [whole |-> FALSE, made |-> {"player_ids"}, cloned |-> {}, raw |-> NoSpan]

S_Despawn_Clear == {When({0}, "player_ids", "player_ids")}

S_Despawn_Merge == [player_ids |-> AppendList(0)]

S_Despawn_Swap == {<<"player_ids", "player_ids">>}

S_PlayerList_Default == {"players"}

S_PlayerList_Life == [made |-> {"players"}, zeroed |-> NoSpan, freed |-> {}]

S_PlayerList_New == {"PlacementNew", "ZeroInit"}

S_PlayerList_Copy == [whole |-> FALSE, made |-> {"players"}, cloned |-> {}, raw |-> NoSpan]

S_PlayerList_Clear == {When({0}, "players", "players")}

S_PlayerList_Merge == [players |-> AppendList(0)]

S_PlayerList_Swap == {<<"players", "players">>}

C_LadderState_Default == {"on_ladder", "pos_x", "pos_y", "vel_x", "vel_y"}

C_LadderState_Life == [made |-> {}, zeroed |-> <<"on_ladder", "vel_y">>, freed |-> {}]

C_LadderState_New == {"ZeroInit"}

C_LadderState_Copy == Memberwise

C_LadderState_Clear == {When({0, 1, 2, 3, 4}, "on_ladder", "vel_y")}

C_LadderState_Merge ==
  [ on_ladder |-> IfNonZero(0), pos_x |-> IfNonZero(1), pos_y |-> IfNonZero(2), vel_x |-> IfNonZero(3),
    vel_y |-> IfNonZero(4)]

C_LadderState_Swap == {<<"on_ladder", "vel_y">>}

C_InputCmd_Default ==
  { "input_seq", "delta_time", "move_left", "move_right", "jump", "drop_through", "face_dir", "move_up",
    "move_down"}

C_InputCmd_Life == [made |-> {}, zeroed |-> <<"input_seq", "move_down">>, freed |-> {}]

C_InputCmd_New == {"ZeroInit"}

C_InputCmd_Copy == Memberwise

C_InputCmd_Clear == {When({0, 1, 2, 3, 4, 5, 6, 7}, "input_seq", "move_up"), Always("move_down", "move_down")}

C_InputCmd_Merge ==
  [ input_seq |-> IfNonZero(0), delta_time |-> IfNonZero(1), move_left |-> IfNonZero(2),
    move_right |-> IfNonZero(3), jump |-> IfNonZero(4), drop_through |-> IfNonZero(5),
    face_dir |-> IfNonZero(6), move_up |-> IfNonZero(7), move_down |-> IfNonZero(8)]

C_InputCmd_Swap == {<<"input_seq", "move_down">>}

S_PlayerState_Default ==
  { "position", "velocity", "player_id", "last_processed_input_seq", "dir", "is_grounded", "is_moving",
    "is_jumping", "is_on_ladder"}

S_PlayerState_Life ==
  [ made |-> {}, zeroed |-> <<"position", "is_on_ladder">>, freed |-> {"position", "velocity"}]

S_PlayerState_New == {"ZeroInit"}

S_PlayerState_Copy ==
  [ whole |-> FALSE, made |-> {}, cloned |-> {<<"position", 0>>, <<"velocity", 1>>},
    raw |-> <<"player_id", "is_on_ladder">>]

S_PlayerState_Clear ==
  { When({0}, "position", "position"), When({1}, "velocity", "velocity"),
    When({2, 3, 4, 5, 6, 7}, "player_id", "is_jumping"), Always("is_on_ladder", "is_on_ladder")}

S_PlayerState_Merge ==
  [ position |-> MergeChild(0), velocity |-> MergeChild(1), player_id |-> IfNonZero(2),
    last_processed_input_seq |-> IfNonZero(3), dir |-> IfNonZero(4), is_grounded |-> IfNonZero(5),
    is_moving |-> IfNonZero(6), is_jumping |-> IfNonZero(7), is_on_ladder |-> IfNonZero(8)]

S_PlayerState_Swap == {<<"position", "is_on_ladder">>}

S_BroadcastMove_Default ==
  { "position", "velocity", "player_id", "dir", "is_grounded", "is_moving", "is_jumping", "is_crouching",
    "server_tick", "is_on_ladder"}

S_BroadcastMove_Life ==
  [ made |-> {}, zeroed |-> <<"position", "is_on_ladder">>, freed |-> {"position", "velocity"}]

S_BroadcastMove_New == {"ZeroInit"}

S_BroadcastMove_Copy ==
  [ whole |-> FALSE, made |-> {}, cloned |-> {<<"position", 0>>, <<"velocity", 1>>},
    raw |-> <<"player_id", "is_on_ladder">>]

S_BroadcastMove_Clear ==
  { When({0}, "position", "position"), When({1}, "velocity", "velocity"),
    When({2, 3, 4, 5, 6, 7}, "player_id", "is_crouching"), When({8, 9}, "server_tick", "is_on_ladder")}

S_BroadcastMove_Merge ==
  [ position |-> MergeChild(0), velocity |-> MergeChild(1), player_id |-> IfNonZero(2), dir |-> IfNonZero(3),
    is_grounded |-> IfNonZero(4), is_moving |-> IfNonZero(5), is_jumping |-> IfNonZero(6),
    is_crouching |-> IfNonZero(7), server_tick |-> IfNonZero(8), is_on_ladder |-> IfNonZero(9)]

S_BroadcastMove_Swap == {<<"position", "is_on_ladder">>}

C_Attack_Default == {"aim_dir", "input_seq", "attack_type", "skill_id"}

C_Attack_Life == [made |-> {}, zeroed |-> <<"aim_dir", "skill_id">>, freed |-> {"aim_dir"}]

C_Attack_New == {"ZeroInit"}

C_Attack_Copy ==
  [ whole |-> FALSE, made |-> {}, cloned |-> {<<"aim_dir", 0>>}, raw |-> <<"input_seq", "skill_id">>]

C_Attack_Clear == {When({0}, "aim_dir", "aim_dir"), When({1, 2, 3}, "input_seq", "skill_id")}

C_Attack_Merge ==
  [ aim_dir |-> MergeChild(0), input_seq |-> IfNonZero(1), attack_type |-> IfNonZero(2),
    skill_id |-> IfNonZero(3)]

C_Attack_Swap == {<<"aim_dir", "skill_id">>}

S_AttackResult_Default == {"hit_target_ids", "origin", "aim_dir", "attacker_id", "attack_type", "skill_id"}

S_AttackResult_Life ==
  [ made |-> {"hit_target_ids"}, zeroed |-> <<"origin", "skill_id">>, freed |-> {"origin", "aim_dir"}]

S_AttackResult_New == {"PlacementNew", "ZeroInit"}

S_AttackResult_Copy ==
  [ whole |-> FALSE, made |-> {"hit_target_ids"}, cloned |-> {<<"origin", 1>>, <<"aim_dir", 2>>},
    raw |-> <<"attacker_id", "skill_id">>]

S_AttackResult_Clear ==
  { When({0}, "hit_target_ids", "hit_target_ids"), When({1}, "origin", "origin"),
    When({2}, "aim_dir", "aim_dir"), When({3, 4, 5}, "attacker_id", "skill_id")}

S_AttackResult_Merge ==
  [ hit_target_ids |-> AppendList(0), origin |-> MergeChild(1), aim_dir |-> MergeChild(2),
    attacker_id |-> IfNonZero(3), attack_type |-> IfNonZero(4), skill_id |-> IfNonZero(5)]

S_AttackResult_Swap == {<<"hit_target_ids", "hit_target_ids">>, <<"origin", "skill_id">>}

S_TakeDamage_Default == {"target_id", "attacker_id", "damage", "remain_hp", "is_critical"}

S_TakeDamage_Life == [made |-> {}, zeroed |-> <<"target_id", "is_critical">>, freed |-> {}]

S_TakeDamage_New == {"ZeroInit"}

S_TakeDamage_Copy == Memberwise

S_TakeDamage_Clear == {When({0, 1, 2, 3, 4}, "target_id", "is_critical")}

S_TakeDamage_Merge ==
  [ target_id |-> IfNonZero(0), attacker_id |-> IfNonZero(1), damage |-> IfNonZero(2),
    remain_hp |-> IfNonZero(3), is_critical |-> IfNonZero(4)]

S_TakeDamage_Swap == {<<"target_id", "is_critical">>}

S_Die_Default == {"player_id", "killer_id"}

S_Die_Life == [made |-> {}, zeroed |-> <<"player_id", "killer_id">>, freed |-> {}]

S_Die_New == {"ZeroInit"}

S_Die_Copy == Memberwise

S_Die_Clear == {When({0, 1}, "player_id", "killer_id")}

S_Die_Merge == [player_id |-> IfNonZero(0), killer_id |-> IfNonZero(1)]

S_Die_Swap == {<<"player_id", "killer_id">>}

S_Resurrect_Default == {"position", "player_id", "hp"}

S_Resurrect_Life == [made |-> {}, zeroed |-> <<"position", "hp">>, freed |-> {"position"}]

S_Resurrect_New == {"ZeroInit"}

S_Resurrect_Copy ==
  [ whole |-> FALSE, made |-> {}, cloned |-> {<<"position", 0>>}, raw |-> <<"player_id", "hp">>]

S_Resurrect_Clear == {When({0}, "position", "position"), When({1, 2}, "player_id", "hp")}

S_Resurrect_Merge == [position |-> MergeChild(0), player_id |-> IfNonZero(1), hp |-> IfNonZero(2)]

S_Resurrect_Swap == {<<"position", "hp">>}

C_Chat_Default == {"message", "target", "type"}

C_Chat_Life ==
  [ made |-> {"message", "target"}, zeroed |-> <<"type", "type">>, freed |-> {"message", "target"}]

C_Chat_New == {"CopyInit"}

C_Chat_Copy == [whole |-> FALSE, made |-> {"message", "target"}, cloned |-> {}, raw |-> <<"type", "type">>]

C_Chat_Clear == {When({0}, "message", "message"), When({1}, "target", "target"), Always("type", "type")}

C_Chat_Merge == [message |-> IfNonEmpty(0), target |-> IfNonEmpty(1), type |-> IfNonZero(2)]

C_Chat_Swap == {<<"message", "message">>, <<"target", "target">>, <<"type", "type">>}

S_Chat_Default == {"name", "message", "player_id", "type"}

S_Chat_Life ==
  [ made |-> {"name", "message"}, zeroed |-> <<"player_id", "type">>, freed |-> {"name", "message"}]

S_Chat_New == {"CopyInit"}

S_Chat_Copy == [whole |-> FALSE, made |-> {"name", "message"}, cloned |-> {}, raw |-> <<"player_id", "type">>]

S_Chat_Clear ==
  { When({0}, "name", "name"), When({1}, "message", "message"), When({2, 3}, "player_id", "type")}

S_Chat_Merge ==
  [ name |-> IfNonEmpty(0), message |-> IfNonEmpty(1), player_id |-> IfNonZero(2), type |-> IfNonZero(3)]

S_Chat_Swap == {<<"name", "name">>, <<"message", "message">>, <<"player_id", "type">>}

ItemInfo_Default == {"item_id", "template_id", "count", "slot"}

ItemInfo_Life == [made |-> {}, zeroed |-> <<"item_id", "slot">>, freed |-> {}]

ItemInfo_New == {"ZeroInit"}

ItemInfo_Copy == Memberwise

ItemInfo_Clear == {When({0, 1, 2, 3}, "item_id", "slot")}

ItemInfo_Merge ==
  [ item_id |-> IfNonZero(0), template_id |-> IfNonZero(1), count |-> IfNonZero(2), slot |-> IfNonZero(3)]

ItemInfo_Swap == {<<"item_id", "slot">>}

C_UseItem_Default == {"item_id"}

C_UseItem_Life == [made |-> {}, zeroed |-> <<"item_id", "item_id">>, freed |-> {}]

C_UseItem_New == {"ZeroInit"}

C_UseItem_Copy == Memberwise

C_UseItem_Clear == {Always("item_id", "item_id")}

C_UseItem_Merge == [item_id |-> IfNonZero(0)]

C_UseItem_Swap == {<<"item_id", "item_id">>}

S_InventoryUpdate_Default == {"items"}

S_InventoryUpdate_Life == [made |-> {"items"}, zeroed |-> NoSpan, freed |-> {}]

S_InventoryUpdate_New == {"PlacementNew", "ZeroInit"}

S_InventoryUpdate_Copy == [whole |-> FALSE, made |-> {"items"}, cloned |-> {}, raw |-> NoSpan]

S_InventoryUpdate_Clear == {When({0}, "items", "items")}

S_InventoryUpdate_Merge == [items |-> AppendList(0)]

S_InventoryUpdate_Swap == {<<"items", "items">>}

C_EnterZone_Default == {"zone_id"}

C_EnterZone_Life == [made |-> {}, zeroed |-> <<"zone_id", "zone_id">>, freed |-> {}]

C_EnterZone_New == {"ZeroInit"}

C_EnterZone_Copy == Memberwise

C_EnterZone_Clear == {Always("zone_id", "zone_id")}

C_EnterZone_Merge == [zone_id |-> IfNonZero(0)]

C_EnterZone_Swap == {<<"zone_id", "zone_id">>}

S_EnterZone_Default == {"spawn_pos", "success", "zone_id"}

S_EnterZone_Life == [made |-> {}, zeroed |-> <<"spawn_pos", "zone_id">>, freed |-> {"spawn_pos"}]

S_EnterZone_New == {"ZeroInit"}

S_EnterZone_Copy ==
  [ whole |-> FALSE, made |-> {}, cloned |-> {<<"spawn_pos", 0>>}, raw |-> <<"success", "zone_id">>]

S_EnterZone_Clear == {When({0}, "spawn_pos", "spawn_pos"), When({1, 2}, "success", "zone_id")}

S_EnterZone_Merge == [spawn_pos |-> MergeChild(0), success |-> IfNonZero(1), zone_id |-> IfNonZero(2)]

S_EnterZone_Swap == {<<"spawn_pos", "zone_id">>}

C_Ping_Default == {"client_time"}

C_Ping_Life == [made |-> {}, zeroed |-> <<"client_time", "client_time">>, freed |-> {}]

C_Ping_New == {"ZeroInit"}

C_Ping_Copy == Memberwise

C_Ping_Clear == {Always("client_time", "client_time")}

C_Ping_Merge == [client_time |-> IfNonZero(0)]

C_Ping_Swap == {<<"client_time", "client_time">>}

S_Pong_Default == {"client_time", "server_time"}

S_Pong_Life == [made |-> {}, zeroed |-> <<"client_time", "server_time">>, freed |-> {}]

S_Pong_New == {"ZeroInit"}

S_Pong_Copy == Memberwise

S_Pong_Clear == {When({0, 1}, "client_time", "server_time")}

S_Pong_Merge == [client_time |-> IfNonZero(0), server_time |-> IfNonZero(1)]

S_Pong_Swap == {<<"client_time", "server_time">>}

C_Resurrect_New == {"ZeroInit"}

\* The members the default instance of a message initialises.
DefaultInstance ==
  [ Vector2 |-> Vector2_Default, StatInfo |-> StatInfo_Default, PlayerInfo |-> PlayerInfo_Default,
    C_EnterGame |-> C_EnterGame_Default, S_EnterGame |-> S_EnterGame_Default, S_Spawn |-> S_Spawn_Default,
    S_Despawn |-> S_Despawn_Default, S_PlayerList |-> S_PlayerList_Default,
    C_LadderState |-> C_LadderState_Default, C_InputCmd |-> C_InputCmd_Default,
    S_PlayerState |-> S_PlayerState_Default, S_BroadcastMove |-> S_BroadcastMove_Default,
    C_Attack |-> C_Attack_Default, S_AttackResult |-> S_AttackResult_Default,
    S_TakeDamage |-> S_TakeDamage_Default, S_Die |-> S_Die_Default, C_Resurrect |-> {},
    S_Resurrect |-> S_Resurrect_Default, C_Chat |-> C_Chat_Default, S_Chat |-> S_Chat_Default,
    ItemInfo |-> ItemInfo_Default, C_UseItem |-> C_UseItem_Default,
    S_InventoryUpdate |-> S_InventoryUpdate_Default, C_EnterZone |-> C_EnterZone_Default,
    S_EnterZone |-> S_EnterZone_Default, C_Ping |-> C_Ping_Default, S_Pong |-> S_Pong_Default]

\* Constructors and destructors.
Life ==
  [ Vector2 |-> Vector2_Life, StatInfo |-> StatInfo_Life, PlayerInfo |-> PlayerInfo_Life,
    C_EnterGame |-> C_EnterGame_Life, S_EnterGame |-> S_EnterGame_Life, S_Spawn |-> S_Spawn_Life,
    S_Despawn |-> S_Despawn_Life, S_PlayerList |-> S_PlayerList_Life, C_LadderState |-> C_LadderState_Life,
    C_InputCmd |-> C_InputCmd_Life, S_PlayerState |-> S_PlayerState_Life,
    S_BroadcastMove |-> S_BroadcastMove_Life, C_Attack |-> C_Attack_Life,
    S_AttackResult |-> S_AttackResult_Life, S_TakeDamage |-> S_TakeDamage_Life, S_Die |-> S_Die_Life,
    C_Resurrect |-> [made |-> {}, zeroed |-> NoSpan, freed |-> {}], S_Resurrect |-> S_Resurrect_Life,
    C_Chat |-> C_Chat_Life, S_Chat |-> S_Chat_Life, ItemInfo |-> ItemInfo_Life, C_UseItem |-> C_UseItem_Life,
    S_InventoryUpdate |-> S_InventoryUpdate_Life, C_EnterZone |-> C_EnterZone_Life,
    S_EnterZone |-> S_EnterZone_Life, C_Ping |-> C_Ping_Life, S_Pong |-> S_Pong_Life]

\* How the runtime makes an object when it parses or adds one.
New ==
  [ Vector2 |-> Vector2_New, StatInfo |-> StatInfo_New, PlayerInfo |-> PlayerInfo_New,
    C_EnterGame |-> C_EnterGame_New, S_EnterGame |-> S_EnterGame_New, S_Spawn |-> S_Spawn_New,
    S_Despawn |-> S_Despawn_New, S_PlayerList |-> S_PlayerList_New, C_LadderState |-> C_LadderState_New,
    C_InputCmd |-> C_InputCmd_New, S_PlayerState |-> S_PlayerState_New,
    S_BroadcastMove |-> S_BroadcastMove_New, C_Attack |-> C_Attack_New, S_AttackResult |-> S_AttackResult_New,
    S_TakeDamage |-> S_TakeDamage_New, S_Die |-> S_Die_New, C_Resurrect |-> C_Resurrect_New,
    S_Resurrect |-> S_Resurrect_New, C_Chat |-> C_Chat_New, S_Chat |-> S_Chat_New, ItemInfo |-> ItemInfo_New,
    C_UseItem |-> C_UseItem_New, S_InventoryUpdate |-> S_InventoryUpdate_New, C_EnterZone |-> C_EnterZone_New,
    S_EnterZone |-> S_EnterZone_New, C_Ping |-> C_Ping_New, S_Pong |-> S_Pong_New]

\* Copy constructors.
Copy ==
  [ Vector2 |-> Vector2_Copy, StatInfo |-> StatInfo_Copy, PlayerInfo |-> PlayerInfo_Copy,
    C_EnterGame |-> C_EnterGame_Copy, S_EnterGame |-> S_EnterGame_Copy, S_Spawn |-> S_Spawn_Copy,
    S_Despawn |-> S_Despawn_Copy, S_PlayerList |-> S_PlayerList_Copy, C_LadderState |-> C_LadderState_Copy,
    C_InputCmd |-> C_InputCmd_Copy, S_PlayerState |-> S_PlayerState_Copy,
    S_BroadcastMove |-> S_BroadcastMove_Copy, C_Attack |-> C_Attack_Copy,
    S_AttackResult |-> S_AttackResult_Copy, S_TakeDamage |-> S_TakeDamage_Copy, S_Die |-> S_Die_Copy,
    C_Resurrect |-> Memberwise, S_Resurrect |-> S_Resurrect_Copy, C_Chat |-> C_Chat_Copy,
    S_Chat |-> S_Chat_Copy, ItemInfo |-> ItemInfo_Copy, C_UseItem |-> C_UseItem_Copy,
    S_InventoryUpdate |-> S_InventoryUpdate_Copy, C_EnterZone |-> C_EnterZone_Copy,
    S_EnterZone |-> S_EnterZone_Copy, C_Ping |-> C_Ping_Copy, S_Pong |-> S_Pong_Copy]

\* Clear.
ClearOf ==
  [ Vector2 |-> Vector2_Clear, StatInfo |-> StatInfo_Clear, PlayerInfo |-> PlayerInfo_Clear,
    C_EnterGame |-> C_EnterGame_Clear, S_EnterGame |-> S_EnterGame_Clear, S_Spawn |-> S_Spawn_Clear,
    S_Despawn |-> S_Despawn_Clear, S_PlayerList |-> S_PlayerList_Clear, C_LadderState |-> C_LadderState_Clear,
    C_InputCmd |-> C_InputCmd_Clear, S_PlayerState |-> S_PlayerState_Clear,
    S_BroadcastMove |-> S_BroadcastMove_Clear, C_Attack |-> C_Attack_Clear,
    S_AttackResult |-> S_AttackResult_Clear, S_TakeDamage |-> S_TakeDamage_Clear, S_Die |-> S_Die_Clear,
    C_Resurrect |-> {}, S_Resurrect |-> S_Resurrect_Clear, C_Chat |-> C_Chat_Clear, S_Chat |-> S_Chat_Clear,
    ItemInfo |-> ItemInfo_Clear, C_UseItem |-> C_UseItem_Clear, S_InventoryUpdate |-> S_InventoryUpdate_Clear,
    C_EnterZone |-> C_EnterZone_Clear, S_EnterZone |-> S_EnterZone_Clear, C_Ping |-> C_Ping_Clear,
    S_Pong |-> S_Pong_Clear]

\* MergeImpl.
MergeOf ==
  [ Vector2 |-> Vector2_Merge, StatInfo |-> StatInfo_Merge, PlayerInfo |-> PlayerInfo_Merge,
    C_EnterGame |-> C_EnterGame_Merge, S_EnterGame |-> S_EnterGame_Merge, S_Spawn |-> S_Spawn_Merge,
    S_Despawn |-> S_Despawn_Merge, S_PlayerList |-> S_PlayerList_Merge, C_LadderState |-> C_LadderState_Merge,
    C_InputCmd |-> C_InputCmd_Merge, S_PlayerState |-> S_PlayerState_Merge,
    S_BroadcastMove |-> S_BroadcastMove_Merge, C_Attack |-> C_Attack_Merge,
    S_AttackResult |-> S_AttackResult_Merge, S_TakeDamage |-> S_TakeDamage_Merge, S_Die |-> S_Die_Merge,
    C_Resurrect |-> <<>>, S_Resurrect |-> S_Resurrect_Merge, C_Chat |-> C_Chat_Merge, S_Chat |-> S_Chat_Merge,
    ItemInfo |-> ItemInfo_Merge, C_UseItem |-> C_UseItem_Merge, S_InventoryUpdate |-> S_InventoryUpdate_Merge,
    C_EnterZone |-> C_EnterZone_Merge, S_EnterZone |-> S_EnterZone_Merge, C_Ping |-> C_Ping_Merge,
    S_Pong |-> S_Pong_Merge]

\* InternalSwap.
SwapOf ==
  [ Vector2 |-> Vector2_Swap, StatInfo |-> StatInfo_Swap, PlayerInfo |-> PlayerInfo_Swap,
    C_EnterGame |-> C_EnterGame_Swap, S_EnterGame |-> S_EnterGame_Swap, S_Spawn |-> S_Spawn_Swap,
    S_Despawn |-> S_Despawn_Swap, S_PlayerList |-> S_PlayerList_Swap, C_LadderState |-> C_LadderState_Swap,
    C_InputCmd |-> C_InputCmd_Swap, S_PlayerState |-> S_PlayerState_Swap,
    S_BroadcastMove |-> S_BroadcastMove_Swap, C_Attack |-> C_Attack_Swap,
    S_AttackResult |-> S_AttackResult_Swap, S_TakeDamage |-> S_TakeDamage_Swap, S_Die |-> S_Die_Swap,
    C_Resurrect |-> {}, S_Resurrect |-> S_Resurrect_Swap, C_Chat |-> C_Chat_Swap, S_Chat |-> S_Chat_Swap,
    ItemInfo |-> ItemInfo_Swap, C_UseItem |-> C_UseItem_Swap, S_InventoryUpdate |-> S_InventoryUpdate_Swap,
    C_EnterZone |-> C_EnterZone_Swap, S_EnterZone |-> S_EnterZone_Swap, C_Ping |-> C_Ping_Swap,
    S_Pong |-> S_Pong_Swap]
============================================================================
