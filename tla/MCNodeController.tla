-------------------------- MODULE MCNodeController --------------------------
(* Small instances of NodeController for TLC. *)
EXTENDS NodeController

String(s) == [kind |-> "string", content |-> s]
Bool(b)   == [kind |-> "bool", content |-> b]
Json(obj) == [form |-> "object", object |-> obj]

Monitor == Json([command |-> String("monitor"), activate |-> Bool("true"), protocol |-> String("pva"),
                 channel_name |-> String("c1"), dest_topic |-> String("t1")])
(* A get command whose topic is not a string. *)
BadGet  == Json([command |-> String("get"), protocol |-> String("pva"),
                 channel_name |-> String("c1"), dest_topic |-> Bool("true")])

MCPayloads == {Monitor, BadGet}

=============================================================================
