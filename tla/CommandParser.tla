--------------------------- MODULE CommandParser ---------------------------
(***************************************************************************)
(* MapToCommand: what becomes of the json object of a command message.     *)
(*                                                                         *)
(* An object is a function from its keys to its values, and a value is a   *)
(* record of its boost::json::kind and its content.  A field is read as    *)
(* fields->find(key)->second whether or not checkFields found it; for a    *)
(* missing one that is what lies behind the end of a map, where any_cast   *)
(* throws or the process dies.                                             *)
(***************************************************************************)

\* The fields of every type of command and their kinds, as parse lists them.
Fields ==
  [monitor |-> [activate |-> "bool", protocol |-> "string", channel_name |-> "string",
                dest_topic |-> "string"],
   get     |-> [protocol |-> "string", channel_name |-> "string", dest_topic |-> "string"],
   put     |-> [protocol |-> "string", channel_name |-> "string", value |-> "string"],
   info    |-> [protocol |-> "string", channel_name |-> "string", dest_topic |-> "string"]]

Throws == [end |-> "throws"]
Null   == [end |-> "null"]
Dies   == [end |-> "dies"]
Made(type, found) == [end |-> "command", type |-> type, field |-> found]

\* getCMDType: as_string() throws for a value of another kind.
TypeOf(obj) ==
  IF "command" \notin DOMAIN obj THEN "unknown"
  ELSE IF obj["command"].kind # "string" THEN "not a string"
  ELSE IF obj["command"].content \in DOMAIN Fields THEN obj["command"].content
  ELSE "unknown"

\* checkFields: the fields that are present with the right kind, never null.
CheckFields(obj, fields) ==
  [k \in {f \in DOMAIN fields \cap DOMAIN obj : obj[f].kind = fields[f]} |-> obj[k].content]

\* The outcomes parse may have.
Parse(obj) ==
  LET type  == TypeOf(obj)
      found == CheckFields(obj, Fields[type]) IN
  IF type = "not a string" THEN {Throws}
  ELSE IF type = "unknown" THEN {Null}
  ELSE IF DOMAIN found = DOMAIN Fields[type] THEN {Made(type, found)}
  ELSE {Throws, Dies}

\* A message on the command topic: nothing, text that is no json object, or a
\* json object.  consume() skips the first; the parse of the second throws or
\* is logged.
Outcomes(payload) ==
  IF payload.form = "empty" THEN {Null}
  ELSE IF payload.form = "text" THEN {Throws}
  ELSE Parse(payload.object)

=============================================================================
