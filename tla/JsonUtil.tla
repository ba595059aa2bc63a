------------------------------ MODULE JsonUtil ------------------------------
(***************************************************************************)
(* How the bridge (bridge/src/json_util.cpp) and the robot                 *)
(* (sim/src/fake_robot.cpp) find a value in a JSON text without parsing    *)
(* it.  A text is a sequence of tokens <<kind, content>>: punctuation,     *)
(* numbers, literals, strings, and strings with a quotation mark in them,  *)
(* known by what stands behind the last one (kind "quoted"): the escaped   *)
(* form  "a\"x"  contains the text  "x".                                   *)
(***************************************************************************)
EXTENDS Integers, Sequences, FiniteSets, FiniteSetsExt

CONSTANT Names  \* what an operator may type as a task id, and what a fault may state

ASSUME NamesAssumption == Names \subseteq STRING

VARIABLE message  \* what was last written to a topic

Sym(c) == <<"sym", c>>
Num(v) == <<"num", v>>
Lit(v) == <<"lit", v>>
Str(v) == <<"str", v>>

None == <<"none", "">>

\* obj.find("\"" + key + "\""): the tokens where the needle matches.
Matching(token, key) == token \in {Str(key), <<"quoted", key>>}

Matches(text, key) == {i \in 1..Len(text) : Matching(text[i], key)}

Colons(text) == {i \in 1..Len(text) : text[i] = Sym(":")}

TokenAt(text, i) == IF i \in 1..Len(text) THEN text[i] ELSE None

-----------------------------------------------------------------------------
(* The bridge *)

\* Faulty variant: the first match is taken for the key.
FirstMatch(text, key) ==
  LET found == Matches(text, key)
  IN  IF found = {} THEN None ELSE TokenAt(text, Min(found) + 2)

\* find_key_value: the first match with a colon behind it.
FindKeyValue(text, key) ==
  LET keys == {i \in Matches(text, key) : i + 1 \in Colons(text)}
  IN  IF keys = {} THEN None ELSE TokenAt(text, Min(keys) + 2)

\* get_int
GetInt(text, key) ==
  LET v == FindKeyValue(text, key) IN IF v[1] = "num" THEN v ELSE None

\* get_bool
GetBool(text, key) ==
  LET v == FindKeyValue(text, key)
  IN  IF v \in {Lit("true"), Lit("false")} THEN v ELSE None

-----------------------------------------------------------------------------
(* The robot *)

\* Faulty variant: rfind in place of find.
ExtractLast(text, key) ==
  LET found  == Matches(text, key)
      colons == {j \in Colons(text) : j > Max(found)}
  IN  IF found = {} \/ colons = {} THEN None ELSE TokenAt(text, Min(colons) + 1)

\* extract_string, extract_number, extract_bool: the first match, and whatever
\* stands behind the next colon.
Extract(text, key) ==
  LET found  == Matches(text, key)
      colons == {j \in Colons(text) : j > Min(found)}
  IN  IF found = {} \/ colons = {} THEN None ELSE TokenAt(text, Min(colons) + 1)

ExtractString(text, key) ==
  LET v == Extract(text, key) IN IF v[1] \in {"str", "quoted"} THEN v ELSE None

ExtractNumber(text, key) ==
  LET v == Extract(text, key) IN IF v[1] = "num" THEN v ELSE None

-----------------------------------------------------------------------------
(* The texts *)

TaskTypes == {"goto", "pause", "resume", "cancel"}

\* publish_cmd_envelope around what sendCmdTask sends; QJsonObject writes its keys in
\* alphabetical order.
GotoText(id) ==
  <<Sym("{"), Str("seq"), Sym(":"), Num("7"), Sym(","),
    Str("cmd"), Sym(":"), Str("CMD_TASK"), Sym(","),
    Str("payload"), Sym(":"), Sym("{"),
      Str("task_id"), Sym(":"), id, Sym(","),
      Str("timeout_s"), Sym(":"), Num("timeout"), Sym(","),
      Str("type"), Sym(":"), Str("goto"), Sym(","),
      Str("x"), Sym(":"), Num("3"), Sym(","),
      Str("y"), Sym(":"), Num("4"), Sym("}"), Sym("}")>>

TaskText(id, type) ==
  <<Sym("{"), Str("seq"), Sym(":"), Num("7"), Sym(","),
    Str("cmd"), Sym(":"), Str("CMD_TASK"), Sym(","),
    Str("payload"), Sym(":"), Sym("{"),
      Str("task_id"), Sym(":"), id, Sym(","),
      Str("type"), Sym(":"), Str(type), Sym("}"), Sym("}")>>

CommandText(id, type) == IF type = "goto" THEN GotoText(id) ELSE TaskText(id, type)

\* publish_cmd_result
CmdResult(id) ==
  <<Sym("{"), Str("seq"), Sym(":"), Num("7"), Sym(","),
    Str("ok"), Sym(":"), Lit("true"), Sym(","),
    Str("cmd"), Sym(":"), Str("CMD_TASK"), Sym(","),
    Str("task_id"), Sym(":"), id, Sym("}")>>

\* build_state_json: the task and a fault stand before the estop flag.
StateText(id, detail, estop) ==
  <<Sym("{"), Str("task"), Sym(":"), Sym("{"),
      Str("id"), Sym(":"), id, Sym("}"), Sym(","),
    Str("faults"), Sym(":"), Sym("["), Sym("{"),
      Str("detail"), Sym(":"), detail, Sym("}"), Sym("]"), Sym(","),
    Str("estop"), Sym(":"), Lit(estop), Sym("}")>>

Strings == {"str", "quoted"} \X Names

Messages ==
  [kind : {"command"}, id : Strings, type : TaskTypes]
    \cup [kind : {"result"}, id : Strings]
    \cup [kind : {"state"}, id : Strings, detail : Strings, estop : {"true", "false"}]

JsonInit == message \in Messages

Publish == message' \in Messages

JsonSpec == JsonInit /\ [][Publish]_message

-----------------------------------------------------------------------------
(***************************************************************************)
(* Properties                                                              *)
(***************************************************************************)
ReadRight(id, type) ==
  LET text == CommandText(id, type)
  IN  /\ ExtractNumber(text, "seq") = Num("7")
      /\ ExtractString(text, "cmd") = Str("CMD_TASK")
      /\ ExtractString(text, "task_id") = id
      /\ ExtractString(text, "type") = Str(type)
      /\ type = "goto" => /\ ExtractNumber(text, "x") = Num("3")
                          /\ ExtractNumber(text, "y") = Num("4")

\* The robot reads what the operator sent, whatever he typed as the task id of a
\* command, except the names of the fields behind it: a goto whose id is x, y or
\* type is read with the timeout in the place of that field.
CommandsReadRight ==
  message.kind = "command" =>
    (ReadRight(message.id, message.type)
       <=> ~(message.type = "goto" /\ message.id[2] \in {"type", "x", "y"}))

\* The bridge finds the estop flag of a state and the number of a result, whatever
\* task ids and fault details the robot put before them.
LookupFindsKeys ==
  /\ message.kind = "state" =>
       GetBool(StateText(message.id, message.detail, message.estop), "estop")
         = Lit(message.estop)
  /\ message.kind = "result" => GetInt(CmdResult(message.id), "seq") = Num("7")
=============================================================================
