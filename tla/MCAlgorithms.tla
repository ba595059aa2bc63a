---------------------------- MODULE MCAlgorithms ----------------------------
(***************************************************************************)
(* The pure parts of the system, one per behaviour with the others at      *)
(* rest: A* on every map of a small grid between every two of its cells    *)
(* and a point outside it; every goal of the simulation's map; the codec   *)
(* on a bounded stream; and every text of a few names.                     *)
(***************************************************************************)
EXTENDS Nav, FrameCodec, JsonUtil

VARIABLES
  part,   \* which of the four is examined: "planner", "goals", "codec" or "json"
  asked   \* the goal of the part "goals"

AllMaps   == SUBSET Cells
AllPoints == {<<2 * c[1] + 1, 2 * c[2] + 1>> : c \in Cells \cup {<<Width, 0>>}}

\* Every way from a cell to another that enters no cell twice.
RECURSIVE WaysOn(_, _)
WaysOn(way, b) ==
  LET a == way[Len(way)]
  IN  IF a = b THEN {way}
      ELSE UNION {WaysOn(Append(way, e), b) :
                    e \in {Shift(a, d) : d \in Dirs} \cap (Cells \ Range(way))}

AllRoutes == [ends \in Cells \X Cells |-> WaysOn(<<ends[1]>>, ends[2])]

-----------------------------------------------------------------------------
(* The map of the simulation, 40 x 20 cells *)
Demo == INSTANCE Nav WITH Width <- 40, Height <- 20, Maps <- {}, Points <- {},
                          Routes <- <<>>

\* The cells of `free` connected with those of seen, side by side.
RECURSIVE Reachable(_, _, _)
Reachable(free, seen, front) ==
  LET next == ({Shift(c, d) : c \in front, d \in Disc(1)} \cap free) \ seen
  IN  IF next = {} THEN seen ELSE Reachable(free, seen \cup next, next)

DemoMap  == Demo!Inflate(Demo!CorridorDemo, 1)
DemoFree == Demo!Cells \ DemoMap
DemoReachable ==
  LET start == {CHOOSE c \in DemoFree : TRUE} IN Reachable(DemoFree, start, start)

\* On the map on_cmd plans with, every goal that lies in the map can be planned
\* from wherever the robot stands, also one inside an inflated wall: free cells are
\* connected and every cell has one near (make_corridor_demo, inflate, snap_free).
\* Nothing is claimed of x = 20 and y = 5: on_cmd admits them and they lie in no
\* cell of the map.
DemoGoalsPlannable ==
  part = "goals" /\ Demo!InsideMap(asked) =>
    /\ DemoReachable = DemoFree
    /\ Demo!SnapFree(DemoMap, Demo!WorldToCell(asked)) \in DemoFree

-----------------------------------------------------------------------------
(* Framing, with frames of at most 12 bytes behind the length *)
Frame(seq, payload) == [type |-> 16, flags |-> 1, seq |-> seq, payload |-> payload]

\* An empty frame, one whose number needs both its bytes, and one whose payload
\* looks like a length.
MCFrames == {Frame(0, <<>>), Frame(258, <<7>>), Frame(258, <<4, 0, 0, 0, 9>>)}

Zeros(n) == [k \in 1..n |-> 0]

\* Lengths too short, too long by one and by far, and one that more bytes complete.
MCGarbage ==
  {<<3, 0, 0, 0, 1>>, <<13, 0, 0, 0>> \o Zeros(16), <<0, 1, 0, 0>>, <<5, 0, 0, 0, 1>>}

-----------------------------------------------------------------------------
(* Reading JSON: an id like any other, and every key of the texts *)
MCNames == {"T-1", "seq", "cmd", "payload", "task_id", "timeout_s", "type", "x", "y",
            "estop", "detail"}

SomeMessage == [kind |-> "result", id |-> Str("T-1")]

-----------------------------------------------------------------------------
PlannerAtRest ==
  /\ map = {} /\ goal = NoCell /\ from = NoCell /\ to = NoCell /\ open = {} /\ path = <<>>
  /\ came = <<>> /\ gscore = <<>> /\ pc = "none"

MCInit ==
  /\ part \in {"planner", "goals", "codec", "json"}
  /\ IF part = "planner" THEN Init ELSE PlannerAtRest
  /\ IF part = "goals" THEN asked \in Demo!Admitted ELSE asked = <<0, 0>>
  /\ CodecInit
  /\ message = SomeMessage

Planner == part = "planner" /\ Next /\ UNCHANGED <<codecVars, message>>
Codec   == part = "codec" /\ CodecNext /\ UNCHANGED <<vars, message>>
\* Each text once: what was published before has no effect.
Json    == /\ part = "json" /\ message = SomeMessage /\ Publish
           /\ UNCHANGED <<vars, codecVars>>

MCNext == (Planner \/ Codec \/ Json) /\ UNCHANGED <<part, asked>>

allVars == <<vars, codecVars, message, part, asked>>

MCSpec == MCInit /\ [][MCNext]_allVars /\ WF_allVars(Planner /\ UNCHANGED <<part, asked>>)
=============================================================================
