-------------------------- MODULE UpstreamTraversal --------------------------
(***************************************************************************)
(* collect_upstream: the inclusive breadth-first walk from a terminal unit *)
(* up the drainage graph, and the same-level check of                      *)
(* Engine::traverse_upstream_at_level on what it found.                    *)
(*                                                                         *)
(* The graph maps a unit to the sequence of its upstream ids: ids may      *)
(* repeat, name no unit, or lead back downstream.  It is picked once, in   *)
(* Init, with the terminal and the selected level.  PassOver, Dangle and   *)
(* Discover are the ways through one turn of the inner loop over           *)
(* row.upstream_ids().                                                     *)
(***************************************************************************)
EXTENDS Naturals, Sequences, Functions

CONSTANTS
  Ids,      \* unit ids, whether or not the graph has a row for them
  Levels,   \* drainage-unit levels
  Graphs    \* the drainage graphs considered

ASSUME UpstreamAssumption ==
  \A g \in Graphs : DOMAIN g \subseteq Ids /\ g \in [DOMAIN g -> Seq(Ids)]

VARIABLES
  graph,       \* the DrainageGraph
  level,       \* [Ids -> Levels]: DatasetSession::level_of
  terminal,    \* the resolved terminal unit
  selected,    \* the selected level
  queue,       \* VecDeque of units found and not yet expanded
  units,       \* Vec of units expanded, in order
  visited,     \* HashSet of units found
  downstream,  \* HashMap: the unit through which each unit was first reached
  todo,        \* the rest of the row of the unit expanded last
  result       \* how the call stands

problem == <<graph, level, terminal, selected>>
vars == <<problem, queue, units, visited, downstream, todo, result>>

Units == DOMAIN graph

TypeOK ==
  /\ Units \subseteq Ids
  /\ graph \in [Units -> Seq(Ids)]
  /\ level \in [Ids -> Levels]
  /\ terminal \in Ids
  /\ selected \in Levels
  /\ queue \in Seq(Units)
  /\ units \in Seq(Units)
  /\ visited \subseteq Units
  /\ downstream \in [visited \ {terminal} -> Units]
  /\ todo \in Seq(Ids)
  /\ result \in {"start", "running", "ok", "terminalNotFound",
                 "danglingUpstreamRef", "sameLevelInvariant"}

Init ==
  /\ graph \in Graphs
  /\ level \in [Ids -> Levels]
  /\ terminal \in Ids
  /\ selected \in Levels
  /\ queue = << >>
  /\ units = << >>
  /\ visited = {}
  /\ downstream = << >>
  /\ todo = << >>
  /\ result = "start"

(* Mutant of Begin: the terminal is queued and not marked. *)
BeginUnmarked ==
  /\ result = "start"
  /\ terminal \in Units
  /\ queue' = <<terminal>>
  /\ result' = "running"
  /\ UNCHANGED <<problem, visited, units, downstream, todo>>

(* The terminal needs a row; then it is the first unit found. *)
Begin ==
  /\ result = "start"
  /\ IF terminal \in Units
     THEN /\ visited' = {terminal}
          /\ queue' = <<terminal>>
          /\ result' = "running"
     ELSE /\ result' = "terminalNotFound"
          /\ UNCHANGED <<queue, visited>>
  /\ UNCHANGED <<problem, units, downstream, todo>>

(* Mutant of Expand: only the first upstream id, the mainstem. *)
ExpandMainstem ==
  /\ result = "running" /\ todo = << >> /\ queue # << >>
  /\ queue' = Tail(queue)
  /\ units' = Append(units, Head(queue))
  /\ LET row == graph[Head(queue)] IN
       todo' = IF row = << >> THEN row ELSE <<Head(row)>>
  /\ UNCHANGED <<problem, visited, downstream, result>>

(* Some(current) = queue.pop_front(): record it and take up its row. *)
Expand ==
  /\ result = "running" /\ todo = << >> /\ queue # << >>
  /\ queue' = Tail(queue)
  /\ units' = Append(units, Head(queue))
  /\ todo' = graph[Head(queue)]
  /\ UNCHANGED <<problem, visited, downstream, result>>

Current == units[Len(units)]

(* Mutant of PassOver: the downstream map takes the last edge seen. *)
PassOverRemapping ==
  /\ result = "running" /\ todo # << >>
  /\ Head(todo) \in visited
  /\ todo' = Tail(todo)
  /\ downstream' = [x \in DOMAIN downstream \cup {Head(todo)} |->
                      IF x = Head(todo) THEN Current ELSE downstream[x]]
  /\ UNCHANGED <<problem, queue, units, visited, result>>

(* An id found before is passed over. *)
PassOver ==
  /\ result = "running" /\ todo # << >>
  /\ Head(todo) \in visited
  /\ todo' = Tail(todo)
  /\ UNCHANGED <<problem, queue, units, visited, downstream, result>>

(* Mutants of Dangle: a dangling id is skipped; or put off. *)
DangleSkipped ==
  /\ result = "running" /\ todo # << >>
  /\ Head(todo) \notin visited \cup Units
  /\ todo' = Tail(todo)
  /\ UNCHANGED <<problem, queue, units, visited, downstream, result>>

DanglePutOff ==
  /\ result = "running" /\ todo # << >>
  /\ Head(todo) \notin visited \cup Units
  /\ todo' = Append(Tail(todo), Head(todo))
  /\ UNCHANGED <<problem, queue, units, visited, downstream, result>>

(* An id without a row ends the call. *)
Dangle ==
  /\ result = "running" /\ todo # << >>
  /\ Head(todo) \notin visited
  /\ Head(todo) \notin Units
  /\ result' = "danglingUpstreamRef"
  /\ UNCHANGED <<problem, queue, units, visited, downstream, todo>>

(* Mutant of Discover: the id's row is not looked up first. *)
DiscoverUnchecked ==
  /\ result = "running" /\ todo # << >>
  /\ Head(todo) \notin visited
  /\ visited' = visited \cup {Head(todo)}
  /\ downstream' = [x \in DOMAIN downstream \cup {Head(todo)} |->
                      IF x = Head(todo) THEN Current ELSE downstream[x]]
  /\ queue' = Append(queue, Head(todo))
  /\ todo' = Tail(todo)
  /\ UNCHANGED <<problem, units, result>>

(* A new unit: current is its downstream neighbour in the result. *)
Discover ==
  /\ result = "running" /\ todo # << >>
  /\ LET id == Head(todo) IN
       /\ id \notin visited
       /\ id \in Units
       /\ visited' = visited \cup {id}
       /\ downstream' = [x \in DOMAIN downstream \cup {id} |->
                           IF x = id THEN Current ELSE downstream[x]]
       /\ queue' = Append(queue, id)
  /\ todo' = Tail(todo)
  /\ UNCHANGED <<problem, units, result>>

(* Mutant of Finish: the level check runs over the whole graph. *)
FinishAllUnits ==
  /\ result = "running" /\ todo = << >> /\ queue = << >>
  /\ result' = IF \A u \in Units : level[u] = selected
               THEN "ok" ELSE "sameLevelInvariant"
  /\ UNCHANGED <<problem, queue, units, visited, downstream, todo>>

(* The queue ran empty: every unit found must be of the selected level. *)
Finish ==
  /\ result = "running" /\ todo = << >> /\ queue = << >>
  /\ result' = IF \A i \in 1..Len(units) : level[units[i]] = selected
               THEN "ok" ELSE "sameLevelInvariant"
  /\ UNCHANGED <<problem, queue, units, visited, downstream, todo>>

Next == Begin \/ Expand \/ PassOver \/ Dangle \/ Discover \/ Finish

Spec == Init /\ [][Next]_vars
FairSpec == Spec /\ WF_vars(Next)

-----------------------------------------------------------------------------
(* Reference definitions. *)

(* S holds the terminal and every upstream id of its members. *)
ClosedUpstream(S) ==
  /\ terminal \in S
  /\ \A u \in S \cap Units : Range(graph[u]) \subseteq S

(* The terminal and everything that drains to it, with or without a row. *)
Upstream == {u \in Ids : \A S \in SUBSET Ids : ClosedUpstream(S) => u \in S}

(* Every edge joins units of one level: what validate_graph_catchments has *)
(* established of the graph before a session exists.                       *)
EdgesSameLevel ==
  \A u \in Units : \A v \in Range(graph[u]) : level[v] = level[u]

Found == result \in {"ok", "sameLevelInvariant"}

-----------------------------------------------------------------------------
(* Properties. *)

(* A call that runs to its end lists exactly the units upstream of the     *)
(* terminal, cycles and diamonds notwithstanding; each of them once, the   *)
(* terminal first, whichever of several paths reached it.                  *)
FindsUpstream ==
  Found =>
    /\ Range(units) = Upstream
    /\ \A i, j \in 1..Len(units) : units[i] = units[j] => i = j
    /\ units[1] = terminal

(* The downstream map is a tree over real drainage edges: every unit but   *)
(* the terminal drains to one that was listed before it, so following the  *)
(* map from anywhere ends at the terminal, even when the graph has cycles. *)
DownstreamIsTree ==
  /\ DOMAIN downstream = visited \ {terminal}
  /\ \A u \in DOMAIN downstream : u \in Range(graph[downstream[u]])
  /\ \A i \in 2..Len(units) : \E j \in 1..(i - 1) :
       downstream[units[i]] = units[j]

(* A dangling reference is reported if and only if the part of the graph   *)
(* upstream of the terminal has one; elsewhere they go unnoticed.          *)
DanglingExact ==
  /\ result = "danglingUpstreamRef" => ~ Upstream \subseteq Units
  /\ Found => Upstream \subseteq Units

(* In a session that passed validation the same-level check never fires    *)
(* for a terminal of the selected level.                                   *)
SameLevelUnreachable ==
  EdgesSameLevel /\ level[terminal] = selected
    => result # "sameLevelInvariant"

(* The walk ends on every graph, cyclic ones included. *)
Terminates == <>(result \notin {"start", "running"})

=============================================================================
