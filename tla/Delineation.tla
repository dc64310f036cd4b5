---------------------------- MODULE Delineation ----------------------------
(***************************************************************************)
(* Engine::delineate and delineate_batch, and the staged calls that end in *)
(* upstream_reaches or in the pre-merge units: a session is opened and its *)
(* graph, catchments and snaps validated against each other; then each     *)
(* call of a batch, on a pool of threads, resolves an outlet, walks the    *)
(* graph, reads the catchment rows in two queries, refines the terminal    *)
(* and dissolves.  The catchment file may be overwritten meanwhile; graph, *)
(* id index and snaps stay those of the open.                              *)
(*                                                                         *)
(* Resolving and refining are taken by what their own modules show of      *)
(* them; a geometry is a set of unit cells, each named by its south-west   *)
(* corner <<x, y>>.                                                        *)
(***************************************************************************)
EXTENDS Integers, FiniteSets, Sequences, SequencesExt, FiniteSetsExt, Functions

CONSTANTS
  Calls,     \* the places of a batch: 1..n
  Datasets,  \* [count, version, graph, snap, groups, uploads]: see below
  Modes,     \* [Calls -> a refinement mode, "units" or "reaches"], as a set
  Threads,   \* calls that run at once
  Lossy,     \* calls whose reads may fail
  None

Area(cells) == cells \subseteq Int \X Int /\ IsFiniteSet(cells)

(* graph is [id -> [level, upstream]], upstream a sequence of ids; groups  *)
(* gives the row group of each place of the catchment file.  An upload     *)
(* laid out as the first is [place -> [id, level, cells, fault]]; the      *)
(* fault of its geometry is "null", "wkb" (it does not decode) or "none".  *)
(* None stands for an upload laid out otherwise: a read of it fails.       *)
(*                                                                         *)
(* snap is None or [levels, rows], its rows [group, unit, cells, boxed,    *)
(* fault] in file order: boxed if the row has a bbox of its own; "corrupt" *)
(* if the row is refused before its place is looked at, "value" if after,  *)
(* "point" if it has no length.                                            *)
Upload(d, rows) ==
  /\ DOMAIN rows = DOMAIN d.groups
  /\ \A row \in Range(rows) :
       /\ row.id \in Int /\ row.level \in Int
       /\ Area(row.cells) /\ row.fault \in {"none", "null", "wkb"}

Dataset(d) ==
  /\ DOMAIN d.graph \subseteq Int /\ IsFiniteSet(DOMAIN d.graph)
  /\ \A u \in DOMAIN d.graph : d.graph[u].level \in Int /\ d.graph[u].upstream \in Seq(Int)
  /\ d.snap # None =>
       /\ d.snap.rows \in Seq(Range(d.snap.rows))
       /\ \A s \in Range(d.snap.rows) :
            /\ Area(s.cells) /\ s.cells # {}
            /\ s.fault \in {"none", "corrupt", "value", "point"}
  /\ d.groups \in Seq(Nat) \ {<< >>}
  /\ d.uploads \in Seq(Range(d.uploads)) \ {<< >>} /\ d.uploads[1] # None
  /\ \A rows \in Range(d.uploads) \ {None} : Upload(d, rows)

ASSUME DelineationAssumption ==
  /\ Threads \in Nat \ {0} /\ Lossy \subseteq Calls
  /\ Modes \subseteq [Calls -> {"disabled", "best_effort", "require_d8", "units", "reaches"}]
  /\ \A d \in Datasets : Dataset(d)

VARIABLES
  data, mode,
  object,    \* the upload now at the URL
  index,     \* the store's id index, [id -> row group]; None until it is open
  pc,        \* [Calls -> the next stage]
  terminal,  \* [Calls -> the resolved unit]
  upstream,  \* [Calls -> [units, down, at, next]]: see Begin
  meta,      \* [Calls -> [id -> level]]: the first query
  units,     \* [Calls -> [id -> cells]]: pre-merge units
  refined,   \* [Calls -> the refined cells, {} if there are none]
  result,    \* [Calls -> [error, ...]], error << >> for an answer
  lost       \* history: calls one of whose reads failed

calls == <<terminal, upstream, meta, units, refined>>
batchVars == <<data, mode, object, index, pc, calls, result, lost>>

(* level_of and max_level *)
LevelOf(u) == data.graph[u].level

Finest == Max({LevelOf(u) : u \in DOMAIN data.graph})

-----------------------------------------------------------------------------
(* A row group's column is got by a request of its own, with no condition, *)
(* and through a cache of chunks: each may come from another upload.       *)

RowPlaces == DOMAIN data.groups

Alike == {n \in 1..object : data.uploads[n] # None}

Mixes(columns) == [Range(data.groups) \X columns -> Alike]

From(at, p, column) == data.uploads[at[<<data.groups[p], column>>]][p]

Id(at, p) == From(at, p, "id").id

LevelAt(at, p) == From(at, p, "level").level

Shape(at, p) == From(at, p, "geometry")

(* The place whose row is left in a map keyed by id. *)
LastPlace(at, places, u) == Max({p \in places : Id(at, p) = u})

Ids(at, places) == {Id(at, p) : p \in places}

-----------------------------------------------------------------------------

Init ==
  /\ data \in Datasets /\ mode \in Modes
  /\ object = 1 /\ lost = {} /\ index = None
  /\ pc = [c \in Calls |-> "closed"]
  /\ terminal = [c \in Calls |-> None] /\ upstream = [c \in Calls |-> None]
  /\ meta = [c \in Calls |-> << >>] /\ units = [c \in Calls |-> << >>]
  /\ refined = [c \in Calls |-> {}] /\ result = [c \in Calls |-> None]

Counts == data.count = Len(data.groups) /\ Cardinality(DOMAIN data.graph) = Len(data.groups)

(* Mutant of GraphMatches: an edge may lead to another level. *)
GraphMatchesCrossing(scan, again) ==
  /\ Counts /\ Ids(scan, RowPlaces) \subseteq DOMAIN data.graph
  /\ \A u \in DOMAIN data.graph :
       /\ u \in Ids(scan, RowPlaces) /\ u \in Ids(again, RowPlaces)
       /\ LevelAt(again, LastPlace(again, RowPlaces, u)) = LevelOf(u)
       /\ Range(data.graph[u].upstream) \subseteq Ids(scan, RowPlaces) \cap Ids(again, RowPlaces)

(* validate_graph_catchments: the ids of the scan that built the id index, *)
(* the levels of a second one.                                             *)
GraphMatches(scan, again) ==
  /\ Counts /\ Ids(scan, RowPlaces) \subseteq DOMAIN data.graph
  /\ \A u \in DOMAIN data.graph :
       /\ u \in Ids(scan, RowPlaces) /\ u \in Ids(again, RowPlaces)
       /\ LevelAt(again, LastPlace(again, RowPlaces, u)) = LevelOf(u)
       /\ \A v \in Range(data.graph[u].upstream) :
            /\ v \in Ids(scan, RowPlaces) /\ v \in Ids(again, RowPlaces)
            /\ LevelAt(again, LastPlace(again, RowPlaces, v)) = LevelOf(u)

(* validate_snap_refs *)
SnapMatches(again) ==
  data.snap # None =>
    \A s \in Range(data.snap.rows) :
      /\ s.unit \in Ids(again, RowPlaces)
      /\ LevelAt(again, LastPlace(again, RowPlaces, s.unit)) \in data.snap.levels

(* The id index takes no id twice. *)
Distinct(scan) == \A p, q \in RowPlaces : Id(scan, p) = Id(scan, q) => p = q

(* The session a batch runs on. *)
Open ==
  /\ index = None /\ \A c \in Calls : pc[c] = "closed"
  /\ \E scan \in Mixes({"id"}), again \in Mixes({"id", "level"}) :
       /\ Distinct(scan) /\ GraphMatches(scan, again) /\ SnapMatches(again)
       /\ index' = [u \in Ids(scan, RowPlaces) |-> data.groups[LastPlace(scan, RowPlaces, u)]]
  /\ pc' = [c \in Calls |-> "resolve"]
  /\ UNCHANGED <<data, mode, object, calls, result, lost>>

Refuse ==
  /\ index = None /\ \A c \in Calls : pc[c] = "closed"
  /\ \/ Alike # 1..object
     \/ \E scan \in Mixes({"id"}), again \in Mixes({"id", "level"}) :
          ~(Distinct(scan) /\ GraphMatches(scan, again) /\ SnapMatches(again))
  /\ pc' = [c \in Calls |-> "done"]
  /\ result' = [c \in Calls |-> [error |-> <<"integrity">>]]
  /\ UNCHANGED <<data, mode, object, index, calls, lost>>

-----------------------------------------------------------------------------

Goto(c, stage) == pc' = [pc EXCEPT ![c] = stage] /\ UNCHANGED result

Fail(c, error) ==
  pc' = [pc EXCEPT ![c] = "done"] /\ result' = [result EXCEPT ![c] = [error |-> error]]

(* snap_for_level finds the snaps. *)
HasSnaps == data.snap # None /\ Finest \in data.snap.levels

(* select_level and resolve_outlet_at_level, on a thread of the pool: the  *)
(* unit of a snap, of the finest level by the graph; without snaps that of *)
(* a catchment row, of the finest level by the row itself; or an error of  *)
(* the resolver.                                                           *)
Resolve(c) ==
  /\ pc[c] = "resolve"
  /\ Cardinality({d \in Calls : pc[d] \notin {"resolve", "done"}}) < Threads
  /\ \/ /\ HasSnaps /\ Goto(c, "traverse")
        /\ \E s \in Range(data.snap.rows) :
             /\ s.unit \in DOMAIN data.graph /\ LevelOf(s.unit) = Finest
             /\ terminal' = [terminal EXCEPT ![c] = s.unit]
     \/ /\ ~HasSnaps /\ Goto(c, "traverse")
        /\ \E p \in RowPlaces, at \in Mixes({"id", "level"}) :
             /\ LevelAt(at, p) = Finest
             /\ terminal' = [terminal EXCEPT ![c] = Id(at, p)]
     \/ Fail(c, <<"resolution">>) /\ UNCHANGED terminal
  /\ UNCHANGED <<data, mode, object, index, upstream, meta, units, refined, lost>>

(* collect_upstream.  units are the ids in the order in which they were    *)
(* found, which is that of the queue: what is queued are those from at on. *)
(* Of the row of units[at], the ids before next were looked at.            *)
Begin(c) ==
  /\ pc[c] = "traverse"
  /\ IF terminal[c] \in DOMAIN data.graph
     THEN /\ Goto(c, "walk")
          /\ upstream' = [upstream EXCEPT ![c] =
               [units |-> <<terminal[c]>>, down |-> << >>, at |-> 1, next |-> 1]]
     ELSE Fail(c, <<"traversal">>) /\ UNCHANGED upstream
  /\ UNCHANGED <<data, mode, object, index, terminal, meta, units, refined, lost>>

(* With v the first time, its next unit downstream is u. *)
Found(walk, u, v) ==
  [walk EXCEPT !.units = Append(@, v), !.next = @ + 1,
               !.down = [d \in DOMAIN @ \cup {v} |-> IF d = v THEN u ELSE @[d]]]

(* The next upstream id, or the next of the queue. *)
Walk(c) ==
  /\ pc[c] = "walk" /\ upstream[c].at <= Len(upstream[c].units)
  /\ LET walk == upstream[c]
         u == walk.units[walk.at]
         row == data.graph[u].upstream
         v == row[walk.next]
         Turn(w) == upstream' = [upstream EXCEPT ![c] = w] /\ UNCHANGED <<pc, result>>
     IN IF walk.next > Len(row) THEN Turn([walk EXCEPT !.at = @ + 1, !.next = 1])
        ELSE IF v \in Range(walk.units) THEN Turn([walk EXCEPT !.next = @ + 1])
        ELSE IF v \in DOMAIN data.graph THEN Turn(Found(walk, u, v))
        ELSE Fail(c, <<"traversal">>) /\ UNCHANGED upstream
  /\ UNCHANGED <<data, mode, object, index, terminal, meta, units, refined, lost>>

(* traverse_upstream_at_level, when collect_upstream has returned. *)
Traversed(c) ==
  /\ pc[c] = "walk" /\ upstream[c].at > Len(upstream[c].units)
  /\ LET ids == upstream[c].units
         stray == {n \in DOMAIN ids : LevelOf(ids[n]) # Finest}
     IN IF stray # {} THEN Fail(c, <<"level", ids[Min(stray)]>>) ELSE Goto(c, "metadata")
  /\ UNCHANGED <<data, mode, object, index, calls, lost>>

Wanted(c) == Range(upstream[c].units)

(* selected_row_groups_for_ids: the places of the row groups read. *)
Selected(c) ==
  {p \in RowPlaces : \E u \in Wanted(c) \cap DOMAIN index : index[u] = data.groups[p]}

(* produce_pre_merge_units: query_by_ids, which refuses the first row of   *)
(* the groups without a geometry, wanted or not, ...                       *)
Metadata(c) ==
  /\ pc[c] = "metadata"
  /\ \E at \in Mixes({"id", "level", "geometry"}) :
       LET refused == {p \in Selected(c) : Shape(at, p).fault = "null"} IN
       IF refused # {} THEN Fail(c, <<"row", Min(refused)>>) /\ UNCHANGED meta
       ELSE /\ meta' = [meta EXCEPT ![c] =
                 [u \in Wanted(c) \cap Ids(at, Selected(c)) |->
                    LevelAt(at, LastPlace(at, Selected(c), u))]]
            /\ Goto(c, "geometry")
  /\ UNCHANGED <<data, mode, object, index, terminal, upstream, units, refined, lost>>

(* Whether there are a row and, among those of the ids found, a geometry   *)
(* of unit u to join; the error if there are not.                          *)
Fit(c, found, u) == u \in DOMAIN meta[c] /\ meta[c][u] = Finest /\ u \in found

Misfit(c, u) ==
  <<IF u \in DOMAIN meta[c] /\ meta[c][u] # Finest THEN "level" ELSE "fetch", u>>

Faulty(at, p) ==
  IF Shape(at, p).fault = "null" THEN <<"row", p>> ELSE <<"decode", Id(at, p)>>

(* ... query_geometries_by_ids, then one unit after another. *)
Geometry(c) ==
  /\ pc[c] = "geometry"
  /\ \E at \in Mixes({"id", "geometry"}) :
       LET rows == {p \in Selected(c) : Id(at, p) \in Wanted(c)}
           faulty == {p \in rows : Shape(at, p).fault # "none"}
           ids == upstream[c].units
           unfit == {n \in DOMAIN ids : ~Fit(c, Ids(at, rows), ids[n])}
       IN IF faulty # {} THEN Fail(c, Faulty(at, Min(faulty))) /\ UNCHANGED units
          ELSE IF unfit # {} THEN Fail(c, Misfit(c, ids[Min(unfit)])) /\ UNCHANGED units
          ELSE /\ units' = [units EXCEPT ![c] =
                    [u \in Wanted(c) |-> Shape(at, LastPlace(at, rows, u)).cells]]
               /\ Goto(c, CASE mode[c] = "reaches" -> "reaches"
                            [] mode[c] = "units" -> "collect"
                            [] OTHER -> "refine")
  /\ UNCHANGED <<data, mode, object, index, terminal, upstream, meta, refined, lost>>

(* A read fails, and with it the call: that of a file laid out otherwise   *)
(* than the first, or any of a lossy call.                                 *)
LoseRead(c) ==
  /\ \/ /\ pc[c] \in {"metadata", "geometry"} /\ (c \in Lossy \/ Alike # 1..object)
        /\ Fail(c, <<"fetch", terminal[c]>>)
     \/ /\ pc[c] = "reaches" /\ c \in Lossy /\ HasSnaps /\ UNION Range(units[c]) # {}
        /\ Fail(c, <<"reach query">>)
  /\ lost' = lost \cup {c}
  /\ UNCHANGED <<data, mode, object, index, calls>>

(* refine_terminal: a part of the terminal, or the mode's answer to none. *)
Refine(c) ==
  /\ pc[c] = "refine"
  /\ \/ /\ mode[c] # "disabled"
        /\ \E part \in (SUBSET units[c][terminal[c]]) \ {{}} :
             refined' = [refined EXCEPT ![c] = part]
        /\ Goto(c, "dissolve")
     \/ /\ IF mode[c] = "require_d8" THEN Fail(c, <<"refinement">>) ELSE Goto(c, "dissolve")
        /\ UNCHANGED refined
  /\ UNCHANGED <<data, mode, object, index, terminal, upstream, meta, units, lost>>

(* The geometries by id, the terminal's replaced by its refined part. *)
Pieces(c) ==
  [u \in DOMAIN units[c] |->
     IF u = terminal[c] /\ refined[c] # {} THEN refined[c] ELSE units[c][u]]

Members(c) ==
  [n \in DOMAIN upstream[c].units |->
     LET u == upstream[c].units[n] IN
     [id |-> u, downstream |-> IF u = terminal[c] THEN None ELSE upstream[c].down[u]]]

(* dissolve_watershed and compose_result *)
Dissolve(c) ==
  /\ pc[c] = "dissolve"
  /\ LET empty == {u \in DOMAIN units[c] : Pieces(c)[u] = {}} IN
     IF empty # {} THEN Fail(c, <<"assembly", Min(empty)>>)
     ELSE /\ pc' = [pc EXCEPT ![c] = "done"]
          /\ result' = [result EXCEPT ![c] =
               [error |-> << >>, terminal |-> terminal[c], units |-> Members(c),
                applied |-> refined[c] # {},
                cells |-> UNION {Pieces(c)[u] : u \in DOMAIN units[c]}]]
  /\ UNCHANGED <<data, mode, object, index, calls, lost>>

(* A staged caller that stops at the pre-merge units. *)
Collect(c) ==
  /\ pc[c] = "collect" /\ pc' = [pc EXCEPT ![c] = "done"]
  /\ result' = [result EXCEPT ![c] = [error |-> << >>, terminal |-> terminal[c], units |-> Members(c)]]
  /\ UNCHANGED <<data, mode, object, index, calls, lost>>

(* watershed_bbox, and the bbox of a row or of a row group. *)
Bounds(cells) ==
  [west |-> Min({p[1] : p \in cells}), east |-> Max({p[1] + 1 : p \in cells}),
   south |-> Min({p[2] : p \in cells}), north |-> Max({p[2] + 1 : p \in cells})]

Meet(a, b) == /\ a.west <= b.east /\ b.west <= a.east
              /\ a.south <= b.north /\ b.south <= a.north

Near(s, area) == Meet(Bounds(s.cells), Bounds(area))

(* A row group's statistics know the rows with a bbox of their own, no     *)
(* other; a group without one is always read.                              *)
GroupRead(g, area) ==
  LET boxed == {s \in Range(data.snap.rows) : s.group = g /\ s.boxed}
  IN boxed = {} \/ Meet(Bounds(UNION {s.cells : s \in boxed}), Bounds(area))

(* query_by_bbox: the rows near an area, as their places in the file, and  *)
(* those for which the query is refused.                                   *)
SnapsRead(area) == {n \in DOMAIN data.snap.rows : GroupRead(data.snap.rows[n].group, area)}

SnapsRefused(area) ==
  {n \in SnapsRead(area) :
     LET s == data.snap.rows[n] IN
     s.fault = "corrupt" \/ (s.fault = "value" /\ Near(s, area))}

SnapsFound(area) == {n \in SnapsRead(area) : Near(data.snap.rows[n], area)}

Reached(c, reaches) ==
  /\ pc' = [pc EXCEPT ![c] = "done"]
  /\ result' = [result EXCEPT ![c] =
       [error |-> << >>, terminal |-> terminal[c], units |-> Members(c), reaches |-> reaches]]

(* upstream_reaches: the snaps near the watershed, then those of its       *)
(* units.                                                                  *)
Reaches(c) ==
  /\ pc[c] = "reaches"
  /\ LET area == UNION Range(units[c])
         found == {n \in SnapsFound(area) : data.snap.rows[n].unit \in DOMAIN units[c]}
         points == {n \in found : data.snap.rows[n].fault = "point"}
     IN IF ~HasSnaps THEN Fail(c, <<"no snap">>)
        ELSE IF area = {} THEN Reached(c, {})
        ELSE IF SnapsRefused(area) # {} THEN Fail(c, <<"reach query", Min(SnapsRefused(area))>>)
        ELSE IF points # {} THEN Fail(c, <<"reach", Min(points)>>)
        ELSE Reached(c, found)
  /\ UNCHANGED <<data, mode, object, index, calls, lost>>

Overwrite ==
  /\ object + 1 \in DOMAIN data.uploads /\ object' = object + 1
  /\ UNCHANGED <<data, mode, index, pc, calls, result, lost>>

Stage(c) ==
  \/ Resolve(c) \/ Begin(c) \/ Walk(c) \/ Traversed(c)
  \/ Metadata(c) \/ Geometry(c) \/ LoseRead(c) \/ Refine(c) \/ Dissolve(c) \/ Collect(c) \/ Reaches(c)

BatchNext == Open \/ Refuse \/ (\E c \in Calls : Stage(c)) \/ Overwrite

BatchDone == \A c \in Calls : pc[c] = "done"

-----------------------------------------------------------------------------
(* The units that drain to u, by their graph rather than by a walk: the    *)
(* least set that holds u and what is upstream of a member.                *)
Basin(u) ==
  {v \in DOMAIN data.graph :
     \A set \in SUBSET DOMAIN data.graph :
       u \in set /\ (\A w \in set : Range(data.graph[w].upstream) \subseteq set) => v \in set}

(* What a read so far may have got for unit u: any upload's row of a place *)
(* at which some upload has u.                                             *)
Readable(u) ==
  {data.uploads[n][p] :
     n \in Alike, p \in {q \in RowPlaces : \E m \in Alike : data.uploads[m][q].id = u}}

(* A call answers, for its own outlet, with the watershed of the unit it   *)
(* resolved to: every unit that drains to it once and no other, of the     *)
(* finest level and each with its next unit downstream among them;         *)
UnitsDrain(c) ==
  LET r == result[c]
      basin == Basin(terminal[c])
  IN /\ {x.id : x \in Range(r.units)} = basin /\ Len(r.units) = Cardinality(basin)
     /\ r.units[1].id = terminal[c] /\ r.terminal = terminal[c]
     /\ \A u \in basin : LevelOf(u) = Finest /\ \E row \in Readable(u) : row.level = Finest
     /\ \A n \in 2..Len(r.units) :
          /\ r.units[n].downstream \in {r.units[k].id : k \in 1..(n - 1)}
          /\ r.units[n].id \in Range(data.graph[r.units[n].downstream].upstream)

(* the whole area of each, as one place that has been the unit's has had   *)
(* it, and no other cell, save that a refined terminal stands for the      *)
(* whole one;                                                              *)
CellsDrain(c) ==
  LET r == result[c]
      basin == Basin(terminal[c])
  IN /\ mode[c] = "require_d8" => r.applied
     /\ \A p \in r.cells : \E u \in basin : \E row \in Readable(u) : p \in row.cells
     /\ \A u \in basin \ {terminal[c]} : \E row \in Readable(u) : row.cells \subseteq r.cells
     /\ r.applied => \A p \in r.cells \ refined[c] :
                       \E u \in basin \ {terminal[c]} : \E row \in Readable(u) : p \in row.cells

(* A snap without a bbox, in a row group whose others are all elsewhere.   *)
Overlooked(s, area) ==
  /\ ~s.boxed /\ \E x \in Range(data.snap.rows) : x.group = s.group /\ x.boxed
  /\ \A x \in Range(data.snap.rows) : x.group = s.group /\ x.boxed => x.cells \cap area = {}

(* the reaches of its units and no other, save those overlooked.           *)
ReachesDrain(c) ==
  LET basin == Basin(terminal[c])
      area == UNION Range(units[c])
  IN \A n \in DOMAIN data.snap.rows :
       LET s == data.snap.rows[n] IN
       /\ n \in result[c].reaches => s.unit \in basin
       /\ s.unit \in basin /\ s.cells \cap area # {} =>
            n \in result[c].reaches \/ Overlooked(s, area)

Answers(c) ==
  /\ UnitsDrain(c)
  /\ mode[c] \in {"disabled", "best_effort", "require_d8"} => CellsDrain(c)
  /\ mode[c] = "reaches" => ReachesDrain(c)

(* An upload took a place from unit u, or gave one of its places a level   *)
(* that is not the graph's.                                                *)
Displaced(u) == \E row \in Readable(u) : row.id # u

Relevelled(u) == 1 < object /\ \E row \in Readable(u) : row.level # LevelOf(u)

(* What explains an error e of a call: of its walk and reads, ...          *)
CauseRead(c, e) ==
  LET basin == Basin(terminal[c]) IN
  /\ e[1] = "traversal" => 1 < object /\ terminal[c] \notin DOMAIN data.graph
  /\ e[1] = "fetch" => c \in lost \/ (e[2] \in basin /\ Displaced(e[2]))
  /\ e[1] = "level" => e[2] \in basin /\ Relevelled(e[2])
  /\ e[1] = "row" => /\ \E n \in Alike : data.uploads[n][e[2]].fault = "null"
                    /\ \E u \in basin : index[u] = data.groups[e[2]]
  /\ e[1] = "decode" => e[2] \in basin /\ \E row \in Readable(e[2]) : row.fault = "wkb"

(* ... and of what it makes of them.                                       *)
CauseMade(c, e) ==
  LET basin == Basin(terminal[c]) IN
  /\ e[1] = "assembly" => e[2] \in basin /\ \E row \in Readable(e[2]) : row.cells = {}
  /\ e[1] = "refinement" => mode[c] = "require_d8"
  /\ e[1] = "reach query" => c \in lost \/ data.snap.rows[e[2]].fault \in {"corrupt", "value"}
  /\ e[1] = "reach" => LET s == data.snap.rows[e[2]] IN s.fault = "point" /\ s.unit \in basin

(* A call fails only for a cause of its own: what the open has validated   *)
(* never fails afterwards, unless the file was overwritten in a way that   *)
(* explains the error or the call's own read was lost.                     *)
Excused(c) ==
  /\ CauseRead(c, result[c].error) /\ CauseMade(c, result[c].error)
  /\ c \in lost => c \in Lossy \/ Alike # 1..object

(* Every call of a batch ends with an answer for its own outlet or with an *)
(* error that it has a cause for, however the calls interleave and the     *)
(* file changes: Engine::delineate never takes a unit of another level or  *)
(* one that does not drain to the outlet, and never fails on what the open *)
(* has proved.  It may join the rows of several uploads, and even take for *)
(* a unit the area that a place of its own has in an upload where it is    *)
(* another unit's: each column of a row group is a read of its own.        *)
ResultsAreWatersheds ==
  \A c \in Calls :
    pc[c] = "done" => IF result[c].error = << >> THEN Answers(c) ELSE Excused(c)
=============================================================================
