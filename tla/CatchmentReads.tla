--------------------------- MODULE CatchmentReads ---------------------------
(***************************************************************************)
(* Reading catchments.parquet: CatchmentStore over its chunk cache, its    *)
(* footer cache and the id index kept on disk, while the object is         *)
(* overwritten in place.                                                   *)
(*                                                                         *)
(* A session opens the store (HEAD, footer, id index) and then serves      *)
(* calls, which run at once on the threads of a batch.  Whatever reads row *)
(* groups is a reader: a call, or a session that scans for its index.      *)
(*                                                                         *)
(* A version is the content of one upload and the ETag that goes with it:  *)
(* uploading a content again brings its tag back.  A column stands for the *)
(* chunks a projection asks for; all versions have one layout, the case in *)
(* which bytes of one are readable through the footer of another.          *)
(***************************************************************************)
EXTENDS Integers, FiniteSets, SequencesExt, FiniteSetsExt

CONSTANTS
  Sessions,     \* stores opened over one cache directory
  Local,        \* those of a local dataset: no cache and no index on disk
  Calls,        \* the queries made, each once
  SessionOf,    \* [Calls -> Sessions]
  Files,        \* the possible histories of uploads: version -> row groups
  Queries,      \* the possible queries of a call
  Window,       \* row groups read at once (buffered)
  MaxOverwrites,\* bound: times the object is overwritten
  Lossy,        \* readers whose requests may fail
  Mortal,       \* sessions whose process may die while opening
  Small,        \* sessions whose chunk cache is at its budget
  Absent, Torn, Lost, None

Readers == Sessions \cup Calls
(* Id and level; the other scalars with the bbox; the geometry. *)
Columns == {"key", "scalars", "geometry"}
(* What a row may be refused for: an id, a level, another scalar or a      *)
(* geometry that is null or out of range, or a geometry that is there and  *)
(* does not decode.                                                        *)
FaultsIn(column) == CASE column = "key" -> {"id", "level"}
                      [] column = "scalars" -> {"scalar"}
                      [] column = "geometry" -> {"geometry", "wkb"}

(* Ids are integers; boxes are intervals, one axis standing for both.      *)
RowGroup == [rows : Seq([id : Int, box : Int \X Int, fault : STRING]),
             stats : BOOLEAN]

SameLayout(f, g) ==
  DOMAIN f = DOMAIN g /\ \A n \in DOMAIN f : DOMAIN f[n].rows = DOMAIN g[n].rows

ASSUME CatchmentReadsAssumption ==
  /\ Local \cup Mortal \cup Small \subseteq Sessions
  /\ SessionOf \in [Calls -> Sessions] /\ Sessions \cap Calls = {}
  /\ Lossy \subseteq Readers
  /\ \A f \in Files : /\ f \in Seq(Seq(RowGroup)) /\ 1 \in DOMAIN f
                      /\ \A v, w \in DOMAIN f : SameLayout(f[v], f[w])
  /\ \A q \in Queries : q.kind = "box" => q.box \in Int \X Int
  /\ None # Lost /\ \A cols \in SUBSET Columns : Lost \notin [cols -> Nat]
  /\ Window \in Nat \ {0} /\ MaxOverwrites \in Nat

VARIABLES
  files,      \* [version -> sequence of [rows, stats]]
  query,      \* [Calls -> Queries]: [kind, ids, box]
  object,     \* the version now at the URL
  overwrites, \* how often it was replaced
  indexFile,  \* catchments.idindex.arrow: Absent, Torn or [label, index]
  pc,         \* [Readers -> ..]
  head,       \* [Sessions -> version]: the tag HEAD gave
  footer,     \* [Sessions -> version]: the upload its statistics are of
  index,      \* [Sessions -> [id -> row group]]
  chunks,     \* [Sessions -> [<<group, column>> -> version]]: chunk cache
  asked,      \* [Readers -> [group -> request under way]]
  got,        \* [Readers -> [group -> Lost or whose bytes came]]
  calm,       \* history: sessions with no overwrite since their HEAD
  raced       \* history: tags an overwrite met between HEAD and index

reads == <<asked, got>>
vars == <<files, query, object, overwrites, indexFile, pc, head, footer, index,
          chunks, reads, calm, raced>>

Versions == DOMAIN files
Groups == DOMAIN files[object]
Session(r) == IF r \in Sessions THEN r ELSE SessionOf[r]

(* The part of the row group that a reader's projection fetches. *)
Projection(r) ==
  IF r \in Sessions THEN {"key"}
  ELSE IF query[r].kind = "geometries" THEN {"key", "geometry"}
  ELSE Columns

(* What makes a reader refuse a row: a scan for the index judges the ids,  *)
(* and those of a remote dataset the levels; the query for geometries      *)
(* skips a row nobody asked for once its id is read, and it alone decodes; *)
(* the others judge every column.                                          *)
Refusable(r, id) ==
  IF r \in Local THEN {"id"}
  ELSE IF r \in Sessions THEN {"id", "level"}
  ELSE IF query[r].kind # "geometries" THEN {"id", "level", "scalar", "geometry"}
  ELSE IF id \in query[r].ids THEN {"id", "geometry", "wkb"} ELSE {"id"}

(* Boxes are closed. *)
Meet(a, b) == a[1] <= b[2] /\ b[1] <= a[2]

(* Mutant of Selected: row groups without statistics are left out. *)
SelectedByBox(c, q) ==
  LET s == SessionOf[c]
      Rows(g) == files[footer[s]][g].rows
      Box(g) == <<Min({Rows(g)[i].box[1] : i \in DOMAIN Rows(g)}),
                  Max({Rows(g)[i].box[2] : i \in DOMAIN Rows(g)})>>
  IN IF q.kind = "box"
     THEN {g \in Groups : files[footer[s]][g].stats /\ Meet(Box(g), q.box)}
     ELSE {index[s][id] : id \in q.ids \cap DOMAIN index[s]}

(* The row groups a call may find rows in: by the index, or by the box     *)
(* around a group's rows, and always those that carry no statistics.       *)
Selected(c, q) ==
  LET s == SessionOf[c]
      Rows(g) == files[footer[s]][g].rows
      Box(g) == <<Min({Rows(g)[i].box[1] : i \in DOMAIN Rows(g)}),
                  Max({Rows(g)[i].box[2] : i \in DOMAIN Rows(g)})>>
  IN IF q.kind = "box"
     THEN {g \in Groups : files[footer[s]][g].stats => Meet(Box(g), q.box)}
     ELSE {index[s][id] : id \in q.ids \cap DOMAIN index[s]}

(* What reader r sees in one column of row i of a group it got, and the    *)
(* rows of the group it refuses.                                           *)
Seen(r, g, i, col) == files[got[r][g][col]][g].rows[i]

Refused(r, g) ==
  {i \in DOMAIN files[object][g].rows :
     \E col \in DOMAIN got[r][g] :
       Seen(r, g, i, col).fault \in FaultsIn(col) \cap Refusable(r, Seen(r, g, i, "key").id)}

Failed(r, g) == got[r][g] = Lost \/ Refused(r, g) # {}

Pending(r) == {g \in DOMAIN got[r] : got[r][g] = None}

Failures(r) == {g \in DOMAIN got[r] \ Pending(r) : Failed(r, g)}

-----------------------------------------------------------------------------

TypeOK ==
  /\ files \in Files /\ object \in Versions /\ overwrites \in 0..MaxOverwrites
  /\ indexFile \in {Absent, Torn} \/ DOMAIN indexFile = {"label", "index"}
  /\ \A s \in Sessions : pc[s] \in {"new", "footer", "load", "scan", "trunc",
                                    "fill", "open", "failed", "dead"}
  /\ \A c \in Calls : pc[c] \in {"new", "reading", "done"}
  /\ \A s \in Sessions : DOMAIN chunks[s] \subseteq Groups \X Columns
  /\ \A r \in Readers : DOMAIN asked[r] = DOMAIN got[r]
  /\ calm \subseteq Sessions /\ raced \subseteq Versions

Init ==
  /\ files \in Files
  /\ object = 1 /\ overwrites = 0
  /\ indexFile = Absent
  /\ query = [c \in Calls |-> None]
  /\ pc = [r \in Readers |-> "new"]
  /\ head = [s \in Sessions |-> 1] /\ footer = [s \in Sessions |-> 1]
  /\ index = [s \in Sessions |-> <<>>]
  /\ chunks = [s \in Sessions |-> <<>>]
  /\ asked = [r \in Readers |-> <<>>] /\ got = [r \in Readers |-> <<>>]
  /\ calm = {} /\ raced = {}

Goto(r, step) == pc' = [pc EXCEPT ![r] = step]

(* A reader sets out to read the given row groups. *)
Start(r, groups) ==
  /\ asked' = [asked EXCEPT ![r] = [g \in groups |-> None]]
  /\ got' = [got EXCEPT ![r] = [g \in groups |-> None]]

(* open_object: HEAD, whose tag names the chunks and the index. *)
HeadObject(s) ==
  /\ pc[s] = "new"
  /\ head' = [head EXCEPT ![s] = object]
  /\ calm' = calm \cup {s}
  /\ Goto(s, "footer")
  /\ UNCHANGED <<files, query, object, overwrites, indexFile, footer, index,
                 chunks, reads, raced>>

(* open_object: footer, schema and the statistics of every row group. *)
Footer(s) ==
  /\ pc[s] = "footer"
  /\ \/ footer' = [footer EXCEPT ![s] = object] /\ Goto(s, "load")
     \/ s \in Lossy /\ Goto(s, "failed") /\ UNCHANGED footer
  /\ UNCHANGED <<files, query, object, overwrites, indexFile, head, index, chunks,
                 reads, calm, raced>>

(* Mutant of Loadable: any whole file will do. *)
LoadableOfAnyTag(s) == indexFile \notin {Absent, Torn}

(* IdIndex::load_from_path: a torn file or another tag is no index. *)
Loadable(s) == indexFile \notin {Absent, Torn} /\ indexFile.label = head[s]

(* read_or_build_id_index, up to the scan. *)
Load(s) ==
  /\ pc[s] = "load"
  /\ IF s \notin Local /\ Loadable(s)
     THEN /\ index' = [index EXCEPT ![s] = indexFile.index]
          /\ Goto(s, "open") /\ UNCHANGED reads
     ELSE Start(s, Groups) /\ Goto(s, "scan") /\ UNCHANGED index
  /\ UNCHANGED <<files, query, object, overwrites, indexFile, head, footer, chunks,
                 calm, raced>>

(* A query: the row groups it will read, none at all if nothing can match. *)
Plan(c, q) ==
  /\ pc[c] = "new" /\ pc[SessionOf[c]] = "open"
  /\ query' = [query EXCEPT ![c] = q]
  /\ Start(c, Selected(c, q))
  /\ Goto(c, "reading")
  /\ UNCHANGED <<files, object, overwrites, indexFile, head, footer, index, chunks,
                 calm, raced>>

-----------------------------------------------------------------------------
(* Reading row groups: an index scan and the query for geometries keep     *)
(* Window of them in flight, the other queries read one after another and  *)
(* stop at the first error.                                                *)

Buffered(r) == r \in Calls => query[r].kind = "geometries"

Askable(r) == {g \in Pending(r) : asked[r][g] = None
               /\ Cardinality({h \in DOMAIN got[r] : Min(Pending(r)) <= h /\ h < g})
                    < IF Buffered(r) THEN Window ELSE 1}

Received(r, g, read) == got' = [got EXCEPT ![r][g] = read]

(* get_byte_ranges: what the cache holds, and one request for the rest.  A *)
(* cache at its budget may have dropped any entry: that shows, and is      *)
(* modelled, when it is looked up.                                         *)
Ask(r, g) ==
  LET s == Session(r)
      held == {col \in Projection(r) : <<g, col>> \in DOMAIN chunks[s]}
  IN /\ pc[r] \in {"scan", "reading"} /\ g \in Askable(r)
     /\ Buffered(r) \/ Failures(r) = {}
     /\ \E hits \in (IF s \in Small THEN SUBSET held ELSE {held}) :
          LET hit == [col \in hits |-> chunks[s][<<g, col>>]] IN
          /\ IF hits = Projection(r)
             THEN Received(r, g, hit) /\ UNCHANGED asked
             ELSE /\ asked' = [asked EXCEPT ![r][g] = [hit |-> hit, at |-> object]]
                  /\ UNCHANGED got
          /\ chunks' = [chunks EXCEPT ![s] =
               [k \in DOMAIN @ \ ({g} \X (held \ hits)) |-> @[k]]]
     /\ UNCHANGED <<files, query, object, overwrites, indexFile, pc, head, footer,
                    index, calm, raced>>

(* The missing chunks arrive, each read before or after an overwrite made  *)
(* meanwhile, and are cached under the tag of the session's HEAD.          *)
Arrive(r, g) ==
  /\ g \in Pending(r) /\ asked[r][g] # None
  /\ LET s == Session(r)
         hit == asked[r][g].hit
         missing == Projection(r) \ DOMAIN hit
     IN \E fetched \in [missing -> {asked[r][g].at, object}] :
          /\ Received(r, g, [col \in Projection(r) |->
                               IF col \in missing THEN fetched[col] ELSE hit[col]])
          /\ chunks' = IF s \in Local THEN chunks
                       ELSE [chunks EXCEPT ![s] =
                               [k \in DOMAIN @ \cup ({g} \X missing) |->
                                  IF k \in {g} \X missing THEN fetched[k[2]] ELSE @[k]]]
  /\ asked' = [asked EXCEPT ![r][g] = None]
  /\ UNCHANGED <<files, query, object, overwrites, indexFile, pc, head, footer,
                 index, calm, raced>>

(* Mutant of Lose: the request is made again, without a bound. *)
LoseAndRetry(r, g) ==
  /\ r \in Lossy /\ g \in Pending(r) /\ asked[r][g] # None
  /\ asked' = [asked EXCEPT ![r][g] = None]
  /\ UNCHANGED <<files, query, object, overwrites, indexFile, pc, head, footer,
                 index, chunks, got, calm, raced>>

(* The request fails: nothing is cached. *)
Lose(r, g) ==
  /\ r \in Lossy /\ g \in Pending(r) /\ asked[r][g] # None
  /\ Received(r, g, Lost)
  /\ asked' = [asked EXCEPT ![r][g] = None]
  /\ UNCHANGED <<files, query, object, overwrites, indexFile, pc, head, footer,
                 index, chunks, calm, raced>>

Finished(r) == Pending(r) = {} \/ (~Buffered(r) /\ Failures(r) # {})

Return(c) ==
  /\ pc[c] = "reading" /\ Finished(c)
  /\ Goto(c, "done")
  /\ UNCHANGED <<files, query, object, overwrites, indexFile, head, footer, index,
                 chunks, reads, calm, raced>>

(* What a call returns: the first error in the order of the file,          *)
(* whichever request ended first, or the rows it wants, with where each    *)
(* came from.                                                              *)
Answer(c) ==
  LET first == Min(Failures(c))
      RowOf(g, i) == [at |-> <<g, i>>, id |-> Seen(c, g, i, "key").id,
                      from |-> {got[c][g][col] : col \in DOMAIN got[c][g]}]
      Kept(g, i) ==
        IF query[c].kind = "box" THEN Meet(Seen(c, g, i, "scalars").box, query[c].box)
        ELSE Seen(c, g, i, "key").id \in query[c].ids
      Part(g) == FlattenSeq([i \in DOMAIN files[object][g].rows |->
                               IF Kept(g, i) THEN <<RowOf(g, i)>> ELSE << >>])
  IN IF Failures(c) = {}
     THEN [error |-> << >>,
           rows |-> FlattenSeq([g \in Groups |->
                                  IF g \in DOMAIN got[c] THEN Part(g) ELSE << >>])]
     ELSE [error |-> IF got[c][first] = Lost THEN <<"read", first>>
                     ELSE <<"row", first, Min(Refused(c, first))>>]

(* The rows an index scan found, as their places. *)
Found(s) == UNION {{g} \X DOMAIN files[object][g].rows : g \in DOMAIN got[s]}

IdFound(s, p) == Seen(s, p[1], p[2], "key").id

(* read_ids_levels_with_row_groups: any row refused, or an id that is      *)
(* there already, fails the open.                                          *)
Build(s) ==
  /\ pc[s] = "scan" /\ Finished(s)
  /\ IF Failures(s) # {} \/ \E p, q \in Found(s) : p # q /\ IdFound(s, p) = IdFound(s, q)
     THEN Goto(s, "failed") /\ UNCHANGED index
     ELSE /\ index' = [index EXCEPT ![s] =
                          [id \in {IdFound(s, p) : p \in Found(s)} |->
                             (CHOOSE p \in Found(s) : IdFound(s, p) = id)[1]]]
          /\ Goto(s, IF s \in Local THEN "open" ELSE "trunc")
  /\ UNCHANGED <<files, query, object, overwrites, indexFile, head, footer, chunks,
                 reads, calm, raced>>

(* IdIndex::write_to_path, a plain fs::write: truncate, then the bytes.  A *)
(* failure is only warned of; a writer in between leaves bytes the         *)
(* checksum refuses.                                                       *)
Write(s) ==
  /\ \/ pc[s] = "trunc" /\ indexFile' = Torn /\ Goto(s, "fill")
     \/ /\ pc[s] = "fill" /\ Goto(s, "open")
        /\ LET new == [label |-> head[s], index |-> index[s]]
           IN indexFile' \in (IF indexFile = Torn THEN {new} ELSE {new, Torn})
     \/ s \in Lossy /\ pc[s] \in {"trunc", "fill"} /\ Goto(s, "open")
        /\ UNCHANGED indexFile
  /\ UNCHANGED <<files, query, object, overwrites, head, footer, index, chunks,
                 reads, calm, raced>>

-----------------------------------------------------------------------------
(* The outside: an upload, a killed process. *)

Overwrite ==
  /\ overwrites < MaxOverwrites /\ overwrites' = overwrites + 1
  /\ object' \in Versions \ {object}
  /\ calm' = {}
  /\ raced' = raced \cup {head[s] : s \in {t \in Sessions :
                                             pc[t] \in {"footer", "load", "scan"}}}
  /\ UNCHANGED <<files, query, indexFile, pc, head, footer, index, chunks, reads>>

Die(s) ==
  /\ s \in Mortal /\ pc[s] \in {"footer", "load", "scan", "trunc", "fill"}
  /\ Goto(s, "dead")
  /\ UNCHANGED <<files, query, object, overwrites, indexFile, head, footer, index,
                 chunks, reads, calm, raced>>

Transfer(r) ==
  \E g \in DOMAIN got[r] : Ask(r, g) \/ Arrive(r, g) \/ Lose(r, g)

Open(s) ==
  HeadObject(s) \/ Footer(s) \/ Load(s) \/ (pc[s] = "scan" /\ Transfer(s)) \/ Build(s) \/ Write(s)

Query(c) == (\E q \in Queries : Plan(c, q)) \/ Transfer(c) \/ Return(c)

Next ==
  \/ \E s \in Sessions : Open(s) \/ Die(s)
  \/ \E c \in Calls : Query(c)
  \/ Overwrite

(* An open that began goes on, and so does a call that was made. *)
Spec == /\ Init /\ [][Next]_vars
        /\ \A s \in Sessions : WF_vars(pc[s] # "new" /\ Open(s))
        /\ \A c \in Calls : WF_vars(Query(c))

-----------------------------------------------------------------------------
(* The rows of version v by their places. *)
Places(v) == UNION {{g} \X DOMAIN files[v][g].rows : g \in DOMAIN files[v]}

RowAt(v, p) == files[v][p[1]].rows[p[2]]

Earlier(p, q) == p[1] < q[1] \/ (p[1] = q[1] /\ p[2] < q[2])

(* A call of a session whose object stayed as it was at HEAD, and whose    *)
(* index no upload raced, answers as one reader of the whole file would:   *)
(* the rows asked for and no other, in file order, of one upload; or the   *)
(* first row of the file that must be refused, however requests interleave *)
(* and whatever another call put in the cache or the cache dropped.        *)
AnswersAreScan ==
  \A c \in Calls :
    pc[c] = "done" /\ SessionOf[c] \in calm /\ head[SessionOf[c]] \notin raced =>
      LET v == head[SessionOf[c]]
          a == Answer(c)
          matches == {p \in Places(v) :
                        IF query[c].kind = "box" THEN Meet(RowAt(v, p).box, query[c].box)
                        ELSE RowAt(v, p).id \in query[c].ids}
          bad == {p \in Places(v) : RowAt(v, p).fault \in Refusable(c, RowAt(v, p).id)}
          (* Refused rows a scan meets before place q, in groups it needs. *)
          BadBefore(q) == {p \in bad : Earlier(p, q) /\ \E m \in matches : m[1] = p[1]}
      IN IF a.error = << >>
         THEN /\ matches \cap bad = {}
              /\ {row.at : row \in ToSet(a.rows)} = matches
              /\ \A m, n \in DOMAIN a.rows : m < n => Earlier(a.rows[m].at, a.rows[n].at)
              /\ \A row \in ToSet(a.rows) : row.id = RowAt(v, row.at).id /\ row.from = {v}
         ELSE IF a.error[1] = "row"
         THEN LET q == <<a.error[2], a.error[3]>> IN q \in bad /\ BadBefore(q) = {}
         ELSE c \in Lossy /\ BadBefore(<<a.error[2], 0>>) = {}

(* The index a session serves with, loaded or built, gives every id of the *)
(* upload its HEAD named exactly its row group, whatever writers left in   *)
(* the file, unless an upload came between the HEAD and the scan of some   *)
(* session that saw the same tag; and an upload no index can be made of    *)
(* opens no session.                                                       *)
IndexIsExact ==
  \A s \in Sessions :
    pc[s] = "open" /\ head[s] \notin raced =>
      LET v == head[s] IN
      /\ DOMAIN index[s] = {RowAt(v, p).id : p \in Places(v)}
      /\ \A p \in Places(v) : index[s][RowAt(v, p).id] = p[1]
      /\ \A p \in Places(v) : RowAt(v, p).fault \notin Refusable(s, RowAt(v, p).id)

(* In the end every open that began has ended, unless its process was      *)
(* killed, and every call of a session that opened has returned, whatever  *)
(* requests failed.                                                        *)
ReadsEnd ==
  <>[]( /\ \A s \in Sessions : pc[s] \in {"new", "open", "failed", "dead"}
        /\ \A c \in Calls : pc[SessionOf[c]] = "open" => pc[c] = "done" )
=============================================================================
