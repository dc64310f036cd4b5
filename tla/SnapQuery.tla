------------------------------ MODULE SnapQuery ------------------------------
(***************************************************************************)
(* SnapStore::query_by_bbox: the snap targets around an outlet, from a     *)
(* snap.parquet whose bbox column is nullable.  A row without a bbox has   *)
(* the one of its geometry; a row group has the one its column statistics  *)
(* give, which leave nulls out.                                            *)
(*                                                                         *)
(* Boxes are intervals along one axis, of the f32 numbers counted from     *)
(* zero.                                                                   *)
(***************************************************************************)
EXTENDS Integers, Sequences, FiniteSetsExt

CONSTANTS
  Files,   \* sequences of row groups; a group is a sequence of rows
  Boxes,   \* the boxes that are queried
  None

VARIABLES
  file,    \* rows [box, extent, fault]: the bbox or None, the geometry's box
  query,   \* the box asked for
  got,     \* [selected group -> None or its result]
  pc

vars == <<file, query, got, pc>>

Meet(a, b) == a[1] <= b[2] /\ b[1] <= a[2]

(* next_up_f32: the bits plus one, the next number only above zero. *)
NextUp(x) == IF x >= 0 THEN x + 1 ELSE x - 1

(* snap_bbox: a point or an axis-aligned line gets a padded maximum. *)
Padded(box) == IF box[1] < box[2] THEN box ELSE <<box[1], NextUp(box[1])>>

IsBox(box) == box[1] < box[2]

(* The bbox of a row: the column's, or that of its geometry. *)
RowBox(row) == Padded(IF row.box # None THEN row.box ELSE row.extent)

(* extract_row_group_bbox: None without statistics (every value null) or   *)
(* when they make no box.                                                  *)
GroupBox(g) ==
  LET boxes == {file[g][i].box : i \in DOMAIN file[g]} \ {None}
      least == Min({b[1] : b \in boxes})
      greatest == Max({b[2] : b \in boxes})
  IN IF boxes = {} THEN None
     ELSE IF IsBox(<<least, greatest>>) THEN <<least, greatest>> ELSE None

(* The row groups that may hold a match. *)
Selected(box) ==
  {g \in DOMAIN file : GroupBox(g) # None => Meet(GroupBox(g), box)}

Init == file \in Files /\ query = None /\ got = << >> /\ pc = "open"

Query ==
  /\ pc = "open" /\ pc' = "reading"
  /\ query' \in Boxes
  /\ got' = [g \in Selected(query') |-> None]
  /\ UNCHANGED file

(* extract_snap_targets_from_batch: a null column, a corrupt geometry or a *)
(* box that no padding helps is refused in any row, an id, weight or role  *)
(* out of range only in a row that meets the box.                          *)
Refused(g) ==
  {i \in DOMAIN file[g] : \/ file[g][i].fault = "null"
                          \/ ~IsBox(RowBox(file[g][i]))
                          \/ file[g][i].fault = "value" /\ Meet(RowBox(file[g][i]), query)}

Read(g) ==
  /\ pc = "reading" /\ g \in DOMAIN got /\ got[g] = None
  /\ got' = [got EXCEPT ![g] =
               IF Refused(g) # {} THEN [error |-> Min(Refused(g)), rows |-> {}]
               ELSE [error |-> None,
                     rows |-> {i \in DOMAIN file[g] : Meet(RowBox(file[g][i]), query)}]]
  /\ UNCHANGED <<file, query, pc>>

Return ==
  /\ pc = "reading" /\ \A g \in DOMAIN got : got[g] # None
  /\ pc' = "done"
  /\ UNCHANGED <<file, query, got>>

Next == Query \/ (\E g \in DOMAIN got : Read(g)) \/ Return

Spec == Init /\ [][Next]_vars

(* query_by_bbox "Uses row-group statistics to skip row groups that cannot *)
(* contain matching rows" (snap_store.rs:493): when no row is one to       *)
(* refuse, every row whose bbox meets the box comes back.  The statistics  *)
(* know nothing of the rows that have no bbox, so a row group with both    *)
(* kinds is skipped although a row of it, by its geometry, matches.        *)
SkipsNoMatch ==
  pc = "done" /\ (\A g \in DOMAIN file : Refused(g) = {}) =>
    \A g \in DOMAIN file : \A i \in DOMAIN file[g] :
      Meet(RowBox(file[g][i]), query) => g \in DOMAIN got /\ i \in got[g].rows
=============================================================================
