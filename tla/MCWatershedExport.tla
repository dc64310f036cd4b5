------------------------- MODULE MCWatershedExport -------------------------
(* Small datasets for WatershedExport: sound ones, one for each thing the  *)
(* open refuses, snaps with faults and without a bbox, and overwrites that *)
(* move or take away a row, a level, a cell or a geometry while the calls  *)
(* run.                                                                    *)
EXTENDS WatershedExport

Row(u, lv, cells) == [id |-> u, level |-> lv, cells |-> cells, fault |-> "none"]
Up(lv, ids) == [level |-> lv, upstream |-> ids]

(* 1 drains 2 and 3, 2 and 3 both drain 4; 9 is of a coarser level. *)
Diamond == 1 :> Up(1, <<2, 3>>) @@ 2 :> Up(1, <<4>>) @@ 3 :> Up(1, <<4>>)
           @@ 4 :> Up(1, << >>) @@ 9 :> Up(0, << >>)
Cells == <<Row(1, 1, {<<-1, 0>>, <<0, 0>>}), Row(9, 0, {<<-2, -2>>}),
           Row(2, 1, {<<-2, 1>>}), Row(3, 1, {<<1, 0>>}), Row(4, 1, {<<1, 1>>})>>

Snap(g, u, cells, boxed) == [group |-> g, unit |-> u, cells |-> cells, boxed |-> boxed, fault |-> "none"]
Snaps == [levels |-> {0, 1}, rows |-> <<Snap(1, 1, {<<0, 0>>}, TRUE), Snap(1, 2, {<<-2, 1>>}, TRUE),
                                     Snap(2, 4, {<<1, 1>>}, FALSE), Snap(2, 9, {<<-7, -7>>}, TRUE)>>]

Sound == [count |-> 5, version |-> TRUE, graph |-> Diamond, snap |-> Snaps,
          groups |-> <<1, 1, 2, 2, 2>>, uploads |-> <<Cells>>]
Overwritten(later) == [Sound EXCEPT !.uploads = <<Cells, later>>]

(* Without snaps an outlet lies in a catchment: in a row that an upload    *)
(* may have given an id, or a level, that the graph does not know.         *)
Snapless(later) ==
  [Sound EXCEPT !.count = 2, !.snap = None, !.groups = <<1, 2>>,
     !.graph = 1 :> Up(1, << >>) @@ 9 :> Up(0, << >>),
     !.uploads = <<SubSeq(Cells, 1, 2), later>>]

(* Two units that drain each other, one of them without an area. *)
Loop == [Sound EXCEPT !.count = 2, !.version = FALSE, !.snap = None, !.groups = <<1, 1>>,
           !.graph = 1 :> Up(0, <<2>>) @@ 2 :> Up(0, <<1, 1>>),
           !.uploads = <<<<Row(1, 0, {<<0, 0>>}), Row(2, 0, {})>>>>]

MCDatasets ==
  {Sound, Loop,
   Overwritten([Cells EXCEPT ![5].id = 8]),
   Overwritten([Cells EXCEPT ![4] = Cells[5], ![5] = Cells[4]]),
   Overwritten([Cells EXCEPT ![5].level = 0]),
   Overwritten([Cells EXCEPT ![5].cells = {}, ![3].cells = {<<-2, 0>>}]),
   Overwritten([Cells EXCEPT ![4].fault = "wkb", ![2].fault = "null"]),
   Overwritten(None),
   Snapless(<<Row(1, 1, {<<0, 0>>}), Row(8, 1, {<<1, 1>>})>>),
   Snapless(<<Row(1, 0, {<<0, 0>>}), Row(9, 1, {<<1, 1>>})>>),
   [Sound EXCEPT !.snap.rows[2].fault = "value", !.snap.rows[4].cells = {<<2, 2>>}],
   [Sound EXCEPT !.snap.rows[4].fault = "corrupt", !.snap.rows[4].cells = {<<1, 2>>}],
   [Sound EXCEPT !.snap.rows[3].fault = "point", !.snap.rows[4].cells = {<<2, 2>>}],
   [Sound EXCEPT !.snap.levels = {0}],
   [Sound EXCEPT !.count = 6],
   [Sound EXCEPT !.graph = [u \in 1..4 |-> Diamond[u]]],
   [Sound EXCEPT !.graph[3].upstream = <<4, 7>>],
   [Sound EXCEPT !.graph[3].upstream = <<4, 9>>],
   [Sound EXCEPT !.graph[4].level = 0],
   [Sound EXCEPT !.uploads[1][5].id = 3],
   [Sound EXCEPT !.snap.rows[1].unit = 8]}

MCLow == -2
MCCalls == {1, 2}
MCModes ==
  {<<"disabled", "best_effort">>, <<"require_d8", "units">>, <<"best_effort", "disabled">>,
   <<"units", "units">>, <<"reaches", "require_d8">>}

Item(c, name, method) == [call |-> c, name |-> name, method |-> method]

MCRequests ==
  {<< >>, <<Item(1, None, 1)>>,
   <<Item(1, None, 1), Item(2, None, 1)>>, <<Item(2, None, 2), Item(1, None, 1)>>,
   <<Item(1, 7, 1), Item(2, 5, 1)>>, <<Item(1, 5, 1), Item(2, 5, 2), Item(1, None, 1)>>,
   <<Item(1, None, 1), Item(1, None, 2)>>, <<Item(2, 5, 1), Item(2, 5, 1)>>}

(* The Hilbert curve of the code goes through every place once, each next  *)
(* to the one before.                                                      *)
ASSUME HilbertIsCurve ==
  LET side == 0..(2^Bits - 1) IN
  /\ {Export!Hilbert(x, y) : x \in side, y \in side} = 0..(4^Bits - 1)
  /\ \A x, y, a, b \in side :
       Export!Hilbert(a, b) = Export!Hilbert(x, y) + 1 =>
         (a - x) * (a - x) + (b - y) * (b - y) = 1
=============================================================================
