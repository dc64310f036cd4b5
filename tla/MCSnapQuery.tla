----------------------------- MODULE MCSnapQuery -----------------------------
(* One or two row groups of up to two snap targets, each with or without a *)
(* bbox: points and short lines along an axis.                             *)
EXTENDS SnapQuery

Extents == {<<-1, -1>>, <<-1, 2>>, <<4, 6>>, <<6, 6>>}
Rows == [box : Extents \cup {None}, extent : Extents, fault : {"none", "value"}]
Targets == {r \in Rows : r.box # None => r.box = r.extent}
SomeFiles ==
  {<<g>> : g \in Targets \X Targets}
    \cup {<< <<r>>, <<s, t>> >> : r, s \in Targets, t \in {u \in Targets : u.box = None}}
SomeBoxes == {<<-2, 1>>, <<3, 5>>, <<6, 7>>}
=============================================================================
