-------------------------- MODULE WatershedExport --------------------------
(***************************************************************************)
(* A batch of delineations and the export of what it answered, as an       *)
(* application composes them: the results of the batch as basins, or its   *)
(* pre-merge units as bundles, in an order and under labels of the         *)
(* caller's choice.                                                        *)
(***************************************************************************)
EXTENDS Delineation, RowGroups

CONSTANTS
  Requests,     \* what callers export: sequences of [call, name, method],
                \* name an explicit basin id or None
  Bits, Low, Span, Step

VARIABLES kind, inputs, stage, rows, file

Export == INSTANCE BasinExport

ASSUME WatershedExportAssumption ==
  /\ Export!ExportAssumption
  /\ \A r \in Requests : r \in Seq([call : Calls, name : Int \cup {None}, method : Int])

exportVars == <<kind, inputs, stage, rows, file>>
vars == <<batchVars, exportVars>>

Status(c) ==
  IF refined[c] # {} THEN "applied"
  ELSE IF mode[c] = "best_effort" THEN "best_effort_skipped" ELSE "disabled"

(* The basin of a call, or its bundle.  The outlet's name is its origin; a *)
(* default label needs the version of the fabric.                          *)
Input(what, item) ==
  LET c == item.call IN
  [id |-> IF item.name = None THEN result[c].terminal ELSE item.name,
   defaulted |-> what = "basin" /\ item.name = None, origin |-> c,
   label |-> IF data.version THEN item.method ELSE None,
   terminal |-> result[c].terminal, status |-> Status(c),
   items |-> IF what = "basin" THEN <<[id |-> result[c].terminal, cells |-> result[c].cells]>>
             ELSE [n \in DOMAIN upstream[c].units |->
                     [id |-> upstream[c].units[n], cells |-> units[c][upstream[c].units[n]]]]]

Dissolved(c) == result[c].error = << >> /\ mode[c] \notin {"units", "reaches"}

(* When a batch is done its answers may be exported. *)
ExportBatch ==
  /\ BatchDone /\ index # None
  /\ \E what \in {"basin", "bundle"}, request \in Requests :
       /\ \A n \in DOMAIN request :
            LET c == request[n].call IN
            IF what = "basin" THEN Dissolved(c) ELSE result[c].error = << >>
       /\ Export!Write(what, [n \in DOMAIN request |-> Input(what, request[n])])
  /\ UNCHANGED batchVars

WatershedInit == Init /\ Export!Idle

WatershedNext ==
  \/ BatchNext /\ UNCHANGED exportVars
  \/ ExportBatch
  \/ Export!ExportNext /\ UNCHANGED batchVars

Spec == WatershedInit /\ [][WatershedNext]_vars

ExportExact == Export!ExportExact
=============================================================================
