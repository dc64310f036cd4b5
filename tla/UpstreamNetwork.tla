--------------------------- MODULE UpstreamNetwork ---------------------------
(***************************************************************************)
(* What the examples make of a drainage graph: the upstream traversal and, *)
(* on the downstream map it returns, the Strahler order of every unit.     *)
(* The two procedures are UpstreamTraversal and StrahlerOrder.             *)
(***************************************************************************)
EXTENDS UpstreamTraversal

VARIABLES stack, order  \* the fold of strahler_orders

Orders == INSTANCE StrahlerOrder

networkVars == <<vars, stack, order>>

NetworkInit == Init /\ Orders!Init

(* collect_upstream and the same-level check. *)
Walk == Next /\ UNCHANGED <<stack, order>>

(* strahler_orders on the result of a traversal that succeeded. *)
Order == result = "ok" /\ Orders!Next /\ UNCHANGED vars

NetworkNext == Walk \/ Order

NetworkSpec ==
  NetworkInit /\ [][NetworkNext]_networkVars /\ WF_networkVars(NetworkNext)

-----------------------------------------------------------------------------
(* Properties. *)

(* Whatever the graph, cycles and diamonds included, the orders folded on  *)
(* what the walk returned are the Strahler orders of its downstream map.   *)
OrdersAreStrahler == Orders!OrdersAreStrahler

(* Both end on every graph, cyclic ones included: the walk with a result   *)
(* or an error, the fold with an order for the terminal.                   *)
BothTerminate ==
  <>(/\ result \notin {"start", "running"}
     /\ result = "ok" => Orders!Ended)
=============================================================================
