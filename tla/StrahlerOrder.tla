---------------------------- MODULE StrahlerOrder ----------------------------
(***************************************************************************)
(* strahler_orders: the Strahler order of every unit of a delineation,     *)
(* folded up the traversal tree with an explicit stack instead of a        *)
(* recursion.  A unit is pushed twice: once to push its children, and once *)
(* to fold the orders they have got by then.                               *)
(*                                                                         *)
(* The tree is the downstream map that collect_upstream has built; it and  *)
(* its units are the traversal's, and are only read here.                  *)
(***************************************************************************)
EXTENDS Integers, FiniteSets, Sequences

VARIABLES
  units,       \* the units of the result, terminal first
  terminal,    \* the one without a downstream unit
  downstream,  \* downstream_id of every other unit
  stack,       \* <<unit, expanded>>, the last one on top
  order        \* the orders computed so far

vars == <<stack, order>>

Init ==
  /\ stack = << >>
  /\ order = << >>

Members == {units[i] : i \in 1..Len(units)}
Inner == Members \ {terminal}

-----------------------------------------------------------------------------

Begin ==
  /\ stack = << >> /\ order = << >>
  /\ stack' = <<<<terminal, FALSE>>>>
  /\ UNCHANGED order

Kids(u) == {v \in Inner : downstream[v] = u}

Top == stack[Len(stack)]
Rest == SubSeq(stack, 1, Len(stack) - 1)

(* The entries that push the members of S, in some order. *)
Pushes(S) ==
  {[i \in 1..Cardinality(S) |-> <<s[i], FALSE>>] :
     s \in {f \in [1..Cardinality(S) -> S] :
              \A i, j \in 1..Cardinality(S) : f[i] = f[j] => i = j}}

(* Mutant of Expand: the entry looked at is not taken off. *)
ExpandPeeked ==
  /\ stack # << >> /\ ~Top[2]
  /\ \E kids \in Pushes(Kids(Top[1])) :
       stack' = Append(stack, <<Top[1], TRUE>>) \o kids
  /\ UNCHANGED order

(* The first visit: the unit goes back, and its children above it. *)
Expand ==
  /\ stack # << >> /\ ~Top[2]
  /\ \E kids \in Pushes(Kids(Top[1])) :
       stack' = Append(Rest, <<Top[1], TRUE>>) \o kids
  /\ UNCHANGED order

Set(u, value) ==
  order' = [x \in DOMAIN order \cup {u} |-> IF x = u THEN value ELSE order[x]]

(* order.get(kid).copied().unwrap_or(1) *)
Got(v) == IF v \in DOMAIN order THEN order[v] ELSE 1

Largest(S) == {v \in S : \A w \in S : Got(w) <= Got(v)}

(* Mutant of Folded: one more than the maximum for any confluence. *)
FoldedAnyConfluence(u) ==
  LET largest == Largest(Kids(u)) IN
  IF Kids(u) = {} THEN 1
  ELSE LET v == CHOOSE w \in largest : TRUE IN
         IF Kids(u) = {v} THEN Got(v) ELSE Got(v) + 1

(* A unit without children has order 1; another the largest order of its   *)
(* children, or one more if several have it.                               *)
Folded(u) ==
  LET largest == Largest(Kids(u)) IN
  IF Kids(u) = {} THEN 1
  ELSE LET v == CHOOSE w \in largest : TRUE IN
         IF largest = {v} THEN Got(v) ELSE Got(v) + 1

(* The second visit. *)
Fold ==
  /\ stack # << >> /\ Top[2]
  /\ Set(Top[1], Folded(Top[1]))
  /\ stack' = Rest

Next == Begin \/ Expand \/ Fold

-----------------------------------------------------------------------------
(* Properties. *)

Ended == stack = << >> /\ order # << >>

(* In the end every unit has an order, and the orders are the Strahler     *)
(* orders of the tree: 1 at the leaves, and k above exactly one child of   *)
(* the largest order k, or above several of order k - 1.  No unit was      *)
(* folded before its children, however deep or wide the tree is.           *)
OrdersAreStrahler ==
  Ended =>
    /\ DOMAIN order = Members
    /\ \A u \in Members :
         \/ Kids(u) = {} /\ order[u] = 1
         \/ \E v \in Kids(u) :
              /\ order[u] = order[v]
              /\ \A w \in Kids(u) \ {v} : order[w] < order[v]
         \/ \E v, w \in Kids(u) :
              /\ v # w /\ order[v] = order[w]
              /\ order[u] = order[v] + 1
              /\ \A x \in Kids(u) : order[x] <= order[v]
=============================================================================
