----------------------------- MODULE RowGroups -----------------------------
(***************************************************************************)
(* plan_row_groups: one group for a small file, otherwise as many as the   *)
(* target size asks for, as equal as can be.  The code plans, then checks  *)
(* its plan against the limits.                                            *)
(***************************************************************************)
EXTENDS Integers

CONSTANTS
  Smallest,  \* MIN_BALANCED_ROW_GROUP_SIZE
  Target     \* TARGET_ROW_GROUP_SIZE

ASSUME RowGroupsAssumption ==
  /\ Smallest \in Nat \ {0}
  /\ Target = 2 * Smallest

GroupCount(n) ==
  IF n < Smallest THEN 1 ELSE (n + (Target - 1)) \div Target

(* The first n % GroupCount(n) groups have one row more. *)
Sizes(n) ==
  [g \in 1..GroupCount(n) |->
     (n \div GroupCount(n)) + (IF g <= n % GroupCount(n) THEN 1 ELSE 0)]

(* The first row of group g, counted from 1, and the last. *)
FirstRow(n, g) ==
  ((g - 1) * (n \div GroupCount(n)))
    + (IF g - 1 <= n % GroupCount(n) THEN g - 1 ELSE n % GroupCount(n)) + 1

LastRow(n, g) == FirstRow(n, g) + Sizes(n)[g] - 1

(* balanced_groups_are_legal *)
Legal(n) ==
  n < Smallest \/ \A g \in 1..GroupCount(n) : Sizes(n)[g] \in Smallest..Target
=============================================================================
