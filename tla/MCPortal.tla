------------------------------- MODULE MCPortal -------------------------------
(* Instances of Portal for TLC. *)
EXTENDS Portal, TLC

CONSTANTS c1, c2, c3

RadiusLadder == <<100, 300, 1000, 5000, 20000>>

Ask(pinned, nearest, faults) ==
  [kind |-> "delineate", pinned |-> pinned, nearest |-> nearest,
   faults |-> faults]

Plain(kind, faults) ==
  [kind |-> kind, pinned |-> None, nearest |-> Nowhere, faults |-> faults]

(* Candidates on, next to and beyond the rungs; radii pinned to a rung,    *)
(* between rungs, beyond the ladder, to nothing; failing reads and stages. *)
LadderRequests ==
  {Ask(p, d, f) : p \in {None, 0, 400},
                  d \in {0, 101, 20000, 20001, Nowhere},
                  f \in {{}, {"read"}, {"stages"}}}

(* Clients of every kind, and everything that can go wrong with them. *)
ClientRequests ==
  {Plain("silent", {}), Plain("page", {}), Plain("page", {"stall"}),
   Plain("incomplete", {}), Ask(None, 101, {}), Ask(None, 0, {"panic"}),
   Ask(None, 300, {"stall"}), Ask(200, 0, {"read", "accept"})}

SomeRequests == LadderRequests \cup ClientRequests

(* Three clients meet over the mutex, or one climbs the ladder while two   *)
(* others say nothing.                                                     *)
CrowdInit ==
  /\ request \in [Conns -> ClientRequests] \cup
       {[c \in Conns |-> IF c = c1 THEN q ELSE Plain("silent", {})] :
          q \in LadderRequests}
  /\ Init

CrowdSpec ==
  /\ CrowdInit /\ [][Next]_vars
  /\ \A c \in Conns : WF_vars(Accept(c)) /\ WF_vars(PageStep(c))
=============================================================================
