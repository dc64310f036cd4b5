-------------------------------- MODULE Portal --------------------------------
(***************************************************************************)
(* The portal (src/main.rs): an accept loop that gives every connection a  *)
(* thread, one engine behind a mutex, and a ladder of search radii that a  *)
(* delineation climbs when the caller pins none.                           *)
(*                                                                         *)
(* A request is picked with everything that will decide its fate: what it  *)
(* asks for, how far the nearest candidate is, and what may go wrong with  *)
(* it.  An outlet resolves at a radius exactly when a candidate lies       *)
(* within it, unless a read fails.                                         *)
(***************************************************************************)
EXTENDS Integers, Sequences

CONSTANTS
  Conns,      \* connections, each made once
  Requests,   \* the requests considered
  Ladder,     \* RADIUS_LADDER, in metres
  Nowhere,    \* the distance of a candidate that does not exist
  None

Request ==
  [kind : {"silent", "page", "incomplete", "delineate"},
   pinned : Int \cup {None},     \* the radius, if one was sent that parses
   nearest : Nat \cup {Nowhere},
   faults : SUBSET {"accept", "read", "stages", "panic", "stall"}]

ASSUME PortalAssumption ==
  /\ Requests \subseteq Request
  /\ Ladder \in Seq(Nat \ {0}) /\ Ladder # << >>
  /\ \A i, j \in 1..Len(Ladder) : i < j => Ladder[i] < Ladder[j]
  /\ None \notin Conns \cup Int /\ Nowhere \notin Int

VARIABLES
  request,    \* [Conns -> Requests]
  pc,         \* [Conns -> ..]: where each connection's thread stands
  holder,     \* the connection whose thread holds the engine's mutex
  poisoned,   \* whether a holder has panicked
  rung,       \* [Conns -> ..]: the radius of its ladder being tried
  reply       \* [Conns -> ..]: the answer, as far as it is known

vars == <<request, pc, holder, poisoned, rung, reply>>

(* In delineate or sending its result: the guard lives till the send ends. *)
Engaged == {"parse", "resolve", "stages", "send"}

NoReply == [status |-> "none", radius |-> None, escalated |-> FALSE]

(* A pinned radius is a ladder of one rung. *)
LadderOf(c) ==
  IF request[c].pinned = None THEN Ladder ELSE <<request[c].pinned>>
Metres(c) == LadderOf(c)[rung[c]]

Init ==
  /\ request \in [Conns -> Requests]
  /\ pc = [c \in Conns |-> "backlog"]
  /\ holder = None
  /\ poisoned = FALSE
  /\ rung = [c \in Conns |-> 1]
  /\ reply = [c \in Conns |-> NoReply]

-----------------------------------------------------------------------------

Move(c, from, to) ==
  /\ pc[c] = from
  /\ pc' = [pc EXCEPT ![c] = to]

Faulty(c, fault) == fault \in request[c].faults

Answer(c, status, radius, escalated) ==
  reply' = [reply EXCEPT ![c] =
              [status |-> status, radius |-> radius, escalated |-> escalated]]

(* The accept loop: a thread per connection; a failed accept is passed by. *)
Accept(c) ==
  /\ \/ Move(c, "backlog", "read")
     \/ Faulty(c, "accept") /\ Move(c, "backlog", "dropped")
  /\ UNCHANGED <<request, holder, poisoned, rung, reply>>

(* Mutant of ReadLine: the mutex is taken before the path is looked at. *)
ReadLineLocked(c) ==
  /\ IF request[c].kind = "silent"
     THEN Move(c, "read", "dropped") ELSE Move(c, "read", "lock")
  /\ UNCHANGED <<request, holder, poisoned, rung, reply>>

(* read_line: a client that sends nothing runs into the read timeout.      *)
(* Pages, metadata, preflights and unknown paths need no engine.           *)
ReadLine(c) ==
  /\ \/ request[c].kind = "silent" /\ Move(c, "read", "dropped") /\ UNCHANGED reply
     \/ /\ request[c].kind = "page" /\ Move(c, "read", "sendPage")
        /\ Answer(c, "page", None, FALSE)
     \/ /\ request[c].kind \in {"incomplete", "delineate"}
        /\ Move(c, "read", "lock") /\ UNCHANGED reply
  /\ UNCHANGED <<request, holder, poisoned, rung>>

(* Mutant of Lock: engine.lock().unwrap(). *)
LockUnwrap(c) ==
  /\ holder = None
  /\ IF poisoned THEN Move(c, "lock", "dropped") /\ UNCHANGED holder
     ELSE Move(c, "lock", "parse") /\ holder' = c
  /\ UNCHANGED <<request, poisoned, rung, reply>>

(* engine.lock(): a poisoned mutex is taken all the same. *)
Lock(c) ==
  /\ holder = None
  /\ Move(c, "lock", "parse")
  /\ holder' = c
  /\ UNCHANGED <<request, poisoned, rung, reply>>

(* delineate: coordinates are parsed and the level is selected. *)
Parse(c) ==
  /\ \/ /\ request[c].kind = "incomplete"
        /\ Move(c, "parse", "send")
        /\ Answer(c, "badRequest", None, FALSE)
     \/ /\ request[c].kind = "delineate"
        /\ Move(c, "parse", "resolve")
        /\ UNCHANGED reply
  /\ UNCHANGED <<request, holder, poisoned, rung>>

Resolves(c) == request[c].nearest # Nowhere /\ request[c].nearest <= Metres(c)

(* SearchRadiusMetres::new refuses it. *)
BadRadius(c) ==
  /\ Metres(c) <= 0
  /\ Move(c, "resolve", "send")
  /\ Answer(c, "badRequest", None, FALSE)
  /\ UNCHANGED <<request, holder, poisoned, rung>>

(* Mutant of Resolve: the radius reported is that of the last rung. *)
ResolveAtLast(c) ==
  /\ Metres(c) > 0 /\ Resolves(c)
  /\ Move(c, "resolve", "stages")
  /\ Answer(c, "none", LadderOf(c)[Len(LadderOf(c))], FALSE)
  /\ UNCHANGED <<request, holder, poisoned, rung>>

(* resolve_outlet_at_level finds an outlet: this is the radius used. *)
Resolve(c) ==
  /\ Metres(c) > 0 /\ Resolves(c)
  /\ Move(c, "resolve", "stages")
  /\ Answer(c, "none", Metres(c), Metres(c) > LadderOf(c)[1])
  /\ UNCHANGED <<request, holder, poisoned, rung>>

(* It does not, for want of a candidate or because a read failed: whatever *)
(* the error, the next rung is tried, and the last one ends the request.   *)
Climb(c) ==
  /\ pc[c] = "resolve"
  /\ Metres(c) > 0
  /\ ~Resolves(c) \/ Faulty(c, "read")
  /\ IF rung[c] < Len(LadderOf(c))
     THEN /\ rung' = [rung EXCEPT ![c] = @ + 1]
          /\ UNCHANGED <<pc, reply>>
     ELSE /\ Move(c, "resolve", "send")
          /\ Answer(c, "exhausted", Metres(c), FALSE)
          /\ UNCHANGED rung
  /\ UNCHANGED <<request, holder, poisoned>>

(* Traversal, pre-merge units, dissolution, reaches and perimeter. *)
Stages(c) ==
  /\ Move(c, "stages", "send")
  /\ \/ reply' = [reply EXCEPT ![c].status = "ok"]
     \/ Faulty(c, "stages") /\ Answer(c, "failed", None, FALSE)
  /\ UNCHANGED <<request, holder, poisoned, rung>>

(* A panic in the engine unwinds the thread and drops the guard. *)
Panic(c) ==
  /\ Faulty(c, "panic") /\ pc[c] \in {"resolve", "stages"}
  /\ pc' = [pc EXCEPT ![c] = "dropped"]
  /\ holder' = None
  /\ poisoned' = TRUE
  /\ UNCHANGED <<request, rung, reply>>

(* send: a client that does not read runs into the write timeout. *)
SendPage(c) ==
  /\ \/ Move(c, "sendPage", "answered")
     \/ Faulty(c, "stall") /\ Move(c, "sendPage", "dropped")
  /\ UNCHANGED <<request, holder, poisoned, rung, reply>>

(* The result goes out while the guard is still held. *)
Send(c) ==
  /\ \/ Move(c, "send", "answered")
     \/ Faulty(c, "stall") /\ Move(c, "send", "dropped")
  /\ holder' = None
  /\ UNCHANGED <<request, poisoned, rung, reply>>

EngineStep(c) ==
  \/ Parse(c) \/ BadRadius(c) \/ Resolve(c) \/ Climb(c)
  \/ Stages(c) \/ Panic(c) \/ Send(c)

PageStep(c) == ReadLine(c) \/ SendPage(c)

Next == \E c \in Conns : Accept(c) \/ PageStep(c) \/ Lock(c) \/ EngineStep(c)

Spec == Init /\ [][Next]_vars

(* The operating system runs every thread, the accept loop included.  The  *)
(* engine may hang for ever inside a request.                              *)
FairSpec ==
  /\ Spec
  /\ \A c \in Conns : WF_vars(Accept(c)) /\ WF_vars(PageStep(c))

(* Every request the engine makes ends, in data, an error or a panic, and  *)
(* the mutex goes to whoever waits for it.                                 *)
EngineReturns ==
  \A c \in Conns : WF_vars(Lock(c)) /\ WF_vars(EngineStep(c))

-----------------------------------------------------------------------------
(* Properties. *)

(* The least rung of the ladder that reaches as far as d. *)
LeastRung(d) ==
  {m \in {Ladder[i] : i \in 1..Len(Ladder)} :
     d <= m /\ \A i \in 1..Len(Ladder) : d <= Ladder[i] => m <= Ladder[i]}

(* An unpinned search is made at the least radius of the ladder that finds *)
(* a candidate, or at a greater one after a failed read, never at a lesser *)
(* one; it gives up only when the last radius finds none or a read failed; *)
(* and it reports an escalation exactly when the first rung was not used.  *)
(* A pinned radius is used as it is, or refused when it is not positive.   *)
LadderExact ==
  \A c \in Conns :
    LET q == request[c]  r == reply[c] IN
    /\ rung[c] \in 1..Len(LadderOf(c))
    /\ pc[c] = "answered" /\ q.kind = "delineate" /\ q.pinned = None =>
         /\ r.status = "ok" =>
              /\ \A m \in LeastRung(q.nearest) :
                   r.radius >= m /\ (r.radius # m => "read" \in q.faults)
              /\ r.escalated <=> r.radius # Ladder[1]
         /\ r.status = "exhausted" =>
              \/ q.nearest = Nowhere
              \/ LeastRung(q.nearest) = {}
              \/ "read" \in q.faults
         /\ r.status # "badRequest"
    /\ pc[c] = "answered" /\ q.kind = "delineate" /\ q.pinned # None =>
         /\ r.status = "ok" =>
              r.radius = q.pinned /\ q.nearest <= q.pinned /\ ~r.escalated
         /\ r.status = "badRequest" <=> q.pinned <= 0

(* Whatever other clients do -- stay silent, stop reading, make the engine *)
(* panic -- a delineation without a fault of its own is answered, as long  *)
(* as the engine does not hang.                                            *)
OthersDoNoHarm ==
  EngineReturns =>
    \A c \in Conns :
      request[c].kind # "silent"
        /\ request[c].faults \subseteq {"read", "stages"}
        ~> pc[c] = "answered"

(* Pages and metadata are answered even while the engine hangs. *)
PagesNeedNoEngine ==
  \A c \in Conns :
    request[c].kind = "page" /\ request[c].faults = {} ~> pc[c] = "answered"
=============================================================================
