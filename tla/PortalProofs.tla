---------------------------- MODULE PortalProofs ----------------------------
(* Theorems about Portal, for any connections, requests and ladder. *)
EXTENDS Portal, TLAPS

Steps == {"backlog", "read", "sendPage", "lock", "parse", "resolve", "stages",
          "send", "answered", "dropped"}
Reply == [status : {"none", "page", "badRequest", "ok", "failed", "exhausted"},
          radius : Int \cup {None}, escalated : BOOLEAN]

Typed ==
  /\ request \in [Conns -> Request]
  /\ pc \in [Conns -> Steps]
  /\ rung \in [Conns -> Nat]
  /\ reply \in [Conns -> Reply]

-----------------------------------------------------------------------------
(* The ladder of a request ascends. *)

LEMMA LadderAscends ==
  ASSUME Typed, NEW c \in Conns
  PROVE  /\ LadderOf(c) \in Seq(Int) /\ Len(LadderOf(c)) \in Nat \ {0}
         /\ \A i, j \in 1..Len(LadderOf(c)) : i < j => LadderOf(c)[i] < LadderOf(c)[j]
<1>1. CASE request[c].pinned = None
  BY <1>1, PortalAssumption DEF LadderOf
<1>2. CASE request[c].pinned # None
  <2>1. request[c].pinned \in Int
    BY <1>2 DEF Typed, Request
  <2> QED  BY <1>2, <2>1 DEF LadderOf
<1> QED  BY <1>1, <1>2

-----------------------------------------------------------------------------
(* What holds of a connection while it climbs, and when it has settled.    *)

(* The ith radius was not enough, or a read failed. *)
Passed(c, i) ==
  \/ "read" \in request[c].faults
  \/ request[c].nearest = Nowhere
  \/ LadderOf(c)[i] < request[c].nearest

Found(c) ==
  /\ Metres(c) > 0 /\ Resolves(c)
  /\ reply[c].radius = Metres(c)
  /\ reply[c].escalated = (Metres(c) > LadderOf(c)[1])

Settled(c) ==
  /\ reply[c].status = "ok" => Found(c)
  /\ reply[c].status = "exhausted" =>
       rung[c] = Len(LadderOf(c)) /\ Passed(c, rung[c])
  /\ reply[c].status = "badRequest" <=> Metres(c) <= 0

Climbing(c) ==
  /\ rung[c] \in 1..Len(LadderOf(c))
  /\ \A i \in 1..(rung[c] - 1) : Passed(c, i)
  /\ pc[c] = "sendPage" => request[c].kind = "page"
  /\ pc[c] \in {"resolve", "stages"} => request[c].kind = "delineate"
  /\ pc[c] = "stages" => Found(c)
  /\ pc[c] \in {"send", "answered"} /\ request[c].kind = "delineate" => Settled(c)

(* The inductive invariant. *)
IInv == Typed /\ \A c \in Conns : Climbing(c)

LEMMA InitIInv == Init => IInv
<1> SUFFICES ASSUME Init PROVE IInv
  OBVIOUS
<1>1. Typed
  BY PortalAssumption DEF Init, Typed, Steps, Reply, NoReply
<1>2. ASSUME NEW c \in Conns PROVE Climbing(c)
  BY <1>1, LadderAscends DEF Init, Climbing
<1> QED  BY <1>1, <1>2 DEF IInv

(* A connection that keeps its rung, reply and step keeps what held of it. *)
LEMMA Untouched ==
  ASSUME NEW c \in Conns, Climbing(c), request' = request,
         pc'[c] = pc[c], rung'[c] = rung[c], reply'[c] = reply[c]
  PROVE  Climbing(c)'
BY DEF Climbing, Settled, Found, Passed, Resolves, Metres, LadderOf

(* A step moves one connection, and with it perhaps its reply or its rung. *)
LEMMA OneConnection ==
  ASSUME Typed, NEW c \in Conns, NEW step \in Steps, NEW n \in Nat, NEW r \in Reply,
         request' = request,
         pc' = pc \/ pc' = [pc EXCEPT ![c] = step],
         rung' = rung \/ rung' = [rung EXCEPT ![c] = n],
         reply' = reply \/ reply' = [reply EXCEPT ![c] = r]
  PROVE  /\ Typed'
         /\ \A d \in Conns \ {c} : pc'[d] = pc[d] /\ rung'[d] = rung[d] /\ reply'[d] = reply[d]
<1>1. pc' \in [Conns -> Steps]
  BY DEF Typed
<1>2. rung' \in [Conns -> Nat]
  BY DEF Typed
<1>3. reply' \in [Conns -> Reply]
  BY DEF Typed
<1> QED  BY <1>1, <1>2, <1>3 DEF Typed

LEMMA Answers ==
  ASSUME Typed, NEW c \in Conns, NEW status, NEW radius, NEW escalated \in BOOLEAN,
         status \in {"none", "page", "badRequest", "ok", "failed", "exhausted"},
         radius \in Int \cup {None}, Answer(c, status, radius, escalated)
  PROVE  LET r == [status |-> status, radius |-> radius, escalated |-> escalated]
         IN r \in Reply /\ reply' = [reply EXCEPT ![c] = r] /\ reply'[c] = r
BY DEF Answer, Typed, Reply

-----------------------------------------------------------------------------
(* The steps, by what they leave of the invariant of their connection.     *)

Elsewhere(c) ==
  \A d \in Conns \ {c} : pc'[d] = pc[d] /\ rung'[d] = rung[d] /\ reply'[d] = reply[d]

(* Before the ladder: nothing is known yet but the kind of the request. *)
LEMMA StepsBefore ==
  ASSUME IInv, NEW c \in Conns,
         Accept(c) \/ ReadLine(c) \/ Lock(c) \/ SendPage(c) \/ Parse(c)
  PROVE  request' = request /\ Typed' /\ Climbing(c)' /\ Elsewhere(c)
<1> USE DEF IInv, Elsewhere
<1>1. CASE Accept(c) \/ Lock(c)
  <2>1. /\ UNCHANGED <<request, rung, reply>> /\ pc'[c] \in {"read", "dropped", "parse"}
        /\ \E step \in Steps : pc' = [pc EXCEPT ![c] = step]
    BY <1>1 DEF Accept, Lock, Move, Typed, Steps
  <2>2. Typed' /\ Elsewhere(c)
    BY <2>1 DEF Typed
  <2> QED  BY <2>1, <2>2 DEF Climbing, Passed, LadderOf
<1>2. CASE SendPage(c)
  <2>1. /\ UNCHANGED <<request, rung, reply>> /\ pc[c] = "sendPage"
        /\ pc'[c] \in {"answered", "dropped"}
        /\ \E step \in Steps : pc' = [pc EXCEPT ![c] = step]
    BY <1>2 DEF SendPage, Move, Typed, Steps
  <2>2. Typed' /\ Elsewhere(c)
    BY <2>1 DEF Typed
  <2> QED  BY <2>1, <2>2 DEF Climbing, Passed, LadderOf
<1>3. CASE ReadLine(c)
  <2>1. /\ UNCHANGED <<request, rung>>
        /\ \/ pc'[c] = "sendPage" /\ request[c].kind = "page"
           \/ pc'[c] \in {"dropped", "lock"}
        /\ \E step \in Steps : pc' = [pc EXCEPT ![c] = step]
    BY <1>3 DEF ReadLine, Move, Typed, Steps
  <2>2. \E r \in Reply : reply' = reply \/ reply' = [reply EXCEPT ![c] = r]
    BY <1>3, Answers DEF ReadLine, Typed
  <2>3. Typed' /\ Elsewhere(c)
    BY <2>1, <2>2, OneConnection
  <2> QED  BY <2>1, <2>3 DEF Climbing, Passed, LadderOf
<1>4. CASE Parse(c)
  <2>1. /\ UNCHANGED <<request, rung>>
        /\ \/ pc'[c] = "send" /\ request[c].kind = "incomplete"
           \/ pc'[c] = "resolve" /\ request[c].kind = "delineate"
        /\ \E step \in Steps : pc' = [pc EXCEPT ![c] = step]
    BY <1>4 DEF Parse, Move, Typed, Steps
  <2>2. \E r \in Reply : reply' = reply \/ reply' = [reply EXCEPT ![c] = r]
    BY <1>4, Answers DEF Parse, Typed
  <2>3. Typed' /\ Elsewhere(c)
    BY <2>1, <2>2, OneConnection
  <2> QED  BY <2>1, <2>3 DEF Climbing, Passed, LadderOf
<1> QED  BY <1>1, <1>2, <1>3, <1>4

(* On the ladder: a radius that is passed was not enough, or a read        *)
(* failed; the one that finds the outlet is the one of the reply.          *)
LEMMA StepsOnLadder ==
  ASSUME IInv, NEW c \in Conns, BadRadius(c) \/ Resolve(c) \/ Climb(c)
  PROVE  request' = request /\ Typed' /\ Climbing(c)' /\ Elsewhere(c)
<1> USE DEF IInv, Elsewhere
<1>a. /\ Typed /\ Climbing(c) /\ pc[c] = "resolve"
      /\ rung[c] \in 1..Len(LadderOf(c)) /\ Len(LadderOf(c)) \in Nat
      /\ Metres(c) \in Int /\ request[c].kind = "delineate"
      /\ \A i \in 1..(rung[c] - 1) : Passed(c, i)
      /\ LadderOf(c)[1] \in Int
  <2>1. Typed /\ Climbing(c)
    OBVIOUS
  <2>2. pc[c] = "resolve"
    BY DEF BadRadius, Resolve, Climb, Move
  <2>3. LadderOf(c) \in Seq(Int) /\ Len(LadderOf(c)) \in Nat \ {0}
    BY <2>1, LadderAscends
  <2>4. rung[c] \in 1..Len(LadderOf(c))
    BY <2>1 DEF Climbing
  <2>5. Metres(c) \in Int /\ LadderOf(c)[1] \in Int
    BY <2>3, <2>4 DEF Metres
  <2> QED  BY <2>1, <2>2, <2>3, <2>4, <2>5 DEF Climbing
<1>b. ASSUME request' = request, rung' = rung
      PROVE  /\ rung'[c] \in 1..Len(LadderOf(c)')
             /\ \A i \in 1..(rung'[c] - 1) : Passed(c, i)'
             /\ Metres(c)' = Metres(c) /\ LadderOf(c)' = LadderOf(c)
             /\ Resolves(c)' = Resolves(c)
  BY <1>a, <1>b DEF Passed, LadderOf, Metres, Resolves
<1>1. CASE BadRadius(c)
  <2>1. /\ UNCHANGED <<request, rung>> /\ pc' = [pc EXCEPT ![c] = "send"]
        /\ pc'[c] = "send" /\ Metres(c) <= 0
    BY <1>1, <1>a DEF BadRadius, Move, Typed
  <2>2. \E r \in Reply : reply' = [reply EXCEPT ![c] = r]
    BY <1>1, <1>a, Answers DEF BadRadius
  <2>3. reply'[c].status = "badRequest"
    BY <1>1, <1>a DEF BadRadius, Answer, Typed
  <2>4. Typed' /\ Elsewhere(c)
    BY <1>a, <2>1, <2>2, OneConnection DEF Steps
  <2>5. Settled(c)'
    BY <1>b, <2>1, <2>3 DEF Settled
  <2> QED  BY <1>b, <2>1, <2>4, <2>5 DEF Climbing
<1>2. CASE Resolve(c)
  <2>1. /\ UNCHANGED <<request, rung>> /\ pc' = [pc EXCEPT ![c] = "stages"]
        /\ pc'[c] = "stages" /\ Metres(c) > 0 /\ Resolves(c)
    BY <1>2, <1>a DEF Resolve, Move, Typed
  <2> DEFINE e == Metres(c) > LadderOf(c)[1]
  <2>2. reply' = [reply EXCEPT ![c] = [status |-> "none", radius |-> Metres(c), escalated |-> e]]
    BY <1>2 DEF Resolve, Answer
  <2>3. e \in BOOLEAN
    OBVIOUS
  <2>4. [status |-> "none", radius |-> Metres(c), escalated |-> e] \in Reply
    <3> HIDE DEF e
    <3> QED  BY <1>a, <2>3 DEF Reply
  <2>5. reply'[c].radius = Metres(c) /\ reply'[c].escalated = e
    <3> HIDE DEF e
    <3> QED  BY <1>a, <2>2 DEF Typed
  <2>6. Typed' /\ Elsewhere(c)
    <3> HIDE DEF e
    <3> QED  BY <1>a, <2>1, <2>2, <2>4, OneConnection DEF Steps
  <2>7. Found(c)'
    BY <1>b, <2>1, <2>5 DEF Found
  <2>8. request'[c].kind = "delineate"
    BY <1>a, <2>1
  <2> QED  BY <1>b, <2>1, <2>6, <2>7, <2>8 DEF Climbing
<1>3. CASE Climb(c) /\ rung[c] < Len(LadderOf(c))
  <2>1. /\ UNCHANGED <<request, pc, reply>>
        /\ rung' = [rung EXCEPT ![c] = rung[c] + 1] /\ rung'[c] = rung[c] + 1
    BY <1>3, <1>a DEF Climb, Typed
  <2>2. Typed' /\ Elsewhere(c)
    BY <1>a, <2>1 DEF Typed
  <2>3. Passed(c, rung[c])
    BY <1>3, <1>a DEF Climb, Faulty, Resolves, Passed, Metres, Typed, Request
  <2>4. \A i \in 1..(rung'[c] - 1) : Passed(c, i)'
    BY <1>a, <2>1, <2>3 DEF Passed, LadderOf
  <2> QED  BY <1>a, <1>3, <2>1, <2>2, <2>4 DEF Climbing, LadderOf
<1>4. CASE Climb(c) /\ ~ (rung[c] < Len(LadderOf(c)))
  <2>1. /\ UNCHANGED <<request, rung>> /\ pc' = [pc EXCEPT ![c] = "send"]
        /\ pc'[c] = "send" /\ Metres(c) > 0
    BY <1>4, <1>a DEF Climb, Move, Typed
  <2>2. \E r \in Reply : reply' = [reply EXCEPT ![c] = r]
    BY <1>4, <1>a, Answers DEF Climb
  <2>3. reply'[c].status = "exhausted"
    BY <1>4, <1>a DEF Climb, Answer, Typed
  <2>4. Typed' /\ Elsewhere(c)
    BY <1>a, <2>1, <2>2, OneConnection DEF Steps
  <2>5. Passed(c, rung[c])
    BY <1>4, <1>a DEF Climb, Faulty, Resolves, Passed, Metres, Typed, Request
  <2>6. Passed(c, rung[c])' /\ rung'[c] = Len(LadderOf(c)')
    BY <1>4, <1>a, <2>1, <2>5 DEF Passed, LadderOf
  <2>7. Settled(c)'
    BY <1>a, <1>b, <2>1, <2>3, <2>6 DEF Settled
  <2> QED  BY <1>b, <2>1, <2>4, <2>7 DEF Climbing
<1> QED  BY <1>1, <1>2, <1>3, <1>4

(* After the ladder: the reply is final, whatever becomes of it. *)
LEMMA StepsAfter ==
  ASSUME IInv, NEW c \in Conns, Stages(c) \/ Panic(c) \/ Send(c)
  PROVE  request' = request /\ Typed' /\ Climbing(c)' /\ Elsewhere(c)
<1> USE DEF IInv, Elsewhere
<1>b. ASSUME request' = request, rung' = rung
      PROVE  /\ rung'[c] \in 1..Len(LadderOf(c)')
             /\ \A i \in 1..(rung'[c] - 1) : Passed(c, i)'
             /\ Metres(c)' = Metres(c) /\ LadderOf(c)' = LadderOf(c)
             /\ Resolves(c)' = Resolves(c)
  <2>1. Climbing(c)
    OBVIOUS
  <2> QED  BY <1>b, <2>1 DEF Climbing, Passed, LadderOf, Metres, Resolves
<1>1. CASE Stages(c)
  <2>1. /\ UNCHANGED <<request, rung>> /\ pc' = [pc EXCEPT ![c] = "send"]
        /\ pc'[c] = "send" /\ pc[c] = "stages"
    BY <1>1 DEF Stages, Move, Typed
  <2>2. Found(c)
    BY <2>1 DEF Climbing
  <2>3. \/ reply' = [reply EXCEPT ![c].status = "ok"]
        \/ Answer(c, "failed", None, FALSE)
    BY <1>1 DEF Stages
  <2>4. \E r \in Reply : reply' = [reply EXCEPT ![c] = r]
    <3>1. CASE reply' = [reply EXCEPT ![c].status = "ok"]
      <4>1. [reply[c] EXCEPT !.status = "ok"] \in Reply
        BY DEF Typed, Reply
      <4> QED  BY <3>1, <4>1 DEF Typed
    <3>2. CASE Answer(c, "failed", None, FALSE)
      BY <3>2, Answers
    <3> QED  BY <2>3, <3>1, <3>2
  <2>5. Typed' /\ Elsewhere(c)
    BY <2>1, <2>4, OneConnection DEF Steps
  <2>6. \/ /\ reply'[c].status = "ok" /\ reply'[c].radius = reply[c].radius
           /\ reply'[c].escalated = reply[c].escalated
        \/ reply'[c].status = "failed"
    BY <2>3 DEF Answer, Typed, Reply
  <2>7. Metres(c) > 0 /\ ~ (Metres(c) <= 0)
    <3>1. Metres(c) \in Int
      <4>1. LadderOf(c) \in Seq(Int)
        BY LadderAscends
      <4> QED  BY <4>1 DEF Metres, Climbing
    <3> QED  BY <2>2, <3>1 DEF Found
  <2>8. Settled(c)'
    BY <1>b, <2>1, <2>2, <2>6, <2>7 DEF Settled, Found
  <2> QED  BY <1>b, <2>1, <2>5, <2>8 DEF Climbing
<1>2. CASE Panic(c)
  <2>1. UNCHANGED <<request, rung, reply>> /\ pc' = [pc EXCEPT ![c] = "dropped"]
    BY <1>2 DEF Panic
  <2>2. Typed' /\ Elsewhere(c) /\ pc'[c] = "dropped"
    BY <2>1 DEF Typed, Steps
  <2> QED  BY <1>b, <2>1, <2>2 DEF Climbing
<1>3. CASE Send(c)
  <2>1. /\ UNCHANGED <<request, rung, reply>> /\ pc[c] = "send"
        /\ \E step \in {"answered", "dropped"} : pc' = [pc EXCEPT ![c] = step]
    BY <1>3 DEF Send, Move
  <2>2. Typed' /\ Elsewhere(c) /\ pc'[c] \in {"answered", "dropped"}
    BY <2>1 DEF Typed, Steps
  <2>3. request'[c].kind = "delineate" => Settled(c)'
    BY <1>b, <2>1 DEF Climbing, Settled, Found, Passed
  <2> QED  BY <1>b, <2>1, <2>2, <2>3 DEF Climbing
<1> QED  BY <1>1, <1>2, <1>3

LEMMA NextIInv == IInv /\ [Next]_vars => IInv'
<1> SUFFICES ASSUME IInv, [Next]_vars PROVE IInv'
  OBVIOUS
<1>1. ASSUME NEW c \in Conns, Accept(c) \/ PageStep(c) \/ Lock(c) \/ EngineStep(c)
      PROVE  IInv'
  <2>1. request' = request /\ Typed' /\ Climbing(c)' /\ Elsewhere(c)
    BY <1>1, StepsBefore, StepsOnLadder, StepsAfter DEF PageStep, EngineStep
  <2>2. ASSUME NEW d \in Conns \ {c} PROVE Climbing(d)'
    BY <2>1, Untouched DEF IInv, Elsewhere
  <2> QED  BY <2>1, <2>2 DEF IInv
<1>2. CASE UNCHANGED vars
  <2>1. ASSUME NEW d \in Conns PROVE Climbing(d)'
    BY <1>2, Untouched DEF IInv, vars
  <2> QED  BY <1>2, <2>1 DEF IInv, vars, Typed
<1> QED  BY <1>1, <1>2 DEF Next

(* Every variable of the portal that decides a reply stays in its type. *)
THEOREM TypeCorrect == Spec => []Typed
<1>1. IInv => Typed
  BY DEF IInv
<1> QED  BY <1>1, InitIInv, NextIInv, PTL DEF Spec

-----------------------------------------------------------------------------
(* What has settled is what the ladder promises. *)

LEMMA UnpinnedExact ==
  ASSUME IInv, NEW c \in Conns, Settled(c), request[c].pinned = None
  PROVE  /\ reply[c].status = "ok" =>
              /\ \A m \in LeastRung(request[c].nearest) :
                   /\ reply[c].radius >= m
                   /\ reply[c].radius # m => "read" \in request[c].faults
              /\ reply[c].escalated <=> reply[c].radius # Ladder[1]
         /\ reply[c].status = "exhausted" =>
              \/ request[c].nearest = Nowhere
              \/ LeastRung(request[c].nearest) = {}
              \/ "read" \in request[c].faults
         /\ reply[c].status # "badRequest"
<1> DEFINE n == rung[c]  d == request[c].nearest
<1>1. /\ LadderOf(c) = Ladder /\ n \in 1..Len(Ladder) /\ Metres(c) = Ladder[n]
      /\ Ladder \in Seq(Nat \ {0}) /\ Len(Ladder) \in Nat \ {0}
      /\ \A i \in 1..Len(Ladder) : Ladder[i] \in Nat \ {0}
      /\ \A i, j \in 1..Len(Ladder) : i < j => Ladder[i] < Ladder[j]
      /\ d \in Nat \cup {Nowhere}
  BY PortalAssumption DEF IInv, Climbing, LadderOf, Metres, Typed, Request
<1>2. \A i \in 1..(n - 1) : Passed(c, i)
  BY DEF IInv, Climbing
<1>3. reply[c].status # "badRequest"
  BY <1>1 DEF Settled
<1>4. ASSUME reply[c].status = "ok", NEW m \in LeastRung(d)
      PROVE  reply[c].radius >= m /\ (reply[c].radius # m => "read" \in request[c].faults)
  <2>1. reply[c].radius = Ladder[n] /\ d \in Nat /\ d <= Ladder[n]
    BY <1>1, <1>4 DEF Settled, Found, Resolves
  <2>2. PICK i \in 1..Len(Ladder) : m = Ladder[i]
    BY DEF LeastRung
  <2>3. d <= m /\ m <= Ladder[n]
    BY <1>1, <2>1 DEF LeastRung
  <2>4. m # Ladder[n] => i \in 1..(n - 1)
    BY <1>1, <2>2, <2>3
  <2>5. i \in 1..(n - 1) => "read" \in request[c].faults
    BY <1>1, <1>2, <2>1, <2>2, <2>3, PortalAssumption DEF Passed
  <2> QED  BY <1>1, <2>1, <2>2, <2>3, <2>4, <2>5
<1>5. ASSUME reply[c].status = "ok"
      PROVE  reply[c].escalated <=> reply[c].radius # Ladder[1]
  <2>1. /\ reply[c].radius = Ladder[n]
        /\ reply[c].escalated = (Ladder[n] > Ladder[1])
    BY <1>1, <1>5 DEF Settled, Found
  <2>2. (Ladder[n] > Ladder[1]) <=> Ladder[n] # Ladder[1]
    BY <1>1
  <2> QED  BY <2>1, <2>2, Zenon
<1>6. ASSUME reply[c].status = "exhausted", d # Nowhere,
             "read" \notin request[c].faults
      PROVE  LeastRung(d) = {}
  <2>1. n = Len(Ladder) /\ Passed(c, n)
    BY <1>1, <1>6 DEF Settled
  <2>2. \A i \in 1..Len(Ladder) : Ladder[i] < d
    BY <1>1, <1>2, <1>6, <2>1 DEF Passed
  <2> QED  BY <1>1, <1>6, <2>2 DEF LeastRung
<1> QED  BY <1>3, <1>4, <1>5, <1>6

LEMMA PinnedExact ==
  ASSUME IInv, NEW c \in Conns, Settled(c), request[c].pinned # None
  PROVE  /\ reply[c].status = "ok" =>
              /\ reply[c].radius = request[c].pinned
              /\ request[c].nearest <= request[c].pinned
              /\ ~ reply[c].escalated
         /\ reply[c].status = "badRequest" <=> request[c].pinned <= 0
<1>1. /\ LadderOf(c) = <<request[c].pinned>> /\ rung[c] = 1
      /\ Metres(c) = request[c].pinned /\ request[c].pinned \in Int
  BY DEF IInv, Climbing, LadderOf, Metres, Typed, Request
<1>2. ASSUME reply[c].status = "ok"
      PROVE  /\ reply[c].radius = request[c].pinned
             /\ request[c].nearest <= request[c].pinned
             /\ reply[c].escalated = (request[c].pinned > request[c].pinned)
  BY <1>1, <1>2 DEF Settled, Found, Resolves
<1>3. ~ (request[c].pinned > request[c].pinned)
  BY <1>1
<1>4. reply[c].status = "badRequest" <=> request[c].pinned <= 0
  BY <1>1 DEF Settled
<1> QED  BY <1>2, <1>3, <1>4, Zenon

(* The radius of an answer is the least of the ladder that finds a         *)
(* candidate, unless a read failed below it, and a pinned one is kept: for *)
(* any ascending ladder and any number of clients.                         *)
THEOREM LadderExactHolds == Spec => []LadderExact
<1>1. IInv => LadderExact
  <2> SUFFICES ASSUME IInv, NEW c \in Conns
               PROVE  LET q == request[c]  r == reply[c] IN
      /\ rung[c] \in 1..Len(LadderOf(c))
      /\ pc[c] = "answered" /\ q.kind = "delineate" /\ q.pinned = None =>
           /\ r.status = "ok" =>
                /\ \A m \in LeastRung(q.nearest) :
                     r.radius >= m /\ (r.radius # m => "read" \in q.faults)
                /\ r.escalated <=> r.radius # Ladder[1]
           /\ r.status = "exhausted" =>
                \/ q.nearest = Nowhere
                \/ LeastRung(q.nearest) = {}
                \/ "read" \in q.faults
           /\ r.status # "badRequest"
      /\ pc[c] = "answered" /\ q.kind = "delineate" /\ q.pinned # None =>
           /\ r.status = "ok" =>
                r.radius = q.pinned /\ q.nearest <= q.pinned /\ ~r.escalated
           /\ r.status = "badRequest" <=> q.pinned <= 0
    BY Zenon DEF LadderExact
  <2>1. /\ rung[c] \in 1..Len(LadderOf(c))
        /\ pc[c] = "answered" /\ request[c].kind = "delineate" => Settled(c)
    BY DEF IInv, Climbing
  <2> QED  BY <2>1, UnpinnedExact, PinnedExact, Zenon
<1> QED  BY <1>1, InitIInv, NextIInv, PTL DEF Spec
=============================================================================
