----------------------- MODULE UpstreamTraversalProofs -----------------------
(***************************************************************************)
(* Proofs about collect_upstream for every graph: the walk finds exactly   *)
(* what drains to the terminal, lists each unit once, and its downstream   *)
(* map is a tree over real edges; and strahler_orders folds the Strahler   *)
(* order of every unit of that tree.                                       *)
(***************************************************************************)
EXTENDS UpstreamNetwork, SequenceTheorems, FiniteSetTheorems, TLAPS

(* The units found, in the order they were found: expanding one moves it   *)
(* from the queue to the list and leaves this sequence as it is.           *)
Listing == units \o queue

NotBegun == result \in {"start", "terminalNotFound"}

BlankBefore ==
  NotBegun => /\ visited = {} /\ units = << >>
              /\ queue = << >> /\ todo = << >>

OrderIsVisited ==
  /\ visited = Range(Listing)
  /\ \A i, j \in 1..Len(Listing) : Listing[i] = Listing[j] => i = j
  /\ ~NotBegun => Len(Listing) >= 1 /\ Listing[1] = terminal

(* The rows of the expanded units are found, up to what is still to do. *)
RowsCovered ==
  /\ \A i \in 1..Len(units) :
       Range(graph[units[i]])
         \subseteq visited \cup (IF i = Len(units) THEN Range(todo) ELSE {})
  /\ todo # << >> =>
       units # << >> /\ Range(todo) \subseteq Range(graph[Current])

OnlyUpstream == \A S \in SUBSET Ids : ClosedUpstream(S) => visited \subseteq S

TreeInOrder ==
  /\ \A u \in DOMAIN downstream : u \in Range(graph[downstream[u]])
  /\ \A i \in 2..Len(Listing) : \E j \in 1..(i - 1) :
       j <= Len(units) /\ downstream[Listing[i]] = Listing[j]

EndsDry == Found => todo = << >> /\ queue = << >>

(* How the two error results came about, and what Ok was checked against. *)
Verdict ==
  /\ result = "danglingUpstreamRef" => todo # << >> /\ Head(todo) \notin Units
  /\ result = "sameLevelInvariant" => \E u \in visited : level[u] # selected

IInv ==
  /\ TypeOK /\ BlankBefore /\ OrderIsVisited /\ RowsCovered
  /\ OnlyUpstream /\ TreeInOrder /\ EndsDry /\ Verdict

-----------------------------------------------------------------------------
(* Sequences. *)

(* Taking the head of the queue to the end of the list keeps the order. *)
LEMMA MoveHead ==
  ASSUME NEW T, NEW s \in Seq(T), NEW q \in Seq(T), q # << >>
  PROVE  Append(s, Head(q)) \o Tail(q) = s \o q
<1> DEFINE a == Append(s, Head(q))
<1>1. Head(q) \in T /\ Tail(q) \in Seq(T) /\ Len(Tail(q)) = Len(q) - 1
      /\ \A i \in 1..Len(Tail(q)) : Tail(q)[i] = q[i + 1]
  BY HeadTailProperties
<1>2. a \in Seq(T) /\ Len(a) = Len(s) + 1 /\ a[Len(s) + 1] = Head(q)
      /\ \A i \in 1..Len(s) : a[i] = s[i]
  BY <1>1, AppendProperties
<1>3. Head(q) = q[1] /\ Len(q) \in Nat \ {0} /\ Len(s) \in Nat
  BY EmptySeq, LenProperties
<1> HIDE DEF a
<1>4. /\ s \o q \in Seq(T) /\ Len(s \o q) = Len(s) + Len(q)
      /\ \A i \in 1..Len(s) + Len(q) :
           (s \o q)[i] = IF i <= Len(s) THEN s[i] ELSE q[i - Len(s)]
  BY ConcatProperties
<1>5. /\ a \o Tail(q) \in Seq(T) /\ Len(a \o Tail(q)) = Len(a) + Len(Tail(q))
      /\ \A i \in 1..Len(a) + Len(Tail(q)) :
           (a \o Tail(q))[i] = IF i <= Len(a) THEN a[i]
                               ELSE Tail(q)[i - Len(a)]
  BY <1>1, <1>2, ConcatProperties
<1>6. Len(a \o Tail(q)) = Len(s \o q)
  BY <1>1, <1>2, <1>3, <1>4, <1>5
<1>7. ASSUME NEW i \in 1..Len(a \o Tail(q))
      PROVE  (a \o Tail(q))[i] = (s \o q)[i]
  <2>1. CASE i <= Len(s)
    BY <2>1, <1>1, <1>2, <1>3, <1>4, <1>5
  <2>2. CASE i = Len(s) + 1
    BY <2>2, <1>1, <1>2, <1>3, <1>4, <1>5
  <2>3. CASE i > Len(s) + 1
    <3>1. Tail(q)[i - Len(a)] = q[i - Len(a) + 1]
      BY <2>3, <1>1, <1>2, <1>3, <1>5
    <3> QED
      BY <2>3, <3>1, <1>1, <1>2, <1>3, <1>4, <1>5
  <2> QED
    BY <2>1, <2>2, <2>3, <1>3, <1>6, <1>4
<1> QED
  BY <1>4, <1>5, <1>6, <1>7, SeqEqual DEF a

(* What is appended to the queue is appended to the order. *)
LEMMA AppendLast ==
  ASSUME NEW T, NEW s \in Seq(T), NEW q \in Seq(T), NEW x \in T
  PROVE  s \o Append(q, x) = Append(s \o q, x)
<1>1. Append(q, x) = q \o <<x>>
  BY AppendIsConcat
<1>2. s \o q \in Seq(T) /\ <<x>> \in Seq(T)
  BY ConcatProperties
<1>3. Append(s \o q, x) = (s \o q) \o <<x>>
  BY <1>2, AppendIsConcat
<1> QED
  BY <1>1, <1>2, <1>3, ConcatAssociative

LEMMA RangeOfAppend ==
  ASSUME NEW T, NEW s \in Seq(T), NEW x \in T
  PROVE  Range(Append(s, x)) = Range(s) \cup {x}
BY AppendProperties, LenProperties DEF Range

LEMMA RangeOfTail ==
  ASSUME NEW T, NEW s \in Seq(T), s # << >>
  PROVE  Range(s) = {Head(s)} \cup Range(Tail(s))
<1>1. Head(s) = s[1] /\ Len(s) \in Nat \ {0} /\ DOMAIN s = 1..Len(s)
  BY EmptySeq, LenProperties
<1>2. /\ Tail(s) \in Seq(T) /\ Len(Tail(s)) = Len(s) - 1
      /\ \A i \in 1..Len(Tail(s)) : Tail(s)[i] = s[i + 1]
  BY HeadTailProperties
<1>3. DOMAIN Tail(s) = 1..(Len(s) - 1)
  BY <1>2, LenProperties
<1>4. ASSUME NEW i \in 2..Len(s) PROVE s[i] = Tail(s)[i - 1]
  BY <1>1, <1>2
<1>5. Range(s) \subseteq {Head(s)} \cup Range(Tail(s))
  <2> SUFFICES ASSUME NEW i \in 1..Len(s)
               PROVE  s[i] \in {Head(s)} \cup Range(Tail(s))
    BY <1>1 DEF Range
  <2>1. CASE i = 1
    BY <2>1, <1>1
  <2>2. CASE i # 1
    <3>1. i - 1 \in DOMAIN Tail(s) /\ s[i] = Tail(s)[i - 1]
      BY <2>2, <1>1, <1>3, <1>4
    <3> QED
      BY <3>1 DEF Range
  <2> QED
    BY <2>1, <2>2
<1>6. {Head(s)} \cup Range(Tail(s)) \subseteq Range(s)
  BY <1>1, <1>2, <1>3 DEF Range
<1> QED
  BY <1>5, <1>6

-----------------------------------------------------------------------------
(* The invariant. *)

LEMMA InitInv == Init => IInv
<1> SUFFICES ASSUME Init PROVE IInv
  OBVIOUS
<1> USE DEF Init
<1>1. Units \subseteq Ids /\ graph \in [Units -> Seq(Ids)]
  BY UpstreamAssumption DEF Units
<1>2. downstream \in [visited \ {terminal} -> Units]
  OBVIOUS
<1>3. TypeOK
  BY <1>1, <1>2 DEF TypeOK
<1>4. BlankBefore /\ EndsDry /\ Verdict
  BY DEF BlankBefore, EndsDry, Found, Verdict
<1>5. Listing = << >> /\ Len(Listing) = 0 /\ Range(Listing) = {}
  <2>1. Listing = << >>
    BY EmptySeq, ConcatEmptySeq DEF Listing
  <2> QED
    BY <2>1, EmptySeq DEF Range
<1>6. OrderIsVisited
  BY <1>5 DEF OrderIsVisited, NotBegun
<1>7. RowsCovered /\ OnlyUpstream
  BY EmptySeq DEF RowsCovered, OnlyUpstream
<1>8. TreeInOrder
  BY <1>5 DEF TreeInOrder
<1> QED
  BY <1>3, <1>4, <1>6, <1>7, <1>8 DEF IInv

LEMMA BeginStep == IInv /\ Begin => IInv'
<1> SUFFICES ASSUME IInv, Begin PROVE IInv'
  OBVIOUS
<1> USE DEF Begin, problem, IInv
<1>1. NotBegun /\ visited = {} /\ units = << >> /\ queue = << >> /\ todo = << >>
  BY DEF BlankBefore, NotBegun
<1>2. CASE terminal \notin Units
  <2>1. UNCHANGED <<problem, queue, units, visited, downstream, todo>>
        /\ result' = "terminalNotFound"
    BY <1>2
  <2>2. TypeOK'
    BY <2>1 DEF TypeOK, Units
  <2>3. Listing' = Listing /\ Units' = Units /\ Current' = Current
    BY <2>1 DEF Listing, Units, Current
  <2>4. BlankBefore' /\ EndsDry' /\ Verdict' /\ OrderIsVisited'
    BY <2>1, <2>3, <1>1 DEF BlankBefore, NotBegun, EndsDry, Found, Verdict,
                            OrderIsVisited
  <2>5. RowsCovered'
    BY <2>1, <2>3 DEF RowsCovered
  <2>6. OnlyUpstream'
    BY <2>1 DEF OnlyUpstream, ClosedUpstream, Units
  <2>7. TreeInOrder'
    BY <2>1, <2>3 DEF TreeInOrder
  <2> QED
    BY <2>2, <2>4, <2>5, <2>6, <2>7
<1>3. CASE terminal \in Units
  <2>1. /\ visited' = {terminal} /\ queue' = <<terminal>>
        /\ result' = "running"
        /\ UNCHANGED <<graph, level, terminal, selected, units, downstream, todo>>
    BY <1>3
  <2>2. Units' = Units /\ Len(units) = 0 /\ DOMAIN downstream = {}
    BY <2>1, <1>1, EmptySeq DEF Units, TypeOK
  <2>3. downstream' \in [visited' \ {terminal'} -> Units']
    <3>1. visited' \ {terminal'} = visited \ {terminal}
      BY <2>1, <1>1
    <3> QED
      BY <3>1, <2>1, <2>2 DEF TypeOK
  <2>4. TypeOK'
    BY <2>1, <2>2, <2>3, <1>3 DEF TypeOK, Units
  <2>5. Listing' = <<terminal>> /\ Len(Listing') = 1 /\ Listing'[1] = terminal
        /\ Range(Listing') = {terminal}
    <3>1. <<terminal>> \in Seq(Units)
      BY <1>3
    <3>2. Listing' = <<terminal>>
      BY <3>1, <2>1, <1>1, ConcatEmptySeq DEF Listing
    <3> QED
      BY <3>2 DEF Range
  <2>6. BlankBefore' /\ EndsDry' /\ Verdict'
    BY <2>1 DEF BlankBefore, NotBegun, EndsDry, Found, Verdict
  <2>7. OrderIsVisited'
    BY <2>1, <2>5 DEF OrderIsVisited, NotBegun
  <2>8. RowsCovered'
    BY <2>1, <2>2, <1>1 DEF RowsCovered
  <2>9. OnlyUpstream'
    BY <2>1, <2>2 DEF OnlyUpstream, ClosedUpstream
  <2>10. TreeInOrder'
    BY <2>1, <2>2, <2>5 DEF TreeInOrder
  <2> QED
    BY <2>4, <2>6, <2>7, <2>8, <2>9, <2>10
<1> QED
  BY <1>2, <1>3

LEMMA ExpandStep == IInv /\ Expand => IInv'
<1> SUFFICES ASSUME IInv, Expand PROVE IInv'
  OBVIOUS
<1> USE DEF IInv
<1>1. /\ result = "running" /\ todo = << >> /\ queue # << >>
      /\ queue' = Tail(queue) /\ units' = Append(units, Head(queue))
      /\ todo' = graph[Head(queue)]
      /\ UNCHANGED <<graph, level, terminal, selected, visited, downstream, result>>
  BY DEF Expand, problem
<1>2. units \in Seq(Units) /\ queue \in Seq(Units) /\ Units' = Units
      /\ graph \in [Units -> Seq(Ids)]
  BY <1>1 DEF TypeOK, Units
<1>3. Head(queue) \in Units /\ Tail(queue) \in Seq(Units)
  BY <1>1, <1>2, HeadTailProperties
<1>4. /\ units' \in Seq(Units) /\ Len(units') = Len(units) + 1
      /\ Len(units) \in Nat /\ units' # << >>
      /\ \A i \in 1..Len(units) : units'[i] = units[i]
      /\ units'[Len(units) + 1] = Head(queue)
  <2> DEFINE a == Append(units, Head(queue))
  <2>1. /\ a \in Seq(Units) /\ Len(a) = Len(units) + 1 /\ a # << >>
        /\ \A i \in 1..Len(units) : a[i] = units[i]
        /\ a[Len(units) + 1] = Head(queue)
    BY <1>2, <1>3, AppendProperties
  <2>2. Len(units) \in Nat
    BY <1>2, LenProperties
  <2> QED
    BY <1>1, <2>1, <2>2
<1>5. Listing' = Listing
  BY <1>1, <1>2, MoveHead DEF Listing
<1>6. Current' = Head(queue)
  BY <1>4 DEF Current
<1>7. TypeOK'
  BY <1>1, <1>2, <1>3, <1>4 DEF TypeOK
<1>8. BlankBefore' /\ EndsDry' /\ Verdict'
  BY <1>1 DEF BlankBefore, NotBegun, EndsDry, Found, Verdict
<1>9. OrderIsVisited'
  BY <1>1, <1>5 DEF OrderIsVisited, NotBegun
<1>10. RowsCovered'
  <2>1. ASSUME NEW i \in 1..Len(units')
        PROVE  Range(graph[units'[i]])
                 \subseteq visited \cup (IF i = Len(units') THEN Range(todo') ELSE {})
    <3>1. CASE i = Len(units) + 1
      BY <3>1, <1>1, <1>4
    <3>2. CASE i \in 1..Len(units)
      <4>1. Range(graph[units[i]]) \subseteq visited \cup Range(todo)
        BY <3>2 DEF RowsCovered
      <4>2. Range(todo) = {}
        BY <1>1 DEF Range
      <4> QED
        BY <4>1, <4>2, <3>2, <1>4
    <3> QED
      BY <3>1, <3>2, <1>4
  <2> QED
    BY <2>1, <1>1, <1>4, <1>6 DEF RowsCovered
<1>11. OnlyUpstream'
  BY <1>1, <1>2 DEF OnlyUpstream, ClosedUpstream
<1>12. TreeInOrder'
  BY <1>1, <1>4, <1>5 DEF TreeInOrder
<1> QED
  BY <1>7, <1>8, <1>9, <1>10, <1>11, <1>12

(* The head of todo is an upstream id of the unit expanded last. *)
LEMMA TodoFacts ==
  IInv /\ todo # << >> =>
    /\ todo \in Seq(Ids) /\ Tail(todo) \in Seq(Ids) /\ Head(todo) \in Ids
    /\ Range(todo) = {Head(todo)} \cup Range(Tail(todo))
    /\ Len(units) \in Nat \ {0} /\ units \in Seq(Units)
    /\ Current \in Units /\ Current = units[Len(units)]
    /\ Current \in visited
    /\ Range(todo) \subseteq Range(graph[Current])
<1> SUFFICES ASSUME IInv, todo # << >>
             PROVE  /\ todo \in Seq(Ids) /\ Tail(todo) \in Seq(Ids)
                    /\ Head(todo) \in Ids
                    /\ Range(todo) = {Head(todo)} \cup Range(Tail(todo))
                    /\ Len(units) \in Nat \ {0} /\ units \in Seq(Units)
                    /\ Current \in Units /\ Current = units[Len(units)]
                    /\ Current \in visited
                    /\ Range(todo) \subseteq Range(graph[Current])
  OBVIOUS
<1>1. todo \in Seq(Ids) /\ units \in Seq(Units) /\ queue \in Seq(Units)
  BY DEF IInv, TypeOK
<1>2. Head(todo) \in Ids /\ Tail(todo) \in Seq(Ids)
  BY <1>1, HeadTailProperties
<1>3. Range(todo) = {Head(todo)} \cup Range(Tail(todo))
  BY <1>1, RangeOfTail
<1>4. units # << >> /\ Range(todo) \subseteq Range(graph[Current])
  BY DEF IInv, RowsCovered
<1>5. Len(units) \in Nat \ {0}
  BY <1>1, <1>4, EmptySeq
<1>6. Current = units[Len(units)] /\ Current \in Units
  BY <1>1, <1>5, ElementOfSeq DEF Current
<1>7. Current \in Range(units)
  BY <1>1, <1>5, <1>6, LenProperties DEF Range
<1>8. Range(units) \subseteq visited
  BY <1>1, RangeConcatenation DEF IInv, OrderIsVisited, Listing
<1> QED
  BY <1>1, <1>2, <1>3, <1>4, <1>5, <1>6, <1>7, <1>8

LEMMA PassOverStep == IInv /\ PassOver => IInv'
<1> SUFFICES ASSUME IInv, PassOver PROVE IInv'
  OBVIOUS
<1>1. /\ result = "running" /\ todo # << >> /\ Head(todo) \in visited
      /\ todo' = Tail(todo)
      /\ UNCHANGED <<graph, level, terminal, selected, queue, units, visited,
                     downstream, result>>
  BY DEF PassOver, problem
<1>2. Units' = Units /\ Listing' = Listing /\ Current' = Current
  BY <1>1 DEF Units, Listing, Current
<1>3. TypeOK'
  BY <1>1, <1>2, TodoFacts DEF IInv, TypeOK
<1>4. BlankBefore' /\ EndsDry' /\ Verdict' /\ OrderIsVisited'
  BY <1>1, <1>2 DEF IInv, BlankBefore, NotBegun, EndsDry, Found, Verdict,
                    OrderIsVisited
<1>5. RowsCovered'
  <2>1. ASSUME NEW i \in 1..Len(units)
        PROVE  Range(graph[units[i]])
                 \subseteq visited \cup (IF i = Len(units) THEN Range(Tail(todo)) ELSE {})
    <3>1. Range(graph[units[i]])
            \subseteq visited \cup (IF i = Len(units) THEN Range(todo) ELSE {})
      BY DEF IInv, RowsCovered
    <3> QED
      BY <3>1, <1>1, TodoFacts
  <2>2. units # << >> /\ Range(Tail(todo)) \subseteq Range(graph[Current])
    BY <1>1, TodoFacts DEF IInv, RowsCovered
  <2> QED
    BY <2>1, <2>2, <1>1, <1>2 DEF RowsCovered
<1>6. OnlyUpstream'
  BY <1>1, <1>2 DEF IInv, OnlyUpstream, ClosedUpstream
<1>7. TreeInOrder'
  BY <1>1, <1>2 DEF IInv, TreeInOrder
<1> QED
  BY <1>3, <1>4, <1>5, <1>6, <1>7 DEF IInv

LEMMA DangleStep == IInv /\ Dangle => IInv'
<1> SUFFICES ASSUME IInv, Dangle PROVE IInv'
  OBVIOUS
<1>1. /\ result = "running" /\ todo # << >> /\ Head(todo) \notin Units
      /\ result' = "danglingUpstreamRef"
      /\ UNCHANGED <<graph, level, terminal, selected, queue, units, visited,
                     downstream, todo>>
  BY DEF Dangle, problem
<1>2. Units' = Units /\ Listing' = Listing /\ Current' = Current
  BY <1>1 DEF Units, Listing, Current
<1>3. TypeOK'
  BY <1>1, <1>2 DEF IInv, TypeOK
<1>4. BlankBefore' /\ EndsDry' /\ Verdict' /\ OrderIsVisited'
  BY <1>1, <1>2 DEF IInv, BlankBefore, NotBegun, EndsDry, Found, Verdict,
                    OrderIsVisited
<1>5. RowsCovered'
  BY <1>1, <1>2 DEF IInv, RowsCovered
<1>6. OnlyUpstream'
  BY <1>1, <1>2 DEF IInv, OnlyUpstream, ClosedUpstream
<1>7. TreeInOrder'
  BY <1>1, <1>2 DEF IInv, TreeInOrder
<1> QED
  BY <1>3, <1>4, <1>5, <1>6, <1>7 DEF IInv

LEMMA FinishStep == IInv /\ Finish => IInv'
<1> SUFFICES ASSUME IInv, Finish PROVE IInv'
  OBVIOUS
<1>1. /\ result = "running" /\ todo = << >> /\ queue = << >>
      /\ result' \in {"ok", "sameLevelInvariant"}
      /\ UNCHANGED <<graph, level, terminal, selected, queue, units, visited,
                     downstream, todo>>
  BY DEF Finish, problem
<1>2. Units' = Units /\ Listing' = Listing /\ Current' = Current
  BY <1>1 DEF Units, Listing, Current
<1>3. TypeOK'
  BY <1>1, <1>2 DEF IInv, TypeOK
<1>4. BlankBefore' /\ EndsDry' /\ OrderIsVisited'
  BY <1>1, <1>2 DEF IInv, BlankBefore, NotBegun, EndsDry, Found,
                    OrderIsVisited
<1>5. RowsCovered'
  BY <1>1, <1>2 DEF IInv, RowsCovered
<1>6. OnlyUpstream'
  BY <1>1, <1>2 DEF IInv, OnlyUpstream, ClosedUpstream
<1>7. TreeInOrder'
  BY <1>1, <1>2 DEF IInv, TreeInOrder
<1>8. Verdict'
  <2> SUFFICES ASSUME result' = "sameLevelInvariant"
               PROVE  \E u \in visited : level[u] # selected
    BY <1>1 DEF Verdict
  <2>1. PICK i \in 1..Len(units) : level[units[i]] # selected
    BY <1>1 DEF Finish
  <2>2. units \in Seq(Units) /\ queue \in Seq(Units)
    BY DEF IInv, TypeOK
  <2>3. units[i] \in Range(units)
    BY <2>2, LenProperties DEF Range
  <2>4. Range(units) \subseteq visited
    BY <2>2, RangeConcatenation DEF IInv, OrderIsVisited, Listing
  <2> QED
    BY <2>1, <2>3, <2>4
<1> QED
  BY <1>3, <1>4, <1>5, <1>6, <1>7, <1>8 DEF IInv

LEMMA DiscoverStep == IInv /\ Discover => IInv'
<1> SUFFICES ASSUME IInv, Discover PROVE IInv'
  OBVIOUS
<1> DEFINE id == Head(todo)
<1>1. /\ result = "running" /\ todo # << >>
      /\ id \notin visited /\ id \in Units
      /\ visited' = visited \cup {id}
      /\ downstream' = [x \in DOMAIN downstream \cup {id} |->
                          IF x = id THEN Current ELSE downstream[x]]
      /\ queue' = Append(queue, id) /\ todo' = Tail(todo)
      /\ UNCHANGED <<graph, level, terminal, selected, units, result>>
  BY DEF Discover, problem
<1> HIDE DEF id
<1>2. /\ todo \in Seq(Ids) /\ Tail(todo) \in Seq(Ids) /\ id \in Ids
      /\ Range(todo) = {id} \cup Range(Tail(todo))
      /\ Len(units) \in Nat \ {0} /\ units \in Seq(Units)
      /\ Current \in Units /\ Current = units[Len(units)]
      /\ Current \in visited
      /\ Range(todo) \subseteq Range(graph[Current])
  BY <1>1, TodoFacts DEF id
<1>3. Units' = Units /\ Current' = Current
  BY <1>1 DEF Units, Current
<1>4. queue \in Seq(Units) /\ queue' \in Seq(Units)
      /\ DOMAIN downstream = visited \ {terminal}
      /\ downstream \in [visited \ {terminal} -> Units]
      /\ graph \in [Units -> Seq(Ids)]
  BY <1>1, AppendProperties DEF IInv, TypeOK
<1>5. /\ Listing \in Seq(Units) /\ Listing' = Append(Listing, id)
      /\ Listing' \in Seq(Units)
  <2>1. Listing \in Seq(Units)
    BY <1>2, <1>4, ConcatProperties DEF Listing
  <2>2. units \o Append(queue, id) = Append(units \o queue, id)
    BY <1>1, <1>2, <1>4, AppendLast
  <2>3. Listing' = Append(Listing, id)
    BY <2>2, <1>1 DEF Listing
  <2> QED
    BY <2>1, <2>3, <1>1, AppendProperties
<1>6. /\ Len(Listing) \in Nat /\ Len(Listing') = Len(Listing) + 1
      /\ \A i \in 1..Len(Listing) : Listing'[i] = Listing[i]
      /\ Listing'[Len(Listing) + 1] = id
  <2>1. /\ Len(Append(Listing, id)) = Len(Listing) + 1
        /\ \A i \in 1..Len(Listing) : Append(Listing, id)[i] = Listing[i]
        /\ Append(Listing, id)[Len(Listing) + 1] = id
    BY <1>1, <1>5, AppendProperties
  <2>2. Len(Listing) \in Nat
    BY <1>5, LenProperties
  <2> QED
    BY <2>1, <2>2, <1>5
<1>7. \A i \in 1..Len(Listing) : Listing[i] \in visited
  BY <1>5, LenProperties DEF IInv, OrderIsVisited, Range
<1>8. terminal \in visited /\ Len(Listing) >= 1 /\ Listing[1] = terminal
  BY <1>1, <1>6, <1>7 DEF IInv, OrderIsVisited, NotBegun
<1>9. TypeOK'
  <2>1. downstream' \in [visited' \ {terminal} -> Units]
    BY <1>1, <1>2, <1>4, <1>8
  <2> QED
    BY <2>1, <1>1, <1>2, <1>3, <1>4 DEF IInv, TypeOK
<1>10. BlankBefore' /\ EndsDry' /\ Verdict'
  BY <1>1 DEF BlankBefore, NotBegun, EndsDry, Found, Verdict
<1>11. OrderIsVisited'
  <2>1. visited' = Range(Listing')
    BY <1>1, <1>5, RangeOfAppend DEF IInv, OrderIsVisited
  <2>2. ASSUME NEW i \in 1..Len(Listing'), NEW j \in 1..Len(Listing'),
               Listing'[i] = Listing'[j]
        PROVE  i = j
    <3>1. CASE i \in 1..Len(Listing) /\ j \in 1..Len(Listing)
      BY <3>1, <2>2, <1>6 DEF IInv, OrderIsVisited
    <3>2. CASE i = Len(Listing) + 1 /\ j \in 1..Len(Listing)
      BY <3>2, <2>2, <1>1, <1>6, <1>7
    <3>3. CASE i \in 1..Len(Listing) /\ j = Len(Listing) + 1
      BY <3>3, <2>2, <1>1, <1>6, <1>7
    <3> QED
      BY <3>1, <3>2, <3>3, <1>6
  <2>3. Len(Listing') >= 1 /\ Listing'[1] = terminal
    BY <1>6, <1>8
  <2> QED
    BY <2>1, <2>2, <2>3, <1>1 DEF OrderIsVisited, NotBegun
<1>12. RowsCovered'
  <2>1. ASSUME NEW i \in 1..Len(units)
        PROVE  Range(graph[units[i]])
                 \subseteq visited' \cup (IF i = Len(units) THEN Range(Tail(todo)) ELSE {})
    <3>1. Range(graph[units[i]])
            \subseteq visited \cup (IF i = Len(units) THEN Range(todo) ELSE {})
      BY DEF IInv, RowsCovered
    <3> QED
      BY <3>1, <1>1, <1>2
  <2>2. units # << >> /\ Range(Tail(todo)) \subseteq Range(graph[Current])
    BY <1>1, <1>2 DEF IInv, RowsCovered
  <2> QED
    BY <2>1, <2>2, <1>1, <1>3 DEF RowsCovered
<1>13. OnlyUpstream'
  <2> SUFFICES ASSUME NEW S \in SUBSET Ids, ClosedUpstream(S)'
               PROVE  visited' \subseteq S
    BY <1>1 DEF OnlyUpstream
  <2>1. ClosedUpstream(S)
    BY <1>1, <1>3 DEF ClosedUpstream
  <2>2. visited \subseteq S
    BY <2>1 DEF IInv, OnlyUpstream
  <2>3. id \in S
    BY <2>1, <2>2, <1>2 DEF ClosedUpstream
  <2> QED
    BY <2>2, <2>3, <1>1
<1>14. TreeInOrder'
  <2>1. ASSUME NEW u \in DOMAIN downstream'
        PROVE  u \in Range(graph[downstream'[u]])
    <3>1. CASE u = id
      BY <3>1, <1>1, <1>2
    <3>2. CASE u # id
      BY <3>2, <2>1, <1>1 DEF IInv, TreeInOrder
    <3> QED
      BY <3>1, <3>2
  <2>2. ASSUME NEW i \in 2..Len(Listing')
        PROVE  \E j \in 1..(i - 1) :
                 j <= Len(units) /\ downstream'[Listing'[i]] = Listing'[j]
    <3>1. CASE i = Len(Listing) + 1
      <4>1. Len(units) \in 1..(i - 1)
        BY <3>1, <1>2, <1>4, ConcatProperties, LenProperties DEF Listing
      <4>2. Listing[Len(units)] = Current
        BY <4>1, <3>1, <1>2, <1>4, ConcatProperties, LenProperties DEF Listing
      <4>3. Listing'[Len(units)] = Current
        BY <4>1, <4>2, <3>1, <1>6
      <4>4. downstream'[Listing'[i]] = Current
        BY <3>1, <1>1, <1>6
      <4> QED
        BY <4>1, <4>3, <4>4, <1>2
    <3>2. CASE i \in 2..Len(Listing)
      <4>1. PICK j \in 1..(i - 1) :
              j <= Len(units) /\ downstream[Listing[i]] = Listing[j]
        BY <3>2 DEF IInv, TreeInOrder
      <4>2. Listing[i] \in DOMAIN downstream
        BY <3>2, <1>4, <1>6, <1>7, <1>8 DEF IInv, OrderIsVisited
      <4>3. Listing[i] # id
        BY <3>2, <1>1, <1>6, <1>7
      <4>4. downstream'[Listing'[i]] = Listing'[j]
        BY <4>1, <4>2, <4>3, <3>2, <1>1, <1>6
      <4> QED
        BY <4>1, <4>4
    <3> QED
      BY <3>1, <3>2, <1>6
  <2> QED
    BY <2>1, <2>2, <1>1 DEF TreeInOrder
<1> QED
  BY <1>9, <1>10, <1>11, <1>12, <1>13, <1>14 DEF IInv

LEMMA NextStep == IInv /\ [Next]_vars => IInv'
<1> SUFFICES ASSUME IInv, [Next]_vars PROVE IInv'
  OBVIOUS
<1>1. CASE UNCHANGED vars
  BY <1>1 DEF vars, problem, IInv, TypeOK, BlankBefore, OrderIsVisited,
              RowsCovered, OnlyUpstream, TreeInOrder, EndsDry, Verdict, Listing,
              NotBegun, Found, Units, Current, ClosedUpstream
<1> QED
  BY <1>1, BeginStep, ExpandStep, PassOverStep, DangleStep, DiscoverStep,
     FinishStep DEF Next

-----------------------------------------------------------------------------
(* The inductive invariant holds in every state. *)
THEOREM Invariant == Spec => []IInv
BY InitInv, NextStep, PTL DEF Spec

(* Type correctness of the walk. *)
THEOREM TypeCorrect == Spec => []TypeOK
<1>1. IInv => TypeOK
  BY DEF IInv
<1> QED
  BY <1>1, Invariant, PTL

(* What a call that found everything knows: the list is the whole order,   *)
(* and the units found are closed under upstream ids.                      *)
LEMMA WhenFound ==
  IInv /\ Found =>
    /\ Listing = units /\ visited = Range(units) /\ units \in Seq(Units)
    /\ ClosedUpstream(visited) /\ visited \in SUBSET Ids /\ visited \subseteq Units
<1> SUFFICES ASSUME IInv, Found
             PROVE  /\ Listing = units /\ visited = Range(units)
                    /\ units \in Seq(Units) /\ ClosedUpstream(visited)
                    /\ visited \in SUBSET Ids /\ visited \subseteq Units
  OBVIOUS
<1>1. /\ todo = << >> /\ queue = << >> /\ units \in Seq(Units)
      /\ visited \subseteq Units /\ Units \subseteq Ids
  BY DEF IInv, EndsDry, TypeOK
<1>2. Listing = units
  BY <1>1, ConcatEmptySeq DEF Listing
<1>3. visited = Range(units)
  BY <1>2 DEF IInv, OrderIsVisited
<1>4. terminal \in visited
  <2>1. Len(units) >= 1 /\ units[1] = terminal
    BY <1>2 DEF IInv, OrderIsVisited, NotBegun, Found
  <2> QED
    BY <2>1, <1>1, <1>3, LenProperties DEF Range
<1>5. ASSUME NEW u \in visited PROVE Range(graph[u]) \subseteq visited
  <2>1. PICK i \in 1..Len(units) : u = units[i]
    BY <1>1, <1>3, LenProperties DEF Range
  <2>2. Range(todo) = {}
    BY <1>1 DEF Range
  <2> QED
    BY <2>1, <2>2 DEF IInv, RowsCovered
<1> QED
  BY <1>1, <1>2, <1>3, <1>4, <1>5 DEF ClosedUpstream

(* A finished walk lists exactly the units upstream of the terminal, each  *)
(* once and the terminal first, whatever the graph.                        *)
THEOREM FindsUpstreamHolds == Spec => []FindsUpstream
<1>1. IInv => FindsUpstream
  <2> SUFFICES ASSUME IInv, Found
               PROVE  /\ Range(units) = Upstream
                      /\ \A i, j \in 1..Len(units) : units[i] = units[j] => i = j
                      /\ units[1] = terminal
    BY DEF FindsUpstream
  <2>1. Upstream \subseteq visited
    BY WhenFound DEF Upstream
  <2>2. visited \subseteq Upstream
    BY WhenFound DEF Upstream, IInv, OnlyUpstream
  <2>3. /\ Range(units) = visited
        /\ \A i, j \in 1..Len(units) : units[i] = units[j] => i = j
        /\ units[1] = terminal
    BY WhenFound DEF IInv, OrderIsVisited, NotBegun, Found
  <2> QED
    BY <2>1, <2>2, <2>3
<1> QED
  BY <1>1, Invariant, PTL

(* The downstream map is a tree of real edges, at every step of the walk. *)
THEOREM DownstreamIsTreeHolds == Spec => []DownstreamIsTree
<1>1. IInv => DownstreamIsTree
  <2> SUFFICES ASSUME IInv PROVE DownstreamIsTree
    OBVIOUS
  <2>1. units \in Seq(Units) /\ queue \in Seq(Units)
        /\ DOMAIN downstream = visited \ {terminal}
    BY DEF IInv, TypeOK
  <2>2. /\ Len(units) \in Nat /\ Len(queue) \in Nat
        /\ Len(Listing) = Len(units) + Len(queue)
        /\ \A i \in 1..Len(units) : Listing[i] = units[i]
    BY <2>1, ConcatProperties, LenProperties DEF Listing
  <2>3. ASSUME NEW i \in 2..Len(units)
        PROVE  \E j \in 1..(i - 1) : downstream[units[i]] = units[j]
    <3>1. PICK j \in 1..(i - 1) :
            j <= Len(units) /\ downstream[Listing[i]] = Listing[j]
      BY <2>2 DEF IInv, TreeInOrder
    <3> QED
      BY <3>1, <2>2
  <2> QED
    BY <2>1, <2>3 DEF DownstreamIsTree, IInv, TreeInOrder
<1> QED
  BY <1>1, Invariant, PTL

(* A dangling reference is reported exactly when one lies upstream. *)
THEOREM DanglingExactHolds == Spec => []DanglingExact
<1>1. IInv => DanglingExact
  <2> SUFFICES ASSUME IInv PROVE DanglingExact
    OBVIOUS
  <2>1. ASSUME result = "danglingUpstreamRef" PROVE ~ Upstream \subseteq Units
    <3>1. todo # << >> /\ Head(todo) \notin Units
      BY <2>1 DEF IInv, Verdict
    <3>2. /\ Head(todo) \in Ids /\ Head(todo) \in Range(graph[Current])
          /\ Current \in visited /\ Current \in Units
      BY <3>1, TodoFacts
    <3>3. Head(todo) \in Upstream
      BY <3>2 DEF Upstream, ClosedUpstream, IInv, OnlyUpstream
    <3> QED
      BY <3>1, <3>3
  <2>2. ASSUME Found PROVE Upstream \subseteq Units
    BY <2>2, WhenFound DEF Upstream
  <2> QED
    BY <2>1, <2>2 DEF DanglingExact
<1> QED
  BY <1>1, Invariant, PTL

(* On a graph whose edges keep the level, the same-level check of the      *)
(* engine never fires for a terminal of the selected level.                *)
THEOREM SameLevelUnreachableHolds == Spec => []SameLevelUnreachable
<1>1. IInv => SameLevelUnreachable
  <2> SUFFICES ASSUME IInv, EdgesSameLevel, level[terminal] = selected,
                      result = "sameLevelInvariant"
               PROVE  FALSE
    BY DEF SameLevelUnreachable
  <2> DEFINE S == {u \in Ids : level[u] = selected}
  <2>1. graph \in [Units -> Seq(Ids)] /\ Units \subseteq Ids /\ terminal \in Ids
    BY DEF IInv, TypeOK
  <2>2. ClosedUpstream(S)
    <3>1. ASSUME NEW u \in S \cap Units PROVE Range(graph[u]) \subseteq S
      <4>1. Range(graph[u]) \subseteq Ids
        BY <2>1, RangeOfSeq
      <4> QED
        BY <4>1 DEF EdgesSameLevel
    <3> QED
      BY <3>1, <2>1 DEF ClosedUpstream
  <2>3. visited \subseteq S
    BY <2>2 DEF IInv, OnlyUpstream
  <2> QED
    BY <2>3 DEF IInv, Verdict
<1> QED
  BY <1>1, Invariant, PTL
-----------------------------------------------------------------------------
(* The Strahler orders folded on what the walk returned.                   *)

Kids(u) == Orders!Kids(u)
Members == Orders!Members

(* Unit v has an entry on the stack s; it has one of its second visit. *)
OnStack(s, v) == \E i \in 1..Len(s) : s[i][1] = v
Opened(s, v) == \E i \in 1..Len(s) : s[i][1] = v /\ s[i][2]

(* What strahler_orders promises of a unit. *)
Strahler(u) ==
  \/ Kids(u) = {} /\ order[u] = 1
  \/ \E v \in Kids(u) :
       /\ order[u] = order[v]
       /\ \A w \in Kids(u) \ {v} : order[w] < order[v]
  \/ \E v, w \in Kids(u) :
       /\ v # w /\ order[v] = order[w]
       /\ order[u] = order[v] + 1
       /\ \A x \in Kids(u) : order[x] <= order[v]

(* No unit is on the stack twice, or after it has its order. *)
StackOnce ==
  /\ stack \in Seq(Members \X BOOLEAN)
  /\ \A i, j \in 1..Len(stack) : stack[i][1] = stack[j][1] => i = j
  /\ \A i \in 1..Len(stack) : stack[i][1] \notin DOMAIN order

(* The units with an order are closed upstream, their orders right. *)
Ordered ==
  /\ DOMAIN order \subseteq Members
  /\ \A u \in DOMAIN order : Kids(u) \subseteq DOMAIN order /\ Strahler(u)
  /\ \E b \in Nat : \A u \in DOMAIN order : order[u] \in 0..b

(* A unit is opened before its children are pushed, and they lie above it  *)
(* until they are folded.                                                  *)
ParentsOpen ==
  \A v \in Orders!Inner : v \in DOMAIN order \/ OnStack(stack, v) =>
    downstream[v] \in DOMAIN order \/ Opened(stack, downstream[v])
KidsAbove ==
  \A i \in 1..Len(stack) : stack[i][2] =>
    \A v \in Orders!Inner : downstream[v] = stack[i][1] =>
      v \in DOMAIN order \/ \E j \in (i + 1)..Len(stack) : stack[j][1] = v

(* The fold begins when the walk has ended well, and at the terminal.      *)
Started ==
  /\ result # "ok" => stack = << >> /\ order = << >>
  /\ \/ stack = << >> /\ order = << >>
     \/ terminal \in DOMAIN order \/ OnStack(stack, terminal)

(* The inductive invariant of the fold, with that of the walk. *)
FoldInv == StackOnce /\ Ordered /\ ParentsOpen /\ KidsAbove /\ Started

(* Every set of natural numbers that is not empty has a least element. *)
LEMMA LeastNatural ==
  ASSUME NEW S \in SUBSET Nat, S # {}
  PROVE  \E m \in S : \A n \in S : m <= n
<1> DEFINE R == OpToRel(<, Nat)
<1>1. \A x, y \in Nat : <<x, y>> \in R <=> x < y
  BY DEF OpToRel
<1>2. IsWellFoundedOn(R, Nat)
  BY NatLessThanWellFounded
<1> HIDE DEF R
<1>3. PICK m \in S : \A n \in S : ~ (<<n, m>> \in R)
  BY <1>2, WFMin
<1>4. m \in Nat /\ \A n \in S : n \in Nat /\ ~ (n < m)
  BY <1>1, <1>3
<1>5. \A n \in S : m <= n
  BY <1>4
<1> QED  BY <1>3, <1>5

(* The stack without its top. *)
LEMMA PopLast ==
  ASSUME NEW T, NEW s \in Seq(T), s # << >>
  PROVE  LET r == SubSeq(s, 1, Len(s) - 1) IN
         /\ Len(s) \in Nat \ {0} /\ s[Len(s)] \in T
         /\ r \in Seq(T) /\ Len(r) = Len(s) - 1
         /\ \A i \in 1..(Len(s) - 1) : r[i] = s[i]
<1>1. Len(s) \in Nat \ {0} /\ \A i \in 1..Len(s) : s[i] \in T
  BY EmptySeq, LenProperties, ElementOfSeq
<1> DEFINE n == Len(s) - 1
           r == SubSeq(s, 1, n)
<1>2. n \in Nat /\ \A i \in 1..n : s[i] \in T
  BY <1>1
<1>3. /\ r \in Seq(T) /\ Len(r) = IF 1 <= n THEN n - 1 + 1 ELSE 0
      /\ \A i \in 1..(n - 1 + 1) : r[i] = s[1 + i - 1]
  <2> HIDE DEF n
  <2>1. n \in Int /\ 1 \in Int
    BY <1>2
  <2> QED  BY <1>2, <2>1, SubSeqProperties
<1>4. /\ r \in Seq(T) /\ Len(r) = n
      /\ \A i \in 1..n : r[i] = s[i]
  <2> HIDE DEF r, n
  <2> QED  BY <1>2, <1>3
<1> QED  BY <1>1, <1>4

(* The stack with its top replaced, and more put above it. *)
Pushed(s, x, k) == Append(SubSeq(s, 1, Len(s) - 1), x) \o k

IsPushed(r, s, x, k) ==
  /\ Len(s) \in Nat \ {0} /\ Len(k) \in Nat /\ Len(r) = Len(s) + Len(k)
  /\ \A i \in 1..(Len(s) - 1) : r[i] = s[i]
  /\ r[Len(s)] = x
  /\ \A j \in 1..Len(k) : r[Len(s) + j] = k[j]

LEMMA PushAbove ==
  ASSUME NEW T, NEW s \in Seq(T), s # << >>, NEW x \in T, NEW k \in Seq(T)
  PROVE  Pushed(s, x, k) \in Seq(T) /\ IsPushed(Pushed(s, x, k), s, x, k)
<1> DEFINE p == SubSeq(s, 1, Len(s) - 1)
           a == Append(p, x)
<1>1. /\ Len(s) \in Nat \ {0} /\ p \in Seq(T) /\ Len(p) = Len(s) - 1
      /\ \A i \in 1..(Len(s) - 1) : p[i] = s[i]
  BY PopLast
<1> HIDE DEF p
<1>2. /\ a \in Seq(T) /\ Len(a) = Len(s) /\ a[Len(s)] = x
      /\ \A i \in 1..(Len(s) - 1) : a[i] = s[i]
  BY <1>1, AppendProperties
<1> HIDE DEF a
<1>3. /\ a \o k \in Seq(T) /\ Len(a \o k) = Len(a) + Len(k) /\ Len(k) \in Nat
      /\ \A i \in 1..Len(a) + Len(k) :
           (a \o k)[i] = IF i <= Len(a) THEN a[i] ELSE k[i - Len(a)]
  BY <1>2, ConcatProperties, LenProperties
<1> DEFINE r == a \o k
<1>4. /\ r \in Seq(T) /\ Len(r) = Len(s) + Len(k) /\ Len(k) \in Nat
      /\ \A i \in 1..(Len(s) - 1) : r[i] = s[i]
      /\ r[Len(s)] = x
      /\ \A j \in 1..Len(k) : r[Len(s) + j] = k[j]
  <2> HIDE DEF r
  <2>1. /\ r \in Seq(T) /\ Len(r) = Len(s) + Len(k) /\ Len(k) \in Nat
        /\ \A i \in 1..Len(s) + Len(k) :
             r[i] = IF i <= Len(s) THEN a[i] ELSE k[i - Len(s)]
    BY <1>2, <1>3 DEF r
  <2>2. \A i \in 1..Len(s) : r[i] = a[i]
    BY <1>1, <2>1
  <2>3. ASSUME NEW j \in 1..Len(k) PROVE r[Len(s) + j] = k[j]
    <3>1. Len(s) + j \in 1..Len(s) + Len(k) /\ ~ (Len(s) + j <= Len(s))
          /\ Len(s) + j - Len(s) = j
      BY <1>1, <2>1
    <3> QED  BY <2>1, <3>1
  <2>4. r[Len(s)] = x /\ \A i \in 1..(Len(s) - 1) : r[i] = s[i]
    BY <1>1, <1>2, <2>2
  <2> QED  BY <2>1, <2>3, <2>4
<1>5. r \in Seq(T) /\ IsPushed(r, s, x, k)
  <2> HIDE DEF r
  <2> QED  BY <1>1, <1>4 DEF IsPushed
<1> QED  BY <1>5 DEF a, p, Pushed

LEMMA SameCardinality == \A S : Orders!Cardinality(S) = Cardinality(S)
  BY DEF Orders!Cardinality, Cardinality

(* The entries that push a finite set name each of its members once.       *)
LEMMA PushesAll ==
  ASSUME NEW S, IsFiniteSet(S), NEW kids \in Orders!Pushes(S)
  PROVE  /\ kids \in Seq(S \X BOOLEAN)
         /\ \A i \in 1..Len(kids) : kids[i][1] \in S /\ ~ kids[i][2]
         /\ \A i, j \in 1..Len(kids) : kids[i][1] = kids[j][1] => i = j
         /\ \A v \in S : \E i \in 1..Len(kids) : kids[i][1] = v
<1> DEFINE n == Cardinality(S)
<1>1. n \in Nat
  BY FS_CardinalityType
<1>2. PICK f \in [1..n -> S] :
        /\ \A i, j \in 1..n : f[i] = f[j] => i = j
        /\ kids = [i \in 1..n |-> <<f[i], FALSE>>]
  <2>1. Orders!Cardinality(S) = n
    BY SameCardinality DEF n
  <2> HIDE DEF n
  <2>2. kids \in {[i \in 1..n |-> <<s[i], FALSE>>] :
                   s \in {f \in [1..n -> S] : \A i, j \in 1..n : f[i] = f[j] => i = j}}
    BY <2>1 DEF Orders!Pushes
  <2> QED  BY <2>2
<1>3. kids \in Seq(S \X BOOLEAN) /\ Len(kids) = n
  <2>1. kids \in [1..n -> S \X BOOLEAN]
    BY <1>2
  <2> QED  BY <1>1, <2>1, IsASeq, LenProperties
<1>4. ASSUME NEW v \in S PROVE \E i \in 1..n : f[i] = v
  <2> SUFFICES ASSUME \A i \in 1..n : f[i] # v PROVE FALSE
    OBVIOUS
  <2>1. f \in [1..n -> S \ {v}]
    BY <1>2
  <2>2. IsFiniteSet(S \ {v}) /\ Cardinality(S \ {v}) = n - 1
    BY FS_RemoveElement
  <2>3. IsFiniteSet(1..n) /\ Cardinality(1..n) = n
    BY <1>1, FS_Interval
  <2>4. \E i, j \in 1..n : i # j /\ f[i] = f[j]
    <3> HIDE DEF n
    <3> QED  BY <1>1, <2>1, <2>2, <2>3, FS_PigeonHole
  <2> QED  BY <1>2, <2>4
<1> QED  BY <1>2, <1>3, <1>4

(* The children of a unit, which only the walk can change. *)
LEMMA KidsFacts ==
  /\ Orders!Inner \subseteq Members /\ terminal \notin Orders!Inner
  /\ \A u : Kids(u) \subseteq Orders!Inner
  /\ \A u : \A v \in Orders!Inner : v \in Kids(u) <=> downstream[v] = u
  BY DEF Kids, Members, Orders!Kids, Orders!Inner

LEMMA KidsStay ==
  ASSUME UNCHANGED <<units, terminal, downstream>>
  PROVE  /\ Members' = Members /\ Orders!Inner' = Orders!Inner
         /\ \A u : Kids(u)' = Kids(u)
  BY DEF Kids, Members, Orders!Kids, Orders!Inner, Orders!Members

LEMMA KidsFinite ==
  ASSUME units \in Seq(Units), NEW u
  PROVE  IsFiniteSet(Kids(u))
<1>1. IsFiniteSet(Members)
  <2>1. Len(units) \in Nat /\ IsFiniteSet(1..Len(units))
    BY LenProperties, FS_Interval
  <2>2. Members = {units[i] : i \in 1..Len(units)}
    BY DEF Members, Orders!Members
  <2>3. units \in [1..Len(units) -> Members]
    BY <2>2, LenProperties
  <2>4. units \in Surjection(1..Len(units), Members)
    BY <2>2, <2>3 DEF Surjection
  <2> QED  BY <2>1, <2>4, FS_Surjection
<1>2. Kids(u) \subseteq Members
  BY KidsFacts
<1> QED  BY <1>1, <1>2, FS_Subset

(* The order folded from children that all have theirs is right.           *)
LEMMA FoldedRight ==
  ASSUME Ordered, NEW u, u \notin DOMAIN order, Kids(u) \subseteq DOMAIN order,
         order' = [x \in DOMAIN order \cup {u} |->
                     IF x = u THEN Orders!Folded(u) ELSE order[x]],
         UNCHANGED <<units, terminal, downstream>>
  PROVE  /\ Strahler(u)'
         /\ \E b \in Nat : \A x \in DOMAIN order' : order'[x] \in 0..b
<1>k. Kids(u)' = Kids(u)
  BY KidsStay
<1>o. /\ DOMAIN order' = DOMAIN order \cup {u} /\ order'[u] = Orders!Folded(u)
      /\ \A x \in DOMAIN order : order'[x] = order[x]
      /\ \A x \in Kids(u) : order'[x] = order[x] /\ Orders!Got(x) = order[x]
  BY DEF Orders!Got
<1>b. PICK b \in Nat : \A x \in DOMAIN order : order[x] \in 0..b
  BY DEF Ordered
<1>n. \A x \in Kids(u) : order[x] \in Nat /\ order[x] <= b
  BY <1>b
<1> DEFINE largest == {v \in Kids(u) : \A w \in Kids(u) : order[w] <= order[v]}
<1>l. Orders!Largest(Kids(u)) = largest
  BY <1>o DEF Orders!Largest
<1>1. CASE Kids(u) = {}
  <2>1. order'[u] = 1
    BY <1>1, <1>o DEF Orders!Folded, Kids
  <2>2. Strahler(u)'
    BY <1>1, <1>k, <2>1 DEF Strahler
  <2>3. b + 1 \in Nat /\ \A x \in DOMAIN order' : order'[x] \in 0..(b + 1)
    BY <1>b, <1>o, <2>1
  <2> HIDE DEF largest
  <2> QED  BY <2>2, <2>3
<1>2. CASE Kids(u) # {}
  <2>1. largest # {}
    <3> DEFINE bounds == {k \in Nat : \A x \in Kids(u) : order[x] <= k}
    <3>1. b \in bounds
      BY <1>n
    <3>2. PICK m \in bounds : \A n \in bounds : m <= n
      BY <3>1, LeastNatural
    <3>3. ASSUME \A x \in Kids(u) : order[x] # m PROVE FALSE
      <4>1. PICK x \in Kids(u) : TRUE
        BY <1>2
      <4>2. m \in Nat /\ m # 0
        BY <1>n, <3>2, <3>3, <4>1
      <4>3. m - 1 \in bounds
        BY <1>n, <3>2, <3>3, <4>2
      <4> QED  BY <3>2, <4>2, <4>3
    <3>4. PICK x \in Kids(u) : order[x] = m
      BY <3>3
    <3>5. x \in largest
      BY <1>n, <3>2, <3>4
    <3> QED  BY <3>5
  <2> DEFINE v == CHOOSE w \in largest : TRUE
  <2>2. v \in largest
    BY <2>1
  <2>3. Orders!Folded(u) = IF largest = {v} THEN order[v] ELSE order[v] + 1
    <3>1. Kids(u) = Orders!Kids(u) /\ Orders!Kids(u) # {}
      BY <1>2 DEF Kids
    <3>2. Orders!Folded(u) = IF largest = {v} THEN Orders!Got(v) ELSE Orders!Got(v) + 1
      <4>1. Orders!Largest(Orders!Kids(u)) = largest
        BY <1>l, <3>1
      <4> HIDE DEF largest
      <4> QED  BY <3>1, <4>1 DEF Orders!Folded
    <3> QED  BY <1>o, <2>2, <3>2
  <2> HIDE DEF v
  <2>4. v \in Kids(u) /\ \A w \in Kids(u) : order[w] <= order[v]
    BY <2>2
  <2>5. CASE largest = {v}
    <3>1. order'[u] = order'[v]
      BY <1>o, <2>3, <2>4, <2>5
    <3>2. ASSUME NEW w \in Kids(u) \ {v} PROVE order'[w] < order'[v]
      <4>1. w \notin largest
        BY <2>5
      <4>2. PICK x \in Kids(u) : ~ (order[x] <= order[w])
        BY <4>1
      <4> QED  BY <1>n, <1>o, <2>4, <4>2
    <3> QED  BY <1>b, <1>k, <1>n, <1>o, <2>4, <3>1, <3>2 DEF Strahler
  <2>6. CASE largest # {v}
    <3>1. PICK w \in largest : w # v
      BY <2>2, <2>6
    <3>2. w \in Kids(u) /\ order[w] = order[v]
      BY <1>n, <2>4, <3>1
    <3>3. order'[u] = order'[v] + 1
      BY <1>o, <2>3, <2>4, <2>6
    <3>4. Strahler(u)'
      <4>1. \A x \in Kids(u)' : order'[x] <= order'[v]
        BY <1>k, <1>o, <2>4
      <4>2. v \in Kids(u)' /\ w \in Kids(u)' /\ v # w /\ order'[v] = order'[w]
        BY <1>k, <1>o, <2>4, <3>1, <3>2
      <4> QED  BY <3>3, <4>1, <4>2 DEF Strahler
    <3>5. b + 1 \in Nat /\ \A x \in DOMAIN order' : order'[x] \in 0..(b + 1)
      BY <1>b, <1>n, <1>o, <2>4, <3>3
    <3> HIDE DEF largest
    <3> QED  BY <3>4, <3>5
  <2> QED  BY <2>5, <2>6
<1> QED  BY <1>1, <1>2

(* The terminal of a walk that ended well is the first unit of its list. *)
LEMMA TerminalListed == IInv /\ result = "ok" => terminal \in Members
<1> SUFFICES ASSUME IInv, result = "ok" PROVE terminal \in Members
  OBVIOUS
<1>1. Listing = units /\ units \in Seq(Units)
  BY WhenFound DEF Found
<1>2. Len(units) >= 1 /\ units[1] = terminal /\ Len(units) \in Nat
  BY <1>1, LenProperties DEF IInv, OrderIsVisited, NotBegun
<1> QED  BY <1>2 DEF Members, Orders!Members

LEMMA FoldInit == NetworkInit => FoldInv
<1> SUFFICES ASSUME NetworkInit PROVE FoldInv
  OBVIOUS
<1>1. stack = << >> /\ order = << >>
  BY DEF NetworkInit, Orders!Init
<1>2. Len(stack) = 0 /\ DOMAIN order = {} /\ stack \in Seq(Members \X BOOLEAN)
  BY <1>1
<1> QED
  BY <1>1, <1>2 DEF FoldInv, StackOnce, Ordered, ParentsOpen, KidsAbove, Started,
                    OnStack, Opened

LEMMA FoldBegin ==
  ASSUME IInv, FoldInv, result = "ok", Orders!Begin, UNCHANGED vars
  PROVE  FoldInv'
<1>1. /\ UNCHANGED <<units, terminal, downstream, result, order>> /\ order = << >>
      /\ stack' = <<<<terminal, FALSE>>>>
  BY DEF Orders!Begin, vars, problem
<1>2. Members' = Members /\ terminal \in Members /\ terminal \notin Orders!Inner
      /\ Orders!Inner' = Orders!Inner
  BY <1>1, KidsStay, KidsFacts, TerminalListed
<1>3. /\ Len(stack') = 1 /\ stack'[1] = <<terminal, FALSE>> /\ DOMAIN order' = {}
      /\ stack' \in Seq(Members \X BOOLEAN)
  <2> DEFINE x == <<terminal, FALSE>>
             T == Members \X BOOLEAN
  <2>1. x \in T
    BY <1>2
  <2>2. stack' = <<x>> /\ DOMAIN order' = {}
    BY <1>1
  <2>3. <<x>> \in Seq(T) /\ Len(<<x>>) = 1 /\ <<x>>[1] = x
    <3> HIDE DEF x, T
    <3> QED  BY <2>1
  <2> QED  BY <2>2, <2>3
<1>4. StackOnce'
  BY <1>2, <1>3 DEF StackOnce
<1>5. Ordered'
  BY <1>3 DEF Ordered
<1>6. ParentsOpen'
  BY <1>1, <1>2, <1>3 DEF ParentsOpen, OnStack
<1>7. KidsAbove'
  <2>1. 1..Len(stack') = {1} /\ ~ stack'[1][2]
    BY <1>3
  <2> QED  BY <2>1 DEF KidsAbove
<1>8. Started'
  BY <1>1, <1>3 DEF Started, OnStack
<1> QED  BY <1>4, <1>5, <1>6, <1>7, <1>8 DEF FoldInv

(* The stack s with its top opened and the children K of it pushed.        *)
Lists(kids, K) ==
  /\ \A i \in 1..Len(kids) : kids[i][1] \in K /\ ~ kids[i][2]
  /\ \A i, j \in 1..Len(kids) : kids[i][1] = kids[j][1] => i = j
  /\ \A v \in K : \E i \in 1..Len(kids) : kids[i][1] = v

LEMMA OpenTop ==
  ASSUME NEW M, NEW s \in Seq(M \X BOOLEAN), s # << >>, NEW u \in M,
         NEW K \in SUBSET M, IsFiniteSet(K), NEW kids \in Orders!Pushes(K)
  PROVE  /\ Pushed(s, <<u, TRUE>>, kids) \in Seq(M \X BOOLEAN)
         /\ IsPushed(Pushed(s, <<u, TRUE>>, kids), s, <<u, TRUE>>, kids)
         /\ Lists(kids, K)
<1> DEFINE T == M \X BOOLEAN
           x == <<u, TRUE>>
<1>1. kids \in Seq(K \X BOOLEAN) /\ Lists(kids, K)
  BY PushesAll DEF Lists
<1>2. kids \in Seq(T) /\ x \in T /\ s \in Seq(T)
  BY <1>1, SeqMonotonic
<1>3. Pushed(s, x, kids) \in Seq(T) /\ IsPushed(Pushed(s, x, kids), s, x, kids)
  <2> HIDE DEF T, x
  <2> QED  BY <1>2, PushAbove
<1> QED  BY <1>1, <1>3

(* A unit is opened: its children are new to the stack.                    *)
LEMMA FoldExpand ==
  ASSUME IInv, FoldInv, result = "ok", Orders!Expand, UNCHANGED vars
  PROVE  FoldInv'
<1> DEFINE T == Members \X BOOLEAN
           n == Len(stack)
           u == stack[n][1]
           r == stack'
<1>1. /\ stack # << >> /\ ~ stack[n][2] /\ stack \in Seq(T)
      /\ UNCHANGED <<units, terminal, downstream, result, order>>
  BY DEF Orders!Expand, Orders!Top, vars, problem, FoldInv, StackOnce
<1>2. n \in Nat \ {0} /\ stack[n] \in T /\ u \in Members
  BY <1>1, PopLast
<1>3. PICK kids \in Orders!Pushes(Kids(u)) :
        r = Pushed(stack, <<u, TRUE>>, kids)
  BY DEF Pushed, Orders!Expand, Orders!Top, Orders!Rest, Kids
<1> DEFINE m == Len(kids)
<1>4. IsFiniteSet(Kids(u)) /\ Kids(u) \subseteq Members
  BY KidsFinite, KidsFacts DEF IInv, TypeOK
<1>5. /\ r \in Seq(T) /\ Len(r) = n + m /\ m \in Nat
      /\ \A i \in 1..(n - 1) : r[i] = stack[i]
      /\ r[n] = <<u, TRUE>>
      /\ \A j \in 1..m : r[n + j] = kids[j]
      /\ \A i \in 1..m : kids[i][1] \in Kids(u) /\ ~ kids[i][2]
      /\ \A i, j \in 1..m : kids[i][1] = kids[j][1] => i = j
      /\ \A v \in Kids(u) : \E i \in 1..m : kids[i][1] = v
  <2> DEFINE K == Kids(u)
  <2>1. stack \in Seq(T) /\ stack # << >> /\ u \in Members /\ K \in SUBSET Members /\ IsFiniteSet(K)
    BY <1>1, <1>2, <1>4
  <2> DEFINE x == <<u, TRUE>>
  <2>2. r \in Seq(T) /\ IsPushed(r, stack, x, kids) /\ Lists(kids, K)
    <3>1. kids \in Orders!Pushes(K) /\ r = Pushed(stack, x, kids)
      BY <1>3
    <3>2. /\ Pushed(stack, x, kids) \in Seq(T)
          /\ IsPushed(Pushed(stack, x, kids), stack, x, kids) /\ Lists(kids, K)
      <4> HIDE DEF K, u, r
      <4> QED  BY <2>1, <3>1, OpenTop DEF T
    <3> HIDE DEF K, u, x, r, T
    <3> QED  BY <3>1, <3>2
  <2> HIDE DEF T, r, u, x
  <2> QED  BY <2>2 DEF IsPushed, Lists, K, x
<1>6. /\ Members' = Members /\ Orders!Inner' = Orders!Inner /\ \A v : Kids(v)' = Kids(v)
  BY <1>1, KidsStay
<1> DEFINE N == n + m
<1> HIDE DEF u, m, n, T, N, r
(* The new stack: the old one, u opened, and above it the children.        *)
<1>7. /\ N \in Nat /\ n <= N /\ Len(r) = N
      /\ \A i \in 1..N : i \in 1..n \/ i \in (n + 1)..N
      /\ \A i \in 1..n : i \in 1..N
  BY <1>2, <1>5 DEF N
<1>8. /\ r[n][1] = u /\ r[n][2] /\ n \in 1..n
      /\ \A i \in 1..n : r[i][1] = stack[i][1]
      /\ \A i \in 1..n : i # n => r[i] = stack[i]
  <2>1. r[n][1] = u /\ r[n][2] /\ n \in 1..n
    BY <1>2, <1>5
  <2>2. ASSUME NEW i \in 1..n, i # n PROVE r[i] = stack[i]
    <3>1. i \in 1..(n - 1)
      BY <1>2, <2>2
    <3> QED  BY <1>5, <3>1
  <2>3. ASSUME NEW i \in 1..n PROVE r[i][1] = stack[i][1]
    BY <2>1, <2>2 DEF u
  <2> QED  BY <2>1, <2>2, <2>3
<1>9. /\ \A i \in (n + 1)..N : r[i][1] \in Kids(u) /\ ~ r[i][2]
      /\ \A i, j \in (n + 1)..N : r[i][1] = r[j][1] => i = j
      /\ \A v \in Kids(u) : \E i \in (n + 1)..N : r[i][1] = v
  <2>1. ASSUME NEW i \in (n + 1)..N PROVE i - n \in 1..m /\ r[i] = kids[i - n]
    <3>1. i - n \in 1..m /\ n + (i - n) = i
      BY <1>2, <1>5 DEF N
    <3> QED  BY <1>5, <3>1
  <2>2. ASSUME NEW j \in 1..m PROVE n + j \in (n + 1)..N /\ r[n + j] = kids[j]
    BY <1>2, <1>5 DEF N
  <2>3. ASSUME NEW i \in (n + 1)..N, NEW j \in (n + 1)..N, r[i][1] = r[j][1] PROVE i = j
    <3>1. i - n = j - n
      BY <1>5, <2>1, <2>3
    <3> QED  BY <1>2, <3>1
  <2>4. ASSUME NEW v \in Kids(u) PROVE \E i \in (n + 1)..N : r[i][1] = v
    BY <1>5, <2>2
  <2>5. \A i \in (n + 1)..N : r[i][1] \in Kids(u) /\ ~ r[i][2]
    BY <1>5, <2>1
  <2> QED  BY <2>3, <2>4, <2>5
(* u has been pushed and not opened, so no child of it has been pushed. *)
<1>10. ASSUME NEW v \in Kids(u) PROVE v \notin DOMAIN order /\ ~ OnStack(stack, v)
  <2>1. v \in Orders!Inner /\ downstream[v] = u
    BY KidsFacts
  <2>2. u \notin DOMAIN order
    BY <1>2 DEF FoldInv, StackOnce, u, n
  <2>3. ~ Opened(stack, u)
    BY <1>1, <1>2 DEF FoldInv, StackOnce, Opened, u, n
  <2> QED  BY <2>1, <2>2, <2>3 DEF FoldInv, ParentsOpen
<1>11. StackOnce'
  <2>1. ASSUME NEW i \in 1..N, NEW j \in 1..N, r[i][1] = r[j][1]
        PROVE  i = j
    <3>1. CASE i \in 1..n /\ j \in 1..n
      BY <1>8, <2>1, <3>1 DEF FoldInv, StackOnce, n
    <3>2. CASE i \in 1..n /\ j \in (n + 1)..N
      BY <1>8, <1>9, <1>10, <2>1, <3>2 DEF OnStack, n
    <3>3. CASE j \in 1..n /\ i \in (n + 1)..N
      BY <1>8, <1>9, <1>10, <2>1, <3>3 DEF OnStack, n
    <3>4. CASE i \in (n + 1)..N /\ j \in (n + 1)..N
      BY <1>9, <2>1, <3>4
    <3> QED  BY <1>7, <3>1, <3>2, <3>3, <3>4
  <2>2. ASSUME NEW i \in 1..N PROVE r[i][1] \notin DOMAIN order
    <3>1. CASE i \in 1..n
      BY <1>8, <3>1 DEF FoldInv, StackOnce, n
    <3>2. CASE i \in (n + 1)..N
      BY <1>9, <1>10, <3>2
    <3> QED  BY <1>7, <3>1, <3>2
  <2>3. r \in Seq(Members' \X BOOLEAN)
    BY <1>5, <1>6 DEF T
  <2> QED  BY <1>1, <1>7, <2>1, <2>2, <2>3 DEF StackOnce, r
<1>12. Ordered'
  BY <1>1, <1>6 DEF FoldInv, Ordered, Strahler
<1>13. ASSUME NEW v PROVE /\ OnStack(r, v) <=> OnStack(stack, v) \/ v \in Kids(u)
                          /\ Opened(r, v) <=> Opened(stack, v) \/ v = u
  <2>1. ASSUME OnStack(r, v) PROVE OnStack(stack, v) \/ v \in Kids(u)
    BY <1>7, <1>8, <1>9, <2>1 DEF OnStack, n
  <2>2. ASSUME OnStack(stack, v) PROVE OnStack(r, v)
    BY <1>7, <1>8, <2>2 DEF OnStack, n
  <2>3. ASSUME v \in Kids(u) PROVE OnStack(r, v)
    <3>1. PICK i \in (n + 1)..N : r[i][1] = v
      BY <1>9, <2>3
    <3>2. i \in 1..N
      BY <1>2, <1>7
    <3> QED  BY <1>7, <3>1, <3>2 DEF OnStack
  <2>4. ASSUME Opened(r, v) PROVE Opened(stack, v) \/ v = u
    <3>1. PICK i \in 1..N : r[i][1] = v /\ r[i][2]
      BY <1>7, <2>4 DEF Opened
    <3>2. i \in 1..n
      BY <1>7, <1>9, <3>1
    <3>3. stack[i][1] = v /\ (stack[i][2] \/ i = n)
      BY <1>8, <3>1, <3>2
    <3> QED  BY <3>2, <3>3 DEF Opened, n, u
  <2>5. ASSUME Opened(stack, v) PROVE Opened(r, v)
    BY <1>7, <1>8, <2>5 DEF Opened, n
  <2>6. ASSUME v = u PROVE Opened(r, v)
    <3>1. n \in 1..N /\ n \in 1..n /\ r[n][1] = v /\ r[n][2]
      BY <1>2, <1>7, <1>8, <2>6 DEF u
    <3> QED  BY <1>7, <3>1 DEF Opened
  <2> QED  BY <2>1, <2>2, <2>3, <2>4, <2>5, <2>6
<1>14. ParentsOpen'
  <2> SUFFICES ASSUME NEW v \in Orders!Inner, v \in DOMAIN order \/ OnStack(r, v)
               PROVE  downstream[v] \in DOMAIN order \/ Opened(r, downstream[v])
    BY <1>1, <1>6 DEF ParentsOpen, r
  <2>1. CASE v \in Kids(u)
    <3>1. downstream[v] = u
      BY <2>1, KidsFacts
    <3> QED  BY <3>1, <1>13
  <2>2. CASE v \notin Kids(u)
    <3>1. v \in DOMAIN order \/ OnStack(stack, v)
      BY <1>13, <2>2
    <3>2. downstream[v] \in DOMAIN order \/ Opened(stack, downstream[v])
      BY <3>1 DEF FoldInv, ParentsOpen
    <3> QED  BY <1>13, <3>2
  <2> QED  BY <2>1, <2>2
<1>15. KidsAbove'
  <2> SUFFICES ASSUME NEW i \in 1..N, r[i][2],
                      NEW v \in Orders!Inner, downstream[v] = r[i][1]
               PROVE  v \in DOMAIN order \/ \E j \in (i + 1)..N : r[j][1] = v
    BY <1>1, <1>6, <1>7 DEF KidsAbove, r
  <2>1. CASE i \in 1..n /\ i # n
    <3>1. stack[i][2] /\ downstream[v] = stack[i][1]
      BY <1>8, <2>1
    <3>2. v \in DOMAIN order \/ \E j \in (i + 1)..n : stack[j][1] = v
      BY <2>1, <3>1 DEF FoldInv, KidsAbove, n
    <3>3. ASSUME NEW j \in (i + 1)..n, stack[j][1] = v
          PROVE  j \in (i + 1)..N /\ r[j][1] = v
      <4>1. j \in 1..n
        BY <1>2
      <4> QED  BY <1>2, <1>7, <1>8, <3>3, <4>1
    <3> QED  BY <3>2, <3>3
  <2>2. CASE i = n
    <3>1. v \in Kids(u)
      BY <1>8, <2>2, KidsFacts
    <3> QED  BY <1>9, <2>2, <3>1
  <2>3. CASE i \in (n + 1)..N
    BY <1>9, <2>3
  <2> QED  BY <1>7, <2>1, <2>2, <2>3
<1>16. Started'
  <2>1. terminal \in DOMAIN order \/ OnStack(stack, terminal)
    BY <1>1 DEF FoldInv, Started
  <2>2. terminal \in DOMAIN order \/ OnStack(r, terminal)
    BY <1>13, <2>1
  <2> QED  BY <1>1, <2>2 DEF Started, r
<1> QED  BY <1>11, <1>12, <1>14, <1>15, <1>16 DEF FoldInv

(* The top is folded: its children have their orders by then.              *)
LEMMA FoldFold ==
  ASSUME IInv, FoldInv, result = "ok", Orders!Fold, UNCHANGED vars
  PROVE  FoldInv'
<1> DEFINE T == Members \X BOOLEAN
           n == Len(stack)
           r == stack'
<1>0. PICK u : u = stack[n][1]
  OBVIOUS
<1>1. /\ stack # << >> /\ stack[n][2] /\ stack \in Seq(T)
      /\ UNCHANGED <<units, terminal, downstream, result>>
      /\ r = SubSeq(stack, 1, n - 1)
      /\ order' = [x \in DOMAIN order \cup {u} |->
                     IF x = u THEN Orders!Folded(u) ELSE order[x]]
  BY <1>0 DEF Orders!Fold, Orders!Top, Orders!Rest, Orders!Set, vars, problem, FoldInv, StackOnce
<1>2. /\ n \in Nat \ {0} /\ stack[n] \in T /\ u \in Members
      /\ r \in Seq(T) /\ Len(r) = n - 1
      /\ \A i \in 1..(n - 1) : r[i] = stack[i]
  BY <1>0, <1>1, PopLast
<1>3. /\ Members' = Members /\ Orders!Inner' = Orders!Inner
      /\ \A v : Kids(v)' = Kids(v)
  BY <1>1, KidsStay
<1>4. u \notin DOMAIN order /\ Kids(u) \subseteq DOMAIN order
  <2>1. n \in 1..n /\ (n + 1)..n = {}
    BY <1>2
  <2>2. u \notin DOMAIN order
    BY <1>0, <2>1 DEF FoldInv, StackOnce
  <2>3. ASSUME NEW v \in Kids(u) PROVE v \in DOMAIN order
    <3>1. v \in Orders!Inner /\ downstream[v] = u
      BY KidsFacts
    <3> QED  BY <1>0, <1>1, <2>1, <3>1 DEF FoldInv, KidsAbove
  <2> QED  BY <2>2, <2>3
<1>5. /\ Strahler(u)'
      /\ \E b \in Nat : \A x \in DOMAIN order' : order'[x] \in 0..b
  BY <1>1, <1>4, FoldedRight DEF FoldInv
<1>6. /\ DOMAIN order' = DOMAIN order \cup {u}
      /\ \A x \in DOMAIN order : order'[x] = order[x]
  BY <1>1, <1>4
<1> HIDE DEF n, T, r
<1>7. Ordered'
  <2>1. ASSUME NEW w \in DOMAIN order PROVE Kids(w) \subseteq DOMAIN order /\ Strahler(w)'
    <3>1. Kids(w) \subseteq DOMAIN order /\ Strahler(w)
      BY DEF FoldInv, Ordered
    <3>2. Kids(w)' = Kids(w) /\ order'[w] = order[w]
          /\ \A x \in Kids(w) : order'[x] = order[x]
      BY <1>3, <1>6, <3>1
    <3> QED  BY <3>1, <3>2 DEF Strahler
  <2>2. DOMAIN order' \subseteq Members'
    BY <1>2, <1>3, <1>6 DEF FoldInv, Ordered
  <2>3. ASSUME NEW w \in DOMAIN order' PROVE Kids(w)' \subseteq DOMAIN order' /\ Strahler(w)'
    BY <1>3, <1>4, <1>5, <1>6, <2>1
  <2> QED  BY <1>5, <2>2, <2>3 DEF Ordered
(* The stack is the old one without u. *)
<1>8. ASSUME NEW i \in 1..(n - 1) PROVE i \in 1..n /\ i # n /\ r[i] = stack[i] /\ stack[i][1] # u
  BY <1>0, <1>2 DEF FoldInv, StackOnce, n
<1>9. ASSUME NEW v PROVE /\ OnStack(stack, v) => OnStack(r, v) \/ v = u
                         /\ Opened(stack, v) => Opened(r, v) \/ v = u
                         /\ OnStack(r, v) => OnStack(stack, v)
  <2>1. ASSUME OnStack(r, v) PROVE OnStack(stack, v)
    BY <1>2, <1>8, <2>1 DEF OnStack, n
  <2>2. ASSUME NEW i \in 1..n, stack[i][1] # u PROVE i \in 1..(n - 1) /\ r[i] = stack[i]
    <3>1. i # n
      BY <1>0, <2>2
    <3> QED  BY <1>2, <3>1
  <2>3. ASSUME OnStack(stack, v), v # u PROVE OnStack(r, v)
    BY <1>2, <2>2, <2>3 DEF OnStack, n
  <2>4. ASSUME Opened(stack, v), v # u PROVE Opened(r, v)
    BY <1>2, <2>2, <2>4 DEF Opened, n
  <2> QED  BY <2>1, <2>3, <2>4
<1>10. StackOnce'
  <2>1. r \in Seq(Members' \X BOOLEAN)
    BY <1>2, <1>3 DEF T
  <2>2. ASSUME NEW i \in 1..(n - 1), NEW j \in 1..(n - 1), r[i][1] = r[j][1] PROVE i = j
    BY <1>8, <2>2 DEF FoldInv, StackOnce, n
  <2>3. ASSUME NEW i \in 1..(n - 1) PROVE r[i][1] \notin DOMAIN order'
    BY <1>6, <1>8 DEF FoldInv, StackOnce, n
  <2> QED  BY <1>2, <2>1, <2>2, <2>3 DEF StackOnce, r
<1>11. ParentsOpen'
  <2> SUFFICES ASSUME NEW v \in Orders!Inner, v \in DOMAIN order' \/ OnStack(r, v)
               PROVE  downstream[v] \in DOMAIN order' \/ Opened(r, downstream[v])
    BY <1>1, <1>3 DEF ParentsOpen, r
  <2>1. v \in DOMAIN order \/ OnStack(stack, v)
    <3>1. CASE v = u
      BY <1>0, <1>2, <3>1 DEF OnStack, n
    <3> QED  BY <1>6, <1>9, <3>1
  <2>2. downstream[v] \in DOMAIN order \/ Opened(stack, downstream[v])
    BY <2>1 DEF FoldInv, ParentsOpen
  <2> QED  BY <1>6, <1>9, <2>2
<1>12. KidsAbove'
  <2> SUFFICES ASSUME NEW i \in 1..(n - 1), r[i][2],
                      NEW v \in Orders!Inner, downstream[v] = r[i][1]
               PROVE  v \in DOMAIN order' \/ \E j \in (i + 1)..(n - 1) : r[j][1] = v
    BY <1>1, <1>2, <1>3 DEF KidsAbove, r
  <2>1. v \in DOMAIN order \/ \E j \in (i + 1)..n : stack[j][1] = v
    BY <1>8 DEF FoldInv, KidsAbove, n
  <2>2. ASSUME NEW j \in (i + 1)..n, stack[j][1] = v, v # u
        PROVE  j \in (i + 1)..(n - 1) /\ r[j][1] = v
    <3>1. j # n
      BY <1>0, <2>2
    <3>2. j \in (i + 1)..(n - 1) /\ j \in 1..(n - 1)
      BY <1>2, <3>1
    <3> QED  BY <1>2, <2>2, <3>2
  <2> QED  BY <1>6, <2>1, <2>2
<1>13. Started'
  <2>1. terminal \in DOMAIN order \/ OnStack(stack, terminal)
    BY <1>1 DEF FoldInv, Started
  <2>2. terminal \in DOMAIN order' \/ OnStack(r, terminal)
    BY <1>6, <1>9, <2>1
  <2> QED  BY <1>1, <2>2 DEF Started, r
<1> QED  BY <1>7, <1>10, <1>11, <1>12, <1>13 DEF FoldInv

LEMMA FoldNext == IInv /\ FoldInv /\ [NetworkNext]_networkVars => FoldInv'
<1> SUFFICES ASSUME IInv, FoldInv, [NetworkNext]_networkVars PROVE FoldInv'
  OBVIOUS
(* Without entry or order there is nothing to preserve. *)
<1>1. ASSUME stack' = << >>, order' = << >> PROVE FoldInv'
  <2>1. 1..Len(stack') = {} /\ DOMAIN order' = {} /\ stack' \in Seq(Members' \X BOOLEAN)
    BY <1>1
  <2> QED  BY <1>1, <2>1 DEF FoldInv, StackOnce, Ordered, ParentsOpen, KidsAbove,
                             Started, OnStack
<1>2. CASE Walk
  <2>1. result # "ok"
    BY <1>2 DEF Walk, Next, Begin, Expand, PassOver, Dangle, Discover, Finish
  <2>2. stack' = << >> /\ order' = << >>
    BY <1>2, <2>1 DEF Walk, FoldInv, Started
  <2> QED  BY <1>1, <2>2
<1>3. CASE Order
  <2>1. result = "ok" /\ UNCHANGED vars
    BY <1>3 DEF Order
  <2>2. Orders!Begin \/ Orders!Expand \/ Orders!Fold
    BY <1>3 DEF Order, Orders!Next
  <2> QED  BY <2>1, <2>2, FoldBegin, FoldExpand, FoldFold
<1>4. CASE UNCHANGED networkVars
  <2>1. UNCHANGED <<units, terminal, downstream, result, stack, order>>
    BY <1>4 DEF networkVars, vars, problem
  <2>2. Members' = Members /\ Orders!Inner' = Orders!Inner /\ \A v : Kids(v)' = Kids(v)
    BY <2>1, KidsStay
  <2>3. StackOnce' /\ Started'
    BY <2>1, <2>2 DEF FoldInv, StackOnce, Started
  <2>4. Ordered'
    BY <2>1, <2>2 DEF FoldInv, Ordered, Strahler
  <2>5. ParentsOpen' /\ KidsAbove'
    BY <2>1, <2>2 DEF FoldInv, ParentsOpen, KidsAbove
  <2> QED  BY <2>3, <2>4, <2>5 DEF FoldInv
<1> QED  BY <1>2, <1>3, <1>4 DEF NetworkNext

(* When the stack runs empty every unit of the result has its order: the   *)
(* first unit listed without one would drain to one listed before it, and  *)
(* units with an order have their children's.                              *)
LEMMA AllFolded ==
  ASSUME IInv, FoldInv, Orders!Ended
  PROVE  DOMAIN order = Members
<1>1. stack = << >> /\ order # << >> /\ Len(stack) = 0
  BY DEF Orders!Ended
<1>2. result = "ok" /\ terminal \in DOMAIN order
  BY <1>1 DEF FoldInv, Started, OnStack
<1>3. /\ Listing = units /\ units \in Seq(Units) /\ Len(units) \in Nat
      /\ units[1] = terminal
  <2>1. Listing = units /\ units \in Seq(Units)
    BY <1>2, WhenFound DEF Found
  <2> QED  BY <1>2, <2>1, LenProperties DEF IInv, OrderIsVisited, NotBegun
<1> DEFINE Missing == {i \in 1..Len(units) : units[i] \notin DOMAIN order}
<1>4. Missing = {}
  <2> SUFFICES ASSUME Missing # {} PROVE FALSE
    OBVIOUS
  <2>1. PICK i \in Missing : \A k \in Missing : i <= k
    <3>1. Missing \in SUBSET Nat
      BY <1>3
    <3> HIDE DEF Missing
    <3> QED  BY <3>1, LeastNatural
  <2>2. i \in 2..Len(units) /\ units[i] # terminal
    BY <1>2, <1>3, <2>1
  <2>3. PICK j \in 1..(i - 1) : downstream[units[i]] = units[j]
    BY <1>3, <2>2 DEF IInv, TreeInOrder
  <2>4. units[j] \in DOMAIN order
    BY <1>3, <2>1, <2>2, <2>3
  <2>5. units[i] \in Kids(units[j])
    BY <2>2, <2>3 DEF Kids, Orders!Kids, Orders!Inner, Orders!Members
  <2>6. units[i] \in DOMAIN order
    BY <2>4, <2>5 DEF FoldInv, Ordered
  <2> QED  BY <2>1, <2>6
<1> QED  BY <1>4 DEF FoldInv, Ordered, Members, Orders!Members

(* The fold only starts on a walk that ended well, and never disturbs it.  *)
LEMMA NetworkInvariant == NetworkSpec => [](IInv /\ FoldInv)
<1>1. NetworkInit => IInv /\ FoldInv
  BY InitInv, FoldInit DEF NetworkInit
<1>2. IInv /\ FoldInv /\ [NetworkNext]_networkVars => (IInv /\ FoldInv)'
  <2>1. [NetworkNext]_networkVars => [Next]_vars
    BY DEF NetworkNext, Walk, Order, networkVars
  <2> QED  BY <2>1, NextStep, FoldNext
<1> QED  BY <1>1, <1>2, PTL DEF NetworkSpec

(* Whatever the graph, cycles and diamonds included, the orders that       *)
(* strahler_orders folds with its explicit stack are the Strahler orders   *)
(* of the downstream tree that collect_upstream returned, all of them.     *)
THEOREM OrdersAreStrahlerHolds == NetworkSpec => []OrdersAreStrahler
<1>1. IInv /\ FoldInv => OrdersAreStrahler
  <2> SUFFICES ASSUME IInv, FoldInv, Orders!Ended
               PROVE  DOMAIN order = Members /\ \A u \in Members : Strahler(u)
    BY DEF OrdersAreStrahler, Orders!OrdersAreStrahler, Strahler, Kids, Members
  <2>1. DOMAIN order = Members
    BY AllFolded
  <2> QED  BY <2>1 DEF FoldInv, Ordered
<1> QED  BY <1>1, NetworkInvariant, PTL
=============================================================================
