------------------------- MODULE RasterWindowProofs --------------------------
(***************************************************************************)
(* Proofs about the raster windows of refinement.  RasterWindowCache, for  *)
(* every number of calls, sessions and windows: single flight, live map    *)
(* entries, Ok only for a file that is there, immutable windows, and the   *)
(* refinement of WindowPromise.  CogWindow, for every file, box, kind,     *)
(* tile width and ceiling: a window that is made is a piece of one upload, *)
(* and a file of the documented layout is read.                            *)
(***************************************************************************)
EXTENDS RasterWindowCache, CogWindow, FiniteSetTheorems, TLAPS

(* A fetching call is the owner of its entry. *)
FlightOwnsEntry == \A c \in Calls : pc[c] \in Flying => Entry(c) = c

(* The call has seen its window file in place. *)
SawFile == {"ok", "releaseOk", "notifyOk"}

FileInPlace == \A c \in Calls : pc[c] \in SawFile => file[window[c]] # Absent

(* The inductive invariant.  SingleFlight follows from FlightOwnsEntry,    *)
(* because an entry has one value; EntriesAreLive is what lets Claim put   *)
(* itself into an empty entry without evicting another fetch.              *)
IInv == TypeOK /\ FlightOwnsEntry /\ EntriesAreLive /\ FileInPlace

(* Type correctness: every call, file and map entry stays in its range. *)
LEMMA TypeStep == TypeOK /\ [Next]_vars => TypeOK'
<1> SUFFICES ASSUME TypeOK, [Next]_vars PROVE TypeOK'
  OBVIOUS
<1> USE RasterWindowAssumption DEF TypeOK, Flying, Returned, Contents, Versions
<1>1. ASSUME NEW c \in Calls, Prepare(c) PROVE TypeOK'
  <2>1. remote[window[c]] \in Versions
    OBVIOUS
  <2>2. [drawn[c] EXCEPT !.header = remote[window[c]]] \in Contents
    <3>1. drawn[c] \in [header : Versions, tiles : Versions]
      OBVIOUS
    <3> HIDE DEF Versions, TypeOK
    <3> QED  BY <2>1, <3>1
  <2>3. drawn' \in [Calls -> Contents]
    BY <1>1, <2>2 DEF Prepare
  <2>4. pc' \in [Calls -> Flying \cup Returned \cup
               {"prepare", "lookup", "entry", "cloned", "parked", "recheck",
                "notifyOk", "notifyErr", "panicked"}]
    BY <1>1 DEF Prepare, Move
  <2> QED
    BY <1>1, <2>3, <2>4 DEF Prepare
<1>2. ASSUME NEW c \in Calls, FirstLookup(c) \/ Recheck(c) PROVE TypeOK'
  BY <1>2 DEF FirstLookup, Recheck, Lookup, Move
<1>3. ASSUME NEW c \in Calls, Clone(c) PROVE TypeOK'
  BY <1>3 DEF Clone, Move, Entry
<1>4. ASSUME NEW c \in Calls, Park(c) PROVE TypeOK'
  BY <1>4 DEF Park, Move
<1>5. ASSUME NEW c \in Calls, Claim(c) PROVE TypeOK'
  BY <1>5 DEF Claim, Move, SetEntry
<1>6. ASSUME NEW c \in Calls, Fetch(c) PROVE TypeOK'
  <2>1. remote[window[c]] \in Versions
    OBVIOUS
  <2>2. [drawn[c] EXCEPT !.tiles = remote[window[c]]] \in Contents
    <3>1. drawn[c] \in [header : Versions, tiles : Versions]
      OBVIOUS
    <3> HIDE DEF Versions, TypeOK
    <3> QED  BY <2>1, <3>1
  <2>3. drawn' \in [Calls -> Contents]
    BY <1>6, <2>2 DEF Fetch
  <2>4. pc' \in [Calls -> Flying \cup Returned \cup
               {"prepare", "lookup", "entry", "cloned", "parked", "recheck",
                "notifyOk", "notifyErr", "panicked"}]
    BY <1>6 DEF Fetch, Move
  <2> QED
    BY <1>6, <2>3, <2>4 DEF Fetch
<1>7. ASSUME NEW c \in Calls, Persist(c) PROVE TypeOK'
  <2>1. drawn[c] \in Contents
    OBVIOUS
  <2>2. file' \in [Windows -> Contents \cup {Absent}]
    BY <1>7, <2>1 DEF Persist
  <2>3. pc' \in [Calls -> Flying \cup Returned \cup
               {"prepare", "lookup", "entry", "cloned", "parked", "recheck",
                "notifyOk", "notifyErr", "panicked"}]
    BY <1>7 DEF Persist, Move
  <2> QED
    BY <1>7, <2>2, <2>3 DEF Persist
<1>8. ASSUME NEW c \in Calls, Release(c) PROVE TypeOK'
  BY <1>8 DEF Release, Move, SetEntry
<1>9. ASSUME NEW c \in Calls, Notify(c) PROVE TypeOK'
  BY <1>9 DEF Notify
<1>10. ASSUME NEW w \in Windows, Overwrite(w) PROVE TypeOK'
  BY <1>10 DEF Overwrite
<1>11. CASE UNCHANGED vars
  BY <1>11 DEF vars
<1> QED
  BY <1>1, <1>2, <1>3, <1>4, <1>5, <1>6, <1>7, <1>8, <1>9, <1>10, <1>11
     DEF Next, CallStep

(* Every state is well typed. *)
THEOREM TypeCorrect == Spec => []TypeOK
<1>1. Init => TypeOK
  BY RasterWindowAssumption DEF Init, TypeOK, Versions, Contents, Flying, Returned
<1> QED
  BY <1>1, TypeStep, PTL DEF Spec

(* A fetching call owns its entry through every step: Claim takes only an  *)
(* empty entry, and Release frees only the caller's own.                   *)
LEMMA OwnsStep == IInv /\ TypeOK' /\ [Next]_vars => FlightOwnsEntry'
<1> SUFFICES ASSUME IInv, TypeOK', [Next]_vars PROVE FlightOwnsEntry'
  OBVIOUS
<1> USE RasterWindowAssumption DEF IInv, TypeOK, FlightOwnsEntry, Flying, Entry
<1>1. ASSUME NEW c \in Calls, Prepare(c) PROVE FlightOwnsEntry'
  BY <1>1 DEF Prepare, Move
<1>2. ASSUME NEW c \in Calls, FirstLookup(c) \/ Recheck(c)
      PROVE FlightOwnsEntry'
  BY <1>2 DEF FirstLookup, Recheck, Lookup, Move
<1>3. ASSUME NEW c \in Calls, Clone(c) \/ Park(c) PROVE FlightOwnsEntry'
  BY <1>3 DEF Clone, Park, Move
<1>5. ASSUME NEW c \in Calls, Claim(c) PROVE FlightOwnsEntry'
  BY <1>5 DEF Claim, Move, SetEntry
<1>6. ASSUME NEW c \in Calls, Fetch(c) PROVE FlightOwnsEntry'
  BY <1>6 DEF Fetch, Move
<1>7. ASSUME NEW c \in Calls, Persist(c) PROVE FlightOwnsEntry'
  BY <1>7 DEF Persist, Move
<1>8. ASSUME NEW c \in Calls, Release(c) PROVE FlightOwnsEntry'
  BY <1>8 DEF Release, Move, SetEntry
<1>9. ASSUME NEW c \in Calls, Notify(c) PROVE FlightOwnsEntry'
  BY <1>9 DEF Notify
<1>10. ASSUME NEW w \in Windows, Overwrite(w) PROVE FlightOwnsEntry'
  BY <1>10 DEF Overwrite
<1>11. CASE UNCHANGED vars
  BY <1>11 DEF vars
<1> QED
  BY <1>1, <1>2, <1>3, <1>5, <1>6, <1>7, <1>8, <1>9, <1>10, <1>11
     DEF Next, CallStep

(* The owner e is the call an entry of EntriesAreLive names. *)
Live(e, s, w) ==
  /\ pc[e] \in Flying \cup {"panicked"}
  /\ SessionOf[e] = s
  /\ window[e] = w

(* No step leaves an entry behind for a call that has finished. *)
LEMMA LiveStep == IInv /\ TypeOK' /\ [Next]_vars => EntriesAreLive'
<1> SUFFICES ASSUME IInv, TypeOK', [Next]_vars,
                    NEW s \in Sessions, NEW w \in Windows,
                    NEW e \in Calls, inFlight'[s][w] = e
             PROVE  Live(e, s, w)'
  BY DEF EntriesAreLive, Live
<1>a. inFlight[s][w] = e => Live(e, s, w)
  BY RasterWindowAssumption DEF IInv, EntriesAreLive, Live
<1>b. pc \in [Calls -> Flying \cup Returned \cup
               {"prepare", "lookup", "entry", "cloned", "parked", "recheck",
                "notifyOk", "notifyErr", "panicked"}]
  BY DEF IInv, TypeOK
<1>c. ASSUME inFlight' = inFlight, window' = window,
             pc[e] \in Flying \cup {"panicked"} =>
               pc'[e] \in Flying \cup {"panicked"}
      PROVE  Live(e, s, w)'
  BY <1>a, <1>c DEF Live
<1> USE DEF Flying
<1>1. ASSUME NEW c \in Calls, Prepare(c) PROVE Live(e, s, w)'
  BY <1>1, <1>b, <1>c DEF Prepare, Move
<1>2. ASSUME NEW c \in Calls, FirstLookup(c) \/ Recheck(c)
      PROVE Live(e, s, w)'
  BY <1>2, <1>b, <1>c DEF FirstLookup, Recheck, Lookup, Move
<1>3. ASSUME NEW c \in Calls, Clone(c) \/ Park(c) PROVE Live(e, s, w)'
  BY <1>3, <1>b, <1>c DEF Clone, Park, Move
<1>5. ASSUME NEW c \in Calls, Claim(c) PROVE Live(e, s, w)'
  <2>1. CASE SessionOf[c] = s /\ window[c] = w
    <3>1. e = c
      BY <1>5, <2>1 DEF Claim, SetEntry, IInv, TypeOK
    <3> QED
      BY <1>5, <2>1, <3>1, <1>b DEF Claim, Move, Live
  <2>2. CASE ~ (SessionOf[c] = s /\ window[c] = w)
    <3>1. SessionOf[c] \in Sessions /\ window[c] \in Windows
      BY RasterWindowAssumption DEF IInv, TypeOK
    <3>2. inFlight[s][w] = e
      BY <1>5, <2>2, <3>1 DEF Claim, SetEntry, IInv, TypeOK
    <3> QED
      BY <1>5, <3>2, <1>a, <1>b DEF Claim, Move, Live
  <2> QED
    BY <2>1, <2>2
<1>6. ASSUME NEW c \in Calls, Fetch(c) PROVE Live(e, s, w)'
  BY <1>6, <1>b, <1>c DEF Fetch, Move
<1>7. ASSUME NEW c \in Calls, Persist(c) PROVE Live(e, s, w)'
  BY <1>7, <1>b, <1>c DEF Persist, Move
<1>8. ASSUME NEW c \in Calls, Release(c) PROVE Live(e, s, w)'
  <2>1. SessionOf[c] \in Sessions /\ window[c] \in Windows
    BY RasterWindowAssumption DEF IInv, TypeOK
  <2>2. ~ (SessionOf[c] = s /\ window[c] = w)
    BY RasterWindowAssumption, <1>8, <2>1 DEF Release, SetEntry, IInv, TypeOK
  <2>3. inFlight[s][w] = e
    BY <1>8, <2>1, <2>2 DEF Release, SetEntry, IInv, TypeOK
  <2>4. e # c
    BY <2>2, <2>3, <1>a DEF Live
  <2> QED
    BY <1>8, <2>3, <2>4, <1>a, <1>b DEF Release, Move, Live
<1>9. ASSUME NEW c \in Calls, Notify(c) PROVE Live(e, s, w)'
  BY <1>9, <1>b, <1>c DEF Notify
<1>10. ASSUME NEW x \in Windows, Overwrite(x) PROVE Live(e, s, w)'
  BY <1>10, <1>c DEF Overwrite
<1>11. CASE UNCHANGED vars
  BY <1>11, <1>c DEF vars
<1> QED
  BY <1>1, <1>2, <1>3, <1>5, <1>6, <1>7, <1>8, <1>9, <1>10, <1>11
     DEF Next, CallStep

(* No step takes a published file away or changes it. *)
LEMMA FilesStay ==
  ASSUME TypeOK, [Next]_vars, NEW w \in Windows, file[w] # Absent
  PROVE  file'[w] = file[w]
<1> USE DEF TypeOK
<1>1. ASSUME NEW c \in Calls, Persist(c) PROVE file'[w] = file[w]
  BY <1>1 DEF Persist
<1>2. ASSUME NEW c \in Calls, CallStep(c), ~ Persist(c) PROVE file' = file
  BY <1>2 DEF CallStep, Prepare, FirstLookup, Recheck, Lookup, Clone, Park,
              Claim, Fetch, Release, Notify
<1>3. ASSUME NEW x \in Windows, Overwrite(x) PROVE file' = file
  BY <1>3 DEF Overwrite
<1>4. CASE UNCHANGED vars
  BY <1>4 DEF vars
<1> QED
  BY <1>1, <1>2, <1>3, <1>4 DEF Next

(* A call is sure of its file only after it saw or published it. *)
LEMMA InPlaceStep == IInv /\ TypeOK' /\ [Next]_vars => FileInPlace'
<1> SUFFICES ASSUME IInv, TypeOK', [Next]_vars,
                    NEW e \in Calls, (pc[e] \in SawFile)'
             PROVE  (file[window[e]] # Absent)'
  BY DEF FileInPlace
<1> USE RasterWindowAssumption DEF IInv, TypeOK, FileInPlace, SawFile
<1>0. window' = window
  BY DEF Next, CallStep, Prepare, FirstLookup, Recheck, Lookup, Clone, Park,
         Claim, Fetch, Persist, Release, Notify, Overwrite, vars
<1>1. CASE pc[e] \in SawFile
  BY <1>0, <1>1, FilesStay
<1>2. CASE pc[e] \notin SawFile
  <2>1. ASSUME NEW c \in Calls, FirstLookup(c) \/ Recheck(c)
        PROVE  (file[window[e]] # Absent)'
    BY <1>0, <1>2, <2>1 DEF FirstLookup, Recheck, Lookup, Move
  <2>2. ASSUME NEW c \in Calls, Persist(c)
        PROVE  (file[window[e]] # Absent)'
    BY <1>0, <1>2, <2>2 DEF Persist, Move
  <2>3. ASSUME NEW c \in Calls, Prepare(c) \/ Clone(c) \/ Park(c) \/ Claim(c)
        PROVE  FALSE
    BY <1>2, <2>3 DEF Prepare, Clone, Park, Claim, Move
  <2>4. ASSUME NEW c \in Calls, Fetch(c) \/ Release(c)
        PROVE  FALSE
    BY <1>2, <2>4 DEF Fetch, Release, Move
  <2>5. ASSUME NEW c \in Calls, Notify(c)
        PROVE  FALSE
    BY <1>2, <2>5 DEF Notify
  <2>6. ASSUME NEW w \in Windows, Overwrite(w)
        PROVE  FALSE
    BY <1>2, <2>6 DEF Overwrite
  <2>7. CASE UNCHANGED vars
    BY <1>2, <2>7 DEF vars
  <2> QED
    BY <2>1, <2>2, <2>3, <2>4, <2>5, <2>6, <2>7 DEF Next, CallStep
<1> QED
  BY <1>1, <1>2

(* The invariant holds in every state. *)
THEOREM Invariant == Spec => []IInv
<1>1. Init => IInv
  BY RasterWindowAssumption
     DEF Init, IInv, TypeOK, Versions, Contents, Flying, Returned,
         FlightOwnsEntry, EntriesAreLive, FileInPlace, SawFile
<1>2. IInv /\ [Next]_vars => IInv'
  BY TypeStep, OwnsStep, LiveStep, InPlaceStep DEF IInv
<1> QED
  BY <1>1, <1>2, PTL DEF Spec

(* At most one call of a session fetches a window at any time. *)
THEOREM SingleFlightHolds == Spec => []SingleFlight
<1>1. IInv => SingleFlight
  BY DEF IInv, FlightOwnsEntry, SingleFlight, Entry
<1> QED
  BY <1>1, Invariant, PTL

(* No map entry outlives the fetch it stands for, but for a panic. *)
THEOREM EntriesAreLiveHolds == Spec => []EntriesAreLive
<1>1. IInv => EntriesAreLive
  BY DEF IInv
<1> QED
  BY <1>1, Invariant, PTL

(* A call that returns Ok names a file that exists. *)
THEOREM OkMeansCachedHolds == Spec => []OkMeansCached
<1>1. IInv => OkMeansCached
  BY DEF IInv, FileInPlace, SawFile, OkMeansCached
<1> QED
  BY <1>1, Invariant, PTL

(* A published window keeps its content for ever. *)
THEOREM WindowFrozenHolds == Spec => WindowFrozen
<1>1. TypeOK /\ [Next]_vars =>
        [\A w \in Windows : file[w] # Absent => file'[w] = file[w]]_vars
  BY FilesStay
<1> QED
  BY <1>1, TypeCorrect, PTL DEF Spec, WindowFrozen

(* A step that leaves files and windows alone and moves only c, not from a *)
(* returned state, is a return of c or invisible.                          *)
LEMMA MoveMaps ==
  ASSUME TypeOK, NEW c \in Calls, NEW to,
         pc[c] \notin Returned, pc' = [pc EXCEPT ![c] = to],
         window' = window, file' = file,
         to = "ok" => file[window[c]] # Absent
  PROVE  [Promise!Next]_(Promise!vars)
<1> USE DEF TypeOK
<1>1. Outcome[c] = "pending"
  BY DEF Outcome
<1>2. Outcome' = [Outcome EXCEPT ![c] =
                    IF to \in Returned THEN to ELSE "pending"]
  BY DEF Outcome
<1>3. CASE to \in Returned
  <2>1. Promise!Return(c)
    BY <1>1, <1>2, <1>3 DEF Promise!Return, Returned
  <2> QED
    BY <2>1 DEF Promise!Next
<1>4. CASE to \notin Returned
  <2>1. Outcome' = Outcome
    BY <1>1, <1>2, <1>4 DEF Outcome
  <2> QED
    BY <2>1 DEF Promise!vars
<1> QED
  BY <1>3, <1>4

(* Every step of the cache is a step of the promise or invisible to it. *)
LEMMA StepMaps == IInv /\ [Next]_vars => [Promise!Next]_(Promise!vars)
<1> SUFFICES ASSUME IInv, [Next]_vars PROVE [Promise!Next]_(Promise!vars)
  OBVIOUS
<1> USE DEF IInv
<1>1. ASSUME NEW c \in Calls,
             Prepare(c) \/ FirstLookup(c) \/ Recheck(c) \/ Clone(c) \/ Park(c)
             \/ Claim(c) \/ Fetch(c) \/ Release(c)
      PROVE  [Promise!Next]_(Promise!vars)
  <2>1. PICK to : /\ pc[c] \notin Returned
                  /\ pc' = [pc EXCEPT ![c] = to]
                  /\ window' = window /\ file' = file
                  /\ to = "ok" => file[window[c]] # Absent
    BY <1>1 DEF Prepare, FirstLookup, Recheck, Lookup, Clone, Park, Claim,
                Fetch, Release, Move, Returned
  <2> QED
    BY <2>1, MoveMaps
<1>2. ASSUME NEW c \in Calls, Persist(c) PROVE [Promise!Next]_(Promise!vars)
  <2>1. Outcome' = Outcome
    BY <1>2 DEF Persist, Move, Outcome, TypeOK, Returned
  <2>2. CASE file' = file
    BY <1>2, <2>1, <2>2 DEF Persist, Promise!vars
  <2>3. CASE file' # file
    <3>1. window[c] \in Windows /\ drawn[c] \in Contents
      BY DEF TypeOK
    <3>2. /\ file[window[c]] = Absent
          /\ file' = [file EXCEPT ![window[c]] = drawn[c]]
      BY <1>2, <2>3 DEF Persist, TypeOK
    <3>3. Promise!Publish(window[c])
      BY <1>2, <2>1, <3>1, <3>2 DEF Persist, Promise!Publish
    <3> QED
      BY <3>1, <3>3 DEF Promise!Next
  <2> QED
    BY <2>2, <2>3
<1>3. ASSUME NEW c \in Calls, Notify(c) PROVE [Promise!Next]_(Promise!vars)
  <2> DEFINE to == IF pc[c] = "notifyOk" THEN "ok" ELSE "err"
  <2>1. Outcome[c] = "pending"
    BY <1>3 DEF Notify, Outcome, Returned
  <2>2. Outcome' = [Outcome EXCEPT ![c] = to]
    BY <1>3 DEF Notify, Outcome, Returned, TypeOK
  <2>3. to = "ok" => file[window[c]] # Absent
    BY DEF FileInPlace, SawFile
  <2>4. Promise!Return(c)
    BY <1>3, <2>1, <2>2, <2>3 DEF Promise!Return, Notify
  <2> QED
    BY <2>4 DEF Promise!Next
<1>4. ASSUME NEW w \in Windows, Overwrite(w)
      PROVE  [Promise!Next]_(Promise!vars)
  BY <1>4 DEF Overwrite, Promise!vars, Outcome
<1>5. CASE UNCHANGED vars
  BY <1>5 DEF vars, Promise!vars, Outcome
<1> QED
  BY <1>1, <1>2, <1>3, <1>4, <1>5 DEF Next, CallStep

(* get_or_fetch_window, with its shared fetches, implements WindowPromise. *)
THEOREM RefinementHolds == Spec => RefinesPromise
<1>1. Init => Promise!Init
  BY DEF Init, Promise!Init, Outcome, Returned
<1> QED
  BY <1>1, StepMaps, Invariant, PTL DEF Spec, RefinesPromise, Promise!Spec

-----------------------------------------------------------------------------
(* The window that a fetch makes.  First, integers and axes.               *)

LEMMA IntDivMod ==
  ASSUME NEW n \in Int, NEW d \in Nat \ {0}
  PROVE  n \div d \in Int /\ n % d \in 0..(d - 1) /\ n = (d * (n \div d)) + (n % d)
  BY Z3

LEMMA Product ==
  ASSUME NEW d \in Nat, NEW a \in Int, NEW b \in Int
  PROVE  /\ d * a \in Int /\ d * (a + 1) = d * a + d
         /\ a <= b => d * a <= d * b
         /\ d # 0 /\ a < b => d * a + d <= d * b
  BY Z3

(* Quotient and remainder are the only ones. *)
LEMMA DivUnique ==
  ASSUME NEW n \in Int, NEW d \in Nat \ {0}, NEW q \in Int, NEW r \in 0..(d - 1), n = (d * q) + r
  PROVE  n \div d = q /\ n % d = r
<1> DEFINE a == n \div d
           b == n % d
           x == d * a
           y == d * q
<1>1. a \in Int /\ b \in 0..(d - 1) /\ n = x + b
  BY IntDivMod
<1>2. x \in Int /\ y \in Int /\ n = y + r
  BY <1>1, Product
<1>3. (a < q => x + d <= y) /\ (q < a => y + d <= x)
  BY <1>1, Product
<1>4. a = q => x = y
  OBVIOUS
<1> HIDE DEF a, b, x, y
<1>5. a = q
  BY <1>1, <1>2, <1>3
<1> QED  BY <1>1, <1>2, <1>4, <1>5 DEF a, b

LEMMA MinMaxTwo ==
  ASSUME NEW a \in Int, NEW b \in Int
  PROVE  /\ Min({a, b}) = IF a <= b THEN a ELSE b
         /\ Max({a, b}) = IF a >= b THEN a ELSE b
  BY DEF Min, Max

LEMMA CeilingIs ==
  ASSUME NEW n \in Int, NEW d \in Nat \ {0}
  PROVE  /\ Ceiling(n, d) \in Int /\ d * Ceiling(n, d) >= n
         /\ \A c \in Int : d * c < n => c < Ceiling(n, d)
         /\ \A c \in Int : c < Ceiling(n, d) => d * c < n
<1> DEFINE q == (-n) \div d
           r == (-n) % d
           x == d * q
           y == d * (-q)
<1>1. q \in Int /\ r \in 0..(d - 1) /\ -n = x + r
  <2>1. -n \in Int
    OBVIOUS
  <2> QED  BY <2>1, IntDivMod
<1>2. x \in Int /\ y \in Int /\ y = -x
  <2>1. x \in Int /\ y \in Int
    BY <1>1, Product
  <2>2. y = -x
    <3> HIDE DEF q
    <3> QED  BY <1>1, Z3
  <2> QED  BY <2>1, <2>2
<1>3. Ceiling(n, d) = -q
  BY DEF Ceiling
<1> HIDE DEF q, r
<1>4. \A c \in Int : /\ d * c \in Int
                     /\ -q <= c => y <= d * c
                     /\ c < -q => d * c + d <= y
  <2> TAKE c \in Int
  <2>1. -q \in Int
    BY <1>1
  <2> QED  BY <2>1, Product
<1> HIDE DEF x, y
<1>5. y >= n /\ n > y - d
  BY <1>1, <1>2
<1>6. \A c \in Int : d * c < n => c < -q
  BY <1>1, <1>2, <1>4, <1>5
<1>7. \A c \in Int : c < -q => d * c < n
  BY <1>1, <1>2, <1>4, <1>5
<1> QED  BY <1>1, <1>3, <1>5, <1>6, <1>7 DEF y

LEMMA SideIs == Side \in Nat \ {0}
  BY CogWindowAssumption

LEMMA UnsetIs == (\A n \in Int : n # Unset) /\ Unset \notin {"u8", "i8", "f32", "i32"}
  BY CogWindowAssumption

(* A span lies on its axis, holds every pixel under the box, and holds one *)
(* at all if the box meets the axis.                                       *)
LEMMA SpanIs ==
  ASSUME NEW low \in Int, NEW high \in Int, NEW scale \in Nat \ {0}, NEW pixels \in Nat
  PROVE  LET s == Span(low, high, scale, pixels) IN
         /\ s = [off |-> s.off, len |-> s.len]
         /\ s.off \in Nat /\ s.len \in Nat /\ s.off + s.len <= pixels
         /\ \A c \in 0..(pixels - 1) :
              scale * c < high /\ low < scale * (c + 1) => s.off <= c /\ c < s.off + s.len
         /\ low <= high /\ 0 <= high /\ low <= scale * pixels /\ pixels # 0 => s.len # 0
<1> DEFINE s == Span(low, high, scale, pixels)
           Clamp(p) == Max({0, Min({p, pixels})})
           below == low \div scale
           above == Ceiling(high, scale)
           from == Clamp(below - 1)
           to == Clamp(above + 1)
<1>1. below \in Int /\ above \in Int
  BY IntDivMod, CeilingIs
<1>2. \A p \in Int : Clamp(p) = IF p < 0 THEN 0 ELSE IF p > pixels THEN pixels ELSE p
  <2> TAKE p \in Int
  <2> DEFINE m == Min({p, pixels})
  <2>1. m = IF p <= pixels THEN p ELSE pixels
    BY MinMaxTwo
  <2>2. m \in Int
    BY <2>1
  <2> HIDE DEF m
  <2>3. Max({0, m}) = IF 0 >= m THEN 0 ELSE m
    BY <2>2, MinMaxTwo
  <2> QED  BY <2>1, <2>2, <2>3 DEF m
<1>3. s = [off |-> from, len |-> Max({0, to - from})]
  BY DEF Span
<1>4. /\ from = IF below - 1 < 0 THEN 0 ELSE IF below - 1 > pixels THEN pixels ELSE below - 1
      /\ to = IF above + 1 < 0 THEN 0 ELSE IF above + 1 > pixels THEN pixels ELSE above + 1
  BY <1>1, <1>2
<1>5. from \in 0..pixels /\ to \in 0..pixels
  <2> HIDE DEF from, to, above, below
  <2> QED  BY <1>1, <1>4
<1>6. Max({0, to - from}) = IF to >= from THEN to - from ELSE 0
  <2> HIDE DEF from, to
  <2>1. to - from \in Int
    BY <1>5
  <2>2. Max({0, to - from}) = IF 0 >= to - from THEN 0 ELSE to - from
    BY <2>1, MinMaxTwo
  <2> QED  BY <1>5, <2>2
<1> HIDE DEF from, to, Clamp, s
<1>7. s.off = from /\ s.len = IF to >= from THEN to - from ELSE 0
  BY <1>3, <1>6
<1>8. s = [off |-> s.off, len |-> s.len]
  BY <1>3
<1>9. \A c \in Int : /\ scale * c < high => c < above
                     /\ low < scale * (c + 1) => below <= c
  <2> TAKE c \in Int
  <2>1. scale * c < high => c < above
    BY CeilingIs
  <2>2. ASSUME below > c PROVE low >= scale * (c + 1)
    <3>1. scale * (c + 1) <= scale * below
      BY <1>1, <2>2, Product
    <3>2. low = scale * below + (low % scale) /\ low % scale \in Nat
      BY IntDivMod
    <3>3. scale * (c + 1) \in Int /\ scale * below \in Int
      BY <1>1, Product
    <3> HIDE DEF below
    <3> QED  BY <3>1, <3>2, <3>3
  <2>3. scale * (c + 1) \in Int
    BY Product
  <2> HIDE DEF below, above
  <2> QED  BY <1>1, <2>1, <2>2, <2>3
<1> HIDE DEF below, above
<1>10. \A c \in 0..(pixels - 1) :
         scale * c < high /\ low < scale * (c + 1) => s.off <= c /\ c < s.off + s.len
  <2> SUFFICES ASSUME NEW c \in 0..(pixels - 1), scale * c < high, low < scale * (c + 1)
               PROVE  s.off <= c /\ c < s.off + s.len
    OBVIOUS
  <2>1. c < above /\ below <= c
    BY <1>9
  <2> QED  BY <1>1, <1>4, <1>5, <1>7, <2>1
<1>11. ASSUME low <= high, 0 <= high, low <= scale * pixels, pixels # 0
       PROVE  s.len # 0
  <2>1. above >= 0 /\ below <= pixels /\ below <= above
    <3>1. above >= 0
      <4>1. scale * (-1) < high
        <5>1. scale * (-1) = -scale
          BY Z3
        <5> QED  BY <1>11, <5>1
      <4>2. -1 < above
        BY <4>1, <1>9
      <4> QED  BY <1>1, <4>2
    <3>2. low >= scale * below
      <4>1. low = scale * below + (low % scale) /\ low % scale \in Nat /\ scale * below \in Int
        BY <1>1, IntDivMod, Product DEF below
      <4> QED  BY <4>1
    <3>3. below <= pixels
      <4> SUFFICES ASSUME below > pixels PROVE FALSE
        BY <1>1
      <4>1. scale * pixels + scale <= scale * below /\ scale * pixels \in Int /\ scale * below \in Int
        BY <1>1, Product
      <4> QED  BY <1>11, <3>2, <4>1
    <3>4. below <= above
      <4> SUFFICES ASSUME below > above PROVE FALSE
        BY <1>1
      <4>1. scale * above + scale <= scale * below /\ scale * above \in Int /\ scale * below \in Int
        BY <1>1, Product
      <4>2. scale * above >= high
        BY CeilingIs DEF above
      <4> QED  BY <1>11, <3>2, <4>1, <4>2
    <3> QED  BY <3>1, <3>3, <3>4
  <2> QED  BY <1>1, <1>4, <1>5, <1>7, <1>11, <2>1
<1> QED  BY <1>5, <1>7, <1>8, <1>10, <1>11 DEF s

-----------------------------------------------------------------------------
(* A call whose header, window and plan were accepted. *)
Accepted ==
  /\ raster \in Files /\ box \in Boxes /\ kind \in Kinds
  /\ LayoutRead /\ MeritLayout /\ Planned /\ EntriesReadable

Grid == 0..((TilesAcross * TilesDown) - 1)

(* What an accepted header says is so. *)
LEMMA HeaderIs ==
  ASSUME raster \in Files, LayoutRead, MeritLayout
  PROVE  /\ Columns \in Nat \ {0} /\ Rows \in Nat \ {0}
         /\ ScaleX \in Int /\ ScaleY \in Int /\ OriginX \in Int /\ OriginY \in Int
         /\ Nodata \in Int \cup {Unset}
         /\ Sample \in {"u8", "i8", "f32", "i32"} /\ Value("Predictor") \in {1, 2, 3}
         /\ TilesAcross \in Int /\ TilesDown \in Int
         /\ Field("TileOffsets").count = TilesAcross * TilesDown
         /\ Field("TileByteCounts").count = TilesAcross * TilesDown
<1>1. Stored(raster)
  BY CogWindowAssumption
<1>2. \A tag \in DOMAIN raster.fields :
        /\ Field(tag).count \in Nat /\ Value(tag) \in Nat
        /\ Field(tag).type = "DOUBLE" => Field(tag).data \in [1..Field(tag).count -> Int]
        /\ Field(tag).type = "ASCII" => Field(tag).data \in Int \cup {Unset}
  BY <1>1 DEF Stored, Field, Value
<1>3. Columns \in Nat \ {0} /\ Rows \in Nat \ {0}
  BY <1>2 DEF LayoutRead, Scalars, Scalar, Columns, Rows
<1>4. Field("Scale").data \in [1..3 -> Int] /\ Field("Tiepoint").data \in [1..6 -> Int]
  BY <1>2 DEF LayoutRead, Doubles
<1>5. ScaleX \in Int /\ ScaleY \in Int
  BY <1>4 DEF ScaleX, ScaleY
<1>6. OriginX \in Int /\ OriginY \in Int
  <2>1. Field("Tiepoint").data[1] * ScaleX \in Int /\ Field("Tiepoint").data[2] * ScaleY \in Int
    BY <1>4, <1>5
  <2> QED  BY <1>4, <2>1 DEF OriginX, OriginY
<1>7. Nodata \in Int \cup {Unset}
  BY <1>2 DEF LayoutRead, Text, Nodata
<1>8. Sample \in {"u8", "i8", "f32", "i32"}
  BY DEF LayoutRead, Sample
<1>9. Value("Predictor") \in {1, 2, 3}
  BY DEF MeritLayout
<1>10. TilesAcross \in Int /\ TilesDown \in Int
  BY <1>3, CeilingIs, SideIs DEF TilesAcross, TilesDown
<1>11. /\ Field("TileOffsets").count = TilesAcross * TilesDown
       /\ Field("TileByteCounts").count = TilesAcross * TilesDown
  BY DEF LayoutRead, MeritLayout
<1> QED  BY <1>3, <1>5, <1>6, <1>7, <1>8, <1>9, <1>10, <1>11

LEMMA UploadIs ==
  ASSUME raster \in Files, LayoutRead, MeritLayout
  PROVE  /\ Len(raster.uploads) \in Nat \ {0} /\ DOMAIN raster.uploads = 1..Len(raster.uploads)
         /\ \A v \in DOMAIN raster.uploads :
              /\ Upload(v).pixels \in [(0..(Columns - 1)) \X (0..(Rows - 1)) -> 0..15]
              /\ Upload(v).offset \in [Grid -> Nat] /\ Upload(v).length \in [Grid -> Nat]
              /\ Upload(v).stream \in [Grid -> Nat]
              /\ \A t \in Grid : Upload(v).stream[t] <= Upload(v).length[t]
              /\ \A t, other \in Grid :
                   t # other /\ Upload(v).offset[t] = Upload(v).offset[other] => Upload(v).length[t] = 0
              /\ \A tag \in {"TileOffsets", "TileByteCounts"} :
                   Inline(tag) /\ Field(tag).count = 1 => Value(tag) = IndexEntry(v, tag, 0)
<1>1. Stored(raster)
  BY CogWindowAssumption
<1>2. {"ImageWidth", "ImageLength", "TileOffsets", "TileByteCounts"} \subseteq DOMAIN raster.fields
  BY DEF LayoutRead, Scalars, Scalar, Descriptor
<1>3. Field("TileOffsets").count = TilesAcross * TilesDown
  BY HeaderIs
<1>4. \A v \in DOMAIN raster.uploads :
        /\ Upload(v).offset \in [Grid -> Nat] /\ Upload(v).length \in [Grid -> Nat]
        /\ Upload(v).stream \in [Grid -> Nat]
        /\ \A t \in Grid : Upload(v).stream[t] <= Upload(v).length[t]
        /\ \A t, other \in Grid :
             t # other /\ Upload(v).offset[t] = Upload(v).offset[other] => Upload(v).length[t] = 0
  BY <1>1, <1>2, <1>3 DEF Stored, Upload, Grid, Field
<1>5. \A v \in DOMAIN raster.uploads :
        Upload(v).pixels \in [(0..(Columns - 1)) \X (0..(Rows - 1)) -> 0..15]
  BY <1>1, <1>2, <1>3 DEF Stored, Upload, Field, Columns, Rows, Value, TilesAcross, TilesDown
<1>6. ASSUME NEW v \in DOMAIN raster.uploads
      PROVE  \A tag \in {"TileOffsets", "TileByteCounts"} :
               Inline(tag) /\ Field(tag).count = 1 => Value(tag) = IndexEntry(v, tag, 0)
  <2>1. Inline("TileOffsets") /\ Field("TileOffsets").count = 1
          => Value("TileOffsets") = Upload(v).offset[0]
    BY <1>1, <1>2 DEF Stored, Upload, Inline, Field, Value
  <2>2. Inline("TileByteCounts") /\ Field("TileByteCounts").count = 1
          => Value("TileByteCounts") = Upload(v).length[0]
    BY <1>1, <1>2 DEF Stored, Upload, Inline, Field, Value
  <2> QED  BY <2>1, <2>2 DEF IndexEntry
<1>7. Len(raster.uploads) \in Nat \ {0} /\ DOMAIN raster.uploads = 1..Len(raster.uploads)
  BY <1>1 DEF Stored
<1> QED  BY <1>4, <1>5, <1>6, <1>7

(* The window lies on the raster, is not empty, and holds every pixel      *)
(* under the box.                                                          *)
LEMMA WindowIs ==
  ASSUME raster \in Files, box \in Boxes, LayoutRead, MeritLayout, Planned
  PROVE  /\ Across.off \in Nat /\ Across.len \in Nat \ {0} /\ Across.off + Across.len <= Columns
         /\ Down.off \in Nat /\ Down.len \in Nat \ {0} /\ Down.off + Down.len <= Rows
         /\ \A c \in 0..(Columns - 1) :
              OriginX + c * ScaleX < box.east /\ box.west < OriginX + (c + 1) * ScaleX
                => Across.off <= c /\ c < Across.off + Across.len
         /\ \A r \in 0..(Rows - 1) :
              OriginY - r * ScaleY > box.south /\ box.north > OriginY - (r + 1) * ScaleY
                => Down.off <= r /\ r < Down.off + Down.len
<1>1. /\ Columns \in Nat /\ Rows \in Nat /\ OriginX \in Int /\ OriginY \in Int
      /\ ScaleX \in Nat \ {0} /\ ScaleY \in Nat \ {0}
  BY HeaderIs DEF Planned, NorthUp
<1>2. box.west \in Int /\ box.east \in Int /\ box.south \in Int /\ box.north \in Int
  BY CogWindowAssumption
<1> DEFINE w == box.west - OriginX
           e == box.east - OriginX
           n == OriginY - box.north
           s == OriginY - box.south
<1>3. w \in Int /\ e \in Int /\ n \in Int /\ s \in Int
  BY <1>1, <1>2
<1>4. Across = Span(w, e, ScaleX, Columns) /\ Down = Span(n, s, ScaleY, Rows)
  BY DEF Across, Down
<1> HIDE DEF w, e, n, s
<1>5. /\ Across.off \in Nat /\ Across.len \in Nat /\ Across.off + Across.len <= Columns
      /\ \A c \in 0..(Columns - 1) :
           ScaleX * c < e /\ w < ScaleX * (c + 1) => Across.off <= c /\ c < Across.off + Across.len
  BY <1>1, <1>3, <1>4, SpanIs
<1>6. /\ Down.off \in Nat /\ Down.len \in Nat /\ Down.off + Down.len <= Rows
      /\ \A r \in 0..(Rows - 1) :
           ScaleY * r < s /\ n < ScaleY * (r + 1) => Down.off <= r /\ r < Down.off + Down.len
  BY <1>1, <1>3, <1>4, SpanIs
<1>7. Across.len # 0 /\ Down.len # 0
  BY DEF Planned
<1>8. ASSUME NEW c \in 0..(Columns - 1),
             OriginX + c * ScaleX < box.east, box.west < OriginX + (c + 1) * ScaleX
      PROVE  Across.off <= c /\ c < Across.off + Across.len
  <2>1. /\ ScaleX * c \in Int /\ ScaleX * (c + 1) \in Int
        /\ c * ScaleX = ScaleX * c /\ (c + 1) * ScaleX = ScaleX * (c + 1)
    BY <1>1, Product
  <2>2. ScaleX * c < e /\ w < ScaleX * (c + 1)
    BY <1>1, <1>2, <1>8, <2>1 DEF e, w
  <2> QED  BY <1>5, <2>2
<1>9. ASSUME NEW r \in 0..(Rows - 1),
             OriginY - r * ScaleY > box.south, box.north > OriginY - (r + 1) * ScaleY
      PROVE  Down.off <= r /\ r < Down.off + Down.len
  <2>1. /\ ScaleY * r \in Int /\ ScaleY * (r + 1) \in Int
        /\ r * ScaleY = ScaleY * r /\ (r + 1) * ScaleY = ScaleY * (r + 1)
    BY <1>1, Product
  <2>2. ScaleY * r < s /\ n < ScaleY * (r + 1)
    BY <1>1, <1>2, <1>9, <2>1 DEF n, s
  <2> QED  BY <1>6, <2>2
<1> QED  BY <1>5, <1>6, <1>7, <1>8, <1>9

LEMMA TileOfPixel ==
  ASSUME NEW c \in Nat, NEW pixels \in Nat, c < pixels
  PROVE  /\ c \div Side \in Nat /\ Side * (c \div Side) \in Nat
         /\ Side * (c \div Side) <= c /\ c < Side * (c \div Side) + Side
         /\ c \div Side < Ceiling(pixels, Side)
<1> DEFINE q == c \div Side
           x == Side * q
<1>1. q \in Int /\ x \in Int /\ c % Side \in 0..(Side - 1) /\ c = x + (c % Side)
  BY IntDivMod, Product, SideIs
<1>2. q >= 0
  <2> SUFFICES ASSUME q < 0 PROVE FALSE
    BY <1>1
  <2>1. x + Side <= Side * 0
    BY <1>1, Product, SideIs
  <2>2. Side * 0 = 0
    BY SideIs
  <2> HIDE DEF q, x
  <2> QED  BY <1>1, <2>1, <2>2, SideIs
<1>3. x >= 0
  <2>1. Side * 0 <= x
    BY <1>1, <1>2, Product, SideIs
  <2> QED  BY <2>1, SideIs
<1>4. q < Ceiling(pixels, Side)
  <2>1. Side * q < pixels
    BY <1>1
  <2> HIDE DEF q
  <2> QED  BY <1>1, <2>1, CeilingIs, SideIs
<1> HIDE DEF q, x
<1>5. x <= c /\ c < x + Side
  BY <1>1, SideIs
<1> QED  BY <1>1, <1>2, <1>3, <1>4, <1>5 DEF q, x

(* The tiles along an axis are those that hold a pixel of the span.        *)
LEMMA TileAxisIs ==
  ASSUME NEW span, NEW pixels \in Nat, span.off \in Nat, span.len \in Nat \ {0}, span.off + span.len <= pixels
  PROVE  LET lo == span.off \div Side
             hi == (span.off + span.len - 1) \div Side IN
         /\ lo \in Nat /\ hi \in Nat /\ lo <= hi /\ hi < Ceiling(pixels, Side)
         /\ TileAxis(span) = lo..hi
         /\ Cardinality(TileAxis(span)) = hi - lo + 1 /\ Min(TileAxis(span)) = lo
         /\ \A c \in span.off..(span.off + span.len - 1) : c \div Side \in lo..hi
         /\ \A x \in lo..hi : \E c \in span.off..(span.off + span.len - 1) : c \div Side = x
<1> DEFINE first == span.off
           last == span.off + span.len - 1
           lo == first \div Side
           hi == last \div Side
<1>1. first \in Nat /\ last \in Nat /\ first <= last /\ last < pixels
  OBVIOUS
<1>2. TileAxis(span) = lo..hi
  BY DEF TileAxis
<1> HIDE DEF first, last
<1>3. /\ lo \in Nat /\ Side * lo \in Nat /\ Side * lo <= first /\ first < Side * lo + Side
      /\ hi \in Nat /\ Side * hi \in Nat /\ Side * hi <= last /\ last < Side * hi + Side
      /\ hi < Ceiling(pixels, Side)
  <2>1. first < pixels
    BY <1>1
  <2> QED  BY <1>1, <2>1, TileOfPixel
<1>4. ASSUME NEW c \in first..last PROVE c \div Side \in lo..hi
  <2> DEFINE q == c \div Side
  <2>1. c \in Nat /\ c < pixels
    BY <1>1
  <2>2. q \in Nat /\ Side * q \in Nat /\ Side * q <= c /\ c < Side * q + Side
    BY <2>1, TileOfPixel
  <2> HIDE DEF q, lo, hi
  <2>3. ASSUME q < lo PROVE FALSE
    <3>1. Side * q + Side <= Side * lo
      BY <1>3, <2>2, <2>3, Product, SideIs
    <3> QED  BY <1>1, <1>3, <2>2, <3>1, SideIs
  <2>4. ASSUME q > hi PROVE FALSE
    <3>1. Side * hi + Side <= Side * q
      BY <1>3, <2>2, <2>4, Product, SideIs
    <3> QED  BY <1>1, <1>3, <2>2, <3>1, SideIs
  <2>5. q \in lo..hi
    BY <1>3, <2>2, <2>3, <2>4
  <2> QED  BY <2>5 DEF q
<1>5. lo <= hi
  BY <1>1, <1>3, <1>4
<1>6. Min(lo..hi) = lo
  <2> HIDE DEF lo, hi
  <2>1. lo \in lo..hi /\ \A y \in lo..hi : lo <= y
    BY <1>3, <1>5
  <2>2. \A x \in lo..hi : (\A y \in lo..hi : x <= y) => x = lo
    BY <1>3, <2>1
  <2> QED  BY <2>1, <2>2 DEF Min
<1>7. Cardinality(lo..hi) = hi - lo + 1
  <2> HIDE DEF lo, hi
  <2> QED  BY <1>3, <1>5, FS_Interval
<1>8. ASSUME NEW x \in lo..hi PROVE \E c \in first..last : c \div Side = x
  <2>1. CASE x = lo
    BY <1>1, <2>1
  <2>2. CASE x # lo
    <3> DEFINE c == Side * x
    <3>1. x \in Nat /\ lo < x /\ x <= hi
      BY <1>3, <2>2
    <3>2. c \in Int /\ Side * lo + Side <= c /\ c <= Side * hi
      <4> HIDE DEF lo, hi
      <4> QED  BY <1>3, <3>1, Product, SideIs
    <3>3. c \div Side = x
      <4>1. c \in Int /\ c = Side * x + 0
        BY <3>2
      <4>2. 0 \in 0..(Side - 1)
        BY SideIs
      <4> HIDE DEF c, lo, hi
      <4> QED  BY <3>1, <4>1, <4>2, DivUnique, SideIs
    <3> HIDE DEF c, lo, hi
    <3>4. c \in first..last
      BY <1>1, <1>3, <3>2, SideIs
    <3> QED  BY <3>3, <3>4
  <2> QED  BY <2>1, <2>2
<1> QED  BY <1>2, <1>3, <1>4, <1>5, <1>6, <1>7, <1>8 DEF first, last

-----------------------------------------------------------------------------
(* The tiles of the plan.  A tile is its column and its row on the grid.   *)
At(x, y) == y * TilesAcross + x

TileCols == (Across.off \div Side)..((Across.off + Across.len - 1) \div Side)
TileRows == (Down.off \div Side)..((Down.off + Down.len - 1) \div Side)

LEMMA AtIs ==
  ASSUME TilesAcross \in Int, TilesDown \in Int,
         NEW x \in Nat, x < TilesAcross, NEW y \in Nat, y < TilesDown
  PROVE  /\ At(x, y) \in Grid /\ At(x, y) % TilesAcross = x /\ At(x, y) \div TilesAcross = y
         /\ TileX(At(x, y)) = Side * x /\ TileY(At(x, y)) = Side * y
<1> DEFINE A == TilesAcross
           D == TilesDown
<1> HIDE DEF A, D
<1>1. A \in Nat \ {0} /\ D \in Nat \ {0} /\ x < A /\ y < D
  BY DEF A, D
<1>2. At(x, y) = A * y + x
  <2>1. y * A = A * y
    BY <1>1, Z3
  <2> QED  BY <2>1 DEF At, A
<1>3. A * y \in Int /\ A * 0 <= A * y /\ A * y + A <= A * D /\ A * 0 = 0 /\ A * D \in Int
  BY <1>1, Product
<1>4. At(x, y) \in Grid
  BY <1>1, <1>2, <1>3 DEF Grid, A, D
<1>5. At(x, y) % A = x /\ At(x, y) \div A = y
  <2>1. At(x, y) \in Int
    BY <1>1, <1>2, <1>3
  <2>2. x \in 0..(A - 1)
    BY <1>1
  <2> QED  BY <1>1, <1>2, <2>1, <2>2, DivUnique
<1>6. x * Side = Side * x /\ y * Side = Side * y
  BY Z3, SideIs
<1> QED  BY <1>4, <1>5, <1>6 DEF TileX, TileY, A

LEMMA PlanIs ==
  ASSUME raster \in Files, box \in Boxes, LayoutRead, MeritLayout, Planned
  PROVE  /\ Len(Plan) \in Nat \ {0} /\ DOMAIN Plan = 1..Len(Plan)
         /\ \A k \in DOMAIN Plan : \E x \in TileCols, y \in TileRows : Plan[k] = At(x, y)
         /\ \A x \in TileCols, y \in TileRows : \E k \in DOMAIN Plan : Plan[k] = At(x, y)
         /\ \A k, l \in DOMAIN Plan : Plan[k] = Plan[l] => k = l
         /\ \A x \in TileCols : x \in Nat /\ x < TilesAcross
         /\ \A y \in TileRows : y \in Nat /\ y < TilesDown
         /\ \A x \in TileCols : \E c \in Across.off..(Across.off + Across.len - 1) : c \div Side = x
         /\ \A y \in TileRows : \E r \in Down.off..(Down.off + Down.len - 1) : r \div Side = y
         /\ \A c \in Across.off..(Across.off + Across.len - 1) : c \div Side \in TileCols
         /\ \A r \in Down.off..(Down.off + Down.len - 1) : r \div Side \in TileRows
<1> DEFINE lo == Across.off \div Side
           hi == (Across.off + Across.len - 1) \div Side
           lw == Down.off \div Side
           hw == (Down.off + Down.len - 1) \div Side
           n == hi - lo + 1
           m == hw - lw + 1
           A == TilesAcross
<1>1. Columns \in Nat /\ Rows \in Nat /\ A \in Int /\ TilesDown \in Int
  BY HeaderIs
<1>2. /\ Across.off \in Nat /\ Across.len \in Nat \ {0} /\ Across.off + Across.len <= Columns
      /\ Down.off \in Nat /\ Down.len \in Nat \ {0} /\ Down.off + Down.len <= Rows
  BY WindowIs
<1>3. /\ lo \in Nat /\ hi \in Nat /\ lo <= hi /\ hi < A
      /\ TileAxis(Across) = lo..hi /\ Cardinality(TileAxis(Across)) = n /\ Min(TileAxis(Across)) = lo
      /\ \A c \in Across.off..(Across.off + Across.len - 1) : c \div Side \in lo..hi
      /\ \A x \in lo..hi : \E c \in Across.off..(Across.off + Across.len - 1) : c \div Side = x
  BY <1>1, <1>2, TileAxisIs DEF TilesAcross
<1>4. /\ lw \in Nat /\ hw \in Nat /\ lw <= hw /\ hw < TilesDown
      /\ TileAxis(Down) = lw..hw /\ Cardinality(TileAxis(Down)) = m /\ Min(TileAxis(Down)) = lw
      /\ \A r \in Down.off..(Down.off + Down.len - 1) : r \div Side \in lw..hw
      /\ \A y \in lw..hw : \E r \in Down.off..(Down.off + Down.len - 1) : r \div Side = y
  BY <1>1, <1>2, TileAxisIs DEF TilesDown
<1> DEFINE Along == \A c \in Across.off..(Across.off + Across.len - 1) : c \div Side \in lo..hi
           Filled == \A x \in lo..hi : \E c \in Across.off..(Across.off + Across.len - 1) : c \div Side = x
           Below == \A r \in Down.off..(Down.off + Down.len - 1) : r \div Side \in lw..hw
           Reached == \A y \in lw..hw : \E r \in Down.off..(Down.off + Down.len - 1) : r \div Side = y
<1>5. Along /\ Filled /\ Below /\ Reached
  BY <1>3, <1>4
<1>6. lo \in Nat /\ hi \in Nat /\ lo <= hi /\ hi < A
  BY <1>3
<1>7. lw \in Nat /\ hw \in Nat /\ lw <= hw /\ hw < TilesDown
  BY <1>4
<1>8. Plan = [k \in 1..(n * m) |-> (lw + ((k - 1) \div n)) * A + lo + ((k - 1) % n)]
  BY <1>3, <1>4 DEF Plan
<1>9. TileCols = lo..hi /\ TileRows = lw..hw
  BY DEF TileCols, TileRows
<1> HIDE DEF lo, hi, lw, hw, A, Along, Filled, Below, Reached
<1>10. n \in Nat \ {0} /\ m \in Nat \ {0}
  BY <1>6, <1>7
<1>11. \A x \in lo..hi : x \in Nat /\ x < A
  BY <1>1, <1>6
<1>12. \A y \in lw..hw : y \in Nat /\ y < TilesDown
  BY <1>1, <1>7
<1> DEFINE Q(k) == (k - 1) \div n
           R(k) == (k - 1) % n
<1>13. n * m \in Nat \ {0} /\ n * 0 = 0
  BY <1>10, Z3
<1>14. \A k \in 1..(n * m) :
         /\ Q(k) \in 0..(m - 1) /\ R(k) \in 0..(n - 1) /\ k - 1 = n * Q(k) + R(k)
         /\ lo + R(k) \in lo..hi /\ lw + Q(k) \in lw..hw /\ Plan[k] = At(lo + R(k), lw + Q(k))
  <2> TAKE k \in 1..(n * m)
  <2> DEFINE q == Q(k)
             r == R(k)
  <2>1. k - 1 \in Nat /\ k - 1 < n * m
    BY <1>13
  <2>2. q \in Int /\ r \in 0..(n - 1) /\ k - 1 = n * q + r
    <3>1. k - 1 \in Int
      BY <2>1
    <3> HIDE DEF n
    <3> QED  BY <1>10, <3>1, IntDivMod
  <2>3. Plan[k] = (lw + q) * A + lo + r
    BY <1>8
  <2> HIDE DEF q, r
  <2>4. n * q \in Int /\ (q < 0 => n * q + n <= n * 0) /\ (m <= q => n * m <= n * q)
    <3>1. 0 \in Int /\ m \in Int /\ n \in Nat /\ n # 0
      BY <1>10
    <3> HIDE DEF n, m
    <3> QED  BY <2>2, <3>1, Product
  <2>5. q \in 0..(m - 1)
    <3> HIDE DEF n, m
    <3> QED  BY <1>10, <1>13, <2>1, <2>2, <2>4
  <2>6. lo + r \in lo..hi /\ lw + q \in lw..hw
    BY <1>6, <1>7, <2>2, <2>5
  <2>7. Plan[k] = At(lo + r, lw + q)
    <3>1. (lw + q) * A \in Int
      BY <1>1, <1>7, <2>2 DEF A
    <3> DEFINE z == (lw + q) * A
    <3>2. At(lo + r, lw + q) = z + (lo + r)
      BY DEF At, A
    <3> HIDE DEF z
    <3> QED  BY <1>6, <2>2, <2>3, <3>1, <3>2 DEF z
  <2> QED  BY <2>2, <2>5, <2>6, <2>7 DEF q, r
<1>15. ASSUME NEW x \in lo..hi, NEW y \in lw..hw
       PROVE  \E k \in 1..(n * m) : Plan[k] = At(x, y)
  <2> DEFINE q == y - lw
             r == x - lo
             k == n * q + r + 1
  <2>1. q \in 0..(m - 1) /\ r \in 0..(n - 1)
    BY <1>6, <1>7
  <2>2. n * q \in Int /\ n * 0 <= n * q /\ n * q + n <= n * m
    <3>1. 0 \in Int /\ m \in Int /\ n \in Nat /\ n # 0 /\ q \in Int /\ 0 <= q /\ q < m
      BY <1>10, <2>1
    <3> HIDE DEF n, m, q
    <3> QED  BY <3>1, Product
  <2>3. lo + r = x /\ lw + q = y
    BY <1>6, <1>7
  <2> HIDE DEF q, r
  <2>4. k \in 1..(n * m) /\ k - 1 = n * q + r
    <3> HIDE DEF n, m
    <3> QED  BY <1>10, <1>13, <2>1, <2>2
  <2>5. Q(k) = q /\ R(k) = r
    <3>1. k - 1 \in Int
      BY <2>4
    <3> HIDE DEF k, n, m
    <3>2. (k - 1) \div n = q /\ (k - 1) % n = r
      BY <1>10, <2>1, <2>4, <3>1, DivUnique
    <3> QED  BY <3>2
  <2> HIDE DEF k, Q, R
  <2> QED  BY <1>14, <2>3, <2>4, <2>5
<1>16. ASSUME NEW k \in 1..(n * m), NEW l \in 1..(n * m), Plan[k] = Plan[l]
       PROVE  k = l
  <2> HIDE DEF Q, R, n, m
  <2>1. /\ lo + R(k) \in Nat /\ lo + R(k) < TilesAcross /\ lw + Q(k) \in Nat /\ lw + Q(k) < TilesDown
        /\ lo + R(l) \in Nat /\ lo + R(l) < TilesAcross /\ lw + Q(l) \in Nat /\ lw + Q(l) < TilesDown
    BY <1>11, <1>12, <1>14 DEF A
  <2>2. /\ At(lo + R(k), lw + Q(k)) % TilesAcross = lo + R(k)
        /\ At(lo + R(k), lw + Q(k)) \div TilesAcross = lw + Q(k)
    BY <1>1, <2>1, AtIs DEF A
  <2>3. /\ At(lo + R(l), lw + Q(l)) % TilesAcross = lo + R(l)
        /\ At(lo + R(l), lw + Q(l)) \div TilesAcross = lw + Q(l)
    BY <1>1, <2>1, AtIs DEF A
  <2>4. lo + R(k) = lo + R(l) /\ lw + Q(k) = lw + Q(l)
    BY <1>14, <1>16, <2>2, <2>3
  <2>5. R(k) = R(l) /\ Q(k) = Q(l)
    <3>1. R(k) \in Int /\ R(l) \in Int /\ Q(k) \in Int /\ Q(l) \in Int
      BY <1>10, <1>14
    <3> QED  BY <1>6, <1>7, <2>4, <3>1
  <2>6. k - 1 = l - 1
    BY <1>14, <2>5
  <2> QED  BY <2>6
<1> HIDE DEF n, m, Q, R
<1>17. Len(Plan) = n * m /\ DOMAIN Plan = 1..(n * m)
  <2> DEFINE E(k) == (lw + ((k - 1) \div n)) * A + lo + ((k - 1) % n)
  <2>1. Plan = [k \in 1..(n * m) |-> E(k)]
    BY <1>8
  <2> HIDE DEF E
  <2> QED  BY <1>13, <2>1
<1>18. \A k \in DOMAIN Plan : \E x \in TileCols, y \in TileRows : Plan[k] = At(x, y)
  BY <1>9, <1>14, <1>17
<1>19. \A x \in TileCols, y \in TileRows : \E k \in DOMAIN Plan : Plan[k] = At(x, y)
  BY <1>9, <1>15, <1>17
<1>20. \A k, l \in DOMAIN Plan : Plan[k] = Plan[l] => k = l
  BY <1>16, <1>17
<1>21. /\ \A x \in TileCols : x \in Nat /\ x < TilesAcross
       /\ \A y \in TileRows : y \in Nat /\ y < TilesDown
  BY <1>9, <1>11, <1>12 DEF A
<1>22. Len(Plan) \in Nat \ {0} /\ DOMAIN Plan = 1..Len(Plan)
  BY <1>13, <1>17
<1>23. /\ \A x \in TileCols : \E c \in Across.off..(Across.off + Across.len - 1) : c \div Side = x
       /\ \A y \in TileRows : \E r \in Down.off..(Down.off + Down.len - 1) : r \div Side = y
       /\ \A c \in Across.off..(Across.off + Across.len - 1) : c \div Side \in TileCols
       /\ \A r \in Down.off..(Down.off + Down.len - 1) : r \div Side \in TileRows
  BY <1>9, <1>5 DEF Along, Filled, Below, Reached
<1> QED  BY <1>18, <1>19, <1>20, <1>21, <1>22, <1>23

-----------------------------------------------------------------------------
(* Undoing a predictor. *)

LEMMA LeastNatural ==
  ASSUME NEW S \in SUBSET Nat, S # {}
  PROVE  \E m \in S : \A n \in S : m <= n
<1> DEFINE R == OpToRel(<, Nat)
<1>1. \A x, y \in Nat : <<x, y>> \in R <=> x < y
  BY DEF OpToRel
<1>2. IsWellFoundedOn(R, Nat)
  BY NatLessThanWellFounded
<1> HIDE DEF R
<1>3. PICK m \in S : \A n \in S : ~ (<<n, m>> \in R)
  BY <1>2, WFMin
<1>4. m \in Nat /\ \A n \in S : n \in Nat /\ ~ (n < m)
  BY <1>1, <1>3
<1>5. \A n \in S : m <= n
  BY <1>4
<1> QED  BY <1>5


(* Sums modulo m of differences modulo m are the values they are of.       *)
LEMMA UndoneIs ==
  ASSUME NEW m \in {4, 16}, NEW n \in Nat \ {0}, NEW f \in [1..n -> 0..(m - 1)],
         NEW row, row = [i \in 1..n |-> IF i = 1 THEN f[1] ELSE (f[i] - f[i - 1]) % m]
  PROVE  Undone(row, m) = f
<1> DEFINE Sums(s) == s = [i \in DOMAIN row |-> IF i = 1 THEN row[1] ELSE (s[i - 1] + row[i]) % m]
           sum == Undone(row, m)
<1>1. \A i \in 2..n : f[i] \in 0..(m - 1) /\ f[i - 1] \in 0..(m - 1)
  OBVIOUS
<1>2. \A a, b \in 0..(m - 1) : (a + ((b - a) % m)) % m = b
  <2> TAKE a, b \in 0..(m - 1)
  <2> DEFINE q == (b - a) \div m
             r == (b - a) % m
  <2>1. m \in Nat \ {0} /\ a \in 0..(m - 1) /\ b \in 0..(m - 1) /\ b - a \in Int
    OBVIOUS
  <2>2. q \in Int /\ r \in 0..(m - 1) /\ b - a = (m * q) + r
    <3> HIDE DEF q, r
    <3> QED  BY <2>1, IntDivMod DEF q, r
  <2> HIDE DEF q, r
  <2>3. a + r = (m * (-q)) + b
    <3>1. m = 4 \/ m = 16
      OBVIOUS
    <3> QED  BY <2>1, <2>2, <3>1
  <2>4. (a + r) % m = b
    <3>1. a + r \in Int /\ -q \in Int
      BY <2>1, <2>2
    <3> QED  BY <2>1, <2>3, <3>1, DivUnique
  <2> QED  BY <2>4 DEF r
<1>3. DOMAIN row = 1..n /\ row[1] = f[1] /\ \A i \in 2..n : row[i] = (f[i] - f[i - 1]) % m
  <2>1. 1 \in 1..n
    OBVIOUS
  <2> QED  BY <2>1
<1>4. \A i \in 2..n : f[i] = (f[i - 1] + row[i]) % m
  <2> TAKE i \in 2..n
  <2>1. f[i] \in 0..(m - 1) /\ f[i - 1] \in 0..(m - 1) /\ row[i] = (f[i] - f[i - 1]) % m
    BY <1>1, <1>3
  <2> QED  BY <1>2, <2>1
<1>5. Sums(f)
  <2> DEFINE g == [i \in 1..n |-> IF i = 1 THEN row[1] ELSE (f[i - 1] + row[i]) % m]
  <2>1. \A i \in 1..n : f[i] = g[i]
    <3> TAKE i \in 1..n
    <3>1. CASE i = 1
      BY <1>3, <3>1
    <3>2. CASE i # 1
      <4>1. i \in 2..n
        BY <3>2
      <4> QED  BY <1>4, <3>2, <4>1
    <3> QED  BY <3>1, <3>2
  <2>2. f = g
    BY <2>1
  <2> QED  BY <1>3, <2>2
<1>6. Sums(sum)
  <2>1. sum = CHOOSE s : Sums(s)
    BY DEF Undone
  <2> HIDE DEF Sums, sum
  <2> QED  BY <1>5, <2>1
<1>7. /\ sum = [i \in 1..n |-> sum[i]] /\ sum[1] = f[1]
      /\ \A i \in 2..n : sum[i] = (sum[i - 1] + row[i]) % m
  <2> HIDE DEF sum
  <2>1. 1 \in 1..n
    OBVIOUS
  <2>2. sum = [i \in 1..n |-> IF i = 1 THEN row[1] ELSE (sum[i - 1] + row[i]) % m]
    BY <1>3, <1>6
  <2>3. sum[1] = f[1] /\ DOMAIN sum = 1..n
    BY <1>3, <2>1, <2>2
  <2>4. \A i \in 2..n : sum[i] = (sum[i - 1] + row[i]) % m
    <3> TAKE i \in 2..n
    <3>1. i \in 1..n /\ i # 1
      OBVIOUS
    <3> QED  BY <2>2, <3>1
  <2>5. sum = [i \in 1..n |-> sum[i]]
    BY <2>2, <2>3
  <2> QED  BY <2>3, <2>4, <2>5
<1> HIDE DEF sum, Sums
<1> DEFINE Odd == {i \in 1..n : sum[i] # f[i]}
<1>8. Odd = {}
  <2> SUFFICES ASSUME Odd # {} PROVE FALSE
    OBVIOUS
  <2>1. PICK i \in Odd : \A j \in Odd : i <= j
    <3>1. Odd \in SUBSET Nat
      OBVIOUS
    <3> HIDE DEF Odd
    <3> QED  BY <3>1, LeastNatural
  <2>2. i \in 1..n /\ sum[i] # f[i] /\ i # 1
    BY <1>7, <2>1
  <2> HIDE DEF Odd
  <2>3. i \in 2..n /\ i - 1 \in 1..n /\ i - 1 \notin Odd
    <3>1. i \in 2..n /\ i - 1 \in 1..n /\ ~(i <= i - 1)
      BY <2>2
    <3> QED  BY <2>1, <3>1
  <2>4. sum[i - 1] = f[i - 1]
    BY <2>3 DEF Odd
  <2>5. sum[i] = (sum[i - 1] + row[i]) % m
    BY <1>7, <2>3
  <2>6. f[i] = (f[i - 1] + row[i]) % m
    BY <1>4, <2>3
  <2> QED  BY <2>2, <2>4, <2>5, <2>6
<1>9. \A i \in 1..n : sum[i] = f[i]
  BY <1>8
<1>10. f = [i \in 1..n |-> f[i]]
  OBVIOUS
<1>11. sum = f
  BY <1>7, <1>9, <1>10
<1> QED  BY <1>11 DEF sum

(* What a row was packed from is what it unpacks to, padding included.     *)
LEMMA RowRestored ==
  ASSUME Value("Predictor") \in {1, 2, 3}, NEW row \in [1..Side -> 0..15]
  PROVE  Unpacked(Packed(row)) = row
<1>1. Side \in Nat \ {0}
  BY SideIs
<1>2. CASE Value("Predictor") = 1
  BY <1>2 DEF Unpacked, Packed
<1>3. CASE Value("Predictor") = 2
  <2> DEFINE packed == [c \in 1..Side |-> IF c = 1 THEN row[1] ELSE (row[c] - row[c - 1]) % 16]
  <2>1. Packed(row) = packed
    BY <1>3 DEF Packed
  <2>2. Undone(packed, 16) = row
    <3>1. row \in [1..Side -> 0..(16 - 1)]
      OBVIOUS
    <3> QED  BY <1>1, <3>1, UndoneIs
  <2> HIDE DEF packed
  <2> QED  BY <1>3, <2>1, <2>2 DEF Unpacked
<1>4. CASE Value("Predictor") = 3
  <2> DEFINE Byte(i) == IF i <= Side THEN row[i] \div 4 ELSE row[i - Side] % 4
             bytes == [i \in 1..(2 * Side) |-> Byte(i)]
             packed == [i \in 1..(2 * Side) |-> IF i = 1 THEN Byte(1) ELSE (Byte(i) - Byte(i - 1)) % 4]
  <2>1. Packed(row) = packed
    BY <1>4 DEF Packed
  <2>2. \A i \in 1..(2 * Side) : Byte(i) \in 0..3
    <3> TAKE i \in 1..(2 * Side)
    <3>1. \A a \in 0..15 : a \div 4 \in 0..3 /\ a % 4 \in 0..3
      BY Z3
    <3>2. i <= Side => row[i] \in 0..15
      BY <1>1
    <3>3. i > Side => row[i - Side] \in 0..15
      BY <1>1
    <3> QED  BY <1>1, <3>1, <3>2, <3>3
  <2>3. \A c \in 1..Side : 4 * Byte(c) + Byte(Side + c) = row[c]
    <3> TAKE c \in 1..Side
    <3>1. \A a \in 0..15 : 4 * (a \div 4) + (a % 4) = a
      BY Z3
    <3>2. c <= Side /\ ~((Side + c) <= Side) /\ (Side + c) - Side = c /\ row[c] \in 0..15
      BY <1>1
    <3>3. Byte(c) = row[c] \div 4 /\ Byte(Side + c) = row[c] % 4
      <4>1. Byte(c) = row[c] \div 4
        BY <3>2
      <4>2. \A d : ~(d <= Side) /\ d - Side = c => Byte(d) = row[c] % 4
        OBVIOUS
      <4> HIDE DEF Byte
      <4> QED  BY <3>2, <4>1, <4>2
    <3> HIDE DEF Byte
    <3> QED  BY <3>1, <3>2, <3>3
  <2> HIDE DEF Byte
  <2>4. Undone(packed, 4) = bytes
    <3>1. bytes \in [1..(2 * Side) -> 0..(4 - 1)] /\ 2 * Side \in Nat \ {0}
      BY <1>1, <2>2
    <3>2. packed = [i \in 1..(2 * Side) |-> IF i = 1 THEN bytes[1] ELSE (bytes[i] - bytes[i - 1]) % 4]
      <4>1. 1 \in 1..(2 * Side) /\ bytes[1] = Byte(1)
        BY <1>1
      <4>2. \A i \in 1..(2 * Side) : i # 1 => bytes[i] = Byte(i) /\ bytes[i - 1] = Byte(i - 1)
        BY <1>1
      <4> QED  BY <4>1, <4>2
    <3> HIDE DEF bytes, packed
    <3> QED  BY <3>1, <3>2, UndoneIs
  <2>5. Unpacked(packed) = [c \in 1..Side |-> 4 * bytes[c] + bytes[Side + c]]
    <3> HIDE DEF packed, bytes
    <3>1. Value("Predictor") # 1 /\ Value("Predictor") # 2
      BY <1>4
    <3> QED  BY <2>4, <3>1 DEF Unpacked
  <2>6. \A c \in 1..Side : bytes[c] = Byte(c) /\ bytes[Side + c] = Byte(Side + c)
    BY <1>1
  <2>7. [c \in 1..Side |-> 4 * bytes[c] + bytes[Side + c]] = row
    <3> HIDE DEF bytes
    <3> QED  BY <2>3, <2>6
  <2> HIDE DEF packed
  <2> QED  BY <2>1, <2>5, <2>7
<1> QED  BY <1>2, <1>3, <1>4

-----------------------------------------------------------------------------
(* The pixels a tile holds, and where they are in what it decodes to.      *)

(* Along an axis, the pixels of a tile that are on the raster.             *)
LEMMA LiveAxis ==
  ASSUME NEW pixels \in Nat, NEW x \in Nat, x < Ceiling(pixels, Side)
  PROVE  LET live == Min({Side, pixels - Side * x}) IN
         /\ Side * x \in Nat /\ live \in 1..Side
         /\ \A c \in Nat : c < pixels /\ c \div Side = x
                             <=> c \in (Side * x)..(Side * x + live - 1)
<1> DEFINE first == Side * x
           live == Min({Side, pixels - first})
<1>1. Side \in Nat \ {0}
  BY SideIs
<1>2. first \in Nat /\ first < pixels
  <2>1. first \in Int /\ Side * 0 <= first /\ Side * 0 = 0
    BY <1>1, Product
  <2>2. first < pixels
    BY <1>1, CeilingIs
  <2> QED  BY <2>1, <2>2
<1>3. live = IF Side <= pixels - first THEN Side ELSE pixels - first
  <2> HIDE DEF first
  <2>1. Side \in Int /\ pixels - first \in Int
    BY <1>1, <1>2
  <2> QED  BY <2>1, MinMaxTwo
<1>4. live \in 1..Side
  <2> HIDE DEF first, live
  <2> QED  BY <1>1, <1>2, <1>3
<1>5. ASSUME NEW c \in Nat, c < pixels, c \div Side = x
      PROVE  c \in first..(first + live - 1)
  <2>1. first <= c /\ c < first + Side
    BY <1>5, TileOfPixel
  <2> HIDE DEF first, live
  <2> QED  BY <1>1, <1>2, <1>3, <1>5, <2>1
<1>6. ASSUME NEW c \in Nat, c \in first..(first + live - 1)
      PROVE  c < pixels /\ c \div Side = x
  <2>1. c < pixels /\ c - first \in 0..(Side - 1) /\ c = first + (c - first)
    <3> HIDE DEF first, live
    <3> QED  BY <1>1, <1>2, <1>3, <1>6
  <2>2. c \div Side = x
    BY <1>1, <2>1, DivUnique
  <2> QED  BY <2>1, <2>2
<1> QED  BY <1>2, <1>4, <1>5, <1>6

LEMMA LiveIs ==
  ASSUME raster \in Files, LayoutRead, MeritLayout,
         NEW x \in Nat, x < TilesAcross, NEW y \in Nat, y < TilesDown
  PROVE  LET t == At(x, y) IN
         /\ TileX(t) \in Nat /\ TileY(t) \in Nat /\ LiveWidth(t) \in 1..Side /\ LiveHeight(t) \in 1..Side
         /\ \A c \in Nat : c < Columns /\ c \div Side = x
                             <=> c \in TileX(t)..(TileX(t) + LiveWidth(t) - 1)
         /\ \A r \in Nat : r < Rows /\ r \div Side = y
                             <=> r \in TileY(t)..(TileY(t) + LiveHeight(t) - 1)
<1> DEFINE t == At(x, y)
<1>1. Columns \in Nat /\ Rows \in Nat /\ TilesAcross \in Int /\ TilesDown \in Int
  BY HeaderIs
<1>2. TileX(t) = Side * x /\ TileY(t) = Side * y
  BY <1>1, AtIs
<1> HIDE DEF t
<1>3. /\ TileX(t) \in Nat /\ LiveWidth(t) \in 1..Side
      /\ \A c \in Nat : c < Columns /\ c \div Side = x
                          <=> c \in TileX(t)..(TileX(t) + LiveWidth(t) - 1)
  <2> DEFINE live == Min({Side, Columns - Side * x})
  <2>1. LiveWidth(t) = live
    BY <1>2 DEF LiveWidth
  <2>2. /\ Side * x \in Nat /\ live \in 1..Side
        /\ \A c \in Nat : c < Columns /\ c \div Side = x <=> c \in (Side * x)..(Side * x + live - 1)
    BY <1>1, LiveAxis DEF TilesAcross
  <2> HIDE DEF live
  <2> QED  BY <1>2, <2>1, <2>2
<1>4. /\ TileY(t) \in Nat /\ LiveHeight(t) \in 1..Side
      /\ \A r \in Nat : r < Rows /\ r \div Side = y
                          <=> r \in TileY(t)..(TileY(t) + LiveHeight(t) - 1)
  <2> DEFINE live == Min({Side, Rows - Side * y})
  <2>1. LiveHeight(t) = live
    BY <1>2 DEF LiveHeight
  <2>2. /\ Side * y \in Nat /\ live \in 1..Side
        /\ \A r \in Nat : r < Rows /\ r \div Side = y <=> r \in (Side * y)..(Side * y + live - 1)
    BY <1>1, LiveAxis DEF TilesDown
  <2> HIDE DEF live
  <2> QED  BY <1>2, <2>1, <2>2
<1> QED  BY <1>3, <1>4 DEF t

(* What a decoded sample becomes.                                          *)
Converted(x) == IF Sample = "i32" /\ x = Nodata THEN NaN ELSE Number(x)

(* The chunk of a tile, decoded as another or as the same tile, gives the  *)
(* samples of its rows: the predictor, the padding and the width of an     *)
(* edge tile leave no trace.                                               *)
LEMMA DecodedIs ==
  ASSUME raster \in Files, LayoutRead, MeritLayout,
         NEW x \in Nat, x < TilesAcross, NEW y \in Nat, y < TilesDown,
         NEW v \in DOMAIN raster.uploads, NEW u,
         NEW c \in Nat, c < Columns, c \div Side = x,
         NEW r \in Nat, r < Rows, r \div Side = y
  PROVE  LET t == At(x, y)
             pixel == Padded(v, u, r - TileY(t) + 1)[c - TileX(t) + 1]
         IN /\ pixel \in 0..15
            /\ u = t => pixel = Upload(v).pixels[<<c, r>>]
            /\ Decoded(t, Encoded(v, u))[((r - TileY(t)) * LiveWidth(t)) + (c - TileX(t)) + 1]
                 = Converted(pixel)
<1> DEFINE t == At(x, y)
           W == LiveWidth(t)
           H == LiveHeight(t)
           b == r - TileY(t)
           a == c - TileX(t)
           i == (b * W) + a + 1
           pixel == Padded(v, u, b + 1)[a + 1]
           row == Padded(v, u, 1 + b)
<1>1. /\ TileX(t) \in Nat /\ TileY(t) \in Nat /\ W \in 1..Side /\ H \in 1..Side
      /\ c \in TileX(t)..(TileX(t) + W - 1) /\ r \in TileY(t)..(TileY(t) + H - 1)
  BY LiveIs
<1>2. Side \in Nat \ {0} /\ Columns \in Nat /\ Rows \in Nat /\ Value("Predictor") \in {1, 2, 3}
  BY HeaderIs, SideIs
<1>3. /\ Upload(v).pixels \in [(0..(Columns - 1)) \X (0..(Rows - 1)) -> 0..15]
  BY UploadIs
<1> HIDE DEF t, W, H
<1>4. a \in 0..(W - 1) /\ b \in 0..(H - 1) /\ W \in Nat \ {0} /\ H \in Nat \ {0}
  <2>1. \A f \in Nat, n \in 1..Side, d \in Nat : d \in f..(f + n - 1) => d - f \in 0..(n - 1) /\ n \in Nat \ {0}
    BY <1>2
  <2> QED  BY <1>1, <2>1
<1>5. TileX(t) + (1 + a) - 1 = c /\ TileY(t) + (1 + b) - 1 = r /\ 1 + a \in 1..Side /\ 1 + b \in 1..Side
  <2>1. a + TileX(t) = c /\ b + TileY(t) = r
    BY <1>1
  <2> HIDE DEF a, b
  <2>2. TileX(t) \in Int /\ TileY(t) \in Int /\ a \in Int /\ b \in Int
    BY <1>1, <1>4
  <2>3. TileX(t) + (1 + a) - 1 = c
    BY <2>1, <2>2
  <2>4. TileY(t) + (1 + b) - 1 = r
    BY <2>1, <2>2
  <2>5. 1 + a \in 1..Side /\ 1 + b \in 1..Side
    BY <1>1, <1>2, <1>4
  <2> QED  BY <2>3, <2>4, <2>5
<1>6. W * b \in Int /\ b * W = W * b /\ W * 0 <= W * b /\ W * 0 = 0 /\ W * b + W <= W * H /\ W * H \in Int
  <2> HIDE DEF a, b
  <2>1. b * W = W * b
    BY <1>4, Z3
  <2>2. 0 \in Int /\ H \in Int /\ b \in Int /\ 0 <= b /\ b < H /\ W # 0 /\ W \in Nat
    BY <1>4
  <2>3. W * 0 = 0
    BY <1>4
  <2> QED  BY <2>1, <2>2, <2>3, Product
<1>7. i \in 1..(W * H) /\ i - 1 = (W * b) + a
  <2> HIDE DEF a, b
  <2> QED  BY <1>4, <1>6
<1>8. (i - 1) \div W = b /\ (i - 1) % W = a
  <2>1. i - 1 \in Int /\ b \in Int
    BY <1>4, <1>7
  <2> HIDE DEF i, a, b
  <2> QED  BY <1>4, <1>7, <2>1, DivUnique
<1> HIDE DEF a, b, i
<1>9. Decoded(t, Encoded(v, u))[i] = Converted(Unpacked(Encoded(v, u)[1 + b])[1 + a])
  BY <1>7, <1>8 DEF Decoded, Converted, W, H
<1>10. Encoded(v, u)[1 + b] = Packed(row)
  BY <1>5 DEF Encoded
<1>11. row \in [1..Side -> 0..15]
  <2>1. row = [d \in 1..Side |-> LET p == <<TileX(u) + d - 1, TileY(u) + (1 + b) - 1>>
                                 IN IF p \in DOMAIN Upload(v).pixels THEN Upload(v).pixels[p] ELSE 0]
    BY DEF Padded
  <2> HIDE DEF row
  <2>2. \A p \in DOMAIN Upload(v).pixels : Upload(v).pixels[p] \in 0..15
    BY <1>3
  <2> QED  BY <2>1, <2>2
<1>12. pixel = row[1 + a] /\ pixel \in 0..15
  <2>1. a + 1 = 1 + a /\ b + 1 = 1 + b
    BY <1>4
  <2> HIDE DEF row, a, b
  <2>2. pixel = row[1 + a]
    BY <2>1 DEF row
  <2> QED  BY <1>5, <1>11, <2>2
<1>13. u = t => pixel = Upload(v).pixels[<<c, r>>]
  <2>1. Padded(v, t, 1 + b)
          = [d \in 1..Side |-> LET p == <<TileX(t) + d - 1, TileY(t) + (1 + b) - 1>>
                               IN IF p \in DOMAIN Upload(v).pixels THEN Upload(v).pixels[p] ELSE 0]
    BY DEF Padded
  <2>2. <<c, r>> \in DOMAIN Upload(v).pixels
    <3>1. c \in 0..(Columns - 1) /\ r \in 0..(Rows - 1)
      BY <1>2
    <3> QED  BY <1>3, <3>1
  <2>3. Padded(v, t, 1 + b)[1 + a] = Upload(v).pixels[<<c, r>>]
    BY <1>5, <2>1, <2>2
  <2> HIDE DEF pixel
  <2> QED  BY <1>12, <2>3
<1>14. Unpacked(Packed(row)) = row
  <2> HIDE DEF row
  <2> QED  BY <1>2, <1>11, RowRestored
<1> HIDE DEF row, pixel
<1>15. Decoded(t, Encoded(v, u))[i] = Converted(pixel)
  BY <1>9, <1>10, <1>12, <1>14
<1> QED  BY <1>12, <1>13, <1>15 DEF i, a, b, W, t, pixel

(* A pixel of the window is copied from the one planned tile that holds it. *)
LEMMA CopiedIs ==
  ASSUME raster \in Files, box \in Boxes, LayoutRead, MeritLayout, Planned, NEW tiles,
         NEW c \in Across.off..(Across.off + Across.len - 1),
         NEW r \in Down.off..(Down.off + Down.len - 1)
  PROVE  \E k \in DOMAIN Plan :
           LET t == At(c \div Side, r \div Side) IN
           /\ Plan[k] = t
           /\ Copied(tiles)[<<c, r>>]
                = tiles[k][((r - TileY(t)) * LiveWidth(t)) + (c - TileX(t)) + 1]
<1> DEFINE x == c \div Side
           y == r \div Side
           t == At(x, y)
           spans == [k \in DOMAIN Plan |-> CopySpan(Plan[k])]
           by == {k \in DOMAIN Plan : c \in spans[k].cols /\ r \in spans[k].rows}
<1>1. /\ Across.off \in Nat /\ Across.len \in Nat /\ Across.off + Across.len <= Columns
      /\ Down.off \in Nat /\ Down.len \in Nat /\ Down.off + Down.len <= Rows
      /\ Columns \in Nat /\ Rows \in Nat
  BY WindowIs, HeaderIs
<1>2. /\ c \in Nat /\ c < Columns /\ Across.off <= c /\ c < Across.off + Across.len
      /\ r \in Nat /\ r < Rows /\ Down.off <= r /\ r < Down.off + Down.len
  BY <1>1
<1>3. x \in TileCols /\ y \in TileRows
  BY PlanIs
<1> HIDE DEF x, y
<1>4. PICK k \in DOMAIN Plan : Plan[k] = t
  BY <1>3, PlanIs
<1>5. k \in Int
  BY PlanIs
<1>6. \A l \in DOMAIN Plan : /\ spans[l].cols = {d \in TileX(Plan[l])..(TileX(Plan[l]) + LiveWidth(Plan[l]) - 1) :
                                                   Across.off <= d /\ d < Across.off + Across.len}
                             /\ spans[l].rows = {d \in TileY(Plan[l])..(TileY(Plan[l]) + LiveHeight(Plan[l]) - 1) :
                                                   Down.off <= d /\ d < Down.off + Down.len}
                             /\ spans[l].srcWidth = LiveWidth(Plan[l])
  BY DEF CopySpan
<1>7. \A u \in TileCols, w \in TileRows :
        c \in TileX(At(u, w))..(TileX(At(u, w)) + LiveWidth(At(u, w)) - 1)
          /\ r \in TileY(At(u, w))..(TileY(At(u, w)) + LiveHeight(At(u, w)) - 1)
        <=> u = x /\ w = y
  <2> TAKE u \in TileCols, w \in TileRows
  <2>1. u \in Nat /\ u < TilesAcross /\ w \in Nat /\ w < TilesDown
    BY PlanIs
  <2>2. c \div Side = u <=> c \in TileX(At(u, w))..(TileX(At(u, w)) + LiveWidth(At(u, w)) - 1)
    BY <1>2, <2>1, LiveIs
  <2>3. r \div Side = w <=> r \in TileY(At(u, w))..(TileY(At(u, w)) + LiveHeight(At(u, w)) - 1)
    BY <1>2, <2>1, LiveIs
  <2> QED  BY <2>2, <2>3 DEF x, y
<1>8. by = {k}
  <2>1. ASSUME NEW l \in DOMAIN Plan
        PROVE  l \in by <=> l = k
    <3>1. PICK u \in TileCols, w \in TileRows : Plan[l] = At(u, w)
      BY PlanIs
    <3>2. l \in by <=> c \in spans[l].cols /\ r \in spans[l].rows
      OBVIOUS
    <3> HIDE DEF spans, by
    <3>3. l \in by <=> u = x /\ w = y
      BY <1>2, <1>6, <1>7, <3>1, <3>2
    <3>4. Plan[l] = t <=> l = k
      BY <1>4, PlanIs
    <3>5. u = x /\ w = y => Plan[l] = t
      BY <3>1
    <3>6. Plan[l] = t => u = x /\ w = y
      <4>1. u \in Nat /\ u < TilesAcross /\ w \in Nat /\ w < TilesDown
        BY PlanIs
      <4>2. x \in Nat /\ x < TilesAcross /\ y \in Nat /\ y < TilesDown
        BY <1>3, PlanIs
      <4>3. TilesAcross \in Int /\ TilesDown \in Int
        BY HeaderIs
      <4>4. At(u, w) % TilesAcross = u /\ At(u, w) \div TilesAcross = w
        BY <4>1, <4>3, AtIs
      <4>5. At(x, y) % TilesAcross = x /\ At(x, y) \div TilesAcross = y
        BY <4>2, <4>3, AtIs
      <4> QED  BY <3>1, <4>4, <4>5
    <3> QED  BY <3>3, <3>4, <3>5, <3>6
  <2> QED  BY <1>4, <2>1
<1>9. Max(by) = k
  <2> HIDE DEF by
  <2>1. Max({k}) = k
    BY <1>5 DEF Max
  <2> QED  BY <1>8, <2>1
<1>10. Copied(tiles)[<<c, r>>]
         = IF by = {} THEN Nodata
           ELSE tiles[Max(by)][((r - TileY(Plan[Max(by)])) * spans[Max(by)].srcWidth)
                                 + (c - TileX(Plan[Max(by)])) + 1]
  <2>1. <<c, r>> \in (Across.off..(Across.off + Across.len - 1)) \X (Down.off..(Down.off + Down.len - 1))
    OBVIOUS
  <2> DEFINE From(j, p) == ((p[2] - TileY(Plan[j])) * spans[j].srcWidth) + (p[1] - TileX(Plan[j])) + 1
             By(p) == {j \in DOMAIN Plan : p[1] \in spans[j].cols /\ p[2] \in spans[j].rows}
             G(p) == IF By(p) = {} THEN Nodata ELSE tiles[Max(By(p))][From(Max(By(p)), p)]
  <2>2. Copied(tiles) = [p \in (Across.off..(Across.off + Across.len - 1))
                                  \X (Down.off..(Down.off + Down.len - 1)) |-> G(p)]
    BY DEF Copied
  <2>3. G(<<c, r>>) = IF by = {} THEN Nodata
                      ELSE tiles[Max(by)][((r - TileY(Plan[Max(by)])) * spans[Max(by)].srcWidth)
                                            + (c - TileX(Plan[Max(by)])) + 1]
    OBVIOUS
  <2> HIDE DEF G
  <2> QED  BY <2>1, <2>2, <2>3
<1> HIDE DEF by, spans
<1>11. Copied(tiles)[<<c, r>>] = tiles[k][((r - TileY(t)) * LiveWidth(t)) + (c - TileX(t)) + 1]
  BY <1>4, <1>6, <1>8, <1>9, <1>10
<1> QED  BY <1>4, <1>11 DEF x, y

-----------------------------------------------------------------------------
(* What is said of a window that was made. *)
Tiled(w) ==
  \A t \in Range(w.covered) :
    \E v \in 1..object, u \in DOMAIN Upload(1).offset :
      /\ \E a \in 1..v : Upload(a).offset[t] = Upload(v).offset[u]
      /\ Shows(w, t, v, u)
Single(w) ==
  \/ \E v \in 1..object : ShowsUpload(w, v)
  \/ \E b \in 1..object, t \in Range(w.covered), u \in DOMAIN Upload(1).offset :
       \E a \in 1..(b - 1) : Upload(a).offset[t] = Upload(b).offset[u]
Placed(w) ==
  /\ w.originX = OriginX + w.col * ScaleX /\ w.originY = OriginY - w.row * ScaleY
  /\ Cardinality(DOMAIN w.samples) = w.width * w.height
Covers(w) ==
  \A c \in 0..(Columns - 1), r \in 0..(Rows - 1) :
    /\ OriginX + c * ScaleX < box.east /\ box.west < OriginX + (c + 1) * ScaleX
    /\ OriginY - r * ScaleY > box.south /\ box.north > OriginY - (r + 1) * ScaleY
    => <<c, r>> \in DOMAIN w.samples
Told(w) == Range(w.covered) = {TileOf(p) : p \in DOMAIN w.samples} /\ IsInjective(w.covered)

LEMMA SampleMeaning ==
  ASSUME raster \in Files, LayoutRead, MeritLayout, Allocated, NEW pixel \in 0..15
  PROVE  Meaning(Converted(pixel), LocalNodata) = Original(pixel)
<1>1. Sample \in {"u8", "i8", "f32", "i32"}
  BY HeaderIs
<1>2. CASE Sample = "u8"
  <2>1. Nodata \in 0..15 /\ Nodata # Unset
    BY <1>2, UnsetIs DEF Allocated
  <2>2. Nodata % 16 = Nodata
    <3>1. \A n \in 0..15 : n % 16 = n
      BY Z3
    <3> QED  BY <2>1, <3>1
  <2>3. LocalNodata = Nodata /\ Declared = Nodata
    BY <1>2, <2>1, <2>2 DEF LocalNodata, Declared
  <2> QED  BY <1>2, <2>3 DEF Meaning, Converted, Original, Number
<1>3. CASE Sample = "i8"
  <2>1. Nodata \in -8..7 /\ Nodata # Unset
    BY <1>3, UnsetIs DEF Allocated
  <2>2. LocalNodata = Nodata % 16 /\ Declared = Nodata % 16
    BY <1>3, <2>1 DEF LocalNodata, Declared
  <2> QED  BY <1>3, <2>2 DEF Meaning, Converted, Original, Number
<1>4. CASE Sample = "f32"
  <2>1. LocalNodata = Nodata /\ Declared = Nodata
    BY <1>4 DEF LocalNodata, Declared
  <2> QED  BY <1>4, <2>1 DEF Meaning, Converted, Original, Number
<1>5. CASE Sample = "i32"
  <2>1. LocalNodata = NaN /\ Declared = Nodata
    BY <1>5 DEF LocalNodata, Declared
  <2> QED  BY <1>5, <2>1 DEF Meaning, Converted, Original
<1> QED  BY <1>1, <1>2, <1>3, <1>4, <1>5

(* A window shows the chunks it was made of, each at its tile; and if they *)
(* are the tiles' own and of one upload, it shows the upload.              *)
LEMMA MadeIs ==
  ASSUME raster \in Files, box \in Boxes, LayoutRead, MeritLayout, Planned, Allocated,
         NEW chunks, NEW at, NEW from,
         \A k \in DOMAIN Plan :
           at[k] \in DOMAIN raster.uploads /\ chunks[k] = Encoded(at[k], from[k])
  PROVE  LET w == Local(chunks) IN
         /\ w.covered = Plan
         /\ \A k \in DOMAIN Plan : Shows(w, Plan[k], at[k], from[k])
         /\ \A v : (\A k \in DOMAIN Plan : at[k] = v /\ from[k] = Plan[k]) => ShowsUpload(w, v)
         /\ Placed(w) /\ Covers(w) /\ Told(w)
<1> DEFINE w == Local(chunks)
           tiles == [k \in DOMAIN Plan |-> Decoded(Plan[k], chunks[k])]
           cols == Across.off..(Across.off + Across.len - 1)
           rows == Down.off..(Down.off + Down.len - 1)
           Part(p, k) == Padded(at[k], from[k], p[2] - TileY(Plan[k]) + 1)[p[1] - TileX(Plan[k]) + 1]
<1>1. /\ Across.off \in Nat /\ Across.len \in Nat \ {0} /\ Across.off + Across.len <= Columns
      /\ Down.off \in Nat /\ Down.len \in Nat \ {0} /\ Down.off + Down.len <= Rows
      /\ Columns \in Nat /\ Rows \in Nat
  BY WindowIs, HeaderIs
<1>2. /\ w.col = Across.off /\ w.row = Down.off /\ w.width = Across.len /\ w.height = Down.len
      /\ w.originX = OriginX + Across.off * ScaleX /\ w.originY = OriginY - Down.off * ScaleY
      /\ w.nodata = LocalNodata /\ w.covered = Plan /\ w.samples = Copied(tiles)
  BY DEF Local
<1>3. DOMAIN Copied(tiles) = cols \X rows
  BY DEF Copied
<1> HIDE DEF w, Part
<1>4. ASSUME NEW c \in cols, NEW r \in rows
      PROVE  \E k \in DOMAIN Plan :
               /\ Plan[k] = At(c \div Side, r \div Side)
               /\ Meaning(w.samples[<<c, r>>], w.nodata) = Original(Part(<<c, r>>, k))
               /\ from[k] = Plan[k] => Part(<<c, r>>, k) = Upload(at[k]).pixels[<<c, r>>]
  <2> DEFINE x == c \div Side
             y == r \div Side
             t == At(x, y)
             i == ((r - TileY(t)) * LiveWidth(t)) + (c - TileX(t)) + 1
  <2>1. c \in Nat /\ c < Columns /\ r \in Nat /\ r < Rows
    BY <1>1
  <2>2. x \in TileCols /\ y \in TileRows
    BY PlanIs
  <2>3. x \in Nat /\ x < TilesAcross /\ y \in Nat /\ y < TilesDown
    BY <2>2, PlanIs
  <2>4. PICK k \in DOMAIN Plan : Plan[k] = t /\ Copied(tiles)[<<c, r>>] = tiles[k][i]
    <3> HIDE DEF tiles
    <3> QED  BY CopiedIs
  <2>5. tiles[k] = Decoded(t, Encoded(at[k], from[k])) /\ at[k] \in DOMAIN raster.uploads
    BY <2>4
  <2> DEFINE pixel == Padded(at[k], from[k], r - TileY(t) + 1)[c - TileX(t) + 1]
  <2>6. /\ pixel \in 0..15
        /\ from[k] = t => pixel = Upload(at[k]).pixels[<<c, r>>]
        /\ Decoded(t, Encoded(at[k], from[k]))[i] = Converted(pixel)
    BY <2>1, <2>3, <2>5, DecodedIs
  <2>7. Part(<<c, r>>, k) = pixel
    BY <2>4 DEF Part
  <2> HIDE DEF pixel, t, i, tiles
  <2>8. w.samples[<<c, r>>] = Converted(pixel)
    BY <1>2, <2>4, <2>5, <2>6
  <2>9. Meaning(w.samples[<<c, r>>], w.nodata) = Original(pixel)
    BY <1>2, <2>6, <2>8, SampleMeaning
  <2> QED  BY <2>4, <2>6, <2>7, <2>9 DEF t
<1>5. \A p \in DOMAIN w.samples : \E c \in cols, r \in rows : p = <<c, r>>
  BY <1>2, <1>3
<1>6. ASSUME NEW p \in DOMAIN w.samples
      PROVE  \E k \in DOMAIN Plan :
               /\ Plan[k] = TileOf(p)
               /\ Meaning(w.samples[p], w.nodata) = Original(Part(p, k))
               /\ from[k] = Plan[k] => Part(p, k) = Upload(at[k]).pixels[p]
  <2>1. PICK c \in cols, r \in rows : p = <<c, r>>
    BY <1>5
  <2>2. TileOf(<<c, r>>) = At(c \div Side, r \div Side)
    BY DEF TileOf, At
  <2> HIDE DEF cols, rows, tiles
  <2> QED  BY <1>4, <2>1, <2>2
<1> HIDE DEF tiles, cols, rows
<1>10. ASSUME NEW k \in DOMAIN Plan
       PROVE  Shows(w, Plan[k], at[k], from[k])
  <2> SUFFICES ASSUME NEW p \in DOMAIN w.samples, TileOf(p) = Plan[k]
               PROVE  Meaning(w.samples[p], w.nodata) = Original(Part(p, k))
    BY DEF Shows, Part
  <2>1. PICK l \in DOMAIN Plan :
          Plan[l] = TileOf(p) /\ Meaning(w.samples[p], w.nodata) = Original(Part(p, l))
    BY <1>6
  <2>2. l = k
    BY <2>1, PlanIs
  <2> QED  BY <2>1, <2>2
<1>11. ASSUME NEW v, \A k \in DOMAIN Plan : at[k] = v /\ from[k] = Plan[k]
       PROVE  ShowsUpload(w, v)
  <2> SUFFICES ASSUME NEW p \in DOMAIN w.samples
               PROVE  Meaning(w.samples[p], w.nodata) = Original(Upload(v).pixels[p])
    BY DEF ShowsUpload
  <2> QED  BY <1>6, <1>11
<1>7. Placed(w)
  <2>1. cols \in SUBSET Int /\ IsFiniteSet(cols) /\ Cardinality(cols) = Across.len
    <3>1. Across.off \in Int /\ Across.off + Across.len - 1 \in Int
      BY <1>1
    <3>2. IsFiniteSet(cols) /\ Cardinality(cols) = IF Across.off > Across.off + Across.len - 1 THEN 0
                                                    ELSE (Across.off + Across.len - 1) - Across.off + 1
      BY <3>1, FS_Interval DEF cols
    <3> QED  BY <1>1, <3>2 DEF cols
  <2>2. IsFiniteSet(rows) /\ Cardinality(rows) = Down.len
    <3>1. Down.off \in Int /\ Down.off + Down.len - 1 \in Int
      BY <1>1
    <3>2. IsFiniteSet(rows) /\ Cardinality(rows) = IF Down.off > Down.off + Down.len - 1 THEN 0
                                                    ELSE (Down.off + Down.len - 1) - Down.off + 1
      BY <3>1, FS_Interval DEF rows
    <3> QED  BY <1>1, <3>2
  <2>3. Cardinality(cols \X rows) = Across.len * Down.len
    BY <2>1, <2>2, FS_Product
  <2> QED  BY <1>2, <1>3, <2>3 DEF Placed
<1>8. Covers(w)
  <2> SUFFICES ASSUME NEW c \in 0..(Columns - 1), NEW r \in 0..(Rows - 1),
                      OriginX + c * ScaleX < box.east, box.west < OriginX + (c + 1) * ScaleX,
                      OriginY - r * ScaleY > box.south, box.north > OriginY - (r + 1) * ScaleY
               PROVE  <<c, r>> \in DOMAIN w.samples
    BY DEF Covers
  <2>1. Across.off <= c /\ c < Across.off + Across.len
    BY WindowIs
  <2>2. Down.off <= r /\ r < Down.off + Down.len
    BY WindowIs
  <2>3. c \in cols /\ r \in rows
    <3>1. \A d, f, n : d \in Int /\ f \in Nat /\ n \in Nat /\ f <= d /\ d < f + n => d \in f..(f + n - 1)
      OBVIOUS
    <3>2. c \in Int /\ r \in Int
      BY <1>1
    <3> QED  BY <1>1, <2>1, <2>2, <3>1, <3>2 DEF cols, rows
  <2> QED  BY <1>2, <1>3, <2>3
<1>9. Told(w)
  <2>1. IsInjective(Plan)
    BY PlanIs DEF IsInjective
  <2>2. Range(Plan) = {Plan[k] : k \in DOMAIN Plan}
    BY DEF Range
  <2>3. \A c \in cols, r \in rows : TileOf(<<c, r>>) = At(c \div Side, r \div Side)
    BY DEF TileOf, At
  <2>4. ASSUME NEW k \in DOMAIN Plan
        PROVE  \E p \in DOMAIN w.samples : Plan[k] = TileOf(p)
    <3>1. PICK x \in TileCols, y \in TileRows : Plan[k] = At(x, y)
      BY PlanIs
    <3>2. PICK c \in cols : c \div Side = x
      BY PlanIs DEF cols
    <3>3. PICK r \in rows : r \div Side = y
      BY PlanIs DEF rows
    <3>4. <<c, r>> \in DOMAIN w.samples
      BY <1>2, <1>3
    <3> QED  BY <2>3, <3>1, <3>2, <3>3, <3>4
  <2>5. ASSUME NEW p \in DOMAIN w.samples
        PROVE  \E k \in DOMAIN Plan : TileOf(p) = Plan[k]
    <3>1. PICK c \in cols, r \in rows : p = <<c, r>>
      BY <1>5
    <3>2. c \div Side \in TileCols /\ r \div Side \in TileRows
      BY PlanIs DEF cols, rows
    <3> QED  BY <2>3, <3>1, <3>2, PlanIs
  <2>6. Range(Plan) = {TileOf(p) : p \in DOMAIN w.samples}
    BY <2>2, <2>4, <2>5
  <2> QED  BY <1>2, <2>1, <2>6 DEF Told
<1> QED  BY <1>2, <1>7, <1>8, <1>9, <1>10, <1>11 DEF w

-----------------------------------------------------------------------------
(* The ranges of the planned tiles are put together from the entries of    *)
(* uploads no later than the last one that a request has met.              *)
RangesAre ==
  /\ Len(ranges) = Len(Plan) /\ DOMAIN ranges = DOMAIN Plan
  /\ \A k \in DOMAIN Plan : \E a, b \in 1..since :
       ranges[k] = <<Upload(a).offset[Plan[k]], Upload(a).offset[Plan[k]] + Upload(b).length[Plan[k]]>>

(* Every entry is taken from the response to the request for it.           *)
LEMMA ResolvedIs ==
  ASSUME Accepted, NEW last \in DOMAIN raster.uploads,
         NEW at, at \in [1..Len(Requested) -> 1..last],
         NEW responses,
         \A n \in DOMAIN Requested :
           responses[n] = IndexEntry(at[n], Requested[n].tag, Requested[n].tile)
  PROVE  LET z == Resolved(responses) IN
         /\ Len(z) = Len(Plan) /\ DOMAIN z = DOMAIN Plan
         /\ \A k \in DOMAIN Plan : \E a, b \in 1..last :
              z[k] = <<Upload(a).offset[Plan[k]], Upload(a).offset[Plan[k]] + Upload(b).length[Plan[k]]>>
<1> DEFINE z == Resolved(responses)
           L == Len(OutOfLine)
           N == Len(Plan)
<1>1. N \in Nat \ {0} /\ DOMAIN Plan = 1..N
  BY PlanIs DEF Accepted
<1>2. /\ last \in Nat \ {0} /\ 1 \in 1..last /\ 1 \in DOMAIN raster.uploads
  BY UploadIs DEF Accepted
<1>3. /\ L \in 0..2
      /\ Inline("TileOffsets") /\ Inline("TileByteCounts") => L = 0
      /\ ~Inline("TileOffsets") /\ Inline("TileByteCounts") => L = 1 /\ OutOfLine[1] = "TileOffsets"
      /\ Inline("TileOffsets") /\ ~Inline("TileByteCounts") => L = 1 /\ OutOfLine[1] = "TileByteCounts"
      /\ ~Inline("TileOffsets") /\ ~Inline("TileByteCounts") =>
           L = 2 /\ OutOfLine[1] = "TileOffsets" /\ OutOfLine[2] = "TileByteCounts"
  BY DEF OutOfLine
<1>4. DOMAIN Requested = 1..(L * N) /\ Len(Requested) = L * N
  <2> DEFINE E(n) == [tag |-> OutOfLine[1 + ((n - 1) % Len(OutOfLine))],
                      tile |-> Plan[1 + ((n - 1) \div Len(OutOfLine))]]
  <2>1. Requested = [n \in 1..(L * N) |-> E(n)]
    BY DEF Requested
  <2>2. L * N \in Nat
    <3> HIDE DEF L, N
    <3> QED  BY <1>1, <1>3, Z3
  <2> HIDE DEF E, L, N
  <2> QED  BY <2>1, <2>2
<1>5. ASSUME NEW k \in 1..N, NEW d \in 0..(L - 1)
      PROVE  LET n == L * (k - 1) + 1 + d IN
             /\ n \in 1..(L * N)
             /\ responses[n] = IndexEntry(at[n], OutOfLine[1 + d], Plan[k])
             /\ at[n] \in 1..last
  <2> DEFINE n == L * (k - 1) + 1 + d
             q == k - 1
             y == L * q
  <2>1. L \in Nat \ {0} /\ q \in Int /\ 0 <= q /\ q < N
    BY <1>1, <1>3
  <2>2. y \in Int /\ L * 0 <= y /\ L * 0 = 0 /\ y + L <= L * N /\ L * N \in Int
    <3> HIDE DEF L, N, q
    <3>1. L * 0 = 0
      BY <2>1
    <3> QED  BY <1>1, <2>1, <3>1, Product
  <2> HIDE DEF y
  <2>3. n = y + 1 + d
    BY DEF y
  <2> HIDE DEF n, L, N
  <2>4. n \in 1..(L * N) /\ n - 1 = y + d /\ n - 1 \in Int
    BY <1>1, <2>1, <2>2, <2>3
  <2>5. (n - 1) % L = d /\ (n - 1) \div L = q
    BY <2>1, <2>4, DivUnique DEF y
  <2>6. Requested[n].tag = OutOfLine[1 + d] /\ Requested[n].tile = Plan[k]
    <3>1. 1 + q = k
      BY <1>1
    <3> HIDE DEF q
    <3> QED  BY <2>4, <2>5, <3>1 DEF Requested, L, N
  <2>7. responses[n] = IndexEntry(at[n], Requested[n].tag, Requested[n].tile)
    BY <1>4, <2>4
  <2>8. at[n] \in 1..last
    BY <1>4, <2>4
  <2> QED  BY <2>4, <2>6, <2>7, <2>8 DEF n
<1>6. ASSUME NEW k \in 1..N
      PROVE  \E a, b \in 1..last :
               z[k] = <<Upload(a).offset[Plan[k]], Upload(a).offset[Plan[k]] + Upload(b).length[Plan[k]]>>
  <2> DEFINE first == L * (k - 1) + 1
             offset == IF Inline("TileOffsets") THEN Value("TileOffsets") ELSE responses[first]
             length == IF Inline("TileByteCounts") THEN Value("TileByteCounts")
                       ELSE responses[first + L - 1]
  <2>1. z[k] = <<offset, offset + length>>
    BY <1>1 DEF Resolved
  <2>2. \E a \in 1..last : offset = Upload(a).offset[Plan[k]]
    <3>1. CASE Inline("TileOffsets")
      <4>1. Field("TileOffsets").count = 1 /\ Plan[k] = 0
        BY <1>1, <3>1 DEF Accepted, EntriesReadable
      <4>2. Value("TileOffsets") = Upload(1).offset[0]
        BY <1>2, <3>1, <4>1, UploadIs DEF Accepted, IndexEntry
      <4> QED  BY <1>2, <3>1, <4>1, <4>2
    <3>2. CASE ~Inline("TileOffsets")
      <4>1. 0 \in 0..(L - 1) /\ OutOfLine[1 + 0] = "TileOffsets"
        BY <1>3, <3>2
      <4>2. first \in Int /\ L * (k - 1) + 1 + 0 = first
        <5>1. L * (k - 1) \in Int
          <6> HIDE DEF L
          <6> QED  BY <1>1, <1>3, Product
        <5> HIDE DEF L
        <5> QED  BY <5>1
      <4>3. responses[first] = IndexEntry(at[first], "TileOffsets", Plan[k]) /\ at[first] \in 1..last
        <5> HIDE DEF first, L, N
        <5> QED  BY <1>5, <4>1, <4>2
      <4> HIDE DEF first
      <4> QED  BY <3>2, <4>3 DEF IndexEntry
    <3> QED  BY <3>1, <3>2
  <2>3. \E b \in 1..last : length = Upload(b).length[Plan[k]]
    <3>1. CASE Inline("TileByteCounts")
      <4>1. Field("TileByteCounts").count = 1 /\ Plan[k] = 0
        BY <1>1, <3>1 DEF Accepted, EntriesReadable
      <4>2. Value("TileByteCounts") = Upload(1).length[0]
        BY <1>2, <3>1, <4>1, UploadIs DEF Accepted, IndexEntry
      <4> QED  BY <1>2, <3>1, <4>1, <4>2
    <3>2. CASE ~Inline("TileByteCounts")
      <4> DEFINE n == first + L - 1
                 d == L - 1
      <4>1. d \in 0..(L - 1) /\ OutOfLine[1 + d] = "TileByteCounts"
        BY <1>3, <3>2
      <4>2. L * (k - 1) + 1 + d = n
        <5>1. L * (k - 1) \in Int /\ L \in Int
          <6> HIDE DEF L
          <6> QED  BY <1>1, <1>3, Product
        <5> HIDE DEF L
        <5> QED  BY <5>1
      <4>3. responses[n] = IndexEntry(at[n], "TileByteCounts", Plan[k]) /\ at[n] \in 1..last
        <5> HIDE DEF n, d, L, N, first
        <5> QED  BY <1>5, <4>1, <4>2
      <4> HIDE DEF first
      <4> QED  BY <3>2, <4>3 DEF IndexEntry
    <3> QED  BY <3>1, <3>2
  <2> HIDE DEF offset, length
  <2> QED  BY <2>1, <2>2, <2>3
<1>7. DOMAIN z = 1..N /\ Len(z) = N
  <2> DEFINE E(k) == LET first == Len(OutOfLine) * (k - 1) + 1
                         offset == IF Inline("TileOffsets") THEN Value("TileOffsets") ELSE responses[first]
                         length == IF Inline("TileByteCounts") THEN Value("TileByteCounts")
                                   ELSE responses[first + Len(OutOfLine) - 1]
                     IN <<offset, offset + length>>
  <2>1. z = [k \in DOMAIN Plan |-> E(k)]
    BY DEF Resolved
  <2> HIDE DEF E, z, N
  <2> QED  BY <1>1, <2>1
<1> QED  BY <1>1, <1>6, <1>7

LEMMA PlannedTile ==
  ASSUME Accepted, NEW k \in DOMAIN Plan
  PROVE  Plan[k] \in Grid
<1>1. PICK x \in TileCols, y \in TileRows : Plan[k] = At(x, y)
  BY PlanIs DEF Accepted
<1>2. x \in Nat /\ x < TilesAcross /\ y \in Nat /\ y < TilesDown
  BY PlanIs DEF Accepted
<1>3. TilesAcross \in Int /\ TilesDown \in Int
  BY HeaderIs DEF Accepted
<1> QED  BY <1>1, <1>2, <1>3, AtIs

(* What inflates is a chunk that starts where the entry of the tile says;  *)
(* and if the entry is of the same upload, it is the chunk of the tile.    *)
LEMMA ChunkIs ==
  ASSUME Accepted, NEW k \in DOMAIN Plan,
         NEW a \in DOMAIN raster.uploads, NEW v \in DOMAIN raster.uploads, NEW range,
         range[1] = Upload(a).offset[Plan[k]], Read(v, range) # Garbage
  PROVE  \E u \in Grid :
           /\ Upload(a).offset[Plan[k]] = Upload(v).offset[u]
           /\ Read(v, range) = Encoded(v, u)
           /\ a = v => u = Plan[k]
<1> DEFINE starts == {t \in DOMAIN Upload(v).offset :
                        /\ Upload(v).offset[t] = range[1] /\ Upload(v).length[t] # 0
                        /\ ~Upload(v).broken[t] /\ range[1] + Upload(v).stream[t] <= range[2]}
           u == CHOOSE t \in starts : TRUE
<1>1. /\ Upload(v).offset \in [Grid -> Nat]
      /\ \A t, other \in Grid :
           t # other /\ Upload(v).offset[t] = Upload(v).offset[other] => Upload(v).length[t] = 0
  BY UploadIs DEF Accepted
<1>2. Plan[k] \in Grid
  BY PlannedTile
<1>3. starts # {} /\ Read(v, range) = Encoded(v, u)
  BY DEF Read
<1>4. u \in starts
  <2> HIDE DEF starts
  <2> QED  BY <1>3
<1>5. u \in Grid /\ Upload(v).offset[u] = range[1] /\ Upload(v).length[u] # 0
  BY <1>1, <1>4
<1> HIDE DEF starts, u
<1>6. a = v => u = Plan[k]
  BY <1>1, <1>2, <1>5
<1> QED  BY <1>3, <1>5, <1>6

-----------------------------------------------------------------------------
(* The header and the request stay, so what was accepted stays accepted.   *)
LEMMA SameHeader ==
  ASSUME raster' = raster
  PROVE  /\ \A tag : Field(tag)' = Field(tag) /\ Value(tag)' = Value(tag) /\ Inline(tag)' = Inline(tag)
         /\ \A v : Upload(v)' = Upload(v)
         /\ Columns' = Columns /\ Rows' = Rows /\ ScaleX' = ScaleX /\ ScaleY' = ScaleY
         /\ OriginX' = OriginX /\ OriginY' = OriginY
         /\ Sample' = Sample /\ Nodata' = Nodata /\ Declared' = Declared
         /\ TilesAcross' = TilesAcross /\ TilesDown' = TilesDown
         /\ \A x : Original(x)' = Original(x)
<1>1. \A tag : Field(tag)' = Field(tag) /\ Value(tag)' = Value(tag)
  BY DEF Field, Value
<1>2. \A tag : Inline(tag)' = Inline(tag)
  BY <1>1 DEF Inline
<1>3. \A v : Upload(v)' = Upload(v)
  BY DEF Upload
<1>4. Columns' = Columns /\ Rows' = Rows /\ ScaleX' = ScaleX /\ ScaleY' = ScaleY
  BY <1>1 DEF Columns, Rows, ScaleX, ScaleY
<1>5. OriginX' = OriginX /\ OriginY' = OriginY
  BY <1>1, <1>4 DEF OriginX, OriginY
<1>6. Sample' = Sample
  BY <1>1 DEF Sample
<1>7. Nodata' = Nodata
  BY <1>1, <1>6 DEF Nodata
<1>8. Declared' = Declared
  BY <1>6, <1>7 DEF Declared
<1>9. TilesAcross' = TilesAcross /\ TilesDown' = TilesDown
  BY <1>4 DEF TilesAcross, TilesDown
<1>10. \A x : Original(x)' = Original(x)
  BY <1>6, <1>8 DEF Original, Number
<1> QED  BY <1>1, <1>2, <1>3, <1>4, <1>5, <1>6, <1>7, <1>8, <1>9, <1>10

LEMMA SamePlan ==
  ASSUME raster' = raster, box' = box
  PROVE  Across' = Across /\ Down' = Down /\ Plan' = Plan
<1>1. Across' = Across /\ Down' = Down
  BY SameHeader DEF Across, Down
<1> QED  BY <1>1, SameHeader DEF Plan

LEMMA StillAccepted ==
  ASSUME UNCHANGED <<raster, box, kind, size>>, Accepted
  PROVE  Accepted'
<1>1. \A tag : Scalar(tag)' = Scalar(tag)
  BY SameHeader DEF Scalar
<1>2. \A tag, n : Doubles(tag, n)' = Doubles(tag, n)
  BY SameHeader DEF Doubles
<1>3. \A tag : Descriptor(tag)' = Descriptor(tag)
  BY SameHeader DEF Descriptor
<1>4. \A tag : Text(tag)' = Text(tag)
  BY SameHeader DEF Text
<1>5. LayoutRead'
  BY <1>1, <1>2, <1>3, <1>4, SameHeader DEF LayoutRead, Accepted
<1>6. MeritLayout'
  BY SameHeader DEF MeritLayout, Accepted
<1>7. Planned'
  BY SameHeader, SamePlan DEF Planned, NorthUp, Accepted
<1>8. EntriesReadable'
  BY SameHeader, SamePlan DEF EntriesReadable, Accepted
<1> QED  BY <1>5, <1>6, <1>7, <1>8 DEF Accepted

Faithful(w) == Tiled(w) /\ Single(w) /\ Placed(w) /\ Covers(w) /\ Told(w)

LEMMA FaithfulIs == WindowIsRaster <=> (phase = "done" => Faithful(made))
  BY DEF WindowIsRaster, Faithful, Tiled, Single, Placed, Covers, Told

LEMMA StillFaithful ==
  ASSUME UNCHANGED <<raster, box>>, NEW w, made' = w, Faithful(w),
         object \in Nat, object' \in {object, object + 1}
  PROVE  Faithful(made)'
<1>1. \A v : Upload(v)' = Upload(v)
  BY SameHeader
<1>2. \A t : TileX(t)' = TileX(t) /\ TileY(t)' = TileY(t)
  BY SameHeader DEF TileX, TileY
<1>3. \A p : TileOf(p)' = TileOf(p)
  BY SameHeader DEF TileOf
<1>4. \A v, t, r : Padded(v, t, r)' = Padded(v, t, r)
  BY <1>1, <1>2 DEF Padded
<1>5. \A t, v, u : Shows(made, t, v, u)' = Shows(w, t, v, u)
  BY <1>2, <1>3, <1>4, SameHeader DEF Shows, Meaning
<1>6. \A v : ShowsUpload(made, v)' = ShowsUpload(w, v)
  BY SameHeader DEF ShowsUpload, Meaning
<1>7. 1..object \subseteq 1..object'
  OBVIOUS
<1>8. Tiled(made)'
  BY <1>1, <1>5, <1>7 DEF Tiled, Faithful
<1>9. Single(made)'
  BY <1>1, <1>6, <1>7 DEF Single, Faithful
<1>10. Placed(made)'
  BY SameHeader DEF Placed, Faithful
<1>11. Covers(made)'
  BY SameHeader DEF Covers, Faithful
<1>12. Told(made)'
  BY <1>3 DEF Told, Faithful
<1> QED  BY <1>8, <1>9, <1>10, <1>11, <1>12 DEF Faithful

-----------------------------------------------------------------------------
(* Inductive: after the header was accepted it is what the plan is made    *)
(* of, and the ranges are those of the planned tiles.                      *)
ReadInv ==
  /\ ReadTypeOK
  /\ phase \in {"index", "tiles"} => Accepted
  /\ phase = "tiles" => RangesAre
  /\ WindowIsRaster

LEMMA ReadInitInv == ReadInit => ReadInv
<1> SUFFICES ASSUME ReadInit PROVE ReadInv
  OBVIOUS
<1>1. raster \in Files /\ box \in Boxes /\ kind \in Kinds /\ object = 1 /\ since = 1
      /\ made = Unset /\ phase = "head"
  BY DEF ReadInit
<1>2. Stored(raster)
  BY <1>1, CogWindowAssumption
<1>3. 1 \in DOMAIN raster.uploads
  BY <1>2 DEF Stored
<1>4. ReadTypeOK
  BY <1>1, <1>3 DEF ReadTypeOK
<1> QED  BY <1>1, <1>4 DEF ReadInv, WindowIsRaster

LEMMA ReadStepInv == ReadInv /\ [ReadNext]_readVars => ReadInv'
<1> SUFFICES ASSUME ReadInv, [ReadNext]_readVars PROVE ReadInv'
  OBVIOUS
<1>1. /\ raster \in Files /\ box \in Boxes /\ kind \in Kinds
      /\ object \in DOMAIN raster.uploads /\ since \in 1..object
      /\ phase # "done" => made = Unset
      /\ phase \in {"head", "layout", "index", "tiles", "done", "failed"}
  BY DEF ReadInv, ReadTypeOK
<1>2. Len(raster.uploads) \in Nat /\ DOMAIN raster.uploads = 1..Len(raster.uploads)
  <2>1. Stored(raster)
    BY <1>1, CogWindowAssumption
  <2> QED  BY <2>1 DEF Stored
<1>3. object \in Nat /\ object \in 1..object
  BY <1>1, <1>2
<1>4. CASE HeadObject
  <2>1. phase = "head" /\ phase' = "layout" /\ since' = object /\ made' = made
        /\ UNCHANGED <<raster, box, kind, object>>
    BY <1>4 DEF HeadObject, Goto
  <2> QED  BY <1>1, <1>3, <2>1 DEF ReadInv, ReadTypeOK, WindowIsRaster
<1>5. CASE Layout
  <2>1. /\ phase = "layout" /\ since' = object /\ made' = made
        /\ UNCHANGED <<raster, box, kind, object, size>>
        /\ phase' = IF LayoutRead /\ MeritLayout /\ Planned /\ EntriesReadable THEN "index" ELSE "failed"
    BY <1>5 DEF Layout, Goto
  <2>2. ReadTypeOK' /\ WindowIsRaster' /\ phase' # "tiles"
    BY <1>1, <1>3, <2>1 DEF ReadTypeOK, WindowIsRaster
  <2>3. phase' = "index" => Accepted
    BY <1>1, <2>1 DEF Accepted
  <2>4. phase' = "index" => Accepted'
    BY <2>1, <2>3, StillAccepted
  <2> QED  BY <2>2, <2>4 DEF ReadInv
<1>6. CASE Index
  <2>1. /\ phase = "index" /\ phase' = "tiles" /\ since' = object /\ made' = made
        /\ UNCHANGED <<raster, box, kind, object, size>>
    BY <1>6 DEF Index, Goto
  <2>2. PICK at \in Answers(Len(Requested)) :
          ranges' = Resolved([n \in DOMAIN Requested |->
                                IndexEntry(at[n], Requested[n].tag, Requested[n].tile)])
    BY <1>6 DEF Index
  <2>3. Accepted /\ Accepted'
    BY <2>1, StillAccepted DEF ReadInv
  <2>4. at \in [1..Len(Requested) -> 1..object]
    <3>1. since..object \subseteq 1..object
      BY <1>1, <1>3
    <3> QED  BY <3>1 DEF Answers
  <2>5. /\ Len(ranges') = Len(Plan) /\ DOMAIN ranges' = DOMAIN Plan
        /\ \A k \in DOMAIN Plan : \E a, b \in 1..object :
             ranges'[k] = <<Upload(a).offset[Plan[k]], Upload(a).offset[Plan[k]] + Upload(b).length[Plan[k]]>>
    <3> DEFINE responses == [n \in DOMAIN Requested |->
                               IndexEntry(at[n], Requested[n].tag, Requested[n].tile)]
    <3>1. ranges' = Resolved(responses)
      BY <2>2
    <3>2. \A n \in DOMAIN Requested :
            responses[n] = IndexEntry(at[n], Requested[n].tag, Requested[n].tile)
      OBVIOUS
    <3> HIDE DEF responses
    <3>3. /\ Len(Resolved(responses)) = Len(Plan) /\ DOMAIN Resolved(responses) = DOMAIN Plan
          /\ \A k \in DOMAIN Plan : \E a, b \in 1..object :
               Resolved(responses)[k]
                 = <<Upload(a).offset[Plan[k]], Upload(a).offset[Plan[k]] + Upload(b).length[Plan[k]]>>
      <4>1. object \in DOMAIN raster.uploads
        BY <1>1
      <4> QED  BY <2>3, <2>4, <3>2, <4>1, ResolvedIs
    <3> QED  BY <3>1, <3>3
  <2>6. RangesAre'
    <3>1. Plan' = Plan /\ \A v : Upload(v)' = Upload(v)
      BY <2>1, SamePlan, SameHeader
    <3> QED  BY <2>1, <2>5, <3>1 DEF RangesAre
  <2>7. ReadTypeOK' /\ WindowIsRaster'
    BY <1>1, <1>3, <2>1 DEF ReadTypeOK, WindowIsRaster
  <2> QED  BY <2>3, <2>6, <2>7 DEF ReadInv
<1>7. CASE Tiles
  <2>1. phase = "tiles" /\ UNCHANGED <<raster, box, kind, object>> /\ since' = object /\ Accepted /\ RangesAre
    BY <1>7 DEF Tiles, Goto, ReadInv
  <2>2. CASE phase' = "done"
    <3>1. PICK at \in Answers(Len(ranges)) :
            LET chunks == [k \in DOMAIN ranges |-> Read(at[k], ranges[k])] IN
            Garbage \notin Range(chunks) /\ Allocated /\ made' = Local(chunks)
      BY <1>7, <2>2 DEF Tiles, Goto
    <3> DEFINE chunks == [k \in DOMAIN ranges |-> Read(at[k], ranges[k])]
    <3>2. Len(Plan) \in Nat /\ DOMAIN Plan = 1..Len(Plan) /\ Len(ranges) = Len(Plan) /\ DOMAIN ranges = DOMAIN Plan
      BY <2>1, PlanIs DEF Accepted, RangesAre
    <3> DEFINE Source(k, a, u) ==
                 /\ a \in 1..since /\ u \in Grid
                 /\ Upload(a).offset[Plan[k]] = Upload(at[k]).offset[u]
                 /\ chunks[k] = Encoded(at[k], u)
                 /\ a = at[k] => u = Plan[k]
               old == [k \in DOMAIN Plan |-> CHOOSE a : \E u : Source(k, a, u)]
               from == [k \in DOMAIN Plan |-> CHOOSE u : Source(k, old[k], u)]
    <3>3. since \in Nat \ {0}
      BY <1>1, <1>2
    <3>4. ASSUME NEW k \in DOMAIN Plan
          PROVE  at[k] \in since..object /\ \E a, u : Source(k, a, u)
      <4>1. chunks[k] = Read(at[k], ranges[k])
        BY <3>2
      <4>2. Read(at[k], ranges[k]) # Garbage
        BY <3>1, <3>2, <4>1 DEF Range
      <4>3. at[k] \in since..object
        BY <3>1, <3>2 DEF Answers
      <4>4. at[k] \in DOMAIN raster.uploads
        BY <1>1, <1>2, <4>3
      <4>5. PICK a \in 1..since : ranges[k][1] = Upload(a).offset[Plan[k]]
        BY <2>1 DEF RangesAre
      <4>6. a \in DOMAIN raster.uploads
        BY <1>1, <1>2
      <4> HIDE DEF chunks
      <4>7. PICK u \in Grid : /\ Upload(a).offset[Plan[k]] = Upload(at[k]).offset[u]
                              /\ Read(at[k], ranges[k]) = Encoded(at[k], u)
                              /\ a = at[k] => u = Plan[k]
        BY <2>1, <4>2, <4>4, <4>5, <4>6, ChunkIs
      <4> QED  BY <4>1, <4>3, <4>7
    <3>5. Allocated /\ made' = Local(chunks)
      BY <3>1
    <3> HIDE DEF chunks
    <3>6. \A k \in DOMAIN Plan : Source(k, old[k], from[k])
      <4> HIDE DEF Source
      <4> QED  BY <3>4
    <3>7. \A k \in DOMAIN Plan :
            /\ at[k] \in 1..object /\ at[k] \in since..object /\ at[k] \in DOMAIN raster.uploads
            /\ old[k] \in 1..since /\ from[k] \in DOMAIN Upload(1).offset
            /\ Upload(old[k]).offset[Plan[k]] = Upload(at[k]).offset[from[k]]
            /\ chunks[k] = Encoded(at[k], from[k])
            /\ old[k] = at[k] => from[k] = Plan[k]
      <4>1. DOMAIN Upload(1).offset = Grid
        <5>1. 1 \in DOMAIN raster.uploads
          BY <1>1, <1>2
        <5> QED  BY <2>1, <5>1, UploadIs DEF Accepted
      <4>2. since..object \subseteq 1..object /\ 1..object \subseteq DOMAIN raster.uploads
        BY <1>1, <1>2
      <4> HIDE DEF old, from
      <4> QED  BY <3>4, <3>6, <4>1, <4>2
    <3> HIDE DEF old, from, Source
    <3> DEFINE w == Local(chunks)
    <3>10. /\ w.covered = Plan
           /\ \A k \in DOMAIN Plan : Shows(w, Plan[k], at[k], from[k])
           /\ \A v : (\A k \in DOMAIN Plan : at[k] = v /\ from[k] = Plan[k]) => ShowsUpload(w, v)
           /\ Placed(w) /\ Covers(w) /\ Told(w)
      BY <2>1, <3>5, <3>7, MadeIs DEF Accepted
    <3> HIDE DEF w
    <3>11. Range(w.covered) = {Plan[k] : k \in DOMAIN Plan}
      BY <3>10 DEF Range
    <3>12. Tiled(w)
      <4> SUFFICES ASSUME NEW k \in DOMAIN Plan
                   PROVE  \E v \in 1..object, u \in DOMAIN Upload(1).offset :
                            /\ \E a \in 1..v : Upload(a).offset[Plan[k]] = Upload(v).offset[u]
                            /\ Shows(w, Plan[k], v, u)
        BY <3>11 DEF Tiled
      <4>1. old[k] \in 1..at[k]
        BY <3>3, <3>7
      <4> QED  BY <3>7, <3>10, <4>1
    <3>13. Single(w)
      <4>1. CASE \E k \in DOMAIN Plan : old[k] # at[k]
        <5>1. PICK k \in DOMAIN Plan : old[k] # at[k]
          BY <4>1
        <5>2. old[k] \in 1..(at[k] - 1) /\ at[k] \in 1..object
          BY <3>3, <3>7, <5>1
        <5>3. Plan[k] \in Range(w.covered)
          BY <3>11
        <5> QED  BY <3>7, <5>2, <5>3 DEF Single
      <4>2. CASE \A k \in DOMAIN Plan : old[k] = at[k]
        <5>1. \A k \in DOMAIN Plan : at[k] = since /\ from[k] = Plan[k]
          BY <1>1, <3>3, <3>7, <4>2
        <5>2. ShowsUpload(w, since)
          BY <3>10, <5>1
        <5> QED  BY <1>1, <5>2 DEF Single
      <4> QED  BY <4>1, <4>2
    <3>14. Faithful(w)
      BY <3>10, <3>12, <3>13 DEF Faithful
    <3>15. Faithful(made)'
      <4>1. made' = w /\ object \in Nat /\ object' \in {object, object + 1}
        BY <1>3, <2>1, <3>5 DEF w
      <4> QED  BY <2>1, <3>14, <4>1, StillFaithful
    <3>8. WindowIsRaster'
      BY <3>15, FaithfulIs, PTL
    <3>9. ReadTypeOK'
      BY <1>1, <1>3, <2>1, <2>2 DEF ReadTypeOK
    <3> QED  BY <2>2, <3>8, <3>9 DEF ReadInv
  <2>3. CASE phase' # "done"
    <3>1. phase' = "failed" /\ made' = made
      BY <1>7, <2>3 DEF Tiles, Goto
    <3> QED  BY <1>1, <1>3, <2>1, <3>1 DEF ReadInv, ReadTypeOK, WindowIsRaster
  <2> QED  BY <2>2, <2>3
<1>8. CASE Lose
  <2>1. phase # "done" /\ phase' = "failed" /\ UNCHANGED <<raster, box, kind, object, since, made>>
    BY <1>8 DEF Lose
  <2> QED  BY <1>1, <2>1 DEF ReadInv, ReadTypeOK, WindowIsRaster
<1>9. ASSUME Reupload \/ UNCHANGED readVars
      PROVE  ReadInv'
  <2>1. UNCHANGED <<raster, box, kind, since, size, ranges, made, phase>>
    BY <1>9 DEF Reupload, readVars
  <2>2. ReadTypeOK'
    <3>1. object' \in DOMAIN raster.uploads /\ object' \in {object, object + 1}
      BY <1>1, <1>9 DEF Reupload, readVars
    <3>2. since \in 1..object'
      BY <1>1, <1>3, <3>1
    <3> QED  BY <1>1, <2>1, <3>1, <3>2 DEF ReadTypeOK
  <2>3. phase' \in {"index", "tiles"} => Accepted'
    BY <2>1, StillAccepted DEF ReadInv
  <2>4. phase' = "tiles" => RangesAre'
    <3>1. Plan' = Plan /\ \A v : Upload(v)' = Upload(v)
      BY <2>1, SamePlan, SameHeader
    <3> QED  BY <2>1, <3>1 DEF ReadInv, RangesAre
  <2>5. WindowIsRaster'
    <3>1. phase' = "done" => Faithful(made)
      BY <2>1, FaithfulIs DEF ReadInv
    <3>2. object' \in {object, object + 1}
      BY <1>9 DEF Reupload, readVars
    <3>3. (phase = "done" => Faithful(made))'
      BY <1>3, <2>1, <3>1, <3>2, StillFaithful
    <3> QED  BY <3>3, FaithfulIs, PTL
  <2> QED  BY <2>2, <2>3, <2>4, <2>5 DEF ReadInv
<1> QED  BY <1>4, <1>5, <1>6, <1>7, <1>8, <1>9 DEF ReadNext

(* The call's state keeps its types, and nothing is made before the end.   *)
THEOREM ReadTypeOKHolds == ReadSpec => []ReadTypeOK
<1>1. ReadInv => ReadTypeOK
  BY DEF ReadInv
<1> QED  BY <1>1, ReadInitInv, ReadStepInv, PTL DEF ReadSpec

(* A window that was made is a piece of the raster, whole under the box,   *)
(* at its own place, each pixel with its own meaning, told tile by tile;   *)
(* each tile is a chunk that lies where an entry of it says, and all are   *)
(* of one upload unless a later upload has a chunk at such a place         *)
(* (prepare_window, fetch_window_to_path).                                 *)
THEOREM WindowIsRasterHolds == ReadSpec => []WindowIsRaster
<1>1. ReadInv => WindowIsRaster
  BY DEF ReadInv
<1> QED  BY <1>1, ReadInitInv, ReadStepInv, PTL DEF ReadSpec

-----------------------------------------------------------------------------
(* Reading a file of the documented layout.                                *)

LEMMA GridIs ==
  ASSUME Columns \in Nat \ {0}, Rows \in Nat \ {0}
  PROVE  TilesAcross \in Nat \ {0} /\ TilesDown \in Nat \ {0} /\ TilesAcross * TilesDown \in Nat \ {0}
<1>1. TilesAcross \in Int /\ TilesDown \in Int
  <2>1. Columns \in Int /\ Rows \in Int
    OBVIOUS
  <2> QED  BY <2>1, CeilingIs, SideIs DEF TilesAcross, TilesDown
<1>2. 0 \div Side \in Nat /\ 0 \div Side < TilesAcross /\ 0 \div Side < TilesDown
  BY TileOfPixel DEF TilesAcross, TilesDown
<1>3. TilesAcross \in Nat \ {0} /\ TilesDown \in Nat \ {0}
  BY <1>1, <1>2
<1> DEFINE A == TilesAcross
           D == TilesDown
<1> HIDE DEF A, D
<1>4. A * D \in Nat \ {0}
  <2>1. A \in Nat \ {0} /\ D \in Nat \ {0}
    BY <1>3 DEF A, D
  <2>2. A * D \in Int /\ A * 1 <= A * D /\ A * 1 = A
    BY <2>1, Product
  <2> QED  BY <2>1, <2>2
<1> QED  BY <1>3, <1>4 DEF A, D

LEMMA Greatest ==
  ASSUME NEW n \in Nat \ {0}, NEW e \in [0..(n - 1) -> Nat]
  PROVE  \E t \in 0..(n - 1) : \A u \in 0..(n - 1) : e[u] <= e[t]
<1> DEFINE Top(m) == \E t \in 0..(n - 1) : \A u \in 0..(n - 1) : u <= m => e[u] <= e[t]
           Without == {m \in 0..(n - 1) : ~Top(m)}
<1>1. \A t \in 0..(n - 1) : e[t] \in Nat /\ t \in Nat
  OBVIOUS
<1>2. Without = {}
  <2> SUFFICES ASSUME Without # {} PROVE FALSE
    OBVIOUS
  <2>1. PICK m \in Without : \A j \in Without : m <= j
    <3>1. Without \in SUBSET Nat
      OBVIOUS
    <3> HIDE DEF Without
    <3> QED  BY <3>1, LeastNatural
  <2>2. m \in 0..(n - 1) /\ ~Top(m)
    BY <2>1
  <2>3. m # 0
    <3>1. \A u \in 0..(n - 1) : u <= 0 => u = 0
      BY <1>1
    <3>2. 0 \in 0..(n - 1) /\ e[0] <= e[0]
      BY <1>1
    <3>3. Top(0)
      BY <3>1, <3>2
    <3> QED  BY <2>2, <3>3
  <2>4. m - 1 \in 0..(n - 1) /\ ~(m <= m - 1)
    BY <2>2, <2>3
  <2>5. Top(m - 1)
    <3> HIDE DEF Top
    <3> QED  BY <2>1, <2>4
  <2>6. PICK t \in 0..(n - 1) : \A u \in 0..(n - 1) : u <= m - 1 => e[u] <= e[t]
    BY <2>5
  <2>7. \A u \in 0..(n - 1) : u <= m => u <= m - 1 \/ u = m
    BY <1>1, <2>2
  <2>8. ASSUME NEW b \in 0..(n - 1), e[t] <= e[b], e[m] <= e[b], NEW u \in 0..(n - 1), u <= m
        PROVE  e[u] <= e[b]
    <3>1. e[u] <= e[t] \/ u = m
      BY <2>6, <2>7, <2>8
    <3>2. e[u] \in Nat /\ e[t] \in Nat /\ e[b] \in Nat
      BY <1>1
    <3>3. CASE e[u] <= e[t]
      <4> DEFINE x == e[u]
                 y == e[t]
                 z == e[b]
      <4>1. x \in Nat /\ y \in Nat /\ z \in Nat /\ x <= y /\ y <= z
        BY <2>8, <3>2, <3>3
      <4> HIDE DEF x, y, z
      <4>2. x <= z
        BY <4>1
      <4> QED  BY <4>2 DEF x, z
    <3>4. CASE u = m
      BY <2>8, <3>4
    <3> QED  BY <3>1, <3>3, <3>4
  <2>9. e[m] \in Nat /\ e[t] \in Nat
    BY <1>1, <2>2
  <2>10. e[t] <= e[t] /\ e[m] <= e[m] /\ (e[m] <= e[t] \/ e[t] <= e[m])
    <3> DEFINE x == e[t]
               y == e[m]
    <3> HIDE DEF x, y
    <3>1. x \in Nat /\ y \in Nat
      BY <2>9 DEF x, y
    <3>2. x <= x /\ y <= y /\ (y <= x \/ x <= y)
      BY <3>1
    <3> QED  BY <3>2 DEF x, y
  <2>11. (\A u \in 0..(n - 1) : u <= m => e[u] <= e[t]) \/ (\A u \in 0..(n - 1) : u <= m => e[u] <= e[m])
    BY <2>2, <2>8, <2>10
  <2> QED  BY <2>2, <2>11
<1>3. Top(n - 1)
  <2>1. n - 1 \in 0..(n - 1)
    OBVIOUS
  <2> HIDE DEF Top
  <2> QED  BY <1>2, <2>1
<1>4. \A u \in 0..(n - 1) : u <= n - 1
  OBVIOUS
<1> QED  BY <1>3, <1>4

(* An object ends where the last of its chunks does.                       *)
LEMMA ObjectSizeIs ==
  ASSUME raster \in Files, LayoutRead, MeritLayout, NEW v \in DOMAIN raster.uploads
  PROVE  /\ ObjectSize(v) \in Nat
         /\ \A t \in Grid : Upload(v).offset[t] + Upload(v).length[t] <= ObjectSize(v)
<1> DEFINE n == TilesAcross * TilesDown
           e == [t \in 0..(n - 1) |-> Upload(v).offset[t] + Upload(v).length[t]]
           ends == {Upload(v).offset[t] + Upload(v).length[t] : t \in DOMAIN Upload(v).offset}
<1>1. Upload(v).offset \in [Grid -> Nat] /\ Upload(v).length \in [Grid -> Nat] /\ Grid = 0..(n - 1)
  BY UploadIs DEF Grid
<1>2. n \in Nat \ {0}
  BY GridIs, HeaderIs
<1> HIDE DEF n
<1>3. e \in [0..(n - 1) -> Nat]
  <2>1. \A t \in Grid : Upload(v).offset[t] \in Nat /\ Upload(v).length[t] \in Nat
    BY <1>1
  <2>2. \A t \in Grid : Upload(v).offset[t] + Upload(v).length[t] \in Nat
    BY <2>1
  <2> QED  BY <1>1, <2>2
<1>4. PICK t \in 0..(n - 1) : \A u \in 0..(n - 1) : e[u] <= e[t]
  <2> HIDE DEF e
  <2> QED  BY <1>2, <1>3, Greatest
<1>5. ends = {e[u] : u \in 0..(n - 1)} /\ e[t] \in Nat
  BY <1>1, <1>3
<1> DEFINE size1 == Max(ends)
<1>6. size1 \in ends /\ \A x \in ends : size1 >= x
  <2>1. e[t] \in ends /\ \A x \in ends : e[t] >= x
    <3>1. \A u \in 0..(n - 1) : e[u] \in Nat
      BY <1>3
    <3> HIDE DEF e, ends
    <3> QED  BY <1>4, <1>5, <3>1
  <2> HIDE DEF e, ends
  <2> QED  BY <2>1 DEF Max
<1>7. \A x \in ends : x \in Nat
  BY <1>3, <1>5
<1>8. ObjectSize(v) = size1
  BY DEF ObjectSize
<1>9. \A u \in Grid : Upload(v).offset[u] + Upload(v).length[u] \in ends
  BY <1>1
<1> HIDE DEF ends, size1
<1>10. size1 \in Nat /\ \A x \in ends : x <= size1
  BY <1>6, <1>7
<1> QED  BY <1>8, <1>9, <1>10

(* What the property asks of a call: the kind of the file, and a box that  *)
(* meets its extent.                                                       *)
Suited ==
  /\ (Sample \in {"u8", "i8"}) = (kind = "flow_dir")
  /\ ~(box.east < Extent.west) /\ ~(box.west > Extent.east)
  /\ ~(box.north < Extent.south) /\ ~(box.south > Extent.north)

LEMMA SupportedIs ==
  SupportedIsRead <=> (phase = "failed" /\ ~lost /\ since = 1 /\ Documented => ~Suited)
  BY DEF SupportedIsRead, Suited

LEMMA DocumentedLayout ==
  ASSUME raster \in Files, kind \in Kinds, Documented, Suited, size = ObjectSize(1)
  PROVE  LayoutRead /\ MeritLayout
<1>1. \A tag \in DOMAIN raster.fields : Field(tag).count \in Nat /\ Value(tag) \in Nat
  BY CogWindowAssumption DEF Stored, Field, Value
<1>2. /\ raster.magic \in {"classic", "big"} /\ Cardinality(DOMAIN raster.fields) \in 1..MaxEntries
      /\ raster.ifdEnd <= size /\ size >= 16
  BY DEF Documented
<1>3. /\ Scalars \subseteq DOMAIN raster.fields
      /\ {"Scale", "Tiepoint", "TileOffsets", "TileByteCounts"} \subseteq DOMAIN raster.fields
  <2>1. Scalars \subseteq DOMAIN raster.fields
    BY DEF Documented, Scalar
  <2> QED  BY <2>1 DEF Documented
<1>4. \A tag \in DOMAIN raster.fields :
        Width(Field(tag).type) # 0 /\ (Inline(tag) \/ Value(tag) + Bytes(Field(tag)) <= size)
  BY DEF Documented
<1>5. \A tag \in Scalars : Scalar(tag)
  BY DEF Documented
<1>6. /\ Field("Scale").type = "DOUBLE" /\ Field("Scale").count = 3 /\ Bytes(Field("Scale")) <= MaxValue
      /\ Field("Tiepoint").type = "DOUBLE" /\ Field("Tiepoint").count = 6 /\ Bytes(Field("Tiepoint")) <= MaxValue
  BY DEF Documented
<1>7. ~Inline("Scale") /\ ~Inline("Tiepoint")
  <2>1. Bytes(Field("Scale")) = 24 /\ Bytes(Field("Tiepoint")) = 48
    BY <1>6 DEF Bytes, Width
  <2>2. InlineWidth(raster.magic) \in {4, 8}
    BY DEF InlineWidth
  <2> QED  BY <2>1, <2>2 DEF Inline
<1>8. Doubles("Scale", 3) /\ Doubles("Tiepoint", 6)
  BY <1>3, <1>4, <1>6, <1>7 DEF Doubles
<1>9. Columns \in Nat \ {0} /\ Rows \in Nat \ {0}
  <2>1. {"ImageWidth", "ImageLength"} \subseteq Scalars /\ Columns # 0 /\ Rows # 0
    BY DEF Documented, Scalars
  <2> QED  BY <1>1, <1>3, <2>1 DEF Columns, Rows
<1>10. TilesAcross * TilesDown \in Nat \ {0}
  BY <1>9, GridIs
<1>11. \A tag \in {"TileOffsets", "TileByteCounts"} :
         Field(tag).type \in {"LONG", "LONG8"} /\ Field(tag).count = TilesAcross * TilesDown
  BY DEF Documented
<1>12. Descriptor("TileOffsets") /\ Descriptor("TileByteCounts")
  BY <1>3, <1>4, <1>10, <1>11 DEF Descriptor
<1>13. Text("Nodata")
  BY <1>4 DEF Documented, Text
<1>14. /\ \/ Sample \in {"u8", "i8", "i32"} /\ Value("Predictor") \in {1, 2}
          \/ Sample = "f32" /\ Value("Predictor") \in {1, 3}
       /\ Sample # Unset
  <2>1. \/ Sample \in {"u8", "i8", "i32"} /\ Value("Predictor") \in {1, 2}
        \/ Sample = "f32" /\ Value("Predictor") \in {1, 3}
    BY DEF Documented
  <2> QED  BY <2>1, UnsetIs
<1>15. /\ Value("Photometric") = 1 /\ Value("SamplesPerPixel") = 1 /\ Value("PlanarConfig") = 1
       /\ Value("Compression") \in {8, 32946} /\ Value("TileWidth") = Side /\ Value("TileLength") = Side
  BY DEF Documented
<1>16. LayoutRead
  BY <1>2, <1>4, <1>5, <1>8, <1>9, <1>11, <1>12, <1>13, <1>14, <1>15 DEF LayoutRead, Columns, Rows
<1>17. MeritLayout
  BY <1>11, <1>14, <1>15 DEF MeritLayout, Suited
<1> QED  BY <1>16, <1>17

(* The number of tiles under a window is that of the raster at most.       *)
LEMMA ProductLeq ==
  ASSUME NEW a \in Nat, NEW b \in Nat, NEW c \in Nat, NEW d \in Nat, a <= c, b <= d
  PROVE  a * b \in Nat /\ c * d \in Nat /\ a * b <= c * d
<1>1. a * b <= a * d /\ a * b \in Int /\ a * d \in Int
  BY Product
<1>2. d * a <= d * c /\ d * a = a * d /\ d * c = c * d /\ c * d \in Int
  <2>1. d * a <= d * c /\ d * c \in Int
    BY Product
  <2>2. d * a = a * d /\ d * c = c * d
    BY Z3
  <2> QED  BY <2>1, <2>2
<1>3. 0 <= a * b /\ 0 <= c * d
  <2>1. a * 0 <= a * b /\ a * 0 = 0
    BY Product
  <2>2. c * 0 <= c * d /\ c * 0 = 0
    BY Product
  <2> QED  BY <2>1, <2>2
<1> DEFINE p == a * b
           q == a * d
           r == c * d
           s == d * a
           t == d * c
<1> HIDE DEF p, q, r, s, t
<1>4. p <= q /\ p \in Int /\ q \in Int /\ s <= t /\ s = q /\ t = r /\ r \in Int /\ 0 <= p /\ 0 <= r
  BY <1>1, <1>2, <1>3 DEF p, q, r, s, t
<1>5. p \in Nat /\ r \in Nat /\ p <= r
  BY <1>4
<1> QED  BY <1>5 DEF p, r

LEMMA DocumentedPlanned ==
  ASSUME raster \in Files, box \in Boxes, Documented, Suited, LayoutRead, MeritLayout
  PROVE  Planned
<1>1. /\ Columns \in Nat \ {0} /\ Rows \in Nat \ {0} /\ OriginX \in Int /\ OriginY \in Int
      /\ ScaleX \in Nat \ {0} /\ ScaleY \in Nat \ {0} /\ NorthUp
  BY HeaderIs DEF Documented, NorthUp
<1>2. /\ box.west \in Int /\ box.east \in Int /\ box.south \in Int /\ box.north \in Int
      /\ box.west <= box.east /\ box.south <= box.north
  BY CogWindowAssumption
<1>3. /\ Columns * ScaleX = ScaleX * Columns /\ ScaleX * Columns \in Int
      /\ Rows * ScaleY = ScaleY * Rows /\ ScaleY * Rows \in Int
  BY <1>1, Product
<1> DEFINE w == box.west - OriginX
           e == box.east - OriginX
           n == OriginY - box.north
           s == OriginY - box.south
<1>4. /\ w \in Int /\ e \in Int /\ w <= e /\ 0 <= e /\ w <= ScaleX * Columns
      /\ n \in Int /\ s \in Int /\ n <= s /\ 0 <= s /\ n <= ScaleY * Rows
  <2> DEFINE x == ScaleX * Columns
             y == ScaleY * Rows
  <2>1. /\ ~(box.east < OriginX) /\ ~(box.west > OriginX + x)
        /\ ~(box.north < OriginY - y) /\ ~(box.south > OriginY)
    BY <1>3 DEF Suited, Extent
  <2>2. x \in Int /\ y \in Int
    BY <1>3
  <2> HIDE DEF x, y
  <2>3. /\ w \in Int /\ e \in Int /\ w <= e /\ 0 <= e /\ w <= x
        /\ n \in Int /\ s \in Int /\ n <= s /\ 0 <= s /\ n <= y
    BY <1>1, <1>2, <2>1, <2>2
  <2> QED  BY <2>3 DEF x, y
<1>5. Across = Span(w, e, ScaleX, Columns) /\ Down = Span(n, s, ScaleY, Rows)
  BY DEF Across, Down
<1> HIDE DEF w, e, n, s
<1>6. Across.off \in Nat /\ Across.len \in Nat \ {0} /\ Across.off + Across.len <= Columns
  <2>1. w \in Int /\ e \in Int /\ w <= e /\ 0 <= e /\ w <= ScaleX * Columns
        /\ Columns \in Nat /\ Columns # 0 /\ ScaleX \in Nat \ {0}
    BY <1>1, <1>4
  <2> DEFINE z == Span(w, e, ScaleX, Columns)
  <2>2. z.off \in Nat /\ z.len \in Nat /\ z.off + z.len <= Columns /\ z.len # 0
    BY <2>1, SpanIs
  <2> QED  BY <1>5, <2>2
<1>7. Down.off \in Nat /\ Down.len \in Nat \ {0} /\ Down.off + Down.len <= Rows
  <2>1. n \in Int /\ s \in Int /\ n <= s /\ 0 <= s /\ n <= ScaleY * Rows
        /\ Rows \in Nat /\ Rows # 0 /\ ScaleY \in Nat \ {0}
    BY <1>1, <1>4
  <2> DEFINE z == Span(n, s, ScaleY, Rows)
  <2>2. z.off \in Nat /\ z.len \in Nat /\ z.off + z.len <= Rows /\ z.len # 0
    BY <2>1, SpanIs
  <2> QED  BY <1>5, <2>2
<1> DEFINE cols == Cardinality(TileAxis(Across))
           rows == Cardinality(TileAxis(Down))
<1>8. TilesAcross \in Nat /\ TilesDown \in Nat
  BY <1>1, GridIs
<1>9. cols \in Nat /\ cols <= TilesAcross
  <2> DEFINE lo == Across.off \div Side
             hi == (Across.off + Across.len - 1) \div Side
  <2>1. lo \in Nat /\ hi \in Nat /\ lo <= hi /\ hi < TilesAcross /\ cols = hi - lo + 1
    BY <1>1, <1>6, TileAxisIs DEF TilesAcross
  <2> HIDE DEF lo, hi, cols
  <2> QED  BY <1>8, <2>1
<1>10. rows \in Nat /\ rows <= TilesDown
  <2> DEFINE lo == Down.off \div Side
             hi == (Down.off + Down.len - 1) \div Side
  <2>1. lo \in Nat /\ hi \in Nat /\ lo <= hi /\ hi < TilesDown /\ rows = hi - lo + 1
    BY <1>1, <1>7, TileAxisIs DEF TilesDown
  <2> HIDE DEF lo, hi, rows
  <2> QED  BY <1>8, <2>1
<1> HIDE DEF cols, rows
<1>11. cols * rows \in Nat /\ TilesAcross * TilesDown \in Nat /\ cols * rows <= TilesAcross * TilesDown
  BY <1>8, <1>9, <1>10, ProductLeq
<1>12. cols * rows <= MaxTiles
  <2>1. TilesAcross * TilesDown <= MaxTiles
    BY DEF Documented
  <2> DEFINE p == cols * rows
             q == TilesAcross * TilesDown
  <2>2. MaxTiles \in Nat
    BY CogWindowAssumption
  <2> HIDE DEF p, q
  <2>3. p \in Nat /\ q \in Nat /\ p <= q /\ q <= MaxTiles
    BY <1>11, <2>1 DEF p, q
  <2>4. p <= MaxTiles
    BY <2>2, <2>3
  <2> QED  BY <2>4 DEF p
<1> QED  BY <1>1, <1>6, <1>7, <1>12 DEF Planned, cols, rows

LEMMA PlanOnGrid ==
  ASSUME raster \in Files, box \in Boxes, LayoutRead, MeritLayout, Planned
  PROVE  \A k \in DOMAIN Plan : Plan[k] \in Grid
<1> TAKE k \in DOMAIN Plan
<1>1. PICK x \in TileCols, y \in TileRows : Plan[k] = At(x, y)
  BY PlanIs
<1>2. x \in Nat /\ x < TilesAcross /\ y \in Nat /\ y < TilesDown
  BY PlanIs
<1>3. TilesAcross \in Int /\ TilesDown \in Int
  BY HeaderIs
<1> QED  BY <1>1, <1>2, <1>3, AtIs

LEMMA DocumentedAccepted ==
  ASSUME raster \in Files, box \in Boxes, kind \in Kinds, Documented, Suited, size = ObjectSize(1)
  PROVE  Accepted
<1>1. LayoutRead /\ MeritLayout
  BY DocumentedLayout
<1>2. Planned
  BY <1>1, DocumentedPlanned
<1>3. ASSUME NEW k \in DOMAIN Plan, NEW tag \in {"TileOffsets", "TileByteCounts"}
      PROVE  IF Inline(tag) THEN Field(tag).count = 1 /\ Plan[k] = 0
             ELSE /\ Plan[k] < Field(tag).count
                  /\ Value(tag) + (Plan[k] + 1) * Width(Field(tag).type) <= size
  <2> DEFINE n == TilesAcross * TilesDown
             t == Plan[k]
             wide == Width(Field(tag).type)
  <2>1. n \in Nat \ {0} /\ t \in 0..(n - 1)
    BY <1>1, <1>2, HeaderIs, GridIs, PlanOnGrid DEF Grid
  <2>2. Field(tag).count = n
    BY <1>1, HeaderIs
  <2>3. Inline(tag) => n = 1
    BY DEF Documented
  <2>4. tag \in DOMAIN raster.fields /\ Field(tag).type \in {"LONG", "LONG8"}
    BY DEF Documented
  <2>5. ~Inline(tag) => Value(tag) + n * wide <= size
    BY <2>2, <2>4 DEF Documented, Bytes
  <2>6. Value(tag) \in Nat
    BY <2>4, CogWindowAssumption DEF Stored, Field, Value
  <2>7. wide \in {4, 8}
    BY <2>4 DEF Width
  <2>8. size \in Nat
    <3>1. 1 \in DOMAIN raster.uploads
      BY <1>1, UploadIs
    <3> QED  BY <1>1, <3>1, ObjectSizeIs
  <2> HIDE DEF n, t, wide
  <2>9. (t + 1) * wide \in Nat /\ n * wide \in Nat /\ (t + 1) * wide <= n * wide
    <3>1. t + 1 \in Nat /\ t + 1 <= n /\ wide \in Nat /\ wide <= wide /\ n \in Nat
      BY <2>1, <2>7
    <3> QED  BY <3>1, ProductLeq
  <2>10. CASE Inline(tag)
    BY <2>1, <2>2, <2>3, <2>10 DEF t
  <2>11. CASE ~Inline(tag)
    <3>1. t < n
      BY <2>1
    <3>2. Value(tag) + (t + 1) * wide <= size
      <4> DEFINE p == (t + 1) * wide
                 q == n * wide
      <4>1. p \in Nat /\ q \in Nat /\ p <= q /\ Value(tag) + q <= size
        BY <2>5, <2>9, <2>11
      <4> HIDE DEF p, q
      <4>2. Value(tag) + p <= size
        BY <2>6, <2>8, <4>1
      <4> QED  BY <4>2 DEF p
    <3> QED  BY <2>2, <2>11, <3>1, <3>2 DEF t, wide
  <2> QED  BY <2>10, <2>11
<1>4. EntriesReadable
  BY <1>3 DEF EntriesReadable
<1> QED  BY <1>1, <1>2, <1>4 DEF Accepted

(* What a tile is encoded to is not what is no chunk at all.               *)
LEMMA EncodedIs ==
  ASSUME raster \in Files, LayoutRead, MeritLayout, NEW v \in DOMAIN raster.uploads, NEW t
  PROVE  Encoded(v, t) # Garbage
<1>1. Side \in Nat \ {0} /\ Value("Predictor") \in {1, 2, 3}
  BY HeaderIs, SideIs
<1>2. \A n \in Int : n % 16 \in 0..15 /\ n % 4 \in 0..3
  OBVIOUS
<1>3. ASSUME NEW r \in 1..Side
      PROVE  Padded(v, t, r) \in [1..Side -> 0..15]
  <2>1. \A p \in DOMAIN Upload(v).pixels : Upload(v).pixels[p] \in 0..15
    BY UploadIs
  <2> QED  BY <2>1 DEF Padded
<1>4. ASSUME NEW row \in [1..Side -> 0..15]
      PROVE  Packed(row) \in [1..Side -> 0..15] \cup [1..(2 * Side) -> 0..3]
  <2>1. CASE Value("Predictor") = 1
    BY <2>1 DEF Packed
  <2>2. CASE Value("Predictor") = 2
    <3>1. Packed(row) = [c \in 1..Side |-> IF c = 1 THEN row[1] ELSE (row[c] - row[c - 1]) % 16]
      BY <2>2 DEF Packed
    <3>2. ASSUME NEW c \in 1..Side, c # 1
          PROVE  (row[c] - row[c - 1]) % 16 \in 0..15
      <4>1. c - 1 \in 1..Side
        BY <1>1, <3>2
      <4>2. row[c] \in Int /\ row[c - 1] \in Int
        BY <4>1
      <4>3. row[c] - row[c - 1] \in Int
        BY <4>2
      <4> QED  BY <1>2, <4>3
    <3>3. row[1] \in 0..15
      BY <1>1
    <3>4. Packed(row) \in [1..Side -> 0..15]
      BY <3>1, <3>2, <3>3
    <3> QED  BY <3>4
  <2>3. CASE Value("Predictor") = 3
    <3> DEFINE Byte(i) == IF i <= Side THEN row[i] \div 4 ELSE row[i - Side] % 4
    <3>1. Packed(row) = [i \in 1..(2 * Side) |-> IF i = 1 THEN Byte(1) ELSE (Byte(i) - Byte(i - 1)) % 4]
      BY <2>3 DEF Packed
    <3>2. \A i \in 1..(2 * Side) : Byte(i) \in 0..3
      <4> TAKE i \in 1..(2 * Side)
      <4>1. \A x \in 0..15 : x \div 4 \in 0..3 /\ x % 4 \in 0..3
        OBVIOUS
      <4>2. CASE i <= Side
        <5>1. row[i] \in 0..15
          BY <1>1, <4>2
        <5> QED  BY <4>1, <4>2, <5>1
      <4>3. CASE ~(i <= Side)
        <5>1. i - Side \in 1..Side
          BY <1>1, <4>3
        <5> QED  BY <4>1, <4>3, <5>1
      <4> QED  BY <4>2, <4>3
    <3> HIDE DEF Byte
    <3>3. ASSUME NEW i \in 1..(2 * Side), i # 1
          PROVE  (Byte(i) - Byte(i - 1)) % 4 \in 0..3
      <4>1. i - 1 \in 1..(2 * Side)
        BY <1>1, <3>3
      <4>2. Byte(i) - Byte(i - 1) \in Int
        BY <3>2, <4>1
      <4> QED  BY <1>2, <4>2
    <3>4. 1 \in 1..(2 * Side)
      BY <1>1
    <3> QED  BY <3>1, <3>2, <3>3, <3>4
  <2> QED  BY <1>1, <2>1, <2>2, <2>3
<1>5. Encoded(v, t) \in [1..Side -> [1..Side -> 0..15] \cup [1..(2 * Side) -> 0..3]]
  BY <1>3, <1>4 DEF Encoded
<1> QED  BY <1>5, CogWindowAssumption

-----------------------------------------------------------------------------
(* The compressed bytes of the planned tiles. *)

Taken(k) == ranges[k][2] - ranges[k][1]

(* f sums them, over subsets s of S of at most n tiles. *)
AtMost(S, n) == {s \in SUBSET S : Cardinality(s) <= n}

Adding(f, domain) ==
  f = [s \in domain |-> IF s = {} THEN 0
                        ELSE LET k == CHOOSE j \in s : TRUE IN Taken(k) + f[s \ {k}]]

LEMMA AddingExists ==
  ASSUME NEW S, IsFiniteSet(S)
  PROVE  \A n \in Nat : \E f : Adding(f, AtMost(S, n))
<1> DEFINE Missing == {m \in Nat : ~\E f : Adding(f, AtMost(S, m))}
<1>1. \A s \in SUBSET S : /\ IsFiniteSet(s) /\ Cardinality(s) \in Nat /\ (Cardinality(s) = 0 <=> s = {})
                          /\ \A k \in s : Cardinality(s \ {k}) = Cardinality(s) - 1
  BY FS_Subset, FS_CardinalityType, FS_EmptySet, FS_RemoveElement
<1>2. Missing = {}
  <2> SUFFICES ASSUME Missing # {} PROVE FALSE
    OBVIOUS
  <2>1. PICK m \in Missing : \A j \in Missing : m <= j
    <3>1. Missing \in SUBSET Nat
      OBVIOUS
    <3> HIDE DEF Missing
    <3> QED  BY <3>1, LeastNatural
  <2>2. m \in Nat /\ ~\E f : Adding(f, AtMost(S, m))
    BY <2>1
  <2>3. m # 0
    <3> DEFINE f == [s \in {{}} |-> 0]
    <3>1. AtMost(S, 0) = {{}}
      BY <1>1 DEF AtMost
    <3>2. Adding(f, {{}})
      BY DEF Adding
    <3> HIDE DEF f
    <3> QED  BY <2>2, <3>1, <3>2
  <2>4. PICK f : Adding(f, AtMost(S, m - 1))
    BY <2>1, <2>2, <2>3
  <2> DEFINE Sum(h, s) == IF s = {} THEN 0
                          ELSE LET k == CHOOSE j \in s : TRUE IN Taken(k) + h[s \ {k}]
             g == [s \in AtMost(S, m) |-> Sum(f, s)]
  <2>5. ASSUME NEW s \in AtMost(S, m) PROVE Sum(f, s) = Sum(g, s)
    <3>1. CASE s = {}
      BY <3>1
    <3>2. CASE s # {}
      <4> DEFINE k == CHOOSE j \in s : TRUE
      <4>1. k \in s
        BY <3>2
      <4>2. Cardinality(s \ {k}) = Cardinality(s) - 1 /\ Cardinality(s) <= m /\ Cardinality(s) \in Nat
        BY <1>1, <4>1 DEF AtMost
      <4>3. s \ {k} \in AtMost(S, m - 1) /\ s \ {k} \in AtMost(S, m)
        <5> HIDE DEF k
        <5>1. s \ {k} \in SUBSET S
          BY DEF AtMost
        <5>2. Cardinality(s \ {k}) <= m - 1 /\ Cardinality(s \ {k}) <= m
          BY <2>2, <4>2
        <5> QED  BY <5>1, <5>2 DEF AtMost
      <4>4. f[s \ {k}] = Sum(f, s \ {k})
        BY <2>4, <4>3 DEF Adding
      <4>5. g[s \ {k}] = Sum(f, s \ {k})
        BY <4>3
      <4> HIDE DEF g
      <4> QED  BY <4>4, <4>5
    <3> QED  BY <3>1, <3>2
  <2>6. Adding(g, AtMost(S, m))
    <3>1. g = [s \in AtMost(S, m) |-> Sum(g, s)]
      <4>1. [s \in AtMost(S, m) |-> Sum(f, s)] = [s \in AtMost(S, m) |-> Sum(g, s)]
        <5> HIDE DEF g, Sum
        <5> QED  BY <2>5
      <4> QED  BY <4>1
    <3> HIDE DEF g
    <3> QED  BY <3>1 DEF Adding
  <2> QED  BY <2>2, <2>6
<1> QED  BY <1>2

LEMMA TakenIs ==
  ASSUME NEW S, IsFiniteSet(S)
  PROVE  \E f : Adding(f, SUBSET S) /\ MapThenSumSet(Taken, S) = f[S]
<1>1. AtMost(S, Cardinality(S)) = SUBSET S /\ Cardinality(S) \in Nat
  BY FS_Subset, FS_CardinalityType DEF AtMost
<1>2. \E f : Adding(f, SUBSET S)
  <2>1. \E f : Adding(f, AtMost(S, Cardinality(S)))
    BY <1>1, AddingExists
  <2> QED  BY <1>1, <2>1
<1> DEFINE f == CHOOSE h : h = [s \in SUBSET S |->
                  IF s = {} THEN 0
                  ELSE (ranges[CHOOSE j \in s : TRUE][2] - ranges[CHOOSE j \in s : TRUE][1])
                         + h[s \ {CHOOSE j \in s : TRUE}]]
<1>3. Adding(f, SUBSET S)
  BY <1>2 DEF Adding, Taken
<1>4. MapThenSumSet(Taken, S) = f[S]
  BY DEF MapThenSumSet, MapThenFoldSet, Taken
<1> QED  BY <1>3, <1>4

(* They are no more than as many times the most of a tile. *)
LEMMA TakenAtMost ==
  ASSUME NEW S, IsFiniteSet(S), NEW most \in Nat, \A k \in S : Taken(k) \in 0..most
  PROVE  /\ MapThenSumSet(Taken, S) \in Nat
         /\ MapThenSumSet(Taken, S) <= most * Cardinality(S)
<1>1. PICK f : Adding(f, SUBSET S) /\ MapThenSumSet(Taken, S) = f[S]
  BY TakenIs
<1> DEFINE Fits(s) == f[s] \in Nat /\ f[s] <= most * Cardinality(s)
           Odd == {n \in Nat : \E s \in SUBSET S : Cardinality(s) = n /\ ~Fits(s)}
<1>2. Odd = {}
  <2> SUFFICES ASSUME Odd # {} PROVE FALSE
    OBVIOUS
  <2>1. PICK n \in Odd : \A j \in Odd : n <= j
    <3>1. Odd \in SUBSET Nat
      OBVIOUS
    <3> HIDE DEF Odd
    <3> QED  BY <3>1, LeastNatural
  <2>2. PICK s \in SUBSET S : Cardinality(s) = n /\ ~Fits(s)
    BY <2>1
  <2>3. f[s] = IF s = {} THEN 0
               ELSE LET k == CHOOSE j \in s : TRUE IN Taken(k) + f[s \ {k}]
    BY <1>1 DEF Adding
  <2>4. s # {}
    <3>1. s = {} => f[s] = 0 /\ Cardinality(s) = 0
      BY <2>3, FS_EmptySet
    <3>2. most * 0 = 0
      OBVIOUS
    <3> QED  BY <2>2, <3>1, <3>2
  <2> DEFINE k == CHOOSE j \in s : TRUE
  <2>5. k \in s
    BY <2>4
  <2>6. f[s] = Taken(k) + f[s \ {k}]
    BY <2>3, <2>4
  <2> HIDE DEF k
  <2>7. IsFiniteSet(s) /\ Cardinality(s) \in Nat
    BY FS_Subset, FS_CardinalityType
  <2>8. s \ {k} \in SUBSET S /\ Cardinality(s \ {k}) = n - 1 /\ n - 1 \in Nat
    <3>1. Cardinality(s \ {k}) = n - 1
      BY <2>2, <2>5, <2>7, FS_RemoveElement
    <3>2. n # 0
      BY <2>2, <2>5, <2>7, FS_EmptySet
    <3> QED  BY <2>2, <2>7, <3>1, <3>2
  <2>9. n - 1 \notin Odd
    BY <2>1, <2>8
  <2>10. Fits(s \ {k})
    <3> HIDE DEF Fits
    <3> QED  BY <2>8, <2>9
  <2>11. Taken(k) \in 0..most
    BY <2>5
  <2>12. most * (n - 1) + most <= most * n /\ most * (n - 1) \in Int /\ most * n \in Int
    <3>1. n - 1 \in Int /\ (n - 1) + 1 = n
      BY <2>8
    <3>2. most * ((n - 1) + 1) = most * (n - 1) + most /\ most * (n - 1) \in Int /\ most * n \in Int
      BY <3>1, Product
    <3> QED  BY <3>1, <3>2
  <2>13. f[s] \in Nat /\ f[s] <= most * n
    <3> DEFINE p == most * (n - 1)
               q == most * n
               x == f[s \ {k}]
    <3>1. x \in Nat /\ x <= p /\ p + most <= q /\ p \in Int /\ q \in Int /\ f[s] = Taken(k) + x
      BY <2>6, <2>8, <2>10, <2>12
    <3> HIDE DEF p, q, x
    <3>2. f[s] \in Nat /\ f[s] <= q
      BY <2>11, <3>1
    <3> QED  BY <3>2 DEF q
  <2> QED  BY <2>2, <2>13
<1>3. Cardinality(S) \in Nat /\ S \in SUBSET S
  BY FS_CardinalityType
<1>4. Fits(S)
  <2> HIDE DEF Fits
  <2> QED  BY <1>2, <1>3
<1> QED  BY <1>1, <1>4

(* The plan has no more tiles than the raster.                             *)
LEMMA PlanFits ==
  ASSUME raster \in Files, box \in Boxes, LayoutRead, MeritLayout, Planned
  PROVE  Len(Plan) \in Nat \ {0} /\ Len(Plan) <= TilesAcross * TilesDown
<1> DEFINE n == TilesAcross * TilesDown
           N == Len(Plan)
<1>1. n \in Nat \ {0}
  BY GridIs, HeaderIs
<1>2. N \in Nat \ {0} /\ DOMAIN Plan = 1..N
  BY PlanIs
<1>3. \A k, l \in DOMAIN Plan : Plan[k] = Plan[l] => k = l
  BY PlanIs
<1>4. \A k \in DOMAIN Plan : Plan[k] \in 0..(n - 1)
  BY PlanOnGrid DEF Grid
<1>5. Plan \in Injection(1..N, 0..(n - 1))
  <2>1. Plan = [k \in DOMAIN Plan |-> Plan[k]]
    BY DEF Plan
  <2>2. Plan \in [1..N -> 0..(n - 1)]
    <3> HIDE DEF n, N
    <3> QED  BY <1>2, <1>4, <2>1
  <2>3. IsInjective(Plan)
    BY <1>3 DEF IsInjective
  <2> QED  BY <2>2, <2>3 DEF Injection
<1> HIDE DEF n, N
<1>6. IsFiniteSet(0..(n - 1)) /\ Cardinality(0..(n - 1)) = n
  <2>1. 0 \in Int /\ n - 1 \in Int /\ ~(0 > n - 1) /\ (n - 1) - 0 + 1 = n
    BY <1>1
  <2> QED  BY <2>1, FS_Interval
<1>7. Cardinality(1..N) = N
  <2>1. 1 \in Int /\ N \in Int /\ ~(1 > N) /\ N - 1 + 1 = N
    BY <1>2
  <2> QED  BY <2>1, FS_Interval
<1>8. Cardinality(1..N) <= Cardinality(0..(n - 1))
  BY <1>5, <1>6, FS_Injection
<1> QED  BY <1>1, <1>2, <1>6, <1>7, <1>8 DEF n, N

(* While no upload comes between, every range is a chunk of the first,     *)
(* and the window fits.                                                    *)
LEMMA DocumentedRead ==
  ASSUME Accepted, Documented, Suited, size = ObjectSize(1), since = 1, RangesAre
  PROVE  RangesSound /\ Allocated /\ \A k \in DOMAIN ranges : Read(1, ranges[k]) # Garbage
<1> DEFINE n == TilesAcross * TilesDown
           N == Len(Plan)
           O == Upload(1).offset
           L == Upload(1).length
<1>1. raster \in Files /\ box \in Boxes /\ LayoutRead /\ MeritLayout /\ Planned
  BY DEF Accepted
<1>2. 1 \in DOMAIN raster.uploads
  BY <1>1, UploadIs
<1>3. O \in [0..(n - 1) -> Nat] /\ L \in [0..(n - 1) -> Nat] /\ Grid = 0..(n - 1)
  BY <1>1, <1>2, UploadIs DEF Grid
<1>4. n \in Nat \ {0} /\ N \in Nat \ {0} /\ N <= n /\ DOMAIN Plan = 1..N
  BY <1>1, GridIs, HeaderIs, PlanFits, PlanIs
<1>5. DOMAIN ranges = 1..N
  BY <1>4 DEF RangesAre
<1>6. \A t \in 0..(n - 1) : L[t] \in 1..MaxChunk /\ ~Upload(1).broken[t] /\ n * L[t] <= MaxCovered
  <2>1. \A t \in DOMAIN Upload(1).offset :
          /\ Upload(1).length[t] \in 1..MaxChunk /\ ~Upload(1).broken[t]
          /\ TilesAcross * TilesDown * Upload(1).length[t] <= MaxCovered
    BY DEF Documented
  <2> QED  BY <1>3, <2>1
<1>7. MaxCovered \in Nat /\ MaxChunk \in Nat /\ MaxWindow \in Nat
  BY CogWindowAssumption
<1>8. size \in Nat /\ \A t \in 0..(n - 1) : O[t] + L[t] <= size
  BY <1>1, <1>2, <1>3, ObjectSizeIs
<1>9. ASSUME NEW k \in DOMAIN ranges
      PROVE  /\ Plan[k] \in 0..(n - 1)
             /\ ranges[k] = <<O[Plan[k]], O[Plan[k]] + L[Plan[k]]>>
             /\ Taken(k) = L[Plan[k]]
  <2>1. k \in DOMAIN Plan
    BY <1>4, <1>5
  <2>2. Plan[k] \in 0..(n - 1)
    BY <1>1, <1>3, <2>1, PlanOnGrid
  <2>3. ranges[k] = <<O[Plan[k]], O[Plan[k]] + L[Plan[k]]>>
    <3>1. 1..since = {1}
      OBVIOUS
    <3> QED  BY <2>1, <3>1 DEF RangesAre
  <2>4. O[Plan[k]] \in Nat /\ L[Plan[k]] \in Nat
    BY <1>3, <2>2
  <2>5. Taken(k) = (O[Plan[k]] + L[Plan[k]]) - O[Plan[k]]
    BY <2>3 DEF Taken
  <2> HIDE DEF O, L
  <2> QED  BY <2>2, <2>3, <2>4, <2>5
<1> HIDE DEF n, N, O, L
<1>10. \A k \in DOMAIN ranges : Taken(k) \in 1..MaxChunk /\ ranges[k][2] <= size
  BY <1>6, <1>8, <1>9
<1>11. MapThenSumSet(Taken, DOMAIN ranges) <= MaxCovered
  <2>1. PICK t \in 0..(n - 1) : \A u \in 0..(n - 1) : L[u] <= L[t]
    BY <1>3, <1>4, Greatest
  <2>2. L[t] \in Nat /\ n * L[t] <= MaxCovered
    BY <1>3, <1>6
  <2>3. IsFiniteSet(DOMAIN ranges) /\ Cardinality(DOMAIN ranges) = N
    <3>1. 1 \in Int /\ N \in Int /\ ~(1 > N) /\ N - 1 + 1 = N
      BY <1>4
    <3> QED  BY <1>5, <3>1, FS_Interval
  <2>4. \A k \in DOMAIN ranges : Taken(k) \in 0..L[t]
    <3> TAKE k \in DOMAIN ranges
    <3>1. Taken(k) = L[Plan[k]] /\ L[Plan[k]] \in Nat /\ L[Plan[k]] <= L[t]
      BY <1>3, <1>9, <2>1
    <3> QED  BY <2>2, <3>1
  <2> DEFINE total == MapThenSumSet(Taken, DOMAIN ranges)
  <2>5. total \in Nat /\ total <= L[t] * N
    BY <2>2, <2>3, <2>4, TakenAtMost
  <2> HIDE DEF total
  <2>6. L[t] * N <= L[t] * n /\ L[t] * N \in Int /\ L[t] * n \in Int
    BY <1>4, <2>2, Product
  <2>7. L[t] * n = n * L[t]
    BY <1>4, <2>2, Z3
  <2>8. total <= MaxCovered
    <3> DEFINE p == L[t] * N
               q == L[t] * n
    <3>1. p \in Int /\ q \in Int /\ p <= q /\ q <= MaxCovered /\ total <= p
      BY <2>2, <2>5, <2>6, <2>7
    <3> HIDE DEF p, q
    <3> QED  BY <1>7, <2>5, <3>1
  <2> QED  BY <2>8 DEF total
<1>12. RangesSound
  <2>1. MapThenSumSet(Taken, DOMAIN ranges)
          = LET Length(k) == ranges[k][2] - ranges[k][1] IN MapThenSumSet(Length, DOMAIN ranges)
    BY DEF Taken, MapThenSumSet, MapThenFoldSet
  <2> QED  BY <1>10, <1>11, <2>1 DEF RangesSound, Taken
<1>13. Allocated
  <2>1. /\ Sample = "u8" => Nodata \in 0..15
        /\ Sample = "i8" => Nodata \in -8..7
        /\ 4 * (Columns * Rows) <= MaxWindow
    BY DEF Documented
  <2>2. /\ Across.len \in Nat /\ Across.len <= Columns /\ Columns \in Nat
        /\ Down.len \in Nat /\ Down.len <= Rows /\ Rows \in Nat
    <3>1. /\ Across.off \in Nat /\ Across.len \in Nat \ {0} /\ Across.off + Across.len <= Columns
          /\ Down.off \in Nat /\ Down.len \in Nat \ {0} /\ Down.off + Down.len <= Rows
      BY <1>1, WindowIs
    <3>2. Columns \in Nat /\ Rows \in Nat
      BY <1>1, HeaderIs
    <3> QED  BY <3>1, <3>2
  <2> DEFINE p == Across.len * Down.len
             q == Columns * Rows
  <2>3. p \in Nat /\ q \in Nat /\ p <= q
    BY <2>2, ProductLeq
  <2> HIDE DEF p, q
  <2>4. 4 * q <= MaxWindow
    BY <2>1 DEF q
  <2>5. p * 1 <= MaxWindow /\ p * 4 <= MaxWindow
    BY <1>7, <2>3, <2>4
  <2>6. p * (IF kind = "flow_dir" THEN 1 ELSE 4) <= MaxWindow
    BY <2>5
  <2> QED  BY <2>1, <2>6 DEF Allocated, p
<1>14. ASSUME NEW k \in DOMAIN ranges
       PROVE  Read(1, ranges[k]) # Garbage
  <2> DEFINE starts == {t \in DOMAIN Upload(1).offset :
                          /\ Upload(1).offset[t] = ranges[k][1] /\ Upload(1).length[t] # 0
                          /\ ~Upload(1).broken[t]
                          /\ ranges[k][1] + Upload(1).stream[t] <= ranges[k][2]}
             t == Plan[k]
  <2>1. /\ t \in 0..(n - 1) /\ ranges[k][1] = O[t] /\ ranges[k][2] = O[t] + L[t]
        /\ O[t] \in Nat /\ L[t] \in Nat /\ L[t] # 0 /\ ~Upload(1).broken[t]
    BY <1>3, <1>6, <1>9
  <2>2. /\ Upload(1).stream[t] \in Nat /\ Upload(1).stream[t] <= L[t]
        /\ DOMAIN Upload(1).offset = 0..(n - 1)
    BY <1>1, <1>2, <1>3, <2>1, UploadIs DEF O, L
  <2>3. ranges[k][1] + Upload(1).stream[t] <= ranges[k][2]
    BY <2>1, <2>2
  <2>4. t \in starts
    BY <2>1, <2>2, <2>3 DEF O, L
  <2>5. ranges[k][2] <= ObjectSize(1)
    BY <1>8, <2>1
  <2>6. Read(1, ranges[k]) = Encoded(1, CHOOSE other \in starts : TRUE)
    BY <2>4, <2>5 DEF Read
  <2> HIDE DEF starts
  <2> QED  BY <1>1, <1>2, <2>6, EncodedIs
<1> QED  BY <1>12, <1>13, <1>14

-----------------------------------------------------------------------------
LEMMA SameDocumented ==
  ASSUME UNCHANGED <<raster, box, kind>>
  PROVE  Documented' = Documented /\ Suited' = Suited /\ ObjectSize(1)' = ObjectSize(1)
<1>1. ObjectSize(1)' = ObjectSize(1)
  BY SameHeader DEF ObjectSize
<1>2. NorthUp' = NorthUp /\ Extent' = Extent
  BY SameHeader DEF NorthUp, Extent
<1>3. \A tag : Scalar(tag)' = Scalar(tag)
  BY SameHeader DEF Scalar
<1>4. Documented' = Documented
  BY <1>1, <1>2, <1>3, SameHeader DEF Documented
<1>5. Suited' = Suited
  BY <1>2, SameHeader DEF Suited
<1> QED  BY <1>1, <1>4, <1>5

(* Inductive: until there is another upload, the size is the first one's.  *)
SupportedInv ==
  /\ ReadInv
  /\ phase \in {"layout", "index", "tiles"} /\ since = 1 => size = ObjectSize(1)
  /\ SupportedIsRead

LEMMA SupportedInitInv == ReadInit => SupportedInv
<1> SUFFICES ASSUME ReadInit PROVE SupportedInv
  OBVIOUS
<1>1. phase = "head"
  BY DEF ReadInit
<1> QED  BY <1>1, ReadInitInv DEF SupportedInv, SupportedIsRead

LEMMA SupportedStepInv == SupportedInv /\ [ReadNext]_readVars => SupportedInv'
<1> SUFFICES ASSUME SupportedInv, [ReadNext]_readVars PROVE SupportedInv'
  OBVIOUS
<1>1. ReadInv /\ ReadInv'
  BY ReadStepInv DEF SupportedInv
<1>2. /\ raster \in Files /\ box \in Boxes /\ kind \in Kinds
      /\ object \in DOMAIN raster.uploads /\ since \in 1..object
      /\ DOMAIN raster.uploads = 1..Len(raster.uploads) /\ Len(raster.uploads) \in Nat
  <2>1. /\ raster \in Files /\ box \in Boxes /\ kind \in Kinds
        /\ object \in DOMAIN raster.uploads /\ since \in 1..object
    BY <1>1 DEF ReadInv, ReadTypeOK
  <2>2. Stored(raster)
    BY <2>1, CogWindowAssumption
  <2> QED  BY <2>1, <2>2 DEF Stored
<1>3. object = 1 => since = 1
  BY <1>2
<1>4. CASE HeadObject
  <2>1. phase' = "layout" /\ since' = object /\ size' = ObjectSize(object) /\ UNCHANGED <<raster, box, kind>>
    BY <1>4 DEF HeadObject, Goto
  <2>2. ObjectSize(1)' = ObjectSize(1)
    BY <2>1, SameDocumented
  <2> QED  BY <1>1, <2>1, <2>2 DEF SupportedInv, SupportedIsRead
<1>5. CASE Layout
  <2>1. /\ phase = "layout" /\ since' = object /\ UNCHANGED <<raster, box, kind, size>>
        /\ phase' = IF LayoutRead /\ MeritLayout /\ Planned /\ EntriesReadable THEN "index" ELSE "failed"
    BY <1>5 DEF Layout, Goto
  <2>2. Documented' = Documented /\ Suited' = Suited /\ ObjectSize(1)' = ObjectSize(1)
    BY <2>1, SameDocumented
  <2>3. since' = 1 => size = ObjectSize(1)
    BY <1>3, <2>1 DEF SupportedInv
  <2>4. ASSUME since' = 1, Documented, Suited
        PROVE  phase' = "index"
    <3>1. Accepted
      BY <1>2, <2>3, <2>4, DocumentedAccepted
    <3> QED  BY <2>1, <3>1 DEF Accepted
  <2>5. (phase = "failed" /\ ~lost /\ since = 1 /\ Documented => ~Suited)'
    BY <2>2, <2>4
  <2>6. SupportedIsRead'
    BY <2>5, SupportedIs, PTL
  <2> QED  BY <1>1, <2>1, <2>2, <2>3, <2>6 DEF SupportedInv
<1>6. CASE Index
  <2>1. phase = "index" /\ phase' = "tiles" /\ since' = object /\ UNCHANGED <<raster, box, kind, size>>
    BY <1>6 DEF Index, Goto
  <2>2. ObjectSize(1)' = ObjectSize(1)
    BY <2>1, SameDocumented
  <2> QED  BY <1>1, <1>3, <2>1, <2>2 DEF SupportedInv, SupportedIsRead
<1>7. CASE Tiles
  <2>1. phase = "tiles" /\ since' = object /\ UNCHANGED <<raster, box, kind, size>> /\ Accepted /\ RangesAre
    BY <1>1, <1>7 DEF Tiles, Goto, ReadInv
  <2>2. Documented' = Documented /\ Suited' = Suited /\ ObjectSize(1)' = ObjectSize(1)
    BY <2>1, SameDocumented
  <2>3. phase' \in {"done", "failed"}
    BY <1>7 DEF Tiles, Goto
  <2>4. ASSUME since' = 1, Documented, Suited
        PROVE  phase' = "done"
    <3>1. object = 1 /\ since = 1 /\ size = ObjectSize(1)
      BY <1>3, <2>1, <2>4 DEF SupportedInv
    <3>2. RangesSound /\ Allocated /\ \A k \in DOMAIN ranges : Read(1, ranges[k]) # Garbage
      BY <2>1, <2>4, <3>1, DocumentedRead
    <3>3. DOMAIN ranges = 1..Len(ranges)
      BY <2>1, PlanIs DEF Accepted, RangesAre
    <3>4. PICK at \in Answers(Len(ranges)) :
            LET chunks == [k \in DOMAIN ranges |-> Read(at[k], ranges[k])] IN
            RangesSound /\ Garbage \notin Range(chunks) /\ Allocated => phase' = "done"
      BY <1>7 DEF Tiles, Goto
    <3>5. \A k \in DOMAIN ranges : at[k] = 1
      <4>1. since..object = {1}
        BY <3>1
      <4> QED  BY <3>3, <4>1 DEF Answers
    <3> DEFINE chunks == [k \in DOMAIN ranges |-> Read(at[k], ranges[k])]
    <3>6. Garbage \notin Range(chunks)
      BY <3>2, <3>5 DEF Range
    <3> QED  BY <3>2, <3>4, <3>6
  <2>5. (phase = "failed" /\ ~lost /\ since = 1 /\ Documented => ~Suited)'
    BY <2>2, <2>4
  <2>6. SupportedIsRead'
    BY <2>5, SupportedIs, PTL
  <2> QED  BY <1>1, <2>3, <2>6 DEF SupportedInv
<1>8. CASE Lose
  <2>1. phase' = "failed" /\ lost' = TRUE
    BY <1>8 DEF Lose
  <2> QED  BY <1>1, <2>1 DEF SupportedInv, SupportedIsRead
<1>9. ASSUME Reupload \/ UNCHANGED readVars
      PROVE  SupportedInv'
  <2>1. UNCHANGED <<raster, box, kind, since, size, lost, phase>>
    BY <1>9 DEF Reupload, readVars
  <2>2. Documented' = Documented /\ Suited' = Suited /\ ObjectSize(1)' = ObjectSize(1)
    BY <2>1, SameDocumented
  <2>3. phase = "failed" /\ ~lost /\ since = 1 /\ Documented => ~Suited
    BY SupportedIs DEF SupportedInv
  <2>4. (phase = "failed" /\ ~lost /\ since = 1 /\ Documented => ~Suited)'
    BY <2>1, <2>2, <2>3
  <2>5. SupportedIsRead'
    BY <2>4, SupportedIs, PTL
  <2> QED  BY <1>1, <2>1, <2>2, <2>5 DEF SupportedInv
<1> QED  BY <1>4, <1>5, <1>6, <1>7, <1>8, <1>9 DEF ReadNext

(* A file of the documented layout and of the kind asked for, under a box  *)
(* that meets its extent, is read, unless a request fails or the object is *)
(* uploaded anew in between (read_remote_layout, validate_merit_layout,    *)
(* resolve_tile_plan, validate_compressed_ranges, decode_window).          *)
THEOREM SupportedIsReadHolds == ReadSpec => []SupportedIsRead
<1>1. SupportedInv => SupportedIsRead
  BY DEF SupportedInv
<1> QED  BY <1>1, SupportedInitInv, SupportedStepInv, PTL DEF ReadSpec

=============================================================================
