------------------------ MODULE CatchmentReadsProofs ------------------------
(***************************************************************************)
(* Proofs about CatchmentReads, for any sessions, calls, uploads and       *)
(* layouts: the id index that a session serves with is exact unless an     *)
(* upload raced the scan of a session that saw the same tag, and as long   *)
(* as nothing was uploaded since its HEAD every byte a session or one of   *)
(* its calls holds, in flight or in the chunk cache, is of one upload.     *)
(***************************************************************************)
EXTENDS CatchmentReads, FiniteSetTheorems, TLAPS

Steps == {"new", "footer", "load", "scan", "trunc", "fill", "open", "failed", "dead"}

(* Every variable that is a function has its domain. *)
Domains ==
  /\ DOMAIN pc = Readers /\ DOMAIN asked = Readers /\ DOMAIN got = Readers
  /\ DOMAIN query = Calls
  /\ DOMAIN head = Sessions /\ DOMAIN footer = Sessions
  /\ DOMAIN index = Sessions /\ DOMAIN chunks = Sessions
  /\ \A s \in Sessions : head[s] \in Versions /\ footer[s] \in Versions

(* Row groups are groups of the file, also those an index points to. *)
InFile ==
  /\ \A r \in Readers : DOMAIN got[r] \subseteq Groups
  /\ \A s \in Sessions : \A id \in DOMAIN index[s] : index[s][id] \in Groups
  /\ indexFile \notin {Absent, Torn} =>
       /\ indexFile = [label |-> indexFile.label, index |-> indexFile.index]
       /\ \A id \in DOMAIN indexFile.index : indexFile.index[id] \in Groups

(* Nothing is read before the session has its footer and the call its      *)
(* session, and a scan reads the whole file.                               *)
Idle ==
  /\ \A s \in Sessions :
       /\ pc[s] \in {"new", "footer", "load"} => DOMAIN got[s] = {} /\ DOMAIN chunks[s] = {}
       /\ pc[s] = "scan" => DOMAIN got[s] = Groups
  /\ \A c \in Calls :
       pc[c] # "new" \/ DOMAIN got[c] # {} => pc[SessionOf[c]] = "open"

(* The bytes of a row group, if they came, and of those under way. *)
Came(r, g) ==
  got[r][g] \notin {None, Lost} =>
    DOMAIN got[r][g] = Projection(r)
    /\ \A col \in Projection(r) : got[r][g][col] = head[Session(r)]

UnderWay(r, g) ==
  asked[r][g] # None =>
    /\ asked[r][g].at = head[Session(r)]
    /\ DOMAIN asked[r][g].hit \subseteq Projection(r)
    /\ \A col \in DOMAIN asked[r][g].hit : asked[r][g].hit[col] = head[Session(r)]

(* While nothing is uploaded since the HEAD of a session, all it and its   *)
(* calls have is of the upload that the HEAD named.                        *)
OneUpload ==
  \A s \in calm :
    /\ object = head[s]
    /\ pc[s] \notin {"new", "footer"} => footer[s] = head[s] \/ pc[s] \in {"failed", "dead"}
    /\ \A k \in DOMAIN chunks[s] : chunks[s][k] = head[s]
    /\ \A r \in Readers : Session(r) = s =>
         \A g \in DOMAIN got[r] : Came(r, g) /\ UnderWay(r, g)

(* An index of version v of the uploads f gives every id its row group,    *)
(* and no row of v has one of the faults.                                  *)
PlacesIn(f, v) == UNION {{g} \X DOMAIN f[v][g].rows : g \in DOMAIN f[v]}

ExactIndex(f, v, ix) ==
  /\ DOMAIN ix = {f[v][p[1]].rows[p[2]].id : p \in PlacesIn(f, v)}
  /\ \A p \in PlacesIn(f, v) : ix[f[v][p[1]].rows[p[2]].id] = p[1]

SoundFile(f, v, faults) ==
  \A p \in PlacesIn(f, v) : f[v][p[1]].rows[p[2]].fault \notin faults

(* What the scan of session s refuses. *)
ScanFaults(s) == IF s \in Local THEN {"id"} ELSE {"id", "level"}

(* The index is exact, in the file and in a session, from the scan on, if  *)
(* no upload met an open under the same tag.                               *)
Indexed ==
  /\ indexFile \notin {Absent, Torn} =>
       /\ indexFile.label \in Versions
       /\ indexFile.label \notin raced =>
            /\ ExactIndex(files, indexFile.label, indexFile.index)
            /\ SoundFile(files, indexFile.label, {"id", "level"})
  /\ \A s \in Sessions :
       /\ pc[s] \in {"trunc", "fill"} => s \notin Local
       /\ head[s] \notin raced =>
            /\ pc[s] \in {"footer", "load", "scan"} => s \in calm
            /\ pc[s] \in {"trunc", "fill", "open"} =>
                 ExactIndex(files, head[s], index[s])
                 /\ SoundFile(files, head[s], ScanFaults(s))

(* The inductive invariant.                                                *)
IInv == TypeOK /\ Domains /\ InFile /\ Idle /\ OneUpload /\ Indexed

-----------------------------------------------------------------------------
(* The uploads and their layout. *)

LEMMA Layout ==
  ASSUME TypeOK, NEW v \in Versions
  PROVE  /\ DOMAIN files[v] = Groups
         /\ \A g \in Groups : DOMAIN files[v][g].rows = DOMAIN files[object][g].rows
BY CatchmentReadsAssumption DEF TypeOK, Versions, Groups, SameLayout

LEMMA PlaceOf ==
  ASSUME TypeOK, NEW v \in Versions
  PROVE  \A p : p \in PlacesIn(files, v) <=>
           /\ p = <<p[1], p[2]>> /\ p[1] \in Groups
           /\ p[2] \in DOMAIN files[object][p[1]].rows
BY Layout DEF PlacesIn

LEMMA ReaderKinds ==
  /\ \A s \in Sessions : s \in Readers /\ s \notin Calls /\ Session(s) = s
                         /\ Projection(s) = {"key"}
  /\ \A c \in Calls : c \in Readers /\ c \notin Sessions /\ Session(c) = SessionOf[c]
                      /\ SessionOf[c] \in Sessions
  /\ \A r \in Readers : r \in Sessions \/ r \in Calls
BY CatchmentReadsAssumption DEF Readers, Session, Projection

(* What a reader does in Transfer: its parts, and what they leave alone. *)
Moves(r, g) ==
  /\ g \in DOMAIN got[r] /\ r \in Sessions => pc[r] = "scan"
  /\ Ask(r, g) \/ Arrive(r, g) \/ Lose(r, g)

LEMMA NextCases ==
  Next =>
    \/ \E s \in Sessions : HeadObject(s) \/ Footer(s) \/ Load(s) \/ Build(s)
                          \/ Write(s) \/ Die(s)
    \/ \E c \in Calls : (\E q \in Queries : Plan(c, q)) \/ Return(c)
    \/ \E r \in Readers : \E g \in DOMAIN got[r] : Moves(r, g)
    \/ Overwrite
<1>1. ASSUME NEW s \in Sessions, pc[s] = "scan", Transfer(s)
      PROVE  \E r \in Readers : \E g \in DOMAIN got[r] : Moves(r, g)
  BY <1>1, ReaderKinds DEF Transfer, Moves
<1>2. ASSUME NEW c \in Calls, Transfer(c)
      PROVE  \E r \in Readers : \E g \in DOMAIN got[r] : Moves(r, g)
  BY <1>2, ReaderKinds DEF Transfer, Moves
<1> QED  BY <1>1, <1>2 DEF Next, Open, Query

LEMMA MovesFrame ==
  ASSUME NEW r, NEW g, Moves(r, g)
  PROVE  /\ UNCHANGED <<files, query, object, overwrites, indexFile, pc, head,
                        footer, index, calm, raced>>
         /\ \/ asked' = asked
            \/ \E a : asked' = [asked EXCEPT ![r][g] = a]
         /\ got' = got \/ \E read : got' = [got EXCEPT ![r][g] = read]
BY DEF Moves, Ask, Arrive, Lose, Received

LEMMA InitIInv == Init => IInv
<1> SUFFICES ASSUME Init PROVE IInv
  OBVIOUS
<1> USE CatchmentReadsAssumption, ReaderKinds DEF Init
<1>1. TypeOK
  BY DEF TypeOK, Versions, Readers
<1>2. Domains
  BY DEF Domains, Versions
<1>3. InFile
  BY DEF InFile
<1>4. Idle
  BY DEF Idle
<1>5. OneUpload /\ Indexed
  BY DEF OneUpload, Indexed
<1> QED  BY <1>1, <1>2, <1>3, <1>4, <1>5 DEF IInv

-----------------------------------------------------------------------------
(* What a transfer does to the bytes of its reader and to the chunk cache  *)
(* of its session.                                                         *)

LEMMA AskEffect ==
  ASSUME IInv, NEW r \in Readers, NEW g \in DOMAIN got[r], Ask(r, g)
  PROVE  /\ DOMAIN chunks' = Sessions
         /\ \A t \in Sessions \ {Session(r)} : chunks'[t] = chunks[t]
         /\ \A k \in DOMAIN chunks'[Session(r)] :
              k \in DOMAIN chunks[Session(r)]
              /\ chunks'[Session(r)][k] = chunks[Session(r)][k]
         /\ Session(r) \in calm =>
              /\ Came(r, g)' /\ UnderWay(r, g)'
              /\ got' = got \/ got'[r][g] \in [Projection(r) -> {head[Session(r)]}]
<1> DEFINE s == Session(r)
           held == {col \in Projection(r) : <<g, col>> \in DOMAIN chunks[s]}
<1>1. s \in Sessions /\ r \in DOMAIN got /\ r \in DOMAIN asked
  BY ReaderKinds DEF IInv, Domains
<1>2. PICK hits \in SUBSET held :
        LET hit == [col \in hits |-> chunks[s][<<g, col>>]] IN
        /\ IF hits = Projection(r)
           THEN Received(r, g, hit) /\ UNCHANGED asked
           ELSE /\ asked' = [asked EXCEPT ![r][g] = [hit |-> hit, at |-> object]]
                /\ UNCHANGED got
        /\ chunks' = [chunks EXCEPT ![s] =
             [k \in DOMAIN @ \ ({g} \X (held \ hits)) |-> @[k]]]
  BY DEF Ask
<1> DEFINE hit == [col \in hits |-> chunks[s][<<g, col>>]]
<1>3. /\ DOMAIN chunks' = Sessions
      /\ \A t \in Sessions \ {s} : chunks'[t] = chunks[t]
      /\ \A k \in DOMAIN chunks'[s] :
           k \in DOMAIN chunks[s] /\ chunks'[s][k] = chunks[s][k]
  BY <1>1, <1>2 DEF IInv, Domains
<1>4. ASSUME s \in calm
      PROVE  /\ Came(r, g)' /\ UnderWay(r, g)'
             /\ got' = got \/ got'[r][g] \in [Projection(r) -> {head[s]}]
  <2>1. /\ object = head[s] /\ DOMAIN hit = hits /\ hits \subseteq Projection(r)
        /\ \A col \in hits : hit[col] = head[s]
    BY <1>2, <1>4 DEF IInv, OneUpload
  <2>2. head' = head /\ Projection(r)' = Projection(r)
    BY DEF Ask, Projection
  <2>3. Came(r, g) /\ UnderWay(r, g)
    BY <1>4 DEF IInv, OneUpload
  <2>4. g \in DOMAIN asked[r] /\ g \in DOMAIN got[r]
    BY DEF IInv, TypeOK
  <2> HIDE DEF hit, held
  <2>5. CASE hits = Projection(r)
    <3>1. got'[r][g] = hit /\ asked' = asked
      BY <1>1, <1>2, <2>4, <2>5 DEF Received, hit
    <3>2. hit \in [hits -> {head[s]}]
      BY <2>1 DEF hit
    <3>3. Came(r, g)' /\ UnderWay(r, g)'
      BY <2>1, <2>2, <2>3, <2>5, <3>1 DEF Came, UnderWay
    <3> QED  BY <2>5, <3>1, <3>2, <3>3
  <2>6. CASE hits # Projection(r)
    <3>1. asked'[r][g] = [hit |-> hit, at |-> object] /\ got' = got
      BY <1>1, <1>2, <2>4, <2>6 DEF hit
    <3> QED  BY <2>1, <2>2, <2>3, <3>1 DEF Came, UnderWay
  <2> QED  BY <2>5, <2>6
<1> QED  BY <1>3, <1>4

LEMMA ArriveEffect ==
  ASSUME IInv, NEW r \in Readers, NEW g \in DOMAIN got[r], Arrive(r, g)
  PROVE  /\ DOMAIN chunks' = Sessions
         /\ \A t \in Sessions \ {Session(r)} : chunks'[t] = chunks[t]
         /\ \A k \in DOMAIN chunks'[Session(r)] :
              \/ k \in DOMAIN chunks[Session(r)]
              \/ k \in {g} \X Projection(r)
         /\ Session(r) \in calm =>
              /\ Came(r, g)' /\ UnderWay(r, g)'
              /\ got'[r][g] \in [Projection(r) -> {head[Session(r)]}]
              /\ \A k \in DOMAIN chunks'[Session(r)] :
                   chunks'[Session(r)][k] = head[Session(r)]
<1> DEFINE s == Session(r)
           hit == asked[r][g].hit
           missing == Projection(r) \ DOMAIN hit
<1>1. /\ s \in Sessions /\ r \in DOMAIN got /\ r \in DOMAIN asked
      /\ g \in DOMAIN asked[r] /\ DOMAIN chunks = Sessions /\ asked[r][g] # None
  BY ReaderKinds DEF IInv, Domains, TypeOK, Arrive
<1>2. PICK fetched \in [missing -> {asked[r][g].at, object}] :
        /\ Received(r, g, [col \in Projection(r) |->
                             IF col \in missing THEN fetched[col] ELSE hit[col]])
        /\ chunks' = IF s \in Local THEN chunks
                     ELSE [chunks EXCEPT ![s] =
                             [k \in DOMAIN @ \cup ({g} \X missing) |->
                                IF k \in {g} \X missing THEN fetched[k[2]] ELSE @[k]]]
  BY DEF Arrive
<1> DEFINE merged == [col \in Projection(r) |->
                        IF col \in missing THEN fetched[col] ELSE hit[col]]
           cache == [k \in DOMAIN chunks[s] \cup ({g} \X missing) |->
                       IF k \in {g} \X missing THEN fetched[k[2]] ELSE chunks[s][k]]
<1>5. /\ DOMAIN chunks' = Sessions
      /\ \A t \in Sessions \ {s} : chunks'[t] = chunks[t]
      /\ chunks'[s] = chunks[s] \/ chunks'[s] = cache
  <2> HIDE DEF missing, hit
  <2> QED  BY <1>1, <1>2
<1>6. ASSUME s \in calm
      PROVE  /\ Came(r, g)' /\ UnderWay(r, g)'
             /\ got'[r][g] \in [Projection(r) -> {head[s]}]
             /\ \A k \in DOMAIN chunks'[s] : chunks'[s][k] = head[s]
  <2>1. /\ object = head[s] /\ UnderWay(r, g)
        /\ \A k \in DOMAIN chunks[s] : chunks[s][k] = head[s]
    BY <1>6 DEF IInv, OneUpload
  <2>2. /\ asked[r][g].at = head[s] /\ DOMAIN hit \subseteq Projection(r)
        /\ \A col \in DOMAIN hit : hit[col] = head[s]
    BY <1>1, <2>1 DEF UnderWay
  <2>3. \A col \in missing : fetched[col] = head[s]
    BY <1>2, <2>1, <2>2
  <2>4. head' = head /\ Projection(r)' = Projection(r)
    BY DEF Arrive, Projection
  <2>5. got'[r][g] = merged /\ asked'[r][g] = None
    <3> HIDE DEF missing, hit
    <3> QED  BY <1>1, <1>2 DEF Arrive, Received
  <2>6. /\ DOMAIN merged = Projection(r)
        /\ \A col \in Projection(r) : merged[col] = head[s]
    BY <2>2, <2>3
  <2>7. \A k \in {g} \X missing : k[2] \in missing
    OBVIOUS
  <2>8. \A k \in DOMAIN chunks'[s] : chunks'[s][k] = head[s]
    BY <1>5, <2>1, <2>3, <2>7
  <2>9. merged \in [Projection(r) -> {head[s]}]
    <3>1. merged = [col \in Projection(r) |-> merged[col]]
      OBVIOUS
    <3> HIDE DEF merged
    <3> QED  BY <2>6, <3>1
  <2>10. Came(r, g)' /\ UnderWay(r, g)'
    BY <2>4, <2>5, <2>6 DEF Came, UnderWay
  <2> HIDE DEF merged
  <2> QED  BY <2>5, <2>8, <2>9, <2>10
<1>7. \A k \in DOMAIN chunks'[s] : k \in DOMAIN chunks[s] \/ k \in {g} \X Projection(r)
  BY <1>5
<1> QED  BY <1>5, <1>6, <1>7

LEMMA LoseEffect ==
  ASSUME IInv, NEW r \in Readers, NEW g \in DOMAIN got[r], Lose(r, g)
  PROVE  /\ chunks' = chunks
         /\ Came(r, g)' /\ UnderWay(r, g)'
<1>1. r \in DOMAIN got /\ r \in DOMAIN asked /\ g \in DOMAIN asked[r]
  BY DEF IInv, Domains, TypeOK
<1>2. got'[r][g] = Lost /\ asked'[r][g] = None /\ chunks' = chunks
  BY <1>1 DEF Lose, Received
<1> QED  BY <1>2 DEF Came, UnderWay

(* The bytes of other groups and of other readers stay as they are. *)
LEMMA OthersKept ==
  ASSUME IInv, NEW r \in Readers, NEW g \in DOMAIN got[r], Moves(r, g)
  PROVE  /\ DOMAIN got' = Readers /\ DOMAIN asked' = Readers
         /\ \A t \in Readers : DOMAIN got'[t] = DOMAIN got[t] /\ DOMAIN asked'[t] = DOMAIN asked[t]
         /\ \A t \in Readers : \A h \in DOMAIN got[t] : t # r \/ h # g =>
              got'[t][h] = got[t][h] /\ asked'[t][h] = asked[t][h]
<1>1. r \in DOMAIN got /\ r \in DOMAIN asked /\ g \in DOMAIN asked[r]
      /\ DOMAIN got = Readers /\ DOMAIN asked = Readers
      /\ \A t \in Readers : DOMAIN asked[t] = DOMAIN got[t]
  BY DEF IInv, Domains, TypeOK
<1>2. /\ asked' = asked \/ \E a : asked' = [asked EXCEPT ![r][g] = a]
      /\ got' = got \/ \E read : got' = [got EXCEPT ![r][g] = read]
  BY MovesFrame
<1>3. /\ DOMAIN got' = Readers
      /\ \A t \in Readers : DOMAIN got'[t] = DOMAIN got[t]
      /\ \A t \in Readers : \A h \in DOMAIN got[t] : t # r \/ h # g => got'[t][h] = got[t][h]
  <2>1. CASE got' = got
    BY <1>1, <2>1
  <2>2. ASSUME NEW a, got' = [got EXCEPT ![r][g] = a]
        PROVE  /\ DOMAIN got' = Readers
               /\ \A t \in Readers : DOMAIN got'[t] = DOMAIN got[t]
               /\ \A t \in Readers : \A h \in DOMAIN got[t] : t # r \/ h # g => got'[t][h] = got[t][h]
    <3>1. got'[r] = [got[r] EXCEPT ![g] = a] /\ \A t \in Readers \ {r} : got'[t] = got[t]
      BY <1>1, <2>2
    <3>2. \A h \in DOMAIN got[r] : h # g => got'[r][h] = got[r][h]
      BY <3>1
    <3> QED  BY <1>1, <2>2, <3>1, <3>2
  <2> QED  BY <1>2, <2>1, <2>2
<1>4. /\ DOMAIN asked' = Readers
      /\ \A t \in Readers : DOMAIN asked'[t] = DOMAIN asked[t]
      /\ \A t \in Readers : \A h \in DOMAIN got[t] : t # r \/ h # g => asked'[t][h] = asked[t][h]
  <2>1. CASE asked' = asked
    BY <1>1, <2>1
  <2>2. ASSUME NEW a, asked' = [asked EXCEPT ![r][g] = a]
        PROVE  /\ DOMAIN asked' = Readers
               /\ \A t \in Readers : DOMAIN asked'[t] = DOMAIN asked[t]
               /\ \A t \in Readers : \A h \in DOMAIN got[t] : t # r \/ h # g => asked'[t][h] = asked[t][h]
    <3>1. asked'[r] = [asked[r] EXCEPT ![g] = a] /\ \A t \in Readers \ {r} : asked'[t] = asked[t]
      BY <1>1, <2>2
    <3>2. \A h \in DOMAIN got[r] : h # g => asked'[r][h] = asked[r][h]
      BY <3>1
    <3> QED  BY <1>1, <2>2, <3>1, <3>2
  <2> QED  BY <1>2, <2>1, <2>2
<1> QED  BY <1>3, <1>4

(* A transfer keeps the invariant. *)
LEMMA MovesStep ==
  ASSUME IInv, NEW r \in Readers, NEW g \in DOMAIN got[r], Moves(r, g)
  PROVE  IInv'
<1> DEFINE s == Session(r)
<1>1. /\ s \in Sessions
      /\ UNCHANGED <<files, query, object, overwrites, indexFile, pc, head,
                     footer, index, calm, raced>>
  BY ReaderKinds, MovesFrame
<1>2. Groups' = Groups /\ Versions' = Versions /\ \A t \in Readers : Projection(t)' = Projection(t)
  BY <1>1 DEF Groups, Versions, Projection
<1>3. pc[s] \notin {"new", "footer", "load"}
  BY ReaderKinds DEF Moves, IInv, Idle
<1>4. /\ DOMAIN chunks' = Sessions
      /\ \A t \in Sessions \ {s} : chunks'[t] = chunks[t]
      /\ DOMAIN chunks'[s] \subseteq Groups \X Columns
      /\ s \in calm => /\ Came(r, g)' /\ UnderWay(r, g)'
                       /\ \A k \in DOMAIN chunks'[s] : chunks'[s][k] = head[s]
  <2>1. DOMAIN chunks[s] \subseteq Groups \X Columns /\ DOMAIN chunks = Sessions
    BY <1>1 DEF IInv, TypeOK, Domains
  <2>2. s \in calm => \A k \in DOMAIN chunks[s] : chunks[s][k] = head[s]
    BY <1>1 DEF IInv, OneUpload
  <2>3. CASE Ask(r, g)
    BY <1>1, <2>1, <2>2, <2>3, AskEffect
  <2>4. CASE Arrive(r, g)
    <3>1. {g} \X Projection(r) \subseteq Groups \X Columns
      BY DEF IInv, InFile, Projection, Columns
    <3>2. \A k \in DOMAIN chunks'[s] : k \in Groups \X Columns
      BY <2>1, <2>4, <3>1, ArriveEffect
    <3> QED  BY <3>2, <2>4, ArriveEffect
  <2>5. CASE Lose(r, g)
    BY <1>1, <2>1, <2>2, <2>5, LoseEffect
  <2> QED  BY <2>3, <2>4, <2>5 DEF Moves
<1>5. TypeOK'
  BY <1>1, <1>2, <1>4, OthersKept DEF IInv, TypeOK
<1>6. Domains'
  BY <1>1, <1>2, <1>4, OthersKept DEF IInv, Domains
<1>7. InFile'
  BY <1>1, <1>2, OthersKept DEF IInv, InFile
<1>8. Idle'
  BY <1>1, <1>2, <1>3, <1>4, OthersKept, ReaderKinds DEF IInv, Idle
<1>9. OneUpload'
  <2>1. ASSUME NEW t \in calm
        PROVE  /\ object' = head'[t]
               /\ pc'[t] \notin {"new", "footer"} => footer'[t] = head'[t] \/ pc'[t] \in {"failed", "dead"}
               /\ \A k \in DOMAIN chunks'[t] : chunks'[t][k] = head'[t]
    BY <1>1, <1>4 DEF IInv, TypeOK, OneUpload
  <2>2. ASSUME NEW t \in calm, NEW u \in Readers, Session(u) = t, NEW h \in DOMAIN got'[u]
        PROVE  Came(u, h)' /\ UnderWay(u, h)'
    <3>1. CASE u = r /\ h = g
      BY <1>4, <2>2, <3>1
    <3>2. CASE u # r \/ h # g
      <4>1. Came(u, h) /\ UnderWay(u, h)
        BY <2>2, OthersKept DEF IInv, OneUpload
      <4>2. got'[u][h] = got[u][h] /\ asked'[u][h] = asked[u][h]
        BY <3>2, OthersKept
      <4> QED  BY <1>1, <1>2, <4>1, <4>2 DEF Came, UnderWay
    <3> QED  BY <3>1, <3>2
  <2> QED  BY <1>1, <2>1, <2>2 DEF OneUpload
<1>10. Indexed'
  BY <1>1, <1>2 DEF IInv, Indexed
<1> QED  BY <1>5, <1>6, <1>7, <1>8, <1>9, <1>10 DEF IInv

-----------------------------------------------------------------------------
(* The open of a session. *)

(* HEAD: nothing was read yet, so all the session has is of this upload. *)
LEMMA HeadStep == ASSUME IInv, NEW s \in Sessions, HeadObject(s) PROVE IInv'
<1>1. /\ pc[s] = "new" /\ object \in Versions /\ s \in Readers /\ DOMAIN pc = Readers
      /\ DOMAIN head = Sessions
  BY ReaderKinds DEF HeadObject, IInv, TypeOK, Domains
<1>2. /\ head' = [head EXCEPT ![s] = object] /\ calm' = calm \cup {s}
      /\ pc' = [pc EXCEPT ![s] = "footer"]
      /\ UNCHANGED <<files, query, object, overwrites, indexFile, footer, index,
                     chunks, asked, got, raced>>
  BY DEF HeadObject, Goto, reads
<1>3. Groups' = Groups /\ Versions' = Versions /\ \A t \in Readers : Projection(t)' = Projection(t)
  BY <1>2 DEF Groups, Versions, Projection
<1>4. TypeOK'
  BY <1>1, <1>2, <1>3, ReaderKinds DEF IInv, TypeOK
<1>5. Domains'
  BY <1>1, <1>2, <1>3 DEF IInv, Domains
<1>6. InFile'
  BY <1>1, <1>2, <1>3 DEF IInv, InFile
<1>7. Idle'
  BY <1>1, <1>2, <1>3, ReaderKinds DEF IInv, Idle
<1>8. OneUpload'
  <2>1. DOMAIN chunks[s] = {} /\ \A r \in Readers : Session(r) = s => DOMAIN got[r] = {}
    BY <1>1, ReaderKinds DEF IInv, Idle
  <2>2. head'[s] = object' /\ \A t \in Sessions \ {s} : head'[t] = head[t]
    BY <1>1, <1>2
  <2>3. pc'[s] = "footer" /\ \A t \in Sessions \ {s} : pc'[t] = pc[t]
    BY <1>1, <1>2, ReaderKinds
  <2>4. calm \subseteq Sessions
    BY DEF IInv, TypeOK
  <2>5. ASSUME NEW t \in calm, t # s, NEW r \in Readers, Session(r) = t, NEW g \in DOMAIN got[r]
        PROVE  Came(r, g)' /\ UnderWay(r, g)'
    BY <1>2, <1>3, <2>2, <2>4, <2>5 DEF IInv, OneUpload, Came, UnderWay
  <2>6. ASSUME NEW t \in calm', NEW r \in Readers, Session(r) = t, NEW g \in DOMAIN got'[r]
        PROVE  Came(r, g)' /\ UnderWay(r, g)'
    BY <1>2, <2>1, <2>5, <2>6
  <2>7. ASSUME NEW t \in calm'
        PROVE  /\ object' = head'[t]
               /\ pc'[t] \notin {"new", "footer"} => footer'[t] = head'[t] \/ pc'[t] \in {"failed", "dead"}
               /\ \A k \in DOMAIN chunks'[t] : chunks'[t][k] = head'[t]
    BY <1>2, <2>1, <2>2, <2>3, <2>4 DEF IInv, OneUpload
  <2> QED  BY <2>6, <2>7 DEF OneUpload
<1>9. Indexed'
  <2>1. head'[s] = object' /\ \A t \in Sessions \ {s} : head'[t] = head[t]
    BY <1>1, <1>2
  <2>2. pc'[s] = "footer" /\ \A t \in Sessions \ {s} : pc'[t] = pc[t]
    BY <1>1, <1>2, ReaderKinds
  <2>3. \A t \in Sessions : ScanFaults(t)' = ScanFaults(t)
    BY DEF ScanFaults
  <2> QED  BY <1>2, <1>3, <2>1, <2>2, <2>3 DEF IInv, Indexed
<1> QED  BY <1>4, <1>5, <1>6, <1>7, <1>8, <1>9 DEF IInv

(* A step of an open that reads no row group and moves on in the order of  *)
(* the open, once it has its HEAD.                                         *)
LEMMA OpenStep ==
  ASSUME IInv, NEW s \in Sessions, NEW step \in Steps \ {"new", "footer", "scan"},
         pc[s] \in {"footer", "load", "scan", "trunc", "fill"},
         pc' = [pc EXCEPT ![s] = step],
         UNCHANGED <<files, query, object, overwrites, head, chunks, asked, got,
                     calm, raced>>,
         footer' = IF step = "load" THEN [footer EXCEPT ![s] = object] ELSE footer,
         step = "load" => pc[s] = "footer",
         pc[s] = "footer" => step \in {"load", "failed", "dead"},
         InFile', DOMAIN index' = Sessions, Indexed',
         indexFile' \in {Absent, Torn} \/ DOMAIN indexFile' = {"label", "index"}
  PROVE  IInv'
<1>1. /\ s \in Readers /\ DOMAIN pc = Readers /\ DOMAIN footer = Sessions /\ s \notin Calls
      /\ object \in Versions
  BY ReaderKinds DEF IInv, TypeOK, Domains
<1>2. Groups' = Groups /\ Versions' = Versions /\ \A t \in Readers : Projection(t)' = Projection(t)
  BY DEF Groups, Versions, Projection
<1>3. pc'[s] = step /\ \A r \in Readers \ {s} : pc'[r] = pc[r]
  BY <1>1
<1>4. TypeOK'
  BY <1>1, <1>2, <1>3, ReaderKinds DEF IInv, TypeOK, Steps
<1>5. Domains'
  BY <1>1, <1>2 DEF IInv, Domains
<1>6. Idle'
  BY <1>1, <1>2, <1>3, ReaderKinds DEF IInv, Idle
<1>7. OneUpload'
  <2>1. ASSUME NEW t \in calm, NEW r \in Readers, Session(r) = t, NEW g \in DOMAIN got[r]
        PROVE  Came(r, g)' /\ UnderWay(r, g)'
    BY <1>2, <2>1 DEF IInv, OneUpload, Came, UnderWay
  <2>2. ASSUME NEW t \in calm, pc'[t] \notin {"new", "footer"}
        PROVE  footer'[t] = head'[t] \/ pc'[t] \in {"failed", "dead"}
    <3>1. t \in Sessions /\ object = head[t]
      BY DEF IInv, TypeOK, OneUpload
    <3>2. CASE t # s
      BY <1>1, <1>3, <2>2, <3>1, <3>2, ReaderKinds DEF IInv, OneUpload
    <3>3. CASE t = s /\ pc[s] = "footer"
      BY <1>1, <1>3, <3>1, <3>3
    <3>4. CASE t = s /\ pc[s] # "footer"
      BY <1>1, <1>3, <3>1, <3>4 DEF IInv, OneUpload
    <3> QED  BY <3>2, <3>3, <3>4
  <2> QED  BY <2>1, <2>2 DEF IInv, OneUpload
<1> QED  BY <1>4, <1>5, <1>6, <1>7 DEF IInv

(* An open that gives up, or is killed, leaves everything as it was. *)
LEMMA EndStep ==
  ASSUME IInv, NEW s \in Sessions, NEW step \in {"failed", "dead"}, Goto(s, step),
         pc[s] \in {"footer", "load", "scan", "trunc", "fill"},
         UNCHANGED <<files, query, object, overwrites, indexFile, head, footer,
                     index, chunks, reads, calm, raced>>
  PROVE  IInv'
<1>1. pc' = [pc EXCEPT ![s] = step] /\ UNCHANGED <<asked, got>> /\ step \in Steps
  BY DEF Goto, reads, Steps
<1>2. Groups' = Groups /\ Versions' = Versions
  BY DEF Groups, Versions
<1>3. InFile'
  BY <1>1, <1>2 DEF IInv, InFile
<1>4. Indexed'
  BY <1>1, <1>2, ReaderKinds DEF IInv, Indexed, Domains
<1>5. DOMAIN index' = Sessions
  BY DEF IInv, Domains
<1>6. indexFile' \in {Absent, Torn} \/ DOMAIN indexFile' = {"label", "index"}
  BY DEF IInv, TypeOK
<1> QED  BY <1>1, <1>3, <1>4, <1>5, <1>6, OpenStep

LEMMA FooterStep == ASSUME IInv, NEW s \in Sessions, Footer(s) PROVE IInv'
<1>1. CASE footer' = [footer EXCEPT ![s] = object] /\ Goto(s, "load")
  <2>1. pc' = [pc EXCEPT ![s] = "load"] /\ UNCHANGED <<asked, got>> /\ "load" \in Steps
    BY <1>1 DEF Goto, reads, Steps, Footer
  <2>2. Groups' = Groups /\ Versions' = Versions
    BY DEF Groups, Versions, Footer
  <2>3. InFile'
    BY <2>1, <2>2 DEF IInv, InFile, Footer
  <2>4. Indexed'
    BY <2>1, <2>2, ReaderKinds DEF IInv, Indexed, Domains, Footer
  <2>5. DOMAIN index' = Sessions
    BY DEF IInv, Domains, Footer
  <2>6. indexFile' \in {Absent, Torn} \/ DOMAIN indexFile' = {"label", "index"}
    BY DEF IInv, TypeOK, Footer
  <2> QED  BY <1>1, <2>1, <2>3, <2>4, <2>5, <2>6, OpenStep DEF Footer
<1>2. CASE Goto(s, "failed") /\ UNCHANGED footer
  BY <1>2, EndStep DEF Footer
<1> QED  BY <1>1, <1>2 DEF Footer

(* A whole file under the tag of the HEAD is taken for the index; it is    *)
(* exact unless an upload met an open under that tag.                      *)
LEMMA LoadStep == ASSUME IInv, NEW s \in Sessions, Load(s) PROVE IInv'
<1>1. /\ pc[s] = "load" /\ s \in Readers /\ s \notin Calls /\ DOMAIN pc = Readers
      /\ DOMAIN index = Sessions /\ head[s] \in Versions
      /\ UNCHANGED <<files, query, object, overwrites, indexFile, head, footer,
                     chunks, calm, raced>>
  BY ReaderKinds DEF Load, IInv, Domains
<1>2. Groups' = Groups /\ Versions' = Versions /\ \A t \in Readers : Projection(t)' = Projection(t)
  BY <1>1 DEF Groups, Versions, Projection
<1>3. CASE s \notin Local /\ Loadable(s)
  <2>1. /\ index' = [index EXCEPT ![s] = indexFile.index] /\ Goto(s, "open")
        /\ UNCHANGED reads /\ indexFile \notin {Absent, Torn} /\ indexFile.label = head[s]
    BY <1>3 DEF Load, Loadable
  <2>2. pc' = [pc EXCEPT ![s] = "open"] /\ UNCHANGED <<asked, got>> /\ "open" \in Steps
    BY <2>1 DEF Goto, reads, Steps
  <2>3. DOMAIN index' = Sessions /\ index'[s] = indexFile.index
        /\ \A t \in Sessions \ {s} : index'[t] = index[t]
    BY <1>1, <2>1
  <2>4. InFile'
    BY <1>1, <1>2, <2>1, <2>2, <2>3 DEF IInv, InFile
  <2>5. Indexed'
    <3>1. pc'[s] = "open" /\ \A t \in Sessions \ {s} : pc'[t] = pc[t]
      BY <1>1, <2>2, ReaderKinds
    <3>2. ScanFaults(s) = {"id", "level"} /\ \A t \in Sessions : ScanFaults(t)' = ScanFaults(t)
      BY <1>3 DEF ScanFaults
    <3> QED  BY <1>1, <1>2, <2>1, <2>3, <3>1, <3>2 DEF IInv, Indexed
  <2>6. indexFile' \in {Absent, Torn} \/ DOMAIN indexFile' = {"label", "index"}
    BY <1>1 DEF IInv, TypeOK
  <2> QED  BY <1>1, <2>2, <2>3, <2>4, <2>5, <2>6, OpenStep
<1>4. CASE ~ (s \notin Local /\ Loadable(s))
  <2>1. /\ asked' = [asked EXCEPT ![s] = [g \in Groups |-> None]]
        /\ got' = [got EXCEPT ![s] = [g \in Groups |-> None]]
        /\ pc' = [pc EXCEPT ![s] = "scan"] /\ UNCHANGED index
    BY <1>4 DEF Load, Start, Goto
  <2>2. /\ DOMAIN got = Readers /\ DOMAIN asked = Readers
        /\ pc'[s] = "scan" /\ \A r \in Readers \ {s} : pc'[r] = pc[r]
        /\ got'[s] = [g \in Groups |-> None] /\ asked'[s] = [g \in Groups |-> None]
        /\ \A r \in Readers \ {s} : got'[r] = got[r] /\ asked'[r] = asked[r]
    BY <1>1, <2>1 DEF IInv, Domains
  <2>3. TypeOK'
    BY <1>1, <1>2, <2>1, <2>2, ReaderKinds DEF IInv, TypeOK
  <2>4. Domains'
    BY <1>1, <1>2, <2>1 DEF IInv, Domains
  <2>5. InFile'
    BY <1>1, <1>2, <2>1, <2>2 DEF IInv, InFile
  <2>6. Idle'
    BY <1>1, <1>2, <2>2, ReaderKinds DEF IInv, Idle
  <2>7. OneUpload'
    <3>1. ASSUME NEW t \in calm, NEW r \in Readers, Session(r) = t, NEW g \in DOMAIN got'[r]
          PROVE  Came(r, g)' /\ UnderWay(r, g)'
      <4>1. CASE r = s
        BY <2>2, <3>1, <4>1 DEF Came, UnderWay
      <4>2. CASE r # s
        BY <1>1, <1>2, <2>2, <3>1, <4>2 DEF IInv, OneUpload, Came, UnderWay
      <4> QED  BY <4>1, <4>2
    <3>2. \A t \in calm : t \in Sessions
      BY DEF IInv, TypeOK
    <3> QED  BY <1>1, <2>2, <3>1, <3>2, ReaderKinds DEF IInv, OneUpload
  <2>8. Indexed'
    BY <1>1, <1>2, <2>1, <2>2, ReaderKinds DEF IInv, Indexed, ScanFaults
  <2> QED  BY <2>3, <2>4, <2>5, <2>6, <2>7, <2>8 DEF IInv
<1> QED  BY <1>3, <1>4

-----------------------------------------------------------------------------
(* The index a scan builds. *)

(* The places found are those of the file, with the ids of the upload the  *)
(* HEAD named, and none of its rows has a fault the scan refuses.          *)
LEMMA ScanFound ==
  ASSUME IInv, NEW s \in Sessions, pc[s] = "scan", Finished(s), Failures(s) = {}
  PROVE  /\ \A p \in Found(s) : p[1] \in Groups
         /\ s \in calm =>
              /\ object = head[s] /\ Found(s) = PlacesIn(files, head[s])
              /\ \A p \in Found(s) : IdFound(s, p) = files[head[s]][p[1]].rows[p[2]].id
              /\ SoundFile(files, head[s], ScanFaults(s))
<1>1. DOMAIN got[s] = Groups /\ Pending(s) = {} /\ head[s] \in Versions
      /\ Session(s) = s /\ Projection(s) = {"key"} /\ s \in Readers
  BY ReaderKinds DEF IInv, Idle, Domains, Finished, Buffered
<1>2. Found(s) = PlacesIn(files, object)
  BY <1>1 DEF Found, PlacesIn, Groups
<1>3. \A p \in Found(s) : p[1] \in Groups /\ p = <<p[1], p[2]>>
                          /\ p[2] \in DOMAIN files[object][p[1]].rows
  BY <1>2 DEF PlacesIn, Groups
<1>4. ASSUME s \in calm
      PROVE  /\ object = head[s] /\ Found(s) = PlacesIn(files, head[s])
             /\ \A p \in Found(s) : IdFound(s, p) = files[head[s]][p[1]].rows[p[2]].id
             /\ SoundFile(files, head[s], ScanFaults(s))
  <2>1. object = head[s]
    BY <1>4 DEF IInv, OneUpload
  <2>2. ASSUME NEW g \in Groups
        PROVE  got[s][g]["key"] = head[s] /\ "key" \in DOMAIN got[s][g] /\ Refused(s, g) = {}
    <3>1. got[s][g] \notin {None, Lost} /\ Refused(s, g) = {}
      BY <1>1 DEF Pending, Failures, Failed
    <3>2. Came(s, g)
      BY <1>1, <1>4 DEF IInv, OneUpload
    <3> QED  BY <1>1, <3>1, <3>2 DEF Came
  <2>3. \A g \in Groups : \A i : Seen(s, g, i, "key") = files[head[s]][g].rows[i]
    BY <2>2 DEF Seen
  <2>4. \A p \in Found(s) : IdFound(s, p) = files[head[s]][p[1]].rows[p[2]].id
    BY <1>3, <2>3 DEF IdFound
  <2>5. ASSUME NEW p \in PlacesIn(files, head[s])
        PROVE  files[head[s]][p[1]].rows[p[2]].fault \notin ScanFaults(s)
    <3>1. p[1] \in Groups /\ p[2] \in DOMAIN files[object][p[1]].rows
      BY <1>2, <1>3, <2>1
    <3>2. Seen(s, p[1], p[2], "key").fault
            \notin FaultsIn("key") \cap Refusable(s, Seen(s, p[1], p[2], "key").id)
      BY <2>2, <3>1 DEF Refused
    <3>3. FaultsIn("key") \cap Refusable(s, Seen(s, p[1], p[2], "key").id) = ScanFaults(s)
      BY DEF FaultsIn, Refusable, ScanFaults
    <3> QED  BY <2>3, <3>1, <3>2, <3>3
  <2> QED  BY <1>2, <2>1, <2>4, <2>5 DEF SoundFile
<1> QED  BY <1>3, <1>4

LEMMA BuildStep == ASSUME IInv, NEW s \in Sessions, Build(s) PROVE IInv'
<1>1. /\ pc[s] = "scan" /\ Finished(s) /\ s \in Readers /\ DOMAIN pc = Readers
      /\ DOMAIN index = Sessions
      /\ UNCHANGED <<files, query, object, overwrites, indexFile, head, footer,
                     chunks, asked, got, calm, raced>>
  BY ReaderKinds DEF Build, IInv, Domains, reads
<1>2. CASE Goto(s, "failed") /\ UNCHANGED index
  BY <1>1, <1>2, EndStep DEF reads
<1>3. CASE ~ (Goto(s, "failed") /\ UNCHANGED index)
  <2> DEFINE ix == [id \in {IdFound(s, p) : p \in Found(s)} |->
                      (CHOOSE p \in Found(s) : IdFound(s, p) = id)[1]]
             step == IF s \in Local THEN "open" ELSE "trunc"
  <2>1. /\ Failures(s) = {}
        /\ \A p, q \in Found(s) : IdFound(s, p) = IdFound(s, q) => p = q
        /\ index' = [index EXCEPT ![s] = ix] /\ pc' = [pc EXCEPT ![s] = step]
    BY <1>3 DEF Build, Goto
  <2>2. \A p \in Found(s) : ix[IdFound(s, p)] = p[1]
    <3> SUFFICES ASSUME NEW p \in Found(s) PROVE ix[IdFound(s, p)] = p[1]
      OBVIOUS
    <3> DEFINE q == CHOOSE q \in Found(s) : IdFound(s, q) = IdFound(s, p)
    <3>1. q \in Found(s) /\ IdFound(s, q) = IdFound(s, p)
      OBVIOUS
    <3>2. q = p
      BY <2>1, <3>1
    <3>3. ix[IdFound(s, p)] = q[1]
      OBVIOUS
    <3> QED  BY <3>2, <3>3
  <2>3. DOMAIN ix = {IdFound(s, p) : p \in Found(s)}
    OBVIOUS
  <2> HIDE DEF ix
  <2>4. \A id \in DOMAIN ix : ix[id] \in Groups
    BY <1>1, <2>1, <2>2, <2>3, ScanFound
  <2>5. s \in calm => ExactIndex(files, head[s], ix) /\ SoundFile(files, head[s], ScanFaults(s))
    <3> SUFFICES ASSUME s \in calm
                 PROVE  ExactIndex(files, head[s], ix) /\ SoundFile(files, head[s], ScanFaults(s))
      OBVIOUS
    <3>1. /\ Found(s) = PlacesIn(files, head[s]) /\ SoundFile(files, head[s], ScanFaults(s))
          /\ \A p \in Found(s) : IdFound(s, p) = files[head[s]][p[1]].rows[p[2]].id
      BY <1>1, <2>1, ScanFound
    <3>2. DOMAIN ix = {files[head[s]][p[1]].rows[p[2]].id : p \in PlacesIn(files, head[s])}
      BY <2>3, <3>1
    <3>3. \A p \in PlacesIn(files, head[s]) : ix[files[head[s]][p[1]].rows[p[2]].id] = p[1]
      BY <2>2, <3>1
    <3> QED  BY <3>1, <3>2, <3>3 DEF ExactIndex
  <2>6. DOMAIN index' = Sessions /\ index'[s] = ix
        /\ \A t \in Sessions \ {s} : index'[t] = index[t]
    BY <1>1, <2>1
  <2>7. pc'[s] = step /\ \A t \in Sessions \ {s} : pc'[t] = pc[t]
    BY <1>1, <2>1, ReaderKinds
  <2>8. Groups' = Groups /\ Versions' = Versions
    BY <1>1 DEF Groups, Versions
  <2>9. InFile'
    BY <1>1, <2>4, <2>6, <2>8 DEF IInv, InFile
  <2>10. Indexed'
    <3>1. \A t \in Sessions : ScanFaults(t)' = ScanFaults(t)
      BY DEF ScanFaults
    <3>2. head[s] \notin raced => s \in calm
      BY <1>1 DEF IInv, Indexed
    <3>3. step \in {"open", "trunc"} /\ (step = "trunc" => s \notin Local)
      OBVIOUS
    <3> HIDE DEF step
    <3> QED  BY <1>1, <2>5, <2>6, <2>7, <2>8, <3>1, <3>2, <3>3 DEF IInv, Indexed
  <2>11. indexFile' \in {Absent, Torn} \/ DOMAIN indexFile' = {"label", "index"}
    BY <1>1 DEF IInv, TypeOK
  <2>12. step \in Steps \ {"new", "footer", "scan", "load"}
    BY DEF Steps
  <2> HIDE DEF step
  <2> QED  BY <1>1, <2>1, <2>6, <2>9, <2>10, <2>11, <2>12, OpenStep
<1> QED  BY <1>2, <1>3

(* The file is torn while it is written; whole, it holds the index of its  *)
(* writer under the tag of the writer's HEAD.                              *)
LEMMA WriteStep == ASSUME IInv, NEW s \in Sessions, Write(s) PROVE IInv'
<1> DEFINE new == [label |-> head[s], index |-> index[s]]
<1>1. /\ pc[s] \in {"trunc", "fill"} /\ s \in Readers /\ DOMAIN pc = Readers
      /\ head[s] \in Versions
      /\ UNCHANGED <<files, query, object, overwrites, head, footer, index,
                     chunks, asked, got, calm, raced>>
  BY ReaderKinds DEF Write, IInv, Domains, reads
<1>2. PICK step \in {"fill", "open"} :
        /\ pc' = [pc EXCEPT ![s] = step]
        /\ indexFile' = indexFile \/ indexFile' \in {new, Torn}
  BY DEF Write, Goto
<1>3. new.label = head[s] /\ new.index = index[s] /\ DOMAIN new = {"label", "index"}
  OBVIOUS
<1>4. pc'[s] = step /\ \A t \in Sessions \ {s} : pc'[t] = pc[t]
  BY <1>1, <1>2, ReaderKinds
<1>5. Groups' = Groups /\ Versions' = Versions /\ \A t \in Sessions : ScanFaults(t)' = ScanFaults(t)
  BY <1>1 DEF Groups, Versions, ScanFaults
<1>6. InFile'
  BY <1>1, <1>2, <1>3, <1>5 DEF IInv, InFile
<1>7. Indexed'
  <2>1. /\ s \notin Local /\ ScanFaults(s) = {"id", "level"}
        /\ head[s] \notin raced => /\ ExactIndex(files, head[s], index[s])
                                   /\ SoundFile(files, head[s], ScanFaults(s))
    BY <1>1 DEF IInv, Indexed, ScanFaults
  <2>2. indexFile' \notin {Absent, Torn} =>
          /\ indexFile'.label \in Versions
          /\ indexFile'.label \notin raced =>
               /\ ExactIndex(files, indexFile'.label, indexFile'.index)
               /\ SoundFile(files, indexFile'.label, {"id", "level"})
    BY <1>1, <1>2, <1>3, <2>1 DEF IInv, Indexed
  <2> QED  BY <1>1, <1>4, <1>5, <2>1, <2>2 DEF IInv, Indexed
<1>8. indexFile' \in {Absent, Torn} \/ DOMAIN indexFile' = {"label", "index"}
  BY <1>2, <1>3 DEF IInv, TypeOK
<1>9. step \in Steps \ {"new", "footer", "scan", "load"} /\ DOMAIN index' = Sessions
  BY <1>1 DEF IInv, Domains, Steps
<1> QED  BY <1>1, <1>2, <1>6, <1>7, <1>8, <1>9, OpenStep

-----------------------------------------------------------------------------
(* Calls and the outside. *)

LEMMA PlanStep == ASSUME IInv, NEW c \in Calls, NEW q, Plan(c, q) PROVE IInv'
<1>1. /\ pc[c] = "new" /\ pc[SessionOf[c]] = "open" /\ c \in Readers /\ c \notin Sessions
      /\ DOMAIN pc = Readers /\ DOMAIN got = Readers /\ DOMAIN asked = Readers
      /\ DOMAIN query = Calls /\ SessionOf[c] \in Sessions /\ Session(c) = SessionOf[c]
      /\ UNCHANGED <<files, object, overwrites, indexFile, head, footer, index,
                     chunks, calm, raced>>
  BY ReaderKinds DEF Plan, IInv, Domains
<1>2. PICK groups : /\ groups = Selected(c, q)
                    /\ asked' = [asked EXCEPT ![c] = [g \in groups |-> None]]
                    /\ got' = [got EXCEPT ![c] = [g \in groups |-> None]]
                    /\ pc' = [pc EXCEPT ![c] = "reading"]
                    /\ query' = [query EXCEPT ![c] = q]
  BY DEF Plan, Start, Goto
<1>3. groups \subseteq Groups
  BY <1>1, <1>2 DEF Selected, IInv, InFile
<1>4. Groups' = Groups /\ Versions' = Versions
      /\ \A r \in Readers \ {c} : Projection(r)' = Projection(r)
  <2>1. \A r \in Calls \ {c} : query'[r] = query[r]
    BY <1>1, <1>2
  <2> QED  BY <1>1, <2>1, ReaderKinds DEF Groups, Versions, Projection
<1>5. /\ pc'[c] = "reading" /\ \A r \in Readers \ {c} : pc'[r] = pc[r]
      /\ got'[c] = [g \in groups |-> None] /\ asked'[c] = [g \in groups |-> None]
      /\ \A r \in Readers \ {c} : got'[r] = got[r] /\ asked'[r] = asked[r]
      /\ DOMAIN got' = Readers /\ DOMAIN asked' = Readers
  BY <1>1, <1>2
<1>6. TypeOK'
  BY <1>1, <1>4, <1>5, ReaderKinds DEF IInv, TypeOK
<1>7. Domains'
  BY <1>1, <1>2, <1>4, <1>5 DEF IInv, Domains
<1>8. InFile'
  BY <1>1, <1>3, <1>4, <1>5 DEF IInv, InFile
<1>9. Idle'
  BY <1>1, <1>4, <1>5, ReaderKinds DEF IInv, Idle
<1>10. OneUpload'
  <2>1. ASSUME NEW t \in calm, NEW r \in Readers, Session(r) = t, NEW g \in DOMAIN got'[r]
        PROVE  Came(r, g)' /\ UnderWay(r, g)'
    <3>1. CASE r = c
      BY <1>5, <2>1, <3>1 DEF Came, UnderWay
    <3>2. CASE r # c
      BY <1>1, <1>4, <1>5, <2>1, <3>2 DEF IInv, OneUpload, Came, UnderWay
    <3> QED  BY <3>1, <3>2
  <2>2. \A t \in calm : t \in Readers \ {c}
    BY <1>1, ReaderKinds DEF IInv, TypeOK
  <2> QED  BY <1>1, <1>5, <2>1, <2>2 DEF IInv, OneUpload
<1>11. Indexed'
  BY <1>1, <1>4, <1>5, ReaderKinds DEF IInv, Indexed, ScanFaults
<1> QED  BY <1>6, <1>7, <1>8, <1>9, <1>10, <1>11 DEF IInv

LEMMA ReturnStep == ASSUME IInv, NEW c \in Calls, Return(c) PROVE IInv'
<1>1. /\ pc[c] = "reading" /\ c \in Readers /\ c \notin Sessions /\ DOMAIN pc = Readers
      /\ pc' = [pc EXCEPT ![c] = "done"]
      /\ UNCHANGED <<files, query, object, overwrites, indexFile, head, footer, index,
                     chunks, asked, got, calm, raced>>
  BY ReaderKinds DEF Return, Goto, IInv, Domains, reads
<1>2. Groups' = Groups /\ Versions' = Versions /\ \A r \in Readers : Projection(r)' = Projection(r)
  BY <1>1 DEF Groups, Versions, Projection
<1>3. pc'[c] = "done" /\ \A r \in Readers \ {c} : pc'[r] = pc[r]
  BY <1>1
<1>4. TypeOK'
  BY <1>1, <1>2, <1>3, ReaderKinds DEF IInv, TypeOK
<1>5. Domains' /\ InFile'
  BY <1>1, <1>2 DEF IInv, Domains, InFile
<1>6. Idle'
  BY <1>1, <1>2, <1>3, ReaderKinds DEF IInv, Idle
<1>7. OneUpload'
  <2>1. ASSUME NEW t \in calm, NEW r \in Readers, Session(r) = t, NEW g \in DOMAIN got[r]
        PROVE  Came(r, g)' /\ UnderWay(r, g)'
    BY <1>1, <1>2, <2>1 DEF IInv, OneUpload, Came, UnderWay
  <2>2. \A t \in calm : t \in Readers \ {c}
    BY <1>1, ReaderKinds DEF IInv, TypeOK
  <2> QED  BY <1>1, <1>3, <2>1, <2>2 DEF IInv, OneUpload
<1>8. Indexed'
  BY <1>1, <1>2, <1>3, ReaderKinds DEF IInv, Indexed, ScanFaults
<1> QED  BY <1>4, <1>5, <1>6, <1>7, <1>8 DEF IInv

(* An upload ends the calm of every session, and taints the tag of those   *)
(* that are opening; the layout stays.                                     *)
LEMMA OverwriteStep == ASSUME IInv, Overwrite PROVE IInv'
<1>1. /\ object \in Versions /\ object' \in Versions /\ calm' = {}
      /\ overwrites < MaxOverwrites /\ overwrites' = overwrites + 1
      /\ raced' = raced \cup {head[s] : s \in {t \in Sessions :
                                          pc[t] \in {"footer", "load", "scan"}}}
      /\ UNCHANGED <<files, query, indexFile, pc, head, footer, index, chunks, asked, got>>
  BY DEF Overwrite, IInv, TypeOK, reads
<1>2. Versions' = Versions
  BY <1>1 DEF Versions
<1>3. Groups' = Groups
  <2>1. TypeOK
    BY DEF IInv
  <2>2. DOMAIN files[object'] = Groups
    BY <1>1, <2>1, Layout
  <2> QED  BY <1>1, <2>2 DEF Groups
<1>4. TypeOK'
  BY <1>1, <1>2, <1>3, CatchmentReadsAssumption DEF IInv, TypeOK, Domains
<1>5. Domains' /\ InFile' /\ Idle'
  BY <1>1, <1>2, <1>3 DEF IInv, Domains, InFile, Idle
<1>6. OneUpload'
  BY <1>1 DEF OneUpload
<1>7. Indexed'
  BY <1>1, <1>2 DEF IInv, Indexed, ScanFaults
<1> QED  BY <1>4, <1>5, <1>6, <1>7 DEF IInv

-----------------------------------------------------------------------------

LEMMA IInvStep == IInv /\ [Next]_vars => IInv'
<1> SUFFICES ASSUME IInv, [Next]_vars PROVE IInv'
  OBVIOUS
<1>1. CASE UNCHANGED vars
  <2>1. UNCHANGED <<files, query, object, overwrites, indexFile, pc, head, footer,
                    index, chunks, asked, got, calm, raced>>
    BY <1>1 DEF vars, reads
  <2>2. Groups' = Groups /\ Versions' = Versions /\ \A r \in Readers : Projection(r)' = Projection(r)
    BY <2>1 DEF Groups, Versions, Projection
  <2>3. TypeOK' /\ Domains' /\ InFile' /\ Idle'
    BY <2>1, <2>2 DEF IInv, TypeOK, Domains, InFile, Idle
  <2>4. OneUpload'
    BY <2>1, <2>2 DEF IInv, OneUpload, Came, UnderWay
  <2>5. Indexed'
    BY <2>1, <2>2 DEF IInv, Indexed, ScanFaults
  <2> QED  BY <2>3, <2>4, <2>5 DEF IInv
<1>2. ASSUME NEW s \in Sessions, HeadObject(s) \/ Footer(s) \/ Load(s) \/ Build(s) \/ Write(s)
      PROVE  IInv'
  BY <1>2, HeadStep, FooterStep, LoadStep, BuildStep, WriteStep
<1>3. ASSUME NEW s \in Sessions, Die(s) PROVE IInv'
  BY <1>3, EndStep DEF Die
<1>4. ASSUME NEW c \in Calls, (\E q \in Queries : Plan(c, q)) \/ Return(c) PROVE IInv'
  BY <1>4, PlanStep, ReturnStep
<1>5. ASSUME NEW r \in Readers, NEW g \in DOMAIN got[r], Moves(r, g) PROVE IInv'
  BY <1>5, MovesStep
<1>6. CASE Overwrite
  BY <1>6, OverwriteStep
<1>7. CASE Next
  BY <1>2, <1>3, <1>4, <1>5, <1>6, <1>7, NextCases
<1> QED  BY <1>1, <1>7

LEMMA InvariantHolds == Spec => []IInv
BY InitIInv, IInvStep, PTL DEF Spec

(* What the stores, their caches and the index on disk hold keeps its      *)
(* type, for any sessions, calls and uploads of one layout.                *)
THEOREM TypeCorrect == Spec => []TypeOK
BY InvariantHolds, PTL DEF IInv

(* However many sessions share the directory, whoever tears or kills the   *)
(* writing of the index and whatever is uploaded: the index an open        *)
(* session serves with is exact for the upload its HEAD named, unless an   *)
(* upload met an open under the same tag.                                  *)
THEOREM IndexIsExactHolds == Spec => []IndexIsExact
<1>1. IInv => IndexIsExact
  <2> SUFFICES ASSUME IInv, NEW s \in Sessions, pc[s] = "open", head[s] \notin raced
               PROVE  LET v == head[s] IN
                      /\ DOMAIN index[s] = {RowAt(v, p).id : p \in Places(v)}
                      /\ \A p \in Places(v) : index[s][RowAt(v, p).id] = p[1]
                      /\ \A p \in Places(v) : RowAt(v, p).fault \notin Refusable(s, RowAt(v, p).id)
    BY DEF IndexIsExact
  <2>1. ExactIndex(files, head[s], index[s]) /\ SoundFile(files, head[s], ScanFaults(s))
    BY DEF IInv, Indexed
  <2>2. \A v : Places(v) = PlacesIn(files, v)
    BY DEF Places, PlacesIn
  <2>3. \A id : Refusable(s, id) = ScanFaults(s)
    BY DEF Refusable, ScanFaults
  <2> QED  BY <2>1, <2>2, <2>3 DEF ExactIndex, SoundFile, RowAt
<1> QED  BY <1>1, InvariantHolds, PTL

-----------------------------------------------------------------------------
(* Least elements, and sequences made of parts. *)

LEMMA LeastNatural ==
  ASSUME NEW S \in SUBSET Nat, S # {}
  PROVE  \E m \in S : \A n \in S : m <= n
<1> DEFINE R == OpToRel(<, Nat)
<1>1. \A x, y \in Nat : <<x, y>> \in R <=> x < y
  BY DEF OpToRel
<1>2. IsWellFoundedOn(R, Nat)
  BY NatLessThanWellFounded
<1> HIDE DEF R
<1>3. PICK m \in S : \A n \in S : ~ (<<n, m>> \in R)
  BY <1>2, WFMin
<1>4. m \in Nat /\ \A n \in S : n \in Nat /\ ~ (n < m)
  BY <1>1, <1>3
<1>5. \A n \in S : m <= n
  BY <1>4
<1> QED  BY <1>5

LEMMA MinOfNats ==
  ASSUME NEW S \in SUBSET Nat, S # {}
  PROVE  Min(S) \in S /\ \A n \in S : Min(S) <= n
BY LeastNatural DEF Min

(* The first k of the integers f have a least and a greatest. *)
Bounded(f, k) ==
  /\ \E a \in 1..k : \A b \in 1..k : f[a] <= f[b]
  /\ \E a \in 1..k : \A b \in 1..k : f[a] >= f[b]

LEMMA BoundedStep ==
  ASSUME NEW k \in Nat \ {0}, NEW f, \A i \in 1..(k + 1) : f[i] \in Int, Bounded(f, k)
  PROVE  Bounded(f, k + 1)
<1>1. PICK a \in 1..k : \A b \in 1..k : f[a] <= f[b]
  BY DEF Bounded
<1>2. PICK c \in 1..k : \A b \in 1..k : f[c] >= f[b]
  BY DEF Bounded
<1>3. /\ \A b \in 1..(k + 1) : b = k + 1 \/ b \in 1..k
      /\ k + 1 \in 1..(k + 1) /\ a \in 1..(k + 1) /\ c \in 1..(k + 1)
  OBVIOUS
<1>4. f[a] \in Int /\ f[c] \in Int /\ f[k + 1] \in Int
  BY <1>3
<1>5. \E x \in 1..(k + 1) : \A b \in 1..(k + 1) : f[x] <= f[b]
  <2>1. CASE f[a] <= f[k + 1]
    BY <1>1, <1>3, <2>1
  <2>2. CASE f[k + 1] <= f[a]
    <3>1. ASSUME NEW b \in 1..(k + 1) PROVE f[k + 1] <= f[b]
      <4>1. f[b] \in Int
        OBVIOUS
      <4> QED  BY <1>1, <1>3, <1>4, <2>2, <4>1
    <3> QED  BY <1>3, <3>1
  <2> QED  BY <1>4, <2>1, <2>2
<1>6. \E x \in 1..(k + 1) : \A b \in 1..(k + 1) : f[x] >= f[b]
  <2>1. CASE f[c] >= f[k + 1]
    BY <1>2, <1>3, <2>1
  <2>2. CASE f[k + 1] >= f[c]
    <3>1. ASSUME NEW b \in 1..(k + 1) PROVE f[k + 1] >= f[b]
      <4>1. f[b] \in Int
        OBVIOUS
      <4> QED  BY <1>2, <1>3, <1>4, <2>2, <4>1
    <3> QED  BY <1>3, <3>1
  <2> QED  BY <1>4, <2>1, <2>2
<1> QED  BY <1>5, <1>6 DEF Bounded

(* The integers at the places of a sequence have a least and a greatest. *)
LEMMA BoundsOfInts ==
  ASSUME NEW n \in Nat, NEW f \in [1..n -> Int], NEW i \in 1..n
  PROVE  LET S == {f[j] : j \in 1..n}
         IN Min(S) \in Int /\ Max(S) \in Int /\ Min(S) <= f[i] /\ f[i] <= Max(S)
<1> DEFINE S == {f[j] : j \in 1..n}
           Missing == {k \in 1..n : ~ Bounded(f, k)}
<1>1. Missing = {}
  <2> SUFFICES ASSUME Missing # {} PROVE FALSE
    OBVIOUS
  <2>1. PICK k \in Missing : \A j \in Missing : k <= j
    <3>1. Missing \in SUBSET Nat
      OBVIOUS
    <3> HIDE DEF Missing
    <3> QED  BY <3>1, LeastNatural
  <2>2. k \in 1..n /\ ~ Bounded(f, k)
    BY <2>1
  <2>3. k # 1
    <3>1. Bounded(f, 1)
      <4>1. 1..1 = {1} /\ f[1] \in Int
        BY <2>2
      <4> QED  BY <4>1 DEF Bounded
    <3> QED  BY <2>2, <3>1
  <2>4. k - 1 \in 1..n /\ k - 1 \notin Missing /\ k - 1 \in Nat \ {0} /\ (k - 1) + 1 = k
    BY <2>1, <2>2, <2>3
  <2>5. Bounded(f, k - 1) /\ \A j \in 1..k : f[j] \in Int
    BY <2>2, <2>4
  <2> HIDE DEF Missing
  <2>6. Bounded(f, (k - 1) + 1)
    BY <2>4, <2>5, BoundedStep
  <2> QED  BY <2>2, <2>4, <2>6
<1>2. Bounded(f, n)
  <2>1. n \in 1..n
    OBVIOUS
  <2> QED  BY <1>1, <2>1
<1>3. \E x \in S : \A y \in S : x <= y
  BY <1>2 DEF Bounded
<1>4. \E x \in S : \A y \in S : x >= y
  BY <1>2 DEF Bounded
<1>5. f[i] \in S /\ S \subseteq Int
  OBVIOUS
<1> HIDE DEF S
<1>6. Min(S) \in S /\ \A y \in S : Min(S) <= y
  BY <1>3 DEF Min
<1>7. Max(S) \in S /\ \A y \in S : Max(S) >= y
  BY <1>4 DEF Max
<1> QED  BY <1>5, <1>6, <1>7 DEF S

(* The recursion of FlattenSeq, up to k. *)
Flattens(f, seqs, k) ==
  f = [i \in 1..k |-> IF i = 1 THEN seqs[i] ELSE f[i - 1] \o seqs[i]]

LEMMA FlattensExist == \A seqs : \A k \in Nat : \E f : Flattens(f, seqs, k)
<1> SUFFICES ASSUME NEW seqs PROVE \A k \in Nat : \E f : Flattens(f, seqs, k)
  OBVIOUS
<1> DEFINE Missing == {k \in Nat : ~ \E f : Flattens(f, seqs, k)}
<1> SUFFICES ASSUME Missing # {} PROVE FALSE
  OBVIOUS
<1>1. PICK k \in Missing : \A j \in Missing : k <= j
  <2>1. Missing \in SUBSET Nat
    OBVIOUS
  <2> HIDE DEF Missing
  <2> QED  BY <2>1, LeastNatural
<1>2. k \in Nat /\ ~ \E f : Flattens(f, seqs, k)
  BY <1>1
<1>3. CASE k = 0
  <2>1. Flattens(<< >>, seqs, 0)
    BY DEF Flattens
  <2> QED  BY <1>2, <1>3, <2>1
<1>4. CASE k # 0
  <2>1. k - 1 \in Nat /\ k - 1 \notin Missing
    BY <1>1, <1>2, <1>4
  <2>2. PICK g : Flattens(g, seqs, k - 1)
    BY <2>1
  <2> DEFINE Step(i) == IF i = 1 THEN seqs[i] ELSE g[i - 1] \o seqs[i]
             f == [i \in 1..k |-> Step(i)]
  <2>3. ASSUME NEW i \in 1..k
        PROVE  f[i] = IF i = 1 THEN seqs[i] ELSE f[i - 1] \o seqs[i]
    <3>1. f[i] = Step(i)
      OBVIOUS
    <3>2. CASE i # 1
      <4>1. i - 1 \in 1..(k - 1) /\ i - 1 \in 1..k
        BY <1>2, <3>2
      <4>2. f[i - 1] = Step(i - 1)
        BY <4>1
      <4>3. g[i - 1] = Step(i - 1)
        <5> DEFINE Level(j) == IF j = 1 THEN seqs[j] ELSE g[j - 1] \o seqs[j]
        <5>1. g = [j \in 1..(k - 1) |-> Level(j)]
          BY <2>2 DEF Flattens
        <5> HIDE DEF Level
        <5>2. g[i - 1] = Level(i - 1)
          BY <4>1, <5>1
        <5> QED  BY <5>2 DEF Level
      <4> QED  BY <3>1, <3>2, <4>2, <4>3
    <3> QED  BY <3>1, <3>2
  <2>4. Flattens(f, seqs, k)
    <3>1. f = [i \in 1..k |-> f[i]]
      OBVIOUS
    <3> HIDE DEF f
    <3> QED  BY <2>3, <3>1 DEF Flattens
  <2> QED  BY <1>2, <2>4
<1> QED  BY <1>3, <1>4

LEMMA FlattenIs ==
  ASSUME NEW T, NEW n \in Nat \ {0}, NEW parts \in [1..n -> Seq(T)]
  PROVE  \E f : /\ FlattenSeq(parts) = f[n] /\ f[1] = parts[1]
                /\ \A i \in 2..n : f[i] = f[i - 1] \o parts[i]
<1>1. Len(parts) = n
  OBVIOUS
<1> DEFINE f == CHOOSE h : Flattens(h, parts, n)
<1>2. Flattens(f, parts, n)
  BY FlattensExist
<1>3. FlattenSeq(parts) = f[n]
  <2>1. FlattenSeq(parts) =
          LET flatten[i \in 1..n] == IF i = 1 THEN parts[i] ELSE flatten[i - 1] \o parts[i]
          IN flatten[n]
    BY <1>1 DEF FlattenSeq
  <2> QED  BY <2>1 DEF Flattens
<1> HIDE DEF f
<1> DEFINE Level(j) == IF j = 1 THEN parts[j] ELSE f[j - 1] \o parts[j]
<1>4. f = [j \in 1..n |-> Level(j)]
  BY <1>2 DEF Flattens
<1> HIDE DEF Level
<1>5. \A j \in 1..n : f[j] = Level(j)
  BY <1>4
<1>6. f[1] = parts[1]
  <2>1. 1 \in 1..n
    OBVIOUS
  <2> QED  BY <1>5, <2>1 DEF Level
<1>7. \A i \in 2..n : f[i] = f[i - 1] \o parts[i]
  <2>1. \A i \in 2..n : i \in 1..n /\ i # 1
    OBVIOUS
  <2> QED  BY <1>5, <2>1 DEF Level
<1> QED  BY <1>3, <1>6, <1>7

(* The elements of s follow each other as the relation R says. *)
Ordered(s, R) == \A a, b \in DOMAIN s : a < b => <<s[a], s[b]>> \in R

LEMMA JoinOrdered ==
  ASSUME NEW T, NEW R, NEW s \in Seq(T), NEW t \in Seq(T), Ordered(s, R), Ordered(t, R),
         \A x \in ToSet(s), y \in ToSet(t) : <<x, y>> \in R
  PROVE  /\ s \o t \in Seq(T) /\ Ordered(s \o t, R)
         /\ ToSet(s \o t) = ToSet(s) \cup ToSet(t)
<1> DEFINE u == s \o t
<1>1. /\ u \in Seq(T) /\ Len(u) = Len(s) + Len(t) /\ Len(s) \in Nat /\ Len(t) \in Nat
      /\ DOMAIN u = 1..Len(u) /\ DOMAIN s = 1..Len(s) /\ DOMAIN t = 1..Len(t)
  OBVIOUS
<1>2. \A a \in DOMAIN u : IF a <= Len(s) THEN a \in DOMAIN s /\ u[a] = s[a]
                           ELSE a - Len(s) \in DOMAIN t /\ u[a] = t[a - Len(s)]
  BY <1>1
<1>3. /\ \A a \in DOMAIN s : a \in DOMAIN u /\ u[a] = s[a]
      /\ \A b \in DOMAIN t : Len(s) + b \in DOMAIN u /\ u[Len(s) + b] = t[b]
  BY <1>1
<1> HIDE DEF u
<1>4. ToSet(u) = ToSet(s) \cup ToSet(t)
  BY <1>1, <1>2, <1>3 DEF ToSet
<1>5. ASSUME NEW a \in DOMAIN u, NEW b \in DOMAIN u, a < b PROVE <<u[a], u[b]>> \in R
  <2>1. a \in Nat /\ b \in Nat
    BY <1>1
  <2>2. CASE b <= Len(s)
    BY <1>1, <1>2, <1>5, <2>1, <2>2 DEF Ordered
  <2>3. CASE Len(s) < b /\ a <= Len(s)
    <3>1. u[a] \in ToSet(s)
      BY <1>2, <2>3 DEF ToSet
    <3>2. u[b] \in ToSet(t)
      BY <1>1, <1>2, <2>1, <2>3 DEF ToSet
    <3> QED  BY <3>1, <3>2
  <2>4. CASE Len(s) < a
    <3>1. /\ a - Len(s) \in DOMAIN t /\ u[a] = t[a - Len(s)]
          /\ b - Len(s) \in DOMAIN t /\ u[b] = t[b - Len(s)]
          /\ a - Len(s) < b - Len(s)
      BY <1>1, <1>2, <1>5, <2>1, <2>4
    <3> QED  BY <3>1 DEF Ordered
  <2> QED  BY <1>1, <2>1, <2>2, <2>3, <2>4
<1>6. Ordered(u, R)
  BY <1>5 DEF Ordered
<1> QED  BY <1>1, <1>4, <1>6 DEF u

(* What the first k parts make is f[k]. *)
Joined(f, parts, T, R, k) ==
  /\ f[k] \in Seq(T) /\ Ordered(f[k], R)
  /\ ToSet(f[k]) = UNION {ToSet(parts[i]) : i \in 1..k}

(* A sequence made of parts has the elements of the parts, and is ordered  *)
(* if every part is and the parts follow each other.                       *)
LEMMA FlattenOrdered ==
  ASSUME NEW n \in Nat, NEW T, NEW R, NEW parts \in [1..n -> Seq(T)],
         \A i \in 1..n : Ordered(parts[i], R),
         \A i, j \in 1..n : i < j =>
           \A x \in ToSet(parts[i]), y \in ToSet(parts[j]) : <<x, y>> \in R
  PROVE  /\ FlattenSeq(parts) \in Seq(T) /\ Ordered(FlattenSeq(parts), R)
         /\ ToSet(FlattenSeq(parts)) = UNION {ToSet(parts[i]) : i \in 1..n}
<1>1. CASE n = 0
  <2>1. parts = << >> /\ Len(parts) = 0 /\ 1..n = {}
    BY <1>1
  <2>2. FlattenSeq(parts) = << >>
    BY <2>1 DEF FlattenSeq
  <2>3. /\ << >> \in Seq(T) /\ Ordered(<< >>, R) /\ ToSet(<< >>) = {}
    BY DEF Ordered, ToSet
  <2>4. UNION {ToSet(parts[i]) : i \in 1..n} = {}
    BY <2>1
  <2> QED  BY <2>2, <2>3, <2>4
<1>2. CASE n # 0
  <2>1. PICK f : /\ FlattenSeq(parts) = f[n] /\ f[1] = parts[1]
                 /\ \A i \in 2..n : f[i] = f[i - 1] \o parts[i]
    <3>1. n \in Nat \ {0}
      BY <1>2
    <3> HIDE DEF Ordered
    <3>2. \E f : /\ FlattenSeq(parts) = f[n] /\ f[1] = parts[1]
                 /\ \A i \in 2..n : f[i] = f[i - 1] \o parts[i]
      BY ONLY <3>1, parts \in [1..n -> Seq(T)], FlattenIs
    <3> QED  BY <3>2
  <2> DEFINE Missing == {k \in 1..n : ~ Joined(f, parts, T, R, k)}
  <2>2. ASSUME Missing # {} PROVE FALSE
    <3>1. PICK k \in Missing : \A j \in Missing : k <= j
      <4>1. Missing \in SUBSET Nat
        OBVIOUS
      <4> HIDE DEF Missing
      <4> QED  BY <2>2, <4>1, LeastNatural
    <3>2. k \in 1..n /\ ~ Joined(f, parts, T, R, k)
      BY <3>1
    <3>3. k # 1
      <4>1. 1 \in 1..n /\ 1..1 = {1}
        BY <1>2
      <4>2. Joined(f, parts, T, R, 1)
        BY <2>1, <4>1 DEF Joined
      <4> QED  BY <3>2, <4>2
    <3>4. k - 1 \in 1..n /\ k - 1 \notin Missing /\ k \in 2..n
          /\ 1..k = (1..(k - 1)) \cup {k} /\ 1..(k - 1) \subseteq 1..n
          /\ \A i \in 1..(k - 1) : i < k
      BY <3>1, <3>2, <3>3
    <3>5. Joined(f, parts, T, R, k - 1)
      BY <3>4
    <3> HIDE DEF Missing
    <3>6. f[k] = f[k - 1] \o parts[k] /\ parts[k] \in Seq(T) /\ Ordered(parts[k], R)
      BY <2>1, <3>2, <3>4
    <3>7. \A x \in ToSet(f[k - 1]), y \in ToSet(parts[k]) : <<x, y>> \in R
      <4>1. \A i \in 1..(k - 1) : i \in 1..n /\ i < k
        BY <3>4
      <4> QED  BY <3>2, <3>5, <4>1 DEF Joined
    <3>8. /\ f[k] \in Seq(T) /\ Ordered(f[k], R)
          /\ ToSet(f[k]) = ToSet(f[k - 1]) \cup ToSet(parts[k])
      <4>1. f[k - 1] \in Seq(T) /\ Ordered(f[k - 1], R)
        BY <3>5 DEF Joined
      <4> QED  BY <3>6, <3>7, <4>1, JoinOrdered
    <3>9. ToSet(f[k]) = UNION {ToSet(parts[i]) : i \in 1..k}
      BY <3>4, <3>5, <3>8 DEF Joined
    <3> QED  BY <3>2, <3>8, <3>9 DEF Joined
  <2>3. Joined(f, parts, T, R, n)
    <3>1. n \in 1..n
      BY <1>2
    <3> QED  BY <2>2, <3>1
  <2> QED  BY <2>1, <2>3 DEF Joined
<1> QED  BY <1>1, <1>2

-----------------------------------------------------------------------------
(* What a call reads, in which order, and how it ends. *)

(* A call reads the row groups that its query selects, now as when it was  *)
(* made.                                                                   *)
Chosen(c) ==
  pc[c] # "new" => query[c] \in Queries /\ DOMAIN got[c] = Selected(c, query[c])

(* Unless several are in flight, whatever was asked for or came, all row   *)
(* groups before it came.                                                  *)
Turn(c) ==
  pc[c] # "new" /\ ~Buffered(c) =>
    \A g, h \in DOMAIN got[c] :
      h < g /\ (got[c][g] # None \/ asked[c][g] # None) => got[c][h] # None

(* What is marked lost was lost. *)
LossTold(c) ==
  SessionOf[c] \in calm => \A g \in DOMAIN got[c] : got[c][g] = Lost => c \in Lossy

(* A call returned with all it needs, or with an error. *)
Ended(c) == pc[c] = "done" => Finished(c)

CallsInv == \A c \in Calls : Chosen(c) /\ Turn(c) /\ LossTold(c) /\ Ended(c)

LEMMA Typed ==
  ASSUME TypeOK, NEW v \in Versions
  PROVE  /\ v \in Nat /\ Len(files[v]) \in Nat /\ Groups = 1..Len(files[v])
         /\ \A g \in Groups :
              /\ files[v][g].rows \in Seq([id : Int, box : Int \X Int, fault : STRING])
              /\ files[v][g].stats \in BOOLEAN
<1>1. files \in Seq(Seq(RowGroup)) /\ Groups = DOMAIN files[v]
  BY Layout, CatchmentReadsAssumption DEF TypeOK
<1>2. files[v] \in Seq(RowGroup) /\ v \in Nat
  BY <1>1 DEF Versions
<1>3. \A g \in Groups : files[v][g] \in RowGroup
  BY <1>1, <1>2
<1> QED  BY <1>1, <1>2, <1>3 DEF RowGroup

LEMMA GroupsFinite ==
  ASSUME TypeOK
  PROVE  /\ Groups \subseteq Nat
         /\ \A S \in SUBSET Groups : IsFiniteSet(S) /\ Cardinality(S) \in Nat
                                     /\ (S # {} => Cardinality(S) # 0)
<1>1. Len(files[object]) \in Nat /\ Groups = 1..Len(files[object])
  BY Typed DEF TypeOK
<1>2. IsFiniteSet(Groups) /\ Groups \subseteq Nat
  BY <1>1, FS_Interval
<1>3. \A S \in SUBSET Groups : IsFiniteSet(S)
  BY <1>2, FS_Subset
<1> QED  BY <1>2, <1>3, FS_CardinalityType, FS_EmptySet

(* What was read of a row group is judged the same as long as the bytes    *)
(* are the same.                                                           *)
LEMMA FailedKept ==
  ASSUME TypeOK, files' = files, object' \in Versions, NEW c \in Calls,
         query'[c] = query[c], NEW g \in Groups, got'[c][g] = got[c][g]
  PROVE  Refused(c, g)' = Refused(c, g) /\ Failed(c, g)' = Failed(c, g)
<1>1. DOMAIN files[object'][g].rows = DOMAIN files[object][g].rows
  BY Layout
<1>2. \A i, col : Seen(c, g, i, col)' = Seen(c, g, i, col)
  BY DEF Seen
<1>3. \A id : Refusable(c, id)' = Refusable(c, id)
  BY DEF Refusable
<1>4. Refused(c, g)' = Refused(c, g)
  BY <1>1, <1>2, <1>3 DEF Refused
<1> QED  BY <1>4 DEF Failed

LEMMA FinishedKept ==
  ASSUME IInv, files' = files, object' \in Versions, NEW c \in Calls,
         query'[c] = query[c], got'[c] = got[c]
  PROVE  Pending(c)' = Pending(c) /\ Failures(c)' = Failures(c)
         /\ Finished(c)' = Finished(c)
<1>1. Pending(c)' = Pending(c)
  BY DEF Pending
<1>2. \A g \in DOMAIN got[c] : Failed(c, g)' = Failed(c, g)
  BY FailedKept, ReaderKinds DEF IInv, InFile
<1>3. Failures(c)' = Failures(c)
  BY <1>1, <1>2 DEF Failures
<1> QED  BY <1>1, <1>3 DEF Finished, Buffered

(* The groups that a query selects do not change once its session is open. *)
LEMMA SelectedKept ==
  ASSUME TypeOK, files' = files, object' \in Versions, NEW c \in Calls, NEW q,
         footer'[SessionOf[c]] = footer[SessionOf[c]],
         index'[SessionOf[c]] = index[SessionOf[c]]
  PROVE  Selected(c, q)' = Selected(c, q)
<1>1. Groups' = Groups
  BY Layout DEF Groups
<1> QED  BY <1>1 DEF Selected

(* A step that leaves a call and what its session opened alone.            *)
LEMMA CallKept ==
  ASSUME IInv, CallsInv, NEW c \in Calls,
         files' = files, object' \in Versions,
         pc'[c] = pc[c], query'[c] = query[c], got'[c] = got[c], asked'[c] = asked[c],
         pc[c] # "new" => /\ footer'[SessionOf[c]] = footer[SessionOf[c]]
                          /\ index'[SessionOf[c]] = index[SessionOf[c]],
         SessionOf[c] \in calm' => SessionOf[c] \in calm \/ DOMAIN got[c] = {}
  PROVE  (Chosen(c) /\ Turn(c) /\ LossTold(c) /\ Ended(c))'
<1>1. Chosen(c)'
  BY SelectedKept DEF IInv, CallsInv, Chosen
<1>2. Turn(c)'
  BY DEF CallsInv, Turn, Buffered
<1>3. LossTold(c)'
  BY DEF CallsInv, LossTold
<1>4. Ended(c)'
  BY FinishedKept DEF CallsInv, Ended
<1> QED  BY <1>1, <1>2, <1>3, <1>4

(* Without a window, a group is asked for when all before it have come.    *)
LEMMA AskedInTurn ==
  ASSUME IInv, NEW c \in Calls, ~ Buffered(c), NEW g \in Askable(c),
         NEW h \in DOMAIN got[c], h < g
  PROVE  got[c][h] # None
<1> SUFFICES ASSUME got[c][h] = None PROVE FALSE
  OBVIOUS
<1> DEFINE X == {k \in DOMAIN got[c] : Min(Pending(c)) <= k /\ k < g}
<1>1. TypeOK /\ DOMAIN got[c] \subseteq Groups
  BY ReaderKinds DEF IInv, InFile
<1>2. h \in Pending(c) /\ Pending(c) \subseteq Nat
  BY <1>1, GroupsFinite DEF Pending
<1>3. Min(Pending(c)) <= h
  BY <1>2, MinOfNats
<1>4. h \in X /\ X \subseteq Groups
  BY <1>1, <1>3
<1>5. Cardinality(X) < 1
  BY DEF Askable
<1> HIDE DEF X
<1>6. Cardinality(X) \in Nat /\ Cardinality(X) # 0
  BY <1>1, <1>4, GroupsFinite
<1> QED  BY <1>5, <1>6

LEMMA MovesCalls ==
  ASSUME IInv, CallsInv, NEW r \in Readers, NEW g \in DOMAIN got[r], Moves(r, g)
  PROVE  CallsInv'
<1>1. /\ UNCHANGED <<files, query, object, pc, head, footer, index, calm>>
      /\ DOMAIN got = Readers /\ DOMAIN asked = Readers /\ object \in Versions
      /\ got' = got \/ \E read : got' = [got EXCEPT ![r][g] = read]
      /\ asked' = asked \/ \E a : asked' = [asked EXCEPT ![r][g] = a]
  <2>1. DOMAIN got = Readers /\ DOMAIN asked = Readers /\ object \in Versions
    BY DEF IInv, Domains, TypeOK
  <2> QED  BY <2>1, MovesFrame
<1>2. ASSUME NEW c \in Calls, c # r
      PROVE  (Chosen(c) /\ Turn(c) /\ LossTold(c) /\ Ended(c))'
  <2>1. got'[c] = got[c] /\ asked'[c] = asked[c]
    BY <1>1, <1>2, ReaderKinds
  <2> QED  BY <1>1, <2>1, CallKept
<1>3. ASSUME r \in Calls
      PROVE  (Chosen(r) /\ Turn(r) /\ LossTold(r) /\ Ended(r))'
  <2>1. /\ g \in Pending(r) /\ got[r][g] = None
        /\ (Ask(r, g) /\ pc[r] = "reading" /\ g \in Askable(r)) \/ asked[r][g] # None
        /\ TypeOK /\ g \in Groups /\ DOMAIN got[r] \subseteq Groups
    BY <1>3, ReaderKinds DEF Moves, Ask, Arrive, Lose, Askable, Pending, IInv, InFile, TypeOK
  <2>2. /\ DOMAIN got'[r] = DOMAIN got[r]
        /\ \A h \in DOMAIN got[r] : h # g => got'[r][h] = got[r][h] /\ asked'[r][h] = asked[r][h]
    BY OthersKept
  <2>3. Chosen(r)'
    <3>1. Selected(r, query[r])' = Selected(r, query[r])
      BY <1>1, <1>3, <2>1, SelectedKept
    <3> QED  BY <1>1, <1>3, <2>2, <3>1 DEF CallsInv, Chosen
  <2>4. Turn(r)'
    <3> SUFFICES ASSUME pc[r] # "new", ~ Buffered(r),
                        NEW e \in DOMAIN got[r], NEW h \in DOMAIN got[r], h < e,
                        got'[r][e] # None \/ asked'[r][e] # None
                 PROVE  got'[r][h] # None
      BY <1>1, <2>2 DEF Turn, Buffered
    <3>1. CASE e = g
      <4>1. got[r][h] # None
        BY <1>3, <2>1, <3>1, AskedInTurn DEF CallsInv, Turn
      <4> QED  BY <2>1, <2>2, <4>1
    <3>2. CASE e # g
      <4>1. got[r][h] # None
        BY <1>3, <2>2, <3>2 DEF CallsInv, Turn
      <4> QED  BY <2>1, <2>2, <4>1
    <3> QED  BY <3>1, <3>2
  <2>5. LossTold(r)'
    <3> SUFFICES ASSUME SessionOf[r] \in calm, NEW h \in DOMAIN got[r], got'[r][h] = Lost
                 PROVE  r \in Lossy
      BY <1>1, <2>2 DEF LossTold
    <3>1. CASE h # g \/ got' = got
      BY <1>3, <2>2, <3>1 DEF CallsInv, LossTold
    <3>2. CASE h = g /\ got'[r][g] \in [Projection(r) -> {head[Session(r)]}]
      <4>1. Projection(r) \in SUBSET Columns /\ head[Session(r)] \in Nat
        BY <1>3, <2>1, ReaderKinds, Typed DEF Projection, Columns, IInv, Domains
      <4>2. got'[r][g] \in [Projection(r) -> Nat]
        BY <3>2, <4>1
      <4> QED  BY <3>2, <4>1, <4>2, CatchmentReadsAssumption
    <3>3. CASE Lose(r, g)
      BY <3>3 DEF Lose
    <3> QED  BY <1>3, <3>1, <3>2, <3>3, ReaderKinds, AskEffect, ArriveEffect DEF Moves
  <2>6. Ended(r)'
    <3> SUFFICES ASSUME pc[r] = "done" PROVE Finished(r)'
      BY <1>1 DEF Ended
    <3>1. Pending(r) # {} /\ Finished(r)
      BY <1>3, <2>1 DEF CallsInv, Ended
    <3>2. ~ Buffered(r) /\ Failures(r) # {}
      BY <3>1 DEF Finished
    <3>3. PICK h \in Failures(r) : TRUE
      BY <3>2
    <3>4. h \in DOMAIN got[r] /\ h # g /\ got[r][h] # None /\ Failed(r, h)
      BY <2>1, <3>3 DEF Failures, Pending
    <3>5. got'[r][h] = got[r][h] /\ h \in Groups
      BY <2>1, <2>2, <3>4
    <3>6. Failed(r, h)'
      BY <1>1, <1>3, <2>1, <3>4, <3>5, FailedKept
    <3>7. h \in Failures(r)'
      BY <2>2, <3>4, <3>5, <3>6 DEF Failures, Pending
    <3> QED  BY <1>1, <3>2, <3>7 DEF Finished, Buffered
  <2> QED  BY <2>3, <2>4, <2>5, <2>6
<1> QED  BY <1>2, <1>3 DEF CallsInv

LEMMA PlanCalls ==
  ASSUME IInv, CallsInv, NEW a \in Calls, NEW q \in Queries, Plan(a, q)
  PROVE  CallsInv'
<1>1. /\ pc[a] = "new" /\ DOMAIN pc = Readers /\ DOMAIN got = Readers
      /\ DOMAIN asked = Readers /\ DOMAIN query = Calls /\ object \in Versions /\ TypeOK
      /\ UNCHANGED <<files, object, footer, index, calm>>
  BY DEF Plan, IInv, Domains, TypeOK
<1>2. PICK groups : /\ groups = Selected(a, q)
                    /\ asked' = [asked EXCEPT ![a] = [g \in groups |-> None]]
                    /\ got' = [got EXCEPT ![a] = [g \in groups |-> None]]
                    /\ pc' = [pc EXCEPT ![a] = "reading"]
                    /\ query' = [query EXCEPT ![a] = q]
  BY DEF Plan, Start, Goto
<1>3. ASSUME NEW c \in Calls, c # a
      PROVE  (Chosen(c) /\ Turn(c) /\ LossTold(c) /\ Ended(c))'
  <2>1. /\ pc'[c] = pc[c] /\ query'[c] = query[c]
        /\ got'[c] = got[c] /\ asked'[c] = asked[c]
    BY <1>1, <1>2, <1>3, ReaderKinds
  <2> QED  BY <1>1, <2>1, CallKept
<1>4. (Chosen(a) /\ Turn(a) /\ LossTold(a) /\ Ended(a))'
  <2>1. /\ pc'[a] = "reading" /\ query'[a] = q
        /\ got'[a] = [g \in groups |-> None] /\ asked'[a] = [g \in groups |-> None]
    BY <1>1, <1>2, ReaderKinds
  <2>2. Selected(a, q)' = Selected(a, q)
    BY <1>1, SelectedKept
  <2>3. Chosen(a)'
    BY <1>2, <2>1, <2>2 DEF Chosen
  <2>4. Turn(a)' /\ LossTold(a)' /\ Ended(a)'
    BY <2>1, CatchmentReadsAssumption DEF Turn, LossTold, Ended
  <2> QED  BY <2>3, <2>4
<1> QED  BY <1>3, <1>4 DEF CallsInv

LEMMA ReturnCalls ==
  ASSUME IInv, CallsInv, NEW a \in Calls, Return(a)
  PROVE  CallsInv'
<1>1. /\ pc[a] = "reading" /\ Finished(a) /\ DOMAIN pc = Readers /\ object \in Versions
      /\ TypeOK /\ pc' = [pc EXCEPT ![a] = "done"]
      /\ UNCHANGED <<files, query, object, footer, index, calm, got, asked>>
  BY DEF Return, Goto, IInv, Domains, TypeOK, reads
<1>2. ASSUME NEW c \in Calls, c # a
      PROVE  (Chosen(c) /\ Turn(c) /\ LossTold(c) /\ Ended(c))'
  <2>1. pc'[c] = pc[c]
    BY <1>1, <1>2, ReaderKinds
  <2> QED  BY <1>1, <2>1, CallKept
<1>3. (Chosen(a) /\ Turn(a) /\ LossTold(a) /\ Ended(a))'
  <2>1. pc'[a] = "done"
    BY <1>1, ReaderKinds
  <2>2. Selected(a, query[a])' = Selected(a, query[a])
    BY <1>1, SelectedKept
  <2>3. Chosen(a)' /\ Turn(a)' /\ LossTold(a)'
    BY <1>1, <2>1, <2>2 DEF CallsInv, Chosen, Turn, Buffered, LossTold
  <2>4. Ended(a)'
    BY <1>1, FinishedKept DEF Ended
  <2> QED  BY <2>3, <2>4
<1> QED  BY <1>2, <1>3 DEF CallsInv

(* A session that opens, or dies, has no call under way. *)
LEMMA OpenCalls ==
  ASSUME IInv, CallsInv, NEW s \in Sessions,
         HeadObject(s) \/ Footer(s) \/ Load(s) \/ Build(s) \/ Write(s) \/ Die(s)
  PROVE  CallsInv'
<1>1. /\ pc[s] \in {"new", "footer", "load", "scan", "trunc", "fill"}
      /\ UNCHANGED <<files, query, object>>
      /\ pc' = pc \/ \E step : pc' = [pc EXCEPT ![s] = step]
      /\ footer' = footer \/ footer' = [footer EXCEPT ![s] = object]
      /\ index' = index \/ \E ix : index' = [index EXCEPT ![s] = ix]
      /\ got' = got \/ \E x : got' = [got EXCEPT ![s] = x]
      /\ asked' = asked \/ \E x : asked' = [asked EXCEPT ![s] = x]
      /\ calm' = calm \/ calm' = calm \cup {s}
  BY DEF HeadObject, Footer, Load, Build, Write, Die, Goto, Start, reads
<1>2. ASSUME NEW c \in Calls
      PROVE  (Chosen(c) /\ Turn(c) /\ LossTold(c) /\ Ended(c))'
  <2>1. c # s /\ c \in Readers /\ object \in Versions
        /\ DOMAIN pc = Readers /\ DOMAIN got = Readers /\ DOMAIN asked = Readers
        /\ DOMAIN footer = Sessions /\ DOMAIN index = Sessions
    BY ReaderKinds DEF IInv, Domains, TypeOK
  <2>2. pc'[c] = pc[c] /\ got'[c] = got[c] /\ asked'[c] = asked[c]
    BY <1>1, <2>1
  <2>3. SessionOf[c] = s => pc[c] = "new" /\ DOMAIN got[c] = {}
    BY <1>1 DEF IInv, Idle
  <2>4. SessionOf[c] # s => /\ footer'[SessionOf[c]] = footer[SessionOf[c]]
                            /\ index'[SessionOf[c]] = index[SessionOf[c]]
    BY <1>1, <2>1, ReaderKinds
  <2> QED  BY <1>1, <2>1, <2>2, <2>3, <2>4, CallKept
<1> QED  BY <1>2 DEF CallsInv

LEMMA CallsStep == IInv /\ CallsInv /\ [Next]_vars => CallsInv'
<1> SUFFICES ASSUME IInv, CallsInv, [Next]_vars PROVE CallsInv'
  OBVIOUS
<1>1. CASE UNCHANGED vars
  <2>1. /\ UNCHANGED <<files, query, object, pc, footer, index, calm, got, asked>>
        /\ object \in Versions
    BY <1>1 DEF vars, reads, IInv, TypeOK
  <2>2. Versions' = Versions
    BY <2>1 DEF Versions
  <2> QED  BY <2>1, <2>2, CallKept DEF CallsInv
<1>2. CASE Overwrite
  <2>1. /\ UNCHANGED <<files, query, pc, footer, index, got, asked>>
        /\ object' \in Versions /\ calm' = {}
    BY <1>2 DEF Overwrite, reads
  <2> QED  BY <2>1, CallKept DEF CallsInv
<1>3. ASSUME NEW s \in Sessions,
             HeadObject(s) \/ Footer(s) \/ Load(s) \/ Build(s) \/ Write(s) \/ Die(s)
      PROVE  CallsInv'
  BY <1>3, OpenCalls
<1>4. ASSUME NEW c \in Calls, (\E q \in Queries : Plan(c, q)) \/ Return(c)
      PROVE  CallsInv'
  BY <1>4, PlanCalls, ReturnCalls
<1>5. ASSUME NEW r \in Readers, NEW g \in DOMAIN got[r], Moves(r, g)
      PROVE  CallsInv'
  BY <1>5, MovesCalls
<1>6. CASE Next
  BY <1>2, <1>3, <1>4, <1>5, <1>6, NextCases
<1> QED  BY <1>1, <1>6

LEMMA CallsHold == Spec => [](IInv /\ CallsInv)
<1>1. Init => CallsInv
  BY ReaderKinds DEF Init, CallsInv, Chosen, Turn, LossTold, Ended
<1> QED  BY <1>1, InitIInv, IInvStep, CallsStep, PTL DEF Spec

-----------------------------------------------------------------------------
(* What a call of a calm session answers. *)

Wanted(c, row) ==
  IF query[c].kind = "box" THEN Meet(row.box, query[c].box) ELSE row.id \in query[c].ids

Matches(c, v) == {p \in Places(v) : Wanted(c, RowAt(v, p))}

Bad(c, v) == {p \in Places(v) : RowAt(v, p).fault \in Refusable(c, RowAt(v, p).id)}

(* Call c is over, its session calm, and version v what its HEAD named. *)
Calm(c, v) ==
  /\ pc[c] = "done" /\ SessionOf[c] \in calm
  /\ v = head[SessionOf[c]] /\ v \notin raced

LEMMA PlaceAt ==
  ASSUME TypeOK, NEW v \in Versions
  PROVE  /\ \A p : p \in Places(v) <=>
               /\ p = <<p[1], p[2]>> /\ p[1] \in Groups
               /\ p[2] \in DOMAIN files[v][p[1]].rows
         /\ \A g \in Groups : \A i \in DOMAIN files[v][g].rows :
              <<g, i>> \in Places(v) /\ RowAt(v, <<g, i>>) = files[v][g].rows[i]
<1>1. DOMAIN files[v] = Groups
  BY Layout
<1>2. \A p : p \in Places(v) <=> /\ p = <<p[1], p[2]>> /\ p[1] \in Groups
                                 /\ p[2] \in DOMAIN files[v][p[1]].rows
  BY <1>1 DEF Places
<1> QED  BY <1>2 DEF RowAt

(* A call sees the faults it refuses in the columns that it projects. *)
LEMMA FaultsShow ==
  ASSUME NEW c \in Calls, NEW id, NEW fault \in Refusable(c, id)
  PROVE  \E col \in Projection(c) : fault \in FaultsIn(col)
BY ReaderKinds, CatchmentReadsAssumption DEF Refusable, Projection, Columns, FaultsIn

LEMMA CalmFacts ==
  ASSUME IInv, CallsInv, NEW c \in Calls, NEW v, Calm(c, v)
  PROVE  /\ TypeOK /\ v \in Versions /\ object = v /\ footer[SessionOf[c]] = v
         /\ query[c] \in Queries /\ DOMAIN got[c] = Selected(c, query[c])
         /\ DOMAIN got[c] \subseteq Groups /\ Finished(c)
         /\ ExactIndex(files, v, index[SessionOf[c]])
<1>1. pc[SessionOf[c]] = "open"
  BY DEF IInv, Idle, Calm
<1>2. object = v /\ footer[SessionOf[c]] = v /\ v \in Versions
  BY <1>1, ReaderKinds DEF IInv, OneUpload, Domains, Calm
<1>3. query[c] \in Queries /\ DOMAIN got[c] = Selected(c, query[c]) /\ Finished(c)
  BY DEF CallsInv, Chosen, Ended, Calm
<1>4. DOMAIN got[c] \subseteq Groups /\ TypeOK
  BY ReaderKinds DEF IInv, InFile
<1>5. ExactIndex(files, v, index[SessionOf[c]])
  BY <1>1, ReaderKinds DEF IInv, Indexed, Calm
<1> QED  BY <1>2, <1>3, <1>4, <1>5

(* What came of a row group is the group as it was uploaded. *)
LEMMA CalmBytes ==
  ASSUME IInv, CallsInv, NEW c \in Calls, NEW v, Calm(c, v),
         NEW g \in DOMAIN got[c], got[c][g] \notin {None, Lost}
  PROVE  /\ {got[c][g][col] : col \in DOMAIN got[c][g]} = {v}
         /\ \A i : \A col \in Projection(c) : Seen(c, g, i, col) = files[v][g].rows[i]
         /\ Refused(c, g) = {i \in DOMAIN files[v][g].rows :
                               files[v][g].rows[i].fault
                                 \in Refusable(c, files[v][g].rows[i].id)}
<1>1. /\ DOMAIN got[c][g] = Projection(c)
      /\ \A col \in Projection(c) : got[c][g][col] = v
  BY ReaderKinds DEF IInv, OneUpload, Came, Calm
<1>2. "key" \in Projection(c)
  BY DEF Projection, Columns
<1>3. \A i : \A col \in Projection(c) : Seen(c, g, i, col) = files[v][g].rows[i]
  BY <1>1 DEF Seen
<1>4. object = v
  BY CalmFacts
<1>5. Refused(c, g) = {i \in DOMAIN files[v][g].rows :
                         files[v][g].rows[i].fault \in Refusable(c, files[v][g].rows[i].id)}
  <2>1. ASSUME NEW i \in DOMAIN files[v][g].rows
        PROVE  (\E col \in DOMAIN got[c][g] :
                  Seen(c, g, i, col).fault
                    \in FaultsIn(col) \cap Refusable(c, Seen(c, g, i, "key").id))
               <=> files[v][g].rows[i].fault \in Refusable(c, files[v][g].rows[i].id)
    BY <1>1, <1>2, <1>3, FaultsShow
  <2> QED  BY <1>4, <2>1 DEF Refused
<1> QED  BY <1>1, <1>2, <1>3, <1>5

(* The box around the rows of a group meets whatever one of them meets. *)
LEMMA BoxAround ==
  ASSUME NEW rows \in Seq([id : Int, box : Int \X Int, fault : STRING]),
         NEW i \in DOMAIN rows, NEW box \in Int \X Int, Meet(rows[i].box, box)
  PROVE  Meet(<<Min({rows[j].box[1] : j \in DOMAIN rows}),
                Max({rows[j].box[2] : j \in DOMAIN rows})>>, box)
<1> DEFINE n == Len(rows)
           low == [j \in 1..n |-> rows[j].box[1]]
           high == [j \in 1..n |-> rows[j].box[2]]
           lows == {rows[j].box[1] : j \in DOMAIN rows}
           highs == {rows[j].box[2] : j \in DOMAIN rows}
<1>1. n \in Nat /\ DOMAIN rows = 1..n
  OBVIOUS
<1>2. ASSUME NEW j \in 1..n
      PROVE  rows[j].box[1] \in Int /\ rows[j].box[2] \in Int
  <2> DEFINE T == [id : Int, box : Int \X Int, fault : STRING]
  <2>1. rows[j] \in T
    <3>1. rows \in Seq(T)
      OBVIOUS
    <3> HIDE DEF T
    <3> QED  BY <1>1, <3>1
  <2>2. rows[j].box \in Int \X Int
    BY <2>1
  <2> QED  BY <2>2
<1> HIDE DEF n
<1>3. /\ low \in [1..n -> Int] /\ high \in [1..n -> Int]
      /\ \A j \in 1..n : low[j] = rows[j].box[1] /\ high[j] = rows[j].box[2]
  BY <1>2
<1> HIDE DEF low, high
<1>4. lows = {low[j] : j \in 1..n} /\ highs = {high[j] : j \in 1..n}
  <2>1. \A x : x \in lows <=> \E j \in 1..n : x = low[j]
    BY <1>1, <1>3
  <2>2. \A x : x \in highs <=> \E j \in 1..n : x = high[j]
    BY <1>1, <1>3
  <2> HIDE DEF lows, highs
  <2> QED  BY <2>1, <2>2
<1> HIDE DEF lows, highs
<1>5. Min(lows) \in Int /\ Min(lows) <= low[i]
  <2>1. LET S == {low[j] : j \in 1..n}
        IN Min(S) \in Int /\ Max(S) \in Int /\ Min(S) <= low[i] /\ low[i] <= Max(S)
    BY <1>1, <1>3, BoundsOfInts
  <2> QED  BY <1>4, <2>1
<1>6. Max(highs) \in Int /\ high[i] <= Max(highs)
  <2>1. LET S == {high[j] : j \in 1..n}
        IN Min(S) \in Int /\ Max(S) \in Int /\ Min(S) <= high[i] /\ high[i] <= Max(S)
    BY <1>1, <1>3, BoundsOfInts
  <2> QED  BY <1>4, <2>1
<1>7. /\ low[i] \in Int /\ high[i] \in Int /\ box[1] \in Int /\ box[2] \in Int
      /\ low[i] <= box[2] /\ box[1] <= high[i]
  BY <1>1, <1>2, <1>3 DEF Meet
<1>8. Min(lows) <= box[2] /\ box[1] <= Max(highs)
  BY <1>5, <1>6, <1>7
<1> QED  BY <1>8 DEF Meet, lows, highs

(* No row that a query wants lies in a group that it does not read. *)
LEMMA MatchesSelected ==
  ASSUME IInv, CallsInv, NEW c \in Calls, NEW v, Calm(c, v), NEW p \in Matches(c, v)
  PROVE  p[1] \in DOMAIN got[c]
<1> DEFINE g == p[1]
           rows == files[v][g].rows
           row == rows[p[2]]
           box == query[c].box
<1>1. /\ TypeOK /\ v \in Versions /\ footer[SessionOf[c]] = v /\ query[c] \in Queries
      /\ DOMAIN got[c] = Selected(c, query[c])
      /\ ExactIndex(files, v, index[SessionOf[c]])
  BY CalmFacts
<1>2. /\ p \in Places(v) /\ g \in Groups /\ p[2] \in DOMAIN rows /\ RowAt(v, p) = row
      /\ Wanted(c, row)
  BY <1>1, PlaceAt DEF Matches, RowAt
<1>3. CASE query[c].kind = "box"
  <2>1. rows \in Seq([id : Int, box : Int \X Int, fault : STRING])
    BY <1>1, <1>2, Typed
  <2>2. box \in Int \X Int /\ Meet(row.box, box)
    BY <1>1, <1>2, <1>3, CatchmentReadsAssumption DEF Wanted
  <2>3. Meet(<<Min({rows[j].box[1] : j \in DOMAIN rows}),
               Max({rows[j].box[2] : j \in DOMAIN rows})>>, box)
    <3> HIDE DEF rows, box
    <3> QED  BY <1>2, <2>1, <2>2, BoxAround
  <2>4. files[footer[SessionOf[c]]] = files[v]
    BY <1>1
  <2>5. Selected(c, query[c]) =
          {h \in Groups : files[v][h].stats =>
             Meet(<<Min({files[v][h].rows[i].box[1] : i \in DOMAIN files[v][h].rows}),
                    Max({files[v][h].rows[i].box[2] : i \in DOMAIN files[v][h].rows})>>,
                  box)}
    BY <1>3, <2>4 DEF Selected, box
  <2> QED  BY <1>1, <1>2, <2>3, <2>5
<1>4. CASE query[c].kind # "box"
  <2>1. p \in PlacesIn(files, v) /\ row.id \in query[c].ids
    BY <1>2, <1>4 DEF Places, PlacesIn, Wanted
  <2>2. /\ row.id \in DOMAIN index[SessionOf[c]]
        /\ index[SessionOf[c]][row.id] = g
    BY <1>1, <2>1 DEF ExactIndex
  <2> HIDE DEF row
  <2> QED  BY <1>1, <1>4, <2>1, <2>2 DEF Selected
<1> QED  BY <1>3, <1>4

(* No row in a group before the first failure is one to refuse. *)
LEMMA NoneBefore ==
  ASSUME IInv, CallsInv, NEW c \in Calls, NEW v, Calm(c, v), Failures(c) # {}
  PROVE  LET first == Min(Failures(c)) IN
         /\ first \in Failures(c) /\ first \in Nat
         /\ \A p \in Bad(c, v) : p[1] < first => ~ \E m \in Matches(c, v) : m[1] = p[1]
<1> DEFINE first == Min(Failures(c))
<1>1. /\ TypeOK /\ v \in Versions /\ DOMAIN got[c] \subseteq Groups /\ Finished(c)
  BY CalmFacts
<1>2. Groups \subseteq Nat
  BY <1>1, GroupsFinite
<1>3. Failures(c) \in SUBSET Nat
  BY <1>1, <1>2 DEF Failures
<1>4. first \in Failures(c) /\ \A g \in Failures(c) : first <= g
  BY <1>3, MinOfNats
<1>5. first \in Nat /\ first \in DOMAIN got[c] /\ got[c][first] # None
  BY <1>3, <1>4 DEF Failures, Pending
<1> HIDE DEF first
<1>6. ASSUME NEW p \in Bad(c, v), p[1] < first,
             NEW m \in Matches(c, v), m[1] = p[1]
      PROVE  FALSE
  <2> DEFINE h == p[1]
  <2>1. h \in DOMAIN got[c] /\ h \in Nat
    BY <1>1, <1>2, <1>6, MatchesSelected
  <2>2. h \notin Failures(c)
    BY <1>4, <1>5, <1>6, <2>1
  <2>3. h \notin Pending(c)
    <3> SUFFICES ASSUME h \in Pending(c) PROVE FALSE
      OBVIOUS
    <3>1. ~ Buffered(c)
      BY <1>1 DEF Finished
    <3>2. pc[c] # "new"
      BY DEF Calm
    <3>3. got[c][h] # None
      BY <1>5, <1>6, <2>1, <3>1, <3>2 DEF CallsInv, Turn
    <3> QED  BY <3>3 DEF Pending
  <2>4. ~ Failed(c, h) /\ got[c][h] # None
    BY <2>1, <2>2, <2>3 DEF Failures, Pending
  <2>5. Refused(c, h) = {} /\ got[c][h] \notin {None, Lost}
    BY <2>4 DEF Failed
  <2>6. /\ p[2] \in DOMAIN files[v][h].rows
        /\ files[v][h].rows[p[2]].fault \in Refusable(c, files[v][h].rows[p[2]].id)
    BY <1>1, PlaceAt DEF Bad, RowAt
  <2>7. p[2] \in Refused(c, h)
    BY <2>1, <2>5, <2>6, CalmBytes
  <2> QED  BY <2>5, <2>7
<1> QED  BY <1>4, <1>5, <1>6 DEF first

(* The row of a match as it is answered, and the rows of a group and of    *)
(* the file that match.                                                    *)
At(v, p) == [at |-> p, id |-> RowAt(v, p).id, from |-> {v}]

GroupRows(c, v, g) ==
  FlattenSeq([i \in DOMAIN files[v][g].rows |->
                IF Wanted(c, files[v][g].rows[i]) THEN <<At(v, <<g, i>>)>> ELSE << >>])

AllRows(c, v) ==
  FlattenSeq([g \in Groups |-> IF g \in DOMAIN got[c] THEN GroupRows(c, v, g) ELSE << >>])

Hits(c, v) == {At(v, p) : p \in Matches(c, v)}

InOrder(c, v) == {pair \in Hits(c, v) \X Hits(c, v) : Earlier(pair[1].at, pair[2].at)}

LEMMA HitsOfGroup ==
  ASSUME TypeOK, NEW v \in Versions, NEW c \in Calls, NEW g \in Groups
  PROVE  /\ GroupRows(c, v, g) \in Seq(Hits(c, v))
         /\ Ordered(GroupRows(c, v, g), InOrder(c, v))
         /\ ToSet(GroupRows(c, v, g)) = {x \in Hits(c, v) : x.at[1] = g}
<1> DEFINE rows == files[v][g].rows
           n == Len(rows)
           T == Hits(c, v)
           R == InOrder(c, v)
           parts == [i \in 1..n |-> IF Wanted(c, rows[i]) THEN <<At(v, <<g, i>>)>> ELSE << >>]
<1>1. n \in Nat /\ DOMAIN rows = 1..n
  <2>1. rows \in Seq([id : Int, box : Int \X Int, fault : STRING])
    BY Typed
  <2> QED  BY <2>1
<1>2. ASSUME NEW i \in 1..n
      PROVE  /\ <<g, i>> \in Places(v) /\ RowAt(v, <<g, i>>) = rows[i]
             /\ Wanted(c, rows[i]) <=> <<g, i>> \in Matches(c, v)
             /\ At(v, <<g, i>>).at = <<g, i>>
  BY <1>1, PlaceAt DEF Matches, At
<1>3. ASSUME NEW i \in 1..n
      PROVE  parts[i] = IF <<g, i>> \in Matches(c, v) THEN <<At(v, <<g, i>>)>> ELSE << >>
  BY <1>2
<1>4. GroupRows(c, v, g) = FlattenSeq(parts) /\ DOMAIN parts = 1..n
  BY <1>1 DEF GroupRows
<1> HIDE DEF rows, n, T, R
<1>5. ASSUME NEW i \in 1..n
      PROVE  /\ parts[i] \in Seq(T) /\ Ordered(parts[i], R)
             /\ ToSet(parts[i]) = IF <<g, i>> \in Matches(c, v) THEN {At(v, <<g, i>>)} ELSE {}
  <2>1. CASE <<g, i>> \in Matches(c, v)
    <3>1. At(v, <<g, i>>) \in T /\ parts[i] = <<At(v, <<g, i>>)>>
      BY <1>3, <2>1 DEF Hits, T
    <3> HIDE DEF parts
    <3> QED  BY <2>1, <3>1 DEF Ordered, ToSet
  <2>2. CASE <<g, i>> \notin Matches(c, v)
    <3>1. parts[i] = << >>
      BY <1>3, <2>2
    <3> HIDE DEF parts
    <3> QED  BY <2>2, <3>1 DEF Ordered, ToSet
  <2> QED  BY <2>1, <2>2
<1>6. parts \in [1..n -> Seq(T)]
  <2>1. parts = [i \in 1..n |-> parts[i]]
    OBVIOUS
  <2> HIDE DEF parts
  <2> QED  BY <1>5, <2>1
<1> HIDE DEF parts
<1>7. ASSUME NEW i \in 1..n, NEW j \in 1..n, i < j,
             NEW x \in ToSet(parts[i]), NEW y \in ToSet(parts[j])
      PROVE  <<x, y>> \in R
  <2>1. /\ x = At(v, <<g, i>>) /\ y = At(v, <<g, j>>)
        /\ <<g, i>> \in Matches(c, v) /\ <<g, j>> \in Matches(c, v)
    BY <1>5
  <2>2. x.at = <<g, i>> /\ y.at = <<g, j>> /\ x \in Hits(c, v) /\ y \in Hits(c, v)
    BY <1>2, <2>1 DEF Hits
  <2>3. Earlier(x.at, y.at)
    BY <1>7, <2>2 DEF Earlier
  <2> QED  BY <2>2, <2>3 DEF R, InOrder
<1>8. /\ FlattenSeq(parts) \in Seq(T) /\ Ordered(FlattenSeq(parts), R)
      /\ ToSet(FlattenSeq(parts)) = UNION {ToSet(parts[i]) : i \in 1..n}
  BY <1>1, <1>5, <1>6, <1>7, FlattenOrdered
<1>9. UNION {ToSet(parts[i]) : i \in 1..n} = {x \in T : x.at[1] = g}
  <2>1. ASSUME NEW i \in 1..n, NEW x \in ToSet(parts[i])
        PROVE  x \in T /\ x.at[1] = g
    <3>1. x = At(v, <<g, i>>) /\ <<g, i>> \in Matches(c, v)
      <4>1. ToSet(parts[i]) = IF <<g, i>> \in Matches(c, v) THEN {At(v, <<g, i>>)} ELSE {}
        BY <1>5
      <4> QED  BY <2>1, <4>1, Zenon
    <3> QED  BY <1>2, <3>1 DEF T, Hits
  <2>2. ASSUME NEW x \in T, x.at[1] = g
        PROVE  \E i \in 1..n : x \in ToSet(parts[i])
    <3>1. PICK p \in Matches(c, v) : x = At(v, p)
      BY DEF T, Hits
    <3>2. x.at = p
      BY <3>1 DEF At
    <3>3. p = <<g, p[2]>> /\ p[2] \in 1..n
      BY <1>1, <2>2, <3>2, PlaceAt DEF Matches, rows
    <3>4. ToSet(parts[p[2]]) = {At(v, p)}
      BY <1>5, <3>3
    <3> QED  BY <3>1, <3>3, <3>4
  <2> QED  BY <2>1, <2>2
<1> QED  BY <1>4, <1>8, <1>9 DEF T, R

LEMMA HitsOfFile ==
  ASSUME IInv, CallsInv, NEW c \in Calls, NEW v, Calm(c, v)
  PROVE  /\ AllRows(c, v) \in Seq(Hits(c, v))
         /\ Ordered(AllRows(c, v), InOrder(c, v))
         /\ ToSet(AllRows(c, v)) = Hits(c, v)
<1> DEFINE n == Len(files[v])
           T == Hits(c, v)
           R == InOrder(c, v)
           parts == [g \in 1..n |-> IF g \in DOMAIN got[c] THEN GroupRows(c, v, g) ELSE << >>]
<1>1. TypeOK /\ v \in Versions
  BY CalmFacts
<1>2. n \in Nat /\ Groups = 1..n
  BY <1>1, Typed
<1>3. AllRows(c, v) = FlattenSeq(parts)
  BY <1>2 DEF AllRows
<1>4. ASSUME NEW g \in 1..n
      PROVE  /\ parts[g] \in Seq(T) /\ Ordered(parts[g], R)
             /\ ToSet(parts[g]) =
                  IF g \in DOMAIN got[c] THEN {x \in T : x.at[1] = g} ELSE {}
  <2>1. CASE g \in DOMAIN got[c]
    <3>1. parts[g] = GroupRows(c, v, g)
      BY <2>1
    <3> HIDE DEF parts, T, R
    <3> QED  BY <1>1, <1>2, <2>1, <3>1, HitsOfGroup DEF T, R
  <2>2. CASE g \notin DOMAIN got[c]
    <3>1. parts[g] = << >>
      BY <2>2
    <3> HIDE DEF parts, T, R
    <3> QED  BY <2>2, <3>1 DEF Ordered, ToSet
  <2> QED  BY <2>1, <2>2
<1>5. parts \in [1..n -> Seq(T)]
  <2>1. parts = [g \in 1..n |-> parts[g]]
    OBVIOUS
  <2> HIDE DEF parts, T
  <2> QED  BY <1>4, <2>1
<1> HIDE DEF parts, n, T, R
<1>6. ASSUME NEW g \in 1..n, NEW h \in 1..n, g < h,
             NEW x \in ToSet(parts[g]), NEW y \in ToSet(parts[h])
      PROVE  <<x, y>> \in R
  <2>1. x \in T /\ x.at[1] = g /\ y \in T /\ y.at[1] = h
    BY <1>4
  <2>2. Earlier(x.at, y.at)
    BY <1>6, <2>1 DEF Earlier
  <2> QED  BY <2>1, <2>2 DEF R, T, InOrder
<1>7. /\ FlattenSeq(parts) \in Seq(T) /\ Ordered(FlattenSeq(parts), R)
      /\ ToSet(FlattenSeq(parts)) = UNION {ToSet(parts[g]) : g \in 1..n}
  BY <1>2, <1>4, <1>5, <1>6, FlattenOrdered
<1>8. ASSUME NEW x \in T
      PROVE  \E g \in 1..n : x \in ToSet(parts[g])
  <2>1. PICK p \in Matches(c, v) : x = At(v, p)
    BY DEF T, Hits
  <2>2. x.at = p
    BY <2>1 DEF At
  <2>3. p[1] \in DOMAIN got[c] /\ p[1] \in 1..n
    BY <1>1, <1>2, MatchesSelected, CalmFacts
  <2>4. x \in ToSet(parts[p[1]])
    BY <1>4, <2>2, <2>3
  <2> QED  BY <2>3, <2>4
<1>9. UNION {ToSet(parts[g]) : g \in 1..n} = T
  <2>1. \A g \in 1..n : ToSet(parts[g]) \subseteq T
    BY <1>4
  <2> QED  BY <1>8, <2>1
<1> QED  BY <1>3, <1>7, <1>9 DEF T, R

(* An answer without error is the matches in the order of the file. *)
LEMMA AnswerRows ==
  ASSUME IInv, CallsInv, NEW c \in Calls, NEW v, Calm(c, v), Failures(c) = {}
  PROVE  /\ Answer(c) = [error |-> << >>, rows |-> AllRows(c, v)]
         /\ Matches(c, v) \cap Bad(c, v) = {}
<1>1. /\ TypeOK /\ v \in Versions /\ object = v /\ DOMAIN got[c] \subseteq Groups
      /\ Finished(c)
  BY CalmFacts
<1>2. Pending(c) = {}
  BY <1>1 DEF Finished
<1>3. ASSUME NEW g \in DOMAIN got[c]
      PROVE  got[c][g] \notin {None, Lost} /\ Refused(c, g) = {}
  BY <1>2 DEF Failures, Pending, Failed
<1>4. ASSUME NEW g \in DOMAIN got[c]
      PROVE  FlattenSeq([i \in DOMAIN files[object][g].rows |->
               IF (IF query[c].kind = "box"
                   THEN Meet(Seen(c, g, i, "scalars").box, query[c].box)
                   ELSE Seen(c, g, i, "key").id \in query[c].ids)
               THEN <<[at |-> <<g, i>>, id |-> Seen(c, g, i, "key").id,
                       from |-> {got[c][g][col] : col \in DOMAIN got[c][g]}]>>
               ELSE << >>])
             = GroupRows(c, v, g)
  <2>1. /\ {got[c][g][col] : col \in DOMAIN got[c][g]} = {v}
        /\ \A i : \A col \in Projection(c) : Seen(c, g, i, col) = files[v][g].rows[i]
    BY <1>3, CalmBytes
  <2>2. /\ "key" \in Projection(c)
        /\ query[c].kind = "box" => "scalars" \in Projection(c)
    BY ReaderKinds DEF Projection, Columns
  <2>3. \A i : Seen(c, g, i, "key") = files[v][g].rows[i]
    BY <2>1, <2>2
  <2>4. query[c].kind = "box" => \A i : Seen(c, g, i, "scalars") = files[v][g].rows[i]
    BY <2>1, <2>2
  <2>5. \A i \in DOMAIN files[v][g].rows :
          (IF query[c].kind = "box"
           THEN Meet(Seen(c, g, i, "scalars").box, query[c].box)
           ELSE Seen(c, g, i, "key").id \in query[c].ids)
          <=> Wanted(c, files[v][g].rows[i])
    BY <2>3, <2>4 DEF Wanted
  <2>6. \A i \in DOMAIN files[v][g].rows : RowAt(v, <<g, i>>) = files[v][g].rows[i]
    BY <1>1, PlaceAt
  <2> QED  BY <1>1, <2>1, <2>3, <2>5, <2>6 DEF GroupRows, At
<1>5. Answer(c) = [error |-> << >>, rows |-> AllRows(c, v)]
  BY <1>4 DEF Answer, AllRows
<1>6. ASSUME NEW p \in Matches(c, v) \cap Bad(c, v) PROVE FALSE
  <2>1. p[1] \in DOMAIN got[c]
    BY MatchesSelected
  <2>2. /\ p[2] \in DOMAIN files[v][p[1]].rows
        /\ files[v][p[1]].rows[p[2]].fault \in Refusable(c, files[v][p[1]].rows[p[2]].id)
    BY <1>1, PlaceAt DEF Bad, RowAt
  <2>3. p[2] \in Refused(c, p[1])
    BY <1>3, <2>1, <2>2, CalmBytes
  <2> QED  BY <1>3, <2>1, <2>3
<1> QED  BY <1>5, <1>6

(* An answer with an error names the first that a scan meets. *)
LEMMA AnswerError ==
  ASSUME IInv, CallsInv, NEW c \in Calls, NEW v, Calm(c, v), Failures(c) # {}
  PROVE  \E first \in Nat :
           /\ \A p \in Bad(c, v) : p[1] < first => ~ \E m \in Matches(c, v) : m[1] = p[1]
           /\ \/ Answer(c).error = <<"read", first>> /\ c \in Lossy
              \/ \E i \in Nat : /\ Answer(c).error = <<"row", first, i>>
                               /\ <<first, i>> \in Bad(c, v)
                               /\ \A p \in Bad(c, v) : p[1] = first => i <= p[2]
<1> DEFINE first == Min(Failures(c))
           i == Min(Refused(c, first))
<1>1. /\ first \in Failures(c) /\ first \in Nat
      /\ \A p \in Bad(c, v) : p[1] < first => ~ \E m \in Matches(c, v) : m[1] = p[1]
  BY NoneBefore
<1>2. Answer(c).error = IF got[c][first] = Lost THEN <<"read", first>>
                        ELSE <<"row", first, i>>
  BY DEF Answer
<1> HIDE DEF first
<1>3. first \in DOMAIN got[c] /\ got[c][first] # None /\ Failed(c, first)
  BY <1>1 DEF Failures, Pending
<1>4. CASE got[c][first] = Lost
  <2>1. c \in Lossy
    BY <1>3, <1>4 DEF CallsInv, LossTold, Calm
  <2> QED  BY <1>1, <1>2, <1>4, <2>1
<1>5. CASE got[c][first] # Lost
  <2>1. TypeOK /\ v \in Versions /\ first \in Groups
    BY <1>3, CalmFacts
  <2>2. Refused(c, first) = {j \in DOMAIN files[v][first].rows :
                               files[v][first].rows[j].fault
                                 \in Refusable(c, files[v][first].rows[j].id)}
    BY <1>3, <1>5, CalmBytes
  <2>3. DOMAIN files[v][first].rows \subseteq Nat
    <3>1. files[v][first].rows \in Seq([id : Int, box : Int \X Int, fault : STRING])
      BY <2>1, Typed
    <3> QED  BY <3>1
  <2>4. Refused(c, first) \in SUBSET Nat /\ Refused(c, first) # {}
    BY <1>3, <1>5, <2>2, <2>3 DEF Failed
  <2>5. i \in Refused(c, first) /\ \A j \in Refused(c, first) : i <= j
    BY <2>4, MinOfNats
  <2> HIDE DEF i
  <2>6. i \in Nat /\ <<first, i>> \in Bad(c, v)
    BY <2>1, <2>2, <2>4, <2>5, PlaceAt DEF Bad
  <2>7. ASSUME NEW p \in Bad(c, v), p[1] = first PROVE i <= p[2]
    <3>1. p[2] \in Refused(c, first)
      BY <2>1, <2>2, <2>7, PlaceAt DEF Bad, RowAt
    <3> QED  BY <2>5, <3>1
  <2> QED  BY <1>1, <1>2, <1>5, <2>6, <2>7
<1> QED  BY <1>4, <1>5

(* For any sessions, uploads, layouts and queries, however requests        *)
(* interleave and fail, whatever another call put in the cache or the      *)
(* cache dropped: a call of a session whose object stayed, and whose index *)
(* no upload raced, answers as one reader of the whole file would.         *)
THEOREM AnswersAreScanHolds == Spec => []AnswersAreScan
<1>1. IInv /\ CallsInv => AnswersAreScan
  <2> SUFFICES ASSUME IInv, CallsInv, NEW c \in Calls, NEW v, Calm(c, v)
               PROVE  LET a == Answer(c)
                          BadBefore(q) == {p \in Bad(c, v) : Earlier(p, q)
                                             /\ \E m \in Matches(c, v) : m[1] = p[1]}
                      IN IF a.error = << >>
                         THEN /\ Matches(c, v) \cap Bad(c, v) = {}
                              /\ {row.at : row \in ToSet(a.rows)} = Matches(c, v)
                              /\ \A m, n \in DOMAIN a.rows :
                                   m < n => Earlier(a.rows[m].at, a.rows[n].at)
                              /\ \A row \in ToSet(a.rows) :
                                   row.id = RowAt(v, row.at).id /\ row.from = {v}
                         ELSE IF a.error[1] = "row"
                         THEN LET q == <<a.error[2], a.error[3]>>
                              IN q \in Bad(c, v) /\ BadBefore(q) = {}
                         ELSE c \in Lossy /\ BadBefore(<<a.error[2], 0>>) = {}
    BY DEF AnswersAreScan, Calm, Matches, Wanted, Bad
  <2>1. CASE Failures(c) = {}
    <3>1. /\ Answer(c) = [error |-> << >>, rows |-> AllRows(c, v)]
          /\ Matches(c, v) \cap Bad(c, v) = {}
      BY <2>1, AnswerRows
    <3> DEFINE rows == AllRows(c, v)
    <3>2. /\ rows \in Seq(Hits(c, v)) /\ Ordered(rows, InOrder(c, v))
          /\ ToSet(rows) = Hits(c, v)
      BY HitsOfFile
    <3>3. Answer(c).error = << >> /\ Answer(c).rows = rows
      BY <3>1
    <3> HIDE DEF rows
    <3>4. \A x \in Hits(c, v) : /\ x.at \in Matches(c, v) /\ x.from = {v}
                                /\ x.id = RowAt(v, x.at).id
      BY DEF Hits, At
    <3>5. {row.at : row \in Hits(c, v)} = Matches(c, v)
      <4>1. \A p \in Matches(c, v) : At(v, p) \in Hits(c, v) /\ At(v, p).at = p
        BY DEF Hits, At
      <4> QED  BY <3>4, <4>1
    <3>6. \A m, n \in DOMAIN rows : m < n => Earlier(rows[m].at, rows[n].at)
      BY <3>2 DEF Ordered, InOrder
    <3> QED  BY <3>1, <3>2, <3>3, <3>4, <3>5, <3>6
  <2>2. CASE Failures(c) # {}
    <3>1. PICK first \in Nat :
            /\ \A p \in Bad(c, v) : p[1] < first => ~ \E m \in Matches(c, v) : m[1] = p[1]
            /\ \/ Answer(c).error = <<"read", first>> /\ c \in Lossy
               \/ \E i \in Nat : /\ Answer(c).error = <<"row", first, i>>
                                /\ <<first, i>> \in Bad(c, v)
                                /\ \A p \in Bad(c, v) : p[1] = first => i <= p[2]
      BY <2>2, AnswerError
    <3>2. \A p \in Bad(c, v) : p[1] \in Nat /\ p[2] \in Nat /\ p[2] > 0
      <4>1. TypeOK /\ v \in Versions
        BY CalmFacts
      <4>2. ASSUME NEW p \in Bad(c, v) PROVE p[1] \in Nat /\ p[2] \in Nat /\ p[2] > 0
        <5>1. p[1] \in Groups /\ p[2] \in DOMAIN files[v][p[1]].rows
          BY <4>1, PlaceAt DEF Bad
        <5>2. files[v][p[1]].rows \in Seq([id : Int, box : Int \X Int, fault : STRING])
          BY <4>1, <5>1, Typed
        <5>3. DOMAIN files[v][p[1]].rows = 1..Len(files[v][p[1]].rows)
          BY <5>2
        <5>4. p[1] \in Nat
          BY <4>1, <5>1, GroupsFinite
        <5> QED  BY <5>1, <5>3, <5>4
      <4> QED  BY <4>2
    <3>3. CASE Answer(c).error = <<"read", first>> /\ c \in Lossy
      <4>1. \A p \in Bad(c, v) : Earlier(p, <<first, 0>>) => p[1] < first
        BY <3>2 DEF Earlier
      <4>2. /\ Answer(c).error # << >> /\ Answer(c).error[1] = "read"
            /\ Answer(c).error[2] = first
        BY <3>3
      <4> QED  BY <3>1, <3>3, <4>1, <4>2
    <3>4. ASSUME NEW i \in Nat, Answer(c).error = <<"row", first, i>>,
                 <<first, i>> \in Bad(c, v),
                 \A p \in Bad(c, v) : p[1] = first => i <= p[2]
          PROVE  /\ Answer(c).error # << >> /\ Answer(c).error[1] = "row"
                 /\ <<Answer(c).error[2], Answer(c).error[3]>> = <<first, i>>
                 /\ \A p \in Bad(c, v) : Earlier(p, <<first, i>>) => p[1] < first
      <4>1. \A p \in Bad(c, v) : Earlier(p, <<first, i>>) => p[1] < first
        BY <3>2, <3>4 DEF Earlier
      <4> QED  BY <3>4, <4>1
    <3> QED  BY <3>1, <3>3, <3>4
  <2> QED  BY <2>1, <2>2
<1> QED  BY <1>1, CallsHold, PTL
=============================================================================
