-------------------------- MODULE RemoteOpenProofs --------------------------
(* Theorems about RemoteOpen, for any openers, sources and uploads. *)
EXTENDS RemoteRegimes, TLAPS

-----------------------------------------------------------------------------
(* Type correctness. *)

LEMMA HeadType ==
  ASSUME TypeOK, NEW s \in Sources, NEW a \in Artifacts
  PROVE  Now(s, a) \in Content /\ Head(s, a) \subseteq Meta
  BY DEF TypeOK, Now, Head, Meta, Content

LEMMA TypeInit == Init => TypeOK
  BY RemoteOpenAssumption DEF Init, TypeOK, Meta, Content, Combination, Versions

(* Reading the network: tokens and what is held keep their types. *)
LEMMA TypeFetch ==
  ASSUME TypeOK, NEW o \in Openers,
         \/ HeadManifest(o) \/ HeadGraph(o) \/ GetManifest(o) \/ GetGraph(o)
         \/ OpenCatchments(o) \/ HeadSnaps(o)
  PROVE  TypeOK'
<1> USE DEF Artifacts
<1>1. CASE HeadManifest(o)
  BY <1>1, RemoteOpenAssumption, HeadType
     DEF HeadManifest, At, Goto, TypeOK, disk, Content, Versions, Meta, Combination
<1>2. CASE HeadGraph(o)
  BY <1>2, HeadType DEF HeadGraph, TakeMeta, At, Goto, TypeOK, disk
<1>3. CASE GetManifest(o)
  BY <1>3, HeadType DEF GetManifest, At, Goto, TypeOK, disk, Combination
<1>4. CASE GetGraph(o)
  BY <1>4, HeadType DEF GetGraph, At, Goto, TypeOK, disk, Combination
<1>5. CASE OpenCatchments(o)
  BY <1>5, HeadType
     DEF OpenCatchments, OpenRows, TakeMeta, At, Goto, TypeOK, disk, Combination
<1>6. CASE HeadSnaps(o)
  BY <1>6, HeadType
     DEF HeadSnaps, OpenRows, TakeMeta, At, Goto, TypeOK, disk, Combination
<1> QED  BY <1>1, <1>2, <1>3, <1>4, <1>5, <1>6

(* Reading and writing the cache: a file is absent, torn or one writer's. *)
LEMMA TypeCache ==
  ASSUME TypeOK, NEW o \in Openers,
         \/ ReadIndex(o) \/ ReadGraph(o)
         \/ WriteManifest(o) \/ WriteGraph(o) \/ WriteIndex(o) \/ WriteSidecar(o)
  PROVE  TypeOK'
<1> USE DEF Artifacts
<1>d. CacheKey[held[o].manifest] \in Dirs
  BY RemoteOpenAssumption DEF TypeOK, Combination
<1>1. CASE ReadIndex(o)
  <2>1. held' \in [Openers -> Combination]
    <3>1. CASE held' = held
      BY <3>1 DEF TypeOK
    <3>2. CASE /\ Whole(indexFile[source[o]])
               /\ Whole(manifestFile[indexFile[source[o]]])
               /\ held' = [held EXCEPT ![o].manifest = manifestFile[indexFile[source[o]]]]
      <4>1. manifestFile[indexFile[source[o]]] \in Content
        BY <3>2 DEF Whole, TypeOK
      <4> QED  BY <3>2, <4>1 DEF TypeOK, Combination
    <3> QED  BY <1>1, <3>1, <3>2 DEF ReadIndex
  <2> QED  BY <1>1, <2>1 DEF ReadIndex, At, Goto, TypeOK, disk
<1>2. CASE ReadGraph(o)
  <2>1. held' \in [Openers -> Combination]
    <3> DEFINE g == graphFile[CacheKey[held[o].manifest]]
    <3>1. CASE Whole(g)
      <4>1. g \in Content
        BY <1>d, <3>1 DEF Whole, TypeOK
      <4>2. held' = [held EXCEPT ![o].graph = g]
        BY <1>2, <3>1 DEF ReadGraph
      <4> HIDE DEF g
      <4> QED  BY <4>1, <4>2 DEF TypeOK, Combination
    <3>2. CASE ~ Whole(g)
      BY <1>2, <3>2 DEF ReadGraph, TypeOK
    <3> QED  BY <3>1, <3>2
  <2> QED  BY <1>2, <2>1 DEF ReadGraph, At, Goto, TypeOK, disk
<1>3. CASE WriteManifest(o)
  <2>1. manifestFile' \in [Dirs -> Content \cup {Absent, Torn}]
    BY <1>3, <1>d DEF WriteManifest, Filled, TypeOK, Combination
  <2> QED  BY <1>3, <2>1 DEF WriteManifest, At, Goto, TypeOK
<1>4. CASE WriteGraph(o)
  <2>1. graphFile' \in [Dirs -> Content \cup {Absent, Torn}]
    BY <1>4, <1>d DEF WriteGraph, Filled, TypeOK, Combination
  <2> QED  BY <1>4, <2>1 DEF WriteGraph, At, Goto, TypeOK
<1>5. CASE WriteIndex(o)
  <2>1. indexFile' \in [Sources -> Dirs \cup {Absent, Torn}]
    BY <1>5, <1>d DEF WriteIndex, Filled, TypeOK
  <2> QED  BY <1>5, <2>1 DEF WriteIndex, At, Goto, TypeOK
<1>6. CASE WriteSidecar(o)
  <2>1. sidecarFile' \in [Dirs -> [Artifacts -> Meta] \cup {Absent, Torn}]
    BY <1>6, <1>d DEF WriteSidecar, Filled, TypeOK
  <2> QED  BY <1>6, <2>1 DEF WriteSidecar, At, Goto, TypeOK
<1> QED  BY <1>1, <1>2, <1>3, <1>4, <1>5, <1>6

LEMMA TypeJudge ==
  ASSUME TypeOK, NEW o \in Openers,
         ReadSidecar(o) \/ Validate(o) \/ Abort(o)
  PROVE  TypeOK'
<1> USE DEF Artifacts
<1>1. CASE ReadSidecar(o)
  BY <1>1 DEF ReadSidecar, SidecarMatches, At, Goto, TypeOK, disk
<1>2. CASE Validate(o)
  BY <1>2, RemoteOpenAssumption DEF Validate, At, Goto, TypeOK, disk
<1>3. CASE Abort(o)
  BY <1>3 DEF Abort, Goto, TypeOK, disk
<1> QED  BY <1>1, <1>2, <1>3

LEMMA TypeNext == TypeOK /\ [Next]_vars => TypeOK'
<1> SUFFICES ASSUME TypeOK, [Next]_vars PROVE TypeOK'
  OBVIOUS
<1>1. ASSUME NEW o \in Openers, OpenStep(o) \/ Abort(o) PROVE TypeOK'
  BY <1>1, TypeFetch, TypeCache, TypeJudge DEF OpenStep
<1>2. ASSUME NEW s \in Sources, NEW a \in Artifacts, Publish(s, a) PROVE TypeOK'
  BY <1>2, RemoteOpenAssumption DEF Publish, TypeOK, disk, Versions
<1>3. ASSUME NEW d \in Dirs, Evict(d) PROVE TypeOK'
  BY <1>3 DEF Evict, TypeOK
<1>4. CASE UNCHANGED vars
  BY <1>4 DEF vars, disk, TypeOK
<1> QED  BY <1>1, <1>2, <1>3, <1>4 DEF Next

(* Every variable of the cache and of an open stays in its type. *)
THEOREM TypeCorrect == Spec => []TypeOK
  BY TypeInit, TypeNext, PTL DEF Spec

-----------------------------------------------------------------------------
(* Tokens. *)

Complete(tags) == \A a \in Artifacts : tags[a] # NoMeta

(* The inductive invariant: while a sidecar is written the four tags are   *)
(* complete, and an open that skipped its scan makes no other request.     *)
TokenInv ==
  /\ \A d \in Dirs : Whole(sidecarFile[d]) => Complete(sidecarFile[d])
  /\ \A o \in Openers :
       /\ pc[o] \in {"truncSidecar", "fillSidecar"} => Complete(token[o])
       /\ skipped[o] => pc[o] = "serving" /\ Complete(token[o])

LEMMA TokenInit == Init => TokenInv
  BY DEF Init, TokenInv, Whole

LEMMA TokenStep ==
  ASSUME TypeOK, TokenInv, NEW o \in Openers, OpenStep(o) \/ Abort(o)
  PROVE  TokenInv'
<1> USE DEF TokenInv, Complete, TypeOK
(* The steps in which an open takes a tag are not its last ones. *)
<1>1. CASE HeadManifest(o) \/ HeadGraph(o) \/ OpenCatchments(o) \/ HeadSnaps(o)
  <2>1. /\ pc[o] \notin {"truncSidecar", "fillSidecar", "serving"}
        /\ pc'[o] \notin {"truncSidecar", "fillSidecar", "serving"}
        /\ \A p \in Openers \ {o} : pc'[p] = pc[p] /\ token'[p] = token[p]
        /\ skipped' = skipped /\ sidecarFile' = sidecarFile
    BY <1>1 DEF HeadManifest, HeadGraph, OpenCatchments, HeadSnaps, OpenRows,
                TakeMeta, At, Goto, disk
  <2> QED  BY <2>1 DEF Whole
<1>2. CASE ReadIndex(o) \/ ReadGraph(o) \/ GetManifest(o) \/ GetGraph(o)
           \/ WriteManifest(o) \/ WriteGraph(o) \/ WriteIndex(o)
  <2>1. /\ pc[o] \notin {"truncSidecar", "fillSidecar", "serving"}
        /\ pc'[o] \notin {"truncSidecar", "fillSidecar", "serving"}
        /\ \A p \in Openers \ {o} : pc'[p] = pc[p]
        /\ token' = token /\ skipped' = skipped /\ sidecarFile' = sidecarFile
    BY <1>2 DEF ReadIndex, ReadGraph, GetManifest, GetGraph, WriteManifest,
                WriteGraph, WriteIndex, At, Goto, disk
  <2> QED  BY <2>1 DEF Whole
<1>3. CASE ReadSidecar(o)
  <2>1. SidecarMatches(o) => Complete(token[o])
    BY DEF SidecarMatches
  <2>2. /\ pc[o] = "readSidecar" /\ skipped'[o] = SidecarMatches(o)
        /\ pc'[o] = IF SidecarMatches(o) THEN "serving" ELSE "validate"
        /\ \A p \in Openers \ {o} : pc'[p] = pc[p] /\ skipped'[p] = skipped[p]
        /\ token' = token /\ sidecarFile' = sidecarFile
    BY <1>3 DEF ReadSidecar, At, Goto, disk
  <2> QED  BY <2>1, <2>2 DEF Whole
<1>4. CASE Validate(o)
  <2>1. /\ pc[o] = "validate"
        /\ pc'[o] = "truncSidecar" => Complete(token[o])
        /\ pc'[o] # "fillSidecar"
        /\ \A p \in Openers \ {o} : pc'[p] = pc[p]
        /\ token' = token /\ skipped' = skipped /\ sidecarFile' = sidecarFile
    BY <1>4 DEF Validate, At, Goto, disk
  <2> QED  BY <2>1 DEF Whole
<1>5. CASE WriteSidecar(o)
  <2>1. /\ pc[o] \in {"truncSidecar", "fillSidecar"}
        /\ pc'[o] \in {"fillSidecar", "serving"}
        /\ \A p \in Openers \ {o} : pc'[p] = pc[p]
        /\ token' = token /\ skipped' = skipped
        /\ \A d \in Dirs : sidecarFile'[d] \in {sidecarFile[d], Torn, token[o]}
    BY <1>5 DEF WriteSidecar, Filled, At, Goto
  <2> QED  BY <2>1 DEF Whole
<1>6. CASE Abort(o)
  <2>1. /\ pc'[o] = "idle" /\ ~ skipped'[o]
        /\ \A p \in Openers \ {o} : pc'[p] = pc[p] /\ skipped'[p] = skipped[p]
        /\ token' = token /\ sidecarFile' = sidecarFile
    BY <1>6 DEF Abort, Goto, disk
  <2> QED  BY <2>1 DEF Whole
<1> QED  BY <1>1, <1>2, <1>3, <1>4, <1>5, <1>6 DEF OpenStep

LEMMA TokenNext == TypeOK /\ TokenInv /\ [Next]_vars => TokenInv'
<1> SUFFICES ASSUME TypeOK, TokenInv, [Next]_vars PROVE TokenInv'
  OBVIOUS
<1>1. ASSUME NEW o \in Openers, OpenStep(o) \/ Abort(o) PROVE TokenInv'
  BY <1>1, TokenStep
<1>2. ASSUME NEW s \in Sources, NEW a \in Artifacts, Publish(s, a) PROVE TokenInv'
  BY <1>2 DEF Publish, TokenInv, disk, Whole, Complete
<1>3. ASSUME NEW d \in Dirs, Evict(d) PROVE TokenInv'
  <2>1. /\ \A e \in Dirs : sidecarFile'[e] \in {sidecarFile[e], Absent}
        /\ UNCHANGED <<pc, token, skipped>>
    BY <1>3 DEF Evict, TypeOK
  <2> QED  BY <2>1 DEF TokenInv, Whole, Complete
<1>4. CASE UNCHANGED vars
  BY <1>4 DEF vars, disk, TokenInv, Whole, Complete
<1> QED  BY <1>1, <1>2, <1>3, <1>4 DEF Next

(* No sidecar is written, and none is trusted, without all four tags: by   *)
(* any number of openers that crash and tear one another's files.          *)
THEOREM TokensFailClosedHold == Spec => []TokensFailClosed
<1>1. TokenInv => TokensFailClosed
  BY DEF TokenInv, TokensFailClosed, Complete
<1> QED  BY <1>1, TypeInit, TypeNext, TokenInit, TokenNext, PTL DEF Spec

-----------------------------------------------------------------------------
(* Sources. *)

(* No two sources share a fabric name and adapter version. *)
SourcesApart == \A c, d \in Content : CacheKey[c] = CacheKey[d] => c[1] = d[1]

(* The inductive invariant: the directory that a source's index entry      *)
(* names is of that source, and so is the graph in it.                     *)
OwnInv ==
  /\ \A o \in Openers, a \in Artifacts : held[o][a][1] = source[o]
  /\ \A d \in Dirs : Whole(graphFile[d]) =>
       \A c \in Content : CacheKey[c] = d => graphFile[d][1] = c[1]
  /\ \A s \in Sources : Whole(indexFile[s]) =>
       \E c \in Content : c[1] = s /\ CacheKey[c] = indexFile[s]

LEMMA OwnInit == Init => OwnInv
  BY DEF Init, OwnInv, Whole

LEMMA OwnStep ==
  ASSUME SourcesApart, TypeOK, OwnInv, NEW o \in Openers, OpenStep(o) \/ Abort(o)
  PROVE  OwnInv'
<1> USE DEF OwnInv, Artifacts
<1>h. held[o].manifest \in Content /\ CacheKey[held[o].manifest] \in Dirs
      /\ held[o].manifest[1] = source[o] /\ held[o].graph[1] = source[o]
  BY RemoteOpenAssumption DEF TypeOK, Combination
<1>1. CASE HeadManifest(o)
  <2>1. /\ \A a \in Artifacts : held'[o][a][1] = source'[o]
        /\ \A p \in Openers \ {o} : held'[p] = held[p] /\ source'[p] = source[p]
        /\ graphFile' = graphFile /\ indexFile' = indexFile
    BY <1>1 DEF HeadManifest, TypeOK, disk
  <2> QED  BY <2>1 DEF Whole
<1>2. CASE ReadIndex(o)
  <2>1. CASE held' = held
    BY <1>2, <2>1 DEF ReadIndex, disk, Whole
  <2>2. CASE held' # held
    <3> DEFINE d == indexFile[source[o]]
               file == manifestFile[d]
    <3>1. Whole(d) /\ Whole(file) /\ CacheKey[file] = d
          /\ held' = [held EXCEPT ![o].manifest = file]
      BY <1>2, <2>2 DEF ReadIndex
    <3>2. file \in Content
      BY <3>1 DEF Whole, TypeOK
    <3>3. file[1] = source[o]
      BY <3>1, <3>2 DEF SourcesApart, TypeOK
    <3>4. /\ \A p \in Openers, a \in Artifacts : held'[p][a][1] = source[p]
          /\ UNCHANGED <<source, graphFile, indexFile>>
      <4> HIDE DEF file
      <4> QED  BY <1>2, <3>1, <3>3 DEF ReadIndex, disk, TypeOK, Combination
    <3> QED  BY <3>4 DEF Whole
  <2> QED  BY <2>1, <2>2
<1>3. CASE ReadGraph(o)
  <2>1. CASE held' = held
    BY <1>3, <2>1 DEF ReadGraph, disk, Whole
  <2>2. CASE held' # held
    <3> DEFINE g == graphFile[CacheKey[held[o].manifest]]
    <3>1. Whole(g) /\ held' = [held EXCEPT ![o].graph = g]
      BY <1>3, <2>2 DEF ReadGraph
    <3>2. g[1] = source[o]
      BY <1>h, <3>1
    <3>3. /\ \A p \in Openers, a \in Artifacts : held'[p][a][1] = source[p]
          /\ UNCHANGED <<source, graphFile, indexFile>>
      <4> HIDE DEF g
      <4> QED  BY <1>3, <3>1, <3>2 DEF ReadGraph, disk, TypeOK, Combination
    <3> QED  BY <3>3 DEF Whole
  <2> QED  BY <2>1, <2>2
(* What is taken from the network is the source's own. *)
<1>4. CASE GetManifest(o) \/ GetGraph(o) \/ OpenCatchments(o) \/ HeadSnaps(o)
  <2>1. \E a \in Artifacts : held' = [held EXCEPT ![o][a] = Now(source[o], a)]
    BY <1>4 DEF GetManifest, GetGraph, OpenCatchments, HeadSnaps, OpenRows
  <2>2. UNCHANGED <<source, graphFile, indexFile>>
    BY <1>4 DEF GetManifest, GetGraph, OpenCatchments, HeadSnaps, OpenRows, disk
  <2>3. \A p \in Openers, a \in Artifacts : held'[p][a][1] = source[p]
    BY <2>1 DEF Now, TypeOK, Combination
  <2> QED  BY <2>2, <2>3 DEF Whole
<1>5. CASE WriteGraph(o)
  <2> DEFINE d == CacheKey[held[o].manifest]
  <2>1. /\ graphFile'[d] \in {Torn, held[o].graph}
        /\ \A e \in Dirs \ {d} : graphFile'[e] = graphFile[e]
        /\ UNCHANGED <<held, source, indexFile>>
    BY <1>5, <1>h DEF WriteGraph, Filled, TypeOK
  <2>2. \A c \in Content : CacheKey[c] = d => held[o].graph[1] = c[1]
    BY <1>h DEF SourcesApart
  <2> QED  BY <2>1, <2>2 DEF Whole
<1>6. CASE WriteIndex(o)
  <2>1. /\ indexFile'[source[o]] \in {Torn, CacheKey[held[o].manifest]}
        /\ \A s \in Sources \ {source[o]} : indexFile'[s] = indexFile[s]
        /\ UNCHANGED <<held, source, graphFile>>
    BY <1>6, <1>h DEF WriteIndex, Filled, TypeOK
  <2> QED  BY <2>1, <1>h DEF Whole
<1>7. CASE HeadGraph(o) \/ WriteManifest(o) \/ ReadSidecar(o) \/ Validate(o)
           \/ WriteSidecar(o) \/ Abort(o)
  <2>1. UNCHANGED <<held, source, graphFile, indexFile>>
    BY <1>7 DEF HeadGraph, WriteManifest, ReadSidecar, Validate, WriteSidecar,
                Abort, disk
  <2> QED  BY <2>1 DEF Whole
<1> QED  BY <1>1, <1>2, <1>3, <1>4, <1>5, <1>6, <1>7 DEF OpenStep

LEMMA OwnNext ==
  ASSUME SourcesApart
  PROVE  TypeOK /\ OwnInv /\ [Next]_vars => OwnInv'
<1> SUFFICES ASSUME TypeOK, OwnInv, [Next]_vars PROVE OwnInv'
  OBVIOUS
<1>1. ASSUME NEW o \in Openers, OpenStep(o) \/ Abort(o) PROVE OwnInv'
  BY <1>1, OwnStep
<1>2. ASSUME NEW s \in Sources, NEW a \in Artifacts, Publish(s, a) PROVE OwnInv'
  BY <1>2 DEF Publish, OwnInv, disk, Whole
<1>3. ASSUME NEW d \in Dirs, Evict(d) PROVE OwnInv'
  <2>1. /\ \A e \in Dirs : graphFile'[e] \in {graphFile[e], Absent}
        /\ UNCHANGED <<held, source, indexFile>>
    BY <1>3 DEF Evict, TypeOK
  <2> QED  BY <2>1 DEF OwnInv, Whole
<1>4. CASE UNCHANGED vars
  BY <1>4 DEF vars, disk, OwnInv, Whole
<1> QED  BY <1>1, <1>2, <1>3, <1>4 DEF Next

(* As long as no two sources share a directory of the cache, nobody is     *)
(* served another source's manifest, graph or rows.                        *)
THEOREM ServesOwnSourceHolds ==
  ASSUME SourcesApart
  PROVE  Spec => []ServesOwnSource
<1>1. OwnInv => ServesOwnSource
  BY DEF OwnInv, ServesOwnSource
<1> QED  BY <1>1, TypeInit, TypeNext, OwnInit, OwnNext, PTL DEF Spec

-----------------------------------------------------------------------------
(* The index as commit record, for openers that take turns. *)

(* An open that found no entry of its source, until it has written one. *)
Filling == {"getManifest", "getGraph", "truncManifest", "fillManifest",
            "truncGraph", "fillGraph", "truncIndex", "fillIndex"}

(* What the open o has established: that it has no entry yet, or that what *)
(* it took from the cache is what the entry leads to; and which files it   *)
(* has written.                                                            *)
Progress(o) ==
  LET d == CacheKey[held[o].manifest] IN
  /\ pc[o] \in Filling => ~ Whole(indexFile[source[o]])
  /\ pc[o] = "readGraph" => Whole(indexFile[source[o]]) /\ indexFile[source[o]] = d
  /\ pc[o] = "fillManifest" => manifestFile[d] = Torn
  /\ pc[o] \in {"truncGraph", "fillGraph", "truncIndex", "fillIndex"} =>
       manifestFile[d] = held[o].manifest
  /\ pc[o] = "fillGraph" => graphFile[d] = Torn
  /\ pc[o] \in {"truncIndex", "fillIndex"} => graphFile[d] = held[o].graph

(* The inductive invariant, with TypeOK and OwnInv. *)
LoneInv == Committed /\ \A o \in Openers : Progress(o)

LEMMA RegimeIsNext == [RegimeNext]_regimeVars => [Next]_vars
  BY DEF RegimeNext, CrowdNext, TurnsNext, regimeVars, Next

LEMMA LoneInit == Init => LoneInv
  BY DEF Init, LoneInv, Committed, Progress, Filling, Whole

(* An open writes into no directory that an index entry leads to.          *)
LEMMA OwnDirectory ==
  ASSUME SourcesApart, TypeOK, OwnInv, NEW o \in Openers,
         ~ Whole(indexFile[source[o]]), NEW s \in Sources, Whole(indexFile[s])
  PROVE  indexFile[s] # CacheKey[held[o].manifest]
<1>1. held[o].manifest \in Content /\ held[o].manifest[1] = source[o]
  BY DEF TypeOK, OwnInv, Combination, Artifacts
<1>2. PICK c \in Content : c[1] = s /\ CacheKey[c] = indexFile[s]
  BY DEF OwnInv
<1> QED  BY <1>1, <1>2 DEF SourcesApart

(* A writer keeps the entries of others whole, and leaves theirs alone.    *)
LEMMA LoneStep ==
  ASSUME SourcesApart, TypeOK, OwnInv, LoneInv, NEW o \in Openers,
         \A p \in Openers \ {o} : pc[p] = "idle", OpenStep(o) \/ Abort(o)
  PROVE  LoneInv' /\ PairFrozen
<1> DEFINE d == CacheKey[held[o].manifest]
<1>1. /\ held[o].manifest \in Content /\ held[o].graph \in Content /\ d \in Dirs
      /\ Whole(held[o].manifest) /\ Whole(held[o].graph) /\ Whole(d)
      /\ source[o] \in Sources
  BY RemoteOpenAssumption DEF TypeOK, Combination, Artifacts, Whole
<1>2. /\ Committed /\ Progress(o)
      /\ \A s \in Sources : Whole(indexFile[s]) => indexFile[s] \in Dirs
  BY DEF LoneInv, TypeOK, Whole
(* Others are idle, and stay so. *)
<1>3. ASSUME NEW p \in Openers \ {o} PROVE Progress(p)'
  <2>1. pc'[p] = "idle"
    BY DEF TypeOK, OpenStep, HeadManifest, HeadGraph, ReadIndex, ReadGraph, GetManifest,
           GetGraph, WriteManifest, WriteGraph, WriteIndex, OpenCatchments, HeadSnaps,
           ReadSidecar, Validate, WriteSidecar, Abort, Goto
  <2> QED  BY <2>1 DEF Progress, Filling
<1>4. SUFFICES Progress(o)' /\ Committed' /\ PairFrozen
  BY <1>3 DEF LoneInv
<1>5. CASE UNCHANGED <<manifestFile, graphFile, indexFile>>
  <2>1. Committed' /\ PairFrozen
    BY <1>2, <1>5 DEF Committed, PairFrozen
  <2>2. CASE ReadIndex(o)
    <3>1. CASE pc'[o] = "readGraph"
      <4>1. /\ Whole(indexFile[source[o]]) /\ Whole(manifestFile[indexFile[source[o]]])
            /\ held'[o].manifest = manifestFile[indexFile[source[o]]]
            /\ CacheKey[manifestFile[indexFile[source[o]]]] = indexFile[source[o]]
            /\ UNCHANGED source
        BY <2>2, <3>1 DEF ReadIndex, Goto, TypeOK, Combination, Artifacts
      <4> QED  BY <2>1, <1>5, <3>1, <4>1 DEF Progress, Filling
    <3>2. CASE pc'[o] # "readGraph"
      <4>1. pc'[o] = "getManifest" /\ UNCHANGED source /\ ~ Whole(indexFile[source[o]])
        BY <1>1, <1>2, <2>2, <3>2 DEF ReadIndex, Goto, TypeOK, Committed, Whole
      <4> QED  BY <2>1, <1>5, <4>1 DEF Progress, Filling
    <3> QED  BY <3>1, <3>2
  <2>3. CASE ReadGraph(o)
    <3>1. Whole(graphFile[d])
      BY <1>1, <1>2, <2>3 DEF ReadGraph, At, Progress, Committed
    <3>2. pc'[o] = "openCatchments"
      BY <2>3, <3>1 DEF ReadGraph, Goto, TypeOK
    <3> QED  BY <2>1, <3>2 DEF Progress, Filling
  <2>4. CASE GetManifest(o)
    <3>1. pc'[o] = "getGraph" /\ pc[o] = "getManifest" /\ UNCHANGED source
      BY <2>4 DEF GetManifest, At, Goto, TypeOK
    <3> QED  BY <2>1, <1>2, <1>5, <3>1 DEF Progress, Filling
  <2>5. CASE GetGraph(o)
    <3>1. pc'[o] = "truncManifest" /\ pc[o] = "getGraph" /\ UNCHANGED source
      BY <2>5 DEF GetGraph, At, Goto, TypeOK
    <3> QED  BY <2>1, <1>2, <1>5, <3>1 DEF Progress, Filling
  <2>6. CASE \/ HeadManifest(o) \/ HeadGraph(o) \/ OpenCatchments(o) \/ HeadSnaps(o)
             \/ ReadSidecar(o) \/ Validate(o) \/ WriteSidecar(o) \/ Abort(o)
    <3>1. pc'[o] \in {"headGraph", "readIndex", "headSnaps", "readSidecar", "serving",
                      "validate", "truncSidecar", "fillSidecar", "idle"}
      BY <2>6 DEF HeadManifest, HeadGraph, OpenCatchments, HeadSnaps, ReadSidecar,
                  Validate, WriteSidecar, Abort, Goto, TypeOK
    <3> QED  BY <2>1, <3>1 DEF Progress, Filling
  <2>7. ASSUME WriteManifest(o) \/ WriteGraph(o) \/ WriteIndex(o) PROVE Progress(o)'
    <3>1. /\ UNCHANGED <<held, source>>
          /\ \/ pc[o] = "truncManifest" /\ pc'[o] = "fillManifest" /\ manifestFile'[d] = Torn
             \/ /\ pc[o] = "fillManifest" /\ pc'[o] = "truncGraph"
                /\ manifestFile'[d] \in Filled(manifestFile[d], held[o].manifest)
             \/ pc[o] = "truncGraph" /\ pc'[o] = "fillGraph" /\ graphFile'[d] = Torn
             \/ /\ pc[o] = "fillGraph" /\ pc'[o] = "truncIndex"
                /\ graphFile'[d] \in Filled(graphFile[d], held[o].graph)
             \/ pc[o] = "truncIndex" /\ pc'[o] = "fillIndex"
             \/ pc[o] = "fillIndex" /\ pc'[o] = "openCatchments"
      BY <1>1, <2>7 DEF WriteManifest, WriteGraph, WriteIndex, At, Goto, TypeOK
    <3> QED  BY <1>2, <1>5, <3>1 DEF Progress, Filling, Filled
  <2> QED  BY <2>1, <2>2, <2>3, <2>4, <2>5, <2>6, <2>7 DEF OpenStep
<1>6. CASE WriteManifest(o) \/ WriteGraph(o)
  <2>1. pc[o] \in Filling /\ ~ Whole(indexFile[source[o]])
    BY <1>2, <1>6 DEF WriteManifest, WriteGraph, At, Progress, Filling
  <2>2. \A s \in Sources : Whole(indexFile[s]) => indexFile[s] # d
    BY <2>1, OwnDirectory
  <2>3. /\ UNCHANGED <<indexFile, source, held>>
        /\ \A e \in Dirs \ {d} : manifestFile'[e] = manifestFile[e] /\ graphFile'[e] = graphFile[e]
    BY <1>6 DEF WriteManifest, WriteGraph, TypeOK
  <2>4. Committed' /\ PairFrozen
    BY <1>2, <2>2, <2>3 DEF Committed, PairFrozen
  <2>5. \/ pc[o] = "truncManifest" /\ pc'[o] = "fillManifest" /\ manifestFile'[d] = Torn
        \/ /\ pc[o] = "fillManifest" /\ pc'[o] = "truncGraph"
           /\ manifestFile'[d] \in Filled(manifestFile[d], held[o].manifest)
        \/ /\ pc[o] = "truncGraph" /\ pc'[o] = "fillGraph" /\ graphFile'[d] = Torn
           /\ UNCHANGED manifestFile
        \/ /\ pc[o] = "fillGraph" /\ pc'[o] = "truncIndex" /\ UNCHANGED manifestFile
           /\ graphFile'[d] \in Filled(graphFile[d], held[o].graph)
    BY <1>1, <1>6 DEF WriteManifest, WriteGraph, At, Goto, TypeOK
  <2>6. Progress(o)'
    BY <1>2, <2>1, <2>3, <2>5 DEF Progress, Filling, Filled
  <2> QED  BY <2>4, <2>6
<1>7. CASE WriteIndex(o)
  <2>1. /\ UNCHANGED <<manifestFile, graphFile, held, source>>
        /\ \A s \in Sources \ {source[o]} : indexFile'[s] = indexFile[s]
        /\ manifestFile[d] = held[o].manifest /\ graphFile[d] = held[o].graph
        /\ ~ Whole(indexFile[source[o]])
    BY <1>2, <1>7 DEF WriteIndex, At, TypeOK, Progress, Filling
  <2>2. \/ /\ pc[o] = "truncIndex" /\ pc'[o] = "fillIndex"
           /\ indexFile'[source[o]] = Torn
        \/ /\ pc[o] = "fillIndex" /\ pc'[o] = "openCatchments"
           /\ indexFile'[source[o]] \in {d, Torn}
    BY <1>1, <1>7 DEF WriteIndex, At, Goto, TypeOK, Filled
  <2>3. Committed'
    BY <1>1, <1>2, <2>1, <2>2 DEF Committed, Whole
  <2>4. PairFrozen
    BY <2>1 DEF PairFrozen
  <2>5. Progress(o)'
    BY <2>1, <2>2 DEF Progress, Filling, Whole
  <2> QED  BY <2>3, <2>4, <2>5
<1>8. \/ UNCHANGED <<manifestFile, graphFile, indexFile>>
      \/ WriteManifest(o) \/ WriteGraph(o) \/ WriteIndex(o)
  BY DEF OpenStep, HeadManifest, HeadGraph, ReadIndex, ReadGraph, GetManifest, GetGraph,
         OpenCatchments, HeadSnaps, OpenRows, ReadSidecar, Validate, WriteSidecar, Abort, disk
<1> QED  BY <1>5, <1>6, <1>7, <1>8

LEMMA LoneNextInv ==
  ASSUME SourcesApart
  PROVE  TypeOK /\ OwnInv /\ LoneInv /\ [TurnsNext]_vars => LoneInv' /\ [PairFrozen]_vars
<1> SUFFICES ASSUME TypeOK, OwnInv, LoneInv, [TurnsNext]_vars
             PROVE  LoneInv' /\ [PairFrozen]_vars
  OBVIOUS
<1>1. CASE UNCHANGED vars \/ \E s \in Sources, a \in Artifacts : Publish(s, a)
  <2>1. UNCHANGED <<disk, pc, source, held>>
    BY <1>1 DEF vars, Publish
  <2> QED  BY <2>1 DEF disk, LoneInv, Committed, Progress, PairFrozen
<1>2. CASE \E o \in Openers : /\ \A p \in Openers \ {o} : pc[p] = "idle"
                              /\ OpenStep(o) \/ Abort(o)
  BY <1>2, LoneStep
<1> QED  BY <1>1, <1>2 DEF TurnsNext, At
-----------------------------------------------------------------------------
(* What a trusted sidecar vouches for, for openers that take turns.        *)

Rows == {"catchments", "snap"}

(* An open whose source has its entry, and that took rows of artifact a.   *)
Settled == {"openCatchments", "headSnaps", "readSidecar", "validate",
            "truncSidecar", "fillSidecar"}
RowSteps(a) ==
  IF a = "catchments" THEN Settled \ {"openCatchments"}
                      ELSE Settled \ {"openCatchments", "headSnaps"}

(* What a settled open holds is what the entry of its source leads to.     *)
Arrived(o) ==
  LET d == CacheKey[held[o].manifest] IN
  /\ pc[o] = "readGraph" => manifestFile[d] = held[o].manifest
  /\ pc[o] = "fillIndex" => indexFile[source[o]] = Torn
  /\ pc[o] \in Settled => /\ indexFile[source[o]] = d
                          /\ manifestFile[d] = held[o].manifest
                          /\ graphFile[d] = held[o].graph

(* The rows it took were in the object store, and their tags name them.    *)
Taken(o) ==
  \A a \in Rows : pc[o] \in RowSteps(a) =>
    token[o][a] \in {NoMeta, held[o][a]} /\ held[o][a][2] <= remote[source[o]][a]

(* The scan r was of the pair cached in d and of rows of source s uploaded *)
(* no earlier than those the tags name.                                    *)
ScanOf(r, d, s, tags) ==
  /\ r.manifest = manifestFile[d] /\ r.graph = graphFile[d]
  /\ \A a \in Rows : /\ tags[a][1] = s /\ r[a][1] = s
                     /\ tags[a][2] <= r[a][2] /\ r[a][2] <= remote[s][a]

(* No open that is yet to read the sidecar took rows older than those of r. *)
SeenBy(r, s) ==
  \A o \in Openers, a \in Rows :
    source[o] = s /\ pc[o] \in {"headSnaps", "readSidecar"} \cap RowSteps(a)
    => r[a][2] <= held[o][a][2]

(* A sidecar stands for a scan, and so does one about to be written.       *)
Vouched(d) ==
  \E s \in Sources, r \in validated :
    indexFile[s] = d /\ ScanOf(r, d, s, sidecarFile[d]) /\ SeenBy(r, s)
Scanning(o) ==
  pc[o] \in {"truncSidecar", "fillSidecar"} =>
    \E r \in validated : ScanOf(r, indexFile[source[o]], source[o], held[o])

(* The inductive invariant, with TypeOK, TokenInv, OwnInv and LoneInv.     *)
EarnInv ==
  /\ \A o \in Openers : Arrived(o) /\ Taken(o) /\ Scanning(o)
  /\ \A d \in Dirs : Whole(sidecarFile[d]) => Vouched(d)
  /\ SkipIsEarned

LEMMA EarnInit == Init => EarnInv
  BY DEF Init, EarnInv, Arrived, Taken, Scanning, Settled, RowSteps, Rows, Whole, SkipIsEarned

(* While one opener runs the others are idle, and have nothing to show.    *)
LEMMA OthersIdle ==
  ASSUME TypeOK, NEW o \in Openers, \A p \in Openers \ {o} : pc[p] = "idle",
         OpenStep(o) \/ Abort(o)
  PROVE  \A p \in Openers \ {o} :
           pc'[p] = "idle" /\ Arrived(p)' /\ Taken(p)' /\ Scanning(p)'
<1>1. \A p \in Openers \ {o} : pc'[p] = "idle"
  BY DEF TypeOK, OpenStep, HeadManifest, HeadGraph, ReadIndex, ReadGraph, GetManifest,
         GetGraph, WriteManifest, WriteGraph, WriteIndex, OpenCatchments, HeadSnaps,
         ReadSidecar, Validate, WriteSidecar, Abort, Goto
<1> QED  BY <1>1 DEF Arrived, Taken, Scanning, Settled, RowSteps, Rows

(* An entry that leads anywhere keeps leading there.                       *)
LEMMA EntryFrozen ==
  ASSUME TypeOK, LoneInv, NEW o \in Openers, OpenStep(o) \/ Abort(o),
         NEW s \in Sources, Whole(indexFile[s])
  PROVE  indexFile'[s] = indexFile[s]
<1>1. CASE WriteIndex(o)
  <2>1. pc[o] \in Filling /\ indexFile' = [indexFile EXCEPT ![source[o]] = indexFile'[source[o]]]
    BY <1>1 DEF WriteIndex, At, Filling, TypeOK
  <2>2. ~ Whole(indexFile[source[o]])
    BY <2>1 DEF LoneInv, Progress
  <2> QED  BY <2>1, <2>2 DEF TypeOK
<1>2. CASE ~ WriteIndex(o)
  BY <1>2 DEF OpenStep, HeadManifest, HeadGraph, ReadIndex, ReadGraph, GetManifest, GetGraph,
              WriteManifest, WriteGraph, OpenCatchments, HeadSnaps, OpenRows, ReadSidecar,
              Validate, WriteSidecar, Abort, disk
<1> QED  BY <1>1, <1>2

(* How an open arrives at its entry, and stays there.                      *)
LEMMA ArrivedStep ==
  ASSUME TypeOK, LoneInv, NEW o \in Openers, Arrived(o), OpenStep(o) \/ Abort(o)
  PROVE  Arrived(o)'
<1> DEFINE d == CacheKey[held[o].manifest]
<1>1. /\ held[o].manifest \in Content /\ held[o].graph \in Content /\ d \in Dirs
      /\ source[o] \in Sources /\ Whole(d)
  BY RemoteOpenAssumption DEF TypeOK, Combination, Artifacts, Whole
<1>2. Progress(o)
  BY DEF LoneInv
<1>3. CASE ReadIndex(o)
  <2>1. CASE pc'[o] = "readGraph"
    <3>1. /\ held'[o].manifest = manifestFile[indexFile[source[o]]]
          /\ CacheKey[manifestFile[indexFile[source[o]]]] = indexFile[source[o]]
          /\ UNCHANGED manifestFile
      BY <1>3, <2>1 DEF ReadIndex, Goto, TypeOK, Combination, Artifacts, disk
    <3> QED  BY <2>1, <3>1 DEF Arrived, Settled
  <2>2. CASE pc'[o] # "readGraph"
    <3>1. pc'[o] = "getManifest"
      BY <1>3, <2>2 DEF ReadIndex, Goto, TypeOK
    <3> QED  BY <3>1 DEF Arrived, Settled
  <2> QED  BY <2>1, <2>2
<1>4. CASE ReadGraph(o)
  <2>1. CASE Whole(graphFile[d])
    <3>1. /\ indexFile[source[o]] = d /\ manifestFile[d] = held[o].manifest
      BY <1>2, <1>4 DEF ReadGraph, At, Progress, Arrived
    <3>2. /\ pc'[o] = "openCatchments" /\ held'[o].manifest = held[o].manifest
          /\ held'[o].graph = graphFile[d]
          /\ UNCHANGED <<source, indexFile, manifestFile, graphFile>>
      BY <1>4, <2>1 DEF ReadGraph, Goto, TypeOK, Combination, Artifacts, disk
    <3> QED  BY <3>1, <3>2 DEF Arrived
  <2>2. CASE ~ Whole(graphFile[d])
    <3>1. pc'[o] = "getManifest"
      BY <1>4, <2>2 DEF ReadGraph, Goto, TypeOK
    <3> QED  BY <3>1 DEF Arrived, Settled
  <2> QED  BY <2>1, <2>2
<1>5. CASE WriteIndex(o)
  <2>1. CASE pc[o] = "truncIndex"
    <3>1. pc'[o] = "fillIndex" /\ indexFile'[source[o]] = Torn /\ UNCHANGED source
      BY <1>1, <1>5, <2>1 DEF WriteIndex, At, Goto, TypeOK
    <3> QED  BY <3>1 DEF Arrived, Settled
  <2>2. CASE pc[o] = "fillIndex"
    <3>1. /\ pc'[o] = "openCatchments"
          /\ indexFile'[source[o]] \in Filled(indexFile[source[o]], d)
          /\ UNCHANGED <<source, held, manifestFile, graphFile>>
      BY <1>1, <1>5, <2>2 DEF WriteIndex, At, Goto, TypeOK
    <3>2. indexFile[source[o]] = Torn
      BY <2>2 DEF Arrived
    <3>3. manifestFile[d] = held[o].manifest /\ graphFile[d] = held[o].graph
      BY <1>2, <2>2 DEF Progress
    <3> QED  BY <3>1, <3>2, <3>3 DEF Arrived, Filled
  <2> QED  BY <1>5, <2>1, <2>2 DEF WriteIndex, At
<1>6. CASE OpenCatchments(o) \/ HeadSnaps(o)
  <2>1. /\ pc[o] \in Settled /\ pc'[o] \in Settled
        /\ held'[o].manifest = held[o].manifest /\ held'[o].graph = held[o].graph
        /\ UNCHANGED <<source, indexFile, manifestFile, graphFile>>
    BY <1>6 DEF OpenCatchments, HeadSnaps, OpenRows, At, Goto, TypeOK, Combination,
                Artifacts, disk, Settled
  <2> QED  BY <2>1 DEF Arrived, Settled
<1>7. CASE ReadSidecar(o) \/ Validate(o) \/ WriteSidecar(o)
  <2>1. /\ pc[o] \in Settled /\ pc'[o] \in Settled \cup {"serving"}
        /\ UNCHANGED <<source, held, indexFile, manifestFile, graphFile>>
    BY <1>7 DEF ReadSidecar, Validate, WriteSidecar, At, Goto, TypeOK, disk, Settled
  <2> QED  BY <2>1 DEF Arrived, Settled
<1>8. CASE \/ HeadManifest(o) \/ HeadGraph(o) \/ GetManifest(o) \/ GetGraph(o)
           \/ WriteManifest(o) \/ WriteGraph(o) \/ Abort(o)
  <2>1. pc'[o] \in {"headGraph", "readIndex", "getGraph", "truncManifest", "fillManifest",
                    "truncGraph", "fillGraph", "truncIndex", "idle"}
    BY <1>8 DEF HeadManifest, HeadGraph, GetManifest, GetGraph, WriteManifest, WriteGraph,
                Abort, Goto, TypeOK
  <2> QED  BY <2>1 DEF Arrived, Settled
<1> QED  BY <1>3, <1>4, <1>5, <1>6, <1>7, <1>8 DEF OpenStep
(* What steps up to a trusted sidecar leave of a sidecar that vouches: the *)
(* pair of its entry is frozen, no scan is forgotten, uploads only grow.   *)
LEMMA VouchedStays ==
  ASSUME SourcesApart, TypeOK, OwnInv, LoneInv, NEW o \in Openers,
         \A p \in Openers \ {o} : pc[p] = "idle", OpenStep(o) \/ Abort(o),
         NEW d \in Dirs, NEW s \in Sources, NEW r \in validated,
         indexFile[s] = d, ScanOf(r, d, s, sidecarFile[d]),
         sidecarFile'[d] = sidecarFile[d], SeenBy(r, s)'
  PROVE  Vouched(d)'
<1>1. Whole(indexFile[s])
  BY RemoteOpenAssumption DEF Whole
<1>2. indexFile'[s] = d /\ manifestFile'[d] = manifestFile[d] /\ graphFile'[d] = graphFile[d]
  BY <1>1, LoneStep, EntryFrozen DEF PairFrozen
<1>3. remote' = remote /\ validated \subseteq validated'
  BY DEF OpenStep, HeadManifest, HeadGraph, ReadIndex, ReadGraph, GetManifest, GetGraph,
         WriteManifest, WriteGraph, WriteIndex, OpenCatchments, HeadSnaps, OpenRows,
         ReadSidecar, Validate, WriteSidecar, Abort
<1>4. ScanOf(r, d, s, sidecarFile[d])'
  BY <1>2, <1>3 DEF ScanOf
<1> QED  BY <1>2, <1>3, <1>4 DEF Vouched

(* An open that took no rows yet, or drops them, owes nothing.             *)
LEMMA EarnEarly ==
  ASSUME SourcesApart, TypeOK, TokenInv, OwnInv, LoneInv, EarnInv, NEW o \in Openers,
         \A p \in Openers \ {o} : pc[p] = "idle",
         \/ HeadManifest(o) \/ HeadGraph(o) \/ ReadIndex(o) \/ ReadGraph(o)
         \/ GetManifest(o) \/ GetGraph(o) \/ WriteManifest(o) \/ WriteGraph(o)
         \/ WriteIndex(o) \/ Abort(o)
  PROVE  EarnInv'
<1>1. OpenStep(o) \/ Abort(o)
  BY DEF OpenStep
<1>2. /\ pc'[o] \notin RowSteps("catchments") \cup RowSteps("snap") \cup {"serving"}
      /\ UNCHANGED <<sidecarFile, validated>>
  BY DEF HeadManifest, HeadGraph, ReadIndex, ReadGraph, GetManifest, GetGraph, WriteManifest,
         WriteGraph, WriteIndex, Abort, Goto, TypeOK, disk, RowSteps, Settled
<1>3. \A p \in Openers \ {o} : pc'[p] = "idle" /\ Arrived(p)' /\ Taken(p)' /\ Scanning(p)'
  BY <1>1, OthersIdle
<1>4. Arrived(o)' /\ Taken(o)' /\ Scanning(o)'
  <2>1. Arrived(o)'
    BY <1>1, ArrivedStep DEF EarnInv
  <2> QED  BY <1>2, <2>1 DEF Taken, Scanning, Rows, RowSteps, Settled
<1>5. ASSUME NEW d \in Dirs, Whole(sidecarFile[d])' PROVE Vouched(d)'
  <2>1. PICK s \in Sources, r \in validated :
          indexFile[s] = d /\ ScanOf(r, d, s, sidecarFile[d])
    BY <1>2, <1>5 DEF EarnInv, Vouched, Whole
  <2>2. SeenBy(r, s)'
    BY <1>2, <1>3 DEF SeenBy, Rows, RowSteps, Settled
  <2> QED  BY <1>1, <1>2, <2>1, <2>2, VouchedStays
<1>6. SkipIsEarned'
  BY <1>2, <1>3 DEF SkipIsEarned
<1> QED  BY <1>3, <1>4, <1>5, <1>6 DEF EarnInv

(* Rows are taken as they are: no scan was of newer ones.                  *)
LEMMA EarnRows ==
  ASSUME SourcesApart, TypeOK, TokenInv, OwnInv, LoneInv, EarnInv, NEW o \in Openers,
         \A p \in Openers \ {o} : pc[p] = "idle",
         OpenCatchments(o) \/ HeadSnaps(o)
  PROVE  EarnInv'
<1>1. OpenStep(o) \/ Abort(o)
  BY DEF OpenStep
<1> DEFINE a == IF pc[o] = "openCatchments" THEN "catchments" ELSE "snap"
<1>2. /\ pc[o] = "openCatchments" => pc'[o] = "headSnaps"
      /\ pc[o] # "openCatchments" => pc[o] = "headSnaps" /\ pc'[o] = "readSidecar"
      /\ \A p \in Openers \ {o} : pc[p] = "idle"
      /\ UNCHANGED <<remote, source, sidecarFile, validated>>
      /\ \A b \in Artifacts \ {a} : token'[o][b] = token[o][b] /\ held'[o][b] = held[o][b]
      /\ held'[o][a] = Now(source[o], a) /\ token'[o][a] \in {NoMeta, Now(source[o], a)}
  BY DEF OpenCatchments, HeadSnaps, OpenRows, TakeMeta, Head, At, Goto, TypeOK, disk,
         Combination, Artifacts
<1>3. \A p \in Openers \ {o} : pc'[p] = "idle" /\ Arrived(p)' /\ Taken(p)' /\ Scanning(p)'
  BY <1>1, OthersIdle
<1>t. source[o] \in Sources /\ \A s \in Sources, b \in Artifacts : remote[s][b] \in Nat
  BY DEF TypeOK, Versions
<1>4. Arrived(o)' /\ Taken(o)' /\ Scanning(o)'
  <2>1. Arrived(o)'
    BY <1>1, ArrivedStep DEF EarnInv
  <2>2. Taken(o)
    BY DEF EarnInv
  <2>3. Taken(o)'
    BY <1>2, <1>t, <2>2 DEF Taken, Now, Rows, RowSteps, Settled, Artifacts
  <2> QED  BY <1>2, <2>1, <2>3 DEF Scanning
<1>5. ASSUME NEW d \in Dirs, Whole(sidecarFile[d])' PROVE Vouched(d)'
  <2>1. PICK s \in Sources, r \in validated :
          indexFile[s] = d /\ ScanOf(r, d, s, sidecarFile[d]) /\ SeenBy(r, s)
    BY <1>2, <1>5 DEF EarnInv, Vouched, Whole
  <2>2. \A b \in Rows : r[b][2] <= remote[s][b]
    BY <2>1 DEF ScanOf
  <2>3. SeenBy(r, s)'
    BY <1>2, <1>3, <2>1, <2>2 DEF SeenBy, Now, Rows, RowSteps, Settled, Artifacts
  <2> QED  BY <1>1, <1>2, <2>1, <2>3, VouchedStays
<1>6. SkipIsEarned'
  BY <1>2, <1>3 DEF SkipIsEarned
<1> QED  BY <1>3, <1>4, <1>5, <1>6 DEF EarnInv
(* A sidecar that matches names the rows in hand, and the scan it stands   *)
(* for can have seen none newer: it was of exactly what this open holds.   *)
LEMMA EarnTrust ==
  ASSUME SourcesApart, TypeOK, OwnInv, EarnInv, NEW o \in Openers,
         pc[o] = "readSidecar", SidecarMatches(o)
  PROVE  held[o] \in validated
<1> DEFINE d == CacheKey[held[o].manifest]
<1>1. /\ d \in Dirs /\ token[o] \in [Artifacts -> Meta] /\ held[o] \in Combination
      /\ sidecarFile[d] = token[o] /\ \A a \in Artifacts : token[o][a] # NoMeta
  BY RemoteOpenAssumption DEF TypeOK, SidecarMatches, Combination, Artifacts
<1>2. Whole(sidecarFile[d])
  BY <1>1, RemoteOpenAssumption DEF Whole
<1>3. PICK s \in Sources, r \in validated :
        indexFile[s] = d /\ ScanOf(r, d, s, token[o]) /\ SeenBy(r, s)
  BY <1>1, <1>2 DEF EarnInv, Vouched
<1>4. Arrived(o) /\ Taken(o)
  BY DEF EarnInv
<1>5. manifestFile[d] = held[o].manifest /\ graphFile[d] = held[o].graph /\ indexFile[source[o]] = d
  BY <1>4 DEF Arrived, Settled
<1>6. s = source[o]
  <2>1. Whole(d) /\ source[o] \in Sources
    BY <1>1, RemoteOpenAssumption DEF Whole, TypeOK
  <2>2. PICK b \in Content : b[1] = s /\ CacheKey[b] = d
    BY <1>3, <2>1 DEF OwnInv
  <2>3. PICK c \in Content : c[1] = source[o] /\ CacheKey[c] = d
    BY <1>5, <2>1 DEF OwnInv
  <2> QED  BY <2>2, <2>3 DEF SourcesApart
<1>7. ASSUME NEW a \in Rows PROVE r[a] = held[o][a]
  <2>1. r \in Combination /\ a \in Artifacts
    BY <1>3 DEF TypeOK, Rows, Artifacts
  <2>2. token[o][a] = held[o][a]
    BY <1>1, <1>4, <2>1 DEF Taken, RowSteps, Settled, Rows
  <2>3. held[o][a][1] = r[a][1] /\ held[o][a][2] <= r[a][2] /\ r[a][2] <= held[o][a][2]
    BY <1>3, <1>6, <2>2 DEF ScanOf, SeenBy, RowSteps, Settled, Rows
  <2>4. r[a] \in Content /\ held[o][a] \in Content
    BY <1>1, <2>1 DEF Combination
  <2> QED  BY <2>3, <2>4 DEF Content, Versions
<1>8. r = held[o]
  <2>1. r \in Combination /\ r.manifest = held[o].manifest /\ r.graph = held[o].graph
    BY <1>3, <1>5 DEF TypeOK, ScanOf
  <2> QED  BY <1>1, <1>7, <2>1 DEF Combination, Artifacts, Rows
<1> QED  BY <1>3, <1>8

(* The scan itself, and the sidecar written for it.                        *)
LEMMA EarnJudge ==
  ASSUME SourcesApart, TypeOK, TokenInv, OwnInv, LoneInv, EarnInv, NEW o \in Openers,
         \A p \in Openers \ {o} : pc[p] = "idle",
         ReadSidecar(o) \/ Validate(o) \/ WriteSidecar(o)
  PROVE  EarnInv'
<1> DEFINE d == CacheKey[held[o].manifest]
<1>1. OpenStep(o) \/ Abort(o)
  BY DEF OpenStep
<1>2. /\ pc[o] \in {"readSidecar", "validate", "truncSidecar", "fillSidecar"}
      /\ pc'[o] \in {"validate", "truncSidecar", "fillSidecar", "serving"}
      /\ UNCHANGED <<remote, source, token, held, indexFile, manifestFile, graphFile>>
      /\ d \in Dirs /\ source[o] \in Sources
  BY RemoteOpenAssumption
     DEF ReadSidecar, Validate, WriteSidecar, At, Goto, TypeOK, disk, Combination, Artifacts
<1>3. \A p \in Openers \ {o} : pc'[p] = "idle" /\ Arrived(p)' /\ Taken(p)' /\ Scanning(p)'
  BY <1>1, OthersIdle
<1>4. Arrived(o) /\ Taken(o) /\ Scanning(o)
  BY DEF EarnInv
<1>5. indexFile[source[o]] = d /\ manifestFile[d] = held[o].manifest /\ graphFile[d] = held[o].graph
  BY <1>2, <1>4 DEF Arrived, Settled
<1>6. Arrived(o)' /\ Taken(o)'
  <2>1. Arrived(o)'
    BY <1>1, <1>4, ArrivedStep
  <2> QED  BY <1>2, <1>4, <2>1 DEF Taken, Rows, RowSteps, Settled
<1>7. \A r, s : SeenBy(r, s)'
  BY <1>2, <1>3 DEF SeenBy
<1>8. CASE ReadSidecar(o)
  <2>1. /\ pc[o] = "readSidecar" /\ pc'[o] \in {"validate", "serving"}
        /\ skipped'[o] = SidecarMatches(o) /\ UNCHANGED <<sidecarFile, validated>>
    BY <1>8 DEF ReadSidecar, At, Goto, TypeOK, disk
  <2>2. SkipIsEarned'
    BY <1>2, <1>3, <2>1, EarnTrust DEF SkipIsEarned
  <2>3. Scanning(o)'
    BY <2>1 DEF Scanning
  <2>4. ASSUME NEW e \in Dirs, Whole(sidecarFile[e])' PROVE Vouched(e)'
    <3>1. PICK s \in Sources, r \in validated :
            indexFile[s] = e /\ ScanOf(r, e, s, sidecarFile[e])
      BY <2>1, <2>4 DEF EarnInv, Vouched, Whole
    <3> QED  BY <1>1, <1>7, <2>1, <3>1, VouchedStays
  <2> QED  BY <1>3, <1>6, <2>2, <2>3, <2>4 DEF EarnInv
<1>9. CASE Validate(o)
  <2>1. /\ pc[o] = "validate" /\ pc'[o] \in {"truncSidecar", "serving"}
        /\ UNCHANGED <<sidecarFile, skipped>>
        /\ validated' = validated \cup {Scanned(o)}
    BY <1>9 DEF Validate, At, Goto, TypeOK, disk
  <2>2. ~ skipped[o]
    BY <2>1 DEF TokenInv
  <2>3. SkipIsEarned'
    BY <1>3, <2>1, <2>2 DEF SkipIsEarned
  <2>4. ScanOf(Scanned(o), d, source[o], held[o])
    <3>1. /\ held[o] \in Combination
          /\ Scanned(o).manifest = held[o].manifest /\ Scanned(o).graph = held[o].graph
          /\ \A a \in Rows : Scanned(o)[a] = <<source[o], remote[source[o]][a]>>
      BY DEF Scanned, Now, TypeOK, Combination, Artifacts, Rows
    <3>2. \A a \in Rows : /\ held[o][a][1] = source[o] /\ remote[source[o]][a] \in Nat
                          /\ held[o][a][2] <= remote[source[o]][a]
      BY <1>2, <1>4, <2>1 DEF OwnInv, Taken, Rows, RowSteps, Settled, Artifacts, TypeOK, Versions
    <3> QED  BY <1>5, <3>1, <3>2 DEF ScanOf
  <2>5. Scanning(o)'
    BY <1>2, <1>5, <2>1, <2>4 DEF Scanning, ScanOf
  <2>6. ASSUME NEW e \in Dirs, Whole(sidecarFile[e])' PROVE Vouched(e)'
    <3>1. PICK s \in Sources, r \in validated :
            indexFile[s] = e /\ ScanOf(r, e, s, sidecarFile[e])
      BY <2>1, <2>6 DEF EarnInv, Vouched, Whole
    <3> QED  BY <1>1, <1>7, <2>1, <3>1, VouchedStays
  <2> QED  BY <1>3, <1>6, <2>3, <2>5, <2>6 DEF EarnInv
<1>10. CASE WriteSidecar(o)
  <2>1. /\ pc[o] \in {"truncSidecar", "fillSidecar"}
        /\ pc'[o] = "serving" \/ pc'[o] = "fillSidecar"
        /\ sidecarFile'[d] \in {sidecarFile[d], Torn, token[o]}
        /\ \A e \in Dirs \ {d} : sidecarFile'[e] = sidecarFile[e]
        /\ UNCHANGED <<skipped, validated>>
    BY <1>2, <1>10 DEF WriteSidecar, Filled, At, Goto, TypeOK
  <2>2. ~ skipped[o] /\ Complete(token[o])
    BY <2>1 DEF TokenInv
  <2>3. SkipIsEarned'
    BY <1>3, <2>1, <2>2 DEF SkipIsEarned
  <2>4. PICK r \in validated : ScanOf(r, d, source[o], held[o])
    BY <1>4, <1>5, <2>1 DEF Scanning
  <2>5. Scanning(o)'
    BY <1>2, <1>5, <2>1, <2>4 DEF Scanning, ScanOf
  <2>6. ASSUME NEW e \in Dirs, Whole(sidecarFile[e])' PROVE Vouched(e)'
    <3>1. CASE sidecarFile'[e] = sidecarFile[e]
      <4>1. PICK s \in Sources, q \in validated :
              indexFile[s] = e /\ ScanOf(q, e, s, sidecarFile[e])
        BY <2>6, <3>1 DEF EarnInv, Vouched, Whole
      <4> QED  BY <1>1, <1>7, <3>1, <4>1, VouchedStays
    <3>2. CASE sidecarFile'[e] # sidecarFile[e]
      <4>1. e = d /\ sidecarFile'[d] = token[o]
        BY <2>1, <2>6, <3>2 DEF Whole
      <4>2. \A a \in Rows : token[o][a] = held[o][a]
        BY <1>4, <2>1, <2>2 DEF Taken, Complete, Rows, RowSteps, Settled, Artifacts
      <4>3. ScanOf(r, d, source[o], sidecarFile[d])'
        BY <1>2, <2>4, <4>1, <4>2 DEF ScanOf
      <4> QED  BY <1>2, <1>5, <1>7, <2>1, <4>1, <4>3 DEF Vouched
    <3> QED  BY <3>1, <3>2
  <2> QED  BY <1>3, <1>6, <2>3, <2>5, <2>6 DEF EarnInv
<1> QED  BY <1>8, <1>9, <1>10

(* An upload only makes rows newer.                                        *)
LEMMA EarnPublish ==
  ASSUME TypeOK, EarnInv, NEW t \in Sources, NEW b \in Artifacts, Publish(t, b)
  PROVE  EarnInv'
<1>1. /\ UNCHANGED <<disk, pc, source, token, held, skipped, validated>>
      /\ \A s \in Sources, a \in Artifacts :
           remote[s][a] \in Nat /\ remote'[s][a] \in Nat /\ remote[s][a] <= remote'[s][a]
  BY DEF Publish, TypeOK, Versions
<1>2. UNCHANGED <<manifestFile, graphFile, sidecarFile, indexFile>>
  BY <1>1 DEF disk
<1>r. \A a \in Rows : a \in Artifacts
  BY DEF Rows, Artifacts
<1>3. ASSUME NEW r \in Combination, NEW d, NEW s \in Sources, NEW tags, ScanOf(r, d, s, tags)
      PROVE  /\ r.manifest = manifestFile[d] /\ r.graph = graphFile[d]
             /\ \A a \in Rows : /\ tags[a][1] = s /\ r[a][1] = s
                                /\ tags[a][2] <= r[a][2] /\ r[a][2] <= remote'[s][a]
  <2>1. \A a \in Rows : r[a][2] \in Nat
    BY <1>r DEF Combination, Content, Versions
  <2> QED  BY <1>1, <1>3, <1>r, <2>1 DEF ScanOf
<1>v. validated \subseteq Combination
  BY DEF TypeOK
<1>4. ASSUME NEW o \in Openers PROVE Arrived(o)' /\ Taken(o)' /\ Scanning(o)'
  <2>1. Arrived(o) /\ Taken(o) /\ Scanning(o) /\ source[o] \in Sources
    BY DEF EarnInv, TypeOK
  <2>2. Arrived(o)'
    BY <1>1, <1>2, <2>1 DEF Arrived
  <2>3. Taken(o)'
    <3>1. \A a \in Rows : held[o][a][2] \in Nat
      BY <1>r DEF TypeOK, Combination, Content, Versions
    <3> QED  BY <1>1, <1>r, <2>1, <3>1 DEF Taken
  <2>4. Scanning(o)'
    <3>1. SUFFICES ASSUME pc[o] \in {"truncSidecar", "fillSidecar"}
                   PROVE  \E r \in validated : ScanOf(r, indexFile[source[o]], source[o], held[o])'
      BY <1>1, <1>2 DEF Scanning
    <3>2. PICK r \in validated : ScanOf(r, indexFile[source[o]], source[o], held[o])
      BY <2>1, <3>1 DEF Scanning
    <3>3. ScanOf(r, indexFile[source[o]], source[o], held[o])'
      <4> DEFINE d == indexFile[source[o]]
                 s == source[o]
                 tags == held[o]
      <4>1. /\ r.manifest = manifestFile[d] /\ r.graph = graphFile[d]
            /\ \A a \in Rows : /\ tags[a][1] = s /\ r[a][1] = s
                               /\ tags[a][2] <= r[a][2] /\ r[a][2] <= remote'[s][a]
        <5> HIDE DEF d, s, tags
        <5>1. ScanOf(r, d, s, tags) /\ r \in Combination /\ s \in Sources
          BY <1>v, <2>1, <3>2 DEF d, s, tags
        <5> QED  BY <1>3, <5>1
      <4> QED  BY <1>1, <1>2, <4>1 DEF ScanOf
    <3> QED  BY <1>1, <3>3
  <2> QED  BY <2>2, <2>3, <2>4
<1>5. ASSUME NEW d \in Dirs, Whole(sidecarFile[d])' PROVE Vouched(d)'
  <2>1. PICK s \in Sources, r \in validated :
          indexFile[s] = d /\ ScanOf(r, d, s, sidecarFile[d]) /\ SeenBy(r, s)
    BY <1>2, <1>5 DEF EarnInv, Vouched, Whole
  <2>2. ScanOf(r, d, s, sidecarFile[d])'
    BY <1>2, <1>3, <1>v, <2>1 DEF ScanOf
  <2>3. SeenBy(r, s)'
    BY <1>1, <2>1 DEF SeenBy
  <2> QED  BY <1>1, <1>2, <2>1, <2>2, <2>3 DEF Vouched
<1>6. SkipIsEarned'
  BY <1>1 DEF EarnInv, SkipIsEarned
<1> QED  BY <1>4, <1>5, <1>6 DEF EarnInv

LEMMA EarnNext ==
  ASSUME SourcesApart
  PROVE  TypeOK /\ TokenInv /\ OwnInv /\ LoneInv /\ EarnInv /\ [TurnsNext]_vars => EarnInv'
<1> SUFFICES ASSUME TypeOK, TokenInv, OwnInv, LoneInv, EarnInv, [TurnsNext]_vars
             PROVE  EarnInv'
  OBVIOUS
<1>1. CASE UNCHANGED vars
  BY <1>1 DEF vars, disk, EarnInv, Arrived, Taken, Scanning, Vouched, ScanOf, SeenBy,
              SkipIsEarned, Whole
<1>2. ASSUME NEW s \in Sources, NEW a \in Artifacts, Publish(s, a) PROVE EarnInv'
  BY <1>2, EarnPublish
<1>3. ASSUME NEW o \in Openers, \A p \in Openers \ {o} : pc[p] = "idle",
             OpenStep(o) \/ Abort(o)
      PROVE  EarnInv'
  BY <1>3, EarnEarly, EarnRows, EarnJudge DEF OpenStep
<1> QED  BY <1>1, <1>2, <1>3 DEF TurnsNext, At
-----------------------------------------------------------------------------
(* Openers that race, over artifacts that are not overwritten.             *)

(* The only bytes there are of a source. *)
First(s) == [a \in Artifacts |-> <<s, 1>>]

(* Everything known of a source is its first upload, and a sidecar that is *)
(* whole, or about to be written, stands for a scan of exactly that.       *)
QuietInv ==
  /\ \A s \in Sources, a \in Artifacts : remote[s][a] = 1
  /\ \A d \in Dirs : /\ Whole(manifestFile[d]) => manifestFile[d][2] = 1
                     /\ Whole(graphFile[d]) => graphFile[d][2] = 1
                     /\ Whole(sidecarFile[d]) => sidecarFile[d] \in validated
  /\ \A o \in Openers :
       /\ \A a \in Artifacts : /\ held[o][a][2] = 1
                               /\ token[o][a] \in {NoMeta, <<source[o], 1>>}
       /\ pc[o] \in {"truncSidecar", "fillSidecar"} => First(source[o]) \in validated
       /\ skipped[o] => First(source[o]) \in validated

LEMMA QuietInit == Init => QuietInv
  BY DEF Init, QuietInv, Whole

LEMMA QuietStep ==
  ASSUME SourcesApart, TypeOK, TokenInv, OwnInv, QuietInv,
         NEW o \in Openers, OpenStep(o) \/ Abort(o)
  PROVE  QuietInv'
<1> USE DEF Artifacts
<1>h. /\ held[o] \in Combination /\ CacheKey[held[o].manifest] \in Dirs
      /\ source[o] \in Sources
  BY RemoteOpenAssumption DEF TypeOK, Combination
<1>1. CASE HeadManifest(o)
  <2>1. /\ \A a \in Artifacts : /\ held'[o][a][2] = 1
                                /\ token'[o][a] \in {NoMeta, <<source'[o], 1>>}
        /\ pc'[o] = "headGraph" /\ ~ skipped[o]
        /\ \A p \in Openers \ {o} : /\ held'[p] = held[p] /\ source'[p] = source[p]
                                    /\ token'[p] = token[p] /\ pc'[p] = pc[p]
        /\ UNCHANGED <<remote, disk, skipped, validated>>
    BY <1>1 DEF HeadManifest, Head, Now, At, Goto, TypeOK, QuietInv, TokenInv
  <2> QED  BY <2>1 DEF QuietInv, disk, Whole
<1>2. CASE HeadGraph(o)
  <2>1. /\ token'[o].graph \in {NoMeta, <<source[o], 1>>}
        /\ \A p \in Openers, a \in Artifacts :
             p # o \/ a # "graph" => token'[p][a] = token[p][a]
        /\ pc'[o] = "readIndex" /\ \A p \in Openers \ {o} : pc'[p] = pc[p]
        /\ UNCHANGED <<remote, disk, source, held, skipped, validated>>
    BY <1>2, <1>h DEF HeadGraph, TakeMeta, Head, Now, Goto, TypeOK, QuietInv
  <2> QED  BY <2>1 DEF QuietInv, disk, Whole
<1>3. CASE OpenCatchments(o) \/ HeadSnaps(o)
  <2>1. \A p \in Openers, a \in Artifacts :
          /\ held'[p][a] \in {held[p][a], <<source[p], 1>>}
          /\ token'[p][a] \in {token[p][a], NoMeta, <<source[p], 1>>}
    <3>1. PICK b \in Artifacts : TakeMeta(o, b) /\ held' = [held EXCEPT ![o][b] = Now(source[o], b)]
      BY <1>3 DEF OpenCatchments, HeadSnaps, OpenRows
    <3>2. Now(source[o], b) = <<source[o], 1>>
      BY <1>h DEF Now, QuietInv
    <3>3. PICK meta \in {NoMeta, <<source[o], 1>>} : token' = [token EXCEPT ![o][b] = meta]
      BY <3>1, <3>2 DEF TakeMeta, Head
    <3> QED  BY <3>1, <3>2, <3>3 DEF TypeOK, Combination
  <2>2. /\ pc'[o] \in {"headSnaps", "readSidecar"}
        /\ \A p \in Openers \ {o} : pc'[p] = pc[p]
        /\ UNCHANGED <<remote, disk, source, skipped, validated>>
    BY <1>3 DEF OpenCatchments, HeadSnaps, OpenRows, Goto, TypeOK
  <2> QED  BY <2>1, <2>2 DEF QuietInv, disk, Whole
<1>4. CASE ReadIndex(o) \/ ReadGraph(o) \/ GetManifest(o) \/ GetGraph(o)
  <2>1. \A p \in Openers, a \in Artifacts : held'[p][a][2] = 1
    <3>1. CASE held' = held
      BY <3>1 DEF QuietInv
    <3>2. CASE held' # held
      <4>1. \/ \E d \in Dirs : /\ Whole(manifestFile[d])
                               /\ held' = [held EXCEPT ![o].manifest = manifestFile[d]]
            \/ \E d \in Dirs : /\ Whole(graphFile[d])
                               /\ held' = [held EXCEPT ![o].graph = graphFile[d]]
            \/ held' = [held EXCEPT ![o].manifest = Now(source[o], "manifest")]
            \/ held' = [held EXCEPT ![o].graph = Now(source[o], "graph")]
        <5>1. Whole(indexFile[source[o]]) => indexFile[source[o]] \in Dirs
          BY <1>h DEF TypeOK, Whole
        <5> QED  BY <1>4, <1>h, <3>2, <5>1 DEF ReadIndex, ReadGraph, GetManifest, GetGraph
      <4>2. \E c : \E a \in Artifacts : c[2] = 1 /\ held' = [held EXCEPT ![o][a] = c]
        <5>1. \A a \in Artifacts : Now(source[o], a)[2] = 1
          BY <1>h DEF Now, QuietInv
        <5> QED  BY <4>1, <5>1 DEF QuietInv
      <4> QED  BY <4>2 DEF QuietInv, TypeOK, Combination
    <3> QED  BY <3>1, <3>2
  <2>2. /\ pc'[o] \notin {"truncSidecar", "fillSidecar"}
        /\ \A p \in Openers \ {o} : pc'[p] = pc[p]
        /\ UNCHANGED <<remote, disk, source, token, skipped, validated>>
    BY <1>4 DEF ReadIndex, ReadGraph, GetManifest, GetGraph, Goto, TypeOK
  <2> QED  BY <2>1, <2>2 DEF QuietInv, disk, Whole
<1>5. CASE WriteManifest(o) \/ WriteGraph(o) \/ WriteIndex(o)
  <2>1. \A d \in Dirs : /\ manifestFile'[d] \in {manifestFile[d], Torn, held[o].manifest}
                        /\ graphFile'[d] \in {graphFile[d], Torn, held[o].graph}
    BY <1>5 DEF WriteManifest, WriteGraph, WriteIndex, Filled, TypeOK
  <2>2. /\ pc'[o] \notin {"truncSidecar", "fillSidecar"}
        /\ \A p \in Openers \ {o} : pc'[p] = pc[p]
        /\ UNCHANGED <<remote, sidecarFile, source, token, held, skipped, validated>>
    BY <1>5 DEF WriteManifest, WriteGraph, WriteIndex, Goto, TypeOK
  <2> QED  BY <2>1, <2>2 DEF QuietInv, Whole
<1>t. Complete(token[o]) => token[o] = First(source[o])
  BY DEF Complete, First, QuietInv, TypeOK
<1>6. CASE ReadSidecar(o)
  <2>1. /\ skipped'[o] = SidecarMatches(o) /\ pc'[o] \notin {"truncSidecar", "fillSidecar"}
        /\ \A p \in Openers \ {o} : pc'[p] = pc[p] /\ skipped'[p] = skipped[p]
        /\ UNCHANGED <<remote, disk, source, token, held, validated>>
    BY <1>6 DEF ReadSidecar, Goto, TypeOK
  <2>2. SidecarMatches(o) => First(source[o]) \in validated
    <3>1. SUFFICES ASSUME SidecarMatches(o) PROVE First(source[o]) \in validated
      OBVIOUS
    <3>2. sidecarFile[CacheKey[held[o].manifest]] = First(source[o])
      BY <1>t, <3>1 DEF SidecarMatches, Complete
    <3>3. Whole(First(source[o]))
      <4>1. token[o] \in [Artifacts -> Meta] /\ token[o] = First(source[o])
        BY <1>t, <3>1 DEF SidecarMatches, Complete, TypeOK
      <4> QED  BY <4>1, RemoteOpenAssumption DEF Whole
    <3> QED  BY <1>h, <3>2, <3>3 DEF QuietInv
  <2> QED  BY <2>1, <2>2 DEF QuietInv, disk, Whole
<1>7. CASE Validate(o)
  <2>1. Scanned(o) = First(source[o])
    <3>1. \A a \in Artifacts : held[o][a] \in Content /\ held[o][a] = <<source[o], 1>>
      BY <1>h DEF OwnInv, QuietInv, Combination, Content
    <3> QED  BY <1>h, <3>1 DEF Scanned, Now, First, QuietInv, Combination
  <2>2. /\ validated' = validated \cup {First(source[o])}
        /\ \A p \in Openers \ {o} : pc'[p] = pc[p]
        /\ UNCHANGED <<remote, disk, source, token, held, skipped>>
    BY <1>7, <2>1 DEF Validate, Goto, TypeOK
  <2> QED  BY <2>2 DEF QuietInv, disk, Whole
<1>8. CASE WriteSidecar(o)
  <2>1. /\ pc[o] \in {"truncSidecar", "fillSidecar"}
        /\ \A d \in Dirs : sidecarFile'[d] \in {sidecarFile[d], Torn, token[o]}
        /\ \A p \in Openers \ {o} : pc'[p] = pc[p]
        /\ UNCHANGED <<remote, manifestFile, graphFile, source, token, held, skipped, validated>>
    BY <1>8 DEF WriteSidecar, Filled, At, Goto, TypeOK
  <2>2. token[o] \in validated
    BY <1>t, <2>1 DEF TokenInv, QuietInv
  <2> QED  BY <2>1, <2>2 DEF QuietInv, Whole
<1>9. CASE Abort(o)
  <2>1. /\ pc'[o] = "idle" /\ ~ skipped'[o]
        /\ \A p \in Openers \ {o} : pc'[p] = pc[p] /\ skipped'[p] = skipped[p]
        /\ UNCHANGED <<remote, disk, source, token, held, validated>>
    BY <1>9 DEF Abort, Goto, TypeOK
  <2> QED  BY <2>1 DEF QuietInv, disk, Whole
<1> QED  BY <1>1, <1>2, <1>3, <1>4, <1>5, <1>6, <1>7, <1>8, <1>9 DEF OpenStep

LEMMA QuietNext ==
  ASSUME SourcesApart
  PROVE  TypeOK /\ TokenInv /\ OwnInv /\ QuietInv /\ [CrowdNext]_vars => QuietInv'
<1> SUFFICES ASSUME TypeOK, TokenInv, OwnInv, QuietInv, [CrowdNext]_vars PROVE QuietInv'
  OBVIOUS
<1>1. ASSUME NEW o \in Openers, OpenStep(o) \/ Abort(o) PROVE QuietInv'
  BY <1>1, QuietStep
<1>3. ASSUME NEW d \in Dirs, Evict(d) PROVE QuietInv'
  <2>1. /\ \A e \in Dirs : /\ manifestFile'[e] \in {manifestFile[e], Absent}
                           /\ graphFile'[e] \in {graphFile[e], Absent}
                           /\ sidecarFile'[e] \in {sidecarFile[e], Absent}
        /\ UNCHANGED <<remote, pc, source, token, held, skipped, validated>>
    BY <1>3 DEF Evict, TypeOK
  <2> QED  BY <2>1 DEF QuietInv, Whole
<1>4. CASE UNCHANGED vars
  BY <1>4 DEF vars, disk, QuietInv, Whole
<1> QED  BY <1>1, <1>3, <1>4 DEF CrowdNext

LEMMA QuietIsEarned == TypeOK /\ OwnInv /\ QuietInv => SkipIsEarned
<1> SUFFICES ASSUME TypeOK, OwnInv, QuietInv, NEW o \in Openers, skipped[o]
             PROVE  held[o] \in validated
  BY DEF SkipIsEarned
<1>1. \A a \in Artifacts : held[o][a] \in Content /\ held[o][a] = <<source[o], 1>>
  BY DEF OwnInv, QuietInv, TypeOK, Combination, Content
<1>2. held[o] = First(source[o])
  BY <1>1 DEF TypeOK, Combination, First
<1> QED  BY <1>2 DEF QuietInv
-----------------------------------------------------------------------------
(* Both regimes. *)

RegimeInv ==
  /\ TypeOK /\ TokenInv /\ OwnInv
  /\ regime = "turns" => LoneInv /\ EarnInv
  /\ regime = "crowd" => QuietInv
  /\ regime \in {"crowd", "turns"}

LEMMA RegimeStep ==
  ASSUME SourcesApart
  PROVE  RegimeInv /\ [RegimeNext]_regimeVars =>
           RegimeInv' /\ [regime = "turns" => PairFrozen]_regimeVars
<1> SUFFICES ASSUME RegimeInv, [RegimeNext]_regimeVars
             PROVE  RegimeInv' /\ [regime = "turns" => PairFrozen]_regimeVars
  OBVIOUS
<1>1. TypeOK' /\ TokenInv' /\ OwnInv' /\ regime' = regime
  BY RegimeIsNext, TypeNext, TokenNext, OwnNext DEF RegimeInv, RegimeNext, regimeVars
<1>2. CASE regime = "turns"
  <2>1. [TurnsNext]_vars
    BY <1>2 DEF RegimeNext, regimeVars
  <2>2. LoneInv' /\ [PairFrozen]_vars /\ EarnInv'
    BY <1>2, <2>1, LoneNextInv, EarnNext DEF RegimeInv
  <2> QED  BY <1>1, <1>2, <2>2 DEF RegimeInv, regimeVars
<1>3. CASE regime = "crowd"
  <2>1. [CrowdNext]_vars
    BY <1>3 DEF RegimeNext, regimeVars
  <2>2. QuietInv'
    BY <1>3, <2>1, QuietNext DEF RegimeInv
  <2> QED  BY <1>1, <1>3, <2>2 DEF RegimeInv
<1> QED  BY <1>2, <1>3 DEF RegimeInv

LEMMA RegimeInvariant ==
  ASSUME SourcesApart
  PROVE  RegimeSpec => []RegimeInv
<1>1. RegimeInit => RegimeInv
  BY TypeInit, TokenInit, OwnInit, LoneInit, EarnInit, QuietInit DEF RegimeInit, RegimeInv
<1> QED  BY <1>1, RegimeStep, PTL DEF RegimeSpec

(* For openers that take turns, crashes at any point and uploads between   *)
(* any two steps included: an index entry that parses leads to a complete  *)
(* manifest and graph.                                                     *)
THEOREM IndexCommitsHolds ==
  ASSUME SourcesApart
  PROVE  RegimeSpec => []IndexCommits
<1>1. RegimeInv => IndexCommits
  BY DEF RegimeInv, IndexCommits, LoneInv
<1> QED  BY <1>1, RegimeInvariant, PTL

(* And the manifest and graph that an index entry leads to are never       *)
(* replaced: every later session of the source serves the same two.        *)
THEOREM IndexedPairFrozenHolds ==
  ASSUME SourcesApart
  PROVE  RegimeSpec => IndexedPairFrozen
BY RegimeInvariant, RegimeStep, PTL DEF RegimeSpec, IndexedPairFrozen

(* The sidecar lets through nothing that no scan accepted: a session that  *)
(* trusted validated.json serves a manifest, graph and rows that one scan  *)
(* accepted together.  So it is for openers that take turns, whatever is   *)
(* uploaded between any two steps, and for any number of openers that race *)
(* over a cache that files are removed from, while nothing is uploaded;    *)
(* wherever opens crash.                                                   *)
THEOREM SkipIsEarnedHolds ==
  ASSUME SourcesApart
  PROVE  RegimeSpec => []SkipIsEarned
<1>1. RegimeInv => SkipIsEarned
  BY QuietIsEarned DEF RegimeInv, EarnInv
<1> QED  BY <1>1, RegimeInvariant, PTL
=============================================================================
