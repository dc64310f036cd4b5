----------------------------- MODULE RemoteOpen -----------------------------
(***************************************************************************)
(* Opening a remote dataset: DatasetSession::open_remote_with_stats over   *)
(* the on-disk RemoteArtifactCache and its validation sidecar.             *)
(*                                                                         *)
(* Openers are processes (or threads: nothing is locked) that share one    *)
(* cache directory.  An open takes the entity tags of manifest and graph,  *)
(* takes both from the cache when this source is indexed there and from    *)
(* the network otherwise (writing three files with plain std::fs::write),  *)
(* takes the tags of the catchments and of the snap artifact, and then     *)
(* either trusts validated.json or scans the rows and writes it.           *)
(*                                                                         *)
(* A content is <<source, version>>: the bytes one upload put at one URL.  *)
(* Its entity tag identifies it.  The object store itself is external:     *)
(* Publish overwrites one artifact in place, with bytes never used before. *)
(***************************************************************************)
EXTENDS Naturals

CONSTANTS
  Openers,      \* processes that open datasets over one cache root
  Sources,      \* dataset URLs
  Dirs,         \* fabric/adapter_version cache directories
  CacheKey,     \* [Content -> Dirs]: fabric and adapter version of a manifest
  MaxVersion,   \* bound: uploads of one artifact at one URL
  Published,    \* artifacts the publisher overwrites
  Evictable,    \* cached files a cleaner may remove
  Tagless,      \* artifacts whose HEAD may fail or carry no ETag
  Valid,        \* the combinations that pass referential validation
  Absent, Torn, NoMeta

Artifacts == {"manifest", "graph", "catchments", "snap"}
Versions == 1..MaxVersion
Content == Sources \X Versions
Meta == Content \cup {NoMeta}
Combination == [Artifacts -> Content]

ASSUME RemoteOpenAssumption ==
  /\ MaxVersion \in Nat \ {0}
  /\ CacheKey \in [Content -> Dirs]
  /\ Published \subseteq Artifacts
  /\ Evictable \subseteq {"manifest", "graph", "sidecar"}
  /\ Tagless \subseteq Artifacts
  /\ Valid \subseteq Combination
  /\ {Absent, Torn} \cap (Content \cup Dirs \cup [Artifacts -> Meta]) = {}
  /\ NoMeta \notin Content /\ Absent # Torn

VARIABLES
  remote,       \* [Sources -> [Artifacts -> Versions]]: the object store
  manifestFile, \* [Dirs -> ..]: manifest.json of a cache directory
  graphFile,    \* [Dirs -> ..]: graph.parquet of a cache directory
  sidecarFile,  \* [Dirs -> ..]: validated.json of a cache directory
  indexFile,    \* [Sources -> ..]: .sources/<hash>.json
  pc,           \* [Openers -> ..]: where each open stands
  source,       \* the source each opener opens
  token,        \* [Openers -> [Artifacts -> Meta]]: metadata taken by HEAD
  held,         \* [Openers -> Combination]: what the session will serve
  skipped,      \* whether the sidecar spared the open its validation
  validated     \* history: combinations that a validation scan accepted

disk == <<manifestFile, graphFile, sidecarFile, indexFile>>
vars == <<remote, disk, pc, source, token, held, skipped, validated>>

Whole(file) == file \notin {Absent, Torn}

(* The bytes now at artifact a of source s. *)
Now(s, a) == <<s, remote[s][a]>>

(* What HEAD may report of artifact a: its tag, or nothing usable. *)
Head(s, a) == {Now(s, a)} \cup (IF a \in Tagless THEN {NoMeta} ELSE {})

Goto(o, step) == pc' = [pc EXCEPT ![o] = step]

At(o, step) == pc[o] = step

(* What a file may hold once a writer that truncated it has written new:   *)
(* bytes of a second writer in between may be left behind.                 *)
Filled(old, new) == IF old = Torn THEN {new} ELSE {new, Torn}

-----------------------------------------------------------------------------

TypeOK ==
  /\ remote \in [Sources -> [Artifacts -> Versions]]
  /\ manifestFile \in [Dirs -> Content \cup {Absent, Torn}]
  /\ graphFile \in [Dirs -> Content \cup {Absent, Torn}]
  /\ sidecarFile \in [Dirs -> [Artifacts -> Meta] \cup {Absent, Torn}]
  /\ indexFile \in [Sources -> Dirs \cup {Absent, Torn}]
  /\ pc \in [Openers -> {"idle", "headGraph", "readIndex", "readGraph",
                         "getManifest", "getGraph", "truncManifest",
                         "fillManifest", "truncGraph", "fillGraph",
                         "truncIndex", "fillIndex", "openCatchments",
                         "headSnaps", "readSidecar", "validate",
                         "truncSidecar", "fillSidecar", "serving"}]
  /\ source \in [Openers -> Sources]
  /\ token \in [Openers -> [Artifacts -> Meta]]
  /\ held \in [Openers -> Combination]
  /\ skipped \in [Openers -> BOOLEAN]
  /\ validated \subseteq Combination

Init ==
  /\ remote = [s \in Sources |-> [a \in Artifacts |-> 1]]
  /\ manifestFile = [d \in Dirs |-> Absent]
  /\ graphFile = [d \in Dirs |-> Absent]
  /\ sidecarFile = [d \in Dirs |-> Absent]
  /\ indexFile = [s \in Sources |-> Absent]
  /\ pc = [o \in Openers |-> "idle"]
  /\ source \in [Openers -> Sources]
  /\ token = [o \in Openers |-> [a \in Artifacts |-> NoMeta]]
  /\ held = [o \in Openers |-> [a \in Artifacts |-> <<source[o], 1>>]]
  /\ skipped = [o \in Openers |-> FALSE]
  /\ validated = {}

-----------------------------------------------------------------------------
(* The open itself, one action per visit to the network or to the disk.    *)

(* Taking the metadata of artifact a: an unusable HEAD leaves NoMeta. *)
TakeMeta(o, a) ==
  \E meta \in Head(source[o], a) : token' = [token EXCEPT ![o][a] = meta]

(* remote_artifact_meta(manifest.json): the first request of an open. *)
HeadManifest(o) ==
  /\ At(o, "idle")
  /\ \E s \in Sources, meta \in Content \cup {NoMeta} :
       /\ meta \in Head(s, "manifest")
       /\ source' = [source EXCEPT ![o] = s]
       /\ token' = [token EXCEPT ![o] = [a \in Artifacts |->
                       IF a = "manifest" THEN meta ELSE NoMeta]]
       /\ held' = [held EXCEPT ![o] = [a \in Artifacts |-> <<s, 1>>]]
  /\ Goto(o, "headGraph")
  /\ UNCHANGED <<remote, disk, skipped, validated>>

HeadGraph(o) ==
  /\ At(o, "headGraph")
  /\ TakeMeta(o, "graph")
  /\ Goto(o, "readIndex")
  /\ UNCHANGED <<remote, disk, source, held, skipped, validated>>

(* Mutants of ReadIndex: the entry is looked up by directory and not by    *)
(* source; and the cache is never consulted.                               *)
ReadIndexOfAnyone(o) ==
  /\ At(o, "readIndex")
  /\ \E s \in Sources :
       LET d == indexFile[s] IN
         IF Whole(d) /\ Whole(manifestFile[d]) /\ graphFile[d] # Absent
         THEN /\ held' = [held EXCEPT ![o].manifest = manifestFile[d]]
              /\ Goto(o, "readGraph")
         ELSE Goto(o, "getManifest") /\ UNCHANGED held
  /\ UNCHANGED <<remote, disk, source, token, skipped, validated>>

ReadIndexNever(o) ==
  /\ At(o, "readIndex")
  /\ Goto(o, "getManifest")
  /\ UNCHANGED <<remote, disk, source, token, held, skipped, validated>>

(* read_entry_for_source up to the manifest: no index entry, a torn one, a *)
(* missing file or a manifest of another key sends the open to the network *)
ReadIndex(o) ==
  /\ At(o, "readIndex")
  /\ LET d == indexFile[source[o]]
         hit == /\ Whole(d)
                /\ Whole(manifestFile[d])
                /\ graphFile[d] # Absent
                /\ CacheKey[manifestFile[d]] = d
     IN IF hit
        THEN /\ held' = [held EXCEPT ![o].manifest = manifestFile[d]]
             /\ Goto(o, "readGraph")
        ELSE /\ Goto(o, "getManifest")
             /\ UNCHANGED held
  /\ UNCHANGED <<remote, disk, source, token, skipped, validated>>

(* Mutant of ReadGraph: what is read is not looked at. *)
ReadGraphUnparsed(o) ==
  /\ At(o, "readGraph")
  /\ held' = [held EXCEPT ![o].graph = graphFile[CacheKey[held[o].manifest]]]
  /\ Goto(o, "openCatchments")
  /\ UNCHANGED <<remote, disk, source, token, skipped, validated>>

(* The second half of read_entry: graph.parquet, read after the manifest. *)
ReadGraph(o) ==
  /\ At(o, "readGraph")
  /\ LET g == graphFile[CacheKey[held[o].manifest]] IN
       IF Whole(g)
       THEN /\ held' = [held EXCEPT ![o].graph = g]
            /\ Goto(o, "openCatchments")
       ELSE /\ Goto(o, "getManifest")
            /\ UNCHANGED held
  /\ UNCHANGED <<remote, disk, source, token, skipped, validated>>

GetManifest(o) ==
  /\ At(o, "getManifest")
  /\ held' = [held EXCEPT ![o].manifest = Now(source[o], "manifest")]
  /\ Goto(o, "getGraph")
  /\ UNCHANGED <<remote, disk, source, token, skipped, validated>>

GetGraph(o) ==
  /\ At(o, "getGraph")
  /\ held' = [held EXCEPT ![o].graph = Now(source[o], "graph")]
  /\ Goto(o, "truncManifest")
  /\ UNCHANGED <<remote, disk, source, token, skipped, validated>>

(* write_manifest_graph: manifest, graph, then the source index, each by   *)
(* std::fs::write, which truncates before it writes.                       *)
WriteManifest(o) ==
  LET d == CacheKey[held[o].manifest] IN
  /\ \/ /\ At(o, "truncManifest")
        /\ manifestFile' = [manifestFile EXCEPT ![d] = Torn]
        /\ Goto(o, "fillManifest")
     \/ /\ At(o, "fillManifest")
        /\ \E f \in Filled(manifestFile[d], held[o].manifest) :
             manifestFile' = [manifestFile EXCEPT ![d] = f]
        /\ Goto(o, "truncGraph")
  /\ UNCHANGED <<remote, graphFile, sidecarFile, indexFile>>
  /\ UNCHANGED <<source, token, held, skipped, validated>>

(* Mutant of WriteGraph: the index is written before the graph's bytes. *)
WriteGraphUnfilled(o) ==
  /\ At(o, "truncGraph")
  /\ graphFile' = [graphFile EXCEPT ![CacheKey[held[o].manifest]] = Torn]
  /\ Goto(o, "truncIndex")
  /\ UNCHANGED <<remote, manifestFile, sidecarFile, indexFile>>
  /\ UNCHANGED <<source, token, held, skipped, validated>>

WriteGraph(o) ==
  LET d == CacheKey[held[o].manifest] IN
  /\ \/ /\ At(o, "truncGraph")
        /\ graphFile' = [graphFile EXCEPT ![d] = Torn]
        /\ Goto(o, "fillGraph")
     \/ /\ At(o, "fillGraph")
        /\ \E f \in Filled(graphFile[d], held[o].graph) :
             graphFile' = [graphFile EXCEPT ![d] = f]
        /\ Goto(o, "truncIndex")
  /\ UNCHANGED <<remote, manifestFile, sidecarFile, indexFile>>
  /\ UNCHANGED <<source, token, held, skipped, validated>>

WriteIndex(o) ==
  LET s == source[o]
      d == CacheKey[held[o].manifest] IN
  /\ \/ /\ At(o, "truncIndex")
        /\ indexFile' = [indexFile EXCEPT ![s] = Torn]
        /\ Goto(o, "fillIndex")
     \/ /\ At(o, "fillIndex")
        /\ \E f \in Filled(indexFile[s], d) :
             indexFile' = [indexFile EXCEPT ![s] = f]
        /\ Goto(o, "openCatchments")
  /\ UNCHANGED <<remote, manifestFile, graphFile, sidecarFile>>
  /\ UNCHANGED <<source, token, held, skipped, validated>>

(* HEAD of catchments.parquet, then of the snap artifact.  The rows stay   *)
(* in the object store: what the session serves is what HEAD described.    *)
OpenRows(o, a) ==
  /\ TakeMeta(o, a)
  /\ held' = [held EXCEPT ![o][a] = Now(source[o], a)]
  /\ UNCHANGED <<remote, disk, source, skipped, validated>>

OpenCatchments(o) ==
  /\ At(o, "openCatchments")
  /\ OpenRows(o, "catchments")
  /\ Goto(o, "headSnaps")

HeadSnaps(o) ==
  /\ At(o, "headSnaps")
  /\ OpenRows(o, "snap")
  /\ Goto(o, "readSidecar")

(* Mutant of SidecarMatches: the catchments' tag is not compared. *)
SidecarMatchesButCatchments(o) ==
  LET sidecar == sidecarFile[CacheKey[held[o].manifest]] IN
  /\ Whole(sidecar)
  /\ \A a \in Artifacts : token[o][a] # NoMeta
  /\ \A a \in Artifacts \ {"catchments"} : sidecar[a] = token[o][a]

(* All four tags are known, and they are the ones validated.json names. *)
SidecarMatches(o) ==
  /\ \A a \in Artifacts : token[o][a] # NoMeta
  /\ sidecarFile[CacheKey[held[o].manifest]] = token[o]

ReadSidecar(o) ==
  /\ At(o, "readSidecar")
  /\ skipped' = [skipped EXCEPT ![o] = SidecarMatches(o)]
  /\ Goto(o, IF SidecarMatches(o) THEN "serving" ELSE "validate")
  /\ UNCHANGED <<remote, disk, source, token, held, validated>>

(* What a validation scan looks at: the manifest and graph in hand and the *)
(* rows that are in the object store when it reads them.                   *)
Scanned(o) ==
  [held[o] EXCEPT !.catchments = Now(source[o], "catchments"),
                  !.snap = Now(source[o], "snap")]

(* Mutants of Validate: a failed scan does not end the open; and a sidecar *)
(* is written although a tag is missing.                                   *)
ValidateAndGoOn(o) ==
  /\ At(o, "validate")
  /\ validated' = validated \cup ({Scanned(o)} \cap Valid)
  /\ Goto(o, IF \A a \in Artifacts : token[o][a] # NoMeta
             THEN "truncSidecar" ELSE "serving")
  /\ UNCHANGED <<remote, disk, source, token, held, skipped>>

ValidateTokenless(o) ==
  /\ At(o, "validate")
  /\ Scanned(o) \in Valid
  /\ validated' = validated \cup {Scanned(o)}
  /\ Goto(o, "truncSidecar")
  /\ UNCHANGED <<remote, disk, source, token, held, skipped>>

(* validate_graph_catchments and validate_snap_refs; a failed validation   *)
(* is the error return of Abort.  Without four tags no sidecar is written. *)
Validate(o) ==
  /\ At(o, "validate")
  /\ Scanned(o) \in Valid
  /\ validated' = validated \cup {Scanned(o)}
  /\ Goto(o, IF \A a \in Artifacts : token[o][a] # NoMeta
             THEN "truncSidecar" ELSE "serving")
  /\ UNCHANGED <<remote, disk, source, token, held, skipped>>

(* write_validation_sidecar_best_effort: a failed write only warns. *)
WriteSidecar(o) ==
  LET d == CacheKey[held[o].manifest] IN
  /\ \/ /\ At(o, "truncSidecar")
        /\ sidecarFile' = [sidecarFile EXCEPT ![d] = Torn]
        /\ Goto(o, "fillSidecar")
     \/ /\ At(o, "fillSidecar")
        /\ \E f \in Filled(sidecarFile[d], token[o]) \cup {sidecarFile[d]} :
             sidecarFile' = [sidecarFile EXCEPT ![d] = f]
        /\ Goto(o, "serving")
  /\ UNCHANGED <<remote, manifestFile, graphFile, indexFile>>
  /\ UNCHANGED <<source, token, held, skipped, validated>>

(* An error return anywhere in the open, the death of the process, or the  *)
(* session being dropped: memory is lost and the files stay as they are.   *)
Abort(o) ==
  /\ pc[o] # "idle"
  /\ Goto(o, "idle")
  /\ skipped' = [skipped EXCEPT ![o] = FALSE]
  /\ UNCHANGED <<remote, disk, source, token, held, validated>>

-----------------------------------------------------------------------------
(* The environment: uploads in place, and cached files being removed.      *)

Publish(s, a) ==
  /\ a \in Published
  /\ remote[s][a] < MaxVersion
  /\ remote' = [remote EXCEPT ![s][a] = @ + 1]
  /\ UNCHANGED <<disk, pc, source, token, held, skipped, validated>>

Evict(d) ==
  /\ \E f \in Evictable :
       LET Removed(files, name) ==
             IF f = name THEN [files EXCEPT ![d] = Absent] ELSE files
       IN /\ manifestFile' = Removed(manifestFile, "manifest")
          /\ graphFile' = Removed(graphFile, "graph")
          /\ sidecarFile' = Removed(sidecarFile, "sidecar")
  /\ UNCHANGED <<remote, indexFile, pc, source, token, held, skipped, validated>>

OpenStep(o) ==
  \/ HeadManifest(o) \/ HeadGraph(o)
  \/ ReadIndex(o) \/ ReadGraph(o)
  \/ GetManifest(o) \/ GetGraph(o)
  \/ WriteManifest(o) \/ WriteGraph(o) \/ WriteIndex(o)
  \/ OpenCatchments(o) \/ HeadSnaps(o)
  \/ ReadSidecar(o) \/ Validate(o) \/ WriteSidecar(o)

Next ==
  \/ \E o \in Openers : OpenStep(o) \/ Abort(o)
  \/ \E s \in Sources, a \in Artifacts : Publish(s, a)
  \/ \E d \in Dirs : Evict(d)

Spec == Init /\ [][Next]_vars

-----------------------------------------------------------------------------
(* Properties. *)

(* A session that trusted the sidecar serves a combination of manifest,    *)
(* graph and rows that some validation scan has accepted: the sidecar only *)
(* spares work, it never lets unvalidated references through.              *)
SkipIsEarned ==
  \A o \in Openers :
    pc[o] = "serving" /\ skipped[o] => held[o] \in validated

(* A sidecar names the artifacts that were scanned.  So an open whose four *)
(* tags describe exactly what it holds, and which the sidecar matches, has *)
(* had that combination validated: a changed graph is validated again.     *)
TokenNamesScanned ==
  \A o \in Openers :
    /\ pc[o] = "serving" /\ skipped[o]
    /\ token[o] = held[o]
    => held[o] \in validated

(* The entry read_entry_for_source returns, and the session built from it, *)
(* hold the manifest and the graph of the very source that was asked for,  *)
(* as long as no two sources share a fabric name and adapter version.      *)
ServesOwnSource ==
  \A o \in Openers :
    pc[o] = "serving" => \A a \in Artifacts : held[o][a][1] = source[o]

(* A validation token is complete or absent: no sidecar that parses was    *)
(* written, and none is trusted, from an open that lacked an entity tag.   *)
TokensFailClosed ==
  /\ \A d \in Dirs : Whole(sidecarFile[d]) =>
       \A a \in Artifacts : sidecarFile[d][a] # NoMeta
  /\ \A o \in Openers : skipped[o] =>
       \A a \in Artifacts : token[o][a] # NoMeta

(* Every index entry that parses leads to a complete manifest and graph.   *)
Committed ==
  \A s \in Sources : Whole(indexFile[s]) =>
    LET d == indexFile[s] IN
      /\ Whole(manifestFile[d]) /\ Whole(graphFile[d])
      /\ CacheKey[manifestFile[d]] = d

(* No step replaces the manifest and graph that an entry leads to.         *)
PairFrozen ==
  \A s \in Sources : Whole(indexFile[s]) =>
    LET d == indexFile[s] IN
      /\ manifestFile'[d] = manifestFile[d]
      /\ graphFile'[d] = graphFile[d]
=============================================================================
