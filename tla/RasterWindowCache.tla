-------------------------- MODULE RasterWindowCache --------------------------
(***************************************************************************)
(* RemoteRasterCache::get_or_fetch_window: concurrent calls for windows of *)
(* remote COG rasters share one fetch through a map of tokio Notify        *)
(* handles, and publish the window as a file with persist_noclobber.       *)
(*                                                                         *)
(* Every DatasetSession owns a map of its own; the directory is shared by  *)
(* all of them.  A call inserts at most one Notify, so a Notify is named   *)
(* by the call that made it.  A file's content is the pair of raster       *)
(* versions its header and its tiles were read from.                       *)
(***************************************************************************)
EXTENDS Naturals

CONSTANTS
  Calls,        \* calls of get_or_fetch_window, each made once
  Sessions,     \* dataset sessions: one in-flight map each
  SessionOf,    \* [Calls -> Sessions]
  Windows,      \* cache keys: raster kind, path hash and pixel window
  Panicky,      \* calls whose fetch may panic
  MaxVersion,   \* bound: uploads of the raster a window is cut from
  Overwritten,  \* bound: windows whose raster is uploaded more than once
  Absent, None

Versions == 1..MaxVersion
Contents == [header : Versions, tiles : Versions]

ASSUME RasterWindowAssumption ==
  /\ SessionOf \in [Calls -> Sessions]
  /\ Panicky \subseteq Calls
  /\ MaxVersion \in Nat \ {0} /\ Overwritten \subseteq Windows
  /\ None \notin Calls
  /\ Absent \notin Contents

VARIABLES
  remote,    \* [Windows -> Versions]: what the object store holds
  window,    \* [Calls -> Windows]
  file,      \* [Windows -> Contents or Absent]: raster-windows/<key>.tif
  inFlight,  \* [Sessions -> [Windows -> Calls or None]]: the DashMap
  notify,    \* [Calls -> Calls or None]: the Notify a call made or cloned
  drawn,     \* [Calls -> Contents]: the raster versions each call has read
  pc         \* [Calls -> ..]: where each call stands

vars == <<remote, window, file, inFlight, notify, drawn, pc>>

(* Between entry.insert and in_flight.remove. *)
Flying == {"fetch", "persist", "releaseOk", "releaseErr"}
Returned == {"ok", "err"}

TypeOK ==
  /\ remote \in [Windows -> Versions]
  /\ window \in [Calls -> Windows]
  /\ file \in [Windows -> Contents \cup {Absent}]
  /\ inFlight \in [Sessions -> [Windows -> Calls \cup {None}]]
  /\ notify \in [Calls -> Calls \cup {None}]
  /\ drawn \in [Calls -> Contents]
  /\ pc \in [Calls -> Flying \cup Returned \cup
               {"prepare", "lookup", "entry", "cloned", "parked", "recheck",
                "notifyOk", "notifyErr", "panicked"}]

Init ==
  /\ remote = [w \in Windows |-> 1]
  /\ window \in [Calls -> Windows]
  /\ file = [w \in Windows |-> Absent]
  /\ inFlight = [s \in Sessions |-> [w \in Windows |-> None]]
  /\ notify = [c \in Calls |-> None]
  /\ drawn = [c \in Calls |-> [header |-> 1, tiles |-> 1]]
  /\ pc = [c \in Calls |-> "prepare"]

Entry(c) == inFlight[SessionOf[c]][window[c]]

SetEntry(c, owner) ==
  inFlight' = [inFlight EXCEPT ![SessionOf[c]][window[c]] = owner]

Move(c, from, to) ==
  /\ pc[c] = from
  /\ pc' = [pc EXCEPT ![c] = to]

-----------------------------------------------------------------------------

(* Mutant of Prepare: the lookup goes on without a header. *)
PrepareUnread(c) ==
  /\ Move(c, "prepare", "lookup") \/ Move(c, "prepare", "err")
  /\ drawn' = [drawn EXCEPT ![c].header = Absent]
  /\ UNCHANGED <<remote, window, file, inFlight, notify>>

(* prepare_window: HEAD and header of the COG; the key follows from them. *)
Prepare(c) ==
  /\ Move(c, "prepare", "lookup") \/ Move(c, "prepare", "err")
  /\ drawn' = [drawn EXCEPT ![c].header = remote[window[c]]]
  /\ UNCHANGED <<remote, window, file, inFlight, notify>>

(* cache_hit: metadata of the canonical path, which may fail. *)
Lookup(c, from) ==
  /\ \/ file[window[c]] # Absent /\ Move(c, from, "ok")
     \/ file[window[c]] = Absent /\ Move(c, from, "entry")
     \/ Move(c, from, "err")
  /\ UNCHANGED <<remote, window, file, inFlight, notify, drawn>>

FirstLookup(c) == Lookup(c, "lookup")
Recheck(c) == Lookup(c, "recheck")

(* The entry is occupied: clone its Notify and drop the map guard. *)
Clone(c) ==
  /\ Move(c, "entry", "cloned")
  /\ Entry(c) # None
  /\ notify' = [notify EXCEPT ![c] = Entry(c)]
  /\ UNCHANGED <<remote, window, file, inFlight, drawn>>

(* notify.notified().await: only from here on can notify_waiters wake it. *)
Park(c) ==
  /\ Move(c, "cloned", "parked")
  /\ UNCHANGED <<remote, window, file, inFlight, notify, drawn>>

(* Mutant of Claim: insert without looking at the entry. *)
ClaimUnseen(c) ==
  /\ Move(c, "entry", "fetch")
  /\ SetEntry(c, c)
  /\ notify' = [notify EXCEPT ![c] = c]
  /\ UNCHANGED <<remote, window, file, drawn>>

(* The entry is vacant: this call will fetch. *)
Claim(c) ==
  /\ Move(c, "entry", "fetch")
  /\ Entry(c) = None
  /\ SetEntry(c, c)
  /\ notify' = [notify EXCEPT ![c] = c]
  /\ UNCHANGED <<remote, window, file, drawn>>

(* fetch_window_to_path up to the decoded pixels: the tile ranges planned  *)
(* from the header are read now.  A panic unwinds past remove and notify.  *)
Fetch(c) ==
  /\ \/ Move(c, "fetch", "persist")
     \/ Move(c, "fetch", "releaseErr")
     \/ c \in Panicky /\ Move(c, "fetch", "panicked")
  /\ drawn' = [drawn EXCEPT ![c].tiles = remote[window[c]]]
  /\ UNCHANGED <<remote, window, file, inFlight, notify>>

(* Mutant of Persist: an error of the write is taken for a success. *)
PersistRegardless(c) ==
  /\ Move(c, "persist", "releaseOk")
  /\ \/ file' = [file EXCEPT ![window[c]] = IF @ = Absent THEN drawn[c] ELSE @]
     \/ UNCHANGED file
  /\ UNCHANGED <<remote, window, inFlight, notify, drawn>>

(* write_window_geotiff: a synced temporary file, then persist_noclobber;  *)
(* a file that is there already is kept and counts as success.             *)
Persist(c) ==
  /\ \/ /\ Move(c, "persist", "releaseOk")
        /\ file' = [file EXCEPT ![window[c]] =
                      IF @ = Absent THEN drawn[c] ELSE @]
     \/ /\ Move(c, "persist", "releaseErr")
        /\ UNCHANGED file
  /\ UNCHANGED <<remote, window, inFlight, notify, drawn>>

(* Mutant of Release: a failed fetch returns before the removal. *)
ReleaseOnOk(c) ==
  /\ \/ Move(c, "releaseOk", "notifyOk") /\ SetEntry(c, None)
     \/ Move(c, "releaseErr", "notifyErr") /\ UNCHANGED inFlight
  /\ UNCHANGED <<remote, window, file, notify, drawn>>

(* self.in_flight.remove(&canonical) *)
Release(c) ==
  /\ \/ Move(c, "releaseOk", "notifyOk")
     \/ Move(c, "releaseErr", "notifyErr")
  /\ SetEntry(c, None)
  /\ UNCHANGED <<remote, window, file, notify, drawn>>

(* Mutant of Notify: only one waiter is woken (notify_one). *)
NotifyOne(c) ==
  LET waiters == {e \in Calls : pc[e] = "parked" /\ notify[e] = c}
      returned == [pc EXCEPT ![c] = IF @ = "notifyOk" THEN "ok" ELSE "err"]
  IN
  /\ pc[c] \in {"notifyOk", "notifyErr"}
  /\ IF waiters = {} THEN pc' = returned
     ELSE \E e \in waiters : pc' = [returned EXCEPT ![e] = "recheck"]
  /\ UNCHANGED <<remote, window, file, inFlight, notify, drawn>>

(* notify.notify_waiters(), then return result: exactly the calls that are *)
(* parked on this Notify wake up.                                          *)
Notify(c) ==
  /\ pc[c] \in {"notifyOk", "notifyErr"}
  /\ pc' = [e \in Calls |->
       IF e = c THEN (IF pc[c] = "notifyOk" THEN "ok" ELSE "err")
       ELSE IF pc[e] = "parked" /\ notify[e] = c THEN "recheck"
       ELSE pc[e]]
  /\ UNCHANGED <<remote, window, file, inFlight, notify, drawn>>

(* External: the raster is overwritten in place; its pixel grid stays. *)
Overwrite(w) ==
  /\ w \in Overwritten /\ remote[w] < MaxVersion
  /\ remote' = [remote EXCEPT ![w] = @ + 1]
  /\ UNCHANGED <<window, file, inFlight, notify, drawn, pc>>

CallStep(c) ==
  \/ Prepare(c) \/ FirstLookup(c) \/ Recheck(c)
  \/ Clone(c) \/ Park(c) \/ Claim(c)
  \/ Fetch(c) \/ Persist(c) \/ Release(c) \/ Notify(c)

Next ==
  \/ \E c \in Calls : CallStep(c)
  \/ \E w \in Windows : Overwrite(w)

Spec == Init /\ [][Next]_vars

(* Every task that can run is polled, and a request to the object store    *)
(* ends: in data or in an error.                                           *)
FairSpec == Spec /\ \A c \in Calls : WF_vars(CallStep(c))

-----------------------------------------------------------------------------
(* Properties. *)

(* Two calls of one session never fetch one window at the same time, and   *)
(* the map names the one that does: inFlight is exact, but for an entry a  *)
(* panic left behind.                                                      *)
SingleFlight ==
  \A c, e \in Calls :
    /\ pc[c] \in Flying /\ pc[e] \in Flying
    /\ SessionOf[c] = SessionOf[e] /\ window[c] = window[e]
    => c = e

(* An entry of the map always belongs to a call that is still fetching, or *)
(* panicked doing so: a finished call leaves nothing to wait for.          *)
EntriesAreLive ==
  \A s \in Sessions, w \in Windows, c \in Calls :
    inFlight[s][w] = c =>
      /\ pc[c] \in Flying \cup {"panicked"}
      /\ SessionOf[c] = s /\ window[c] = w

(* A call that returned Ok named a window file that exists, whoever made   *)
(* it: the caller itself, a call it waited for, or another session.        *)
OkMeansCached ==
  \A c \in Calls : pc[c] = "ok" => file[window[c]] # Absent

(* A published window is never replaced, not by another session, a second  *)
(* fetch of the same window, or a fetch after the raster was overwritten:  *)
(* a path handed out keeps naming the same pixels.                         *)
WindowFrozen ==
  [][\A w \in Windows : file[w] # Absent => file'[w] = file[w]]_vars

(* What a caller has seen of its call. *)
Outcome == [c \in Calls |-> IF pc[c] \in Returned THEN pc[c] ELSE "pending"]

(* The calls refine the promise: a window is published once, and a call    *)
(* returns once, Ok only for a published window.                           *)
Promise == INSTANCE WindowPromise WITH outcome <- Outcome

(* The shared fetch is invisible to callers: get_or_fetch_window implements *)
(* WindowPromise.                                                          *)
RefinesPromise == Promise!Spec

(* A call parked on the Notify of a fetch that is still under way wakes up *)
(* when the fetch ends, in data or in an error; only a panic of the        *)
(* fetching call leaves it asleep.                                         *)
ParkedInFlightWakes ==
  \A c \in Calls :
    pc[c] = "parked" /\ notify[c] = Entry(c)
      ~> pc[c] # "parked" \/ pc[notify[c]] = "panicked"

(* Every call returns a cached window or an error. *)
EveryCallReturns ==
  \A c \in Calls : <>(pc[c] \in Returned)

=============================================================================
