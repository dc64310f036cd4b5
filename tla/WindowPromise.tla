---------------------------- MODULE WindowPromise ----------------------------
(***************************************************************************)
(* What RemoteRasterCache promises a caller: a call that succeeds names a  *)
(* window file that exists, and a window file, once there, keeps its       *)
(* content.  How calls share one fetch is not visible at this level.       *)
(***************************************************************************)
CONSTANTS Calls, Windows, Contents, Absent

VARIABLES
  window,   \* [Calls -> Windows]: the window each call asks for
  file,     \* [Windows -> Contents or Absent]: the cached GeoTIFFs
  outcome   \* [Calls -> {"pending", "ok", "err"}]

vars == <<window, file, outcome>>

Init ==
  /\ window \in [Calls -> Windows]
  /\ file = [w \in Windows |-> Absent]
  /\ outcome = [c \in Calls |-> "pending"]

(* Some caller's fetch publishes a window that was not there. *)
Publish(w) ==
  /\ file[w] = Absent
  /\ \E content \in Contents : file' = [file EXCEPT ![w] = content]
  /\ UNCHANGED <<window, outcome>>

(* A call returns: with the path of a file that exists, or with an error. *)
Return(c) ==
  /\ outcome[c] = "pending"
  /\ \/ /\ file[window[c]] # Absent
        /\ outcome' = [outcome EXCEPT ![c] = "ok"]
     \/ outcome' = [outcome EXCEPT ![c] = "err"]
  /\ UNCHANGED <<window, file>>

Next ==
  \/ \E w \in Windows : Publish(w)
  \/ \E c \in Calls : Return(c)

Spec == Init /\ [][Next]_vars
=============================================================================
