--------------------------- MODULE SnapshotStore ---------------------------
(***************************************************************************)
(* What the SnapshotStore interface of persistence.go promises to one      *)
(* writer at a time and any reader: complete snapshots only, a successful  *)
(* Save is what is found from then on, and a Save that fails or is cut off *)
(* may have published or not.                                              *)
(*                                                                         *)
(* A loss of power may take back what was published but not acknowledged:  *)
(* found is the set of the snapshots one of which is, or may become, what  *)
(* the store holds.                                                        *)
(***************************************************************************)
CONSTANTS Snapshots, Absent

Nothing == "nothing"

VARIABLES
  found,     \* the snapshots that may be found
  saving,    \* the snapshot a Save in progress was given, or Nothing
  outcome,   \* what the last Save returned: ok, error or none yet
  loading,   \* the snapshot a Load in progress opened, or Nothing
  loaded     \* what the last Load delivered

vars == <<found, saving, outcome, loading, loaded>>

Init ==
  /\ \E s \in Snapshots \cup {Absent} : found = {s}
  /\ saving = Nothing /\ outcome = "none" /\ loading = Nothing /\ loaded = Nothing

Save(s) ==
  /\ saving = Nothing
  /\ saving' = s /\ outcome' = "none"
  /\ UNCHANGED <<found, loading, loaded>>

\* At any moment of a Save: its snapshot can be seen.
Publish ==
  /\ saving # Nothing
  /\ found' = found \cup {saving}
  /\ UNCHANGED <<saving, outcome, loading, loaded>>

Succeed ==
  /\ saving # Nothing
  /\ found' = {saving}
  /\ saving' = Nothing /\ outcome' = "ok"
  /\ UNCHANGED <<loading, loaded>>

Fail ==
  /\ saving # Nothing
  /\ saving' = Nothing /\ outcome' = "error"
  /\ UNCHANGED <<found, loading, loaded>>

\* Load answers with one complete snapshot, or that there is none.
Open ==
  /\ loading = Nothing
  /\ loading' \in found
  /\ UNCHANGED <<found, saving, outcome, loaded>>

Deliver ==
  /\ loading # Nothing
  /\ loaded' = loading
  /\ loading' = Nothing
  /\ UNCHANGED <<found, saving, outcome>>

CloseUnread ==
  /\ loading # Nothing
  /\ loading' = Nothing
  /\ UNCHANGED <<found, saving, outcome, loaded>>

\* The process, or the machine, stops: Saves and Loads are cut off, and what
\* may be found can only become more certain. It may also do so in peace.
Stop ==
  /\ found' \in (SUBSET found) \ {{}}
  /\ saving' = Nothing /\ outcome' = "none"
  /\ loading' = Nothing /\ loaded' = Nothing

Settle ==
  /\ found' \in (SUBSET found) \ {{}}
  /\ UNCHANGED <<saving, outcome, loading, loaded>>

Next ==
  \/ \E s \in Snapshots : Save(s)
  \/ Publish \/ Succeed \/ Fail \/ Open \/ Deliver \/ CloseUnread \/ Stop \/ Settle

Spec == Init /\ [][Next]_vars
==========================================================================
