----------------------------- MODULE FileStore -----------------------------
(***************************************************************************)
(* filestore.go: a SnapshotStore that writes and syncs a temporary file,   *)
(* renames it over Path and syncs the directory. One Save runs at a time,  *)
(* as LocalDatabase.Save sees to.                                          *)
(*                                                                         *)
(* A file is what has been written to it and whether that is on the disk.  *)
(* The directory may name at Path, after a loss of power, the file it      *)
(* names now or one that a rename not yet on the disk has replaced.        *)
(***************************************************************************)
CONSTANTS Snapshots, Absent

Nothing == "nothing"
Torn    == "torn"     \* the contents of a file cut short

ASSUME SnapshotAssumption ==
  /\ Absent \notin Snapshots
  /\ Nothing \notin Snapshots \cup {Absent}
  /\ Torn \notin Snapshots \cup {Absent, Nothing}

Data  == Snapshots \cup {Absent, Torn}
Files == [data : Data, synced : BOOLEAN]

File(data, synced) == [data |-> data, synced |-> synced]
NoFile == File(Absent, TRUE)
Synced(f) == File(f.data, TRUE)

VARIABLES
  path,      \* the file that Path names
  older,     \* the files a loss of power may let Path name again
  pc,        \* where the Save in progress is
  source,    \* the snapshot it was given, or Nothing
  temp,      \* its temporary file
  outcome,   \* what the last Save returned: ok, error or none yet
  reader,    \* the file an open reader reads, or Nothing
  loaded     \* what the last reader delivered

vars == <<path, older, pc, source, temp, outcome, reader, loaded>>

Init ==
  /\ \E s \in Snapshots \cup {Absent} : path = File(s, TRUE)
  /\ older = {}
  /\ pc = "idle" /\ source = Nothing /\ temp = NoFile /\ outcome = "none"
  /\ reader = Nothing /\ loaded = Nothing
----
(* Save *)

Returned(how) ==
  /\ pc' = "idle" /\ source' = Nothing /\ temp' = NoFile
  /\ outcome' = how

Begin(s) ==
  /\ pc = "idle"
  /\ pc' = "create" /\ source' = s /\ outcome' = "none"
  /\ UNCHANGED <<path, older, temp, reader, loaded>>

CreateTemp ==
  /\ pc = "create"
  /\ pc' = "copy" /\ temp' = File(Torn, FALSE)
  /\ UNCHANGED <<path, older, source, outcome, reader, loaded>>

Copy ==
  /\ pc = "copy"
  /\ pc' = "sync" /\ temp' = File(source, FALSE)
  /\ UNCHANGED <<path, older, source, outcome, reader, loaded>>

SyncNot ==
  /\ pc = "sync"
  /\ pc' = "rename"
  /\ UNCHANGED <<path, older, source, temp, outcome, reader, loaded>>
Sync ==
  /\ pc = "sync"
  /\ pc' = "rename" /\ temp' = Synced(temp)
  /\ UNCHANGED <<path, older, source, outcome, reader, loaded>>

\* Until the directory is synced, the replaced file may come back.
RenameOver ==
  /\ pc = "rename"
  /\ pc' = "dirsync"
  /\ path' = temp /\ older' = older \cup {path} /\ temp' = NoFile
  /\ UNCHANGED <<source, outcome, reader, loaded>>

SyncDirNot ==
  /\ pc = "dirsync"
  /\ Returned("ok")
  /\ UNCHANGED <<path, older, reader, loaded>>
SyncDir ==
  /\ pc = "dirsync"
  /\ older' = {}
  /\ Returned("ok")
  /\ UNCHANGED <<path, reader, loaded>>

\* Every call can fail, and every one but the last two notices a context that
\* is done. The temporary file is removed on the way out.
Fail ==
  /\ pc # "idle"
  /\ Returned("error")
  /\ UNCHANGED <<path, older, reader, loaded>>
----
(* Load *)

\* The reader keeps the file it opened whatever Path comes to name.
Open ==
  /\ reader = Nothing
  /\ reader' = path.data
  /\ UNCHANGED <<path, older, pc, source, temp, outcome, loaded>>

Deliver ==
  /\ reader # Nothing
  /\ loaded' = reader /\ reader' = Nothing
  /\ UNCHANGED <<path, older, pc, source, temp, outcome>>

CloseUnread ==
  /\ reader # Nothing
  /\ reader' = Nothing
  /\ UNCHANGED <<path, older, pc, source, temp, outcome, loaded>>
----
(* The machine *)

\* The system writes in its own time: files, and the renames so far.
WriteBack ==
  /\ \E older2 \in SUBSET older : older' = {Synced(f) : f \in older2}
  /\ path' = Synced(path)
  /\ temp' = Synced(temp)
  /\ UNCHANGED <<pc, source, outcome, reader, loaded>>

Stopped == Returned("none") /\ reader' = Nothing /\ loaded' = Nothing

ProcessStops ==
  /\ Stopped
  /\ UNCHANGED <<path, older>>

\* What a file holds after a loss of power.
Surviving(f) == IF f.synced THEN {f} ELSE {File(f.data, TRUE), File(Torn, TRUE)}

PowerLoss ==
  /\ Stopped
  /\ path' \in UNION {Surviving(f) : f \in older \cup {path}}
  /\ older' = {}

Next ==
  \/ \E s \in Snapshots : Begin(s)
  \/ CreateTemp \/ Copy \/ Sync \/ RenameOver \/ SyncDir \/ Fail
  \/ Open \/ Deliver \/ CloseUnread
  \/ WriteBack \/ ProcessStops \/ PowerLoss

Spec == Init /\ [][Next]_vars
----
(* Properties *)

Labels == {"idle", "create", "copy", "sync", "rename", "dirsync"}

\* Every variable has its type.
TypeOK ==
  /\ path \in Files /\ older \in SUBSET Files
  /\ pc \in Labels
  /\ source \in Snapshots \cup {Nothing}
  /\ temp \in Files
  /\ outcome \in {"none", "ok", "error"}
  /\ reader \in Data \cup {Nothing}
  /\ loaded \in Data \cup {Nothing}

\* Whatever a reader is delivered, and whatever Path may name after a loss of
\* power, is a complete snapshot (SnapshotStore's promise of old or new, never
\* a partial write), wherever a Save was cut off.
NeverTorn ==
  /\ loaded # Torn
  /\ \A f \in older \cup {path} : f.data # Torn /\ f.synced

\* FileStore is a SnapshotStore: what may be found is what Path names or may
\* name again, so a Save that returned without error cannot be undone.
Store == INSTANCE SnapshotStore WITH
  found   <- {f.data : f \in older \cup {path}},
  saving  <- source,
  outcome <- outcome,
  loading <- reader,
  loaded  <- loaded

Promise == Store!Spec
==========================================================================
