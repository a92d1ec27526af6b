-------------------------- MODULE FileStoreProofs --------------------------
(***************************************************************************)
(* FileStore never shows a partial snapshot and is a SnapshotStore, for    *)
(* any set of snapshots.                                                   *)
(***************************************************************************)
EXTENDS FileStore, TLAPS

Good == {File(s, TRUE) : s \in Snapshots \cup {Absent}}

\* The inductive invariant: only whole, synced files are ever at Path, and
\* what is about to be renamed there is the snapshot being saved.
Inv ==
  /\ TypeOK
  /\ path \in Good /\ older \in SUBSET Good
  /\ loaded # Torn /\ reader # Torn
  /\ pc = "idle" <=> source = Nothing
  /\ pc = "sync" => temp.data = source
  /\ pc = "rename" => temp = File(source, TRUE)
  /\ pc = "dirsync" => path = File(source, TRUE)

LEMMA FileFields ==
  /\ \A f \in Good : f \in Files /\ f.synced = TRUE /\ f.data \in Snapshots \cup {Absent}
                     /\ f.data # Torn /\ f.data # Nothing
  /\ NoFile \in Good
  /\ \A f \in Good : Synced(f) = f
<1>1. NoFile \in Good
  BY DEF Good, NoFile
<1>2. ASSUME NEW s \in Snapshots \cup {Absent}
      PROVE  LET f == File(s, TRUE) IN
             /\ f \in Files /\ f.synced = TRUE /\ f.data = s
             /\ Synced(f) = f
  BY DEF File, Files, Data, Synced
<1>3. \A s \in Snapshots \cup {Absent} : s # Torn /\ s # Nothing
  BY SnapshotAssumption
<1> QED BY <1>1, <1>2, <1>3 DEF Good

LEMMA InvInit == Init => Inv
<1> SUFFICES ASSUME Init PROVE Inv
  OBVIOUS
<1>1. path \in Good
  BY DEF Init, Good
<1> QED BY <1>1, FileFields, SnapshotAssumption DEF Init, Inv, TypeOK, Labels

\* Leaving Save, or being stopped, forgets what it was doing.
LEMMA ReturnedInv ==
  ASSUME Inv, NEW how \in {"none", "ok", "error"}, Returned(how), path' \in Good, older' \in SUBSET Good,
         reader' \in Data \cup {Nothing}, loaded' \in Data \cup {Nothing},
         reader' # Torn, loaded' # Torn
  PROVE  Inv'
BY FileFields DEF Inv, TypeOK, Returned, Labels

LEMMA InvNext == Inv /\ [Next]_vars => Inv'
<1> SUFFICES ASSUME Inv, [Next]_vars PROVE Inv'
  OBVIOUS
<1> USE DEF Inv, TypeOK, Labels
<1>1. ASSUME NEW s \in Snapshots, Begin(s) PROVE Inv'
  BY <1>1, SnapshotAssumption DEF Begin
<1>2. CASE CreateTemp
  BY <1>2 DEF CreateTemp, File, Files, Data
<1>3. CASE Copy
  <2>1. source \in Snapshots
    BY <1>3 DEF Copy
  <2> QED BY <1>3, <2>1 DEF Copy, File, Files, Data
<1>4. CASE Sync
  BY <1>4 DEF Sync, Synced, File, Files, Data
<1>5. CASE RenameOver
  <2>1. source \in Snapshots
    BY <1>5 DEF RenameOver
  <2>2. temp \in Good
    BY <1>5, <2>1 DEF RenameOver, Good
  <2> QED BY <1>5, <2>2, FileFields DEF RenameOver
<1>6. CASE SyncDir
  BY <1>6, ReturnedInv DEF SyncDir
<1>7. CASE Fail
  BY <1>7, ReturnedInv DEF Fail
<1>8. CASE Open
  BY <1>8, FileFields DEF Open, Data
<1>9. CASE Deliver \/ CloseUnread
  BY <1>9, SnapshotAssumption DEF Deliver, CloseUnread
<1>10. CASE WriteBack
  <2>1. path' = path
    BY <1>10, FileFields DEF WriteBack
  <2>2. older' \in SUBSET older
    BY <1>10, FileFields DEF WriteBack
  <2>3. temp' = File(temp.data, TRUE) /\ temp' \in Files
    BY <1>10 DEF WriteBack, Synced, File, Files
  <2>4. UNCHANGED <<pc, source, outcome, reader, loaded>> /\ temp'.data = temp.data
    BY <1>10, <2>3 DEF WriteBack, File
  <2>5. pc' = "rename" => temp' = File(source', TRUE)
    <3>1. pc = "rename" => temp.data = source
      BY DEF File
    <3> QED BY <2>3, <2>4, <3>1
  <2> QED BY <2>1, <2>2, <2>3, <2>4, <2>5
<1>11. CASE ProcessStops
  BY <1>11, ReturnedInv, SnapshotAssumption DEF ProcessStops, Stopped
<1>12. CASE PowerLoss
  <2>1. path' \in older \cup {path}
    BY <1>12, FileFields DEF PowerLoss, Surviving
  <2> QED BY <1>12, <2>1, ReturnedInv, SnapshotAssumption DEF PowerLoss, Stopped
<1>13. CASE UNCHANGED vars
  BY <1>13 DEF vars
<1> QED
  BY <1>1, <1>2, <1>3, <1>4, <1>5, <1>6, <1>7, <1>8, <1>9, <1>10, <1>11, <1>12,
     <1>13 DEF Next

LEMMA InvHolds == Spec => []Inv
BY InvInit, InvNext, PTL DEF Spec

\* No reader and no restart ever sees a partial snapshot, wherever a Save was
\* cut off by an error, the end of the process or a loss of power.
THEOREM TornTheorem == Spec => []NeverTorn
<1>1. Inv => NeverTorn
  BY FileFields DEF Inv, NeverTorn
<1> QED BY <1>1, InvHolds, PTL
----
(* Refinement *)

found == {f.data : f \in older \cup {path}}

LEMMA PromiseInit == Init => Store!Init
<1> SUFFICES ASSUME Init PROVE Store!Init
  OBVIOUS
<1>1. PICK s \in Snapshots \cup {Absent} : path = File(s, TRUE)
  BY DEF Init
<1>2. found = {s}
  BY <1>1 DEF Init, found, File
<1> QED BY <1>2 DEF Init, Store!Init, found, Store!Nothing, Nothing

\* Losing some of the older files, but not the one at Path, only makes what
\* may be found more certain.
LEMMA FoundShrinks ==
  ASSUME path' \in older \cup {path}, older' \in SUBSET older
  PROVE  found' \in (SUBSET found) \ {{}}
BY DEF found

LEMMA PromiseNext == Inv /\ Inv' /\ [Next]_vars => [Store!Next]_(Store!vars)
<1> SUFFICES ASSUME Inv, Inv', Next PROVE Store!Next \/ UNCHANGED Store!vars
  BY DEF vars, Store!vars
<1> USE DEF Store!vars, Store!Nothing, Nothing
<1>1. ASSUME NEW s \in Snapshots, Begin(s) PROVE Store!Save(s)
  BY <1>1 DEF Begin, Inv, Store!Save
<1>2. CASE CreateTemp \/ Copy \/ Sync
  BY <1>2 DEF CreateTemp, Copy, Sync
<1>3. CASE RenameOver
  <2>1. source # Nothing /\ path'.data = source
    BY <1>3 DEF RenameOver, Inv, File
  <2>2. found' = found \cup {source}
    BY <1>3, <2>1 DEF RenameOver, found
  <2> QED BY <1>3, <2>1, <2>2 DEF RenameOver, Store!Publish, found, Store!Next
<1>4. CASE SyncDir
  <2>1. source # Nothing /\ path.data = source
    BY <1>4 DEF SyncDir, Inv, File
  <2>2. found' = {source}
    BY <1>4, <2>1 DEF SyncDir, found
  <2> QED BY <1>4, <2>1, <2>2 DEF SyncDir, Returned, Store!Succeed, found, Store!Next
<1>5. CASE Fail
  BY <1>5 DEF Fail, Returned, Inv, Store!Fail, Store!Next
<1>6. CASE Open
  BY <1>6 DEF Open, Store!Open, Store!Next
<1>7. CASE Deliver
  BY <1>7 DEF Deliver, Store!Deliver, Store!Next
<1>8. CASE CloseUnread
  BY <1>8 DEF CloseUnread, Store!CloseUnread, Store!Next
<1>9. CASE WriteBack
  <2>1. path' = path /\ older' \in SUBSET older
    BY <1>9, FileFields DEF WriteBack, Inv
  <2>2. found' \in (SUBSET found) \ {{}}
    BY <2>1, FoundShrinks
  <2> QED BY <1>9, <2>2 DEF WriteBack, Store!Settle, found, Store!Next
<1>10. CASE ProcessStops \/ PowerLoss
  <2>1. path' \in older \cup {path} /\ older' \in SUBSET older /\ Stopped
    BY <1>10, FileFields DEF ProcessStops, PowerLoss, Surviving, Inv
  <2>2. found' \in (SUBSET found) \ {{}}
    BY <2>1, FoundShrinks
  <2> QED BY <2>1, <2>2 DEF Stopped, Returned, Store!Stop, found, Store!Next
<1> QED
  BY <1>1, <1>2, <1>3, <1>4, <1>5, <1>6, <1>7, <1>8, <1>9, <1>10 DEF Next, Store!Next

\* FileStore keeps the promises of the SnapshotStore interface: a Save that
\* returned without error is what any later Load finds, and one that did not
\* leaves the old snapshot or the new.
THEOREM PromiseTheorem == Spec => Promise
<1>1. Init => Store!Init
  BY PromiseInit
<1>2. Inv /\ Inv' /\ [Next]_vars => [Store!Next]_(Store!vars)
  BY PromiseNext
<1> QED BY <1>1, <1>2, InvHolds, PTL DEF Spec, Promise, Store!Spec
==========================================================================
