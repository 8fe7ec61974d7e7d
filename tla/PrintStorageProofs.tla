------------------------- MODULE PrintStorageProofs -------------------------
(***************************************************************************)
(* The safety properties of PrintStorage and that it implements            *)
(* PrintStore, for all users, fingers, templates and limits.               *)
(***************************************************************************)
EXTENDS PrintStorage, FiniteSetTheorems, TLAPS

\* What one operation may make of the records.
Changed(old, new) ==
  \/ \E s \in Slot, t \in Template : new \in Inserted(old, s, t)
  \/ \E s \in Slot : old[s] # None /\ new = Removed(old, {s})
  \/ \E u \in User : new = Removed(old, {u} \X Finger)
  \/ \E s \in Slot, t \in Template : old[s] # None /\ new = Adapted(old, s, t)

Distinct(r) == \A s, z \in Enrolled(r) : r[s].registration = r[z].registration => s = z

\* Until the rename the file holds what the operation started from.
SaveInProgress ==
  pc \in {"create", "write", "sync", "rename"} =>
    /\ loaded /\ file = before
    /\ Changed(before, records)

\* What the checks of save() have established when the file is written.
CountChecked ==
  pc \in {"write", "sync", "rename"} => Cardinality(Enrolled(records)) <= MaxRecords

\* The temporary file is complete, and synced, before it is renamed.
TempComplete ==
  /\ pc \in {"sync", "rename"} => temp.data = records
  /\ pc = "rename" => temp.synced

\* After the rename the file holds the change.
Committed == pc = "syncdir" => loaded /\ records = file

\* The directory shows one version, but for a rename not yet or never synced.
DirectoryCurrent ==
  /\ file \in disk
  /\ pc # "syncdir" /\ ~unsynced => disk = {file}

IInv ==
  /\ TypeOK
  /\ SaveInProgress
  /\ CountChecked
  /\ TempComplete
  /\ Committed
  /\ DirectoryCurrent
  /\ FileLoads
  /\ MemoryMatchesFile

-----------------------------------------------------------------------------
(* The records. *)

\* The number a print gets is a registration.
LEMMA NumberedRange ==
  ASSUME NEW r \in Contents, NEW s \in Slot
  PROVE  Numbered(r, s) \subseteq 1..MaxRegistration
  BY DEF Numbered, Contents, Record

\* insert_or_update makes records of records.
LEMMA InsertedType ==
  ASSUME NEW r \in Contents, NEW s \in Slot, NEW t \in Template, NEW q \in Inserted(r, s, t)
  PROVE  q \in Contents
  <1>1. PICK n \in Numbered(r, s) : q = [r EXCEPT ![s] = [registration |-> n, template |-> t]]
    BY DEF Inserted
  <1>2. [registration |-> n, template |-> t] \in Record
    BY NumberedRange DEF Record
  <1>3. QED
    BY <1>1, <1>2 DEF Contents

\* So do the other operations.
LEMMA RemovedType ==
  ASSUME NEW r \in Contents, NEW gone
  PROVE  Removed(r, gone) \in Contents
  BY DEF Contents, Removed

\* adapt() of a typed print is typed.
LEMMA AdaptedType ==
  ASSUME NEW r \in Contents, NEW s \in Slot, NEW t \in Template, r[s] # None
  PROVE  Adapted(r, s, t) \in Contents
  BY DEF Contents, Adapted, Record

\* Every operation makes records of records.
LEMMA ChangedType ==
  ASSUME NEW old \in Contents, NEW new, Changed(old, new)
  PROVE  new \in Contents
  BY InsertedType, RemovedType, AdaptedType DEF Changed

\* A print enrolled anew does not share its registration, and one enrolled
\* again keeps a registration nobody shares.
LEMMA InsertedDistinct ==
  ASSUME NEW r \in Contents, Distinct(r), NEW s \in Slot, NEW t \in Template,
         NEW q \in Inserted(r, s, t)
  PROVE  Distinct(q)
  <1>1. PICK n \in Numbered(r, s) : q = [r EXCEPT ![s] = [registration |-> n, template |-> t]]
    BY DEF Inserted
  <1>2. q[s].registration = n
    BY <1>1 DEF Contents
  <1>3. \A z \in Slot \ {s} : q[z] = r[z]
    BY <1>1 DEF Contents
  <1>4. \A z \in Enrolled(q) \ {s} : z \in Enrolled(r) /\ q[z].registration # n
    <2> SUFFICES ASSUME NEW z \in Enrolled(q) \ {s}
                 PROVE  z \in Enrolled(r) /\ q[z].registration # n
      OBVIOUS
    <2>1. z \in Enrolled(r) /\ q[z] = r[z]
      BY <1>3 DEF Enrolled
    <2>2. CASE r[s] # None
      <3>1. s \in Enrolled(r) /\ n = r[s].registration
        BY <2>2 DEF Enrolled, Numbered
      <3>2. QED
        BY <2>1, <3>1 DEF Distinct
    <2>3. CASE r[s] = None
      <3>1. r[z].registration \in Registrations(r)
        BY <2>1 DEF Registrations
      <3>2. n \in 1..MaxRegistration /\ Follows(n, r)
        BY <2>3 DEF Numbered
      <3>3. r[z].registration < n
        BY <3>1, <3>2 DEF Follows
      <3>4. r[z].registration \in Nat
        BY <2>1 DEF Enrolled, Contents, Record
      <3>5. QED
        BY <2>1, <3>2, <3>3, <3>4
    <2>4. QED
      BY <2>2, <2>3
  <1>5. QED
    BY <1>2, <1>3, <1>4 DEF Distinct, Enrolled

\* Taking prints away makes no two registrations equal.
LEMMA RemovedDistinct ==
  ASSUME NEW r \in Contents, Distinct(r), NEW gone
  PROVE  Distinct(Removed(r, gone))
  BY DEF Distinct, Removed, Enrolled, Contents

\* An adapted template leaves the registrations alone.
LEMMA AdaptedDistinct ==
  ASSUME NEW r \in Contents, Distinct(r), NEW s \in Slot, NEW t \in Template, r[s] # None
  PROVE  Distinct(Adapted(r, s, t))
  <1> DEFINE q == Adapted(r, s, t)
  <1>1. \A z \in Slot : z # s => q[z] = r[z]
    BY DEF Adapted, Contents
  <1>2. r[s] \in Record
    BY DEF Contents
  <1>3. q[s].registration = r[s].registration
    BY <1>2 DEF Adapted, Contents, Record
  <1>4. \A z \in Enrolled(q) : z \in Enrolled(r) /\ q[z].registration = r[z].registration
    BY <1>1, <1>3 DEF Enrolled
  <1> HIDE DEF q
  <1>5. Distinct(q)
    BY <1>4 DEF Distinct
  <1>6. QED
    BY <1>5 DEF q

\* No operation makes two registrations equal (insert_or_update, load).
LEMMA ChangedDistinct ==
  ASSUME NEW old \in Contents, Distinct(old), NEW new, Changed(old, new)
  PROVE  Distinct(new)
  BY InsertedDistinct, RemovedDistinct, AdaptedDistinct DEF Changed

\* load() accepts what is typed, not too much and without a registration twice.
LEMMA LoadsParts ==
  ASSUME NEW r
  PROVE  Loads(r) <=> /\ r \in Contents
                      /\ Cardinality(Enrolled(r)) <= MaxRecords
                      /\ Distinct(r)
  BY DEF Loads, Distinct

\* No prints, and no temporary file.
LEMMA EmptyType == Empty \in Contents /\ NoTemp \in [data : Contents, synced : BOOLEAN]
  <1>1. Empty \in Contents
    BY DEF Empty, Contents
  <1>2. QED
    BY <1>1 DEF NoTemp

\* load() accepts an absent file.
LEMMA EmptyLoads == Loads(Empty)
  <1>1. Empty \in Contents
    BY EmptyType
  <1>2. Enrolled(Empty) = {}
    BY DEF Empty, Enrolled
  <1>3. Cardinality(Enrolled(Empty)) = 0
    BY <1>2, FS_EmptySet
  <1>4. QED
    BY <1>1, <1>2, <1>3, RecordsAssumption DEF Loads

-----------------------------------------------------------------------------
(* Every step preserves IInv. *)

\* Before the first start there is no file.
LEMMA InitInv == Init => IInv
  <1> SUFFICES ASSUME Init PROVE IInv
    OBVIOUS
  <1>1. TypeOK
    BY EmptyType DEF Init, TypeOK
  <1>2. FileLoads
    BY EmptyLoads DEF Init, FileLoads
  <1>3. QED
    BY <1>1, <1>2 DEF Init, IInv, SaveInProgress, CountChecked, TempComplete, Committed,
                      DirectoryCurrent, MemoryMatchesFile

\* An operation changes the memory and leaves the file for save().
LEMMA ChangeInv ==
  ASSUME IInv, NEW r, Changed(records, r), Change(r)
  PROVE  IInv'
  <1>1. r \in Contents
    BY ChangedType DEF IInv, TypeOK
  <1>2. TypeOK'
    BY <1>1 DEF IInv, TypeOK, Change, Saving
  <1>3. SaveInProgress'
    BY DEF IInv, MemoryMatchesFile, SaveInProgress, Changed, Change
  <1>4. FileLoads'
    BY DEF IInv, FileLoads, Change
  <1>5. QED
    BY <1>2, <1>3, <1>4 DEF IInv, Change, CountChecked, TempComplete, Committed,
                            DirectoryCurrent, MemoryMatchesFile

\* insert_or_update and verify are such changes, and so are the deletions.
LEMMA EnrollInv ==
  ASSUME IInv, NEW s \in Slot, NEW t \in Template, InsertOrUpdate(s, t) \/ Verify(s, t)
  PROVE  IInv'
  <1>1. CASE InsertOrUpdate(s, t)
    BY <1>1, ChangeInv DEF InsertOrUpdate, Changed
  <1>2. CASE Verify(s, t)
    BY <1>2, ChangeInv DEF Verify, Changed
  <1>3. QED
    BY <1>1, <1>2

\* delete_fingerprint() keeps the invariant.
LEMMA DeleteFingerprintInv ==
  ASSUME IInv, NEW s \in Slot, DeleteFingerprint(s)
  PROVE  IInv'
  BY ChangeInv DEF DeleteFingerprint, Changed

\* delete_fingerprints() keeps the invariant.
LEMMA DeleteAllInv ==
  ASSUME IInv, NEW u \in User, DeleteAll(u)
  PROVE  IInv'
  BY ChangeInv DEF DeleteAll, Changed

\* The temporary file is made, filled and synced beside the old one.
LEMMA TempInv ==
  ASSUME IInv, CreateTemp \/ WriteTemp \/ SyncTemp
  PROVE  IInv'
  <1> USE DEF memory
  <1>1. TypeOK'
    <2>1. temp' \in [data : Contents, synced : BOOLEAN]
      BY EmptyType DEF IInv, TypeOK, CreateTemp, WriteTemp, SyncTemp
    <2>2. QED
      BY <2>1 DEF IInv, TypeOK, CreateTemp, WriteTemp, SyncTemp, Saving
  <1>2. SaveInProgress' /\ Committed'
    BY DEF IInv, SaveInProgress, Changed, Committed, CreateTemp, WriteTemp, SyncTemp
  <1>3. CountChecked'
    BY DEF IInv, CountChecked, CreateTemp, WriteTemp, SyncTemp
  <1>4. TempComplete'
    BY DEF IInv, TypeOK, TempComplete, CreateTemp, WriteTemp, SyncTemp
  <1>5. FileLoads' /\ DirectoryCurrent' /\ MemoryMatchesFile'
    BY DEF IInv, FileLoads, DirectoryCurrent, MemoryMatchesFile, CreateTemp, WriteTemp, SyncTemp
  <1>6. QED
    BY <1>1, <1>2, <1>3, <1>4, <1>5 DEF IInv

\* What the rename puts in place of the file is complete and can be loaded.
LEMMA RenameFile ==
  ASSUME IInv, Rename
  PROVE  /\ file' = records
         /\ disk' = disk \cup {records}
         /\ Loads(records)
         /\ Changed(file, records)
  <1>1. temp.data = records /\ temp.synced
    BY DEF IInv, TempComplete, Rename
  <1>2. Changed(file, records) /\ file = before
    BY DEF IInv, SaveInProgress, Rename
  <1>3. Loads(file)
    BY DEF IInv, FileLoads
  <1>4. Loads(records)
    <2>1. file \in Contents /\ Distinct(file)
      BY <1>3, LoadsParts
    <2>2. Distinct(records)
      BY <1>2, <2>1, ChangedDistinct
    <2>3. Cardinality(Enrolled(records)) <= MaxRecords
      BY DEF IInv, CountChecked, Rename
    <2>4. QED
      BY <2>2, <2>3, LoadsParts DEF IInv, TypeOK
  <1>5. QED
    BY <1>1, <1>2, <1>4 DEF Rename

\* The rename keeps the invariant: the file becomes what was written.
LEMMA RenameInv ==
  ASSUME IInv, Rename
  PROVE  IInv'
  <1> USE DEF memory
  <1>1. TypeOK'
    BY RenameFile, EmptyType DEF IInv, TypeOK, Rename, Saving
  <1>2. FileLoads'
    BY RenameFile DEF IInv, FileLoads
  <1>3. Committed'
    BY RenameFile DEF IInv, SaveInProgress, Committed, Rename
  <1>4. DirectoryCurrent'
    BY RenameFile DEF IInv, DirectoryCurrent, Rename
  <1>5. SaveInProgress' /\ CountChecked' /\ TempComplete' /\ MemoryMatchesFile'
    BY DEF SaveInProgress, CountChecked, TempComplete, MemoryMatchesFile, Rename
  <1>6. QED
    BY <1>1, <1>2, <1>3, <1>4, <1>5 DEF IInv

\* The directory is synced, or known not to be.
LEMMA SyncDirInv ==
  ASSUME IInv, SyncDir
  PROVE  IInv'
  <1>1. TypeOK'
    BY EmptyType DEF IInv, TypeOK, SyncDir, Saving
  <1>2. FileLoads' /\ DirectoryCurrent'
    BY DEF IInv, FileLoads, DirectoryCurrent, SyncDir
  <1>3. MemoryMatchesFile' /\ SaveInProgress' /\ CountChecked' /\ TempComplete' /\ Committed'
    BY DEF IInv, MemoryMatchesFile, SaveInProgress, CountChecked, TempComplete, Committed, SyncDir
  <1>4. QED
    BY <1>1, <1>2, <1>3 DEF IInv

\* A failed save takes the change back.
LEMMA FailInv ==
  ASSUME IInv, Fail
  PROVE  IInv'
  <1>1. TypeOK'
    BY EmptyType DEF IInv, TypeOK, Fail, Saving
  <1>2. FileLoads' /\ DirectoryCurrent'
    BY DEF IInv, FileLoads, DirectoryCurrent, Fail
  <1>3. MemoryMatchesFile' /\ SaveInProgress' /\ CountChecked' /\ TempComplete' /\ Committed'
    BY DEF IInv, MemoryMatchesFile, SaveInProgress, CountChecked, TempComplete, Committed, Fail
  <1>4. QED
    BY <1>1, <1>2, <1>3 DEF IInv

\* load() keeps the invariant.
LEMMA LoadInv ==
  ASSUME IInv, Load
  PROVE  IInv'
  <1>1. TypeOK'
    BY DEF IInv, TypeOK, Load, Loads, Saving
  <1>2. FileLoads' /\ DirectoryCurrent'
    BY DEF IInv, FileLoads, DirectoryCurrent, Load
  <1>3. MemoryMatchesFile' /\ SaveInProgress' /\ CountChecked' /\ TempComplete' /\ Committed'
    BY DEF IInv, MemoryMatchesFile, SaveInProgress, CountChecked, TempComplete, Committed, Load
  <1>4. QED
    BY <1>1, <1>2, <1>3 DEF IInv

\* Whenever the process or the machine dies, a whole file is left.
LEMMA DiesInv ==
  ASSUME IInv, Crash \/ PowerLoss
  PROVE  IInv'
  <1> USE DEF Dies
  <1>1. TypeOK'
    <2>1. unsynced' \in BOOLEAN
      BY DEF Crash, PowerLoss
    <2>2. file' \in Contents \cup {Torn} /\ disk' \in SUBSET (Contents \cup {Torn})
      BY DEF IInv, TypeOK, Crash, PowerLoss
    <2>3. QED
      BY <2>1, <2>2, EmptyType DEF TypeOK, Crash, PowerLoss
  <1>2. FileLoads'
    BY DEF IInv, FileLoads, Crash, PowerLoss
  <1>3. DirectoryCurrent'
    BY DEF IInv, TypeOK, DirectoryCurrent, Saving, Crash, PowerLoss
  <1>4. MemoryMatchesFile' /\ SaveInProgress' /\ CountChecked' /\ TempComplete' /\ Committed'
    BY DEF MemoryMatchesFile, SaveInProgress, CountChecked, TempComplete, Committed, Crash, PowerLoss
  <1>5. QED
    BY <1>1, <1>2, <1>3, <1>4 DEF IInv

\* A step that changes nothing keeps the invariant.
LEMMA StutterInv ==
  ASSUME IInv, UNCHANGED vars
  PROVE  IInv'
  <1> USE DEF vars, memory
  <1>1. TypeOK' /\ FileLoads' /\ DirectoryCurrent'
    BY DEF IInv, TypeOK, FileLoads, DirectoryCurrent
  <1>2. MemoryMatchesFile' /\ SaveInProgress' /\ CountChecked' /\ TempComplete' /\ Committed'
    BY DEF IInv, MemoryMatchesFile, SaveInProgress, Changed, CountChecked, TempComplete, Committed
  <1>3. QED
    BY <1>1, <1>2 DEF IInv

\* One case per operation, per system call of save() and per way to die.
LEMMA NextInv == IInv /\ [Next]_vars => IInv'
  <1> SUFFICES ASSUME IInv, [Next]_vars PROVE IInv'
    OBVIOUS
  <1>1. ASSUME NEW s \in Slot, NEW t \in Template, InsertOrUpdate(s, t) \/ Verify(s, t)
        PROVE  IInv'
    BY <1>1, EnrollInv
  <1>2. ASSUME NEW s \in Slot, DeleteFingerprint(s) PROVE IInv'
    BY <1>2, DeleteFingerprintInv
  <1>3. ASSUME NEW u \in User, DeleteAll(u) PROVE IInv'
    BY <1>3, DeleteAllInv
  <1>4. CASE CreateTemp \/ WriteTemp \/ SyncTemp
    BY <1>4, TempInv
  <1>5. CASE Rename
    BY <1>5, RenameInv
  <1>6. CASE SyncDir
    BY <1>6, SyncDirInv
  <1>7. CASE Fail
    BY <1>7, FailInv
  <1>8. CASE Load
    BY <1>8, LoadInv
  <1>9. CASE Crash \/ PowerLoss
    BY <1>9, DiesInv
  <1>10. CASE UNCHANGED vars
    BY <1>10, StutterInv
  <1>11. QED
    BY <1>1, <1>2, <1>3, <1>4, <1>5, <1>6, <1>7, <1>8, <1>9, <1>10 DEF Next

-----------------------------------------------------------------------------
\* IInv holds in every reachable state (all of fingerprint.cpp's changes).
LEMMA Invariant == Spec => []IInv
  BY InitInv, NextInv, PTL DEF Spec

\* The variables keep their types; in particular every registration handed out
\* is one, none follows the last (insert_or_update).
THEOREM TypeCorrect == Spec => []TypeOK
  BY Invariant, PTL DEF IInv

\* Whatever crash, power loss, failed step or limit came before, load() accepts
\* what a restart finds (save, load).
THEOREM FileLoadsHolds == Spec => []FileLoads
  BY Invariant, PTL DEF IInv

\* Between operations memory and file agree (the return values of save).
THEOREM MemoryMatchesFileHolds == Spec => []MemoryMatchesFile
  BY Invariant, PTL DEF IInv

\* What was reported done survives a power loss, but for an unsynced directory.
THEOREM ReportedIsDurableHolds == Spec => []ReportedIsDurable
  <1>1. IInv => ReportedIsDurable
    BY DEF IInv, DirectoryCurrent, ReportedIsDurable
  <1>2. QED
    BY <1>1, Invariant, PTL

-----------------------------------------------------------------------------
(* PrintStorage implements PrintStore. *)

\* Both modules mean the same by what an operation makes of the records.
LEMMA SameRecords ==
  /\ Store!Empty = Empty
  /\ \A r, s, t : Store!Inserted(r, s, t) = Inserted(r, s, t) /\ Store!Adapted(r, s, t) = Adapted(r, s, t)
  /\ \A r, gone : Store!Removed(r, gone) = Removed(r, gone)
  /\ \A r : Store!Enrolled(r) = Enrolled(r)
  /\ Store!Slot = Slot
  BY DEF Store!Empty, Empty, Store!Slot, Slot, Store!Inserted, Inserted, Store!Numbered, Numbered,
         Store!Follows, Follows, Store!Registrations, Registrations, Store!Enrolled, Enrolled,
         Store!Adapted, Adapted, Store!Removed, Removed

\* The two modules count alike.
LEMMA SameCount == \A S : Store!Cardinality(S) = Cardinality(S)
  BY DEF Store!Cardinality, Cardinality

\* The rename is the operation (rename in save).
LEMMA RenameStores ==
  ASSUME IInv, Rename
  PROVE  Store!Next
  <1>1. Store!Store(records)
    BY RenameFile DEF Store!Store
  <1>2. CASE \E s \in Slot, t \in Template : records \in Inserted(file, s, t)
    <2>1. Cardinality(Enrolled(records)) <= MaxRecords
      BY RenameFile DEF Loads
    <2>2. PICK s \in Slot, t \in Template : records \in Inserted(file, s, t)
      BY <1>2
    <2>3. records \in Store!Inserted(file, s, t) /\ Store!Cardinality(Store!Enrolled(records)) <= MaxRecords
      BY <2>1, <2>2, SameRecords, SameCount
    <2>4. Store!Insert(s, t)
      BY <1>1, <2>3 DEF Store!Insert
    <2>5. QED
      BY <2>4, SameRecords DEF Store!Next
  <1>3. CASE \E s \in Slot : file[s] # None /\ records = Removed(file, {s})
    BY <1>1, <1>3, SameRecords DEF Store!Delete, Store!Next
  <1>4. CASE \E u \in User : records = Removed(file, {u} \X Finger)
    BY <1>1, <1>4, SameRecords DEF Store!DeleteAll, Store!Next
  <1>5. CASE \E s \in Slot, t \in Template : file[s] # None /\ records = Adapted(file, s, t)
    BY <1>1, <1>5, SameRecords DEF Store!Adapt, Store!Next
  <1>6. QED
    BY <1>2, <1>3, <1>4, <1>5, RenameFile DEF Changed

\* Every step of the storage is one of the store or none.
LEMMA StepStores == IInv /\ [Next]_vars => [Store!Next]_<<file, disk>>
  <1> SUFFICES ASSUME IInv, [Next]_vars PROVE [Store!Next]_<<file, disk>>
    OBVIOUS
  <1>1. ASSUME NEW s \in Slot, NEW t \in Template, InsertOrUpdate(s, t) \/ Verify(s, t)
        PROVE  UNCHANGED <<file, disk>>
    BY <1>1 DEF InsertOrUpdate, Verify, Change
  <1>2. ASSUME NEW s \in Slot, DeleteFingerprint(s) PROVE UNCHANGED <<file, disk>>
    BY <1>2 DEF DeleteFingerprint, Change
  <1>3. ASSUME NEW u \in User, DeleteAll(u) PROVE UNCHANGED <<file, disk>>
    BY <1>3 DEF DeleteAll, Change
  <1>4. CASE CreateTemp \/ WriteTemp \/ SyncTemp \/ Fail \/ Load \/ Crash
    BY <1>4 DEF CreateTemp, WriteTemp, SyncTemp, Fail, Load, Crash
  <1>5. CASE Rename
    BY <1>5, RenameStores
  <1>6. CASE SyncDir
    BY <1>6 DEF SyncDir, Store!Next, Store!Settle
  <1>7. CASE PowerLoss
    BY <1>7 DEF PowerLoss, Store!Next, Store!PowerLoss
  <1>8. CASE UNCHANGED vars
    BY <1>8 DEF vars
  <1>9. QED
    BY <1>1, <1>2, <1>3, <1>4, <1>5, <1>6, <1>7, <1>8 DEF Next

\* The storage keeps the promises of PrintStore: changes are whole or not at
\* all, and whole is what a power loss leaves (save).
THEOREM StoreKeptHolds == Spec => StoreKept
  <1>1. Init => Store!Init
    BY SameRecords DEF Init, Store!Init
  <1>2. QED
    BY <1>1, StepStores, Invariant, PTL DEF Spec, StoreKept, Store!Spec
=============================================================================
