---------------------------- MODULE PrintStorage ----------------------------
(***************************************************************************)
(* How FingerprintStorage keeps the prints (fingerprint.cpp): every change *)
(* is made in memory and then saved by writing a whole new file beside the *)
(* old one, syncing it, renaming it over the old one and syncing the       *)
(* directory; a failed save takes the change back. The process may die and *)
(* the power may fail between any two system calls.                        *)
(*                                                                         *)
(* A definition marked "Variant" is the next one with a plausible slip; no *)
(* behaviour uses it, it shows that the properties notice the slip.        *)
(***************************************************************************)
EXTENDS PrintRecords

CONSTANTS
  Torn,      \* the contents of a file whose data did not reach the disk
  MaxBehind  \* bound: versions of the file the directory may lag behind

ASSUME TornAssumption == Torn \notin Contents
ASSUME BehindBound    == MaxBehind \in Nat

VARIABLES
  records,   \* _fingerprints
  before,    \* what the operation under way started from, Empty without one
  loaded,    \* the process runs and init() has succeeded
  pc,        \* the system call that save() makes next
  temp,      \* the temporary file: its contents and whether they are synced
  file,      \* what reading _filename gives (an absent file reads as Empty)
  disk,      \* what reading _filename may give after a power loss
  unsynced   \* history: a rename was left without its directory sync

memory == <<records, before, loaded>>
vars   == <<memory, pc, temp, file, disk, unsynced>>

Saving == {"create", "write", "sync", "rename", "syncdir"}

TypeOK ==
  /\ records \in Contents /\ before \in Contents
  /\ loaded \in BOOLEAN /\ unsynced \in BOOLEAN
  /\ pc \in Saving \cup {"idle"}
  /\ temp \in [data : Contents, synced : BOOLEAN]
  /\ file \in Contents \cup {Torn}
  /\ disk \in SUBSET (Contents \cup {Torn})

NoTemp == [data |-> Empty, synced |-> FALSE]

Init ==
  /\ records = Empty /\ before = Empty /\ loaded = FALSE
  /\ pc = "idle" /\ temp = NoTemp
  /\ file = Empty /\ disk = {Empty} /\ unsynced = FALSE

-----------------------------------------------------------------------------
(* The operations, each up to its call of save(). *)

Change(r) ==
  /\ pc = "idle" /\ loaded
  /\ before' = records /\ records' = r
  /\ pc' = "create"
  /\ UNCHANGED <<loaded, temp, file, disk, unsynced>>

InsertOrUpdate(s, t) == \E r \in Inserted(records, s, t) : Change(r)
DeleteFingerprint(s) == records[s] # None /\ Change(Removed(records, {s}))
DeleteAll(u)         == Change(Removed(records, {u} \X Finger))

\* verify() after a match that changes the template of the print it matched.
Verify(s, t) == records[s] # None /\ Change(Adapted(records, s, t))

-----------------------------------------------------------------------------
(* save() *)

\* The checks, then mkostemp() and fchmod().
CreateTemp ==
  /\ pc = "create"
  /\ Cardinality(Enrolled(records)) <= MaxRecords
  /\ temp' = NoTemp
  /\ pc' = "write"
  /\ UNCHANGED <<memory, file, disk, unsynced>>

\* Variant: renames a file it has not synced.
WriteTempOnly ==
  /\ pc = "write"
  /\ temp' = [temp EXCEPT !.data = records]
  /\ pc' = "rename"
  /\ UNCHANGED <<memory, file, disk, unsynced>>

\* The write() loop, to the last byte.
WriteTemp ==
  /\ pc = "write"
  /\ temp' = [temp EXCEPT !.data = records]
  /\ pc' = "sync"
  /\ UNCHANGED <<memory, file, disk, unsynced>>

\* fsync() and close() of the temporary file.
SyncTemp ==
  /\ pc = "sync"
  /\ temp' = [temp EXCEPT !.synced = TRUE]
  /\ pc' = "rename"
  /\ UNCHANGED <<memory, file, disk, unsynced>>

\* rename(): visible at once, on disk whenever the directory gets there.
Rename ==
  /\ pc = "rename"
  /\ Cardinality(disk) <= MaxBehind
  /\ file' = temp.data
  /\ disk' = disk \cup {IF temp.synced THEN temp.data ELSE Torn}
  /\ temp' = NoTemp
  /\ pc' = "syncdir"
  /\ UNCHANGED <<memory, unsynced>>

\* Variant: takes a failed directory sync for a success.
SyncDirUnasked ==
  /\ pc = "syncdir"
  /\ unsynced' = FALSE
  /\ pc' = "idle" /\ before' = Empty
  /\ UNCHANGED <<records, loaded, temp, file, disk>>

\* fsync() of the directory; a failure is only logged.
SyncDir ==
  /\ pc = "syncdir"
  /\ \/ disk' = {file} /\ unsynced' = FALSE
     \/ unsynced' = TRUE /\ UNCHANGED disk
  /\ pc' = "idle" /\ before' = Empty
  /\ UNCHANGED <<records, loaded, temp, file>>

\* Variant: leaves the change in memory.
FailKeepingChange ==
  /\ pc \in {"create", "write", "sync", "rename"}
  /\ temp' = NoTemp
  /\ pc' = "idle" /\ before' = Empty
  /\ UNCHANGED <<records, loaded, file, disk, unsynced>>

\* A step of save() fails: the temporary file goes, save() returns false and the
\* operation takes its change back.
Fail ==
  /\ pc \in {"create", "write", "sync", "rename"}
  /\ records' = before /\ before' = Empty
  /\ temp' = NoTemp
  /\ pc' = "idle"
  /\ UNCHANGED <<loaded, file, disk, unsynced>>

-----------------------------------------------------------------------------
(* Start and end of the process. *)

\* init() and load(), at the start of each reader session; a file that load()
\* does not accept throws.
Load ==
  /\ pc = "idle"
  /\ Loads(file)
  /\ records' = file /\ loaded' = TRUE
  /\ UNCHANGED <<before, pc, temp, file, disk, unsynced>>

Dies ==
  /\ records' = Empty /\ before' = Empty /\ loaded' = FALSE
  /\ pc' = "idle" /\ temp' = NoTemp

\* The process dies: what it has told the file system stays.
Crash ==
  /\ Dies
  /\ unsynced' = (unsynced \/ pc = "syncdir")
  /\ UNCHANGED <<file, disk>>

\* The machine dies.
PowerLoss ==
  /\ Dies
  /\ file' \in disk /\ disk' = {file'}
  /\ unsynced' = FALSE

Next ==
  \/ \E s \in Slot : DeleteFingerprint(s) \/ \E t \in Template : InsertOrUpdate(s, t) \/ Verify(s, t)
  \/ \E u \in User : DeleteAll(u)
  \/ CreateTemp \/ WriteTemp \/ SyncTemp \/ Rename \/ SyncDir \/ Fail
  \/ Load \/ Crash \/ PowerLoss

Spec == Init /\ [][Next]_vars
-----------------------------------------------------------------------------
(* What makes it correct. *)

\* Whatever a restart may find, load() accepts: no crash, failed step or limit
\* reached on the way leaves a file that locks the user out (save, load).
FileLoads == \A r \in disk \cup {file} : Loads(r)

\* Between operations, what the reader matches against is what is stored: a
\* failed save is taken back in memory, and a committed one never is (comment
\* at the end of save).
MemoryMatchesFile == loaded /\ pc = "idle" => records = file

\* A reported change survives a power loss, unless the directory could not be
\* synced (save).
ReportedIsDurable == pc = "idle" /\ ~unsynced => disk = {file}

\* The storage keeps the promises of PrintStore, a change taking effect at the
\* rename.
Store == INSTANCE PrintStore WITH prints <- file, fallback <- disk
StoreKept == Store!Spec
=============================================================================
