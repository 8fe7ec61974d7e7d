---------------------------- MODULE PrintRecords ----------------------------
(* The records of FingerprintStorage and what its operations make of them  *)
(* (fingerprint.cpp, fingerprint.hpp): one enrolled print, at most, for    *)
(* each user and finger. A user without prints and an absent user are the  *)
(* same. The template itself is opaque.                                    *)
EXTENDS Integers, FiniteSets

CONSTANTS
  User, Finger, Template,
  MaxRegistration,   \* UINT32_MAX
  MaxRecords,        \* 1000, the most save() writes and load() reads
  None

Slot   == User \X Finger
Record == [registration : 1..MaxRegistration, template : Template]

ASSUME RecordsAssumption ==
  /\ IsFiniteSet(User) /\ IsFiniteSet(Finger)
  /\ MaxRegistration \in Nat /\ MaxRecords \in Nat
  /\ None \notin Record

Contents   == [Slot -> Record \cup {None}]
Empty      == [s \in Slot |-> None]
Enrolled(r) == {s \in Slot : r[s] # None}

Registrations(r) == {r[s].registration : s \in Enrolled(r)}

\* The number that follows all registrations in use, 1 if there is none.
Follows(n, r) == n - 1 \in Registrations(r) \cup {0} /\ \A m \in Registrations(r) : m < n

\* Variant: numbers by how many there are.
NumberedByCount(r, s) ==
  IF r[s] # None THEN {r[s].registration} ELSE {Cardinality(Enrolled(r)) + 1} \cap 1..MaxRegistration

\* The registration a print for s gets: a finger enrolled again keeps its own, a
\* new one comes after all others, and there is none after the last.
Numbered(r, s) ==
  IF r[s] # None THEN {r[s].registration} ELSE {n \in 1..MaxRegistration : Follows(n, r)}

\* What insert_or_update, the delete operations and a template adapted by
\* verify make of the records.
Inserted(r, s, t) == {[r EXCEPT ![s] = [registration |-> n, template |-> t]] : n \in Numbered(r, s)}
Removed(r, gone)  == [s \in Slot |-> IF s \in gone THEN None ELSE r[s]]
Adapted(r, s, t)  == [r EXCEPT ![s].template = t]

\* What load() accepts: not too many records, no registration twice.
Loads(r) ==
  /\ r \in Contents
  /\ Cardinality(Enrolled(r)) <= MaxRecords
  /\ \A s, z \in Enrolled(r) : r[s].registration = r[z].registration => s = z
=============================================================================
