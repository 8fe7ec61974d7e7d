----------------------------- MODULE PrintStore -----------------------------
(* What the print storage promises its callers: the stored prints change by *)
(* whole operations or not at all, and a power loss brings back prints that *)
(* were stored whole, the latest unless their directory entry is not known  *)
(* to have reached the disk.                                                *)
EXTENDS PrintRecords

VARIABLES
  prints,    \* the stored prints
  fallback   \* what may be found after a power loss

Init == prints = Empty /\ fallback = {Empty}

Store(r) == prints' = r /\ fallback' = fallback \cup {r}

Insert(s, t) == \E r \in Inserted(prints, s, t) : Cardinality(Enrolled(r)) <= MaxRecords /\ Store(r)
Delete(s)    == prints[s] # None /\ Store(Removed(prints, {s}))
DeleteAll(u) == Store(Removed(prints, {u} \X Finger))
Adapt(s, t)  == prints[s] # None /\ Store(Adapted(prints, s, t))
Settle       == fallback' = {prints} /\ UNCHANGED prints
PowerLoss    == prints' \in fallback /\ fallback' = {prints'}

Next ==
  \/ \E s \in Slot : Delete(s) \/ \E t \in Template : Insert(s, t) \/ Adapt(s, t)
  \/ \E u \in User : DeleteAll(u)
  \/ Settle
  \/ PowerLoss

Spec == Init /\ [][Next]_<<prints, fallback>>
=============================================================================
