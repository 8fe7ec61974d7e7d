-------------------------- MODULE MCCaptureSession --------------------------
(* CaptureSession on model values. *)
EXTENDS CaptureSession, TLC

\* Operations are interchangeable; used by the safety runs only.
Interchangeable == Permutations(Op)

\* Generations are only ever compared for equality, with the current one or
\* with that of a live operation, so their absolute values do not matter.
Age(g) == IF g = Gen THEN {} ELSE {o \in Op : Live(o) /\ scan[o].gen = g} \cup {None}
Aged(items) == [i \in DOMAIN items |-> <<items[i].type, items[i].latched, Age(items[i].gen)>>]
Relative ==
  << [storage EXCEPT !.capture_generation = 0],
     [o \in Op |-> <<scan[o].pc, IF Live(o) THEN Age(scan[o].gen) ELSE {}, Aged(scan[o].got)>>],
     task,
     [ctl EXCEPT !.gen = 0], IF ctl.active THEN Age(ctl.gen) ELSE {},
     events,
     Aged(images),
     reader, used, silent >>
=============================================================================
