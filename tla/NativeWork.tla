----------------------------- MODULE NativeWork -----------------------------
(***************************************************************************)
(* The algorithms of the native code on given inputs: `work` is at first   *)
(* the kind of input and the share of the inputs to go through, and a step *)
(* takes one input. What an algorithm makes of it is what the invariants   *)
(* of the modules with inputs say.                                         *)
(***************************************************************************)
EXTENDS Integers

VARIABLE work

ToTake(kinds) == [of : kinds, share : 0 .. 3]

Is(k)     == work.of = k /\ "share" \notin DOMAIN work
Take(k)   == work.of = k /\ "share" \in DOMAIN work
Shared(i) == i % 4 = work.share
=============================================================================
