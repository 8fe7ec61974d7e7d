--------------------------- MODULE MCDeviceAccess ---------------------------
(* DeviceAccess on model values. *)
EXTENDS DeviceAccess

\* Clients and calls are interchangeable; used by the safety runs only.
Interchangeable == Permutations(Client) \cup Permutations(Call)
=============================================================================
