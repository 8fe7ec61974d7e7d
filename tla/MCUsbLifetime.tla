--------------------------- MODULE MCUsbLifetime ---------------------------
(* UsbLifetime on model values. *)
EXTENDS UsbLifetime
=============================================================================
