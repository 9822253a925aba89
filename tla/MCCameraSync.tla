----------------------------- MODULE MCCameraSync -----------------------------
(* Two cameras; the ANPR service has room for one of them.                   *)
EXTENDS CameraSync, TLC

MCVendor == [c \in Cameras |-> "dahua"]
=============================================================================
