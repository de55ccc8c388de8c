---------------------------- MODULE MCRtspFeeding ----------------------------
(* Model-checking instances of RtspFeeding; the cfgs give every constant. *)
EXTENDS RtspFeeding
==============================================================================
