------------------------------ MODULE MCGstPipe ------------------------------
(* Model-checking instances of GstPipe; every constant is given in the cfg. *)
EXTENDS GstPipe
==============================================================================
