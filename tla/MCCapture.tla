------------------------------ MODULE MCCapture ------------------------------
(***************************************************************************)
(* V4L2Capture in the hands of any client, or of the program zcv4l2, one   *)
(* per behaviour: subject is chosen at the start.                          *)
(***************************************************************************)
EXTENDS ZcV4l2, CaptureClient

VARIABLE subject

mainVars == <<pc, g_stop, locals>>
mcVars == <<vars, clientVars, subject>>

MCInit == subject \in {"client", "zcv4l2"} /\ Init /\ ClientInit

Program(A) == subject = "zcv4l2" /\ A /\ UNCHANGED <<subject, ready, held>>

MCNext ==
  \/ subject = "client" /\ ClientNext /\ UNCHANGED <<subject, mainVars>>
  \/ Program(Next)

\* The fairness of ZcV4l2; nothing obliges a client to call.
MCSpec == MCInit /\ [][MCNext]_mcVars /\ WF_mcVars(Program(MainStep))
==============================================================================
