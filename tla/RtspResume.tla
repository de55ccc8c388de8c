----------------------------- MODULE RtspResume ------------------------------
(***************************************************************************)
(* The feeding of media with a record of its back-pressure gaps: which     *)
(* frames were skipped because the appsrc had said enough-data.  The two   *)
(* history variables only observe the steps of RtspFeeding; no step is     *)
(* added, removed or restricted.                                           *)
(***************************************************************************)
EXTENDS RtspFeeding

VARIABLES
  enough,   \* the gate is shut, and an enough-data was the last to shut it
  gap       \* delta frames were skipped while it was, and nothing was fed since

resumeVars == <<vars, enough, gap>>

\* The appsrc takes the feeder's buffer, and emits enough-data when it is full.
Accepts == feeder = "push" /\ feeder' = "check" /\ media[src] = "live"

\* feeder_loop leaves out a delta frame at the shut gate.
Skips == feeder = "gate" /\ feeder' = "check"

\* Gaps count once on_media_configure has returned: while it runs the gate may be
\* shut for a media that was never full.
Observe ==
  /\ enough' = ((enough \/ (Accepts /\ AppsrcFull)) /\ ~feeding_')
  /\ gap' = (((gap /\ ~Accepts) \/ (Skips /\ enough)) /\ configuring' = NoMedia)

ResumeInit == Init /\ enough = FALSE /\ gap = FALSE

ResumeNext == Next /\ Observe

ResumeSpec == ResumeInit /\ [][ResumeNext]_resumeVars

\* What the comment in feeder_loop and the README say of back-pressure: when delta
\* frames were skipped after an enough-data, the next buffer the appsrc gets is a
\* keyframe, so that the client can decode from it.
ResumesAtKeyframe == [][gap /\ Accepts => item.key]_resumeVars
==============================================================================
