--------------------------- MODULE MCFeedbackStore ---------------------------
(* A small instance of FeedbackBackends.  The run checks liveness, so writers  *)
(* and commands are not symmetric; with a window of 0, a verdict given again   *)
(* later is new.                                                               *)
EXTENDS FeedbackBackends
=============================================================================
