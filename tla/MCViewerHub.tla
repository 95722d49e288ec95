---------------------------- MODULE MCViewerHub ----------------------------
(* Model values of the runs of ViewerHub; the cfgs give them all. *)
EXTENDS ViewerHub
=============================================================================
