--------------------------- MODULE MCRodinWatcher ---------------------------
(* The instance of RodinWatcher for TLC.  Its run checks liveness, so the    *)
(* interchangeable starts and directories are told apart all the same.       *)
EXTENDS RodinWatcher
=============================================================================
