---------------------------- MODULE MCWatchFolder ----------------------------
(* WatchFolder on small instances.  *)
EXTENDS WatchFolder
=============================================================================
