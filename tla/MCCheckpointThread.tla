------------------------- MODULE MCCheckpointThread -------------------------
(* TLC instance of CheckpointThread: the main thread and a recording one.  *)
EXTENDS CheckpointThread

CONSTANTS gui, recorder

TwoWriters == {gui, recorder}

=============================================================================
