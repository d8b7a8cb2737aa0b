-------------------------- MODULE MCQueueSessions --------------------------
(* Instances of QueueSessions for TLC: the processes are model values.     *)
EXTENDS QueueSessions, TLC

CONSTANTS s1, s2, r1, r2, nopid
=============================================================================
