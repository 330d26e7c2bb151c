---------------------------- MODULE MCThreadCalls ----------------------------
(* ThreadCalls on a small instance: the boot threads and one that is forked. *)
EXTENDS ThreadCalls

CONSTANTS t1, t2, t3

MCBoot == <<t1, t2>>
MCSleepTicks == {1, 2}

=============================================================================
