------------------------------ MODULE MCKernSem ------------------------------
(* KernSem with two or three threads and a semaphore that starts at zero. *)
EXTENDS KernSem

CONSTANTS t1, t2, t3

MCBoot == <<t1, t2, t3>>
MCBoot2 == <<t1, t2>>

=============================================================================
