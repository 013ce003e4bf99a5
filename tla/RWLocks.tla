------------------------------- MODULE RWLocks -------------------------------
(***************************************************************************)
(* For TLC: both readers/writers locks in one run.  A behaviour is one of  *)
(* reader-writer.c or one of reader-writer-nostarve.c, which has the       *)
(* semaphore queue.                                                        *)
(***************************************************************************)
EXTENDS RWLockNoStarve

Queued == "queue" \in DOMAIN sem

BothStep ==
    \/ ~Queued /\ Step
    \/ Queued /\ QStep

BothSpec ==
    /\ Init \/ QInit
    /\ [][BothStep \/ Finished]_vars
    /\ WF_vars(BothStep)

=============================================================================
