-------------------------- MODULE MCSchedulerLoop --------------------------
(* Values of the constants of SchedulerLoop for TLC. *)
EXTENDS SchedulerLoop, TLC

CONSTANTS t1, t2, t3

MCRequests == 1..4
(* Against the order of the ids, and with ties that the id breaks. *)
MCArrivalTimes == {[r \in MCRequests |-> 4 - r], [r \in MCRequests |-> r % 2]}

MCSymmetry == Permutations({t1, t2, t3})

=============================================================================
