----------------------------- MODULE MCEmmalloc -----------------------------
(* Small instances of Emmalloc for TLC. *)
EXTENDS Emmalloc

CONSTANTS t1, t2

MCThreads1 == {t1}
MCThreads2 == {t1, t2}
MCSymmetry == Permutations(MCThreads2)

\* compute_free_list_bucket agrees with the table that documents it at both
\* ends of every bucket, the smallest and the largest size it may be given.
ASSUME BucketTable ==
    \A i \in 1..63 : /\ compute_free_list_bucket(BucketLow[i]) = i - 1
                     /\ compute_free_list_bucket(BucketLow[i + 1] - 1) = i - 1
=============================================================================
