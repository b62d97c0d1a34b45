----------------------------- MODULE MCWriteModes -----------------------------
(***************************************************************************)
(* Instances of WriteModes for TLC.                                        *)
(***************************************************************************)
EXTENDS WriteModes

CONSTANTS k1, k2, p1, p2

\* NULL keys live in the partition of k2.
HomeOfKeys == [k \in {k1, k2, Null} |-> IF k = k1 THEN p1 ELSE p2]

Contract(mode, feeds) ==
    [mode |-> mode, strategy |-> "delta", partitioned |-> FALSE, value |-> Null,
     ordered |-> FALSE, wide |-> TRUE, feeds |-> feeds]

Anything == {"null", "dup", "move"}

\* Each mode under whatever input it copes with.
SoundPlans ==
    LET upsert   == Contract("scd1_upsert", Anything)
        byPart   == [Contract("scd1_upsert", {"null", "dup"}) EXCEPT !.partitioned = TRUE]
        hashDiff == Contract("scd1_hash_diff", {"move"})
        scd2     == Contract("scd2_historical", {"dup", "move"})
    IN  {Contract("scd0_append", Anything), Contract("scd0_overwrite", Anything),
         [Contract("scd0_overwrite", Anything) EXCEPT !.partitioned = TRUE, !.value = p1],
         upsert, [upsert EXCEPT !.ordered = TRUE],
         [byPart EXCEPT !.strategy = "delta_by_partition"],
         [byPart EXCEPT !.strategy = "replace_partitions"],
         hashDiff, [hashDiff EXCEPT !.wide = FALSE],
         [Contract("scd1_hash_diff", {}) EXCEPT !.partitioned = TRUE],
         Contract("snapshot_soft_delete", Anything),
         scd2, [scd2 EXCEPT !.wide = FALSE], [scd2 EXCEPT !.ordered = TRUE]}

\* SCD2 fed with NULL keys among others.
NullKeyPlans == {Contract("scd2_historical", {"null"})}
=============================================================================
