--------------------------- MODULE MCDurableTasks ---------------------------
(* Two tasks of two kinds, two replicas; the old replica of a rolling deploy *)
(* knows only the first kind and leaves.                                     *)
EXTENDS DurableTasks, TLC

CONSTANTS t1, t2, old, new

MCKindOf      == [t \in Tasks |-> IF t = t1 THEN "reindex" ELSE "notify"]
MCKnown       == old :> {"reindex"} @@ new :> {"reindex", "notify"}
MCMaxAttempts == "reindex" :> 2 @@ "notify" :> 1
MCLeaseMs     == "reindex" :> 0 @@ "notify" :> 1
MCBackoffMs   == "reindex" :> 0 @@ "notify" :> 0
=============================================================================
