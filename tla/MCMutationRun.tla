--------------------------- MODULE MCMutationRun ----------------------------
(* Three operations, sent one by one or in requests of two.                *)
EXTENDS MutationRun

ChunkSize == 2      \* zoteroBatchWriteMax, 50 in the code

Base ==
    [changes |-> Ops, deletes |-> {}, invalid |-> {}, destructive |-> {},
     batch |-> FALSE, request |-> [o \in Ops |-> o], apply |-> TRUE, cap |-> 3,
     allowDestructive |-> TRUE, continueOnError |-> FALSE, maxFailures |-> 0,
     hasKey |-> TRUE]

\* chunkStart over the slots of the operations that change something.
Slot(p, o) == Cardinality({q \in p.changes : q < o})
Batched(p) ==
    [p EXCEPT !.batch = TRUE,
              !.request = [o \in Ops |-> Slot(p, o) - (Slot(p, o) % ChunkSize)],
              !.continueOnError = TRUE]

Some == [Base EXCEPT !.changes = {1, 3}]
Purge == [Base EXCEPT !.deletes = {1, 2}, !.destructive = {1, 2}]

MCPlans ==
    {Base, Some, Purge, Batched(Base), Batched(Some),
     [Base EXCEPT !.continueOnError = TRUE],
     [Base EXCEPT !.continueOnError = TRUE, !.maxFailures = 2],
     [Batched(Base) EXCEPT !.maxFailures = 1],
     [Purge EXCEPT !.continueOnError = TRUE],
     [Purge EXCEPT !.allowDestructive = FALSE],
     [Base EXCEPT !.invalid = {2}],
     [Base EXCEPT !.cap = 2],
     [Base EXCEPT !.apply = FALSE],
     [Base EXCEPT !.hasKey = FALSE],
     [Batched(Some) EXCEPT !.hasKey = FALSE]}
=============================================================================
