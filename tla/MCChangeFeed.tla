---------------------------- MODULE MCChangeFeed ----------------------------
EXTENDS ChangeFeed, TLC

CONSTANTS k1, k2

Do(kind) == [kind |-> kind, uses |-> 0, when |-> 0, is |-> "ok", selects |-> FALSE]

\* A web create, whose keys the connector's create uses; all from the trigger.
Triggered == [step |-> <<Do("web"), [Do("connector") EXCEPT !.uses = 1]>>,
              continueOnError |-> FALSE, readsTrigger |-> TRUE]

\* An import; a web create only if it failed; failures do not stop the run.
Fallback == [step |-> <<Do("import"), [Do("web") EXCEPT !.when = 1, !.is = "failed"]>>,
             continueOnError |-> TRUE, readsTrigger |-> FALSE]

\* A step that may select nothing, and one that runs when it has.
Selective == [step |-> <<[Do("plain") EXCEPT !.selects = TRUE],
                         [Do("plain") EXCEPT !.when = 1, !.is = "skipped"]>>,
              continueOnError |-> TRUE, readsTrigger |-> TRUE]

MCSpecs == {Triggered, Fallback, Selective}
MCSteps == 1..2
Symmetry == Permutations({k1, k2})
=============================================================================
