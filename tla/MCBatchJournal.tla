---------------------------- MODULE MCBatchJournal ----------------------------
(* BatchJournal on small instances.  *)
EXTENDS BatchJournal, TLC

CONSTANTS a, b

TwoItems == {a, b}
AnyItem == Permutations(Items)
Resume(recipe, force) == [recipe |-> recipe, force |-> force, resume |-> TRUE]

(* Runs with and without force, with one of two recipes, with and without  *)
(* a journal.                                                              *)
MixedRuns == {Resume(1, FALSE), Resume(2, TRUE),
              [recipe |-> 1, force |-> FALSE, resume |-> FALSE]}

(* The same batch, started again and again.                                *)
SameRun == {Resume(1, FALSE)}
=============================================================================
