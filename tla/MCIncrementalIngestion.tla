----------------------- MODULE MCIncrementalIngestion -----------------------
(* Values for IncrementalIngestion.                                        *)
EXTENDS IncrementalIngestion
(* Three rows are needed for slices that reach past the present.           *)
Pair == CHOOSE two \in SUBSET Keys : Cardinality(two) = 2
One == CHOOSE one \in SUBSET Keys : Cardinality(one) = 1
Sliced == [keys |-> Keys, lag |-> 0, sliced |-> TRUE, late |-> FALSE, anyDay |-> FALSE]
Lagging == [keys |-> Pair, lag |-> 1, sliced |-> FALSE, late |-> TRUE, anyDay |-> FALSE]
Backfilled == [keys |-> One, lag |-> 0, sliced |-> FALSE, late |-> FALSE, anyDay |-> TRUE]
AllTables == {Sliced, Lagging, Backfilled}
=============================================================================
