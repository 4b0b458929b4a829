--------------------------- MODULE MCGen2Inserter ---------------------------
(***************************************************************************)
(* Scenarios for Gen2Inserter.  Keys 1 and 2 are one collection and name   *)
(* with two units.  There is room for two records of one point.            *)
(***************************************************************************)
EXTENDS Gen2Inserter

MCName == <<"x", "x", "y">>

Point(id, key) == [id |-> id, key |-> key, points |-> 1, annotated |-> FALSE]
Empty(id, key) == [id |-> id, key |-> key, points |-> 0, annotated |-> FALSE]
Annotated(id, key) == [id |-> id, key |-> key, points |-> 1, annotated |-> TRUE]

Quiet == [offers |-> << <<>>, <<>> >>, crashes |-> 0, edits |-> 0, faults |-> 0]

MCScenarios ==
    { \* More than there is room for, in batches.
      [Quiet EXCEPT !.offers = << << <<Point(1, 1), Point(2, 3)>> >>,
                                  << <<Point(3, 2), Point(4, 3)>>, <<Empty(5, 2)>> >> >>],
      \* Annotations of one stream from two devices, and from elsewhere.
      [Quiet EXCEPT !.offers = << << <<Annotated(1, 1)>>, <<Annotated(2, 1)>>, <<Point(3, 1)>> >>,
                                  << <<Annotated(4, 2)>> >> >>,
                    !.edits = 1, !.faults = 1],
      \* A restart.
      [Quiet EXCEPT !.offers = << << <<Annotated(1, 1), Point(2, 1)>> >>,
                                  << <<Point(3, 2)>>, <<Point(4, 2)>> >> >>,
                    !.crashes = 1] }
=============================================================================
