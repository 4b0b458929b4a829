------------------------------- MODULE MCImport -------------------------------
(***************************************************************************)
(* Scenarios for Import: two files that share a key, imported for the      *)
(* first time, continued or erased, failing up to twice; a file without    *)
(* streams; and a key that two streams match.                              *)
(***************************************************************************)
EXTENDS Import

CONSTANTS k1, k2, w1, w2, w3

MCKeys == {k1, k2}
MCWorkers == {w1, w2, w3}

It(n, key, chunks) == [n |-> n, key |-> key, chunks |-> chunks]
First    == [continue |-> FALSE, erase |-> FALSE]
Continue == [continue |-> TRUE, erase |-> FALSE]
Erase    == [continue |-> TRUE, erase |-> TRUE]

MCScenarios ==
    { [files |-> <<{It(1, k1, 2), It(2, k2, 1)}, {It(3, k1, 1)}>>, before |-> <<>>,
       options |-> {First, Continue, Erase}, reruns |-> 1],
      [files |-> <<{It(1, k1, 1)}, {It(2, k1, 1)}, {}, {It(3, k2, 1)}>>, before |-> <<k1>>,
       options |-> {First, Continue, Erase}, reruns |-> 1],
      [files |-> <<{It(1, k1, 0), It(2, k2, 1)}>>, before |-> <<k1, k2, k2>>,
       options |-> {Continue, Erase}, reruns |-> 1] }
=============================================================================
