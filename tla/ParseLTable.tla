----------------------------- MODULE ParseLTable -----------------------------
(***************************************************************************)
(* parseLTable, one action per iteration of its loop, over every lock      *)
(* table and every iteration order of the Go map, followed by the test the *)
(* devloop makes of the result.                                            *)
(***************************************************************************)
EXTENDS LTable

CONSTANTS Nodes,      \* the ids of the instances in the lock table
          MaxLocks    \* the most devices one instance has locked

ASSUME NodesAssumption == IsFiniteSet(Nodes)
ASSUME MaxLocksAssumption == MaxLocks \in Nat \ {0}

VARIABLES count,      \* the lock table: how many devices each node has locked
          ourid,      \* the instance that parses it; not always in the table
          seen,       \* the entries visited so far
          acc,        \* the locals min and min2
          us,         \* the local us
          verdict     \* what the devloop does with the result

loopVars == <<count, ourid, seen, acc, us, verdict>>

LoopTypeOK ==
    /\ \E S \in SUBSET Nodes : count \in [S -> 1 .. MaxLocks]
    /\ ourid \in Nodes
    /\ seen \subseteq DOMAIN count
    /\ acc \in [min : -1 .. MaxLocks, min2 : -1 .. MaxLocks]
    /\ us \in 0 .. MaxLocks
    /\ verdict \in {"parsing", "declines", "proceeds"}

LoopInit ==
    /\ \E S \in SUBSET Nodes : count \in [S -> 1 .. MaxLocks]
    /\ ourid \in Nodes
    /\ seen = {}
    /\ acc = NoMin
    /\ us = 0
    /\ verdict = "parsing"

\* Mutant: min2 follows every entry that is not the smallest.
IterateLastAsMin2(k) ==
    /\ verdict = "parsing"
    /\ k \in DOMAIN count \ seen
    /\ acc' = IF acc.min = -1 \/ count[k] <= acc.min
              THEN [min |-> count[k], min2 |-> count[k]]
              ELSE acc
    /\ us' = IF k = ourid THEN count[k] ELSE us
    /\ seen' = seen \cup {k}
    /\ UNCHANGED <<count, ourid, verdict>>

Iterate(k) ==
    /\ verdict = "parsing"
    /\ k \in DOMAIN count \ seen
    /\ acc' = Visit(acc, count[k])
    /\ us' = IF k = ourid THEN count[k] ELSE us
    /\ seen' = seen \cup {k}
    /\ UNCHANGED <<count, ourid, verdict>>

Decide ==
    /\ verdict = "parsing"
    /\ seen = DOMAIN count
    /\ verdict' = IF Declines(us, acc) THEN "declines" ELSE "proceeds"
    /\ UNCHANGED <<count, ourid, seen, acc, us>>

LoopNext == (\E k \in DOMAIN count : Iterate(k)) \/ Decide

LoopSpec == LoopInit /\ [][LoopNext]_loopVars

-----------------------------------------------------------------------------
Load(n) == IF n \in DOMAIN count THEN count[n] ELSE 0

(* An instance that declines a device leaves it to somebody else: two other
   instances each have strictly fewer devices, so the daemons cannot all
   decline and the device is not left waiting for ever. *)
DeclinesOnlyForTwoOthers ==
    verdict = "declines" =>
        \E m, n \in Nodes \ {ourid} :
            /\ m # n
            /\ Load(m) < Load(ourid)
            /\ Load(n) < Load(ourid)
==============================================================================
