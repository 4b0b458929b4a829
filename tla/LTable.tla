------------------------------- MODULE LTable -------------------------------
(***************************************************************************)
(* The load-balancing arithmetic of the two ingress daemons: what          *)
(* parseLTable makes of the lock table that GetLockTable read from etcd.   *)
(* The table is a Go map from an instance id to the devices it has locked; *)
(* an instance with no lock is not in it, and Go visits the entries of a   *)
(* map in an order it does not define.  Only the number of devices of an   *)
(* entry matters here, so a table is a function from ids to positive       *)
(* naturals.                                                               *)
(***************************************************************************)
EXTENDS Integers, FiniteSets, Sequences

\* The accumulator of the loop: -1 stands for "no entry seen yet".
NoMin == [min |-> -1, min2 |-> -1]

\* One iteration of the loop, for an entry with n devices.  min2 is the
\* previous value of min, not the second smallest of the entries seen so far.
Visit(acc, n) ==
    IF n <= acc.min \/ acc.min = -1
    THEN [min |-> n, min2 |-> acc.min]
    ELSE acc

\* The orders in which Go may range over a map with these keys.
Orders(keys) ==
    { order \in [1 .. Cardinality(keys) -> keys] :
        \A x, y \in DOMAIN order : order[x] = order[y] => x = y }

\* min and min2 after the loop has visited the entries in this order.
MinPair(order, count) ==
    LET after[n \in 0 .. Len(order)] ==
            IF n = 0 THEN NoMin ELSE Visit(after[n - 1], count[order[n]])
    IN  after[Len(order)]

\* Mutant: an instance with as many devices as min2 declines too.
DeclinesAtLeast(us, acc) == us >= acc.min2 /\ acc.min2 # -1

\* The test with which the devloop declines to take on another device.
Declines(us, acc) == us > acc.min2 /\ acc.min2 # -1
=============================================================================
