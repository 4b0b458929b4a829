---------------------------- MODULE ExclusiveLock ----------------------------
(***************************************************************************)
(* What the lock keys of a manifest promise, for any kind of ingress       *)
(* daemon: a resource has one holder at most, and changes hands only by    *)
(* being free in between.                                                  *)
(***************************************************************************)
CONSTANTS Clients, Resources, Free

VARIABLE holder

Init == holder = [r \in Resources |-> Free]

Take(c, r) ==
    /\ holder[r] = Free
    /\ holder' = [holder EXCEPT ![r] = c]

Release(r) == holder' = [holder EXCEPT ![r] = Free]

Next == \E r \in Resources : Release(r) \/ \E c \in Clients : Take(c, r)

Spec == Init /\ [][Next]_holder
==============================================================================
