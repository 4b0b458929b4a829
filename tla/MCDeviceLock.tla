---------------------------- MODULE MCDeviceLock ----------------------------
(***************************************************************************)
(* Scenarios for DeviceLock: two daemons and two devices with every kind   *)
(* of failure, three daemons that share enough devices without failures    *)
(* for the balancing test to decline, and a device that leaves the         *)
(* manifest and comes back.                                                *)
(***************************************************************************)
EXTENDS DeviceLock

CONSTANTS a, b, c

MCIds == {a, b, c}
MCDevices == 1 .. 6
MCMalformed == {2}

MCScenarios ==
    { [daemons |-> {a, b}, devices |-> 1 .. 3,
       edits |-> 1, cuts |-> 1, mishaps |-> 2],
      [daemons |-> {a, b, c}, devices |-> 1 .. 6,
       edits |-> 0, cuts |-> 0, mishaps |-> 0],
      [daemons |-> {a, b}, devices |-> {1, 3},
       edits |-> 2, cuts |-> 0, mishaps |-> 1] }
=============================================================================
