---------------------------- MODULE MCGen2Engine ----------------------------
(***************************************************************************)
(* Scenarios for Gen2Engine: two instances of a daemon, of which one can   *)
(* lose its link and with it the lease of a device that is then removed,   *)
(* with a device that the driver refuses; and two that are killed while a  *)
(* device leaves the manifest and comes back.                              *)
(***************************************************************************)
EXTENDS Gen2Engine

CONSTANTS a, b

MCIds == {a, b}
MCDevices == {1, 2}
MCMisconfigured == {2}

MCScenarios ==
    { [daemons |-> {a}, devices |-> {1, 2}, edits |-> 3, cuts |-> 2, mishaps |-> 1],
      [daemons |-> {a, b}, devices |-> {1}, edits |-> 3, cuts |-> 2, mishaps |-> 1],
      [daemons |-> {a, b}, devices |-> {1, 2}, edits |-> 2, cuts |-> 0, mishaps |-> 1] }
=============================================================================
