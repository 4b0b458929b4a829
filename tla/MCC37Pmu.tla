------------------------------- MODULE MCC37Pmu -------------------------------
(***************************************************************************)
(* Scenarios for C37Pmu: a device that is lost, changes its configuration  *)
(* and overflows its queue; damaged frames, configurations among them,     *)
(* inserts that fail and frames to be dropped; the end of the process; two *)
(* id codes on one connection; and bytes that are no frame on a connection *)
(* that holds.                                                             *)
(***************************************************************************)
EXTENDS C37Pmu

Quiet == [ids |-> {1}, frames |-> 0, flags |-> 0, drops |-> 0, corrupt |-> 0,
          junk |-> 0, reconfigs |-> 0, faults |-> 0, crashes |-> 0]

MCScenarios ==
    { [Quiet EXCEPT !.frames = 5, !.drops = 1, !.reconfigs = 1],
      [Quiet EXCEPT !.frames = 3, !.drops = 1, !.reconfigs = 1, !.corrupt = 1],
      [Quiet EXCEPT !.frames = 4, !.flags = 1, !.faults = 1],
      [Quiet EXCEPT !.frames = 3, !.corrupt = 1, !.junk = 1],
      [Quiet EXCEPT !.frames = 3, !.flags = 1, !.reconfigs = 1, !.crashes = 1],
      [Quiet EXCEPT !.ids = {1, 2}, !.frames = 4] }

\* The device goes away after some bytes that are no frame.
JunkAndDrop == { [Quiet EXCEPT !.frames = 1, !.drops = 1, !.junk = 1] }
===============================================================================
