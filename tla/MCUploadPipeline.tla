--------------------------- MODULE MCUploadPipeline ---------------------------
(***************************************************************************)
(* Scenarios for UploadPipeline.  Serial number 10 begins with serial      *)
(* number 1, as p10 does with p1, so the loop of 1 lists the files of both.*)
(* 101 is 1 in upper case, P1: no name begins with it.                     *)
(***************************************************************************)
EXTENDS UploadPipeline, TLC

CONSTANTS good, longer, refused, truncated

MCSerials == {1, 10, 101}
MCLower == (1 :> 1) @@ (10 :> 10) @@ (101 :> 1)
MCPaths == 1 .. 3
MCSerial == <<1, 1, 10>>
MCMatches == (1 :> {1, 2, 3}) @@ (10 :> {3}) @@ (101 :> {})
MCSize == (good :> 1) @@ (longer :> 2) @@ (refused :> 1) @@ (truncated :> 1)

Quiet == [paths |-> {1}, contents |-> {good}, upmus |-> {1}, serials |-> {1},
          rewrites |-> 0, breaks |-> 0, crashes |-> 0, signals |-> 0,
          edits |-> 0, faults |-> 0]

MCScenarios ==
    { [Quiet EXCEPT !.paths = {1, 2}, !.crashes = 1, !.faults = 1],
      [Quiet EXCEPT !.contents = {good, longer}, !.rewrites = 1, !.breaks = 1],
      [Quiet EXCEPT !.paths = {1, 3}, !.upmus = {1, 10}, !.serials = {1, 10},
                    !.crashes = 1],
      [Quiet EXCEPT !.upmus = {101}, !.serials = {1, 101}, !.breaks = 1,
                    !.edits = 1],
      [Quiet EXCEPT !.contents = {refused, truncated}, !.crashes = 1],
      [Quiet EXCEPT !.signals = 1, !.edits = 2] }
===============================================================================
