----------------------------- MODULE MCPmu2btrdb -----------------------------
(***************************************************************************)
(* Scenarios for Pmu2btrdb: three connections, two of them of one uPMU     *)
(* that came back, with clients that wait for each answer, and two with    *)
(* clients that send all they have.                                        *)
(***************************************************************************)
EXTENDS Pmu2btrdb, TLC

CONSTANTS p, q

MCSerial == (1 :> p) @@ (2 :> p) @@ (3 :> q)

Usual == [conns |-> 1 .. 3, window |-> 1, slots |-> 2, bad |-> {},
          breaks |-> 1, crashes |-> 1]

MCScenarios ==
    { Usual,
      [Usual EXCEPT !.bad = {<<1, 0>>, <<1, 1>>, <<3, 1>>}, !.slots = 1, !.breaks = 0],
      [Usual EXCEPT !.conns = {1, 3}, !.window = 2, !.bad = {<<1, 0>>},
                     !.breaks = 0, !.crashes = 0] }
==============================================================================
