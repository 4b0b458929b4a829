------------------------------ MODULE MCBackup ------------------------------
(***************************************************************************)
(* Scenarios for Backup.  Objects 1 and 2 are files, object 3 is a list.    *)
(* One object fits into a channel.                                         *)
(***************************************************************************)
EXTENDS Backup

File(data) == [data |-> data, attrs |-> {}]
List3(names) == [data |-> Empty, attrs |-> names]

MCValues == << {File("x"), File("y")}, {File("x"), File("z")},
               {List3({}), List3({"a"}), List3({"a", "b"})} >>

Quiet == [objects |-> <<File("x"), File("z"), List3({"a"})>>,
          changes |-> 0, removals |-> 0, crashes |-> 0, listerrors |-> 0]

MCScenarios ==
    { \* The list changes, and files come and go.
      [Quiet EXCEPT !.objects[1] = None, !.objects[2] = None, !.changes = 2,
                    !.removals = 1],
      \* One file comes after the start.
      [Quiet EXCEPT !.objects = <<File("x"), None, None>>, !.changes = 2, !.crashes = 1],
      \* The listing fails.
      [Quiet EXCEPT !.changes = 1, !.listerrors = 1] }

QuietScenarios == {Quiet}
=============================================================================
