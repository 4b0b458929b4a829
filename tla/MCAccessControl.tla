---------------------------- MODULE MCAccessControl ----------------------------
(***************************************************************************)
(* Scenarios for AccessControl: keys that are reset, read and used while   *)
(* users are removed and made again; a user and a group that two           *)
(* administrators edit; the public group and what the frontend keeps.      *)
(***************************************************************************)
EXTENDS AccessControl, TLC

CONSTANTS ann, bob, staff, pub, k1, k2, k3, a1, a2, c1, c2, root, feeder, rd, pw1, pw2

UsersMC    == {ann, bob}
GroupsMC   == {staff, pub}
KeysMC     == {k1, k2, k3}
AdminsMC   == {a1, a2}
CallsMC    == {c1, c2}
PrefixesMC == {root, feeder}
CapsMC     == {rd}
PwMC       == {pw1, pw2}

Cmd(kind, on, arg) == [kind |-> kind, on |-> on, arg |-> arg]

Ann   == [groups |-> {}, password |-> pw1]
Staff == [prefixes |-> {}, caps |-> {rd}]
NoOne == [n \in UsersMC \cup GroupsMC |-> None]

Keying  == {Cmd("resetKey", ann, None), Cmd("getKey", ann, None)}
Hiring  == {Cmd("createUser", ann, pw2), Cmd("deleteUser", ann, None)}
OfUser  == {Cmd("setPassword", ann, pw2), Cmd("joinGroup", ann, staff),
            Cmd("leaveGroup", ann, staff)}
OfStaff == {Cmd("addGroup", staff, None), Cmd("deleteGroup", staff, None),
            Cmd("addPrefix", staff, feeder), Cmd("removePrefix", staff, feeder),
            Cmd("addCap", staff, rd), Cmd("removeCap", staff, rd)}
OfPublic == {Cmd("deleteGroup", pub, None), Cmd("removePrefix", pub, root)}

Resets == [db |-> [NoOne EXCEPT ![ann] = Ann], commands |-> Keying, calls |-> {},
           edits |-> 3, faults |-> 0]
Broken == [Resets EXCEPT !.commands = @ \cup {Cmd("resetKey", bob, None)},
                         !.edits = 2, !.faults = 1]
Editing == [db |-> [NoOne EXCEPT ![ann] = Ann, ![staff] = Staff],
           commands |-> Hiring \cup OfUser \cup OfStaff, calls |-> {},
           edits |-> 3, faults |-> 1]
Replaced == [Resets EXCEPT !.edits = 2, !.calls = CallsMC]
Rehired  == [Resets EXCEPT !.commands = Hiring \cup {Cmd("getKey", ann, None)}, !.calls = {c1}]
Moved    == [db |-> [NoOne EXCEPT ![ann] = [Ann EXCEPT !.groups = {staff}],
                                  ![staff] = Staff],
             commands |-> {Cmd("getKey", ann, None), Cmd("leaveGroup", ann, staff),
                           Cmd("addPrefix", staff, feeder)} \cup OfPublic,
             calls |-> CallsMC, edits |-> 2, faults |-> 1]

Scenarios_MC == {Resets, Broken, Editing, Replaced, Rehired, Moved}

Symmetry_MC == Permutations(KeysMC) \cup Permutations(AdminsMC) \cup Permutations(CallsMC)
=============================================================================
