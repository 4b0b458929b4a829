------------------------- MODULE AccessControl_proofs -------------------------
(***************************************************************************)
(* Proofs about AccessControl.  The invariant is the conjunction of the    *)
(* types, of what the local state of a command and of a call says, and of  *)
(* one part for each property.                                             *)
(***************************************************************************)
EXTENDS AccessControl, TLAPS

Steps == {"idle", "group", "read", "write", "get", "reset", "rmk", "rmu", "setu", "setk"}

Op == [pc : Steps, cmd : Command \cup {None},
       copy : UserRec \cup GroupRec \cup {None}, key : Keys \cup {None}]

Call == [pc : {"idle", "key", "user", "groups"}, key : Keys \cup {Public, None},
         name : Users \cup {Public, None}, full : [Groups -> GroupRec \cup {None}],
         todo : SUBSET Groups, age : 0 .. FillTime]

\* What a command that has read a record of n can have read.
CopyOf(n) == IF n \in Users THEN UserRec ELSE GroupRec

\* The locals of a command.
OpShape ==
    \A a \in Admins :
        /\ op[a].pc # "idle" => op[a].cmd \in Command
        /\ op[a].pc = "group" => op[a].cmd.kind = "joinGroup"
        /\ op[a].pc \in {"read", "write"} => op[a].cmd \in Edits
        /\ op[a].pc \notin {"idle", "group", "read", "write"} => op[a].cmd \in KeyCommands
        /\ op[a].pc = "read" => op[a].cmd.kind # "addGroup"
        /\ op[a].pc = "write" =>
              CASE op[a].cmd.kind = "createUser" -> op[a].copy = None
                [] op[a].cmd.kind \in Blind -> TRUE
                [] OTHER -> op[a].copy \in CopyOf(op[a].cmd.on)
        /\ op[a].pc \in {"rmk", "setk"} => op[a].key # None

\* The locals of a call.
CallShape ==
    \A c \in Calls :
        /\ call[c].pc # "idle" => call[c].key # None
        /\ call[c].pc \in {"key", "user"} => call[c].key # Public /\ call[c].full = NoGroups
        /\ call[c].pc = "user" => call[c].name \in Users
        /\ call[c].pc = "groups" => call[c].name # None

\* Unless two commands were at a record at the same time, whoever is about to
\* put back a copy has the record as it is.
CopyIsCurrent ==
    \A a \in Admins :
        op[a].pc = "write" /\ op[a].cmd.kind \notin Blind
        /\ op[a].cmd.on \notin overlapped
        => op[a].copy = GetRecord(op[a].cmd.on)

\* Every key was made for one user, and is only ever that user's.
KeysAreOwned ==
    /\ \A u \in Users : userKey[u] # None => owner[userKey[u]] = u
    /\ \A k \in Keys : keyUser[k] # None => owner[k] = keyUser[k]
    /\ \A a \in Admins : op[a].pc \in {"rmk", "rmu", "setk"} /\ op[a].key # None
                         => owner[op[a].key] = op[a].cmd.on

\* A user's key that does not work will, or will be replaced.
KeyIsFound ==
    \A u \in Users \ broken :
        userKey[u] # None =>
            \/ keyUser[userKey[u]] = u
            \/ \E a \in Admins : op[a].pc \in {"rmu", "setk"} /\ op[a].key = userKey[u]

\* What a reset that nothing disturbs has done so far.
OneReset ==
    \A u \in Users \ (broken \cup raced) :
        /\ \A a, b \in Admins : Resetting(a, u) /\ Resetting(b, u) => a = b
        /\ \A k \in Keys : keyUser[k] = u => userKey[u] = k
        /\ \A a \in Admins : Resetting(a, u) =>
              /\ op[a].pc \in {"rmk", "setk"} => op[a].key = userKey[u]
              /\ op[a].pc # "rmk" => \A k \in Keys : keyUser[k] # u

\* What a call has read so far is still so.
Current(c) ==
    /\ call[c].pc = "user" => keyUser[call[c].key] = call[c].name
    /\ call[c].pc = "groups" =>
          /\ IF call[c].key = Public THEN call[c].name = Public
             ELSE /\ keyUser[call[c].key] = call[c].name
                  /\ call[c].name \in Users
                  /\ db[call[c].name] # None
          /\ call[c].todo \subseteq GroupsOf(call[c].name)
          /\ \A g \in Groups :
                call[c].full[g] = IF g \in GroupsOf(call[c].name) \ call[c].todo
                                  THEN GetRecord(g) ELSE None

CallsAreCurrent == \A c \in Calls : quiet > call[c].age => Current(c)

\* An entry that is not what etcd says will have expired in time.
CacheIsCurrent ==
    \A key \in Keys \cup {Public} :
        cache[key].left > 0 =>
            cache[key].user = UserOf(key) \/ quiet + cache[key].left <= Settled

KeyInv   == KeysAreOwned /\ KeyIsFound /\ OneReset
EditInv  == CopyIsCurrent /\ EditsHold
CacheInv == CallsAreCurrent /\ CacheIsCurrent
Shape    == TypeOK /\ OpShape /\ CallShape
IInv     == Shape /\ KeyInv /\ EditInv /\ CacheInv

USE DEF FillTime, Settled

-----------------------------------------------------------------------------
(* Types and shapes. *)

LEMMA CommandKinds ==
    /\ \A cmd \in Edits : cmd.kind \notin {"getKey", "resetKey"}
    /\ \A cmd \in KeyCommands : cmd.kind \in {"getKey", "resetKey"} /\ cmd.on \in Users
    /\ \A cmd \in Command : cmd \in Edits \/ cmd \in KeyCommands
    /\ \A cmd \in Command : cmd.on \in Names
    /\ \A cmd \in Command : cmd.kind = "joinGroup" => cmd \in Edits /\ cmd.arg \in Groups
    /\ \A cmd \in Command : cmd.kind = "addGroup" => cmd \in Edits
BY DEF Edits, KeyCommands, Command, Names

LEMMA UsedIsTyped ==
    ASSUME TypeOK, NEW kind \in {"edits", "faults"}, Use(kind)
    PROVE  used' \in [edits : Nat, faults : Nat]
<1>1. used \in [edits : Nat, faults : Nat]
  BY DEF TypeOK
<1>2. QED
  BY <1>1 DEF Use

LEMMA RecordsAreTyped ==
    ASSUME NEW f \in Records, NEW n \in Names
    PROVE  /\ f[n] \in UserRec \cup GroupRec \cup {None}
           /\ n \in Users => f[n] \in UserRec \cup {None}
           /\ n \in Groups => f[n] \in GroupRec \cup {None}
           /\ GetFrom(f, n) \in CopyOf(n) \cup {None}
           /\ GetFrom(f, Public) \in GroupRec
<1>1. AllCaps \in GroupRec
  BY RootAssumption DEF AllCaps, GroupRec
<1>2. QED
  BY PublicAssumption, <1>1 DEF Records, GetFrom, Names, CopyOf

LEMMA RecordsExcept ==
    ASSUME NEW f \in Records, NEW n \in Names, NEW r \in CopyOf(n) \cup {None}
    PROVE  [f EXCEPT ![n] = r] \in Records
BY PublicAssumption DEF Records, CopyOf, Names

\* What is put back has the form of what was read.
LEMMA EditedIsTyped ==
    ASSUME NEW cmd \in Edits, NEW rec,
           cmd.kind \in Blind \cup {"createUser"} \/ rec \in CopyOf(cmd.on)
    PROVE  Edited(cmd, rec) \in CopyOf(cmd.on) \cup {None}
<1>1. CASE cmd.kind \in {"createUser"}
  BY <1>1 DEF Edits, Edited, CopyOf, UserRec
<1>2. CASE cmd.kind \in {"setPassword", "joinGroup", "leaveGroup"}
  <2>1. rec \in UserRec /\ cmd.on \in Users
    BY <1>2 DEF Edits, CopyOf, Blind
  <2>2. cmd.kind = "setPassword" => [rec EXCEPT !.password = cmd.arg] \in UserRec
    BY <2>1 DEF Edits, UserRec
  <2>3. cmd.kind = "joinGroup" => [rec EXCEPT !.groups = @ \cup {cmd.arg}] \in UserRec
    BY <2>1 DEF Edits, UserRec
  <2>4. cmd.kind = "leaveGroup" => [rec EXCEPT !.groups = @ \ {cmd.arg}] \in UserRec
    BY <2>1 DEF Edits, UserRec
  <2>5. QED
    BY <1>2, <2>1, <2>2, <2>3, <2>4 DEF Edited, CopyOf
<1>3. CASE cmd.kind \in Blind
  BY PublicAssumption, <1>3 DEF Edits, Edited, CopyOf, GroupRec, Blind
<1>4. CASE cmd.kind \in {"addPrefix", "removePrefix", "addCap", "removeCap"}
  <2>1. rec \in GroupRec /\ cmd.on \notin Users
    BY PublicAssumption, <1>4 DEF Edits, CopyOf, Blind
  <2>2. cmd.kind = "addPrefix" => [rec EXCEPT !.prefixes = @ \cup {cmd.arg}] \in GroupRec
    BY <2>1 DEF Edits, GroupRec
  <2>3. cmd.kind = "removePrefix" => [rec EXCEPT !.prefixes = @ \ {cmd.arg}] \in GroupRec
    BY <2>1 DEF Edits, GroupRec
  <2>4. cmd.kind = "addCap" => [rec EXCEPT !.caps = @ \cup {cmd.arg}] \in GroupRec
    BY <2>1 DEF Edits, GroupRec
  <2>5. cmd.kind = "removeCap" => [rec EXCEPT !.caps = @ \ {cmd.arg}] \in GroupRec
    BY <2>1 DEF Edits, GroupRec
  <2>6. QED
    BY <1>4, <2>1, <2>2, <2>3, <2>4, <2>5 DEF Edited, CopyOf
<1>5. QED
  BY <1>1, <1>2, <1>3, <1>4 DEF Edits, Blind

LEMMA InitShape == Init => Shape
<1> SUFFICES ASSUME Init PROVE Shape
  OBVIOUS
<1>1. bounds \in Scenario
  BY ScenariosAssumption DEF Init
<1>2. db \in Records /\ meant \in Records
  BY <1>1 DEF Init, Scenario
<1>3. NoOp \in Op /\ NoCall \in Call
  BY DEF NoOp, NoCall, Op, Call, Steps, NoGroups
<1>4. NoEntry \in [user : User \cup {None}, left : 0 .. CacheTime]
  BY CacheTimeAssumption DEF NoEntry
<1>5. TypeOK
  BY CacheTimeAssumption, <1>1, <1>2, <1>3, <1>4
     DEF Init, TypeOK, Op, Call, Steps, NoKeyOf, NoUserOf
<1>6. OpShape /\ CallShape
  BY DEF Init, OpShape, CallShape, NoOp, NoCall
<1>7. QED
  BY <1>5, <1>6 DEF Shape

\* A command's step leaves the other commands alone.
LEMMA OpStep ==
    ASSUME TypeOK, OpShape, NEW a \in Admins, NEW o \in Op,
           op' = [op EXCEPT ![a] = o],
           o.pc # "idle" => o.cmd \in Command,
           o.pc = "group" => o.cmd.kind = "joinGroup",
           o.pc \in {"read", "write"} => o.cmd \in Edits,
           o.pc \notin {"idle", "group", "read", "write"} => o.cmd \in KeyCommands,
           o.pc = "read" => o.cmd.kind # "addGroup",
           o.pc = "write" => CASE o.cmd.kind = "createUser" -> o.copy = None
                               [] o.cmd.kind \in Blind -> TRUE
                               [] OTHER -> o.copy \in CopyOf(o.cmd.on),
           o.pc \in {"rmk", "setk"} => o.key # None
    PROVE  op' \in [Admins -> Op] /\ OpShape'
<1>1. op \in [Admins -> Op]
  BY DEF TypeOK, Op, Steps
<1>2. op' \in [Admins -> Op] /\ \A b \in Admins : op'[b] = IF b = a THEN o ELSE op[b]
  BY <1>1
<1>3. QED
  BY <1>2 DEF OpShape

LEMMA SessionShape ==
    ASSUME Shape, EditInv, NEW a \in Admins, Session(a)
    PROVE  Shape'
<1> USE DEF Shape
<1>0. op \in [Admins -> Op] /\ op[a] \in Op
  BY DEF TypeOK, Op, Steps
<1>n. NoOp \in Op /\ NoOp.pc = "idle"
  BY DEF NoOp, Op, Steps
<1>1. CASE ReadGroup(a)
  <2>1. op[a].cmd \in Command /\ op[a].cmd \in Edits /\ op[a].cmd.kind = "joinGroup"
    BY <1>1, CommandKinds DEF ReadGroup, OpShape
  <2>2. \E o \in Op : op' = [op EXCEPT ![a] = o] /\ (o = NoOp \/ o = [op[a] EXCEPT !.pc = "read"])
    BY <1>0, <1>n, <1>1 DEF ReadGroup, Op, Steps
  <2>3. op' \in [Admins -> Op] /\ OpShape'
    <3>1. PICK o \in Op : /\ op' = [op EXCEPT ![a] = o]
                          /\ o = NoOp \/ o = [op[a] EXCEPT !.pc = "read"]
      BY <2>2
    <3>2. o.pc = "idle" \/ (o.pc = "read" /\ o.cmd = op[a].cmd)
      BY <1>0, <1>n, <3>1 DEF Op
    <3>3. QED
      BY <2>1, <3>1, <3>2, OpStep
  <2>4. QED
    BY <1>1, <2>3 DEF ReadGroup, TypeOK, CallShape, Op, Steps, recs, keys, front
<1>2. CASE Read(a)
  <2> DEFINE cmd == op[a].cmd
             rec == GetRecord(cmd.on)
             o == [op[a] EXCEPT !.pc = "write", !.copy = rec]
  <2>1. cmd \in Edits /\ cmd.on \in Names
    BY <1>2, CommandKinds DEF Read, OpShape, Command
  <2>2. rec \in CopyOf(cmd.on) \cup {None}
    BY <2>1, RecordsAreTyped DEF TypeOK, GetRecord
  <2>3. CASE Returns(cmd, rec)
    <3>1. op' = [op EXCEPT ![a] = NoOp]
      BY <1>2, <2>3 DEF Read
    <3>2. QED
      BY NoneAssumption, <1>n, <1>2, <3>1, OpStep
         DEF Read, TypeOK, CallShape, Op, Steps, recs, keys, front
  <2>4. CASE ~Returns(cmd, rec)
    <3>1. op' = [op EXCEPT ![a] = o]
      BY <1>2, <2>4 DEF Read
    <3>2. cmd.kind = "createUser" => rec = None
      BY <2>4 DEF Returns
    <3>3. cmd.kind # "createUser" => rec \in CopyOf(cmd.on)
      BY <2>2, <2>4 DEF Returns
    <3>4. o \in Op /\ o.pc = "write" /\ o.cmd = cmd /\ o.copy = rec
      BY <1>0, <2>2 DEF Op, Steps, CopyOf
    <3>5. op' \in [Admins -> Op] /\ OpShape'
      BY <2>1, <3>1, <3>2, <3>3, <3>4, OpStep DEF Command, Blind
    <3>6. QED
      BY <1>2, <3>5 DEF Read, TypeOK, CallShape, Op, Steps, recs, keys, front
  <2>5. QED
    BY <2>3, <2>4
<1>3. CASE Write(a)
  <2> DEFINE cmd == op[a].cmd
  <2>1. cmd \in Edits /\ cmd.on \in Names
    BY <1>3, CommandKinds DEF Write, OpShape, Command
  <2>2. cmd.kind \in Blind \cup {"createUser"} \/ op[a].copy \in CopyOf(cmd.on)
    BY <1>3 DEF Write, OpShape
  <2>3. Edited(cmd, op[a].copy) \in CopyOf(cmd.on) \cup {None}
    BY <2>1, <2>2, EditedIsTyped
  <2>4. db' \in Records
    BY <1>3, <2>1, <2>3, RecordsExcept DEF Write, TypeOK
  <2>5. meant' \in Records
    <3>1. CASE cmd.on \in overlapped
      BY <1>3, <3>1 DEF Write, TypeOK
    <3>2. CASE cmd.on \notin overlapped
      <4>1. cmd.kind \notin Blind => op[a].copy = GetFrom(meant, cmd.on)
        BY <1>3, <2>1, <3>2 DEF Write, EditInv, CopyIsCurrent, EditsHold, GetRecord, GetFrom
      <4>2. Edited(cmd, GetFrom(meant, cmd.on)) \in CopyOf(cmd.on) \cup {None}
        BY <2>1, <2>2, <4>1, EditedIsTyped
      <4>3. QED
        BY <1>3, <2>1, <3>2, <4>2, RecordsExcept DEF Write, TypeOK
    <3>3. QED
      BY <3>1, <3>2
  <2>6. op' = [op EXCEPT ![a] = NoOp]
    BY <1>3 DEF Write
  <2>7. op' \in [Admins -> Op] /\ OpShape'
    BY <1>n, <2>6, OpStep
  <2>8. QED
    BY CacheTimeAssumption, <1>3, <2>1, <2>4, <2>5, <2>7
       DEF Write, TypeOK, CallShape, Op, Steps, keys, front
<1>4. CASE GetKey(a)
  <2>1. op[a].cmd \in KeyCommands /\ op[a].cmd \in Command
    BY <1>4 DEF GetKey, OpShape
  <2>2. \E o \in Op : op' = [op EXCEPT ![a] = o] /\ (o = NoOp \/ o = [op[a] EXCEPT !.pc = "reset"])
    BY <1>0, <1>n, <1>4 DEF GetKey, Op, Steps
  <2>3. op' \in [Admins -> Op] /\ OpShape'
    BY <1>0, <1>n, <2>1, <2>2, OpStep DEF Op
  <2>4. QED
    BY <1>4, <2>3 DEF GetKey, TypeOK, CallShape, Op, Steps, recs, keys, front
<1>5. CASE FindOldKey(a)
  <2> DEFINE u == op[a].cmd.on
             o == [op[a] EXCEPT !.pc = IF userKey[u] = None THEN "setu" ELSE "rmk",
                                !.key = userKey[u]]
  <2>1. op[a].cmd \in KeyCommands /\ op[a].cmd \in Command /\ u \in Users
    BY <1>5, CommandKinds DEF FindOldKey, OpShape
  <2>2. userKey[u] \in Keys \cup {None}
    BY <2>1 DEF TypeOK
  <2>3. o \in Op /\ o.cmd = op[a].cmd /\ o.pc \in {"rmk", "setu"} /\ (o.pc = "rmk" => o.key # None)
    BY <1>0, <2>2 DEF Op, Steps
  <2>4. op' = [op EXCEPT ![a] = o]
    BY <1>0, <1>5 DEF FindOldKey, Op
  <2>5. op' \in [Admins -> Op] /\ OpShape'
    BY <2>1, <2>3, <2>4, OpStep
  <2>6. QED
    BY <1>5, <2>1, <2>5 DEF FindOldKey, TypeOK, CallShape, Op, Steps, recs, front
<1>6. CASE RemoveKey(a)
  <2> DEFINE o == [op[a] EXCEPT !.pc = "rmu"]
  <2>1. op[a].cmd \in KeyCommands /\ op[a].cmd \in Command /\ op[a].key \in Keys
    BY <1>0, <1>6 DEF RemoveKey, OpShape, Op
  <2>2. o \in Op /\ o.cmd = op[a].cmd /\ o.pc = "rmu"
    BY <1>0 DEF Op, Steps
  <2>3. op' = [op EXCEPT ![a] = o]
    BY <1>0, <1>6 DEF RemoveKey, Op
  <2>4. op' \in [Admins -> Op] /\ OpShape'
    BY <2>1, <2>2, <2>3, OpStep
  <2>5. keyUser' \in [Keys -> Users \cup {None}]
    BY <1>6 DEF RemoveKey, TypeOK
  <2>6. QED
    BY CacheTimeAssumption, <1>6, <2>4, <2>5
       DEF RemoveKey, TypeOK, CallShape, Op, Steps, recs, front
<1>7. CASE RemoveKeyOfUser(a)
  <2> DEFINE o == [op[a] EXCEPT !.pc = "setu", !.key = None]
  <2>1. op[a].cmd \in KeyCommands /\ op[a].cmd \in Command
    BY <1>0, <1>7 DEF RemoveKeyOfUser, OpShape
  <2>2. o \in Op /\ o.cmd = op[a].cmd /\ o.pc = "setu"
    BY <1>0 DEF Op, Steps
  <2>3. op' = [op EXCEPT ![a] = o]
    BY <1>0, <1>7 DEF RemoveKeyOfUser, Op
  <2>4. op' \in [Admins -> Op] /\ OpShape'
    BY <2>1, <2>2, <2>3, OpStep
  <2>5. userKey' \in [Users -> Keys \cup {None}]
    BY <1>7 DEF RemoveKeyOfUser, TypeOK
  <2>6. QED
    BY <1>7, <2>4, <2>5 DEF RemoveKeyOfUser, TypeOK, CallShape, Op, Steps, recs, front
<1>8. CASE SetKeyOfUser(a)
  <2>1. PICK k \in Keys :
          /\ owner' = [owner EXCEPT ![k] = op[a].cmd.on]
          /\ userKey' = [userKey EXCEPT ![op[a].cmd.on] = k]
          /\ op' = [op EXCEPT ![a].pc = "setk", ![a].key = k]
    BY <1>8 DEF SetKeyOfUser
  <2> DEFINE o == [op[a] EXCEPT !.pc = "setk", !.key = k]
  <2>2. op[a].cmd \in KeyCommands /\ op[a].cmd \in Command /\ op[a].cmd.on \in Users
    BY <1>8, CommandKinds DEF SetKeyOfUser, OpShape
  <2>3. o \in Op /\ o.cmd = op[a].cmd /\ o.pc = "setk" /\ o.key = k
    BY <1>0 DEF Op, Steps
  <2>4. op' = [op EXCEPT ![a] = o]
    BY <1>0, <2>1 DEF Op
  <2>5. op' \in [Admins -> Op] /\ OpShape'
    BY NoneAssumption, <2>2, <2>3, <2>4, OpStep
  <2>6. userKey' \in [Users -> Keys \cup {None}] /\ owner' \in [Keys -> Users \cup {None}]
    BY <2>1, <2>2 DEF TypeOK
  <2>7. QED
    BY <1>8, <2>5, <2>6 DEF SetKeyOfUser, TypeOK, CallShape, Op, Steps, recs, front
<1>9. CASE SetKey(a)
  <2>1. op[a].cmd \in KeyCommands /\ op[a].cmd.on \in Users
    BY <1>9, CommandKinds DEF SetKey, OpShape
  <2>2. keyUser' \in [Keys -> Users \cup {None}]
    BY <1>9, <2>1 DEF SetKey, TypeOK
  <2>3. op' \in [Admins -> Op] /\ OpShape'
    BY <1>n, <1>9, OpStep DEF SetKey
  <2>4. QED
    BY CacheTimeAssumption, <1>9, <2>2, <2>3 DEF SetKey, TypeOK, CallShape, Op, Steps, recs, front
<1>10. QED
  BY <1>1, <1>2, <1>3, <1>4, <1>5, <1>6, <1>7, <1>8, <1>9 DEF Session

\* The other steps of a session: a command begins, or something goes wrong.
LEMMA FaultShape ==
    ASSUME Shape, NEW a \in Admins,
           PassOver(a) \/ BreakOff(a) \/ \E cmd \in bounds.commands : Begin(a, cmd)
    PROVE  Shape'
<1> USE DEF Shape
<1>0. op \in [Admins -> Op] /\ op[a] \in Op
  BY DEF TypeOK, Op, Steps
<1>n. NoOp \in Op /\ NoOp.pc = "idle"
  BY DEF NoOp, Op, Steps
<1>b. bounds \in Scenario /\ used \in [edits : Nat, faults : Nat]
  BY DEF TypeOK
<1>1. CASE PassOver(a)
  <2>1. op[a].cmd \in KeyCommands /\ op[a].cmd \in Command /\ op[a].cmd.on \in Users
    BY <1>1, CommandKinds DEF PassOver, OpShape
  <2>2. \E o \in Op : /\ op' = [op EXCEPT ![a] = o]
                      /\ \/ o = NoOp
                         \/ /\ o.cmd = op[a].cmd /\ o.pc \in {"rmu", "setu", "setk"}
                            /\ o.pc = "setk" => o.key # None
    <3>1. CASE op[a].pc = "setu"
      <4>1. PICK k \in Keys : op' = [op EXCEPT ![a].pc = "setk", ![a].key = k]
        BY <1>1, <3>1 DEF PassOver
      <4>2. [op[a] EXCEPT !.pc = "setk", !.key = k] \in Op
        BY <1>0 DEF Op, Steps
      <4>3. op' = [op EXCEPT ![a] = [op[a] EXCEPT !.pc = "setk", !.key = k]]
        BY <1>0, <4>1 DEF Op
      <4>4. QED
        BY NoneAssumption, <1>0, <4>2, <4>3 DEF Op
    <3>2. CASE op[a].pc = "rmk"
      <4>1. [op[a] EXCEPT !.pc = "rmu"] \in Op
        BY <1>0 DEF Op, Steps
      <4>2. op' = [op EXCEPT ![a] = [op[a] EXCEPT !.pc = "rmu"]]
        BY <1>1, <3>2 DEF PassOver
      <4>3. QED
        BY <1>0, <4>1, <4>2 DEF Op
    <3>3. CASE op[a].pc = "rmu"
      <4>1. [op[a] EXCEPT !.pc = "setu", !.key = None] \in Op
        BY <1>0 DEF Op, Steps
      <4>2. op' = [op EXCEPT ![a] = [op[a] EXCEPT !.pc = "setu", !.key = None]]
        BY <1>1, <3>3 DEF PassOver
      <4>3. QED
        BY <1>0, <4>1, <4>2 DEF Op
    <3>4. CASE op[a].pc = "setk"
      BY <1>1, <1>n, <3>4 DEF PassOver
    <3>5. QED
      BY <1>1, <3>1, <3>2, <3>3, <3>4 DEF PassOver
  <2>3. op' \in [Admins -> Op] /\ OpShape'
    BY <1>n, <2>1, <2>2, OpStep
  <2>4. owner' \in [Keys -> Users \cup {None}]
    BY <1>1, <2>1 DEF PassOver, TypeOK
  <2>5. used' \in [edits : Nat, faults : Nat]
    BY <1>1, UsedIsTyped DEF PassOver
  <2>6. QED
    BY <1>1, <2>1, <2>3, <2>4, <2>5 DEF PassOver, TypeOK, CallShape, Op, Steps, recs, front
<1>2. CASE BreakOff(a)
  <2>1. op' \in [Admins -> Op] /\ OpShape'
    BY <1>n, <1>2, OpStep DEF BreakOff
  <2>2. used' \in [edits : Nat, faults : Nat]
    BY <1>2, UsedIsTyped DEF BreakOff
  <2>3. broken' \subseteq Users
    <3>1. CASE op[a].pc \in {"rmu", "setk"}
      <4>1. op[a].cmd.on \in Users
        BY <3>1, CommandKinds DEF OpShape
      <4>2. QED
        BY <1>2, <3>1, <4>1 DEF BreakOff, TypeOK
    <3>2. CASE op[a].pc \notin {"rmu", "setk"}
      BY <1>2, <3>2 DEF BreakOff, TypeOK
    <3>3. QED
      BY <3>1, <3>2
  <2>4. QED
    BY <1>2, <2>1, <2>2, <2>3 DEF BreakOff, TypeOK, CallShape, Op, Steps, recs, front
<1>3. ASSUME NEW cmd \in bounds.commands, Begin(a, cmd)
      PROVE  Shape'
  <2> DEFINE o == [op[a] EXCEPT !.pc = FirstStep(cmd.kind), !.cmd = cmd]
  <2>1. cmd \in Command
    BY <1>b DEF Scenario
  <2>2. o \in Op /\ o.cmd = cmd /\ o.pc = FirstStep(cmd.kind)
    BY <1>0, <2>1 DEF Op, Steps, FirstStep
  <2>3. op' = [op EXCEPT ![a] = o]
    BY <1>0, <1>3 DEF Begin, Op
  <2>4. cmd.kind \in {"getKey", "resetKey"} <=> cmd \in KeyCommands
    BY <2>1, CommandKinds
  <2>5. op' \in [Admins -> Op] /\ OpShape'
    <3>1. /\ FirstStep(cmd.kind) # "idle"
          /\ FirstStep(cmd.kind) \in {"write", "group", "read", "get", "reset"}
          /\ FirstStep(cmd.kind) = "write" => cmd.kind = "addGroup"
          /\ FirstStep(cmd.kind) = "group" => cmd.kind = "joinGroup"
          /\ FirstStep(cmd.kind) \in {"get", "reset"} => cmd.kind \in {"getKey", "resetKey"}
          /\ FirstStep(cmd.kind) = "read" => cmd.kind \notin {"addGroup", "getKey", "resetKey"}
      BY DEF FirstStep
    <3>2. cmd \in Edits \/ cmd \in KeyCommands
      BY <2>1, CommandKinds
    <3>3. FirstStep(cmd.kind) \in {"read", "write"} => cmd \in Edits
      BY <2>4, <3>1, <3>2
    <3>4. QED
      BY <2>1, <2>2, <2>3, <2>4, <3>1, <3>3, OpStep DEF Blind
  <2>6. used' \in [edits : Nat, faults : Nat]
    BY <1>3, UsedIsTyped DEF Begin
  <2>7. QED
    BY <1>3, <2>5, <2>6 DEF Begin, TypeOK, CallShape, Op, Steps, recs, keys, front
<1>4. QED
  BY <1>1, <1>2, <1>3

\* A step of a call leaves the other calls alone.
LEMMA CallStep ==
    ASSUME TypeOK, CallShape, NEW c \in Calls, NEW l \in Call,
           call' = [call EXCEPT ![c] = l],
           l.pc # "idle" => l.key # None,
           l.pc \in {"key", "user"} => l.key # Public /\ l.full = NoGroups,
           l.pc = "user" => l.name \in Users,
           l.pc = "groups" => l.name # None
    PROVE  call' \in [Calls -> Call] /\ CallShape'
<1>1. call \in [Calls -> Call]
  BY DEF TypeOK, Call
<1>2. call' \in [Calls -> Call] /\ \A d \in Calls : call'[d] = IF d = c THEN l ELSE call[d]
  BY <1>1
<1>3. QED
  BY <1>2 DEF CallShape

CallAction(c) ==
    \/ \E key \in Keys \cup {Public} : Lookup(c, key)
    \/ ReadKey(c) \/ ReadUser(c) \/ Keep(c) \/ LookupFails(c)
    \/ \E g \in Groups : ReadGroupOf(c, g)

LEMMA FrontendShape ==
    ASSUME Shape, NEW c \in Calls, CallAction(c)
    PROVE  Shape'
<1> USE DEF Shape
<1>0. call \in [Calls -> Call] /\ call[c] \in Call
  BY DEF TypeOK, Call
<1>n. NoCall \in Call /\ NoCall.pc = "idle"
  BY DEF NoCall, Call, NoGroups
<1>1. ASSUME NEW key \in Keys \cup {Public}, Lookup(c, key) PROVE Shape'
  <2> DEFINE p == [pc |-> "groups", key |-> key, name |-> Public,
                   full |-> NoGroups, todo |-> {Public}, age |-> 0]
             l == [NoCall EXCEPT !.pc = "key", !.key = key]
  <2>0. NoGroups \in [Groups -> GroupRec \cup {None}]
    BY DEF NoGroups
  <2>1. p \in Call /\ l \in Call /\ l.pc = "key" /\ l.key = key /\ l.full = NoGroups
    <3>1. p \in Call
      BY PublicAssumption, <2>0 DEF Call
    <3>2. l \in Call
      BY <1>n DEF Call
    <3>3. l.pc = "key" /\ l.key = key /\ l.full = NoGroups
      BY <1>n DEF Call, NoCall
    <3>4. QED
      BY <3>1, <3>2, <3>3
  <2>2. call' = [call EXCEPT ![c] = IF key = Public THEN p ELSE l]
    BY <1>1 DEF Lookup
  <2>3. key # None /\ Public # None
    BY PublicAssumption, NoneAssumption DEF Names
  <2>4. call' \in [Calls -> Call] /\ CallShape'
    <3>1. CASE key = Public
      BY <2>1, <2>2, <2>3, <3>1, CallStep
    <3>2. CASE key # Public
      BY <2>1, <2>2, <2>3, <3>2, CallStep
    <3>3. QED
      BY <3>1, <3>2
  <2>5. QED
    BY <1>1, <2>4 DEF Lookup, TypeOK, OpShape, Call, recs, keys
<1>2. CASE ReadKey(c)
  <2> DEFINE u == keyUser[call[c].key]
             l == [call[c] EXCEPT !.pc = "user", !.name = u]
  <2>1. call[c].key \in Keys /\ u \in Users \cup {None}
    BY <1>0, <1>2 DEF ReadKey, CallShape, TypeOK, Call
  <2>2. u # None => /\ l \in Call /\ l.pc = "user" /\ l.name = u /\ l.key = call[c].key
                    /\ l.full = call[c].full
    BY <1>0, <2>1 DEF Call
  <2>3. call' = [call EXCEPT ![c] = IF u = None THEN NoCall ELSE l]
    BY <1>2 DEF ReadKey
  <2>4. call' \in [Calls -> Call] /\ CallShape'
    <3>1. CASE u = None
      BY <1>n, <2>3, <3>1, CallStep
    <3>2. CASE u # None
      <4>1. call[c].pc = "key"
        BY <1>2 DEF ReadKey
      <4>2. call[c].key # Public /\ call[c].key # None /\ call[c].full = NoGroups
        BY <4>1 DEF CallShape
      <4>3. /\ l \in Call /\ l.pc = "user" /\ l.key # None
            /\ l.key # Public /\ l.full = NoGroups /\ l.name \in Users
        BY <2>1, <2>2, <3>2, <4>2
      <4>4. call' = [call EXCEPT ![c] = l]
        BY <2>3, <3>2
      <4>5. QED
        BY <4>3, <4>4, CallStep
    <3>3. QED
      BY <3>1, <3>2
  <2>5. QED
    BY <1>2, <2>4 DEF ReadKey, TypeOK, OpShape, Call, recs, keys
<1>3. CASE ReadUser(c)
  <2> DEFINE rec == db[call[c].name]
             l == [call[c] EXCEPT !.pc = "groups", !.todo = rec.groups \cup {Public}]
  <2>1. call[c].name \in Users
    BY <1>3 DEF ReadUser, CallShape
  <2>2. rec \in UserRec \cup {None}
    BY <2>1, RecordsAreTyped DEF TypeOK, Names
  <2>3. rec # None => rec.groups \subseteq Groups
    BY <2>2 DEF UserRec
  <2>4. rec # None => l \in Call /\ l.pc = "groups" /\ l.name = call[c].name /\ l.key = call[c].key
    BY PublicAssumption, <1>0, <2>3 DEF Call
  <2>5. call' = [call EXCEPT ![c] = IF rec = None THEN NoCall ELSE l]
    BY <1>3 DEF ReadUser
  <2>6. call' \in [Calls -> Call] /\ CallShape'
    <3>1. CASE rec = None
      BY <1>n, <2>5, <3>1, CallStep
    <3>2. CASE rec # None
      BY NoneAssumption, <1>3, <2>1, <2>4, <2>5, <3>2, CallStep DEF ReadUser, CallShape, Names
    <3>3. QED
      BY <3>1, <3>2
  <2>7. QED
    BY <1>3, <2>6 DEF ReadUser, TypeOK, OpShape, Call, recs, keys
<1>4. CASE Keep(c)
  <2>1. call[c].key \in Keys \cup {Public} /\ call[c].name \in Users \cup {Public}
    BY <1>0, <1>4 DEF Keep, CallShape, Call
  <2>2. [name |-> call[c].name, full |-> call[c].full] \in User
    BY <1>0, <2>1 DEF User, Call
  <2>3. cache' \in [Keys \cup {Public} -> [user : User \cup {None}, left : 0 .. CacheTime]]
    BY CacheTimeAssumption, <1>4, <2>1, <2>2 DEF Keep, TypeOK
  <2>4. call' \in [Calls -> Call] /\ CallShape'
    BY <1>n, <1>4, CallStep DEF Keep
  <2>5. QED
    BY <1>4, <2>3, <2>4 DEF Keep, TypeOK, OpShape, Call, recs, keys
<1>5. ASSUME NEW g \in Groups, ReadGroupOf(c, g) PROVE Shape'
  <2> DEFINE l == [call[c] EXCEPT !.full = [@ EXCEPT ![g] = GetRecord(g)], !.todo = @ \ {g}]
  <2>1. GetRecord(g) \in GroupRec \cup {None}
    BY PublicAssumption, RecordsAreTyped DEF TypeOK, GetRecord, CopyOf, Names
  <2>2. l \in Call /\ l.pc = call[c].pc /\ l.name = call[c].name /\ l.key = call[c].key
    BY <1>0, <2>1 DEF Call
  <2>3. call' = [call EXCEPT ![c] = l]
    BY <1>0, <1>5 DEF ReadGroupOf, Call
  <2>4. call' \in [Calls -> Call] /\ CallShape'
    BY <1>5, <2>2, <2>3, CallStep DEF ReadGroupOf, CallShape
  <2>5. QED
    BY <1>5, <2>4 DEF ReadGroupOf, TypeOK, OpShape, Call, recs, keys
<1>6. CASE LookupFails(c)
  <2>1. call' \in [Calls -> Call] /\ CallShape'
    BY <1>6, <1>n, CallStep DEF LookupFails
  <2>2. used' \in [edits : Nat, faults : Nat]
    BY <1>6, UsedIsTyped DEF LookupFails
  <2>3. QED
    BY <1>6, <2>1, <2>2 DEF LookupFails, TypeOK, OpShape, Call, recs, keys
<1>7. QED
  BY <1>1, <1>2, <1>3, <1>4, <1>5, <1>6 DEF CallAction

LEMMA EndShape == ASSUME Shape, FrontendEnds PROVE Shape'
<1> USE DEF Shape
<1>1. NoCall \in Call /\ NoCall.pc = "idle"
  BY DEF NoCall, Call, NoGroups
<1>2. call' \in [Calls -> Call] /\ CallShape'
  BY <1>1 DEF FrontendEnds, CallShape
<1>3. NoEntry \in [user : User \cup {None}, left : 0 .. CacheTime]
  BY CacheTimeAssumption DEF NoEntry
<1>4. cache' \in [Keys \cup {Public} -> [user : User \cup {None}, left : 0 .. CacheTime]]
  BY <1>3 DEF FrontendEnds
<1>5. used' \in [edits : Nat, faults : Nat]
  BY UsedIsTyped DEF FrontendEnds
<1>6. QED
  BY <1>2, <1>4, <1>5 DEF FrontendEnds, TypeOK, OpShape, Call, recs, keys

LEMMA TickShape == ASSUME Shape, Tick PROVE Shape'
<1> USE DEF Shape
<1>0. call \in [Calls -> Call]
  BY DEF TypeOK, Call
<1>n. NoCall \in Call /\ NoCall.pc = "idle"
  BY DEF NoCall, Call, NoGroups
<1>1. ASSUME NEW c \in Calls
      PROVE  /\ call'[c] \in Call
             /\ call'[c] = NoCall \/ call'[c] = [call[c] EXCEPT !.age = @ + 1]
  <2>1. CASE call[c].pc = "idle"
    BY <1>n, <2>1 DEF Tick
  <2>2. CASE call[c].pc # "idle"
    <3>1. call[c].age + 1 \in 0 .. FillTime
      BY <1>0, <2>2 DEF Tick, Call
    <3>2. [call[c] EXCEPT !.age = @ + 1] \in Call
      BY <1>0, <3>1 DEF Call
    <3>3. QED
      BY <2>2, <3>2 DEF Tick
  <2>3. QED
    BY <2>1, <2>2
<1>2. call' \in [Calls -> Call]
  BY <1>1 DEF Tick
<1>3. CallShape'
  <2> SUFFICES ASSUME NEW c \in Calls
               PROVE  /\ call'[c].pc # "idle" => call'[c].key # None
                      /\ call'[c].pc \in {"key", "user"} =>
                            call'[c].key # Public /\ call'[c].full = NoGroups
                      /\ call'[c].pc = "user" => call'[c].name \in Users
                      /\ call'[c].pc = "groups" => call'[c].name # None
    BY DEF CallShape
  <2>1. CASE call'[c] = NoCall
    BY <1>n, <2>1
  <2>2. CASE call'[c] = [call[c] EXCEPT !.age = @ + 1]
    BY <1>0, <2>2 DEF CallShape, Call
  <2>3. QED
    BY <1>1, <2>1, <2>2
<1>4. ASSUME NEW k \in Keys \cup {Public}
      PROVE  cache'[k] \in [user : User \cup {None}, left : 0 .. CacheTime]
  <2>1. cache[k] \in [user : User \cup {None}, left : 0 .. CacheTime]
    BY DEF TypeOK
  <2>2. CASE cache[k].left <= 1
    BY CacheTimeAssumption, <2>2 DEF Tick, NoEntry
  <2>3. CASE ~(cache[k].left <= 1)
    <3>1. cache[k].left - 1 \in 0 .. CacheTime
      BY CacheTimeAssumption, <2>1, <2>3
    <3>2. QED
      BY <2>1, <2>3, <3>1 DEF Tick
  <2>4. QED
    BY <2>2, <2>3
<1>5. cache' \in [Keys \cup {Public} -> [user : User \cup {None}, left : 0 .. CacheTime]]
  BY <1>4 DEF Tick
<1>6. quiet' \in 0 .. Settled
  BY CacheTimeAssumption DEF Tick, TypeOK
<1>7. QED
  BY <1>2, <1>3, <1>5, <1>6 DEF Tick, TypeOK, OpShape, Call, recs, keys

-----------------------------------------------------------------------------
(* The keys. *)

AtKey == {"rmk", "rmu", "setu", "setk"}

\* Whatever leaves the keys and the resets alone.
LEMMA KeysUntouched ==
    ASSUME KeyInv, UNCHANGED keys,
           \A a \in Admins : op'[a] = op[a] \/ (op[a].pc \notin AtKey /\ op'[a].pc \notin AtKey)
    PROVE  KeyInv'
<1>1. KeysAreOwned'
  BY DEF KeyInv, KeysAreOwned, keys, AtKey
<1>2. KeyIsFound'
  BY DEF KeyInv, KeyIsFound, keys, AtKey
<1>3. OneReset'
  BY DEF KeyInv, OneReset, Resetting, keys, AtKey
<1>4. QED
  BY <1>1, <1>2, <1>3 DEF KeyInv

LEMMA ResetKeys ==
    ASSUME Shape, KeyInv, NEW a \in Admins,
           \/ FindOldKey(a) \/ RemoveKey(a) \/ RemoveKeyOfUser(a)
           \/ SetKeyOfUser(a) \/ SetKey(a)
    PROVE  KeyInv'
<1> DEFINE u == op[a].cmd.on
<1> USE DEF KeyInv
<1>0. /\ op \in [Admins -> Op] /\ op[a] \in Op
      /\ userKey \in [Users -> Keys \cup {None}] /\ keyUser \in [Keys -> Users \cup {None}]
      /\ owner \in [Keys -> Users \cup {None}]
  BY DEF Shape, TypeOK, Op, Steps
<1>u. u \in Users /\ u # None
  <2>1. op[a].pc \notin {"idle", "group", "read", "write"}
    BY DEF FindOldKey, RemoveKey, RemoveKeyOfUser, SetKeyOfUser, SetKey
  <2>2. op[a].cmd \in KeyCommands
    BY <2>1 DEF Shape, OpShape
  <2>3. u \in Users
    BY <2>2, CommandKinds
  <2>4. QED
    BY <2>3, NoneAssumption DEF Names
<1>s. \A b \in Admins : op[b].pc \in AtKey => op[b].cmd.on \in Users
  BY CommandKinds DEF Shape, OpShape, AtKey
<1>1. CASE FindOldKey(a)
  <2>1. \A b \in Admins \ {a} : op'[b] = op[b]
    BY <1>0, <1>1 DEF FindOldKey
  <2>2. /\ op'[a].pc = IF userKey[u] = None THEN "setu" ELSE "rmk"
        /\ op'[a].key = userKey[u] /\ op'[a].cmd = op[a].cmd
    BY <1>0, <1>1 DEF FindOldKey, Op
  <2>3. op[a].pc = "reset"
    BY <1>1 DEF FindOldKey
  <2>u. UNCHANGED <<userKey, keyUser, owner, broken>>
    BY <1>1 DEF FindOldKey
  <2>4. KeysAreOwned'
    <3>1. op'[a].key # None => owner[op'[a].key] = op'[a].cmd.on
      BY <1>u, <2>2 DEF KeysAreOwned
    <3>2. QED
      BY <2>1, <2>u, <3>1 DEF KeysAreOwned
  <2>5. KeyIsFound'
    BY <2>1, <2>3, <2>u DEF KeyIsFound
  <2>6. OneReset'
    <3>1. SUFFICES ASSUME NEW v \in Users, v \notin broken', v \notin raced'
                   PROVE  /\ \A b, c \in Admins : Resetting(b, v)' /\ Resetting(c, v)' => b = c
                          /\ \A k \in Keys : keyUser'[k] = v => userKey'[v] = k
                          /\ \A b \in Admins : Resetting(b, v)' =>
                                /\ op'[b].pc \in {"rmk", "setk"} => op'[b].key = userKey'[v]
                                /\ op'[b].pc # "rmk" => \A k \in Keys : keyUser'[k] # v
      BY DEF OneReset
    <3>2. v \notin broken /\ v \notin raced
      BY <1>1, <3>1 DEF FindOldKey
    <3>3. v = u => \A b \in Admins \ {a} : ~Resetting(b, u)
      BY <1>1, <3>1 DEF FindOldKey
    <3>4. \A b \in Admins \ {a} : Resetting(b, v)' <=> Resetting(b, v)
      BY <2>1 DEF Resetting
    <3>5. Resetting(a, v)' => v = u
      BY <2>2 DEF Resetting
    <3>6. UNCHANGED <<keyUser, userKey>>
      BY <1>1 DEF FindOldKey
    <3>7. \A k \in Keys : keyUser[k] = v => userKey[v] = k
      BY <3>2 DEF OneReset
    <3>8. op'[a].pc # "rmk" => \A k \in Keys : keyUser[k] # u \/ v # u
      BY NoneAssumption, <1>0, <2>2, <3>7
    <3>9. QED
      BY <2>1, <2>2, <3>2, <3>3, <3>4, <3>5, <3>6, <3>7, <3>8 DEF OneReset
  <2>7. QED
    BY <2>4, <2>5, <2>6
<1>2. CASE RemoveKey(a)
  <2>1. \A b \in Admins \ {a} : op'[b] = op[b]
    BY <1>0, <1>2 DEF RemoveKey
  <2>2. op'[a].pc = "rmu" /\ op'[a].key = op[a].key /\ op'[a].cmd = op[a].cmd /\ op[a].pc = "rmk"
    BY <1>0, <1>2 DEF RemoveKey, Op
  <2>3. op[a].key \in Keys /\ op[a].key # None /\ owner[op[a].key] = u
    BY <1>0, <1>2 DEF RemoveKey, KeysAreOwned, Shape, OpShape, Op
  <2>4. /\ keyUser' = [keyUser EXCEPT ![op[a].key] = None]
        /\ UNCHANGED <<userKey, owner, raced, broken>>
    BY <1>2 DEF RemoveKey
  <2>5. KeysAreOwned'
    BY <1>0, <2>1, <2>2, <2>3, <2>4 DEF KeysAreOwned
  <2>6. KeyIsFound'
    BY <1>0, <2>1, <2>2, <2>3, <2>4 DEF KeyIsFound
  <2>7. OneReset'
    <3>1. SUFFICES ASSUME NEW v \in Users, v \notin broken, v \notin raced
                   PROVE  /\ \A b, c \in Admins : Resetting(b, v)' /\ Resetting(c, v)' => b = c
                          /\ \A k \in Keys : keyUser'[k] = v => userKey'[v] = k
                          /\ \A b \in Admins : Resetting(b, v)' =>
                                /\ op'[b].pc \in {"rmk", "setk"} => op'[b].key = userKey'[v]
                                /\ op'[b].pc # "rmk" => \A k \in Keys : keyUser'[k] # v
      BY <2>4 DEF OneReset
    <3>2. \A b \in Admins : Resetting(b, v)' <=> Resetting(b, v)
      BY <2>1, <2>2 DEF Resetting
    <3>3. \A k \in Keys : keyUser'[k] = v => keyUser[k] = v /\ k # op[a].key
      BY NoneAssumption, <1>0, <2>3, <2>4, <1>u DEF Names
    <3>4. v = u => \A k \in Keys : keyUser'[k] # v
      BY <2>2, <3>1, <3>3 DEF OneReset, Resetting
    <3>5. v = u => \A b \in Admins : Resetting(b, v) => b = a
      BY <2>2, <3>1 DEF OneReset, Resetting
    <3>6. v # u => \A b \in Admins : Resetting(b, v) => b # a
      BY DEF Resetting
    <3>7. QED
      BY <2>1, <2>2, <2>4, <3>1, <3>2, <3>3, <3>4, <3>5, <3>6 DEF OneReset
  <2>8. QED
    BY <2>5, <2>6, <2>7
<1>3. CASE RemoveKeyOfUser(a)
  <2>1. \A b \in Admins \ {a} : op'[b] = op[b]
    BY <1>0, <1>3 DEF RemoveKeyOfUser
  <2>2. op'[a].pc = "setu" /\ op'[a].cmd = op[a].cmd /\ op[a].pc = "rmu"
    BY <1>0, <1>3 DEF RemoveKeyOfUser, Op
  <2>3. userKey' = [userKey EXCEPT ![u] = None] /\ UNCHANGED <<keyUser, owner, raced, broken>>
    BY <1>3 DEF RemoveKeyOfUser
  <2>4. KeysAreOwned'
    BY <1>0, <2>1, <2>2, <2>3 DEF KeysAreOwned
  <2>5. KeyIsFound'
    BY <1>0, <1>u, <2>1, <2>2, <2>3 DEF KeyIsFound, KeysAreOwned
  <2>6. OneReset'
    <3>1. SUFFICES ASSUME NEW v \in Users, v \notin broken, v \notin raced
                   PROVE  /\ \A b, c \in Admins : Resetting(b, v)' /\ Resetting(c, v)' => b = c
                          /\ \A k \in Keys : keyUser'[k] = v => userKey'[v] = k
                          /\ \A b \in Admins : Resetting(b, v)' =>
                                /\ op'[b].pc \in {"rmk", "setk"} => op'[b].key = userKey'[v]
                                /\ op'[b].pc # "rmk" => \A k \in Keys : keyUser'[k] # v
      BY <2>3 DEF OneReset
    <3>2. \A b \in Admins : Resetting(b, v)' <=> Resetting(b, v)
      BY <2>1, <2>2 DEF Resetting
    <3>3. v = u => \A k \in Keys : keyUser[k] # v
      BY <2>2, <3>1 DEF OneReset, Resetting
    <3>4. v = u => \A b \in Admins : Resetting(b, v) => b = a
      BY <2>2, <3>1 DEF OneReset, Resetting
    <3>5. v # u => userKey'[v] = userKey[v] /\ \A b \in Admins : Resetting(b, v) => b # a
      BY <1>0, <2>3 DEF Resetting
    <3>6. QED
      BY <2>1, <2>2, <2>3, <3>1, <3>2, <3>3, <3>4, <3>5 DEF OneReset
  <2>7. QED
    BY <2>4, <2>5, <2>6
<1>4. CASE SetKeyOfUser(a)
  <2>0. PICK n \in Keys :
          /\ owner[n] = None
          /\ owner' = [owner EXCEPT ![n] = u]
          /\ userKey' = [userKey EXCEPT ![u] = n]
          /\ op' = [op EXCEPT ![a].pc = "setk", ![a].key = n]
    BY <1>4 DEF SetKeyOfUser
  <2>1. \A b \in Admins \ {a} : op'[b] = op[b]
    BY <1>0, <2>0
  <2>2. op'[a].pc = "setk" /\ op'[a].key = n /\ op'[a].cmd = op[a].cmd /\ op[a].pc = "setu"
    BY <1>0, <1>4, <2>0 DEF SetKeyOfUser, Op
  <2>3. UNCHANGED <<keyUser, raced, broken>>
    BY <1>4 DEF SetKeyOfUser
  <2>4. \A k \in Keys : owner[k] # None => owner'[k] = owner[k]
    BY <1>0, <2>0
  <2>5. owner'[n] = u /\ userKey'[u] = n /\ \A v \in Users \ {u} : userKey'[v] = userKey[v]
    BY <1>0, <1>u, <2>0
  <2>6. n # None
    BY NoneAssumption, <2>0
  <2>7. KeysAreOwned'
    <3>1. \A v \in Users : userKey'[v] # None => owner'[userKey'[v]] = v
      BY NoneAssumption, <1>0, <2>4, <2>5 DEF KeysAreOwned, Names
    <3>2. \A k \in Keys : keyUser'[k] # None => owner'[k] = keyUser'[k]
      BY <1>0, <2>3, <2>4 DEF KeysAreOwned
    <3>3. ASSUME NEW b \in Admins, op'[b].pc \in {"rmk", "rmu", "setk"}, op'[b].key # None
          PROVE  owner'[op'[b].key] = op'[b].cmd.on
      <4>1. CASE b = a
        BY <2>2, <2>5, <4>1
      <4>2. CASE b # a
        <5>1. owner[op[b].key] = op[b].cmd.on /\ op[b].key \in Keys /\ op[b].cmd.on \in Users
          BY <1>0, <1>s, <2>1, <3>3, <4>2 DEF KeysAreOwned, Op, AtKey
        <5>2. QED
          BY NoneAssumption, <2>1, <2>4, <4>2, <5>1 DEF Names
      <4>3. QED
        BY <4>1, <4>2
    <3>4. QED
      BY <3>1, <3>2, <3>3 DEF KeysAreOwned
  <2>8. KeyIsFound'
    <3>1. SUFFICES ASSUME NEW v \in Users \ broken, userKey'[v] # None
                   PROVE  \/ keyUser[userKey'[v]] = v
                          \/ \E b \in Admins : /\ op'[b].pc \in {"rmu", "setk"}
                                               /\ op'[b].key = userKey'[v]
      BY <2>3 DEF KeyIsFound
    <3>2. CASE v = u
      BY <2>2, <2>5, <3>2
    <3>3. CASE v # u
      <4>1. \/ keyUser[userKey[v]] = v
            \/ \E b \in Admins : op[b].pc \in {"rmu", "setk"} /\ op[b].key = userKey[v]
        BY <2>5, <3>1, <3>3 DEF KeyIsFound
      <4>2. QED
        BY <2>1, <2>2, <2>5, <3>3, <4>1
    <3>4. QED
      BY <3>2, <3>3
  <2>9. OneReset'
    <3>1. SUFFICES ASSUME NEW v \in Users, v \notin broken, v \notin raced
                   PROVE  /\ \A b, c \in Admins : Resetting(b, v)' /\ Resetting(c, v)' => b = c
                          /\ \A k \in Keys : keyUser'[k] = v => userKey'[v] = k
                          /\ \A b \in Admins : Resetting(b, v)' =>
                                /\ op'[b].pc \in {"rmk", "setk"} => op'[b].key = userKey'[v]
                                /\ op'[b].pc # "rmk" => \A k \in Keys : keyUser'[k] # v
      BY <2>3 DEF OneReset
    <3>2. \A b \in Admins : Resetting(b, v)' <=> Resetting(b, v)
      BY <2>1, <2>2 DEF Resetting
    <3>3. v = u => \A k \in Keys : keyUser[k] # v
      BY <2>2, <3>1 DEF OneReset, Resetting
    <3>4. v = u => \A b \in Admins : Resetting(b, v) => b = a
      BY <2>2, <3>1 DEF OneReset, Resetting
    <3>5. v # u => userKey'[v] = userKey[v] /\ \A b \in Admins : Resetting(b, v) => b # a
      BY <2>5 DEF Resetting
    <3>6. QED
      BY <2>1, <2>2, <2>3, <2>5, <3>1, <3>2, <3>3, <3>4, <3>5 DEF OneReset
  <2>10. QED
    BY <2>7, <2>8, <2>9
<1>5. CASE SetKey(a)
  <2>1. \A b \in Admins \ {a} : op'[b] = op[b]
    BY <1>0, <1>5 DEF SetKey
  <2>2. op'[a] = NoOp /\ op[a].pc = "setk" /\ NoOp.pc = "idle"
    BY <1>0, <1>5 DEF SetKey, NoOp
  <2>3. op[a].key \in Keys /\ op[a].key # None /\ owner[op[a].key] = u
    BY <1>0, <1>5 DEF SetKey, KeysAreOwned, Shape, OpShape, Op
  <2>4. keyUser' = [keyUser EXCEPT ![op[a].key] = u] /\ UNCHANGED <<userKey, owner, raced, broken>>
    BY <1>5 DEF SetKey
  <2>5. KeysAreOwned'
    BY <1>0, <2>1, <2>2, <2>3, <2>4 DEF KeysAreOwned
  <2>6. KeyIsFound'
    <3>1. SUFFICES ASSUME NEW v \in Users \ broken, userKey[v] # None
                   PROVE  \/ keyUser'[userKey[v]] = v
                          \/ \E b \in Admins : /\ op'[b].pc \in {"rmu", "setk"}
                                               /\ op'[b].key = userKey[v]
      BY <2>4 DEF KeyIsFound
    <3>2. CASE userKey[v] = op[a].key
      BY <1>0, <2>3, <2>4, <3>1, <3>2 DEF KeysAreOwned
    <3>3. CASE userKey[v] # op[a].key
      BY <1>0, <2>1, <2>4, <3>1, <3>3 DEF KeyIsFound
    <3>4. QED
      BY <3>2, <3>3
  <2>7. OneReset'
    <3>1. SUFFICES ASSUME NEW v \in Users, v \notin broken, v \notin raced
                   PROVE  /\ \A b, c \in Admins : Resetting(b, v)' /\ Resetting(c, v)' => b = c
                          /\ \A k \in Keys : keyUser'[k] = v => userKey'[v] = k
                          /\ \A b \in Admins : Resetting(b, v)' =>
                                /\ op'[b].pc \in {"rmk", "setk"} => op'[b].key = userKey'[v]
                                /\ op'[b].pc # "rmk" => \A k \in Keys : keyUser'[k] # v
      BY <2>4 DEF OneReset
    <3>2. \A b \in Admins : Resetting(b, v)' => Resetting(b, v) /\ b # a
      BY <2>1, <2>2 DEF Resetting
    <3>3. v = u => \A k \in Keys : keyUser[k] # v
      BY <2>2, <3>1 DEF OneReset, Resetting
    <3>4. v = u => op[a].key = userKey[v] /\ \A b \in Admins : Resetting(b, v) => b = a
      BY <2>2, <3>1 DEF OneReset, Resetting
    <3>5. \A k \in Keys : k # op[a].key => keyUser'[k] = keyUser[k]
      BY <1>0, <2>4
    <3>6. keyUser'[op[a].key] = u
      BY <1>0, <2>3, <2>4
    <3>7. QED
      BY <2>1, <2>4, <3>1, <3>2, <3>3, <3>4, <3>5, <3>6 DEF OneReset
  <2>8. QED
    BY <2>5, <2>6, <2>7
<1>6. QED
  BY <1>1, <1>2, <1>3, <1>4, <1>5

LEMMA FaultKeys ==
    ASSUME Shape, KeyInv, NEW a \in Admins, PassOver(a) \/ BreakOff(a)
    PROVE  KeyInv'
<1> DEFINE u == op[a].cmd.on
<1> USE DEF KeyInv
<1>0. /\ op \in [Admins -> Op] /\ op[a] \in Op
      /\ userKey \in [Users -> Keys \cup {None}] /\ keyUser \in [Keys -> Users \cup {None}]
      /\ owner \in [Keys -> Users \cup {None}]
  BY DEF Shape, TypeOK, Op, Steps
<1>1. UNCHANGED <<userKey, keyUser, raced>> /\ \A b \in Admins \ {a} : op'[b] = op[b]
  BY <1>0 DEF PassOver, BreakOff
<1>2. broken \subseteq broken'
  BY DEF PassOver, BreakOff
<1>s. \A b \in Admins : op[b].pc \in AtKey => op[b].cmd.on \in Users
  BY CommandKinds DEF Shape, OpShape, AtKey
\* Where the key of a's user is lost sight of, that user is counted as broken.
<1>3. \/ u \in broken'
      \/ op'[a] = NoOp /\ op[a].pc \notin {"rmu", "setk"}
  BY <1>0 DEF PassOver, BreakOff
<1>n. NoOp.pc = "idle"
  BY DEF NoOp
<1>p. ASSUME PassOver(a)
      PROVE  /\ u \in broken'
             /\ op[a].pc = "rmk" => op'[a] = [op[a] EXCEPT !.pc = "rmu"]
             /\ op[a].pc = "rmu" => op'[a] = [op[a] EXCEPT !.pc = "setu", !.key = None]
             /\ op[a].pc = "setu" => op'[a].pc = "setk" /\ op'[a].cmd = op[a].cmd
             /\ op[a].pc = "setk" => op'[a] = NoOp
             /\ op[a].pc \in {"rmk", "rmu", "setu", "setk"}
  <2>1. op[a].pc = "setu" => op'[a].pc = "setk" /\ op'[a].cmd = op[a].cmd
    BY <1>0, <1>p DEF PassOver, Op
  <2>2. op[a].pc # "setu" =>
          op' = [op EXCEPT ![a] =
                  CASE @.pc = "rmk" -> [@ EXCEPT !.pc = "rmu"]
                    [] @.pc = "rmu" -> [@ EXCEPT !.pc = "setu", !.key = None]
                    [] @.pc = "setk" -> NoOp]
    BY <1>p DEF PassOver
  <2>3. op[a].pc # "setu" =>
          op'[a] = CASE op[a].pc = "rmk" -> [op[a] EXCEPT !.pc = "rmu"]
                     [] op[a].pc = "rmu" -> [op[a] EXCEPT !.pc = "setu", !.key = None]
                     [] op[a].pc = "setk" -> NoOp
    BY <1>0, <2>2
  <2>4. QED
    BY <1>p, <2>1, <2>3 DEF PassOver
<1>b. BreakOff(a) => op'[a] = NoOp
  BY <1>0 DEF BreakOff
<1>4. /\ op'[a].pc \in {"rmk", "rmu", "setu", "setk"} => op'[a].cmd = op[a].cmd /\ u \in broken'
      /\ op'[a].pc \in {"rmk", "rmu"} => op'[a].key = op[a].key /\ op[a].pc \in {"rmk", "rmu"}
  BY <1>0, <1>p, <1>b, <1>n DEF Op
<1>5. /\ \A k \in Keys : owner[k] # None => owner'[k] = owner[k]
      /\ op'[a].pc = "setk" /\ op'[a].key # None => owner'[op'[a].key] = u
  <2>1. CASE PassOver(a) /\ op[a].pc = "setu"
    <3>1. PICK n \in Keys : /\ owner[n] = None
                            /\ owner' = [owner EXCEPT ![n] = u]
                            /\ op' = [op EXCEPT ![a].pc = "setk", ![a].key = n]
      BY <2>1 DEF PassOver
    <3>2. op'[a].key = n
      BY <1>0, <3>1 DEF Op
    <3>3. QED
      BY <1>0, <3>1, <3>2
  <2>2. CASE PassOver(a) /\ op[a].pc # "setu"
    <3>1. op'[a].pc # "setk"
      BY <1>0, <1>p, <1>n, <2>2 DEF Op
    <3>2. UNCHANGED owner
      BY <2>2 DEF PassOver
    <3>3. QED
      BY <3>1, <3>2
  <2>3. CASE BreakOff(a)
    BY <1>0, <2>3 DEF BreakOff, NoOp
  <2>4. QED
    BY <2>1, <2>2, <2>3
<1>6. KeysAreOwned'
  <2>1. \A v \in Users : userKey'[v] # None => owner'[userKey'[v]] = v
    BY NoneAssumption, <1>0, <1>1, <1>5 DEF KeysAreOwned, Names
  <2>2. \A k \in Keys : keyUser'[k] # None => owner'[k] = keyUser'[k]
    BY <1>0, <1>1, <1>5 DEF KeysAreOwned
  <2>3. ASSUME NEW b \in Admins, op'[b].pc \in {"rmk", "rmu", "setk"}, op'[b].key # None
        PROVE  owner'[op'[b].key] = op'[b].cmd.on
    <3>1. CASE b # a \/ op'[b].pc # "setk"
      <4>1. op[b].pc \in AtKey /\ op'[b].key = op[b].key /\ op'[b].cmd.on = op[b].cmd.on
        BY <1>1, <1>4, <2>3, <3>1 DEF AtKey
      <4>2. op[b].pc \in {"rmk", "rmu", "setk"}
        BY <1>1, <1>4, <2>3, <3>1
      <4>3. owner[op[b].key] = op[b].cmd.on /\ op[b].key \in Keys /\ op[b].cmd.on \in Users
        BY <1>0, <1>s, <2>3, <4>1, <4>2 DEF KeysAreOwned, Op
      <4>4. QED
        BY NoneAssumption, <1>5, <4>1, <4>3 DEF Names
    <3>2. CASE b = a /\ op'[a].pc = "setk"
      BY <1>4, <1>5, <2>3, <3>2
    <3>3. QED
      BY <3>1, <3>2
  <2>4. QED
    BY <2>1, <2>2, <2>3 DEF KeysAreOwned
<1>7. KeyIsFound'
  <2>1. SUFFICES ASSUME NEW v \in Users \ broken', userKey[v] # None
                 PROVE  \/ keyUser[userKey[v]] = v
                        \/ \E b \in Admins : /\ op'[b].pc \in {"rmu", "setk"}
                                             /\ op'[b].key = userKey[v]
    BY <1>1 DEF KeyIsFound
  <2>2. \/ keyUser[userKey[v]] = v
        \/ \E b \in Admins : op[b].pc \in {"rmu", "setk"} /\ op[b].key = userKey[v]
    BY <1>2, <2>1 DEF KeyIsFound
  <2>3. op[a].pc \in {"rmu", "setk"} /\ op[a].key = userKey[v] => v = u
    BY <1>0, <2>1 DEF KeysAreOwned
  <2>4. QED
    BY <1>1, <1>3, <2>2, <2>3
<1>8. OneReset'
  <2>1. SUFFICES ASSUME NEW v \in Users, v \notin broken', v \notin raced
                 PROVE  /\ \A b, c \in Admins : Resetting(b, v)' /\ Resetting(c, v)' => b = c
                        /\ \A k \in Keys : keyUser[k] = v => userKey[v] = k
                        /\ \A b \in Admins : Resetting(b, v)' =>
                              /\ op'[b].pc \in {"rmk", "setk"} => op'[b].key = userKey[v]
                              /\ op'[b].pc # "rmk" => \A k \in Keys : keyUser[k] # v
    BY <1>1 DEF OneReset
  <2>2. ~Resetting(a, v)'
    BY <1>4, <2>1 DEF Resetting
  <2>3. \A b \in Admins : Resetting(b, v)' => b # a /\ Resetting(b, v)
    BY <1>1, <2>2 DEF Resetting
  <2>4. QED
    BY <1>1, <1>2, <2>1, <2>3 DEF OneReset
<1>9. QED
  BY <1>6, <1>7, <1>8

-----------------------------------------------------------------------------
(* The edits. *)

\* What a command that has read nothing, or whose copy does not matter, puts back.
LEMMA BlindEdit ==
    ASSUME NEW cmd, cmd.kind \in Blind, NEW r, NEW s
    PROVE  Edited(cmd, r) = Edited(cmd, s)
BY DEF Edited, Blind

\* Whatever leaves the records alone, and brings no copy to anybody.
LEMMA EditsUntouched ==
    ASSUME EditInv, UNCHANGED recs,
           \A a \in Admins : \/ op'[a] = op[a]
                             \/ op'[a].pc # "write"
                             \/ op'[a].cmd.kind \in Blind
    PROVE  EditInv'
<1>1. CopyIsCurrent'
  <2>1. \A n : GetRecord(n)' = GetRecord(n)
    BY DEF GetRecord, GetFrom, recs
  <2>2. QED
    BY <2>1 DEF EditInv, CopyIsCurrent, recs
<1>2. EditsHold'
  BY DEF EditInv, EditsHold, recs
<1>3. QED
  BY <1>1, <1>2 DEF EditInv

LEMMA SessionEdits ==
    ASSUME Shape, EditInv, NEW a \in Admins, Session(a)
    PROVE  EditInv'
<1>0. op \in [Admins -> Op] /\ op[a] \in Op /\ overlapped \subseteq Names
      /\ db \in [Names -> UserRec \cup GroupRec \cup {None}]
      /\ meant \in [Names -> UserRec \cup GroupRec \cup {None}]
  BY DEF Shape, TypeOK, Op, Steps, Records
<1>n. NoOp.pc = "idle"
  BY DEF NoOp
<1>1. CASE Read(a)
  <2>1. UNCHANGED recs /\ \A b \in Admins \ {a} : op'[b] = op[b]
    BY <1>0, <1>1 DEF Read
  <2>2. op'[a] = NoOp \/ (op'[a].cmd = op[a].cmd /\ op'[a].copy = GetRecord(op[a].cmd.on))
    BY <1>0, <1>1 DEF Read, Op
  <2>3. CopyIsCurrent'
    <3>1. \A m : GetRecord(m)' = GetRecord(m)
      BY <2>1 DEF GetRecord, GetFrom, recs
    <3>2. QED
      BY <1>n, <2>1, <2>2, <3>1 DEF CopyIsCurrent, EditInv, recs
  <2>4. EditsHold'
    BY <2>1 DEF EditInv, EditsHold, recs
  <2>5. QED
    BY <2>3, <2>4 DEF EditInv
<1>2. CASE Write(a)
  <2> DEFINE n == op[a].cmd.on
             new == Edited(op[a].cmd, op[a].copy)
  <2>1. /\ op[a].pc = "write" /\ n \in Names
        /\ db' = [db EXCEPT ![n] = new] /\ op' = [op EXCEPT ![a] = NoOp]
    BY <1>2, CommandKinds DEF Write, Shape, OpShape
  <2>2. overlapped \subseteq overlapped'
    BY <1>2 DEF Write
  <2>3. EditsHold'
    <3>1. SUFFICES ASSUME NEW m \in Names \ overlapped' PROVE db'[m] = meant'[m]
      BY DEF EditsHold
    <3>2. m \notin overlapped /\ db[m] = meant[m]
      BY <2>2 DEF EditInv, EditsHold
    <3>3. CASE m = n
      <4>1. meant' = [meant EXCEPT ![n] = Edited(op[a].cmd, GetFrom(meant, n))]
        BY <1>2, <3>2, <3>3 DEF Write
      <4>2. op[a].cmd.kind \notin Blind => op[a].copy = GetFrom(meant, n)
        BY <2>1, <3>2, <3>3 DEF EditInv, CopyIsCurrent, GetRecord, GetFrom
      <4>3. Edited(op[a].cmd, GetFrom(meant, n)) = new
        BY <4>2, BlindEdit
      <4>4. QED
        BY <1>0, <2>1, <3>3, <4>1, <4>3
    <3>4. CASE m # n
      BY <1>0, <1>2, <2>1, <3>2, <3>4 DEF Write
    <3>5. QED
      BY <3>3, <3>4
  <2>4. CopyIsCurrent'
    <3>1. SUFFICES ASSUME NEW b \in Admins, op'[b].pc = "write", op'[b].cmd.kind \notin Blind,
                          op'[b].cmd.on \notin overlapped'
                   PROVE  op'[b].copy = GetFrom(db', op'[b].cmd.on)
      BY DEF CopyIsCurrent, GetRecord, GetFrom
    <3>2. b # a /\ op'[b] = op[b]
      BY <1>0, <1>n, <2>1, <3>1
    <3>3. op[b].cmd.on # n
      <4>1. op[b].cmd.on = n => b \in OthersAt(a, n)
        BY <3>1, <3>2 DEF OthersAt
      <4>2. OthersAt(a, n) # {} => n \in overlapped'
        BY <1>2 DEF Write
      <4>3. QED
        BY <3>1, <3>2, <4>1, <4>2
    <3>4. GetFrom(db', op[b].cmd.on) = GetFrom(db, op[b].cmd.on)
      <4>1. op[b].cmd.on \in Names
        BY <3>1, <3>2, CommandKinds DEF Shape, OpShape
      <4>2. db'[op[b].cmd.on] = db[op[b].cmd.on]
        BY <1>0, <2>1, <3>3, <4>1
      <4>3. QED
        BY <4>2 DEF GetFrom
    <3>5. QED
      BY <2>2, <3>1, <3>2, <3>4 DEF EditInv, CopyIsCurrent, GetRecord
  <2>5. QED
    BY <2>3, <2>4 DEF EditInv
<1>3. CASE \/ ReadGroup(a) \/ GetKey(a) \/ FindOldKey(a) \/ RemoveKey(a)
           \/ RemoveKeyOfUser(a) \/ SetKeyOfUser(a) \/ SetKey(a)
  <2>1. UNCHANGED recs
    BY <1>3 DEF ReadGroup, GetKey, FindOldKey, RemoveKey, RemoveKeyOfUser, SetKeyOfUser, SetKey
  <2>2. \A b \in Admins \ {a} : op'[b] = op[b]
    BY <1>0, <1>3
       DEF ReadGroup, GetKey, FindOldKey, RemoveKey, RemoveKeyOfUser, SetKeyOfUser, SetKey
  <2>3. op'[a].pc # "write"
    BY <1>0, <1>3, <1>n
       DEF ReadGroup, GetKey, FindOldKey, RemoveKey, RemoveKeyOfUser, SetKeyOfUser, SetKey, Op
  <2>4. QED
    BY <2>1, <2>2, <2>3, EditsUntouched
<1>4. QED
  BY <1>1, <1>2, <1>3 DEF Session

-----------------------------------------------------------------------------
(* The cache. *)

\* What changes nothing that the frontend can read leaves its state as current
\* as it was.
LEMMA CacheUntouched ==
    ASSUME CacheInv, UNCHANGED <<db, keyUser, call, cache, quiet>>
    PROVE  CacheInv'
<1>1. \A c : Current(c)' = Current(c)
  BY DEF Current, GroupsOf, GetRecord, GetFrom
<1>2. \A k : UserOf(k)' = UserOf(k)
  BY DEF UserOf, GroupsOf, GetRecord, GetFrom
<1>3. QED
  BY <1>1, <1>2 DEF CacheInv, CallsAreCurrent, CacheIsCurrent

\* A change starts the time anew, and no entry is kept for longer than that.
LEMMA CacheChanged ==
    ASSUME Shape, UNCHANGED front, quiet' = 0
    PROVE  CacheInv'
<1>1. call' \in [Calls -> Call] /\ \A c \in Calls : ~(quiet' > call'[c].age)
  BY DEF Shape, TypeOK, Call, front
<1>2. \A k \in Keys \cup {Public} : quiet' + cache'[k].left <= Settled
  BY CacheTimeAssumption DEF Shape, TypeOK, front
<1>3. QED
  BY <1>1, <1>2 DEF CacheInv, CallsAreCurrent, CacheIsCurrent

LEMMA SessionCache ==
    ASSUME Shape, CacheInv, NEW a \in Admins,
           Session(a) \/ PassOver(a) \/ BreakOff(a)
           \/ \E cmd \in bounds.commands : Begin(a, cmd)
    PROVE  CacheInv'
<1>1. CASE Write(a) \/ RemoveKey(a) \/ SetKey(a)
  BY <1>1, CacheChanged DEF Write, RemoveKey, SetKey
<1>2. CASE \/ ReadGroup(a) \/ Read(a) \/ GetKey(a) \/ FindOldKey(a)
           \/ RemoveKeyOfUser(a) \/ SetKeyOfUser(a)
  BY <1>2, CacheUntouched
     DEF ReadGroup, Read, GetKey, FindOldKey, RemoveKeyOfUser, SetKeyOfUser, recs, keys, front
<1>3. CASE PassOver(a) \/ BreakOff(a)
  BY <1>3, CacheUntouched DEF PassOver, BreakOff, recs, front
<1>4. ASSUME NEW cmd \in bounds.commands, Begin(a, cmd) PROVE CacheInv'
  BY <1>4, CacheUntouched DEF Begin, recs, keys, front
<1>5. QED
  BY <1>1, <1>2, <1>3, <1>4 DEF Session

\* A step of a call that leaves the cache alone.
LEMMA CallCurrent ==
    ASSUME Shape, CacheInv, NEW c \in Calls, NEW l \in Call,
           call' = [call EXCEPT ![c] = l],
           UNCHANGED <<db, keyUser, cache, quiet>>,
           quiet > l.age => Current(c)'
    PROVE  CacheInv'
<1>1. call \in [Calls -> Call] /\ \A d \in Calls : call'[d] = IF d = c THEN l ELSE call[d]
  BY DEF Shape, TypeOK, Call
<1>2. ASSUME NEW d \in Calls, d # c, Current(d) PROVE Current(d)'
  BY <1>1, <1>2 DEF Current, GroupsOf, GetRecord, GetFrom
<1>3. CallsAreCurrent'
  BY <1>1, <1>2 DEF CacheInv, CallsAreCurrent
<1>4. \A k : UserOf(k)' = UserOf(k)
  BY DEF UserOf, GroupsOf, GetRecord, GetFrom
<1>5. CacheIsCurrent'
  BY <1>4 DEF CacheInv, CacheIsCurrent
<1>6. QED
  BY <1>3, <1>5 DEF CacheInv

LEMMA FrontendCache ==
    ASSUME Shape, CacheInv, NEW c \in Calls, CallAction(c)
    PROVE  CacheInv'
<1>0. call \in [Calls -> Call] /\ call[c] \in Call
  BY DEF Shape, TypeOK, Call
<1>n. NoCall \in Call /\ NoCall.pc = "idle"
  BY DEF NoCall, Call, NoGroups
<1>u. UNCHANGED <<db, keyUser, quiet>>
  BY DEF CallAction, Lookup, ReadKey, ReadUser, Keep, ReadGroupOf, LookupFails, recs, keys
<1>r. /\ \A g : GetRecord(g)' = GetRecord(g)
      /\ \A v : GroupsOf(v)' = GroupsOf(v)
  BY <1>u DEF GetRecord, GetFrom, GroupsOf
<1>1. ASSUME NEW key \in Keys \cup {Public}, Lookup(c, key) PROVE CacheInv'
  <2> DEFINE p == [pc |-> "groups", key |-> key, name |-> Public,
                   full |-> NoGroups, todo |-> {Public}, age |-> 0]
             l == [NoCall EXCEPT !.pc = "key", !.key = key]
  <2>1. p \in Call
    BY PublicAssumption DEF Call, NoGroups
  <2>2. l \in Call /\ l.pc = "key"
    BY <1>n DEF Call
  <2>3. call' = [call EXCEPT ![c] = IF key = Public THEN p ELSE l] /\ UNCHANGED cache
    BY <1>1 DEF Lookup
  <2>4. CASE key = Public
    <3>1. call'[c] = p
      BY <1>0, <2>3, <2>4
    <3>2. GroupsOf(Public) = {Public}
      BY DEF GroupsOf
    <3>3. Current(c)'
      BY <1>r, <2>4, <3>1, <3>2 DEF Current, NoGroups
    <3>4. QED
      BY <1>u, <2>1, <2>3, <2>4, <3>3, CallCurrent
  <2>5. CASE key # Public
    <3>1. call'[c] = l
      BY <1>0, <2>3, <2>5
    <3>2. Current(c)'
      BY <2>2, <3>1 DEF Current
    <3>3. QED
      BY <1>u, <2>2, <2>3, <2>5, <3>2, CallCurrent
  <2>6. QED
    BY <2>4, <2>5
<1>2. CASE ReadKey(c)
  <2> DEFINE u == keyUser[call[c].key]
             l == [call[c] EXCEPT !.pc = "user", !.name = u]
  <2>1. call[c].key \in Keys /\ u \in Users \cup {None}
    BY <1>0, <1>2 DEF ReadKey, Shape, CallShape, TypeOK, Call
  <2>2. call' = [call EXCEPT ![c] = IF u = None THEN NoCall ELSE l] /\ UNCHANGED cache
    BY <1>2 DEF ReadKey
  <2>3. CASE u = None
    <3>1. Current(c)'
      BY <1>0, <1>n, <2>2, <2>3 DEF Current
    <3>2. QED
      BY <1>n, <1>u, <2>2, <2>3, <3>1, CallCurrent
  <2>4. CASE u # None
    <3>1. l \in Call /\ l.pc = "user" /\ l.key = call[c].key /\ l.name = u
      BY <1>0, <2>1, <2>4 DEF Call
    <3>2. call'[c] = l
      BY <1>0, <2>2, <2>4
    <3>3. Current(c)'
      BY <1>u, <3>1, <3>2 DEF Current
    <3>4. QED
      BY <1>u, <2>2, <2>4, <3>1, <3>3, CallCurrent
  <2>5. QED
    BY <2>3, <2>4
<1>3. CASE ReadUser(c)
  <2> DEFINE rec == db[call[c].name]
             l == [call[c] EXCEPT !.pc = "groups", !.todo = rec.groups \cup {Public}]
  <2>1. call[c].name \in Users /\ call[c].name # Public
    BY PublicAssumption, <1>3 DEF ReadUser, Shape, CallShape
  <2>2. call' = [call EXCEPT ![c] = IF rec = None THEN NoCall ELSE l] /\ UNCHANGED cache
    BY <1>3 DEF ReadUser
  <2>3. CASE rec = None
    <3>1. Current(c)'
      BY <1>0, <1>n, <2>2, <2>3 DEF Current
    <3>2. QED
      BY <1>n, <1>u, <2>2, <2>3, <3>1, CallCurrent
  <2>4. CASE rec # None
    <3>1. rec \in UserRec /\ rec.groups \subseteq Groups
      BY <2>1, <2>4, RecordsAreTyped DEF Shape, TypeOK, Names, UserRec
    <3>2. /\ l \in Call /\ l.pc = "groups" /\ l.key = call[c].key /\ l.name = call[c].name
          /\ l.todo = GroupsOf(l.name) /\ l.full = call[c].full /\ l.age = call[c].age
      BY PublicAssumption, <1>0, <2>1, <3>1 DEF Call, GroupsOf
    <3>3. call'[c] = l
      BY <1>0, <2>2, <2>4
    <3>4. call[c].key # Public /\ call[c].full = NoGroups
      BY <1>3 DEF ReadUser, Shape, CallShape
    <3>5. quiet > l.age => Current(c)'
      BY <1>3, <1>r, <1>u, <2>1, <2>4, <3>2, <3>3, <3>4
         DEF ReadUser, CacheInv, CallsAreCurrent, Current, NoGroups
    <3>6. QED
      BY <1>u, <2>2, <2>4, <3>2, <3>5, CallCurrent
  <2>5. QED
    BY <2>3, <2>4
<1>4. CASE Keep(c)
  <2> DEFINE key == call[c].key
             entry == [user |-> [name |-> call[c].name, full |-> call[c].full],
                       left |-> CacheTime]
  <2>1. call' = [call EXCEPT ![c] = NoCall] /\ cache' = [cache EXCEPT ![key] = entry]
    BY <1>4 DEF Keep
  <2>2. CallsAreCurrent'
    <3>1. \A d \in Calls : call'[d] = IF d = c THEN NoCall ELSE call[d]
      BY <1>0, <2>1
    <3>2. Current(c)'
      BY <1>n, <3>1 DEF Current
    <3>3. ASSUME NEW d \in Calls, d # c, Current(d) PROVE Current(d)'
      BY <1>r, <1>u, <3>1, <3>3 DEF Current
    <3>4. QED
      BY <1>u, <3>1, <3>2, <3>3 DEF CacheInv, CallsAreCurrent
  <2>3. \A k : UserOf(k)' = UserOf(k)
    BY <1>r, <1>u DEF UserOf
  <2>4. key \in Keys \cup {Public} /\ key # None
    BY <1>0, <1>4 DEF Keep, Shape, CallShape, Call
  <2>5. entry.user = UserOf(key) \/ quiet + entry.left <= Settled
    <3>1. CASE quiet > call[c].age
      <4>1. Current(c) /\ call[c].todo = {} /\ call[c].pc = "groups"
        BY <1>4, <3>1 DEF Keep, CacheInv, CallsAreCurrent
      <4>2. call[c].full = [g \in Groups |-> IF g \in GroupsOf(call[c].name)
                                             THEN GetRecord(g) ELSE None]
        BY <1>0, <4>1 DEF Current, Call
      <4>3. CASE key = Public
        BY PublicAssumption, NoneAssumption, <4>1, <4>2, <4>3 DEF UserOf, Current, Names
      <4>4. CASE key # Public
        BY NoneAssumption, <4>1, <4>2, <4>4 DEF UserOf, Current, Names
      <4>5. QED
        BY <4>3, <4>4
    <3>2. CASE ~(quiet > call[c].age)
      <4>1. quiet <= FillTime
        BY <1>0, <3>2 DEF Call, Shape, TypeOK
      <4>2. QED
        BY CacheTimeAssumption, <4>1 DEF Shape, TypeOK
    <3>3. QED
      BY <3>1, <3>2
  <2>6. CacheIsCurrent'
    <3>1. SUFFICES ASSUME NEW k \in Keys \cup {Public}, cache'[k].left > 0
                   PROVE  cache'[k].user = UserOf(k) \/ quiet + cache'[k].left <= Settled
      BY <1>u, <2>3 DEF CacheIsCurrent
    <3>2. cache'[k] = IF k = key THEN entry ELSE cache[k]
      BY <2>1 DEF Shape, TypeOK
    <3>3. QED
      BY <2>5, <3>1, <3>2 DEF CacheInv, CacheIsCurrent
  <2>7. QED
    BY <2>2, <2>6 DEF CacheInv
<1>5. ASSUME NEW g \in Groups, ReadGroupOf(c, g) PROVE CacheInv'
  <2> DEFINE l == [call[c] EXCEPT !.full = [@ EXCEPT ![g] = GetRecord(g)], !.todo = @ \ {g}]
  <2>1. GetRecord(g) \in GroupRec \cup {None}
    BY PublicAssumption, RecordsAreTyped DEF Shape, TypeOK, GetRecord, CopyOf, Names
  <2>2. /\ l \in Call /\ l.pc = call[c].pc /\ l.name = call[c].name /\ l.key = call[c].key
        /\ l.age = call[c].age /\ l.todo = call[c].todo \ {g}
        /\ l.full = [call[c].full EXCEPT ![g] = GetRecord(g)]
    BY <1>0, <2>1 DEF Call
  <2>3. call' = [call EXCEPT ![c] = l] /\ UNCHANGED cache
    BY <1>0, <1>5 DEF ReadGroupOf, Call
  <2>4. call'[c] = l
    BY <1>0, <2>3
  <2>5. ASSUME quiet > l.age PROVE Current(c)'
    <3>1. Current(c) /\ call[c].pc = "groups" /\ g \in call[c].todo
      BY <1>5, <2>2, <2>5 DEF ReadGroupOf, CacheInv, CallsAreCurrent
    <3>2. \A h \in Groups : l.full[h] = IF h = g THEN GetRecord(g) ELSE call[c].full[h]
      BY <1>0, <2>2 DEF Call
    <3>3. \A h \in Groups : l.full[h] = IF h \in GroupsOf(l.name) \ l.todo
                                        THEN GetRecord(h) ELSE None
      BY <2>2, <3>1, <3>2 DEF Current
    <3>4. QED
      BY <1>r, <1>u, <2>2, <2>4, <3>1, <3>3 DEF Current
  <2>6. QED
    BY <1>u, <2>2, <2>3, <2>5, CallCurrent
<1>6. CASE LookupFails(c)
  <2>1. call' = [call EXCEPT ![c] = NoCall] /\ UNCHANGED cache
    BY <1>6 DEF LookupFails
  <2>2. Current(c)'
    BY <1>0, <1>n, <2>1 DEF Current
  <2>3. QED
    BY <1>n, <1>u, <2>1, <2>2, CallCurrent
<1>7. QED
  BY <1>1, <1>2, <1>3, <1>4, <1>5, <1>6 DEF CallAction

LEMMA EndCache == ASSUME Shape, CacheInv, FrontendEnds PROVE CacheInv'
<1>1. \A c \in Calls : call'[c].pc = "idle"
  BY DEF FrontendEnds, NoCall
<1>2. \A k \in Keys \cup {Public} : cache'[k].left = 0
  BY DEF FrontendEnds, NoEntry
<1>3. CallsAreCurrent'
  BY <1>1 DEF CallsAreCurrent, Current
<1>4. CacheIsCurrent'
  BY <1>2 DEF CacheIsCurrent
<1>5. QED
  BY <1>3, <1>4 DEF CacheInv

LEMMA TickCache == ASSUME Shape, CacheInv, Tick PROVE CacheInv'
<1>0. call \in [Calls -> Call] /\ quiet \in 0 .. Settled
  BY DEF Shape, TypeOK, Call
<1>u. UNCHANGED <<db, keyUser>>
  BY DEF Tick, recs, keys
<1>r. /\ \A g : GetRecord(g)' = GetRecord(g)
      /\ \A v : GroupsOf(v)' = GroupsOf(v)
      /\ \A k : UserOf(k)' = UserOf(k)
  BY <1>u DEF GetRecord, GetFrom, GroupsOf, UserOf
<1>1. CallsAreCurrent'
  <2>1. SUFFICES ASSUME NEW c \in Calls, quiet' > call'[c].age PROVE Current(c)'
    BY DEF CallsAreCurrent
  <2>2. CASE call[c].pc = "idle"
    <3>1. call'[c].pc = "idle"
      BY <2>2 DEF Tick, NoCall
    <3>2. QED
      BY <3>1 DEF Current
  <2>3. CASE call[c].pc # "idle"
    <3>1. call'[c] = [call[c] EXCEPT !.age = @ + 1] /\ call[c] \in Call
      BY <1>0, <2>3 DEF Tick
    <3>2. quiet > call[c].age
      BY <1>0, <2>1, <2>3, <3>1 DEF Tick, Call
    <3>3. Current(c)
      BY <3>2 DEF CacheInv, CallsAreCurrent
    <3>4. /\ call'[c].pc = call[c].pc /\ call'[c].key = call[c].key
          /\ call'[c].name = call[c].name /\ call'[c].full = call[c].full
          /\ call'[c].todo = call[c].todo
      BY <3>1 DEF Call
    <3>5. QED
      BY <1>r, <1>u, <3>3, <3>4 DEF Current
  <2>4. QED
    BY <2>2, <2>3
<1>2. CacheIsCurrent'
  <2>1. SUFFICES ASSUME NEW k \in Keys \cup {Public}, cache'[k].left > 0
                 PROVE  cache'[k].user = UserOf(k) \/ quiet' + cache'[k].left <= Settled
    BY <1>r DEF CacheIsCurrent
  <2>2. cache[k] \in [user : User \cup {None}, left : 0 .. CacheTime]
    BY DEF Shape, TypeOK
  <2>3. cache'[k] = [cache[k] EXCEPT !.left = @ - 1] /\ cache[k].left > 1
    BY <2>1, <2>2 DEF Tick, NoEntry
  <2>4. cache'[k].user = cache[k].user /\ cache'[k].left = cache[k].left - 1
    BY <2>2, <2>3
  <2>p. cache[k].left > 0
    BY <2>2, <2>3
  <2>5. cache[k].user = UserOf(k) \/ quiet + cache[k].left <= Settled
    BY <2>p DEF CacheInv, CacheIsCurrent
  <2>6. quiet' <= quiet + 1 /\ quiet' \in 0 .. Settled
    BY CacheTimeAssumption, <1>0 DEF Tick
  <2>7. QED
    BY CacheTimeAssumption, <1>0, <2>2, <2>4, <2>5, <2>6
<1>3. QED
  BY <1>1, <1>2 DEF CacheInv

-----------------------------------------------------------------------------
(* The theorems. *)

\* The invariant holds in every state: each step is one of a session or one of
\* the frontend.
THEOREM AccessInvariant == Spec => []IInv
<1>1. Init => IInv
  <2> SUFFICES ASSUME Init PROVE IInv
    OBVIOUS
  <2>1. Shape
    BY InitShape
  <2>2. KeyInv
    <3>1. \A a \in Admins : op[a].pc = "idle"
      BY DEF Init, NoOp
    <3>2. \A u \in Users : userKey[u] = None /\ u # None
      BY NoneAssumption DEF Init, NoKeyOf, Names
    <3>3. \A k \in Keys : keyUser[k] = None
      BY DEF Init, NoUserOf
    <3>4. KeysAreOwned
      BY <3>1, <3>2, <3>3 DEF KeysAreOwned
    <3>5. KeyIsFound
      BY <3>2 DEF KeyIsFound
    <3>6. OneReset
      <4>1. \A a \in Admins, u \in Users : ~Resetting(a, u)
        BY <3>1 DEF Resetting
      <4>2. \A u \in Users, k \in Keys : keyUser[k] # u
        BY <3>2, <3>3
      <4>3. QED
        BY <4>1, <4>2 DEF OneReset
    <3>7. QED
      BY <3>4, <3>5, <3>6 DEF KeyInv
  <2>3. EditInv
    BY DEF Init, NoOp, EditInv, CopyIsCurrent, EditsHold
  <2>4. CacheInv
    <3>1. \A c \in Calls : Current(c)
      BY DEF Init, NoCall, Current
    <3>2. \A k \in Keys \cup {Public} : ~(cache[k].left > 0)
      BY DEF Init, NoEntry
    <3>3. QED
      BY <3>1, <3>2 DEF CacheInv, CallsAreCurrent, CacheIsCurrent
  <2>5. QED
    BY <2>1, <2>2, <2>3, <2>4 DEF IInv
<1>2. IInv /\ [Next]_vars => IInv'
  <2> SUFFICES ASSUME IInv, [Next]_vars PROVE IInv'
    OBVIOUS
  <2>0. Shape /\ KeyInv /\ EditInv /\ CacheInv
    BY DEF IInv
  <2>o. op \in [Admins -> Op]
    BY <2>0 DEF Shape, TypeOK, Op, Steps
  <2>1. ASSUME NEW a \in Admins, Session(a) PROVE IInv'
    <3>1. Shape' /\ EditInv' /\ CacheInv'
      BY <2>0, <2>1, SessionShape, SessionEdits, SessionCache
    <3>2. CASE ReadGroup(a) \/ Read(a) \/ Write(a) \/ GetKey(a)
      <4>1. UNCHANGED keys
        BY <3>2 DEF ReadGroup, Read, Write, GetKey
      <4>2. \A b \in Admins : op'[b] = op[b] \/ (op[b].pc \notin AtKey /\ op'[b].pc \notin AtKey)
        <5>1. \A b \in Admins \ {a} : op'[b] = op[b]
          BY <2>o, <3>2 DEF ReadGroup, Read, Write, GetKey
        <5>2. op[a].pc \in {"group", "read", "write", "get"}
          BY <3>2 DEF ReadGroup, Read, Write, GetKey
        <5>3. op[a] \in Op
          BY <2>o
        <5>4. op'[a].pc \in {"idle", "read", "write", "reset"}
          <6>1. CASE ReadGroup(a)
            BY <2>o, <5>3, <6>1 DEF ReadGroup, NoOp, Op
          <6>2. CASE Read(a)
            BY <2>o, <5>3, <6>2 DEF Read, NoOp, Op
          <6>3. CASE Write(a)
            BY <2>o, <5>3, <6>3 DEF Write, NoOp, Op
          <6>4. CASE GetKey(a)
            BY <2>o, <5>3, <6>4 DEF GetKey, NoOp, Op
          <6>5. QED
            BY <3>2, <6>1, <6>2, <6>3, <6>4
        <5>5. QED
          BY <5>1, <5>2, <5>4 DEF AtKey
      <4>3. QED
        BY <2>0, <3>1, <4>1, <4>2, KeysUntouched DEF IInv
    <3>3. CASE ~(ReadGroup(a) \/ Read(a) \/ Write(a) \/ GetKey(a))
      BY <2>0, <2>1, <3>1, <3>3, ResetKeys DEF IInv, Session
    <3>4. QED
      BY <3>2, <3>3
  <2>2. ASSUME NEW a \in Admins, PassOver(a) \/ BreakOff(a) PROVE IInv'
    <3>1. Shape' /\ KeyInv' /\ CacheInv'
      BY <2>0, <2>2, FaultShape, FaultKeys, SessionCache
    <3>2. UNCHANGED recs /\ \A b \in Admins \ {a} : op'[b] = op[b]
      BY <2>o, <2>2 DEF PassOver, BreakOff
    <3>a. op[a] \in Op
      BY <2>o
    <3>3. op'[a].pc # "write"
      <4>1. CASE BreakOff(a)
        BY <2>o, <4>1 DEF BreakOff, NoOp
      <4>2. CASE PassOver(a) /\ op[a].pc = "setu"
        <5>1. PICK k \in Keys : op' = [op EXCEPT ![a].pc = "setk", ![a].key = k]
          BY <4>2 DEF PassOver
        <5>2. op'[a] = [op[a] EXCEPT !.pc = "setk", !.key = k]
          BY <2>o, <5>1
        <5>3. QED
          BY <3>a, <5>2 DEF Op
      <4>3. CASE PassOver(a) /\ op[a].pc # "setu"
        <5>1. op' = [op EXCEPT ![a] =
                  CASE @.pc = "rmk" -> [@ EXCEPT !.pc = "rmu"]
                    [] @.pc = "rmu" -> [@ EXCEPT !.pc = "setu", !.key = None]
                    [] @.pc = "setk" -> NoOp]
          BY <4>3 DEF PassOver
        <5>2. op'[a] = CASE op[a].pc = "rmk" -> [op[a] EXCEPT !.pc = "rmu"]
                         [] op[a].pc = "rmu" -> [op[a] EXCEPT !.pc = "setu", !.key = None]
                         [] op[a].pc = "setk" -> NoOp
          BY <2>o, <5>1
        <5>3. op[a].pc \in {"rmk", "rmu", "setk"}
          BY <4>3 DEF PassOver
        <5>4. op'[a].pc \in {"rmu", "setu", "idle"}
          BY <3>a, <5>2, <5>3 DEF NoOp, Op
        <5>5. QED
          BY <5>4
      <4>6. QED
        BY <2>2, <4>1, <4>2, <4>3
    <3>4. QED
      BY <2>0, <3>1, <3>2, <3>3, EditsUntouched DEF IInv
  <2>3. ASSUME NEW a \in Admins, NEW cmd \in bounds.commands, Begin(a, cmd) PROVE IInv'
    <3>1. Shape' /\ CacheInv'
      BY <2>0, <2>3, FaultShape, SessionCache
    <3>2. UNCHANGED <<recs, keys>> /\ \A b \in Admins \ {a} : op'[b] = op[b]
      BY <2>o, <2>3 DEF Begin
    <3>3. op'[a].pc = FirstStep(cmd.kind) /\ op'[a].cmd = cmd /\ op[a].pc = "idle"
      BY <2>o, <2>3 DEF Begin, Op
    <3>4. op'[a].pc \notin AtKey /\ (op'[a].pc = "write" => cmd.kind \in Blind)
      BY <3>3 DEF FirstStep, AtKey, Blind
    <3>5. KeyInv'
      BY <2>0, <3>2, <3>3, <3>4, KeysUntouched DEF AtKey
    <3>6. EditInv'
      BY <2>0, <3>2, <3>3, <3>4, EditsUntouched
    <3>7. QED
      BY <3>1, <3>5, <3>6 DEF IInv
  <2>4. ASSUME NEW c \in Calls, CallAction(c) PROVE IInv'
    <3>1. Shape' /\ CacheInv'
      BY <2>0, <2>4, FrontendShape, FrontendCache
    <3>2. UNCHANGED <<recs, keys, op>>
      BY <2>4 DEF CallAction, Lookup, ReadKey, ReadUser, Keep, ReadGroupOf, LookupFails
    <3>3. QED
      BY <2>0, <3>1, <3>2, KeysUntouched, EditsUntouched DEF IInv
  <2>5. CASE Tick \/ FrontendEnds
    <3>1. Shape' /\ CacheInv'
      BY <2>0, <2>5, TickShape, TickCache, EndShape, EndCache
    <3>2. UNCHANGED <<recs, keys, op>>
      BY <2>5 DEF Tick, FrontendEnds
    <3>3. QED
      BY <2>0, <3>1, <3>2, KeysUntouched, EditsUntouched DEF IInv
  <2>6. CASE UNCHANGED vars
    <3>1. Shape'
      BY <2>0, <2>6 DEF vars, Shape, TypeOK, OpShape, CallShape
    <3>2. UNCHANGED <<recs, keys, op>> /\ UNCHANGED <<db, keyUser, call, cache, quiet>>
      BY <2>6 DEF vars, recs, keys
    <3>3. QED
      BY <2>0, <3>1, <3>2, KeysUntouched, EditsUntouched, CacheUntouched DEF IInv
  <2>7. QED
    BY <2>1, <2>2, <2>3, <2>4, <2>5, <2>6 DEF Next, CallAction
<1>3. QED
  BY <1>1, <1>2, PTL DEF Spec

\* Every variable keeps its type.
THEOREM TypeCorrect == Spec => []TypeOK
<1>1. IInv => TypeOK
  BY DEF IInv, Shape
<1>2. QED
  BY <1>1, AccessInvariant, PTL

\* Whatever resets race, the key a user is shown works once they are done.
THEOREM CurrentKey == Spec => []CurrentKeyWorks
<1>1. IInv => CurrentKeyWorks
  <2> SUFFICES ASSUME IInv, NEW u \in Users \ broken, userKey[u] # None,
                      \A a \in Admins : ~Resetting(a, u)
               PROVE  keyUser[userKey[u]] = u
    BY DEF CurrentKeyWorks
  <2>1. ASSUME NEW a \in Admins, op[a].pc \in {"rmu", "setk"}, op[a].key = userKey[u]
        PROVE  FALSE
    BY <2>1 DEF IInv, KeyInv, KeysAreOwned, Resetting
  <2>2. QED
    BY <2>1 DEF IInv, KeyInv, KeyIsFound
<1>2. QED
  BY <1>1, AccessInvariant, PTL

\* A key that was replaced by a reset that nothing disturbed is not taken.
THEOREM ReplacedKeys == Spec => []ReplacedKeysRefused
<1>1. IInv => ReplacedKeysRefused
  BY DEF IInv, KeyInv, OneReset, ReplacedKeysRefused
<1>2. QED
  BY <1>1, AccessInvariant, PTL

\* Edits of a record that did not overlap are as good as atomic ones.
THEOREM EditsAreAtomic == Spec => []EditsHold
<1>1. IInv => EditsHold
  BY DEF IInv, EditInv
<1>2. QED
  BY <1>1, AccessInvariant, PTL

\* The frontend follows every change within the time it remembers users for.
THEOREM FrontendFollows == Spec => []ChangesTakeEffect
<1>1. IInv => ChangesTakeEffect
  <2> SUFFICES ASSUME IInv, quiet = Settled, NEW k \in Keys \cup {Public}, cache[k].left > 0
               PROVE  cache[k].user = UserOf(k)
    BY DEF ChangesTakeEffect
  <2>1. cache[k].left \in 0 .. CacheTime
    BY DEF IInv, Shape, TypeOK
  <2>2. ~(quiet + cache[k].left <= Settled)
    BY <2>1
  <2>3. QED
    BY <2>2 DEF IInv, CacheInv, CacheIsCurrent
<1>2. QED
  BY <1>1, AccessInvariant, PTL
=============================================================================
