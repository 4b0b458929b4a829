----------------------------- MODULE AccessControl -----------------------------
(***************************************************************************)
(* acl/acl.go: users, groups and API keys in etcd.  Administrators edit    *)
(* them from sessions of the admin console (acl/module.go) and the admin   *)
(* API.  An edit reads a record, changes the copy and puts it back; no     *)
(* edit uses a transaction.  The API frontend (tools/apifrontend) looks up *)
(* the user of an API key, and keeps what it found for some minutes.       *)
(*                                                                         *)
(* The records of users and groups are one function, db, over the names of *)
(* their etcd keys.  The group Public is there even when it has no record. *)
(* The identity provider is the builtin one, the only one there is.        *)
(***************************************************************************)
EXTENDS Integers, FiniteSets

CONSTANTS Users, Groups,
          Public,       \* the group, and the user of calls without a key
          Keys,         \* what rand.Read can give
          Admins,       \* sessions of administrators
          Calls,        \* calls that the frontend serves at a time
          Prefixes, Caps, Passwords,
          Root,         \* the empty prefix
          None,
          CacheTime,    \* UserCacheTime, in ticks
          Scenarios     \* the records and commands of a behaviour, and how many

Names == Users \cup Groups

UserRec  == [groups : SUBSET Groups, password : Passwords]
GroupRec == [prefixes : SUBSET Prefixes, caps : SUBSET Caps]

Records ==
    {f \in [Names -> UserRec \cup GroupRec \cup {None}] :
        /\ \A u \in Users : f[u] \in UserRec \cup {None}
        /\ \A g \in Groups : f[g] \in GroupRec \cup {None}}

Edits == [kind : {"createUser", "setPassword"}, on : Users, arg : Passwords]
         \cup [kind : {"joinGroup", "leaveGroup"}, on : Users, arg : Groups]
         \cup [kind : {"deleteUser"}, on : Users, arg : {None}]
         \cup [kind : {"addGroup", "deleteGroup"}, on : Groups, arg : {None}]
         \cup [kind : {"addPrefix", "removePrefix"}, on : Groups, arg : Prefixes]
         \cup [kind : {"addCap", "removeCap"}, on : Groups, arg : Caps]

KeyCommands == [kind : {"getKey", "resetKey"}, on : Users, arg : {None}]

Command == Edits \cup KeyCommands

Scenario == [db : Records, commands : SUBSET Command, calls : SUBSET Calls,
             edits : Nat, faults : Nat]

ASSUME PublicAssumption ==
    Public \in Groups /\ Public \notin Keys /\ Users \cap Groups = {}
ASSUME RootAssumption == Root \in Prefixes
ASSUME NoneAssumption ==
    None \notin Names \cup Keys \cup UserRec \cup GroupRec \cup Command
ASSUME CacheTimeAssumption == CacheTime \in Nat
ASSUME ScenariosAssumption == Scenarios \subseteq Scenario

VARIABLES
    bounds, used,
    db,         \* etcd: auth/users/... and auth/groups/...
    userKey,    \* etcd: apikey/u/...
    keyUser,    \* etcd: apikey/k/...
    op,         \* the command that each administrator's session executes
    call,       \* each call that the frontend serves
    cache,      \* cachedUsersByKey
    \* What has happened:
    owner,      \* the user that a key was generated for
    raced,      \* users of whom two resets of the key overlapped
    broken,     \* users of whom a reset of the key was not completed
    meant,      \* the records as whole edits, one after another, make them
    overlapped, \* records that two edits were at, at the same time
    quiet       \* ticks since a record or a key changed

vars  == <<bounds, used, db, userKey, keyUser, op, call, cache,
           owner, raced, broken, meant, overlapped, quiet>>
recs  == <<db, meant, overlapped>>
keys  == <<userKey, keyUser, owner, raced, broken>>
front == <<call, cache>>

\* The reads that look up a user are bounded by a tick.  The code sets no deadline
\* for them (context.Background()): of one that takes longer nothing is said.
FillTime == 1

\* After this time the frontend has forgotten what it read before.
Settled == CacheTime + FillTime

NoOp   == [pc |-> "idle", cmd |-> None, copy |-> None, key |-> None]
NoGroups == [g \in Groups |-> None]
NoCall == [pc |-> "idle", key |-> None, name |-> None, full |-> NoGroups,
           todo |-> {}, age |-> 0]
NoEntry == [user |-> None, left |-> 0]

\* What the frontend makes of a user: the groups that were found.
User == [name : Users \cup {Public}, full : [Groups -> GroupRec \cup {None}]]

TypeOK ==
    /\ bounds \in Scenario
    /\ used \in [edits : Nat, faults : Nat]
    /\ db \in Records
    /\ userKey \in [Users -> Keys \cup {None}]
    /\ keyUser \in [Keys -> Users \cup {None}]
    /\ op \in [Admins -> [pc : {"idle", "group", "read", "write", "get", "reset", "rmk",
                                "rmu", "setu", "setk"},
                          cmd : Command \cup {None},
                          copy : UserRec \cup GroupRec \cup {None},
                          key : Keys \cup {None}]]
    /\ call \in [Calls -> [pc : {"idle", "key", "user", "groups"},
                           key : Keys \cup {Public, None},
                           name : Users \cup {Public, None},
                           full : [Groups -> GroupRec \cup {None}],
                           todo : SUBSET Groups, age : 0 .. FillTime]]
    /\ cache \in [Keys \cup {Public} -> [user : User \cup {None}, left : 0 .. CacheTime]]
    /\ owner \in [Keys -> Users \cup {None}]
    /\ raced \subseteq Users /\ broken \subseteq Users
    /\ meant \in Records
    /\ overlapped \subseteq Names
    /\ quiet \in 0 .. Settled

NoKeyOf == [u \in Users |-> None]
NoUserOf == [k \in Keys |-> None]

Init ==
    /\ bounds \in Scenarios
    /\ used = [edits |-> 0, faults |-> 0]
    /\ db = bounds.db /\ meant = bounds.db /\ overlapped = {}
    /\ userKey = NoKeyOf /\ keyUser = NoUserOf
    /\ owner = NoUserOf /\ raced = {} /\ broken = {}
    /\ op = [a \in Admins |-> NoOp]
    /\ call = [c \in Calls |-> NoCall]
    /\ cache = [k \in Keys \cup {Public} |-> NoEntry]
    /\ quiet = 0

Use(kind) ==
    /\ used[kind] < bounds[kind]
    /\ used' = [used EXCEPT ![kind] = @ + 1]

-----------------------------------------------------------------------------
(* Edits of users and groups. *)

AllCaps == [prefixes |-> {Root}, caps |-> Caps]

\* GetGroup: "The public group always exists".
GetFrom(store, n) == IF n = Public /\ store[n] = None THEN AllCaps ELSE store[n]

GetRecord(n) == GetFrom(db, n)

FirstStep(kind) ==
    CASE kind = "addGroup"  -> "write"
      [] kind = "joinGroup" -> "group"
      [] kind = "getKey"    -> "get"
      [] kind = "resetKey"  -> "reset"
      [] OTHER -> "read"

Begin(a, cmd) ==
    /\ op[a].pc = "idle"
    /\ Use("edits")
    /\ op' = [op EXCEPT ![a].pc = FirstStep(cmd.kind), ![a].cmd = cmd]
    /\ UNCHANGED <<bounds, quiet>> /\ UNCHANGED <<recs, keys, front>>

\* AddUserToGroup looks for the group first.
ReadGroup(a) ==
    /\ op[a].pc = "group"
    /\ op' = [op EXCEPT ![a] = IF GetRecord(op[a].cmd.arg) = None THEN NoOp
                               ELSE [@ EXCEPT !.pc = "read"]]
    /\ UNCHANGED <<bounds, used, quiet>> /\ UNCHANGED <<recs, keys, front>>

\* The conditions under which a command returns, with an error or because there
\* is nothing to do, once it has read the record.
Returns(cmd, rec) ==
    \/ cmd.kind = "createUser" /\ rec # None
    \/ cmd.kind # "createUser" /\ rec = None
    \/ cmd.kind = "joinGroup" /\ rec # None /\ cmd.arg \in rec.groups
    \/ cmd.kind = "addPrefix" /\ rec # None /\ cmd.arg \in rec.prefixes
    \/ cmd.kind = "addCap" /\ rec # None /\ cmd.arg \in rec.caps

\* The record that a command puts back.
Edited(cmd, rec) ==
    CASE cmd.kind = "createUser"   -> [groups |-> {}, password |-> cmd.arg]
      [] cmd.kind = "setPassword"  -> [rec EXCEPT !.password = cmd.arg]
      [] cmd.kind = "joinGroup"    -> [rec EXCEPT !.groups = @ \cup {cmd.arg}]
      [] cmd.kind = "leaveGroup"   -> [rec EXCEPT !.groups = @ \ {cmd.arg}]
      [] cmd.kind = "addGroup"     -> [prefixes |-> {}, caps |-> {}]
      [] cmd.kind = "addPrefix"    -> [rec EXCEPT !.prefixes = @ \cup {cmd.arg}]
      [] cmd.kind = "removePrefix" -> [rec EXCEPT !.prefixes = @ \ {cmd.arg}]
      [] cmd.kind = "addCap"       -> [rec EXCEPT !.caps = @ \cup {cmd.arg}]
      [] cmd.kind = "removeCap"    -> [rec EXCEPT !.caps = @ \ {cmd.arg}]
      [] OTHER -> None

\* What these put back does not depend on what was read.
Blind == {"addGroup", "deleteUser", "deleteGroup"}

\* The other sessions that are between reading a record and putting it back.
OthersAt(a, n) ==
    {b \in Admins \ {a} : op[b].pc = "write" /\ op[b].cmd.on = n /\ op[b].cmd.kind \notin Blind}

\* Mutant: a password is set in a new record.
ReadAnew(a) ==
    LET cmd == op[a].cmd
        rec == GetRecord(cmd.on)
    IN
    /\ op[a].pc = "read"
    /\ op' = [op EXCEPT ![a] =
           IF Returns(cmd, rec) THEN NoOp
           ELSE [@ EXCEPT !.pc = "write",
                          !.copy = IF cmd.kind = "setPassword"
                                   THEN [rec EXCEPT !.groups = {}] ELSE rec]]
    /\ UNCHANGED <<bounds, used, quiet>> /\ UNCHANGED <<recs, keys, front>>

Read(a) ==
    LET cmd == op[a].cmd
        rec == GetRecord(cmd.on)
    IN
    /\ op[a].pc = "read"
    /\ op' = [op EXCEPT ![a] = IF Returns(cmd, rec) THEN NoOp
                               ELSE [@ EXCEPT !.pc = "write", !.copy = rec]]
    /\ UNCHANGED <<bounds, used, quiet>> /\ UNCHANGED <<recs, keys, front>>

\* The record is put back, or deleted.  A command that is at the record at the
\* same time will put back something that knows nothing of it.
Write(a) ==
    LET cmd == op[a].cmd
        others == OthersAt(a, cmd.on)
    IN
    /\ op[a].pc = "write"
    /\ db' = [db EXCEPT ![cmd.on] = Edited(cmd, op[a].copy)]
    /\ overlapped' = IF others = {} THEN overlapped ELSE overlapped \cup {cmd.on}
    /\ meant' = IF cmd.on \in overlapped THEN meant
                ELSE [meant EXCEPT ![cmd.on] = Edited(cmd, GetFrom(meant, cmd.on))]
    /\ op' = [op EXCEPT ![a] = NoOp]
    /\ quiet' = 0
    /\ UNCHANGED <<bounds, used>> /\ UNCHANGED <<keys, front>>

-----------------------------------------------------------------------------
(* API keys. *)

Resetting(a, u) == op[a].pc \in {"rmk", "rmu", "setu", "setk"} /\ op[a].cmd.on = u

\* GetAPIKey: only a user without a key is given one.
GetKey(a) ==
    /\ op[a].pc = "get"
    /\ op' = [op EXCEPT ![a] = IF userKey[op[a].cmd.on] = None
                               THEN [@ EXCEPT !.pc = "reset"] ELSE NoOp]
    /\ UNCHANGED <<bounds, used, quiet>> /\ UNCHANGED <<recs, keys, front>>

\* ResetAPIKey: the old key is read, ...
FindOldKey(a) ==
    LET u == op[a].cmd.on IN
    /\ op[a].pc = "reset"
    /\ op' = [op EXCEPT ![a].pc = IF userKey[u] = None THEN "setu" ELSE "rmk",
                        ![a].key = userKey[u]]
    /\ raced' = IF \E b \in Admins \ {a} : Resetting(b, u) THEN raced \cup {u} ELSE raced
    /\ UNCHANGED <<bounds, used, quiet, userKey, keyUser, owner, broken>>
    /\ UNCHANGED <<recs, front>>

\* Mutant: the old key is only forgotten, and not removed.
ForgetKey(a) ==
    /\ op[a].pc = "rmk"
    /\ op' = [op EXCEPT ![a].pc = "rmu"]
    /\ quiet' = 0
    /\ UNCHANGED <<bounds, used, keyUser, userKey, owner, raced, broken>>
    /\ UNCHANGED <<recs, front>>

\* ... it is removed in both places, ...
RemoveKey(a) ==
    /\ op[a].pc = "rmk"
    /\ keyUser' = [keyUser EXCEPT ![op[a].key] = None]
    /\ op' = [op EXCEPT ![a].pc = "rmu"]
    /\ quiet' = 0
    /\ UNCHANGED <<bounds, used, userKey, owner, raced, broken>> /\ UNCHANGED <<recs, front>>

RemoveKeyOfUser(a) ==
    /\ op[a].pc = "rmu"
    /\ userKey' = [userKey EXCEPT ![op[a].cmd.on] = None]
    /\ op' = [op EXCEPT ![a].pc = "setu", ![a].key = None]
    /\ UNCHANGED <<bounds, used, keyUser, owner, raced, broken, quiet>>
    /\ UNCHANGED <<recs, front>>

\* ... and a new one is generated and noted in both.
SetKeyOfUser(a) ==
    /\ op[a].pc = "setu"
    /\ \E k \in Keys :
          /\ owner[k] = None
          /\ owner' = [owner EXCEPT ![k] = op[a].cmd.on]
          /\ userKey' = [userKey EXCEPT ![op[a].cmd.on] = k]
          /\ op' = [op EXCEPT ![a].pc = "setk", ![a].key = k]
    /\ UNCHANGED <<bounds, used, keyUser, raced, broken, quiet>> /\ UNCHANGED <<recs, front>>

\* Mutant: a key is only noted for a user who exists.
SetKeyOfExisting(a) ==
    /\ op[a].pc = "setk"
    /\ keyUser' = [keyUser EXCEPT ![op[a].key] =
                     IF db[op[a].cmd.on] = None THEN None ELSE op[a].cmd.on]
    /\ op' = [op EXCEPT ![a] = NoOp]
    /\ quiet' = 0
    /\ UNCHANGED <<bounds, used, userKey, owner, raced, broken>> /\ UNCHANGED <<recs, front>>

SetKey(a) ==
    /\ op[a].pc = "setk"
    /\ keyUser' = [keyUser EXCEPT ![op[a].key] = op[a].cmd.on]
    /\ op' = [op EXCEPT ![a] = NoOp]
    /\ quiet' = 0
    /\ UNCHANGED <<bounds, used, userKey, owner, raced, broken>> /\ UNCHANGED <<recs, front>>

\* The errors of the two removals and the two writes are dropped: a step that
\* fails is passed over, and the new key is returned all the same.
PassOver(a) ==
    /\ op[a].pc \in {"rmk", "rmu", "setu", "setk"}
    /\ Use("faults")
    /\ broken' = broken \cup {op[a].cmd.on}
    /\ IF op[a].pc = "setu"
       THEN \E k \in Keys :
               /\ owner[k] = None
               /\ owner' = [owner EXCEPT ![k] = op[a].cmd.on]
               /\ op' = [op EXCEPT ![a].pc = "setk", ![a].key = k]
       ELSE /\ op' = [op EXCEPT ![a] =
                  CASE @.pc = "rmk" -> [@ EXCEPT !.pc = "rmu"]
                    [] @.pc = "rmu" -> [@ EXCEPT !.pc = "setu", !.key = None]
                    [] @.pc = "setk" -> NoOp]
            /\ UNCHANGED owner
    /\ UNCHANGED <<bounds, quiet, userKey, keyUser, raced>> /\ UNCHANGED <<recs, front>>

\* A session ends or a process dies in the middle of a command.  A reset that has
\* removed the key in one place, or set it in one, is left half done.
BreakOff(a) ==
    /\ op[a].pc # "idle"
    /\ Use("faults")
    /\ broken' = IF op[a].pc \in {"rmu", "setk"} THEN broken \cup {op[a].cmd.on} ELSE broken
    /\ op' = [op EXCEPT ![a] = NoOp]
    /\ UNCHANGED <<bounds, quiet, userKey, keyUser, owner, raced>> /\ UNCHANGED <<recs, front>>

-----------------------------------------------------------------------------
(* The frontend. *)

\* Mutant: an entry that is used is kept for longer.
LookupRenews(c, key) ==
    /\ c \in bounds.calls
    /\ call[c].pc = "idle"
    /\ IF cache[key].left = 0
       THEN /\ call' = [call EXCEPT ![c] =
                  IF key = Public
                  THEN [pc |-> "groups", key |-> key, name |-> Public,
                        full |-> NoGroups, todo |-> {Public}, age |-> 0]
                  ELSE [NoCall EXCEPT !.pc = "key", !.key = key]]
            /\ UNCHANGED cache
       ELSE /\ cache' = [cache EXCEPT ![key].left = CacheTime]
            /\ UNCHANGED call
    /\ UNCHANGED <<bounds, used, quiet>> /\ UNCHANGED <<recs, keys, op>>

\* A call without a key is the public user's.  (One whose key is empty is nobody's:
\* it looks nobody up, and is a reason for FrontendEnds.)
Lookup(c, key) ==
    /\ c \in bounds.calls
    /\ call[c].pc = "idle"
    /\ cache[key].left = 0
    /\ call' = [call EXCEPT ![c] =
           IF key = Public
           THEN [pc |-> "groups", key |-> key, name |-> Public,
                 full |-> NoGroups, todo |-> {Public}, age |-> 0]
           ELSE [NoCall EXCEPT !.pc = "key", !.key = key]]
    /\ UNCHANGED <<bounds, used, cache, quiet>> /\ UNCHANGED <<recs, keys, op>>

\* UserFromAPIKey
ReadKey(c) ==
    LET u == keyUser[call[c].key] IN
    /\ call[c].pc = "key"
    /\ call' = [call EXCEPT ![c] = IF u = None THEN NoCall
                                   ELSE [@ EXCEPT !.pc = "user", !.name = u]]
    /\ UNCHANGED <<bounds, used, cache, quiet>> /\ UNCHANGED <<recs, keys, op>>

\* GetBuiltinUser: the record of the user, ...
ReadUser(c) ==
    LET rec == db[call[c].name] IN
    /\ call[c].pc = "user"
    /\ call' = [call EXCEPT ![c] =
           IF rec = None THEN NoCall
           ELSE [@ EXCEPT !.pc = "groups", !.todo = rec.groups \cup {Public}]]
    /\ UNCHANGED <<bounds, used, cache, quiet>> /\ UNCHANGED <<recs, keys, op>>

\* ... and each group in the order of the user's list, which may be any.
ReadGroupOf(c, g) ==
    /\ call[c].pc = "groups"
    /\ g \in call[c].todo
    /\ call' = [call EXCEPT ![c].full[g] = GetRecord(g), ![c].todo = @ \ {g}]
    /\ UNCHANGED <<bounds, used, cache, quiet>> /\ UNCHANGED <<recs, keys, op>>

\* Mutant: the time of the lookup is added to the time that it is kept.
KeepLonger(c) ==
    /\ call[c].pc = "groups"
    /\ call[c].todo = {}
    /\ cache' = [cache EXCEPT ![call[c].key] =
           [user |-> [name |-> call[c].name, full |-> call[c].full],
            left |-> CacheTime + call[c].age]]
    /\ call' = [call EXCEPT ![c] = NoCall]
    /\ UNCHANGED <<bounds, used, quiet>> /\ UNCHANGED <<recs, keys, op>>

\* The user is kept from now on, and the call is served.
Keep(c) ==
    /\ call[c].pc = "groups"
    /\ call[c].todo = {}
    /\ cache' = [cache EXCEPT ![call[c].key] =
           [user |-> [name |-> call[c].name, full |-> call[c].full], left |-> CacheTime]]
    /\ call' = [call EXCEPT ![c] = NoCall]
    /\ UNCHANGED <<bounds, used, quiet>> /\ UNCHANGED <<recs, keys, op>>

\* etcd does not answer a lookup: the call is refused.  Where the public user is
\* looked up the frontend panics instead.
LookupFails(c) ==
    /\ call[c].pc # "idle" /\ call[c].key # Public
    /\ call[c].pc = "groups" => call[c].todo # {}
    /\ Use("faults")
    /\ call' = [call EXCEPT ![c] = NoCall]
    /\ UNCHANGED <<bounds, cache, quiet>> /\ UNCHANGED <<recs, keys, op>>

\* The frontend ends, by this panic, by one for a call with an empty key, which has
\* no user, or otherwise; and starts again.
FrontendEnds ==
    /\ bounds.calls # {} /\ Use("faults")
    /\ call' = [c \in Calls |-> NoCall]
    /\ cache' = [k \in Keys \cup {Public} |-> NoEntry]
    /\ UNCHANGED <<bounds, quiet>> /\ UNCHANGED <<recs, keys, op>>

\* Time passes.  An entry that has expired is as good as none.
Tick ==
    /\ \A c \in Calls : call[c].pc # "idle" => call[c].age < FillTime
    /\ call' = [c \in Calls |-> IF call[c].pc = "idle" THEN NoCall
                                ELSE [call[c] EXCEPT !.age = @ + 1]]
    /\ cache' = [k \in Keys \cup {Public} |->
           IF cache[k].left <= 1 THEN NoEntry ELSE [cache[k] EXCEPT !.left = @ - 1]]
    /\ quiet' = IF quiet < Settled THEN quiet + 1 ELSE quiet
    /\ UNCHANGED <<bounds, used, op>> /\ UNCHANGED <<recs, keys>>

Session(a) ==
    \/ ReadGroup(a) \/ Read(a) \/ Write(a)
    \/ GetKey(a) \/ FindOldKey(a) \/ RemoveKey(a) \/ RemoveKeyOfUser(a)
    \/ SetKeyOfUser(a) \/ SetKey(a)

Next ==
    \/ \E a \in Admins : Session(a) \/ PassOver(a) \/ BreakOff(a)
    \/ \E a \in Admins, cmd \in bounds.commands : Begin(a, cmd)
    \/ \E c \in Calls, key \in Keys \cup {Public} : Lookup(c, key)
    \/ \E c \in Calls : ReadKey(c) \/ ReadUser(c) \/ Keep(c) \/ LookupFails(c)
    \/ \E c \in Calls, g \in Groups : ReadGroupOf(c, g)
    \/ FrontendEnds
    \/ Tick

Spec == Init /\ [][Next]_vars

-----------------------------------------------------------------------------
(* However many administrators reset a user's key at the same time: when they
   are done, the key that the user is shown is the user's, unless one of them
   was broken off or could not write (acl.go, ResetAPIKey). *)
CurrentKeyWorks ==
    \A u \in Users \ broken :
        userKey[u] # None /\ (\A a \in Admins : ~Resetting(a, u))
        => keyUser[userKey[u]] = u

(* And at any time etcd has no other key for the user's than the one the user is
   shown, unless two resets overlapped: then there may be more.  A frontend that
   had looked up a replaced key takes it until it forgets: ChangesTakeEffect. *)
ReplacedKeysRefused ==
    \A u \in Users \ (broken \cup raced), k \in Keys : keyUser[k] = u => userKey[u] = k

(* Commands that only ever change a record one after the other make what they
   say, each all of its change and nothing else; only a command that was at the
   record at the same time can undo another's change, bring back a user who was
   deleted, or take a user for new who is not (acl.go, the edits). *)
EditsHold == \A n \in Names \ overlapped : db[n] = meant[n]

\* The user that etcd has for a key, if there is one.
GroupsOf(u) == IF u = Public THEN {Public} ELSE db[u].groups \cup {Public}

UserOf(key) ==
    LET u == IF key = Public THEN Public ELSE keyUser[key] IN
    IF u = None \/ (u # Public /\ db[u] = None) THEN None
    ELSE [name |-> u,
          full |-> [g \in Groups |-> IF g \in GroupsOf(u) THEN GetRecord(g) ELSE None]]

(* A change is in force for new calls once the time that the frontend remembers a
   user for has passed, and the time of a lookup, which FillTime bounds, whatever
   lookups were on their way when it was made: removed users and keys are refused,
   and others have the groups that the administrators gave them (acl.go,
   AuthenticateUserByKey, GetPublicUser).  A stream that is open keeps its user. *)
ChangesTakeEffect ==
    quiet = Settled =>
        \A key \in Keys \cup {Public} :
            cache[key].left > 0 => cache[key].user = UserOf(key)
=============================================================================
