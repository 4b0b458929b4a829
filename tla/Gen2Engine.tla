------------------------------ MODULE Gen2Engine ------------------------------
(***************************************************************************)
(* tools/gen2ingress/engine.go: the devloop of the daemons that are built  *)
(* from a driver.  It shares the devices as the c37.118 daemon does, with  *)
(* the same locks, lock table and balancing test (DeviceLock), and it also *)
(* stops: when a device has left the manifest it calls the cancel function *)
(* that it keeps for it in ourActiveDevices.  That ends the renewal of the *)
(* lease, which then runs out, and the loop of the device once it looks at *)
(* its context.                                                            *)
(*                                                                         *)
(* Here workers[i][d] are the loops that have not been told to stop, and   *)
(* lost[i][d] those of them whose lease has expired.  The engine leaves    *)
(* the form of a descriptor to the driver, so none is Malformed; a device  *)
(* that the driver refuses is Misconfigured.                               *)
(***************************************************************************)
EXTENDS DeviceLock

CONSTANT Misconfigured  \* devices for which HandleDevice returns an error

ASSUME MisconfiguredAssumption == Misconfigured \subseteq Devices
ASSUME MalformedAssumption == Malformed = {}

VARIABLES
    active,     \* ourActiveDevices: the devices that a cancel function is kept for
    stopping    \* the loops of a device that were told to stop and have not yet

engine     == <<active, stopping>>
engineVars == <<vars, active, stopping>>

EngineTypeOK ==
    /\ TypeOK
    /\ active \in [Ids -> SUBSET Devices]
    /\ stopping \in [Ids -> [Devices -> Nat]]

EngineInit ==
    /\ Init
    /\ active = [i \in Ids |-> {}]
    /\ stopping = [i \in Ids |-> NoWorkers]

\* Nothing of a process outlives it.
Forget(i) ==
    /\ active' = [active EXCEPT ![i] = {}]
    /\ stopping' = [stopping EXCEPT ![i] = NoWorkers]

\* The lease of a lock expires: its owner is dead or cut off, or has cancelled
\* the context that it is renewed with.
EngineExpire(d) ==
    LET i == lock[d] IN
    /\ i # NoId
    /\ ~Up(i) \/ ~linked[i] \/ d \notin active[i]
    /\ lock' = [lock EXCEPT ![d] = NoId]
    /\ lost' = IF Up(i) /\ d \in active[i] \ Misconfigured
               THEN [lost EXCEPT ![i][d] = @ + 1] ELSE lost
    /\ UNCHANGED <<manifest, pc, todo, lease, workers, used>>
    /\ UNCHANGED env /\ UNCHANGED engine

\* Mutant: the entry is deleted, but its cancel function is not called.
DropRemoved(i) ==
    /\ active' = [active EXCEPT ![i] = @ \cap manifest]
    /\ UNCHANGED <<workers, lost, stopping>>

\* Mutant: it is taken for granted that every locked device has a loop.
CancelAnyLoop(i) ==
    LET gone == active[i] \ manifest IN
    /\ workers' = [workers EXCEPT ![i] = [d \in Devices |-> @[d] - (IF d \in gone THEN 1 ELSE 0)]]
    /\ lost' = [lost EXCEPT ![i] =
           [d \in Devices |-> @[d] - (IF d \in gone /\ lock[d] # i THEN 1 ELSE 0)]]
    /\ stopping' = [stopping EXCEPT ![i] =
           [d \in Devices |-> @[d] + (IF d \in gone THEN 1 ELSE 0)]]
    /\ active' = [active EXCEPT ![i] = @ \ gone]

\* The devices that have gone from the manifest are cancelled and forgotten.
CancelRemoved(i) ==
    LET gone  == active[i] \ manifest
        loops == gone \ Misconfigured
        late  == {d \in loops : lock[d] # i}
        Loop(d)  == IF d \in loops THEN 1 ELSE 0
        Late(d)  == IF d \in late THEN 1 ELSE 0
    IN
    /\ workers' = [workers EXCEPT ![i] = [d \in Devices |-> @[d] - Loop(d)]]
    /\ lost' = [lost EXCEPT ![i] = [d \in Devices |-> @[d] - Late(d)]]
    /\ stopping' = [stopping EXCEPT ![i] = [d \in Devices |-> @[d] + Loop(d)]]
    /\ active' = [active EXCEPT ![i] = @ \ gone]

\* RetrieveMultipleManifestDevices; an error panics.
EngineReadDevices(i) ==
    /\ pc[i] = "sleep"
    /\ IF linked[i]
       THEN /\ pc' = [pc EXCEPT ![i] = "table"]
            /\ todo' = [todo EXCEPT ![i] = manifest]
            /\ CancelRemoved(i)
            /\ UNCHANGED lease
       ELSE Die(i) /\ Forget(i)
    /\ UNCHANGED used /\ UNCHANGED <<etcd, env>>

EngineGrant(i) ==
    /\ Grant(i)
    /\ IF linked[i] THEN UNCHANGED engine ELSE Forget(i)

\* Mutant: the cancel function is not kept.
LockAndForget(i, d) ==
    /\ linked[i]
    /\ lease[i] = "granted"
    /\ lock[d] = NoId
    /\ lock' = [lock EXCEPT ![d] = i]
    /\ workers' = IF d \in Misconfigured THEN workers
                  ELSE [workers EXCEPT ![i][d] = @ + 1]
    /\ pc' = [pc EXCEPT ![i] = "sleep"]
    /\ todo' = [todo EXCEPT ![i] = {}]
    /\ lease' = [lease EXCEPT ![i] = "none"]
    /\ UNCHANGED <<lost, used, active, stopping>>

\* The lock is obtained.  The cancel function takes the place of the one that
\* may be there already, and the driver starts a loop unless it refuses the
\* device: then the lock is kept all the same.
LockAndHandle(i, d) ==
    /\ linked[i]
    /\ lease[i] = "granted"
    /\ lock[d] = NoId
    /\ lock' = [lock EXCEPT ![d] = i]
    /\ active' = [active EXCEPT ![i] = @ \cup {d}]
    /\ workers' = IF d \in Misconfigured THEN workers
                  ELSE [workers EXCEPT ![i][d] = @ + 1]
    /\ pc' = [pc EXCEPT ![i] = "sleep"]
    /\ todo' = [todo EXCEPT ![i] = {}]
    /\ lease' = [lease EXCEPT ![i] = "none"]
    /\ UNCHANGED <<lost, used, stopping>>

EngineTxn(i) ==
    /\ pc[i] = "txn"
    /\ \E d \in todo[i] :
          /\ Current(i, d)
          /\ \/ LockAndHandle(i, d)
             \/ FailToLock(i, d) /\ UNCHANGED engine
             \/ TxnPanics(i, d) /\ Forget(i)
    /\ UNCHANGED manifest /\ UNCHANGED env

\* Loop and DialLoop look at the context when the driver's function returns.
LoopEnds(i, d) ==
    /\ stopping[i][d] > 0
    /\ stopping' = [stopping EXCEPT ![i][d] = @ - 1]
    /\ UNCHANGED <<vars, active>>

Engine(i) ==
    \/ EngineReadDevices(i)
    \/ ReadTable(i) /\ UNCHANGED engine
    \/ EndScan(i) /\ UNCHANGED engine
    \/ EngineGrant(i)
    \/ EngineTxn(i)

EngineNext ==
    \/ \E d \in Devices : (AddDevice(d) \/ RemoveDevice(d)) /\ UNCHANGED engine
    \/ \E d \in Devices : EngineExpire(d)
    \/ \E i \in Ids : (Boot(i) \/ Cut(i) \/ Heal(i) \/ LapseGrant(i)) /\ UNCHANGED engine
    \/ \E i \in Ids : Crash(i) /\ Forget(i)
    \/ \E i \in Ids : Engine(i)
    \/ \E i \in Ids, d \in Devices : LoopEnds(i, d)

\* As in DeviceLock; and a driver's function returns when its context ends.
EngineFairness ==
    /\ \A i \in Ids : WF_engineVars(linked[i] /\ Engine(i))
    /\ \A d \in Devices : WF_engineVars(EngineExpire(d))
    /\ \A i \in Ids, d \in Devices : WF_engineVars(LoopEnds(i, d))

EngineSpec == EngineInit /\ [][EngineNext]_engineVars /\ EngineFairness

-----------------------------------------------------------------------------
\* The loops that no cancel function is kept for: nothing but the end of the
\* process can stop them.
OutOfReach(i, d) ==
    workers[i][d] - (IF d \in active[i] \ Misconfigured THEN 1 ELSE 0)

(* An instance that locks a device a second time overwrites the cancel function
   of the loop that it has.  This never happens to a loop that still has its
   lock, and to those of one instance for one device not more often than links
   were lost (engine.go, ourActiveDevices). *)
OutOfReachIsLost ==
    \A i \in Ids, d \in Devices :
        /\ 0 <= OutOfReach(i, d)
        /\ OutOfReach(i, d) <= lost[i][d]
        /\ lost[i][d] <= used.cuts

InTouch == \A i \in Ids : <>[](Up(i) => linked[i])

(* What the manifest says in the end is what happens, however devices were
   removed and put back between two polls, locked by two instances at once, or
   kept by dead ones: a device that is removed for good loses its lock and
   every loop, but for those that had lost their lease before; one that is
   there for good is locked by an instance that can cancel it, and that has a
   loop for it if the driver takes it. *)
FollowsManifest ==
    \A d \in Devices : InTouch =>
        /\ <>[](d \notin manifest) =>
              <>[](/\ lock[d] = NoId
                   /\ \A i \in Ids : /\ d \notin active[i] /\ stopping[i][d] = 0
                                     /\ workers[i][d] = lost[i][d])
        /\ <>[](d \in manifest) /\ (\E i \in Ids : <>[]Up(i)) =>
              <>[](/\ lock[d] # NoId
                   /\ d \in active[lock[d]]
                   /\ d \notin Misconfigured => workers[lock[d]][d] > lost[lock[d]][d])
=============================================================================
