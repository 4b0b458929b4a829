------------------------------ MODULE DeviceLock ------------------------------
(***************************************************************************)
(* The device locks of the c37.118 ingress daemon: any number of instances *)
(* of the daemon share the PDCs of the manifest by locking them in etcd    *)
(* (tools/manifest/manifest.go) from a polling loop (tools/c37ingress).    *)
(*                                                                         *)
(* A lock is an etcd key put with a five second lease that the etcd client *)
(* of its owner renews.  An instance takes its id from a fresh UUID, so a  *)
(* restarted daemon is another member of Ids.  What the daemon does when a *)
(* renewal fails is nothing: ObtainDeviceLock drains the renewal channel   *)
(* and ignores that it closes.  The goroutine that processes the device    *)
(* runs until the daemon ends.                                             *)
(*                                                                         *)
(* Time is left out: a lease can run out whenever its owner is dead or cut *)
(* off from etcd, and the lease of an attempt that is not renewed yet can  *)
(* always run out.                                                         *)
(***************************************************************************)
EXTENDS LTable, FiniteSetsExt

CONSTANTS Ids,          \* the UUIDs that daemons boot with
          Devices,      \* descriptors, numbered in the order of their keys
          Malformed,    \* descriptors that are not PREFIX@IDCODE@HOST:PORT
          NoId,         \* no owner
          Scenarios     \* bounds of the behaviours: see Scenario

ASSUME DevicesAssumption == Devices \subseteq Nat /\ Malformed \subseteq Devices
ASSUME NoIdAssumption == NoId \notin Ids

(* The bounds of a behaviour: the daemons that may boot, the devices the
   operator may put in the manifest, and how many edits of the manifest, lost
   links to etcd and mishaps (daemons killed, leases that lapse before they are
   used, answers of etcd that are lost) there may be. *)
Scenario == [daemons : SUBSET Ids, devices : SUBSET Devices,
             edits : Nat, cuts : Nat, mishaps : Nat]

ASSUME ScenariosAssumption == Scenarios \subseteq Scenario

VARIABLES
    manifest,   \* etcd: the devices of the manifest
    lock,       \* etcd: the owner in the lock key of a device, or NoId
    linked,     \* whether the daemon's connection to etcd works
    pc,         \* where the daemon's devloop is
    todo,       \* the devices the devloop has still to try in this round
    lease,      \* the lease granted for the attempt at hand
    workers,    \* how many "go process(...)" run for a device
    lost,       \* how many of them run under a lease that has expired
    bounds,     \* the scenario of this behaviour
    used        \* how much of its edits, cuts and mishaps has happened

vars == <<manifest, lock, linked, pc, todo, lease, workers, lost, bounds, used>>
etcd == <<manifest, lock>>
env  == <<linked, bounds>>

PCs == {"unborn", "sleep", "table", "scan", "txn", "dead"}

TypeOK ==
    /\ manifest \subseteq Devices
    /\ lock \in [Devices -> Ids \cup {NoId}]
    /\ linked \in [Ids -> BOOLEAN]
    /\ pc \in [Ids -> PCs]
    /\ todo \in [Ids -> SUBSET (Devices \ Malformed)]
    /\ lease \in [Ids -> {"none", "granted", "expired"}]
    /\ workers \in [Ids -> [Devices -> Nat]]
    /\ lost \in [Ids -> [Devices -> Nat]]
    /\ bounds \in Scenario
    /\ used \in [edits : Nat, cuts : Nat, mishaps : Nat]

Up(i) == pc[i] \notin {"unborn", "dead"}

NoWorkers == [d \in Devices |-> 0]

Init ==
    /\ bounds \in Scenarios
    /\ manifest = bounds.devices
    /\ lock = [d \in Devices |-> NoId]
    /\ linked = [i \in Ids |-> TRUE]
    /\ pc = [i \in Ids |-> IF i \in bounds.daemons THEN "unborn" ELSE "dead"]
    /\ todo = [i \in Ids |-> {}]
    /\ lease = [i \in Ids |-> "none"]
    /\ workers = [i \in Ids |-> NoWorkers]
    /\ lost = [i \in Ids |-> NoWorkers]
    /\ used = [edits |-> 0, cuts |-> 0, mishaps |-> 0]

-----------------------------------------------------------------------------
(* The environment: the operator edits the manifest, pods start and die, the
   network fails and recovers, etcd drops the keys of an expired lease. *)

Use(kind) ==
    /\ used[kind] < bounds[kind]
    /\ used' = [used EXCEPT ![kind] = @ + 1]

AddDevice(d) ==
    /\ d \in bounds.devices \ manifest
    /\ Use("edits")
    /\ manifest' = manifest \cup {d}
    /\ UNCHANGED <<lock, pc, todo, lease, workers, lost>> /\ UNCHANGED env

RemoveDevice(d) ==
    /\ d \in manifest
    /\ Use("edits")
    /\ manifest' = manifest \ {d}
    /\ UNCHANGED <<lock, pc, todo, lease, workers, lost>> /\ UNCHANGED env

Boot(i) ==
    /\ pc[i] = "unborn"
    /\ pc' = [pc EXCEPT ![i] = "sleep"]
    /\ UNCHANGED <<todo, lease, workers, lost, used>> /\ UNCHANGED <<etcd, env>>

\* What is left of a daemon when its process ends: nothing but its keys.
Die(i) ==
    /\ pc' = [pc EXCEPT ![i] = "dead"]
    /\ todo' = [todo EXCEPT ![i] = {}]
    /\ lease' = [lease EXCEPT ![i] = "none"]
    /\ workers' = [workers EXCEPT ![i] = NoWorkers]
    /\ lost' = [lost EXCEPT ![i] = NoWorkers]

Crash(i) ==
    /\ Up(i)
    /\ Use("mishaps")
    /\ Die(i)
    /\ UNCHANGED etcd /\ UNCHANGED env

Cut(i) ==
    /\ Up(i) /\ linked[i]
    /\ Use("cuts")
    /\ linked' = [linked EXCEPT ![i] = FALSE]
    /\ UNCHANGED <<pc, todo, lease, workers, lost, bounds>> /\ UNCHANGED etcd

Heal(i) ==
    /\ ~linked[i]
    /\ linked' = [linked EXCEPT ![i] = TRUE]
    /\ UNCHANGED <<pc, todo, lease, workers, lost, bounds, used>>
    /\ UNCHANGED etcd

\* Mutant: a lock can expire under a daemon that is up and renews it.
ExpireRenewed(d) ==
    /\ lock[d] # NoId
    /\ lock' = [lock EXCEPT ![d] = NoId]
    /\ UNCHANGED <<manifest, pc, todo, lease, workers, lost, used>> /\ UNCHANGED env

\* The lease of a lock expires, and etcd deletes the key.  If the owner is up
\* its renewal channel closes; the goroutine that drains it ends, and the one
\* that processes the device does not notice.
Expire(d) ==
    LET i == lock[d] IN
    /\ i # NoId
    /\ ~Up(i) \/ ~linked[i]
    /\ lock' = [lock EXCEPT ![d] = NoId]
    /\ lost' = IF Up(i) THEN [lost EXCEPT ![i][d] = @ + 1] ELSE lost
    /\ UNCHANGED <<manifest, pc, todo, lease, workers, used>> /\ UNCHANGED env

\* The lease that Grant returned runs out before the transaction uses it:
\* nothing renews it yet.
LapseGrant(i) ==
    /\ lease[i] = "granted"
    /\ Use("mishaps")
    /\ lease' = [lease EXCEPT ![i] = "expired"]
    /\ UNCHANGED <<pc, todo, workers, lost>> /\ UNCHANGED <<etcd, env>>

-----------------------------------------------------------------------------
(* The devloop. *)

\* RetrieveMultipleManifestDevices; an error panics.  The loop over the devices
\* passes over the malformed ones wherever they come.
ReadDevices(i) ==
    /\ pc[i] = "sleep"
    /\ IF linked[i]
       THEN /\ pc' = [pc EXCEPT ![i] = "table"]
            /\ todo' = [todo EXCEPT ![i] = manifest \ Malformed]
            /\ UNCHANGED <<lease, workers, lost>>
       ELSE Die(i)
    /\ UNCHANGED used /\ UNCHANGED <<etcd, env>>

\* The devices that each instance has locked, as GetLockTable returns them:
\* nothing at all when the read fails, for its error is dropped.
LockTable(i) ==
    LET locked == IF linked[i] THEN {d \in Devices : lock[d] # NoId} ELSE {}
    IN  [k \in {lock[d] : d \in locked} |-> {d \in locked : lock[d] = k}]

\* GetLockTable, parseLTable and the test whether to take on another device.
ReadTable(i) ==
    LET ltable == LockTable(i)
        count  == [k \in DOMAIN ltable |-> Cardinality(ltable[k])]
        us     == IF i \in DOMAIN ltable THEN count[i] ELSE 0
        locked == UNION {ltable[k] : k \in DOMAIN ltable}
    IN
    /\ pc[i] = "table"
    /\ \E order \in Orders(DOMAIN ltable) :
          IF Declines(us, MinPair(order, count))
          THEN /\ pc' = [pc EXCEPT ![i] = "sleep"]
               /\ todo' = [todo EXCEPT ![i] = {}]
          ELSE /\ pc' = [pc EXCEPT ![i] = "scan"]
               /\ todo' = [todo EXCEPT ![i] = @ \ locked]
    /\ UNCHANGED <<lease, workers, lost, used>> /\ UNCHANGED <<etcd, env>>

\* The loop over the devices is through: back to the top of the devloop.
EndScan(i) ==
    /\ pc[i] = "scan"
    /\ todo[i] = {}
    /\ pc' = [pc EXCEPT ![i] = "sleep"]
    /\ UNCHANGED <<todo, lease, workers, lost, used>> /\ UNCHANGED <<etcd, env>>

\* ObtainDeviceLock, first half: every attempt asks for a lease of its own.
Grant(i) ==
    /\ pc[i] = "scan"
    /\ todo[i] # {}
    /\ IF linked[i]
       THEN /\ pc' = [pc EXCEPT ![i] = "txn"]
            /\ lease' = [lease EXCEPT ![i] = "granted"]
            /\ UNCHANGED <<todo, workers, lost>>
       ELSE Die(i)
    /\ UNCHANGED used /\ UNCHANGED <<etcd, env>>

\* The device that the devloop is at.
Current(i, d) == d \in todo[i] /\ \A e \in todo[i] : d <= e

\* The transaction commits and its answer arrives: KeepAlive renews the lease,
\* and the device gets a goroutine.
Obtain(i, d) ==
    /\ linked[i]
    /\ lease[i] = "granted"
    /\ lock[d] = NoId
    /\ lock' = [lock EXCEPT ![d] = i]
    /\ workers' = [workers EXCEPT ![i][d] = @ + 1]
    /\ pc' = [pc EXCEPT ![i] = "sleep"]
    /\ todo' = [todo EXCEPT ![i] = {}]
    /\ lease' = [lease EXCEPT ![i] = "none"]
    /\ UNCHANGED <<lost, used>>

\* Somebody holds the lock.  The lease is not revoked; it runs out unused.
FailToLock(i, d) ==
    /\ linked[i]
    /\ lock[d] # NoId
    /\ pc' = [pc EXCEPT ![i] = "scan"]
    /\ todo' = [todo EXCEPT ![i] = @ \ {d}]
    /\ lease' = [lease EXCEPT ![i] = "none"]
    /\ UNCHANGED <<lock, workers, lost, used>>

\* The transaction returns an error (no link, or the lease is gone), or it
\* commits and the answer or the KeepAlive that follows fails.  All panic.
TxnPanics(i, d) ==
    /\ \/ /\ ~linked[i] \/ (lease[i] = "expired" /\ lock[d] = NoId)
          /\ UNCHANGED <<lock, used>>
       \/ /\ linked[i] /\ lease[i] = "granted" /\ lock[d] = NoId
          /\ Use("mishaps")
          /\ lock' = [lock EXCEPT ![d] = i]
    /\ Die(i)

\* Mutant: the put is not conditional on the key being absent.
TxnUnconditional(i) ==
    /\ pc[i] = "txn"
    /\ \E d \in todo[i] :
          /\ Current(i, d)
          /\ linked[i] /\ lease[i] = "granted"
          /\ lock' = [lock EXCEPT ![d] = i]
          /\ workers' = [workers EXCEPT ![i][d] = @ + 1]
          /\ pc' = [pc EXCEPT ![i] = "sleep"]
          /\ todo' = [todo EXCEPT ![i] = {}]
          /\ lease' = [lease EXCEPT ![i] = "none"]
          /\ UNCHANGED <<lost, used>>
    /\ UNCHANGED manifest /\ UNCHANGED env

\* Mutant: the lock is taken but the goroutine is not started.
TxnForgetsWorker(i) ==
    /\ pc[i] = "txn"
    /\ \E d \in todo[i] :
          /\ Current(i, d)
          /\ linked[i] /\ lease[i] = "granted" /\ lock[d] = NoId
          /\ lock' = [lock EXCEPT ![d] = i]
          /\ pc' = [pc EXCEPT ![i] = "sleep"]
          /\ todo' = [todo EXCEPT ![i] = {}]
          /\ lease' = [lease EXCEPT ![i] = "none"]
          /\ UNCHANGED <<workers, lost, used>>
    /\ UNCHANGED manifest /\ UNCHANGED env

\* ObtainDeviceLock, second half, and what the devloop does with the result.
Txn(i) ==
    /\ pc[i] = "txn"
    /\ \E d \in todo[i] :
          /\ Current(i, d)
          /\ Obtain(i, d) \/ FailToLock(i, d) \/ TxnPanics(i, d)
    /\ UNCHANGED manifest /\ UNCHANGED env

Devloop(i) ==
    ReadDevices(i) \/ ReadTable(i) \/ EndScan(i) \/ Grant(i) \/ Txn(i)

Next ==
    \/ \E d \in Devices : AddDevice(d) \/ RemoveDevice(d) \/ Expire(d)
    \/ \E i \in Ids : Boot(i) \/ Crash(i) \/ Cut(i) \/ Heal(i) \/ LapseGrant(i)
    \/ \E i \in Ids : Devloop(i)

\* A daemon that reaches etcd keeps polling (the clients' calls have no
\* deadline, so one that does not may wait for ever), and etcd expires leases.
Fairness ==
    /\ \A i \in Ids : WF_vars(linked[i] /\ Devloop(i))
    /\ \A d \in Devices : WF_vars(Expire(d))

Spec == Init /\ [][Next]_vars /\ Fairness

-----------------------------------------------------------------------------
(* A device whose lock is held by a daemon that is up is being processed by it
   under that lock: no daemon can keep a device from the others and not read
   from it (main.go, the devloop; manifest.go, ObtainDeviceLock). *)
OwnerProcesses ==
    \A i \in Ids, d \in Devices :
        Up(i) /\ lock[d] = i => workers[i][d] > lost[i][d]

(* What the locks are for: two goroutines process one device, in one daemon or
   in two, only if one of them has lost its lease and was not told. *)
ExclusiveUnlessLost ==
    \A d \in Devices : \A i, j \in Ids :
        /\ workers[i][d] - lost[i][d] \in {0, 1}
        /\ workers[i][d] > lost[i][d] /\ workers[j][d] > lost[j][d] => i = j

\* The lock keys implement a lock that passes from one owner to the next only
\* through being free.
Abstract == INSTANCE ExclusiveLock WITH
    Clients <- Ids, Resources <- Devices, Free <- NoId, holder <- lock

(* Whatever races, expires and restarts, no lock is ever taken over. *)
ImplementsExclusiveLock == Abstract!Spec

(* A well-formed device that stays in the manifest ends up locked for good, as
   long as some daemon stays up and in touch with etcd: the balancing test
   never makes all the daemons stand back, and the leases of the dead are not
   in the way. *)
EventuallyServed ==
    \A d \in Devices \ Malformed :
        (/\ <>[](d \in manifest)
         /\ \E i \in Ids : <>[](Up(i) /\ linked[i]))
        => <>[](lock[d] # NoId)
=============================================================================
