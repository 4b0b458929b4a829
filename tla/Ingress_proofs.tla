---------------------------- MODULE Ingress_proofs ----------------------------
(***************************************************************************)
(* The daemons that share devices by locks in etcd, in three parts:        *)
(*                                                                         *)
(*  - the loop of parseLTable, for lock tables of any size and in any      *)
(*    iteration order;                                                     *)
(*  - DeviceLock, for any sets of daemons and devices and any bounds: the  *)
(*    accounting of the goroutines that process a device is inductive, and *)
(*    everything that is said of the locks follows from it;                *)
(*  - Gen2Engine, for any sets of instances and devices and any bounds:    *)
(*    its variables keep their types, and the loops that cannot be stopped *)
(*    are among those that have lost their lease, one for each lost link   *)
(*    at most.                                                             *)
(***************************************************************************)
EXTENDS ParseLTable, Gen2Engine, TLAPS

-----------------------------------------------------------------------------
(* ParseLTable. *)

\* min is the load of an entry seen, and min2 that of another one, no smaller.
MinsAreSeen ==
    /\ acc.min = -1 => acc.min2 = -1
    /\ acc.min # -1 => \E m \in seen : count[m] = acc.min
    /\ acc.min2 # -1 =>
          \E m, n \in seen :
              /\ m # n
              /\ count[m] = acc.min /\ count[n] = acc.min2
              /\ count[m] <= count[n]

\* us is this instance's own entry, once it has been seen.
UsIsOurs == us = IF ourid \in seen THEN count[ourid] ELSE 0

VerdictIsLast ==
    verdict = "declines" => seen = DOMAIN count /\ Declines(us, acc)

LoopInv == LoopTypeOK /\ MinsAreSeen /\ UsIsOurs /\ VerdictIsLast

LEMMA LoopInitInv == LoopInit => LoopInv
BY MaxLocksAssumption
   DEF LoopInit, LoopInv, LoopTypeOK, MinsAreSeen, UsIsOurs, VerdictIsLast, NoMin

\* The loads are positive integers.
LEMMA CountType ==
    ASSUME LoopTypeOK, NEW k \in DOMAIN count
    PROVE  count[k] \in 1 .. MaxLocks /\ count[k] \in Nat /\ count[k] # -1
BY DEF LoopTypeOK

LEMMA VisitType ==
    ASSUME LoopTypeOK, NEW k \in DOMAIN count
    PROVE  Visit(acc, count[k]) \in [min : -1 .. MaxLocks, min2 : -1 .. MaxLocks]
BY CountType DEF LoopTypeOK, Visit

LEMMA IterateInv ==
    ASSUME LoopInv, NEW k \in DOMAIN count, Iterate(k)
    PROVE  LoopInv'
<1> USE DEF LoopInv
<1>0. /\ acc.min \in Int /\ acc.min2 \in Int
      /\ k \notin seen /\ seen \subseteq DOMAIN count
      /\ acc' = Visit(acc, count[k])
      /\ seen' = seen \cup {k}
      /\ count' = count /\ ourid' = ourid /\ verdict' = verdict
  BY DEF Iterate, LoopTypeOK
<1>1. LoopTypeOK'
  <2>1. us' \in 0 .. MaxLocks
    BY CountType DEF Iterate, LoopTypeOK
  <2>2. QED
    BY <1>0, <2>1, VisitType DEF LoopTypeOK
<1>2. MinsAreSeen'
  <2>1. CASE count[k] <= acc.min \/ acc.min = -1
    <3>1. acc' = [min |-> count[k], min2 |-> acc.min]
      BY <1>0, <2>1 DEF Visit
    <3>2. acc'.min = count[k] /\ acc'.min2 = acc.min /\ acc'.min # -1
      BY <3>1, CountType
    <3>3. ASSUME acc.min # -1
          PROVE  \E m, n \in seen' :
                    /\ m # n
                    /\ count'[m] = acc'.min /\ count'[n] = acc'.min2
                    /\ count'[m] <= count'[n]
      <4>1. PICK n \in seen : count[n] = acc.min
        BY <3>3 DEF MinsAreSeen
      <4>2. n # k /\ n \in seen' /\ k \in seen' /\ count[k] <= count[n]
        BY <1>0, <2>1, <3>3, <4>1
      <4>3. QED
        BY <1>0, <3>2, <4>1, <4>2
    <3>4. QED
      BY <1>0, <3>2, <3>3 DEF MinsAreSeen
  <2>2. CASE ~(count[k] <= acc.min \/ acc.min = -1)
    <3>1. acc' = acc
      BY <1>0, <2>2 DEF Visit
    <3>2. QED
      BY <1>0, <3>1 DEF MinsAreSeen
  <2>3. QED
    BY <2>1, <2>2
<1>3. UsIsOurs'
  BY <1>0 DEF UsIsOurs, Iterate
<1>4. VerdictIsLast'
  BY <1>0 DEF VerdictIsLast, Iterate
<1>5. QED
  BY <1>1, <1>2, <1>3, <1>4

LEMMA LoopNextInv == LoopInv /\ [LoopNext]_loopVars => LoopInv'
<1> SUFFICES ASSUME LoopInv, [LoopNext]_loopVars PROVE LoopInv'
  OBVIOUS
<1>1. ASSUME NEW k \in DOMAIN count, Iterate(k)
      PROVE  LoopInv'
  BY <1>1, IterateInv
<1>2. CASE Decide
  <2>1. LoopTypeOK' /\ MinsAreSeen' /\ UsIsOurs'
    BY <1>2 DEF LoopInv, Decide, LoopTypeOK, MinsAreSeen, UsIsOurs
  <2>2. VerdictIsLast'
    BY <1>2 DEF Decide, VerdictIsLast, Declines
  <2>3. QED
    BY <2>1, <2>2 DEF LoopInv
<1>3. CASE UNCHANGED loopVars
  BY <1>3 DEF loopVars, LoopInv, LoopTypeOK, MinsAreSeen, UsIsOurs, VerdictIsLast, Declines
<1>4. QED
  BY <1>1, <1>2, <1>3 DEF LoopNext

-----------------------------------------------------------------------------
(* In no lock table and in no iteration order does an instance decline a
   device unless two other instances have fewer devices than it has. *)
THEOREM DecliningIsSound == LoopSpec => []DeclinesOnlyForTwoOthers
<1>1. LoopInv => DeclinesOnlyForTwoOthers
  <2> SUFFICES ASSUME LoopInv, verdict = "declines"
               PROVE  \E m, n \in Nodes \ {ourid} :
                         /\ m # n
                         /\ Load(m) < Load(ourid)
                         /\ Load(n) < Load(ourid)
    BY DEF DeclinesOnlyForTwoOthers
  <2>1. acc.min2 # -1 /\ us > acc.min2 /\ seen = DOMAIN count
    BY DEF LoopInv, VerdictIsLast, Declines
  <2>2. PICK m, n \in seen : /\ m # n
                             /\ count[m] = acc.min /\ count[n] = acc.min2
                             /\ count[m] <= count[n]
    BY <2>1 DEF LoopInv, MinsAreSeen
  <2>3. count[m] \in Nat /\ count[n] \in Nat /\ us \in Nat
    BY <2>1, CountType DEF LoopInv, LoopTypeOK
  <2>4. ourid \in DOMAIN count /\ us = count[ourid]
    BY <2>1, <2>2, <2>3 DEF LoopInv, UsIsOurs
  <2>5. m # ourid /\ n # ourid
    BY <2>1, <2>2, <2>3, <2>4
  <2>6. DOMAIN count \subseteq Nodes
    BY DEF LoopInv, LoopTypeOK
  <2>7. QED
    BY <2>1, <2>2, <2>3, <2>4, <2>5, <2>6 DEF Load
<1>2. QED
  BY <1>1, LoopInitInv, LoopNextInv, PTL DEF LoopSpec

(* The locals of the loop keep their types. *)
THEOREM LoopTypeCorrect == LoopSpec => []LoopTypeOK
<1>1. LoopInv => LoopTypeOK
  BY DEF LoopInv
<1>2. QED
  BY <1>1, LoopInitInv, LoopNextInv, PTL DEF LoopSpec

-----------------------------------------------------------------------------
(* DeviceLock. *)

\* 1 if the daemon i holds the lock of d and is up to renew it.
Renews(i, d) == IF Up(i) /\ lock[d] = i THEN 1 ELSE 0

\* A goroutine runs under the lease of the lock, or under one that is lost.
Accounting ==
    \A i \in Ids, d \in Devices : workers[i][d] = lost[i][d] + Renews(i, d)

\* A daemon that has not booted owns nothing.
UnbornOwnsNothing ==
    \A i \in Ids, d \in Devices : pc[i] = "unborn" => lock[d] # i

Inv == TypeOK /\ Accounting /\ UnbornOwnsNothing

-----------------------------------------------------------------------------
LEMMA InitInv == Init => Inv
<1> SUFFICES ASSUME Init PROVE Inv
  OBVIOUS
<1>1. TypeOK
  BY ScenariosAssumption DEF Init, TypeOK, NoWorkers, PCs, Scenario
<1>2. Accounting
  BY DEF Init, Accounting, Renews, Up, NoWorkers
<1>3. UnbornOwnsNothing
  BY NoIdAssumption DEF Init, UnbornOwnsNothing
<1>4. QED
  BY <1>1, <1>2, <1>3 DEF Inv

Kinds == {"edits", "cuts", "mishaps"}

\* Counting something that is bounded keeps the counters natural numbers.
LEMMA UseType ==
    ASSUME used \in [edits : Nat, cuts : Nat, mishaps : Nat],
           bounds \in Scenario, NEW kind \in Kinds, Use(kind)
    PROVE  used' \in [edits : Nat, cuts : Nat, mishaps : Nat]
<1>1. used[kind] \in Nat
  BY DEF Kinds
<1>2. used' = [used EXCEPT ![kind] = @ + 1]
  BY DEF Use
<1>3. CASE kind = "edits"
  BY <1>1, <1>2, <1>3
<1>4. CASE kind = "cuts"
  BY <1>1, <1>2, <1>4
<1>5. CASE kind = "mishaps"
  BY <1>1, <1>2, <1>5
<1>6. QED
  BY <1>3, <1>4, <1>5 DEF Kinds

\* Where a daemon ends, its goroutines end with it.
LEMMA DieInv ==
    ASSUME Inv, NEW i \in Ids, Up(i), Die(i),
           \/ lock' = lock
           \/ \E d \in Devices :
                 lock[d] = NoId /\ lock' = [lock EXCEPT ![d] = i],
           manifest' = manifest, linked' = linked, bounds' = bounds,
           used' = used \/ Use("mishaps")
    PROVE  Inv'
<1>1. TypeOK'
  <2>1. used' \in [edits : Nat, cuts : Nat, mishaps : Nat]
    BY UseType DEF Inv, TypeOK, Kinds
  <2>2. NoWorkers \in [Devices -> Nat]
    BY DEF NoWorkers
  <2>3. lock' \in [Devices -> Ids \cup {NoId}]
    BY DEF Inv, TypeOK
  <2>4. /\ pc' \in [Ids -> PCs]
        /\ todo' \in [Ids -> SUBSET (Devices \ Malformed)]
        /\ lease' \in [Ids -> {"none", "granted", "expired"}]
    BY DEF Inv, TypeOK, Die, PCs
  <2>5. /\ workers' \in [Ids -> [Devices -> Nat]]
        /\ lost' \in [Ids -> [Devices -> Nat]]
    BY <2>2 DEF Inv, TypeOK, Die
  <2>6. QED
    BY <2>1, <2>3, <2>4, <2>5 DEF Inv, TypeOK
<1>2. Accounting'
  <2> SUFFICES ASSUME NEW j \in Ids, NEW e \in Devices
               PROVE  (workers[j][e] = lost[j][e] + Renews(j, e))'
    BY DEF Accounting
  <2>1. CASE j = i
    BY <2>1 DEF Die, NoWorkers, Renews, Up, Inv, TypeOK
  <2>2. CASE j # i
    <3>1. lock'[e] = j <=> lock[e] = j
      BY NoIdAssumption, <2>2 DEF Inv, TypeOK
    <3>2. pc'[j] = pc[j] /\ workers'[j] = workers[j] /\ lost'[j] = lost[j]
      BY <2>2 DEF Die, Inv, TypeOK
    <3>3. QED
      BY <3>1, <3>2 DEF Renews, Up, Inv, Accounting
  <2>3. QED
    BY <2>1, <2>2
<1>3. UnbornOwnsNothing'
  BY DEF Inv, UnbornOwnsNothing, Die, TypeOK, Up
<1>4. QED
  BY <1>1, <1>2, <1>3 DEF Inv

\* A step that leaves the locks, the goroutines and the life of every daemon
\* alone disturbs nothing but the types.
LEMMA QuietInv ==
    ASSUME Inv, TypeOK', UNCHANGED <<lock, workers, lost>>,
           \A j \in Ids : Up(j)' = Up(j) /\ pc'[j] = "unborn" => pc[j] = "unborn",
           \A j \in Ids : Up(j)' = Up(j)
    PROVE  Inv'
<1>1. Accounting'
  BY DEF Inv, Accounting, Renews
<1>2. UnbornOwnsNothing'
  BY DEF Inv, UnbornOwnsNothing
<1>3. QED
  BY <1>1, <1>2 DEF Inv

-----------------------------------------------------------------------------
LEMMA EnvironmentInv ==
    ASSUME Inv,
           \/ \E d \in Devices : AddDevice(d) \/ RemoveDevice(d) \/ Expire(d)
           \/ \E i \in Ids :
                Boot(i) \/ Crash(i) \/ Cut(i) \/ Heal(i) \/ LapseGrant(i)
    PROVE  Inv'
<1> USE DEF etcd, env
<1>1. ASSUME NEW d \in Devices, AddDevice(d) \/ RemoveDevice(d)
      PROVE  Inv'
  <2>1. TypeOK'
    <3>1. used' \in [edits : Nat, cuts : Nat, mishaps : Nat]
      BY <1>1, UseType DEF Inv, TypeOK, AddDevice, RemoveDevice, Kinds
    <3>2. QED
      BY <1>1, <3>1 DEF Inv, TypeOK, AddDevice, RemoveDevice
  <2>2. QED
    BY <1>1, <2>1, QuietInv DEF AddDevice, RemoveDevice, Up
<1>2. ASSUME NEW d \in Devices, Expire(d)
      PROVE  Inv'
  <2> DEFINE i == lock[d]
  <2>0. i \in Ids
    BY <1>2 DEF Expire, Inv, TypeOK
  <2>1. TypeOK'
    BY <1>2, <2>0 DEF Inv, TypeOK, Expire
  <2>2. Accounting'
    <3> SUFFICES ASSUME NEW j \in Ids, NEW e \in Devices
                 PROVE  (workers[j][e] = lost[j][e] + Renews(j, e))'
      BY DEF Accounting
    <3>1. workers[j][e] = lost[j][e] + Renews(j, e)
      BY DEF Inv, Accounting
    <3>2. CASE j = i /\ e = d
      BY <1>2, <2>0, <3>1, <3>2 DEF Expire, Renews, Up, Inv, TypeOK
    <3>3. CASE ~(j = i /\ e = d)
      <4>1. lost'[j][e] = lost[j][e] /\ workers' = workers /\ pc' = pc
        BY <1>2, <2>0, <3>3 DEF Expire, Inv, TypeOK
      <4>2. lock'[e] = j <=> lock[e] = j
        BY NoIdAssumption, <1>2, <2>0, <3>3 DEF Expire, Inv, TypeOK
      <4>3. QED
        BY <3>1, <4>1, <4>2 DEF Renews, Up
    <3>4. QED
      BY <3>2, <3>3
  <2>3. UnbornOwnsNothing'
    BY NoIdAssumption, <1>2 DEF Inv, UnbornOwnsNothing, Expire, TypeOK
  <2>4. QED
    BY <2>1, <2>2, <2>3 DEF Inv
<1>3. ASSUME NEW i \in Ids, Boot(i)
      PROVE  Inv'
  <2>1. TypeOK'
    BY <1>3 DEF Inv, TypeOK, Boot, PCs
  <2>2. Accounting'
    BY <1>3 DEF Inv, Accounting, UnbornOwnsNothing, Renews, Up, Boot, TypeOK
  <2>3. UnbornOwnsNothing'
    BY <1>3 DEF Inv, UnbornOwnsNothing, Boot, TypeOK
  <2>4. QED
    BY <2>1, <2>2, <2>3 DEF Inv
<1>4. ASSUME NEW i \in Ids, Crash(i)
      PROVE  Inv'
  BY <1>4, DieInv DEF Crash
<1>5. ASSUME NEW i \in Ids, Cut(i) \/ Heal(i) \/ LapseGrant(i)
      PROVE  Inv'
  <2>1. TypeOK'
    <3>1. used' \in [edits : Nat, cuts : Nat, mishaps : Nat]
      BY <1>5, UseType DEF Inv, TypeOK, Cut, Heal, LapseGrant, Kinds
    <3>2. QED
      BY <1>5, <3>1 DEF Inv, TypeOK, Cut, Heal, LapseGrant
  <2>2. QED
    BY <1>5, <2>1, QuietInv DEF Cut, Heal, LapseGrant, Up
<1>6. QED
  BY <1>1, <1>2, <1>3, <1>4, <1>5

LEMMA DevloopInv ==
    ASSUME Inv, NEW i \in Ids, Devloop(i)
    PROVE  Inv'
<1> USE DEF etcd, env
<1>1. CASE ReadDevices(i)
  <2>1. CASE linked[i]
    <3>1. TypeOK'
      <4>0. manifest \ Malformed \in SUBSET (Devices \ Malformed)
        BY DEF Inv, TypeOK
      <4>1. todo' \in [Ids -> SUBSET (Devices \ Malformed)]
        BY <1>1, <2>1, <4>0 DEF Inv, TypeOK, ReadDevices
      <4>2. pc' \in [Ids -> PCs]
        BY DevicesAssumption, <1>1, <2>1 DEF Inv, TypeOK, ReadDevices, PCs
      <4>3. QED
        BY <1>1, <2>1, <4>1, <4>2 DEF Inv, TypeOK, ReadDevices
    <3>2. QED
      BY <1>1, <2>1, <3>1, QuietInv DEF ReadDevices, Up, Inv, TypeOK
  <2>2. CASE ~linked[i]
    BY <1>1, <2>2, DieInv DEF ReadDevices, Up
  <2>3. QED
    BY <2>1, <2>2
<1>2. CASE ReadTable(i)
  <2>0. UNCHANGED <<manifest, lock, linked, bounds, lease, workers, lost, used>>
    BY <1>2 DEF ReadTable
  <2>1. pc[i] = "table" /\ pc' \in [Ids -> PCs]
        /\ \E s \in {"sleep", "scan"} : pc' = [pc EXCEPT ![i] = s]
    BY <1>2 DEF ReadTable, Inv, TypeOK, PCs
  <2>2. PICK locked : \/ todo' = [todo EXCEPT ![i] = {}]
                      \/ todo' = [todo EXCEPT ![i] = @ \ locked]
    BY <1>2 DEF ReadTable
  <2>3. todo' \in [Ids -> SUBSET (Devices \ Malformed)]
    <3>1. todo \in [Ids -> SUBSET (Devices \ Malformed)]
      BY DEF Inv, TypeOK
    <3>2. \A T \in SUBSET (Devices \ Malformed) :
             [todo EXCEPT ![i] = T] \in [Ids -> SUBSET (Devices \ Malformed)]
      BY <3>1
    <3>3. QED
      BY <2>2, <3>1, <3>2
  <2>4. TypeOK'
    BY <2>0, <2>1, <2>3 DEF Inv, TypeOK
  <2>5. PICK s \in {"sleep", "scan"} : pc' = [pc EXCEPT ![i] = s]
    BY <2>1
  <2>6. \A j \in Ids : /\ Up(j)' = Up(j)
                       /\ pc'[j] = "unborn" => pc[j] = "unborn"
    BY <2>1, <2>5 DEF Up, Inv, TypeOK
  <2>7. QED
    BY <2>0, <2>4, <2>6, QuietInv DEF Inv
<1>3. CASE EndScan(i)
  <2>1. TypeOK'
    BY <1>3 DEF Inv, TypeOK, EndScan, PCs
  <2>2. QED
    BY <1>3, <2>1, QuietInv DEF EndScan, Up, Inv, TypeOK
<1>4. CASE Grant(i)
  <2>1. CASE linked[i]
    <3>1. TypeOK'
      BY <1>4, <2>1 DEF Inv, TypeOK, Grant, PCs
    <3>2. QED
      BY <1>4, <2>1, <3>1, QuietInv DEF Grant, Up, Inv, TypeOK
  <2>2. CASE ~linked[i]
    BY <1>4, <2>2, DieInv DEF Grant, Up
  <2>3. QED
    BY <2>1, <2>2
<1>5. CASE Txn(i)
  <2>1. PICK d \in todo[i] : Obtain(i, d) \/ FailToLock(i, d) \/ TxnPanics(i, d)
    BY <1>5 DEF Txn
  <2>2. d \in Devices /\ Up(i) /\ pc[i] = "txn"
    BY <1>5 DEF Txn, Inv, TypeOK, Up
  <2>3. CASE Obtain(i, d)
    <3>1. TypeOK'
      BY <1>5, <2>2, <2>3 DEF Inv, TypeOK, Obtain, Txn, PCs
    <3>2. Accounting'
      <4> SUFFICES ASSUME NEW j \in Ids, NEW e \in Devices
                   PROVE  (workers[j][e] = lost[j][e] + Renews(j, e))'
        BY DEF Accounting
      <4>1. workers[j][e] = lost[j][e] + Renews(j, e)
        BY DEF Inv, Accounting
      <4>2. CASE j = i /\ e = d
        BY NoIdAssumption, <1>5, <2>2, <2>3, <4>1, <4>2
           DEF Obtain, Renews, Up, Inv, TypeOK
      <4>3. CASE ~(j = i /\ e = d)
        BY NoIdAssumption, <1>5, <2>2, <2>3, <4>1, <4>3
           DEF Obtain, Renews, Up, Inv, TypeOK
      <4>4. QED
        BY <4>2, <4>3
    <3>3. UnbornOwnsNothing'
      BY <2>2, <2>3 DEF Inv, UnbornOwnsNothing, Obtain, TypeOK
    <3>4. QED
      BY <3>1, <3>2, <3>3 DEF Inv
  <2>4. CASE FailToLock(i, d)
    <3>1. TypeOK'
      BY <1>5, <2>2, <2>4 DEF Inv, TypeOK, FailToLock, Txn, PCs
    <3>2. QED
      BY <1>5, <2>2, <2>4, <3>1, QuietInv DEF FailToLock, Txn, Up, Inv, TypeOK
  <2>5. CASE TxnPanics(i, d)
    BY <1>5, <2>2, <2>5, DieInv DEF TxnPanics, Txn
  <2>6. QED
    BY <2>1, <2>3, <2>4, <2>5
<1>6. QED
  BY <1>1, <1>2, <1>3, <1>4, <1>5 DEF Devloop

LEMMA NextInv == Inv /\ [Next]_vars => Inv'
<1> SUFFICES ASSUME Inv, [Next]_vars PROVE Inv'
  OBVIOUS
<1>1. CASE Next
  BY <1>1, EnvironmentInv, DevloopInv DEF Next
<1>2. CASE UNCHANGED vars
  BY <1>2 DEF vars, Inv, TypeOK, Accounting, UnbornOwnsNothing, Renews, Up
<1>3. QED
  BY <1>1, <1>2

-----------------------------------------------------------------------------
(* The inductive invariant: every goroutine that processes a device runs under
   the lock of its daemon or under a lease that was lost. *)
THEOREM AccountingInvariant == Spec => []Inv
BY InitInv, NextInv, PTL DEF Spec

(* The variables of DeviceLock keep their types. *)
THEOREM TypeCorrect == Spec => []TypeOK
<1>1. Inv => TypeOK
  BY DEF Inv
<1>2. QED
  BY <1>1, AccountingInvariant, PTL

(* A daemon that is up and holds the lock of a device processes the device. *)
THEOREM OwnerAlwaysProcesses == Spec => []OwnerProcesses
<1>1. Inv => OwnerProcesses
  BY DEF Inv, TypeOK, Accounting, OwnerProcesses, Renews
<1>2. QED
  BY <1>1, AccountingInvariant, PTL

(* Two goroutines process one device only if one of them has lost its lease. *)
THEOREM Exclusion == Spec => []ExclusiveUnlessLost
<1>1. Inv => ExclusiveUnlessLost
  BY DEF Inv, TypeOK, Accounting, ExclusiveUnlessLost, Renews
<1>2. QED
  BY <1>1, AccountingInvariant, PTL

(* Every step of the daemons and of etcd is a step of the abstract lock or
   leaves the lock keys alone. *)
THEOREM Refinement == Spec => ImplementsExclusiveLock
<1> USE DEF etcd, env
<1>1. Init => Abstract!Init
  BY DEF Init, Abstract!Init
<1>2. Inv /\ [Next]_vars => [Abstract!Next]_lock
  <2> SUFFICES ASSUME Inv, [Next]_vars, lock' # lock
               PROVE  Abstract!Next
    OBVIOUS
  <2>1. ASSUME NEW d \in Devices, Expire(d)
        PROVE  Abstract!Next
    BY <2>1 DEF Expire, Abstract!Next, Abstract!Release
  <2>2. ASSUME NEW i \in Ids, Txn(i)
        PROVE  Abstract!Next
    <3>1. PICK d \in todo[i] :
              lock[d] = NoId /\ lock' = [lock EXCEPT ![d] = i]
      BY <2>2 DEF Txn, Obtain, FailToLock, TxnPanics
    <3>2. d \in Devices
      BY <3>1 DEF Inv, TypeOK
    <3>3. QED
      BY <3>1, <3>2 DEF Abstract!Next, Abstract!Take
  <2>3. QED
    BY <2>1, <2>2
       DEF Next, vars, AddDevice, RemoveDevice, Boot, Crash, Cut, Heal,
           LapseGrant, Devloop, ReadDevices, ReadTable, EndScan, Grant
<1>3. QED
  BY <1>1, <1>2, AccountingInvariant, PTL
     DEF Spec, ImplementsExclusiveLock, Abstract!Spec

-----------------------------------------------------------------------------
(* Gen2Engine. *)

\* The engine has a cancel function for a loop of d.
Stoppable(i, d) == d \in active[i] \ Misconfigured

\* That loop still has its lock.
Held(i, d) == lock[d] = i /\ Stoppable(i, d)

\* Of the loops of a device that were not told to stop, one at most has its
\* lock, and the engine can stop it.  If it can stop one that has not, that one
\* has lost its lease.  Every lease that was lost had a cut of its own, and so
\* has one that is about to be.
Account(i, d) ==
    /\ workers[i][d] = lost[i][d] + (IF Held(i, d) THEN 1 ELSE 0)
    /\ Stoppable(i, d) /\ lock[d] # i => lost[i][d] > 0
    /\ lost[i][d] + (IF ~linked[i] /\ Held(i, d) THEN 1 ELSE 0) <= used.cuts

\* Only an instance that is up has cancel functions.
ActiveIsUp == \A i \in Ids : ~Up(i) => active[i] = {}

EngineInv ==
    /\ EngineTypeOK
    /\ ActiveIsUp
    /\ \A i \in Ids, d \in Devices : Account(i, d)

-----------------------------------------------------------------------------
LEMMA EngineInitInv == EngineInit => EngineInv
<1> SUFFICES ASSUME EngineInit PROVE EngineInv
  OBVIOUS
<1>1. TypeOK
  BY InitInv DEF EngineInit, Inv
<1>2. EngineTypeOK
  BY <1>1 DEF EngineInit, EngineTypeOK, NoWorkers
<1>3. ActiveIsUp
  BY DEF EngineInit, ActiveIsUp
<1>4. ASSUME NEW i \in Ids, NEW d \in Devices PROVE Account(i, d)
  BY DEF EngineInit, Init, Account, Held, Stoppable, NoWorkers
<1>5. QED
  BY <1>2, <1>3, <1>4 DEF EngineInv

\* What a step that leaves the loops of a device in an instance alone, or only
\* restores its link, keeps.
LEMMA KeepAccount ==
    ASSUME NEW i \in Ids, NEW d \in Devices, Account(i, d),
           workers'[i][d] = workers[i][d], lost'[i][d] = lost[i][d],
           lost[i][d] \in Nat, used.cuts \in Nat, used'.cuts \in Nat,
           d \in active'[i] <=> d \in active[i],
           Stoppable(i, d) => (lock'[d] = i <=> lock[d] = i),
           ~linked'[i] => ~linked[i],
           used'.cuts >= used.cuts
    PROVE  Account(i, d)'
BY DEF Account, Held, Stoppable

LEMMA UseGrows ==
    ASSUME used \in [edits : Nat, cuts : Nat, mishaps : Nat],
           bounds \in Scenario,
           NEW kind \in Kinds, Use(kind) \/ used' = used
    PROVE  /\ used' \in [edits : Nat, cuts : Nat, mishaps : Nat]
           /\ used'.cuts >= used.cuts
           /\ used.cuts \in Nat /\ used'.cuts \in Nat
<1>1. used' \in [edits : Nat, cuts : Nat, mishaps : Nat]
  BY UseType
<1>2. used'.cuts = used.cuts \/ used'.cuts = used.cuts + 1
  <2>1. CASE used' = used
    BY <2>1
  <2>2. CASE Use(kind)
    BY <2>2 DEF Use, Kinds
  <2>3. QED
    BY <2>1, <2>2
<1>3. used.cuts \in Nat
  OBVIOUS
<1>4. QED
  BY <1>1, <1>2, <1>3

\* Where an instance ends, its loops and cancel functions end with it; it may
\* leave a lock behind that it has just taken.
LEMMA EndInv ==
    ASSUME EngineInv, NEW i \in Ids, Up(i), Die(i), Forget(i),
           \/ lock' = lock
           \/ \E d \in Devices :
                 lock[d] = NoId /\ lock' = [lock EXCEPT ![d] = i],
           manifest' = manifest, linked' = linked, bounds' = bounds,
           Use("mishaps") \/ used' = used
    PROVE  EngineInv'
<1> USE DEF EngineInv, EngineTypeOK
<1>0. /\ used' \in [edits : Nat, cuts : Nat, mishaps : Nat]
      /\ used'.cuts >= used.cuts
      /\ used.cuts \in Nat /\ used'.cuts \in Nat
  BY UseGrows DEF TypeOK, Kinds
<1>1. EngineTypeOK'
  <2>1. NoWorkers \in [Devices -> Nat]
    BY DEF NoWorkers
  <2>2. lock' \in [Devices -> Ids \cup {NoId}]
    BY DEF TypeOK
  <2>3. /\ pc' \in [Ids -> PCs]
        /\ todo' \in [Ids -> SUBSET (Devices \ Malformed)]
        /\ lease' \in [Ids -> {"none", "granted", "expired"}]
    BY DEF TypeOK, Die, PCs
  <2>4. /\ workers' \in [Ids -> [Devices -> Nat]]
        /\ lost' \in [Ids -> [Devices -> Nat]]
        /\ stopping' \in [Ids -> [Devices -> Nat]]
    BY <2>1 DEF TypeOK, Die, Forget
  <2>5. active' \in [Ids -> SUBSET Devices]
    BY DEF Forget
  <2>6. QED
    BY <1>0, <2>2, <2>3, <2>4, <2>5 DEF TypeOK
<1>2. ActiveIsUp'
  BY DEF ActiveIsUp, Die, Forget, Up, TypeOK
<1>3. ASSUME NEW j \in Ids, NEW e \in Devices PROVE Account(j, e)'
  <2>1. CASE j = i
    BY <1>0, <2>1 DEF Die, Forget, NoWorkers, Account, Held, Stoppable, TypeOK
  <2>2. CASE j # i
    <3>1. lock'[e] = j <=> lock[e] = j
      BY NoIdAssumption, <2>2 DEF TypeOK
    <3>2. workers'[j] = workers[j] /\ lost'[j] = lost[j] /\ active'[j] = active[j]
      BY <2>2 DEF Die, Forget, TypeOK
    <3>3. lost[j][e] \in Nat
      BY DEF TypeOK
    <3>4. QED
      BY <1>0, <3>1, <3>2, <3>3, KeepAccount
  <2>3. QED
    BY <2>1, <2>2
<1>4. QED
  BY <1>1, <1>2, <1>3

\* A step that leaves the locks, the loops and the life of every instance alone.
LEMMA EngineQuietInv ==
    ASSUME EngineInv, EngineTypeOK', UNCHANGED <<lock, workers, lost, active>>,
           \A j \in Ids : Up(j) => Up(j)',
           \A j \in Ids : ~linked'[j] => ~linked[j],
           used'.cuts >= used.cuts
    PROVE  EngineInv'
<1>1. ActiveIsUp'
  BY DEF EngineInv, ActiveIsUp
<1>2. ASSUME NEW j \in Ids, NEW e \in Devices PROVE Account(j, e)'
  <2>1. lost[j][e] \in Nat /\ used.cuts \in Nat /\ used'.cuts \in Nat
    BY DEF EngineInv, EngineTypeOK, TypeOK
  <2>2. QED
    BY <2>1, KeepAccount DEF EngineInv
<1>3. QED
  BY <1>1, <1>2 DEF EngineInv

-----------------------------------------------------------------------------
LEMMA ExpireInv ==
    ASSUME EngineInv, NEW d \in Devices, EngineExpire(d)
    PROVE  EngineInv'
<1> USE DEF EngineInv, EngineTypeOK, env, engine
<1> PICK i \in Ids : i = lock[d]
  BY DEF EngineExpire, TypeOK
<1>0. /\ i = lock[d]
      /\ lock' = [lock EXCEPT ![d] = NoId]
      /\ UNCHANGED <<manifest, pc, todo, lease, workers, used, linked, bounds, active, stopping>>
  BY DEF EngineExpire, TypeOK
<1>1. \/ lost' = lost /\ ~Held(i, d)
      \/ lost' = [lost EXCEPT ![i][d] = @ + 1] /\ Held(i, d) /\ ~linked[i]
  BY <1>0 DEF EngineExpire, Held, Stoppable, ActiveIsUp
<1>2. EngineTypeOK'
  <2>1. lost' \in [Ids -> [Devices -> Nat]]
    <3>1. lost \in [Ids -> [Devices -> Nat]]
      BY DEF TypeOK
    <3>2. [lost EXCEPT ![i][d] = @ + 1] \in [Ids -> [Devices -> Nat]]
      BY <3>1
    <3>3. QED
      BY <1>1, <3>1, <3>2
  <2>2. QED
    BY <1>0, <2>1 DEF TypeOK
<1>3. ActiveIsUp'
  BY <1>0 DEF ActiveIsUp, Up
<1>4. ASSUME NEW j \in Ids, NEW e \in Devices PROVE Account(j, e)'
  <2>1. /\ lost[j][e] \in Nat /\ used.cuts \in Nat /\ used'.cuts \in Nat
        /\ used'.cuts >= used.cuts
    BY <1>0 DEF TypeOK
  <2>2. CASE j = i /\ e = d
    <3>1. lock'[d] # i
      BY NoIdAssumption, <1>0 DEF TypeOK
    <3>2. CASE lost' = lost /\ ~Held(i, d)
      <4>1. ~Stoppable(i, d)
        BY <3>2 DEF Held
      <4>2. QED
        BY <1>0, <2>1, <2>2, <3>1, <3>2, <4>1, KeepAccount
    <3>3. CASE lost' = [lost EXCEPT ![i][d] = @ + 1] /\ Held(i, d) /\ ~linked[i]
      <4>1. lost'[i][d] = lost[i][d] + 1
        BY <1>0, <3>3 DEF TypeOK
      <4>2. Account(i, d)
        BY <1>0
      <4>3. ~Held(i, d)'
        BY <3>1 DEF Held
      <4>4. QED
        BY <1>0, <2>1, <2>2, <3>3, <4>1, <4>2, <4>3 DEF Account
    <3>4. QED
      BY <1>1, <3>2, <3>3
  <2>3. CASE ~(j = i /\ e = d)
    <3>1. lost'[j][e] = lost[j][e]
      BY <1>0, <1>1, <2>3 DEF TypeOK
    <3>2. lock'[e] = j <=> lock[e] = j
      BY NoIdAssumption, <1>0, <2>3 DEF TypeOK
    <3>3. QED
      BY <1>0, <2>1, <3>1, <3>2, KeepAccount
  <2>4. QED
    BY <2>2, <2>3
<1>5. QED
  BY <1>2, <1>3, <1>4

LEMMA CutInv ==
    ASSUME EngineInv, NEW i \in Ids, Cut(i), UNCHANGED engine
    PROVE  EngineInv'
<1> USE DEF EngineInv, EngineTypeOK, etcd, engine
<1>1. EngineTypeOK'
  <2>1. used' \in [edits : Nat, cuts : Nat, mishaps : Nat]
    BY UseType DEF Cut, TypeOK, Kinds
  <2>2. QED
    BY <2>1 DEF Cut, TypeOK
<1>2. ActiveIsUp'
  BY DEF Cut, ActiveIsUp, Up
<1>3. used'.cuts = used.cuts + 1 /\ used.cuts \in Nat
  BY DEF Cut, Use, TypeOK
<1>4. ASSUME NEW j \in Ids, NEW e \in Devices PROVE Account(j, e)'
  <2>1. lost[j][e] \in Nat /\ Account(j, e)
    BY DEF TypeOK
  <2>2. lost[j][e] <= used.cuts
    BY <1>3, <2>1 DEF Account
  <2>3. Held(j, e)' = Held(j, e) /\ Stoppable(j, e)' = Stoppable(j, e)
    BY DEF Cut, Held, Stoppable
  <2>4. UNCHANGED <<workers, lost, lock>>
    BY DEF Cut
  <2>5. QED
    BY <1>3, <2>1, <2>2, <2>3, <2>4 DEF Account
<1>5. QED
  BY <1>1, <1>2, <1>4

LEMMA EngineEnvironmentInv ==
    ASSUME EngineInv,
           \/ \E d \in Devices : (AddDevice(d) \/ RemoveDevice(d)) /\ UNCHANGED engine
           \/ \E d \in Devices : EngineExpire(d)
           \/ \E i \in Ids : (Boot(i) \/ Cut(i) \/ Heal(i) \/ LapseGrant(i)) /\ UNCHANGED engine
           \/ \E i \in Ids : Crash(i) /\ Forget(i)
           \/ \E i \in Ids, d \in Devices : LoopEnds(i, d)
    PROVE  EngineInv'
<1> USE DEF EngineInv, EngineTypeOK, etcd, env, engine
<1>1. ASSUME NEW d \in Devices, AddDevice(d) \/ RemoveDevice(d), UNCHANGED engine
      PROVE  EngineInv'
  <2>1. used' \in [edits : Nat, cuts : Nat, mishaps : Nat] /\ used'.cuts >= used.cuts
    BY <1>1, UseGrows DEF TypeOK, AddDevice, RemoveDevice, Kinds
  <2>2. EngineTypeOK'
    BY <1>1, <2>1 DEF TypeOK, AddDevice, RemoveDevice
  <2>3. QED
    BY <1>1, <2>1, <2>2, EngineQuietInv DEF AddDevice, RemoveDevice, Up
<1>2. ASSUME NEW i \in Ids, Boot(i), UNCHANGED engine
      PROVE  EngineInv'
  <2>1. EngineTypeOK'
    BY <1>2 DEF TypeOK, Boot, PCs
  <2>2. used'.cuts >= used.cuts
    BY <1>2 DEF TypeOK, Boot
  <2>3. QED
    BY <1>2, <2>1, <2>2, EngineQuietInv DEF Boot, Up, TypeOK
<1>3. ASSUME NEW i \in Ids, Heal(i) \/ LapseGrant(i), UNCHANGED engine
      PROVE  EngineInv'
  <2>1. used' \in [edits : Nat, cuts : Nat, mishaps : Nat] /\ used'.cuts >= used.cuts
    BY <1>3, UseGrows DEF TypeOK, Heal, LapseGrant, Kinds
  <2>2. EngineTypeOK'
    BY <1>3, <2>1 DEF TypeOK, Heal, LapseGrant
  <2>3. QED
    BY <1>3, <2>1, <2>2, EngineQuietInv DEF Heal, LapseGrant, Up, TypeOK
<1>4. ASSUME NEW i \in Ids, Crash(i), Forget(i)
      PROVE  EngineInv'
  BY <1>4, EndInv DEF Crash
<1>5. ASSUME NEW i \in Ids, NEW d \in Devices, LoopEnds(i, d)
      PROVE  EngineInv'
  <2>1. stopping' \in [Ids -> [Devices -> Nat]]
    BY <1>5 DEF LoopEnds
  <2>2. UNCHANGED <<manifest, lock, linked, pc, todo, lease, workers, lost, bounds, used, active>>
    BY <1>5 DEF LoopEnds, vars
  <2>3. EngineTypeOK' /\ used'.cuts >= used.cuts
    BY <2>1, <2>2 DEF TypeOK
  <2>4. QED
    BY <2>2, <2>3, EngineQuietInv DEF Up
<1>6. QED
  BY <1>1, <1>2, <1>3, <1>4, <1>5, ExpireInv, CutInv

-----------------------------------------------------------------------------
LEMMA CancelInv ==
    ASSUME EngineInv, NEW i \in Ids, EngineReadDevices(i), linked[i]
    PROVE  EngineInv'
<1> USE DEF EngineInv, EngineTypeOK, etcd, env
<1> DEFINE gone == active[i] \ manifest
           Loop(d) == IF d \in gone \ Misconfigured THEN 1 ELSE 0
           Late(d) == IF d \in gone \ Misconfigured /\ lock[d] # i THEN 1 ELSE 0
<1>1. /\ workers' = [workers EXCEPT ![i] = [d \in Devices |-> workers[i][d] - Loop(d)]]
      /\ lost' = [lost EXCEPT ![i] = [d \in Devices |-> lost[i][d] - Late(d)]]
      /\ stopping' = [stopping EXCEPT ![i] = [d \in Devices |-> stopping[i][d] + Loop(d)]]
      /\ active' = [active EXCEPT ![i] = @ \ gone]
      /\ pc[i] = "sleep" /\ pc' = [pc EXCEPT ![i] = "table"]
      /\ todo' = [todo EXCEPT ![i] = manifest]
      /\ UNCHANGED <<lease, used, manifest, lock, linked, bounds>>
  BY DEF EngineReadDevices, CancelRemoved, TypeOK
<1>2. ASSUME NEW d \in Devices
      PROVE  /\ workers[i][d] - Loop(d) \in Nat
             /\ lost[i][d] - Late(d) \in Nat
             /\ stopping[i][d] + Loop(d) \in Nat
  <2>1. workers[i][d] \in Nat /\ lost[i][d] \in Nat /\ stopping[i][d] \in Nat
    BY DEF TypeOK
  <2>2. Account(i, d)
    OBVIOUS
  <2>3. QED
    BY <2>1, <2>2 DEF Account, Held, Stoppable
<1>3. EngineTypeOK'
  <2>1. /\ [d \in Devices |-> workers[i][d] - Loop(d)] \in [Devices -> Nat]
        /\ [d \in Devices |-> lost[i][d] - Late(d)] \in [Devices -> Nat]
        /\ [d \in Devices |-> stopping[i][d] + Loop(d)] \in [Devices -> Nat]
    BY <1>2
  <2>2. /\ workers' \in [Ids -> [Devices -> Nat]]
        /\ lost' \in [Ids -> [Devices -> Nat]]
        /\ stopping' \in [Ids -> [Devices -> Nat]]
    BY <1>1, <2>1 DEF TypeOK
  <2>3. todo' \in [Ids -> SUBSET (Devices \ Malformed)]
    BY MalformedAssumption, <1>1 DEF TypeOK
  <2>4. pc' \in [Ids -> PCs] /\ active' \in [Ids -> SUBSET Devices]
    BY <1>1 DEF TypeOK, PCs
  <2>5. QED
    BY <1>1, <2>2, <2>3, <2>4 DEF TypeOK
<1>4. ActiveIsUp'
  BY <1>1 DEF ActiveIsUp, Up, TypeOK
<1>5. ASSUME NEW j \in Ids, NEW e \in Devices PROVE Account(j, e)'
  <2>1. /\ lost[j][e] \in Nat /\ workers[j][e] \in Nat
        /\ used.cuts \in Nat /\ used' = used
    BY <1>1 DEF TypeOK
  <2>2. CASE j # i \/ e \notin gone \ Misconfigured
    <3>1. workers'[j][e] = workers[j][e] /\ lost'[j][e] = lost[j][e]
      BY <1>1, <2>1, <2>2 DEF TypeOK
    <3>2. Stoppable(j, e)' <=> Stoppable(j, e)
      BY <1>1, <2>2 DEF Stoppable
    <3>3. QED
      BY <1>1, <2>1, <3>1, <3>2 DEF Account, Held
  <2>3. CASE j = i /\ e \in gone \ Misconfigured
    <3>1. workers'[i][e] = workers[i][e] - 1 /\ lost'[i][e] = lost[i][e] - Late(e)
      BY <1>1, <2>1, <2>3 DEF TypeOK
    <3>2. Stoppable(i, e) /\ ~Stoppable(i, e)'
      BY <1>1, <2>3 DEF Stoppable
    <3>3. QED
      BY <1>1, <2>1, <2>3, <3>1, <3>2 DEF Account, Held
  <2>4. QED
    BY <2>2, <2>3
<1>6. QED
  BY <1>3, <1>4, <1>5

LEMMA LockInv ==
    ASSUME EngineInv, NEW i \in Ids, NEW d \in Devices, pc[i] = "txn",
           LockAndHandle(i, d), UNCHANGED <<manifest, linked, bounds>>
    PROVE  EngineInv'
<1> USE DEF EngineInv, EngineTypeOK
<1>1. /\ linked[i] /\ lock[d] = NoId
      /\ lock' = [lock EXCEPT ![d] = i]
      /\ active' = [active EXCEPT ![i] = @ \cup {d}]
      /\ workers' = IF d \in Misconfigured THEN workers ELSE [workers EXCEPT ![i][d] = @ + 1]
      /\ pc' = [pc EXCEPT ![i] = "sleep"]
      /\ todo' = [todo EXCEPT ![i] = {}]
      /\ lease' = [lease EXCEPT ![i] = "none"]
      /\ UNCHANGED <<lost, used, stopping>>
  BY DEF LockAndHandle
<1>2. EngineTypeOK'
  <2>1. workers' \in [Ids -> [Devices -> Nat]]
    BY <1>1 DEF TypeOK
  <2>2. QED
    BY <1>1, <2>1 DEF TypeOK, PCs
<1>3. ActiveIsUp'
  BY <1>1 DEF ActiveIsUp, Up, TypeOK
<1>4. ASSUME NEW j \in Ids, NEW e \in Devices PROVE Account(j, e)'
  <2>1. /\ lost[j][e] \in Nat /\ workers[j][e] \in Nat
        /\ used.cuts \in Nat /\ used' = used /\ lost' = lost
        /\ Account(j, e)
    BY <1>1 DEF TypeOK
  <2>2. CASE j = i /\ e = d
    <3>1. lock'[d] = i /\ lock[d] # i /\ linked'[i]
      BY NoIdAssumption, <1>1 DEF TypeOK
    <3>2. d \in active'[i]
      BY <1>1
    <3>3. workers'[i][d] = workers[i][d] + (IF d \in Misconfigured THEN 0 ELSE 1)
      BY <1>1, <2>1, <2>2 DEF TypeOK
    <3>4. QED
      BY <2>1, <2>2, <3>1, <3>2, <3>3 DEF Account, Held, Stoppable
  <2>3. CASE ~(j = i /\ e = d)
    <3>1. workers'[j][e] = workers[j][e] /\ (e \in active'[j] <=> e \in active[j])
      BY <1>1, <2>3 DEF TypeOK
    <3>2. lock'[e] = j <=> lock[e] = j
      BY NoIdAssumption, <1>1, <2>3 DEF TypeOK
    <3>3. lost'[j][e] = lost[j][e] /\ used'.cuts >= used.cuts /\ used'.cuts \in Nat
      BY <2>1
    <3>4. QED
      BY <2>1, <3>1, <3>2, <3>3, KeepAccount
  <2>4. QED
    BY <2>2, <2>3
<1>5. QED
  BY <1>2, <1>3, <1>4

LEMMA EngineLoopInv ==
    ASSUME EngineInv, NEW i \in Ids, Engine(i)
    PROVE  EngineInv'
<1> USE DEF EngineInv, EngineTypeOK, etcd, env, engine
<1>1. CASE EngineReadDevices(i)
  <2>1. CASE ~linked[i]
    BY <1>1, <2>1, EndInv DEF EngineReadDevices, Up
  <2>2. QED
    BY <1>1, <2>1, CancelInv
<1>2. CASE ReadTable(i) /\ UNCHANGED engine
  <2>0. UNCHANGED <<manifest, lock, linked, bounds, lease, workers, lost, used, active, stopping>>
    BY <1>2 DEF ReadTable
  <2>1. PICK s \in {"sleep", "scan"} : pc' = [pc EXCEPT ![i] = s]
    BY <1>2 DEF ReadTable
  <2>2. PICK locked : \/ todo' = [todo EXCEPT ![i] = {}]
                      \/ todo' = [todo EXCEPT ![i] = @ \ locked]
    BY <1>2 DEF ReadTable
  <2>3. todo' \in [Ids -> SUBSET (Devices \ Malformed)]
    <3>1. todo \in [Ids -> SUBSET (Devices \ Malformed)]
      BY DEF TypeOK
    <3>2. \A T \in SUBSET (Devices \ Malformed) :
             [todo EXCEPT ![i] = T] \in [Ids -> SUBSET (Devices \ Malformed)]
      BY <3>1
    <3>3. QED
      BY <2>2, <3>1, <3>2
  <2>4. EngineTypeOK'
    BY <2>0, <2>1, <2>3 DEF TypeOK, PCs
  <2>5. \A j \in Ids : Up(j) => Up(j)'
    BY <2>1 DEF Up, TypeOK
  <2>6. used'.cuts >= used.cuts
    BY <2>0 DEF TypeOK
  <2>7. QED
    BY <2>0, <2>4, <2>5, <2>6, EngineQuietInv
<1>3. CASE EndScan(i) /\ UNCHANGED engine
  <2>1. EngineTypeOK' /\ used'.cuts >= used.cuts
    BY <1>3 DEF TypeOK, EndScan, PCs
  <2>2. QED
    BY <1>3, <2>1, EngineQuietInv DEF EndScan, Up, TypeOK
<1>4. CASE EngineGrant(i)
  <2>1. CASE linked[i]
    <3>1. /\ UNCHANGED <<manifest, lock, linked, bounds, todo, workers, lost, used,
                         active, stopping>>
          /\ pc[i] = "scan" /\ pc' = [pc EXCEPT ![i] = "txn"]
          /\ lease' = [lease EXCEPT ![i] = "granted"]
      BY <1>4, <2>1 DEF EngineGrant, Grant
    <3>2. EngineTypeOK' /\ used'.cuts >= used.cuts
      BY <3>1 DEF TypeOK, PCs
    <3>3. \A j \in Ids : Up(j) => Up(j)'
      BY <3>1 DEF Up, TypeOK
    <3>4. QED
      BY <3>1, <3>2, <3>3, EngineQuietInv
  <2>2. CASE ~linked[i]
    BY <1>4, <2>2, EndInv DEF EngineGrant, Grant, Up
  <2>3. QED
    BY <2>1, <2>2
<1>5. CASE EngineTxn(i)
  <2>1. PICK d \in todo[i] : \/ LockAndHandle(i, d)
                             \/ FailToLock(i, d) /\ UNCHANGED engine
                             \/ TxnPanics(i, d) /\ Forget(i)
    BY <1>5 DEF EngineTxn
  <2>2. d \in Devices /\ Up(i) /\ pc[i] = "txn" /\ UNCHANGED <<manifest, linked, bounds>>
    BY <1>5 DEF EngineTxn, TypeOK, Up
  <2>3. CASE LockAndHandle(i, d)
    BY <2>2, <2>3, LockInv
  <2>4. CASE FailToLock(i, d) /\ UNCHANGED engine
    <3>1. EngineTypeOK' /\ used'.cuts >= used.cuts
      BY <2>2, <2>4 DEF TypeOK, FailToLock, PCs
    <3>2. QED
      BY <2>2, <2>4, <3>1, EngineQuietInv DEF FailToLock, Up, TypeOK
  <2>5. CASE TxnPanics(i, d) /\ Forget(i)
    BY <2>2, <2>5, EndInv DEF TxnPanics
  <2>6. QED
    BY <2>1, <2>3, <2>4, <2>5
<1>6. QED
  BY <1>1, <1>2, <1>3, <1>4, <1>5 DEF Engine

LEMMA EngineNextInv == EngineInv /\ [EngineNext]_engineVars => EngineInv'
<1> SUFFICES ASSUME EngineInv, [EngineNext]_engineVars PROVE EngineInv'
  OBVIOUS
<1>1. CASE EngineNext
  BY <1>1, EngineEnvironmentInv, EngineLoopInv DEF EngineNext
<1>2. CASE UNCHANGED engineVars
  BY <1>2 DEF engineVars, vars, EngineInv, EngineTypeOK, TypeOK, ActiveIsUp,
              Account, Held, Stoppable, Up
<1>3. QED
  BY <1>1, <1>2

-----------------------------------------------------------------------------
(* The inductive invariant: what becomes of every loop that the engine started
   and has not told to stop. *)
THEOREM LoopAccounting == EngineSpec => []EngineInv
BY EngineInitInv, EngineNextInv, PTL DEF EngineSpec

(* The variables of Gen2Engine keep their types; above all, no loop is told to
   stop that is not there. *)
THEOREM EngineTypeCorrect == EngineSpec => []EngineTypeOK
<1>1. EngineInv => EngineTypeOK
  BY DEF EngineInv
<1>2. QED
  BY <1>1, LoopAccounting, PTL

(* A loop that the engine has no cancel function for has lost its lease, and
   every lost lease had a lost link before it. *)
THEOREM LoopsOutOfReach == EngineSpec => []OutOfReachIsLost
<1>1. EngineInv => OutOfReachIsLost
  <2> SUFFICES ASSUME EngineInv, NEW i \in Ids, NEW d \in Devices
               PROVE  /\ 0 <= OutOfReach(i, d)
                      /\ OutOfReach(i, d) <= lost[i][d]
                      /\ lost[i][d] <= used.cuts
    BY DEF OutOfReachIsLost
  <2>1. lost[i][d] \in Nat /\ workers[i][d] \in Nat /\ used.cuts \in Nat
    BY DEF EngineInv, EngineTypeOK, TypeOK
  <2>2. Account(i, d)
    BY DEF EngineInv
  <2>3. QED
    BY <2>1, <2>2 DEF Account, OutOfReach, Held, Stoppable
<1>2. QED
  BY <1>1, LoopAccounting, PTL

(* Of all loops for a device, in one instance or in several, that were not told
   to stop and have not lost their lease, there is one at most: what the c37.118
   daemon promises holds for every daemon built on the engine.  (One that was
   told to stop may still run when the next instance starts.) *)
THEOREM EngineExclusion == EngineSpec => []ExclusiveUnlessLost
<1>1. EngineInv => ExclusiveUnlessLost
  <2> SUFFICES ASSUME EngineInv, NEW d \in Devices, NEW i \in Ids, NEW j \in Ids
               PROVE  /\ workers[i][d] - lost[i][d] \in {0, 1}
                      /\ workers[i][d] > lost[i][d] /\ workers[j][d] > lost[j][d] => i = j
    BY DEF ExclusiveUnlessLost
  <2>1. /\ lost[i][d] \in Nat /\ workers[i][d] \in Nat
        /\ lost[j][d] \in Nat /\ workers[j][d] \in Nat
    BY DEF EngineInv, EngineTypeOK, TypeOK
  <2>2. /\ workers[i][d] = lost[i][d] + (IF Held(i, d) THEN 1 ELSE 0)
        /\ workers[j][d] = lost[j][d] + (IF Held(j, d) THEN 1 ELSE 0)
    BY DEF EngineInv, Account
  <2>3. Held(i, d) /\ Held(j, d) => i = j
    BY DEF Held
  <2>4. QED
    BY <2>1, <2>2, <2>3
<1>2. QED
  BY <1>1, LoopAccounting, PTL

(* The engine's steps too take only locks that are free: cancelling a device
   leaves its lock to expire and never hands it over. *)
THEOREM EngineRefinement == EngineSpec => ImplementsExclusiveLock
<1> USE DEF etcd, env
<1>1. EngineInit => Abstract!Init
  BY DEF EngineInit, Init, Abstract!Init
<1>2. EngineInv /\ [EngineNext]_engineVars => [Abstract!Next]_lock
  <2> SUFFICES ASSUME EngineInv, [EngineNext]_engineVars, lock' # lock
               PROVE  Abstract!Next
    OBVIOUS
  <2>1. ASSUME NEW d \in Devices, EngineExpire(d)
        PROVE  Abstract!Next
    BY <2>1 DEF EngineExpire, Abstract!Next, Abstract!Release
  <2>2. ASSUME NEW i \in Ids, EngineTxn(i)
        PROVE  Abstract!Next
    <3>1. PICK d \in todo[i] :
              lock[d] = NoId /\ lock' = [lock EXCEPT ![d] = i]
      BY <2>2 DEF EngineTxn, LockAndHandle, FailToLock, TxnPanics
    <3>2. d \in Devices
      BY <3>1 DEF EngineInv, EngineTypeOK, TypeOK
    <3>3. QED
      BY <3>1, <3>2 DEF Abstract!Next, Abstract!Take
  <2>3. ASSUME NEW i \in Ids, Engine(i)
        PROVE  Abstract!Next
    BY <2>2, <2>3 DEF Engine, EngineReadDevices, ReadTable, EndScan, EngineGrant, Grant
  <2>4. QED
    BY <2>1, <2>3
       DEF EngineNext, engineVars, vars, AddDevice, RemoveDevice, Boot, Crash, Cut, Heal,
           LapseGrant, LoopEnds
<1>3. QED
  BY <1>1, <1>2, LoopAccounting, PTL
     DEF EngineSpec, ImplementsExclusiveLock, Abstract!Spec
===============================================================================
