---------------------------- MODULE Backup_proofs ----------------------------
(***************************************************************************)
(* The procedure of backuptool proved for any objects, values, workers,    *)
(* capacities of the channels and bounds: what the target of the two       *)
(* restores holds.                                                         *)
(***************************************************************************)
EXTENDS Backup, SequenceTheorems, TLAPS

-----------------------------------------------------------------------------
(* An object is at one place of a backup. *)

\* What is to be looked at was listed once, and has no time yet.
TodoInv ==
    /\ \A i, j \in DOMAIN todo : todo[i] = todo[j] => i = j
    /\ \A i \in DOMAIN todo : stamps[todo[i]] = None
    /\ lister.on => /\ \A i \in DOMAIN todo : todo[i] \in lister.listed
                    /\ \A o \in Objects : stamps[o] # None => o \in lister.listed

WorkerInv ==
    \A w \in Workers : worker[w].pc # "idle" =>
       /\ stamps[worker[w].oid] # None
       /\ \A x \in Workers : worker[x].oid = worker[w].oid => x = w
       /\ \A i \in DOMAIN towrite : towrite[i].oid # worker[w].oid
       /\ writer # None => writer.oid # worker[w].oid
       /\ \A c \in archive : c.oid # worker[w].oid

ToWriteInv ==
    \A i \in DOMAIN towrite :
       /\ stamps[towrite[i].oid] # None
       /\ \A j \in DOMAIN towrite : towrite[j].oid = towrite[i].oid => j = i
       /\ writer # None => writer.oid # towrite[i].oid
       /\ \A c \in archive : c.oid # towrite[i].oid

WriterInv ==
    writer # None => /\ stamps[writer.oid] # None
                     /\ \A c \in archive : c.oid # writer.oid

ArchiveInv == \A c \in archive : stamps[c.oid] # None

\* An object that has a time is on its way to the archive, or there.
Somewhere(o) ==
    \/ \E w \in Workers : worker[w].pc # "idle" /\ worker[w].oid = o
    \/ \E i \in DOMAIN towrite : towrite[i].oid = o
    \/ writer # None /\ writer.oid = o
    \/ \E c \in archive : c.oid = o

PlaceInv ==
    /\ TodoInv /\ WorkerInv /\ ToWriteInv /\ WriterInv /\ ArchiveInv
    /\ \A o \in Objects : stamps[o] # None => Somewhere(o)

-----------------------------------------------------------------------------
(* What is read of an object that keeps its time is what the object holds. *)

Fits(c) == c.data = Empty <=> ~Filled(c.oid)

\* c was read of an object at a time.
Matches(c, time) ==
    ceph[c.oid] # None /\ ceph[c.oid].mtime = time =>
       c.data \in {ceph[c.oid].data, Garbage} /\ c.attrs = ceph[c.oid].attrs

MatchInv ==
    /\ \A w \in Workers : worker[w].pc \in {"attrs", "send"} =>
          /\ worker[w].data # Garbage /\ Fits(worker[w])
          /\ LET o == worker[w].oid IN
             ceph[o] # None /\ ceph[o].mtime = stamps[o] =>
                /\ worker[w].data = ceph[o].data
                /\ worker[w].pc = "send" => worker[w].attrs = ceph[o].attrs
    /\ \A i \in DOMAIN towrite : Fits(towrite[i]) /\ Matches(towrite[i], stamps[towrite[i].oid])
    /\ writer # None => Fits(writer) /\ Matches(writer, stamps[writer.oid])
    /\ \A c \in archive : Matches(c, stamps[c.oid])

\* While the incremental backup runs nothing changes: what has a time has the
\* time of the object, and what has none is still to be listed or looked at, or
\* was noted by the full backup in the second that it has now.
IncrInv ==
    phase = "incr" =>
       /\ \A o \in Objects : stamps[o] # None => ceph[o] # None /\ stamps[o] = ceph[o].mtime
       /\ used["listerrors"] = 0 =>
             \A o \in Existing :
                \/ lister.on /\ o \in lister.owed \ lister.listed
                \/ \E i \in DOMAIN todo : todo[i] = o
                \/ stamps[o] # None
                \/ SameSecond(o)

-----------------------------------------------------------------------------
(* The finished backups, and the target. *)

Complete(b) ==
    /\ \A o \in Objects : b.stamps[o] # None => \E c \in b.archive : c.oid = o
    /\ \A c, e \in b.archive : c.oid = e.oid => c = e

FullInv ==
    IF phase = "full" THEN full = None
    ELSE Complete(full) /\ \A c \in full.archive : Matches(c, full.stamps[c.oid])

Restoring == phase \in {"restore full", "restore incr", "done"}

IncrDone ==
    IF ~Restoring THEN incr = None
    ELSE /\ Complete(incr)
         /\ \A c \in incr.archive : ceph[c.oid] # None /\ Matches(c, ceph[c.oid].mtime)
         /\ used["listerrors"] = 0 =>
               \A o \in Existing : \/ \E c \in incr.archive : c.oid = o
                                   \/ SameSecond(o)

\* The target has a container.
Holds(c) ==
    c.data # Empty \/ c.attrs # {} =>
       /\ target[c.oid] # None
       /\ c.data # Empty => target[c.oid].data = c.data
       /\ c.attrs \subseteq target[c.oid].attrs

\* A container of the full backup that the incremental one does not replace.
Final(c) == \A e \in incr.archive : e.oid # c.oid

TargetInv ==
    /\ \A o \in Objects : target[o] # None => (target[o].data = Empty <=> ~Filled(o))
    /\ ~Restoring => left = {}
    /\ phase = "restore full" =>
          left \subseteq full.archive /\ \A c \in full.archive \ left : Holds(c)
    /\ phase = "restore incr" => 
          /\ left \subseteq incr.archive
          /\ \A c \in full.archive : Final(c) => Holds(c)
          /\ \A c \in incr.archive \ left : Holds(c)
    /\ phase = "done" =>
          /\ left = {}
          /\ \A c \in full.archive : Final(c) => Holds(c)
          /\ \A c \in incr.archive : Holds(c)

\* Between the backups and after them the goroutines are gone.
QuietInv ==
    ~Running => /\ ~lister.on /\ todo = <<>> /\ towrite = <<>> /\ writer = None
                /\ \A w \in Workers : worker[w].pc = "idle"

IInv == TypeOK /\ QuietInv /\ PlaceInv /\ MatchInv /\ IncrInv /\ FullInv /\ IncrDone /\ TargetInv

-----------------------------------------------------------------------------
(* Sequences. *)

LEMMA Tails ==
    ASSUME NEW S, NEW s \in Seq(S), s # <<>>
    PROVE  /\ Head(s) = s[1] /\ Head(s) \in S /\ 1 \in DOMAIN s
           /\ Tail(s) \in Seq(S) /\ Len(Tail(s)) = Len(s) - 1
           /\ \A i \in DOMAIN Tail(s) : /\ i + 1 \in DOMAIN s /\ i + 1 # 1
                                        /\ Tail(s)[i] = s[i + 1]
           /\ \A i \in DOMAIN s :
                 i = 1 \/ (i - 1 \in DOMAIN Tail(s) /\ Tail(s)[i - 1] = s[i])
<1>1. /\ Len(s) \in Nat /\ Len(s) > 0 /\ DOMAIN s = 1 .. Len(s)
      /\ Tail(s) \in Seq(S) /\ Len(Tail(s)) = Len(s) - 1
      /\ DOMAIN Tail(s) = 1 .. Len(s) - 1
  BY EmptySeq, HeadTailProperties, LenProperties
<1>2. Head(s) = s[1] /\ Head(s) \in S
  BY <1>1
<1>3. \A i \in 1 .. Len(s) - 1 : Tail(s)[i] = s[i + 1]
  BY HeadTailProperties
<1>4. QED
  BY <1>1, <1>2, <1>3

LEMMA Appends ==
    ASSUME NEW S, NEW s \in Seq(S), NEW e \in S
    PROVE  /\ Append(s, e) \in Seq(S) /\ Len(Append(s, e)) = Len(s) + 1
           /\ Len(s) + 1 \in DOMAIN Append(s, e) /\ Append(s, e)[Len(s) + 1] = e
           /\ Len(s) + 1 \notin DOMAIN s
           /\ \A i \in DOMAIN s : i \in DOMAIN Append(s, e) /\ Append(s, e)[i] = s[i]
           /\ \A i \in DOMAIN Append(s, e) : i \in DOMAIN s \/ i = Len(s) + 1
BY AppendProperties, LenProperties

-----------------------------------------------------------------------------
(* Values. *)

LEMMA Stored ==
    ASSUME SystemOK, NEW o \in Objects, ceph[o] # None
    PROVE  /\ ceph[o] \in Object
           /\ ceph[o].data \in Contents /\ ceph[o].attrs \in AttrSets
           /\ ceph[o].mtime \in 1..clock /\ ceph[o].mtime # None
           /\ ceph[o].data # Garbage /\ (ceph[o].data = Empty <=> ~Filled(o))
<1>1. ceph[o] \in Object /\ ceph[o].mtime \in 1..clock /\ clock \in Nat
  BY DEF SystemOK, Existing
<1>2. PICK v \in Values[o] : v = [data |-> ceph[o].data, attrs |-> ceph[o].attrs]
  BY DEF SystemOK, Existing
<1>3. ceph[o].data # Garbage /\ (ceph[o].data = Empty <=> ~Filled(o))
  BY <1>2, ValuesAssumption, GarbageAssumption
<1>4. QED
  BY <1>1, <1>3, NoneAssumption DEF Object

LEMMA Kept == ASSUME NEW o \in Objects, NEW v \in Values[o], NEW t \in Nat
              PROVE  /\ Holding(v, t) \in Object /\ Holding(v, t) # None
                     /\ Holding(v, t).mtime = t
                     /\ [data |-> Holding(v, t).data, attrs |-> Holding(v, t).attrs] = v
<1>1. v \in [data : Contents, attrs : AttrSets]
  BY ValuesAssumption DEF Value
<1>2. v = [data |-> v.data, attrs |-> v.attrs] /\ v.data \in Contents /\ v.attrs \in AttrSets
  BY <1>1
<1>3. Holding(v, t) \in Object /\ Holding(v, t).mtime = t
  BY <1>2 DEF Holding, Object
<1>4. Holding(v, t).data = v.data /\ Holding(v, t).attrs = v.attrs
  BY DEF Holding
<1>5. QED
  BY <1>2, <1>3, <1>4, NoneAssumption

-----------------------------------------------------------------------------
LEMMA InitInv == Init => IInv
<1> SUFFICES ASSUME Init PROVE IInv
  OBVIOUS
<1>1. ASSUME NEW o \in Objects
      PROVE  /\ bounds.objects[o] \in Values[o] \cup {None}
             /\ ceph[o] = IF bounds.objects[o] = None THEN None
                          ELSE Holding(bounds.objects[o], TicksPerSecond)
  BY ScenariosAssumption DEF Init
<1>2. SystemOK
  <2>1. ASSUME NEW o \in Objects
        PROVE  /\ ceph[o] \in Object \cup {None}
               /\ ceph[o] # None => /\ ceph[o].mtime = TicksPerSecond
                    /\ [data |-> ceph[o].data, attrs |-> ceph[o].attrs] \in Values[o]
    <3>1. CASE bounds.objects[o] = None
      BY <1>1, <3>1
    <3>2. CASE bounds.objects[o] # None
      BY <1>1, <3>2, Kept, TicksAssumption
    <3>3. QED
      BY <3>1, <3>2
  <2>2. ceph \in [Objects -> Object \cup {None}]
    <3>1. ceph = [o \in Objects |-> ceph[o]]
      BY DEF Init
    <3>2. QED
      BY <2>1, <3>1
  <2>3. QED
    <3>1. /\ bounds \in Scenarios /\ used \in [Kinds -> Nat] /\ clock = TicksPerSecond
          /\ phase = "full"
      BY DEF Init
    <3>2. TicksPerSecond \in Nat \ {0} /\ TicksPerSecond \in 1 .. TicksPerSecond
      BY TicksAssumption
    <3>3. QED
      BY <2>1, <2>2, <3>1, <3>2 DEF SystemOK, Existing
<1>3. GoroutinesOK
  <2>1. lister \in [on : BOOLEAN, listed : SUBSET Objects, owed : SUBSET Objects]
    BY DEF Init, Existing
  <2>2. /\ todo \in Seq(Objects) /\ Len(todo) <= TodoLen
        /\ towrite \in Seq(Carried) /\ Len(towrite) <= ToWriteLen
    <3>1. <<>> \in Seq(Objects) /\ <<>> \in Seq(Carried) /\ Len(<<>>) = 0
      OBVIOUS
    <3>2. QED
      BY <3>1, CapacitiesAssumption DEF Init
  <2>3. QED
    BY <2>1, <2>2 DEF Init, GoroutinesOK, Idle, Contents, AttrSets, Running
<1>4. BackupsOK
  BY DEF Init, BackupsOK, Nothing, Stamps
<1>5. QuietInv /\ PlaceInv
  BY DEF Init, QuietInv, Running, PlaceInv, TodoInv, WorkerInv, ToWriteInv, WriterInv,
         ArchiveInv, Nothing, Idle
<1>6. MatchInv
  <2>1. DOMAIN towrite = {} /\ writer = None /\ archive = {}
    BY DEF Init
  <2>2. \A w \in Workers : worker[w].pc = "idle"
    BY DEF Init, Idle
  <2>3. QED
    BY <2>1, <2>2 DEF MatchInv
<1>7. IncrInv /\ FullInv /\ IncrDone /\ TargetInv
  BY DEF Init, IncrInv, FullInv, IncrDone, TargetInv, Restoring, Nothing
<1>8. QED
  BY <1>2, <1>3, <1>4, <1>5, <1>6, <1>7 DEF IInv, TypeOK
-----------------------------------------------------------------------------
(* What the steps of a backup leave alone. *)

LEMMA Uses ==
    ASSUME SystemOK, NEW k \in Kinds, Use(k)
    PROVE  /\ used' \in [Kinds -> Nat]
           /\ used'["listerrors"] = 0 => used["listerrors"] = 0
           /\ k = "listerrors" => used'["listerrors"] # 0
<1>1. used \in [Kinds -> Nat] /\ "listerrors" \in Kinds
  BY DEF SystemOK, Kinds
<1>2. used' = [used EXCEPT ![k] = used[k] + 1] /\ used[k] \in Nat
  BY <1>1 DEF Use
<1>3. used[k] + 1 \in Nat /\ used[k] + 1 # 0
  BY <1>2
<1>4. QED
  BY <1>1, <1>2, <1>3

LEMMA SystemStill ==
    ASSUME SystemOK, UNCHANGED <<bounds, ceph, clock, phase>>, used' \in [Kinds -> Nat]
    PROVE  SystemOK'
BY DEF SystemOK, Existing

LEMMA BackupsStill ==
    ASSUME BackupsOK, UNCHANGED <<clock, phase, backups, restore>>,
           stamps' \in Stamps, archive' \subseteq Containers,
           \A c, e \in archive' : c.oid = e.oid => c = e
    PROVE  BackupsOK'
<1>1. Stamps' = Stamps /\ Backups' = Backups
  BY DEF Stamps, Backups
<1>2. QED
  BY <1>1 DEF BackupsOK, backups, restore

LEMMA Still ==
    ASSUME FullInv, IncrDone, TargetInv, UNCHANGED <<ceph, phase, backups, restore>>,
           used'["listerrors"] = 0 => used["listerrors"] = 0
    PROVE  FullInv' /\ IncrDone' /\ TargetInv'
<1>1. UNCHANGED <<full, incr, left, target>>
  BY DEF backups, restore
<1>2. FullInv'
  BY <1>1 DEF FullInv, Complete, Matches
<1>3. IncrDone'
  BY <1>1 DEF IncrDone, Restoring, Complete, Matches, Existing, SameSecond
<1>4. TargetInv'
  BY <1>1 DEF TargetInv, Restoring, Holds, Final
<1>5. QED
  BY <1>2, <1>3, <1>4

LEMMA Empties ==
    /\ <<>> \in Seq(Objects) /\ <<>> \in Seq(Carried)
    /\ Len(<<>>) = 0 /\ DOMAIN <<>> = {}
OBVIOUS

\* A backup that begins, or begins again.
LEMMA Begins ==
    ASSUME SystemOK, Begin, Running', UNCHANGED ceph
    PROVE  /\ GoroutinesOK' /\ QuietInv' /\ PlaceInv' /\ MatchInv' /\ IncrInv'
           /\ stamps' \in Stamps' /\ archive' = {}
<1>1. /\ lister' = [on |-> TRUE, listed |-> {}, owed |-> Existing]
      /\ todo' = <<>> /\ towrite' = <<>>
      /\ worker' = [w \in Workers |-> Idle] /\ writer' = None
      /\ stamps' = [o \in Objects |-> None] /\ archive' = {}
  BY DEF Begin, Nothing
<1>2. GoroutinesOK'
  <2>1. lister' \in [on : BOOLEAN, listed : SUBSET Objects, owed : SUBSET Objects]
    BY <1>1 DEF Existing
  <2>2. /\ todo' \in Seq(Objects) /\ Len(todo') <= TodoLen
        /\ towrite' \in Seq(Carried) /\ Len(towrite') <= ToWriteLen
    BY <1>1, Empties, CapacitiesAssumption
  <2>3. QED
    BY <1>1, <2>1, <2>2 DEF GoroutinesOK, Idle, Contents, AttrSets
<1>3. QuietInv'
  BY DEF QuietInv
<1>4. /\ DOMAIN todo' = {} /\ DOMAIN towrite' = {}
      /\ \A w \in Workers : worker'[w].pc = "idle"
      /\ \A o \in Objects : stamps'[o] = None
  BY <1>1, Empties DEF Idle
<1>5. PlaceInv'
  BY <1>1, <1>4 DEF PlaceInv, TodoInv, WorkerInv, ToWriteInv, WriterInv, ArchiveInv
<1>6. MatchInv'
  BY <1>1, <1>4 DEF MatchInv
<1>7. IncrInv'
  <2>1. lister'.on /\ Existing' = lister'.owed \ lister'.listed
    BY <1>1 DEF Existing
  <2>2. QED
    BY <1>4, <2>1 DEF IncrInv
<1>8. QED
  BY <1>1, <1>2, <1>3, <1>5, <1>6, <1>7 DEF Stamps

LEMMA Restarts ==
    ASSUME IInv, Running, Begin, UNCHANGED <<bounds, ceph, clock, phase, backups, restore>>,
           used' \in [Kinds -> Nat], used'["listerrors"] = 0 => used["listerrors"] = 0
    PROVE  IInv'
<1>1. Running'
  BY DEF Running
<1>2. /\ GoroutinesOK' /\ QuietInv' /\ PlaceInv' /\ MatchInv' /\ IncrInv'
      /\ stamps' \in Stamps' /\ archive' = {}
  BY <1>1, Begins DEF IInv, TypeOK
<1>3. SystemOK'
  BY SystemStill DEF IInv, TypeOK
<1>4. BackupsOK'
  <2>1. stamps' \in Stamps
    BY <1>2 DEF Stamps
  <2>2. QED
    BY <1>2, <2>1, BackupsStill DEF IInv, TypeOK
<1>5. FullInv' /\ IncrDone' /\ TargetInv'
  BY Still DEF IInv
<1>6. QED
  BY <1>2, <1>3, <1>4, <1>5 DEF IInv, TypeOK

LEMMA CrashInv == IInv /\ Crash => IInv'
<1> SUFFICES ASSUME IInv, Crash PROVE IInv'
  OBVIOUS
<1>1. /\ used' \in [Kinds -> Nat]
      /\ used'["listerrors"] = 0 => used["listerrors"] = 0
  <2>1. "crashes" \in Kinds
    BY DEF Kinds
  <2>2. QED
    BY <2>1, Uses DEF Crash, IInv, TypeOK
<1>2. QED
  BY <1>1, Restarts DEF Crash

LEMMA ShutDownInv == IInv /\ ShutDown => IInv'
<1> SUFFICES ASSUME IInv, ShutDown PROVE IInv'
  OBVIOUS
<1>1. /\ phase = "live" /\ phase' = "incr" /\ Begin
      /\ UNCHANGED <<bounds, used, ceph, clock, full, incr, left, target>>
  BY DEF ShutDown, backups, restore
<1>2. /\ GoroutinesOK' /\ QuietInv' /\ PlaceInv' /\ MatchInv' /\ IncrInv'
      /\ stamps' \in Stamps' /\ archive' = {}
  BY <1>1, Begins DEF IInv, TypeOK, Running
<1>3. SystemOK'
  BY <1>1 DEF IInv, TypeOK, SystemOK, Existing
<1>4. BackupsOK'
  <2>1. Backups' = Backups
    BY <1>1 DEF Stamps, Backups
  <2>2. QED
    BY <1>1, <1>2, <2>1 DEF IInv, TypeOK, BackupsOK
<1>5. FullInv'
  BY <1>1 DEF IInv, FullInv, Complete, Matches
<1>6. IncrDone' /\ TargetInv'
  BY <1>1 DEF IInv, IncrDone, TargetInv, Restoring
<1>7. QED
  BY <1>2, <1>3, <1>4, <1>5, <1>6 DEF IInv, TypeOK
-----------------------------------------------------------------------------
(* BTrDB. *)

LEMMA Carries ==
    ASSUME GoroutinesOK
    PROVE  /\ \A i \in DOMAIN towrite : towrite[i] \in Carried /\ towrite[i].oid \in Objects
           /\ writer # None => writer \in Carried /\ writer.oid \in Objects
           /\ \A w \in Workers : worker[w].pc # "idle" => worker[w].oid \in Objects
<1>1. \A i \in DOMAIN towrite : towrite[i] \in Carried
  BY DEF GoroutinesOK
<1>2. \A c \in Carried : c.oid \in Objects
  BY DEF Carried
<1>3. writer # None => writer \in Carried
  BY DEF GoroutinesOK
<1>4. \A w \in Workers : worker[w].pc # "idle" => worker[w].oid \in Objects
  BY DEF GoroutinesOK
<1>5. QED
  BY <1>1, <1>2, <1>3, <1>4

LEMMA Contained == ASSUME NEW c \in Containers PROVE c.oid \in Objects /\ Fits(c)
BY DEF Containers, Fits

LEMMA NotATime == ASSUME NEW S \in [Objects -> 1..clock \cup {None}], NEW o \in Objects,
                         clock \in Nat
                  PROVE  S[o] = None \/ S[o] \in 1..clock
OBVIOUS

\* An object that changes gets a time that no backup has yet.
LEMMA Outside ==
    ASSUME IInv, SystemOK', phase \in {"full", "live"}, clock' >= clock,
           UNCHANGED <<phase, todo, towrite, worker, writer, output, backups, restore>>,
           lister' \in [on : BOOLEAN, listed : SUBSET Objects, owed : SUBSET Objects],
           lister'.on = lister.on, lister'.listed = lister.listed,
           \A o \in Objects : ceph'[o] # None /\ ceph'[o].mtime \in 1..clock =>
                                 ceph'[o] = ceph[o]
    PROVE  IInv'
<1>1. UNCHANGED <<stamps, archive, full, incr, left, target>>
  BY DEF output, backups, restore
<1>2. SystemOK /\ GoroutinesOK /\ BackupsOK /\ clock \in Nat /\ clock' \in Nat
  BY DEF IInv, TypeOK, SystemOK
<1>3. Stamps \subseteq Stamps'
  <2>1. 1..clock \subseteq 1..clock'
    BY <1>2
  <2>2. QED
    BY <2>1 DEF Stamps
<1>4. GoroutinesOK'
  BY <1>2 DEF GoroutinesOK, Running
<1>5. BackupsOK'
  <2>1. Backups \subseteq Backups'
    BY <1>3 DEF Backups
  <2>2. QED
    BY <1>1, <1>2, <1>3, <2>1 DEF BackupsOK
<1>6. QuietInv'
  BY DEF IInv, QuietInv, Running
<1>7. PlaceInv'
  <2>1. TodoInv' /\ WorkerInv' /\ ToWriteInv' /\ WriterInv' /\ ArchiveInv'
    BY <1>1 DEF IInv, PlaceInv, TodoInv, WorkerInv, ToWriteInv, WriterInv, ArchiveInv
  <2>2. QED
    BY <1>1, <2>1 DEF IInv, PlaceInv, Somewhere
<1>8. ASSUME NEW S \in Stamps, NEW c, c.oid \in Objects, Matches(c, S[c.oid])
      PROVE  Matches(c, S[c.oid])'
  <2>1. SUFFICES ASSUME ceph'[c.oid] # None, ceph'[c.oid].mtime = S[c.oid]
                 PROVE  c.data \in {ceph'[c.oid].data, Garbage} /\ c.attrs = ceph'[c.oid].attrs
    BY DEF Matches
  <2>2. ceph'[c.oid].mtime \in 1..clock'
    BY <1>8, <2>1 DEF SystemOK, Existing
  <2>3. ceph'[c.oid].mtime # None
    BY <1>2, <2>2, NoneAssumption
  <2>4. S[c.oid] \in 1..clock
    BY <1>2, <1>8, <2>1, <2>3, NotATime DEF Stamps
  <2>5. QED
    BY <1>8, <2>1, <2>4 DEF Matches
<1>9. MatchInv'
  <2>1. stamps \in Stamps
    BY <1>2 DEF BackupsOK
  <2>2. ASSUME NEW w \in Workers, worker[w].pc \in {"attrs", "send"},
               ceph'[worker[w].oid] # None,
               ceph'[worker[w].oid].mtime = stamps[worker[w].oid]
        PROVE  ceph'[worker[w].oid] = ceph[worker[w].oid]
    <3>1. PICK o \in Objects : o = worker[w].oid
      BY <1>2, <2>2, Carries
    <3>2. ceph'[o].mtime \in 1..clock'
      BY <2>2, <3>1 DEF SystemOK, Existing
    <3>3. ceph'[o].mtime # None
      BY <1>2, <3>2, NoneAssumption
    <3>4. stamps[o] \in 1..clock
      BY <1>2, <2>1, <2>2, <3>1, <3>3, NotATime DEF Stamps
    <3>5. QED
      BY <2>2, <3>1, <3>4
  <2>3. ASSUME NEW w \in Workers, worker'[w].pc \in {"attrs", "send"}
        PROVE  /\ worker'[w].data # Garbage /\ Fits(worker'[w])
               /\ LET o == worker'[w].oid IN
                  ceph'[o] # None /\ ceph'[o].mtime = stamps'[o] =>
                     /\ worker'[w].data = ceph'[o].data
                     /\ worker'[w].pc = "send" => worker'[w].attrs = ceph'[o].attrs
    BY <1>1, <2>2, <2>3 DEF IInv, MatchInv
  <2>4. ASSUME NEW i \in DOMAIN towrite'
        PROVE  Fits(towrite[i])' /\ Matches(towrite[i], stamps[towrite[i].oid])'
    BY <1>1, <1>2, <1>8, <2>1, <2>4, Carries DEF IInv, MatchInv, Matches, Fits
  <2>5. writer' # None => Fits(writer)' /\ Matches(writer, stamps[writer.oid])'
    BY <1>1, <1>2, <1>8, <2>1, Carries DEF IInv, MatchInv, Matches, Fits
  <2>6. \A c \in archive' : Matches(c, stamps[c.oid])'
    BY <1>1, <1>2, <1>8, <2>1, Contained DEF IInv, MatchInv, Matches, BackupsOK
  <2>7. QED
    BY <2>3, <2>4, <2>5, <2>6 DEF MatchInv
<1>10. IncrInv'
  BY DEF IncrInv
<1>11. FullInv'
  <2>1. CASE phase = "full"
    BY <1>1, <2>1 DEF IInv, FullInv
  <2>2. CASE phase = "live"
    <3>1. full \in Backups
      BY <1>2, <2>2 DEF BackupsOK
    <3>2. full.stamps \in Stamps /\ \A c \in full.archive : c.oid \in Objects
      BY <3>1, Contained DEF Backups
    <3>3. \A c \in full.archive : Matches(c, full.stamps[c.oid])
      BY <2>2 DEF IInv, FullInv
    <3>4. \A c \in full'.archive : Matches(c, full.stamps[c.oid])'
      BY <1>1, <1>8, <3>2, <3>3 DEF Matches
    <3>5. QED
      BY <1>1, <2>2, <3>4 DEF IInv, FullInv, Complete
  <2>3. QED
    BY <2>1, <2>2
<1>12. IncrDone' /\ TargetInv'
  BY <1>1 DEF IInv, IncrDone, TargetInv, Restoring
<1>13. QED
  BY <1>4, <1>5, <1>6, <1>7, <1>9, <1>10, <1>11, <1>12 DEF IInv, TypeOK

\* Time goes on.
LEMMA Ticks ==
    ASSUME NEW now \in Nat,
           NEW tick \in {now + 1, (Second(now) + 1) * TicksPerSecond}
    PROVE  tick \in Nat /\ tick > now
<1>1. PICK ticks \in Nat \ {0} : ticks = TicksPerSecond
  BY TicksAssumption
<1> DEFINE second == now \div ticks
           rest == now % ticks
<1>2. second \in Nat /\ rest \in 0 .. ticks - 1 /\ now = second * ticks + rest
  BY <1>1
<1> HIDE DEF second, rest
<1>3. (second + 1) * ticks = second * ticks + ticks /\ (second + 1) * ticks \in Nat
  BY <1>1, <1>2
<1>4. now < (second + 1) * ticks
  BY <1>1, <1>2, <1>3
<1>5. Second(now) = second
  BY <1>1 DEF Second, second
<1>6. QED
  BY <1>1, <1>3, <1>4, <1>5

LEMMA ChangeInv == ASSUME IInv, NEW o \in Objects, Change(o) PROVE IInv'
<1>1. /\ phase \in {"full", "live"} /\ Use("changes")
      /\ UNCHANGED <<bounds, phase, lister, todo, towrite, worker, writer, output, backups,
                     restore>>
  BY DEF Change, channels
<1>2. PICK v \in Values[o], tick \in {clock + 1, (Second(clock) + 1) * TicksPerSecond} :
         ceph' = [ceph EXCEPT ![o] = Holding(v, tick)] /\ clock' = tick
  BY DEF Change
<1>3. SystemOK /\ GoroutinesOK /\ clock \in Nat /\ tick \in Nat /\ tick > clock
  <2>1. SystemOK /\ GoroutinesOK
    BY DEF IInv, TypeOK
  <2>2. clock \in Nat
    BY <2>1 DEF SystemOK
  <2>3. tick \in Nat /\ tick > clock
    BY <1>2, <2>2, Ticks
  <2>4. QED
    BY <2>1, <2>2, <2>3
<1>4. /\ Holding(v, tick) \in Object /\ Holding(v, tick).mtime = tick
      /\ [data |-> Holding(v, tick).data, attrs |-> Holding(v, tick).attrs] = v
  BY <1>3, Kept
<1> DEFINE new == Holding(v, tick)
<1> HIDE DEF new
<1>5. /\ ceph' = [ceph EXCEPT ![o] = new] /\ new \in Object /\ new.mtime = tick
      /\ [data |-> new.data, attrs |-> new.attrs] \in Values[o]
  BY <1>2, <1>4 DEF new
<1>6. ceph \in [Objects -> Object \cup {None}]
  BY <1>3 DEF SystemOK
<1>7. SystemOK'
  <2>1. used' \in [Kinds -> Nat]
    BY <1>1, <1>3, Uses, "changes" \in Kinds DEF Kinds
  <2>2. ASSUME NEW x \in Objects, ceph'[x] # None
        PROVE  /\ ceph'[x].mtime \in 1..clock'
               /\ [data |-> ceph'[x].data, attrs |-> ceph'[x].attrs] \in Values[x]
    <3>1. CASE x = o
      BY <1>2, <1>3, <1>5, <1>6, <3>1
    <3>2. CASE x # o
      <4>1. ceph'[x] = ceph[x]
        BY <1>5, <1>6, <3>2
      <4>2. /\ ceph[x].mtime \in 1..clock
            /\ [data |-> ceph[x].data, attrs |-> ceph[x].attrs] \in Values[x]
        BY <1>3, <2>2, <4>1 DEF SystemOK, Existing
      <4>3. QED
        BY <1>2, <1>3, <4>1, <4>2
    <3>3. QED
      BY <3>1, <3>2
  <2>3. ceph' \in [Objects -> Object \cup {None}] /\ clock' \in Nat \ {0}
    BY <1>2, <1>3, <1>5, <1>6
  <2>4. QED
    BY <1>1, <1>3, <2>1, <2>2, <2>3 DEF SystemOK, Existing
<1>8. \A x \in Objects : ceph'[x] # None /\ ceph'[x].mtime \in 1..clock => ceph'[x] = ceph[x]
  BY <1>3, <1>5, <1>6
<1>9. lister' \in [on : BOOLEAN, listed : SUBSET Objects, owed : SUBSET Objects]
  BY <1>1, <1>3 DEF GoroutinesOK
<1>10. clock' >= clock
  BY <1>2, <1>3
<1>11. QED
  BY <1>1, <1>7, <1>8, <1>9, <1>10, Outside

LEMMA DeleteInv == ASSUME IInv, NEW o \in Objects, Delete(o) PROVE IInv'
<1>1. /\ phase \in {"full", "live"} /\ Use("removals")
      /\ ceph' = [ceph EXCEPT ![o] = None]
      /\ lister' = [lister EXCEPT !.owed = @ \ {o}]
      /\ UNCHANGED <<bounds, clock, phase, todo, towrite, worker, writer, output, backups,
                     restore>>
  BY DEF Delete
<1>2. SystemOK /\ GoroutinesOK /\ clock \in Nat
  BY DEF IInv, TypeOK, SystemOK
<1>3. ceph \in [Objects -> Object \cup {None}]
  BY <1>2 DEF SystemOK
<1>4. \A x \in Objects : ceph'[x] = None \/ ceph'[x] = ceph[x]
  BY <1>1, <1>3
<1>5. SystemOK'
  <2>1. used' \in [Kinds -> Nat]
    BY <1>1, <1>2, Uses, "removals" \in Kinds DEF Kinds
  <2>2. ceph' \in [Objects -> Object \cup {None}]
    BY <1>1, <1>3
  <2>3. QED
    BY <1>1, <1>2, <1>4, <2>1, <2>2 DEF SystemOK, Existing
<1>6. /\ lister' \in [on : BOOLEAN, listed : SUBSET Objects, owed : SUBSET Objects]
      /\ lister'.on = lister.on /\ lister'.listed = lister.listed
  BY <1>1, <1>2 DEF GoroutinesOK
<1>7. clock' >= clock
  BY <1>1, <1>2
<1>8. QED
  BY <1>1, <1>4, <1>5, <1>6, <1>7, Outside
-----------------------------------------------------------------------------
(* The goroutines of a backup. *)

\* A step of theirs, for which the rest is left to be shown.
LEMMA Goes ==
    ASSUME IInv, Running, UNCHANGED <<bounds, ceph, clock, phase, backups, restore>>,
           used' \in [Kinds -> Nat], used'["listerrors"] = 0 => used["listerrors"] = 0,
           GoroutinesOK', PlaceInv', MatchInv', IncrInv',
           stamps' \in Stamps, archive' \subseteq Containers,
           \A c, e \in archive' : c.oid = e.oid => c = e
    PROVE  IInv'
<1>1. SystemOK'
  BY SystemStill DEF IInv, TypeOK
<1>2. BackupsOK'
  BY BackupsStill DEF IInv, TypeOK
<1>3. QuietInv'
  BY DEF QuietInv, Running
<1>4. FullInv' /\ IncrDone' /\ TargetInv'
  BY Still DEF IInv
<1>5. QED
  BY <1>1, <1>2, <1>3, <1>4 DEF IInv, TypeOK

\* The same, where only the lister and todo change.
LEMMA GoesOn ==
    ASSUME IInv, Running, UNCHANGED <<bounds, ceph, clock, phase, backups, restore>>,
           used' \in [Kinds -> Nat], used'["listerrors"] = 0 => used["listerrors"] = 0,
           UNCHANGED <<towrite, worker, writer, output>>,
           lister' \in [on : BOOLEAN, listed : SUBSET Objects, owed : SUBSET Objects],
           todo' \in Seq(Objects), Len(todo') <= TodoLen, TodoInv', IncrInv'
    PROVE  IInv'
<1>1. UNCHANGED <<stamps, archive>>
  BY DEF output
<1>2. GoroutinesOK'
  BY DEF IInv, TypeOK, GoroutinesOK, Running
<1>3. PlaceInv'
  <2>1. WorkerInv' /\ ToWriteInv' /\ WriterInv' /\ ArchiveInv'
    BY <1>1 DEF IInv, PlaceInv, WorkerInv, ToWriteInv, WriterInv, ArchiveInv
  <2>2. QED
    BY <1>1, <2>1 DEF IInv, PlaceInv, Somewhere
<1>4. MatchInv'
  BY <1>1 DEF IInv, MatchInv, Matches, Fits
<1>5. BackupsOK
  BY DEF IInv, TypeOK
<1>6. QED
  BY <1>1, <1>2, <1>3, <1>4, <1>5, Goes DEF BackupsOK

LEMMA ListInv == IInv /\ List => IInv'
<1> SUFFICES ASSUME IInv, List PROVE IInv'
  OBVIOUS
<1>1. PICK o \in Existing \ lister.listed :
         /\ todo' = Append(todo, o)
         /\ lister' = [lister EXCEPT !.listed = @ \cup {o}]
  BY DEF List
<1>2. /\ lister.on /\ Len(todo) < TodoLen
      /\ UNCHANGED <<bounds, used, ceph, clock, phase, towrite, worker, writer, output, backups,
                     restore>>
  BY DEF List
<1>3. /\ SystemOK /\ GoroutinesOK /\ Running
  BY <1>2 DEF IInv, TypeOK, GoroutinesOK
<1>4. o \in Objects /\ todo \in Seq(Objects)
  BY <1>3 DEF Existing, GoroutinesOK
<1>5. /\ lister' \in [on : BOOLEAN, listed : SUBSET Objects, owed : SUBSET Objects]
      /\ lister'.on /\ lister'.owed = lister.owed /\ lister'.listed = lister.listed \cup {o}
  BY <1>1, <1>2, <1>3, <1>4 DEF GoroutinesOK
<1>6. /\ todo' \in Seq(Objects)
      /\ \A i \in DOMAIN todo : i \in DOMAIN todo' /\ todo'[i] = todo[i]
      /\ \A i \in DOMAIN todo' : i \in DOMAIN todo \/ (i = Len(todo) + 1 /\ todo'[i] = o)
      /\ Len(todo) + 1 \in DOMAIN todo' /\ todo'[Len(todo) + 1] = o
  BY <1>1, <1>4, Appends
<1>7. Len(todo') <= TodoLen
  <2>1. Len(todo') = Len(todo) + 1 /\ Len(todo) \in Nat
    BY <1>1, <1>4, Appends, LenProperties
  <2>2. QED
    BY <1>2, <2>1, CapacitiesAssumption
<1>8. TodoInv
  BY DEF IInv, PlaceInv
<1>9. stamps[o] = None /\ \A i \in DOMAIN todo : todo[i] # o
  BY <1>1, <1>2, <1>4, <1>8 DEF TodoInv
<1>10. TodoInv'
  <2>1. stamps' = stamps
    BY <1>2 DEF output
  <2>2. \A i, j \in DOMAIN todo' : todo'[i] = todo'[j] => i = j
    BY <1>6, <1>8, <1>9 DEF TodoInv
  <2>3. \A i \in DOMAIN todo' : stamps'[todo'[i]] = None
    BY <1>6, <1>8, <1>9, <2>1 DEF TodoInv
  <2>4. \A i \in DOMAIN todo' : todo'[i] \in lister'.listed
    BY <1>2, <1>5, <1>6, <1>8 DEF TodoInv
  <2>5. \A x \in Objects : stamps'[x] # None => x \in lister'.listed
    BY <1>2, <1>5, <1>8, <2>1 DEF TodoInv
  <2>6. QED
    BY <2>2, <2>3, <2>4, <2>5 DEF TodoInv
<1>11. IncrInv'
  <2>1. stamps' = stamps /\ full' = full /\ Existing' = Existing
    BY <1>2 DEF output, backups, Existing
  <2>2. ASSUME phase = "incr", used["listerrors"] = 0, NEW x \in Existing
        PROVE  \/ lister'.on /\ x \in lister'.owed \ lister'.listed
               \/ \E i \in DOMAIN todo' : todo'[i] = x
               \/ stamps[x] # None
               \/ SameSecond(x)
    <3>1. CASE x = o
      BY <1>6, <3>1
    <3>2. CASE x # o
      BY <1>5, <1>6, <2>2, <3>2 DEF IInv, IncrInv
    <3>3. QED
      BY <3>1, <3>2
  <2>3. QED
    BY <1>2, <2>1, <2>2 DEF IInv, IncrInv, SameSecond
<1>12. used' \in [Kinds -> Nat]
  BY <1>2, <1>3 DEF SystemOK
<1>13. QED
  BY <1>2, <1>3, <1>5, <1>6, <1>7, <1>10, <1>11, <1>12, GoesOn

LEMMA EndListInv == IInv /\ EndList => IInv'
<1> SUFFICES ASSUME IInv, EndList PROVE IInv'
  OBVIOUS
<1>1. /\ lister.on /\ lister' = [on |-> FALSE, listed |-> {}, owed |-> {}]
      /\ UNCHANGED <<bounds, ceph, clock, phase, todo, towrite, worker, writer, output, backups,
                     restore>>
  BY DEF EndList, Off
<1>2. SystemOK /\ GoroutinesOK /\ Running
  BY <1>1 DEF IInv, TypeOK, GoroutinesOK
<1>3. /\ used' \in [Kinds -> Nat]
      /\ used'["listerrors"] = 0 =>
            used["listerrors"] = 0 /\ lister.owed \subseteq lister.listed
  <2>1. CASE lister.owed \subseteq lister.listed
    BY <1>2, <2>1 DEF EndList, SystemOK
  <2>2. CASE ~(lister.owed \subseteq lister.listed)
    BY <1>2, <2>2, Uses, "listerrors" \in Kinds DEF EndList, Kinds
  <2>3. QED
    BY <2>1, <2>2
<1>4. TodoInv'
  BY <1>1 DEF IInv, PlaceInv, TodoInv, output
<1>5. IncrInv'
  BY <1>1, <1>3 DEF IInv, IncrInv, Existing, output, backups, SameSecond
<1>6. /\ lister' \in [on : BOOLEAN, listed : SUBSET Objects, owed : SUBSET Objects]
      /\ todo' \in Seq(Objects) /\ Len(todo') <= TodoLen
  BY <1>1, <1>2 DEF GoroutinesOK
<1>7. QED
  BY <1>1, <1>2, <1>3, <1>4, <1>5, <1>6, GoesOn
\* An object without a time is nowhere.
LEMMA Nowhere ==
    ASSUME IInv, NEW o \in Objects, stamps[o] = None
    PROVE  /\ \A w \in Workers : worker[w].pc # "idle" => worker[w].oid # o
           /\ \A i \in DOMAIN towrite : towrite[i].oid # o
           /\ writer # None => writer.oid # o
           /\ \A c \in archive : c.oid # o
BY DEF IInv, PlaceInv, WorkerInv, ToWriteInv, WriterInv, ArchiveInv

LEMMA GoroutineTypes ==
    ASSUME IInv
    PROVE  /\ SystemOK /\ GoroutinesOK /\ BackupsOK
           /\ used \in [Kinds -> Nat]
           /\ todo \in Seq(Objects) /\ Len(todo) <= TodoLen
           /\ towrite \in Seq(Carried) /\ Len(towrite) <= ToWriteLen
           /\ worker \in [Workers -> [pc : {"idle", "read", "attrs", "send"},
                                      oid : Objects \cup {None},
                                      data : Contents, attrs : AttrSets]]
           /\ stamps \in [Objects -> 1..clock \cup {None}]
           /\ archive \subseteq Containers /\ \A c, e \in archive : c.oid = e.oid => c = e
<1>1. SystemOK /\ GoroutinesOK /\ BackupsOK
  BY DEF IInv, TypeOK
<1>2. QED
  BY <1>1 DEF SystemOK, GoroutinesOK, BackupsOK, Stamps

WorkerRec == [pc : {"idle", "read", "attrs", "send"}, oid : Objects \cup {None},
              data : Contents, attrs : AttrSets]

LEMMA WorkerSteps ==
    ASSUME NEW w \in Workers, NEW rec \in WorkerRec, worker \in [Workers -> WorkerRec],
           worker' = [worker EXCEPT ![w] = rec]
    PROVE  /\ worker' \in [Workers -> WorkerRec] /\ worker'[w] = rec
           /\ \A x \in Workers : x # w => worker'[x] = worker[x]
OBVIOUS

\* MatchInv after a step of the process, which leaves Ceph alone.
LEMMA Matched ==
    ASSUME UNCHANGED ceph,
           \A x \in Workers : worker'[x].pc \in {"attrs", "send"} =>
              /\ worker'[x].data # Garbage /\ Fits(worker'[x])
              /\ LET y == worker'[x].oid IN
                 ceph[y] # None /\ ceph[y].mtime = stamps'[y] =>
                    /\ worker'[x].data = ceph[y].data
                    /\ worker'[x].pc = "send" => worker'[x].attrs = ceph[y].attrs,
           \A i \in DOMAIN towrite' :
              Fits(towrite'[i]) /\ Matches(towrite'[i], stamps'[towrite'[i].oid]),
           writer' # None => Fits(writer') /\ Matches(writer', stamps'[writer'.oid]),
           \A c \in archive' : Matches(c, stamps'[c.oid])
    PROVE  MatchInv'
BY DEF MatchInv, Matches, Fits

LEMMA Works == ASSUME IInv, NEW w \in Workers, worker[w].pc # "idle" PROVE Running
BY DEF IInv, QuietInv

\* A worker takes an object that it need not back up.
LEMMA Skips ==
    ASSUME IInv, Running, todo # <<>>, Unchanged(Head(todo)), ceph[Head(todo)] # None,
           todo' = Tail(todo),
           UNCHANGED <<bounds, used, ceph, clock, phase, lister, towrite, worker, writer,
                       output, backups, restore>>
    PROVE  IInv'
<1>1. /\ todo \in Seq(Objects) /\ GoroutinesOK /\ used \in [Kinds -> Nat]
      /\ Len(todo) <= TodoLen
  BY GoroutineTypes
<1>2. /\ todo' \in Seq(Objects) /\ Len(todo') = Len(todo) - 1 /\ Len(todo) \in Nat
      /\ \A i \in DOMAIN todo' : i + 1 \in DOMAIN todo /\ todo'[i] = todo[i + 1]
      /\ \A i \in DOMAIN todo :
            todo[i] = Head(todo) \/ (i - 1 \in DOMAIN todo' /\ todo'[i - 1] = todo[i])
  BY <1>1, Tails, LenProperties
<1>3. \A i, j \in DOMAIN todo' : i + 1 = j + 1 => i = j
  BY <1>2, LenProperties
<1>4. TodoInv /\ stamps' = stamps
  BY DEF IInv, PlaceInv, output
<1>5. TodoInv'
  BY <1>2, <1>3, <1>4 DEF TodoInv
<1>6. IncrInv'
  <2>1. full' = full /\ Existing' = Existing
    BY DEF backups, Existing
  <2>2. SameSecond(Head(todo))
    BY DEF Unchanged
  <2>3. ASSUME phase = "incr", used["listerrors"] = 0, NEW x \in Existing
        PROVE  \/ lister.on /\ x \in lister.owed \ lister.listed
               \/ \E i \in DOMAIN todo' : todo'[i] = x
               \/ stamps[x] # None
               \/ SameSecond(x)
    <3>1. ASSUME NEW i \in DOMAIN todo, todo[i] = x
          PROVE  SameSecond(x) \/ \E j \in DOMAIN todo' : todo'[j] = x
      BY <1>2, <2>2, <3>1
    <3>2. QED
      BY <2>3, <3>1 DEF IInv, IncrInv
  <2>4. phase = "incr" => \A o \in Objects : stamps[o] # None =>
                             ceph[o] # None /\ stamps[o] = ceph[o].mtime
    BY DEF IInv, IncrInv
  <2>5. QED
    BY <1>4, <2>1, <2>3, <2>4 DEF IncrInv, SameSecond
<1>7. Len(todo') <= TodoLen
  BY <1>1, <1>2, CapacitiesAssumption
<1>8. lister' \in [on : BOOLEAN, listed : SUBSET Objects, owed : SUBSET Objects]
  BY <1>1 DEF GoroutinesOK
<1>9. QED
  BY <1>1, <1>2, <1>5, <1>6, <1>7, <1>8, GoesOn

\* A worker takes an object and notes its time.
LEMMA Notes ==
    ASSUME IInv, Running, NEW w \in Workers, worker[w].pc = "idle", todo # <<>>,
           ceph[Head(todo)] # None, todo' = Tail(todo),
           stamps' = [stamps EXCEPT ![Head(todo)] = ceph[Head(todo)].mtime],
           worker' = [worker EXCEPT ![w].pc = "read", ![w].oid = Head(todo)],
           UNCHANGED <<bounds, used, ceph, clock, phase, lister, towrite, writer, archive,
                       backups, restore>>
    PROVE  IInv'
<1>1. /\ SystemOK /\ GoroutinesOK /\ used \in [Kinds -> Nat]
      /\ todo \in Seq(Objects) /\ Len(todo) <= TodoLen
      /\ worker \in [Workers -> [pc : {"idle", "read", "attrs", "send"},
                                 oid : Objects \cup {None},
                                 data : Contents, attrs : AttrSets]]
      /\ stamps \in [Objects -> 1..clock \cup {None}]
      /\ archive \subseteq Containers /\ \A c, e \in archive : c.oid = e.oid => c = e
  BY GoroutineTypes
<1>2. PICK o \in Objects : o = Head(todo)
  BY <1>1, Tails
<1>3. /\ todo' \in Seq(Objects) /\ Len(todo') = Len(todo) - 1 /\ Len(todo) \in Nat
      /\ \A i \in DOMAIN todo' : i + 1 \in DOMAIN todo /\ i + 1 # 1
                                 /\ todo'[i] = todo[i + 1]
      /\ \A i \in DOMAIN todo :
            i = 1 \/ (i - 1 \in DOMAIN todo' /\ todo'[i - 1] = todo[i])
      /\ 1 \in DOMAIN todo /\ todo[1] = o
  BY <1>1, <1>2, Tails, LenProperties
<1>4. \A i, j \in DOMAIN todo' : i + 1 = j + 1 => i = j
  BY <1>3, LenProperties
<1>5. /\ ceph[o].mtime \in 1..clock /\ ceph[o].mtime # None
  BY <1>1, <1>2, Stored
<1>6. /\ stamps' \in [Objects -> 1..clock \cup {None}]
      /\ stamps'[o] = ceph[o].mtime /\ stamps'[o] # None
      /\ \A x \in Objects : x # o => stamps'[x] = stamps[x]
  BY <1>1, <1>2, <1>5
<1>7. /\ worker' \in [Workers -> [pc : {"idle", "read", "attrs", "send"},
                                  oid : Objects \cup {None},
                                  data : Contents, attrs : AttrSets]]
      /\ worker'[w].pc = "read" /\ worker'[w].oid = o
      /\ \A x \in Workers : x # w => worker'[x] = worker[x]
  <2> DEFINE rec == [worker[w] EXCEPT !.pc = "read", !.oid = o]
  <2>1. worker' = [worker EXCEPT ![w] = rec]
    BY <1>2
  <2>2. worker \in [Workers -> WorkerRec] /\ worker[w] \in WorkerRec
    BY <1>1 DEF WorkerRec
  <2>3. rec \in WorkerRec /\ rec.pc = "read" /\ rec.oid = o
    BY <2>2 DEF WorkerRec
  <2> HIDE DEF rec
  <2>4. /\ worker' \in [Workers -> WorkerRec] /\ worker'[w] = rec
        /\ \A x \in Workers : x # w => worker'[x] = worker[x]
    BY <2>1, <2>2, <2>3, WorkerSteps
  <2>5. QED
    BY <2>3, <2>4 DEF WorkerRec
<1>8. TodoInv /\ stamps[o] = None
  BY <1>3 DEF IInv, PlaceInv, TodoInv
<1>9. GoroutinesOK'
  <2>1. Len(todo') <= TodoLen
    BY <1>1, <1>3, CapacitiesAssumption
  <2>2. o # None
    BY NoneAssumption
  <2>3. \A x \in Workers : worker'[x].oid = None <=> worker'[x].pc = "idle"
    BY <1>1, <1>7, <2>2 DEF GoroutinesOK
  <2>4. QED
    BY <1>1, <1>3, <1>7, <2>1, <2>3 DEF GoroutinesOK, Running
<1>10. /\ \A x \in Workers : worker[x].pc # "idle" => worker[x].oid # o
       /\ \A i \in DOMAIN towrite : towrite[i].oid # o
       /\ writer # None => writer.oid # o
       /\ \A c \in archive : c.oid # o
  BY <1>8, Nowhere
<1>11. /\ \A i \in DOMAIN towrite : towrite[i].oid \in Objects
       /\ writer # None => writer.oid \in Objects
       /\ \A x \in Workers : worker[x].pc # "idle" => worker[x].oid \in Objects
       /\ \A c \in archive : c.oid \in Objects
  BY <1>1, Carries, Contained
<1>12. PlaceInv'
  <2>1. TodoInv'
    <3>1. \A i, j \in DOMAIN todo' : todo'[i] = todo'[j] => i = j
      BY <1>3, <1>4, <1>8 DEF TodoInv
    <3>2. \A i \in DOMAIN todo' : todo'[i] # o /\ todo'[i] \in Objects
      BY <1>3, <1>8 DEF TodoInv
    <3>3. \A i \in DOMAIN todo' : stamps'[todo'[i]] = None
      BY <1>3, <1>6, <1>8, <3>2 DEF TodoInv
    <3>4. lister.on => o \in lister.listed
      BY <1>3, <1>8 DEF TodoInv
    <3>5. QED
      BY <1>3, <1>6, <1>8, <3>1, <3>3, <3>4 DEF TodoInv
  <2>2. WorkerInv'
    <3>1. ASSUME NEW v \in Workers, worker'[v].pc # "idle"
          PROVE  /\ stamps'[worker'[v].oid] # None
                 /\ \A x \in Workers : worker'[x].oid = worker'[v].oid => x = v
                 /\ \A i \in DOMAIN towrite : towrite[i].oid # worker'[v].oid
                 /\ writer # None => writer.oid # worker'[v].oid
                 /\ \A c \in archive : c.oid # worker'[v].oid
      <4>1. \A x \in Workers : worker[x].oid # o
        BY <1>1, <1>2, <1>10, NoneAssumption DEF GoroutinesOK
      <4>2. CASE v = w
        BY <1>6, <1>7, <1>10, <4>1, <4>2
      <4>3. CASE v # w
        BY <1>6, <1>7, <1>10, <1>11, <3>1, <4>1, <4>3 DEF IInv, PlaceInv, WorkerInv
      <4>4. QED
        BY <4>2, <4>3
    <3>2. QED
      BY <3>1 DEF WorkerInv
  <2>3. ToWriteInv'
    BY <1>6, <1>10, <1>11 DEF IInv, PlaceInv, ToWriteInv
  <2>4. WriterInv'
    BY <1>6, <1>10, <1>11 DEF IInv, PlaceInv, WriterInv
  <2>5. ArchiveInv'
    BY <1>6, <1>10, <1>11 DEF IInv, PlaceInv, ArchiveInv
  <2>6. ASSUME NEW x \in Objects, stamps'[x] # None
        PROVE  Somewhere(x)'
    <3>1. CASE x = o
      BY <1>7, <3>1 DEF Somewhere
    <3>2. CASE x # o
      <4>1. Somewhere(x)
        BY <1>6, <2>6, <3>2 DEF IInv, PlaceInv
      <4>2. \A v \in Workers : worker[v].pc # "idle" => worker'[v] = worker[v]
        BY <1>7
      <4>3. QED
        BY <4>1, <4>2 DEF Somewhere
    <3>3. QED
      BY <3>1, <3>2
  <2>7. QED
    BY <2>1, <2>2, <2>3, <2>4, <2>5, <2>6 DEF PlaceInv
<1>13. MatchInv'
  <2>1. \A x \in Workers : worker'[x].pc \in {"attrs", "send"} => worker'[x] = worker[x]
    BY <1>7
  <2>2. ASSUME NEW x \in Workers, worker'[x].pc \in {"attrs", "send"}
        PROVE  stamps'[worker[x].oid] = stamps[worker[x].oid]
    BY <1>6, <1>10, <1>11, <2>1, <2>2
  <2>3. ASSUME NEW x \in Workers, worker'[x].pc \in {"attrs", "send"}
        PROVE  /\ worker'[x].data # Garbage /\ Fits(worker'[x])
               /\ LET y == worker'[x].oid IN
                  ceph[y] # None /\ ceph[y].mtime = stamps'[y] =>
                     /\ worker'[x].data = ceph[y].data
                     /\ worker'[x].pc = "send" => worker'[x].attrs = ceph[y].attrs
    <3>1. worker'[x] = worker[x] /\ stamps'[worker[x].oid] = stamps[worker[x].oid]
      BY <2>1, <2>2, <2>3
    <3>2. worker[x].pc \in {"attrs", "send"}
      BY <2>3, <3>1
    <3>3. MatchInv
      BY DEF IInv
    <3>4. /\ worker[x].data # Garbage /\ Fits(worker[x])
          /\ LET y == worker[x].oid IN
             ceph[y] # None /\ ceph[y].mtime = stamps[y] =>
                /\ worker[x].data = ceph[y].data
                /\ worker[x].pc = "send" => worker[x].attrs = ceph[y].attrs
      BY <3>2, <3>3 DEF MatchInv
    <3>5. QED
      BY <3>1, <3>4
  <2>m. MatchInv
    BY DEF IInv
  <2>4. ASSUME NEW i \in DOMAIN towrite
        PROVE  Fits(towrite[i]) /\ Matches(towrite[i], stamps'[towrite[i].oid])
    BY <1>6, <1>10, <1>11, <2>m DEF MatchInv
  <2>5. writer # None => Fits(writer) /\ Matches(writer, stamps'[writer.oid])
    BY <1>6, <1>10, <1>11, <2>m DEF MatchInv
  <2>6. \A c \in archive : Matches(c, stamps'[c.oid])
    BY <1>6, <1>10, <1>11, <2>m DEF MatchInv
  <2>7. QED
    <3>1. UNCHANGED <<ceph, towrite, writer, archive>>
      BY <1>11
    <3>2. QED
      BY <2>3, <2>4, <2>5, <2>6, <3>1, Matched
<1>14. IncrInv'
  <2>1. full' = full /\ Existing' = Existing
    BY DEF backups, Existing
  <2>2. ASSUME phase = "incr", NEW x \in Objects, stamps'[x] # None
        PROVE  ceph[x] # None /\ stamps'[x] = ceph[x].mtime
    BY <1>2, <1>6, <2>2 DEF IInv, IncrInv
  <2>3. ASSUME phase = "incr", used["listerrors"] = 0, NEW x \in Existing
        PROVE  \/ lister.on /\ x \in lister.owed \ lister.listed
               \/ \E i \in DOMAIN todo' : todo'[i] = x
               \/ stamps'[x] # None
               \/ SameSecond(x)
    <3>1. CASE x = o
      BY <1>6, <3>1
    <3>2. CASE x # o
      <4>1. x \in Objects
        BY DEF Existing
      <4>2. (\E i \in DOMAIN todo : todo[i] = x) => \E i \in DOMAIN todo' : todo'[i] = x
        <5>1. ASSUME NEW i \in DOMAIN todo, todo[i] = x
              PROVE  i - 1 \in DOMAIN todo' /\ todo'[i - 1] = x
          BY <1>3, <3>2, <5>1
        <5>2. QED
          BY <5>1
      <4>3. QED
        BY <1>6, <2>3, <3>2, <4>1, <4>2 DEF IInv, IncrInv
    <3>3. QED
      BY <3>1, <3>2
  <2>4. QED
    BY <2>1, <2>2, <2>3 DEF IncrInv, SameSecond
<1>15. QED
  BY <1>1, <1>6, <1>9, <1>12, <1>13, <1>14, Goes DEF Stamps

LEMMA StatInv == ASSUME IInv, NEW w \in Workers, Stat(w) PROVE IInv'
<1>1. /\ Running /\ worker[w].pc = "idle" /\ todo # <<>>
      /\ UNCHANGED <<bounds, used, ceph, clock, phase, backups, restore>>
  BY DEF Stat
<1>2. used' \in [Kinds -> Nat]
  BY <1>1, GoroutineTypes
<1>3. CASE ceph[Head(todo)] = None /\ Begin
  BY <1>1, <1>2, <1>3, Restarts
<1>4. CASE /\ ceph[Head(todo)] # None /\ todo' = Tail(todo) /\ Unchanged(Head(todo))
           /\ UNCHANGED <<stamps, worker, lister, towrite, writer, archive>>
  BY <1>1, <1>4, Skips DEF output
<1>5. CASE /\ ceph[Head(todo)] # None /\ todo' = Tail(todo)
           /\ stamps' = [stamps EXCEPT ![Head(todo)] = ceph[Head(todo)].mtime]
           /\ worker' = [worker EXCEPT ![w].pc = "read", ![w].oid = Head(todo)]
           /\ UNCHANGED <<lister, towrite, writer, archive>>
  BY <1>1, <1>5, Notes
<1>6. QED
  BY <1>3, <1>4, <1>5 DEF Stat
\* A read may spoil the content of a container, and nothing else of it.
LEMMA Clobbers ==
    ASSUME NEW c \in Carried, NEW w, NEW data
    PROVE  /\ Clobbered(c, w, data) \in Carried
           /\ Clobbered(c, w, data).oid = c.oid /\ Clobbered(c, w, data).attrs = c.attrs
           /\ \/ Clobbered(c, w, data).data = c.data
              \/ Clobbered(c, w, data).data = Garbage /\ c.data # Empty
           /\ Clobbered(c, w, data) # None
<1>1. Garbage \in Contents
  BY DEF Contents
<1>2. [c EXCEPT !.data = Garbage] \in Carried
  BY <1>1 DEF Carried
<1>3. /\ [c EXCEPT !.data = Garbage].oid = c.oid /\ [c EXCEPT !.data = Garbage].attrs = c.attrs
      /\ [c EXCEPT !.data = Garbage].data = Garbage
  BY DEF Carried
<1>4. QED
  BY <1>2, <1>3, NoneAssumption DEF Clobbered

\* What is said of a container is then said of it as before.
LEMMA StillMatches ==
    ASSUME NEW c, NEW d, NEW t, Fits(c), Matches(c, t),
           d.oid = c.oid, d.attrs = c.attrs,
           d.data = c.data \/ (d.data = Garbage /\ c.data # Empty)
    PROVE  Fits(d) /\ Matches(d, t)
BY GarbageAssumption DEF Fits, Matches

LEMMA ReadInv == ASSUME IInv, NEW w \in Workers, Read(w) PROVE IInv'
<1>1. /\ worker[w].pc = "read"
      /\ UNCHANGED <<bounds, used, ceph, clock, phase, backups, restore>>
  BY DEF Read
<1>2. Running
  BY <1>1, Works
<1>3. /\ SystemOK /\ GoroutinesOK /\ used \in [Kinds -> Nat]
      /\ towrite \in Seq(Carried) /\ Len(towrite) <= ToWriteLen
      /\ worker \in [Workers -> [pc : {"idle", "read", "attrs", "send"},
                                 oid : Objects \cup {None},
                                 data : Contents, attrs : AttrSets]]
      /\ stamps \in [Objects -> 1..clock \cup {None}]
      /\ archive \subseteq Containers /\ \A c, e \in archive : c.oid = e.oid => c = e
  BY GoroutineTypes
<1>4. CASE ceph[worker[w].oid] = None /\ Begin
  BY <1>1, <1>2, <1>3, <1>4, Restarts
<1>5. CASE /\ ceph[worker[w].oid] # None
           /\ worker' = [worker EXCEPT ![w].pc = "attrs", ![w].data = ceph[worker[w].oid].data]
           /\ towrite' = [i \in DOMAIN towrite |->
                             Clobbered(towrite[i], w, ceph[worker[w].oid].data)]
           /\ writer' = IF writer = None THEN None
                        ELSE Clobbered(writer, w, ceph[worker[w].oid].data)
           /\ UNCHANGED <<lister, todo, output>>
  <2>1. PICK o \in Objects : o = worker[w].oid
    BY <1>1, <1>3, Carries
  <2>2. /\ ceph[o].data \in Contents /\ ceph[o].data # Garbage
        /\ ceph[o].data = Empty <=> ~Filled(o)
    BY <1>3, <1>5, <2>1, Stored
  <2>3. /\ worker' \in [Workers -> [pc : {"idle", "read", "attrs", "send"},
                                    oid : Objects \cup {None},
                                    data : Contents, attrs : AttrSets]]
        /\ worker'[w].pc = "attrs" /\ worker'[w].oid = o /\ worker'[w].data = ceph[o].data
        /\ \A x \in Workers : x # w => worker'[x] = worker[x]
    <3> DEFINE rec == [worker[w] EXCEPT !.pc = "attrs", !.data = ceph[o].data]
    <3>1. worker' = [worker EXCEPT ![w] = rec]
      BY <1>5, <2>1
    <3>2. worker \in [Workers -> WorkerRec] /\ worker[w] \in WorkerRec
      BY <1>3 DEF WorkerRec
    <3>3. /\ rec \in WorkerRec
          /\ rec.pc = "attrs" /\ rec.oid = o /\ rec.data = ceph[o].data
      BY <2>1, <2>2, <3>2 DEF WorkerRec
    <3> HIDE DEF rec
    <3>4. /\ worker' \in [Workers -> WorkerRec] /\ worker'[w] = rec
          /\ \A x \in Workers : x # w => worker'[x] = worker[x]
      BY <3>1, <3>2, <3>3, WorkerSteps
    <3>5. QED
      BY <3>3, <3>4 DEF WorkerRec
  <2>4. \A x \in Workers : /\ worker'[x].oid = worker[x].oid
                           /\ worker'[x].pc = "idle" <=> worker[x].pc = "idle"
    BY <1>1, <2>1, <2>3
  <2>5. /\ DOMAIN towrite' = DOMAIN towrite /\ DOMAIN towrite = 1..Len(towrite)
        /\ Len(towrite) \in Nat
        /\ \A i \in DOMAIN towrite :
              /\ towrite[i] \in Carried
              /\ towrite'[i] = Clobbered(towrite[i], w, ceph[o].data)
    BY <1>3, <1>5, <2>1, LenProperties, ElementOfSeq
  <2>6. \A i \in DOMAIN towrite :
           /\ towrite'[i] \in Carried /\ towrite'[i].oid = towrite[i].oid
           /\ towrite'[i].attrs = towrite[i].attrs
           /\ \/ towrite'[i].data = towrite[i].data
              \/ towrite'[i].data = Garbage /\ towrite[i].data # Empty
    BY <2>5, Clobbers
  <2>7. towrite' \in Seq(Carried) /\ Len(towrite') <= ToWriteLen
    <3>1. towrite' \in [1..Len(towrite) -> Carried]
      BY <1>5, <2>5, <2>6
    <3>2. towrite' \in Seq(Carried) /\ Len(towrite') = Len(towrite)
      BY <2>5, <3>1, SeqDef
    <3>3. QED
      BY <1>3, <3>2
  <2>8. writer \in Carried \cup {None}
    BY <1>3 DEF GoroutinesOK
  <2>9. /\ writer' = None <=> writer = None
        /\ writer # None =>
              /\ writer' \in Carried /\ writer'.oid = writer.oid
              /\ writer'.attrs = writer.attrs
              /\ \/ writer'.data = writer.data
                 \/ writer'.data = Garbage /\ writer.data # Empty
    BY <1>5, <2>8, Clobbers
  <2>10. stamps' = stamps /\ archive' = archive /\ todo' = todo /\ lister' = lister
    BY <1>5 DEF output
  <2>11. GoroutinesOK'
    BY <1>1, <1>3, <2>3, <2>4, <2>7, <2>9, <2>10 DEF GoroutinesOK, Running
  <2>12. PlaceInv'
    <3>1. TodoInv'
      BY <2>10 DEF IInv, PlaceInv, TodoInv
    <3>2. WorkerInv'
      BY <2>4, <2>5, <2>6, <2>9, <2>10 DEF IInv, PlaceInv, WorkerInv
    <3>3. ToWriteInv'
      BY <2>5, <2>6, <2>9, <2>10 DEF IInv, PlaceInv, ToWriteInv
    <3>4. WriterInv' /\ ArchiveInv'
      BY <2>9, <2>10 DEF IInv, PlaceInv, WriterInv, ArchiveInv
    <3>5. ASSUME NEW x \in Objects, stamps'[x] # None
          PROVE  Somewhere(x)'
      <4>1. Somewhere(x)
        BY <2>10, <3>5 DEF IInv, PlaceInv
      <4>2. QED
        BY <2>4, <2>5, <2>6, <2>9, <2>10, <4>1 DEF Somewhere
    <3>6. QED
      BY <3>1, <3>2, <3>3, <3>4, <3>5 DEF PlaceInv
  <2>13. MatchInv'
    <3>1. ASSUME NEW x \in Workers, worker'[x].pc \in {"attrs", "send"}
          PROVE  /\ worker'[x].data # Garbage /\ Fits(worker'[x])
                 /\ LET y == worker'[x].oid IN
                    ceph[y] # None /\ ceph[y].mtime = stamps[y] =>
                       /\ worker'[x].data = ceph[y].data
                       /\ worker'[x].pc = "send" => worker'[x].attrs = ceph[y].attrs
      <4>1. CASE x = w
        BY <2>2, <2>3, <4>1 DEF Fits
      <4>2. CASE x # w
        <5>1. worker'[x] = worker[x] /\ worker[x].pc \in {"attrs", "send"}
          BY <2>3, <3>1, <4>2
        <5>2. QED
          BY <5>1 DEF IInv, MatchInv
      <4>3. QED
        BY <4>1, <4>2
    <3>2. ASSUME NEW i \in DOMAIN towrite
          PROVE  Fits(towrite'[i]) /\ Matches(towrite'[i], stamps[towrite'[i].oid])
      <4>1. Fits(towrite[i]) /\ Matches(towrite[i], stamps[towrite[i].oid])
        BY DEF IInv, MatchInv
      <4>2. QED
        BY <2>6, <4>1, StillMatches
    <3>3. writer # None => Fits(writer') /\ Matches(writer', stamps[writer'.oid])
      <4>1. writer # None => Fits(writer) /\ Matches(writer, stamps[writer.oid])
        BY DEF IInv, MatchInv
      <4>2. QED
        BY <2>9, <4>1, StillMatches
    <3>4. \A c \in archive : Matches(c, stamps[c.oid])
      BY DEF IInv, MatchInv
    <3>5. QED
      <4>1. ceph' = ceph /\ stamps' = stamps /\ archive' = archive
        BY <1>1, <2>5, <2>9, <2>10
      <4>2. \A i \in DOMAIN towrite' :
                Fits(towrite'[i]) /\ Matches(towrite'[i], stamps'[towrite'[i].oid])
        BY <2>5, <2>6, <3>2, <4>1
      <4>3. writer' # None => Fits(writer') /\ Matches(writer', stamps'[writer'.oid])
        BY <2>9, <3>3, <4>1
      <4>4. QED
        BY <3>1, <3>4, <4>1, <4>2, <4>3, Matched
  <2>14. IncrInv'
    BY <1>1, <2>10 DEF IInv, IncrInv, Existing, backups, SameSecond
  <2>15. QED
    BY <1>1, <1>2, <1>3, <2>10, <2>11, <2>12, <2>13, <2>14, Goes DEF Stamps
<1>6. QED
  BY <1>4, <1>5 DEF Read

LEMMA ReadAttrsInv == ASSUME IInv, NEW w \in Workers, ReadAttrs(w) PROVE IInv'
<1>1. /\ worker[w].pc = "attrs"
      /\ UNCHANGED <<bounds, used, ceph, clock, phase, backups, restore>>
  BY DEF ReadAttrs
<1>2. Running
  BY <1>1, Works
<1>3. /\ SystemOK /\ GoroutinesOK /\ used \in [Kinds -> Nat]
      /\ worker \in [Workers -> [pc : {"idle", "read", "attrs", "send"},
                                 oid : Objects \cup {None},
                                 data : Contents, attrs : AttrSets]]
      /\ stamps \in [Objects -> 1..clock \cup {None}]
      /\ archive \subseteq Containers /\ \A c, e \in archive : c.oid = e.oid => c = e
  BY GoroutineTypes
<1>4. CASE ceph[worker[w].oid] = None /\ Begin
  BY <1>1, <1>2, <1>3, <1>4, Restarts
<1>5. CASE /\ ceph[worker[w].oid] # None
           /\ worker' = [worker EXCEPT ![w].pc = "send", ![w].attrs = ceph[worker[w].oid].attrs]
           /\ UNCHANGED <<lister, todo, towrite, writer, output>>
  <2>1. PICK o \in Objects : o = worker[w].oid
    BY <1>1, <1>3, Carries
  <2>2. ceph[o].attrs \in AttrSets
    BY <1>3, <1>5, <2>1, Stored
  <2>3. /\ worker' \in [Workers -> [pc : {"idle", "read", "attrs", "send"},
                                    oid : Objects \cup {None},
                                    data : Contents, attrs : AttrSets]]
        /\ worker'[w].pc = "send" /\ worker'[w].oid = o
        /\ worker'[w].data = worker[w].data /\ worker'[w].attrs = ceph[o].attrs
        /\ \A x \in Workers : x # w => worker'[x] = worker[x]
    <3> DEFINE rec == [worker[w] EXCEPT !.pc = "send", !.attrs = ceph[o].attrs]
    <3>1. worker' = [worker EXCEPT ![w] = rec]
      BY <1>5, <2>1
    <3>2. worker \in [Workers -> WorkerRec] /\ worker[w] \in WorkerRec
      BY <1>3 DEF WorkerRec
    <3>3. /\ rec \in WorkerRec
          /\ rec.pc = "send" /\ rec.oid = o
          /\ rec.data = worker[w].data /\ rec.attrs = ceph[o].attrs
      BY <2>1, <2>2, <3>2 DEF WorkerRec
    <3> HIDE DEF rec
    <3>4. /\ worker' \in [Workers -> WorkerRec] /\ worker'[w] = rec
          /\ \A x \in Workers : x # w => worker'[x] = worker[x]
      BY <3>1, <3>2, <3>3, WorkerSteps
    <3>5. QED
      BY <3>3, <3>4 DEF WorkerRec
  <2>4. \A x \in Workers : /\ worker'[x].oid = worker[x].oid
                           /\ worker'[x].pc = "idle" <=> worker[x].pc = "idle"
    BY <1>1, <2>1, <2>3
  <2>5. /\ stamps' = stamps /\ archive' = archive
        /\ towrite' = towrite /\ writer' = writer
    BY <1>5 DEF output
  <2>6. GoroutinesOK'
    <3>1. UNCHANGED <<lister, todo, towrite, writer, phase>>
      BY <1>1, <1>5, <2>5
    <3>2. \A x \in Workers : worker'[x].oid = None <=> worker'[x].pc = "idle"
      BY <1>3, <2>4 DEF GoroutinesOK
    <3>3. QED
      BY <1>3, <2>3, <3>1, <3>2 DEF GoroutinesOK, Running
  <2>7. PlaceInv'
    <3>1. TodoInv' /\ ToWriteInv' /\ WriterInv' /\ ArchiveInv'
      BY <1>5, <2>5 DEF IInv, PlaceInv, TodoInv, ToWriteInv, WriterInv, ArchiveInv
    <3>2. WorkerInv'
      BY <2>4, <2>5 DEF IInv, PlaceInv, WorkerInv
    <3>3. ASSUME NEW x \in Objects, stamps'[x] # None
          PROVE  Somewhere(x)'
      <4>1. Somewhere(x)
        BY <2>5, <3>3 DEF IInv, PlaceInv
      <4>2. QED
        BY <2>4, <2>5, <4>1 DEF Somewhere
    <3>4. QED
      BY <3>1, <3>2, <3>3 DEF PlaceInv
  <2>8. MatchInv'
    <3>1. ASSUME NEW x \in Workers, worker'[x].pc \in {"attrs", "send"}
          PROVE  /\ worker'[x].data # Garbage /\ Fits(worker'[x])
                 /\ LET y == worker'[x].oid IN
                    ceph[y] # None /\ ceph[y].mtime = stamps[y] =>
                       /\ worker'[x].data = ceph[y].data
                       /\ worker'[x].pc = "send" => worker'[x].attrs = ceph[y].attrs
      <4>1. CASE x = w
        <5>1. /\ worker[w].data # Garbage /\ Fits(worker[w])
              /\ ceph[o] # None /\ ceph[o].mtime = stamps[o] => worker[w].data = ceph[o].data
          BY <1>1, <2>1 DEF IInv, MatchInv
        <5>2. QED
          BY <2>1, <2>3, <4>1, <5>1 DEF Fits
      <4>2. CASE x # w
        <5>1. worker'[x] = worker[x] /\ worker[x].pc \in {"attrs", "send"}
          BY <2>3, <3>1, <4>2
        <5>2. QED
          BY <5>1 DEF IInv, MatchInv
      <4>3. QED
        BY <4>1, <4>2
    <3>2. /\ \A i \in DOMAIN towrite :
                Fits(towrite[i]) /\ Matches(towrite[i], stamps[towrite[i].oid])
          /\ writer # None => Fits(writer) /\ Matches(writer, stamps[writer.oid])
          /\ \A c \in archive : Matches(c, stamps[c.oid])
      BY DEF IInv, MatchInv
    <3>3. QED
      BY <1>1, <2>5, <3>1, <3>2, Matched
  <2>9. IncrInv'
    BY <1>1, <1>5, <2>5 DEF IInv, IncrInv, Existing, backups, SameSecond
  <2>10. QED
    BY <1>1, <1>2, <1>3, <2>5, <2>6, <2>7, <2>8, <2>9, Goes DEF Stamps
<1>6. QED
  BY <1>4, <1>5 DEF ReadAttrs
LEMMA SendInv == ASSUME IInv, NEW w \in Workers, Send(w) PROVE IInv'
<1> DEFINE c == [by |-> w, oid |-> worker[w].oid,
                 data |-> worker[w].data, attrs |-> worker[w].attrs]
<1>1. /\ worker[w].pc = "send" /\ Len(towrite) < ToWriteLen
      /\ towrite' = Append(towrite, c) /\ worker' = [worker EXCEPT ![w] = Idle]
      /\ UNCHANGED <<bounds, used, ceph, clock, phase, lister, todo, writer, output, backups,
                     restore>>
  BY DEF Send
<1>2. Running
  BY <1>1, Works
<1>3. /\ SystemOK /\ GoroutinesOK /\ used \in [Kinds -> Nat]
      /\ towrite \in Seq(Carried)
      /\ worker \in [Workers -> [pc : {"idle", "read", "attrs", "send"},
                                 oid : Objects \cup {None},
                                 data : Contents, attrs : AttrSets]]
      /\ stamps \in [Objects -> 1..clock \cup {None}]
      /\ archive \subseteq Containers /\ \A d, e \in archive : d.oid = e.oid => d = e
  BY GoroutineTypes
<1>4. PICK o \in Objects : o = worker[w].oid
  BY <1>1, <1>3, Carries
<1>5. c \in Carried /\ c.oid = o /\ c.data = worker[w].data /\ c.attrs = worker[w].attrs
  BY <1>3, <1>4 DEF Carried
<1>6. Fits(c) /\ Matches(c, stamps[o])
  <2>1. /\ Fits(worker[w])
        /\ ceph[o] # None /\ ceph[o].mtime = stamps[o] =>
              worker[w].data = ceph[o].data /\ worker[w].attrs = ceph[o].attrs
    BY <1>1, <1>4 DEF IInv, MatchInv
  <2>2. QED
    BY <1>4, <1>5, <2>1 DEF Fits, Matches
<1> HIDE DEF c
<1>7. /\ towrite' \in Seq(Carried) /\ Len(towrite') = Len(towrite) + 1 /\ Len(towrite) \in Nat
      /\ \A i \in DOMAIN towrite : i \in DOMAIN towrite' /\ towrite'[i] = towrite[i]
      /\ Len(towrite) + 1 \in DOMAIN towrite' /\ towrite'[Len(towrite) + 1] = c
      /\ \A i \in DOMAIN towrite' : i \in DOMAIN towrite \/ (i = Len(towrite) + 1)
  <2>1. towrite' = Append(towrite, c) /\ c \in Carried /\ towrite \in Seq(Carried)
    BY <1>1, <1>3, <1>5
  <2>2. QED
    BY <2>1, Appends, LenProperties
<1>8. \A i \in DOMAIN towrite' :
         \/ i \in DOMAIN towrite /\ towrite'[i] = towrite[i]
         \/ i = Len(towrite) + 1 /\ towrite'[i] = c
  BY <1>7
<1>9. /\ worker' \in [Workers -> [pc : {"idle", "read", "attrs", "send"},
                                  oid : Objects \cup {None},
                                  data : Contents, attrs : AttrSets]]
      /\ worker'[w].pc = "idle" /\ worker'[w].oid = None
      /\ \A x \in Workers : x # w => worker'[x] = worker[x]
  <2>1. Idle \in [pc : {"idle", "read", "attrs", "send"}, oid : Objects \cup {None},
                  data : Contents, attrs : AttrSets]
    BY DEF Idle, Contents, AttrSets
  <2>2. Idle.pc = "idle" /\ Idle.oid = None
    BY DEF Idle
  <2>3. QED
    BY <1>1, <1>3, <2>1, <2>2
<1>10. stamps' = stamps /\ archive' = archive /\ writer' = writer
  BY <1>1 DEF output
<1>11. GoroutinesOK'
  <2>1. Len(towrite') <= ToWriteLen
    BY <1>1, <1>7, CapacitiesAssumption
  <2>2. \A x \in Workers : worker'[x].oid = None <=> worker'[x].pc = "idle"
    BY <1>3, <1>9 DEF GoroutinesOK
  <2>3. QED
    BY <1>1, <1>3, <1>7, <1>9, <2>1, <2>2 DEF GoroutinesOK, Running
<1>12. /\ stamps[o] # None
       /\ \A x \in Workers : worker[x].oid = o => x = w
       /\ \A i \in DOMAIN towrite : towrite[i].oid # o
       /\ writer # None => writer.oid # o
       /\ \A d \in archive : d.oid # o
  BY <1>1, <1>4 DEF IInv, PlaceInv, WorkerInv
<1>13. PlaceInv'
  <2>1. TodoInv' /\ WriterInv' /\ ArchiveInv'
    BY <1>1, <1>10 DEF IInv, PlaceInv, TodoInv, WriterInv, ArchiveInv
  <2>2. WorkerInv'
    <3>1. ASSUME NEW v \in Workers, worker'[v].pc # "idle"
          PROVE  /\ stamps[worker'[v].oid] # None
                 /\ \A x \in Workers : worker'[x].oid = worker'[v].oid => x = v
                 /\ \A i \in DOMAIN towrite' : towrite'[i].oid # worker'[v].oid
                 /\ writer # None => writer.oid # worker'[v].oid
                 /\ \A d \in archive : d.oid # worker'[v].oid
      <4>1. v # w /\ worker'[v] = worker[v]
        BY <1>9, <3>1
      <4>2. worker[v].oid # None /\ worker[v].oid # o
        BY <1>3, <1>12, <3>1, <4>1 DEF GoroutinesOK
      <4>3. /\ stamps[worker[v].oid] # None
            /\ \A x \in Workers : worker[x].oid = worker[v].oid => x = v
            /\ \A i \in DOMAIN towrite : towrite[i].oid # worker[v].oid
            /\ writer # None => writer.oid # worker[v].oid
            /\ \A d \in archive : d.oid # worker[v].oid
        BY <3>1, <4>1 DEF IInv, PlaceInv, WorkerInv
      <4>4. \A i \in DOMAIN towrite' : towrite'[i].oid # worker[v].oid
        BY <1>5, <1>8, <4>2, <4>3
      <4>5. QED
        BY <1>9, <4>1, <4>2, <4>3, <4>4
    <3>2. QED
      BY <1>10, <3>1 DEF WorkerInv
  <2>3. ToWriteInv'
    <3>1. ASSUME NEW i \in DOMAIN towrite'
          PROVE  /\ stamps[towrite'[i].oid] # None
                 /\ \A j \in DOMAIN towrite' : towrite'[j].oid = towrite'[i].oid => j = i
                 /\ writer # None => writer.oid # towrite'[i].oid
                 /\ \A d \in archive : d.oid # towrite'[i].oid
      <4>1. CASE i = Len(towrite) + 1 /\ towrite'[i] = c
        BY <1>5, <1>8, <1>12, <4>1
      <4>2. CASE i \in DOMAIN towrite /\ towrite'[i] = towrite[i]
        BY <1>5, <1>8, <1>12, <4>2 DEF IInv, PlaceInv, ToWriteInv
      <4>3. QED
        BY <1>8, <4>1, <4>2
    <3>2. QED
      BY <1>10, <3>1 DEF ToWriteInv
  <2>4. ASSUME NEW x \in Objects, stamps'[x] # None
        PROVE  Somewhere(x)'
    <3>1. Somewhere(x)
      BY <1>10, <2>4 DEF IInv, PlaceInv
    <3>2. CASE x = o
      BY <1>5, <1>7, <3>2 DEF Somewhere
    <3>3. CASE x # o
      BY <1>4, <1>7, <1>9, <1>10, <3>1, <3>3 DEF Somewhere
    <3>4. QED
      BY <3>2, <3>3
  <2>5. QED
    BY <2>1, <2>2, <2>3, <2>4 DEF PlaceInv
<1>14. MatchInv'
  <2>1. ASSUME NEW x \in Workers, worker'[x].pc \in {"attrs", "send"}
        PROVE  worker'[x] = worker[x]
    BY <1>9, <2>1
  <2>2. ASSUME NEW x \in Workers, worker'[x].pc \in {"attrs", "send"}
        PROVE  /\ worker'[x].data # Garbage /\ Fits(worker'[x])
               /\ LET y == worker'[x].oid IN
                  ceph[y] # None /\ ceph[y].mtime = stamps[y] =>
                     /\ worker'[x].data = ceph[y].data
                     /\ worker'[x].pc = "send" => worker'[x].attrs = ceph[y].attrs
    <3>1. worker'[x] = worker[x] /\ worker[x].pc \in {"attrs", "send"}
      BY <2>1, <2>2
    <3>2. QED
      BY <3>1 DEF IInv, MatchInv
  <2>m. MatchInv
    BY DEF IInv
  <2>3. ASSUME NEW i \in DOMAIN towrite'
        PROVE  Fits(towrite'[i]) /\ Matches(towrite'[i], stamps[towrite'[i].oid])
    BY <1>5, <1>6, <1>8, <2>m DEF MatchInv
  <2>4. /\ writer # None => Fits(writer) /\ Matches(writer, stamps[writer.oid])
        /\ \A d \in archive : Matches(d, stamps[d.oid])
    BY DEF IInv, MatchInv
  <2>5. QED
    BY <1>1, <1>10, <2>2, <2>3, <2>4, Matched
<1>15. IncrInv'
  BY <1>1, <1>10 DEF IInv, IncrInv, Existing, backups, SameSecond
<1>16. QED
  BY <1>1, <1>2, <1>3, <1>10, <1>11, <1>13, <1>14, <1>15, Goes DEF Stamps

\* The main goroutine takes a container.
LEMMA ReceiveInv == IInv /\ Receive => IInv'
<1> SUFFICES ASSUME IInv, Receive PROVE IInv'
  OBVIOUS
<1>1. /\ writer = None /\ towrite # <<>>
      /\ writer' = Head(towrite) /\ towrite' = Tail(towrite)
      /\ UNCHANGED <<bounds, used, ceph, clock, phase, lister, todo, worker, output, backups,
                     restore>>
  BY DEF Receive
<1>2. Running
  BY <1>1 DEF IInv, QuietInv
<1>3. /\ SystemOK /\ GoroutinesOK /\ used \in [Kinds -> Nat]
      /\ towrite \in Seq(Carried) /\ Len(towrite) <= ToWriteLen
      /\ stamps \in [Objects -> 1..clock \cup {None}]
      /\ archive \subseteq Containers /\ \A d, e \in archive : d.oid = e.oid => d = e
  BY GoroutineTypes
<1>4. /\ towrite' \in Seq(Carried) /\ Len(towrite') = Len(towrite) - 1 /\ Len(towrite) \in Nat
      /\ \A i \in DOMAIN towrite' : /\ i + 1 \in DOMAIN towrite /\ i + 1 # 1
                                    /\ towrite'[i] = towrite[i + 1]
      /\ \A i \in DOMAIN towrite :
            i = 1 \/ (i - 1 \in DOMAIN towrite' /\ towrite'[i - 1] = towrite[i])
      /\ 1 \in DOMAIN towrite /\ writer' = towrite[1] /\ writer' \in Carried
  BY <1>1, <1>3, Tails, LenProperties
<1>5. \A i, j \in DOMAIN towrite' : i + 1 = j + 1 => i = j
  BY <1>4, LenProperties
<1>6. writer' # None
  BY <1>4, NoneAssumption
<1>7. stamps' = stamps /\ archive' = archive /\ worker' = worker
  BY <1>1 DEF output
<1>8. GoroutinesOK'
  <2>1. Len(towrite') <= ToWriteLen
    BY <1>3, <1>4, CapacitiesAssumption
  <2>2. QED
    BY <1>1, <1>3, <1>4, <2>1 DEF GoroutinesOK, Running
<1>9. ToWriteInv
  BY DEF IInv, PlaceInv
<1>10. PlaceInv'
  <2>1. TodoInv' /\ ArchiveInv'
    BY <1>1, <1>7 DEF IInv, PlaceInv, TodoInv, ArchiveInv
  <2>2. WorkerInv'
    <3>1. WorkerInv
      BY DEF IInv, PlaceInv
    <3>2. ASSUME NEW w \in Workers, worker[w].pc # "idle"
          PROVE  /\ writer'.oid # worker[w].oid
                 /\ \A i \in DOMAIN towrite' : towrite'[i].oid # worker[w].oid
      <4>1. \A i \in DOMAIN towrite : towrite[i].oid # worker[w].oid
        BY <3>1, <3>2 DEF WorkerInv
      <4>2. QED
        BY <1>4, <4>1
    <3>3. ASSUME NEW w \in Workers, worker[w].pc # "idle"
          PROVE  /\ stamps[worker[w].oid] # None
                 /\ \A x \in Workers : worker[x].oid = worker[w].oid => x = w
                 /\ \A d \in archive : d.oid # worker[w].oid
      BY <3>1, <3>3 DEF WorkerInv
    <3>4. QED
      BY <1>7, <3>2, <3>3 DEF WorkerInv
  <2>3. ToWriteInv'
    <3>1. ASSUME NEW i \in DOMAIN towrite'
          PROVE  /\ stamps[towrite'[i].oid] # None
                 /\ \A j \in DOMAIN towrite' : towrite'[j].oid = towrite'[i].oid => j = i
                 /\ writer'.oid # towrite'[i].oid
                 /\ \A d \in archive : d.oid # towrite'[i].oid
      BY <1>4, <1>5, <1>9 DEF ToWriteInv
    <3>2. QED
      BY <1>7, <3>1 DEF ToWriteInv
  <2>4. WriterInv'
    BY <1>4, <1>7, <1>9 DEF ToWriteInv, WriterInv
  <2>5. ASSUME NEW x \in Objects, stamps'[x] # None
        PROVE  Somewhere(x)'
    <3>1. Somewhere(x)
      BY <1>7, <2>5 DEF IInv, PlaceInv
    <3>2. ASSUME NEW i \in DOMAIN towrite, towrite[i].oid = x
          PROVE  writer'.oid = x \/ \E j \in DOMAIN towrite' : towrite'[j].oid = x
      <4>1. CASE i = 1
        BY <1>4, <3>2, <4>1
      <4>2. CASE i # 1
        <5>1. i - 1 \in DOMAIN towrite' /\ towrite'[i - 1].oid = x
          BY <1>4, <3>2, <4>2
        <5>2. QED
          BY <5>1
      <4>3. QED
        BY <4>1, <4>2
    <3>3. QED
      BY <1>1, <1>6, <1>7, <3>1, <3>2 DEF Somewhere
  <2>6. QED
    BY <2>1, <2>2, <2>3, <2>4, <2>5 DEF PlaceInv
<1>11. MatchInv'
  <2>1. \A i \in DOMAIN towrite : Fits(towrite[i]) /\ Matches(towrite[i], stamps[towrite[i].oid])
    BY DEF IInv, MatchInv
  <2>2. /\ Fits(writer') /\ Matches(writer', stamps[writer'.oid])
        /\ \A i \in DOMAIN towrite' :
              Fits(towrite'[i]) /\ Matches(towrite'[i], stamps[towrite'[i].oid])
    BY <1>4, <2>1
  <2>3. MatchInv
    BY DEF IInv
  <2>4. /\ \A x \in Workers : worker[x].pc \in {"attrs", "send"} =>
              /\ worker[x].data # Garbage /\ Fits(worker[x])
              /\ LET y == worker[x].oid IN
                 ceph[y] # None /\ ceph[y].mtime = stamps[y] =>
                    /\ worker[x].data = ceph[y].data
                    /\ worker[x].pc = "send" => worker[x].attrs = ceph[y].attrs
        /\ \A c \in archive : Matches(c, stamps[c.oid])
    BY <2>3 DEF MatchInv
  <2>5. QED
    BY <1>1, <1>7, <2>2, <2>4, Matched
<1>12. IncrInv'
  BY <1>1, <1>7 DEF IInv, IncrInv, Existing, backups, SameSecond
<1>13. QED
  BY <1>1, <1>2, <1>3, <1>7, <1>8, <1>10, <1>11, <1>12, Goes DEF Stamps

LEMMA WriteInv == IInv /\ Write => IInv'
<1> SUFFICES ASSUME IInv, Write PROVE IInv'
  OBVIOUS
<1> DEFINE c == [oid |-> writer.oid, data |-> writer.data, attrs |-> writer.attrs]
<1>1. /\ writer # None /\ archive' = archive \cup {c} /\ writer' = None
      /\ UNCHANGED <<bounds, used, ceph, clock, phase, lister, todo, towrite, worker, stamps,
                     backups, restore>>
  BY DEF Write
<1>2. Running
  BY <1>1 DEF IInv, QuietInv
<1>3. /\ SystemOK /\ GoroutinesOK /\ used \in [Kinds -> Nat]
      /\ stamps \in [Objects -> 1..clock \cup {None}]
      /\ archive \subseteq Containers /\ \A d, e \in archive : d.oid = e.oid => d = e
  BY GoroutineTypes
<1>4. writer \in Carried /\ writer.oid \in Objects
  BY <1>1, <1>3, Carries
<1>5. Fits(writer) /\ Matches(writer, stamps[writer.oid])
  BY <1>1 DEF IInv, MatchInv
<1>6. c \in Containers /\ c.oid = writer.oid /\ Matches(c, stamps[c.oid])
  BY <1>4, <1>5 DEF Carried, Containers, Fits, Matches
<1> HIDE DEF c
<1>7. /\ stamps[c.oid] # None /\ \A d \in archive : d.oid # c.oid
  BY <1>1, <1>6 DEF IInv, PlaceInv, WriterInv
<1>8. /\ archive' \subseteq Containers /\ \A d, e \in archive' : d.oid = e.oid => d = e
  BY <1>1, <1>3, <1>6, <1>7
<1>9. GoroutinesOK'
  BY <1>1, <1>3 DEF GoroutinesOK, Running
<1>10. PlaceInv'
  <2>1. TodoInv' /\ WriterInv' /\ ArchiveInv'
    BY <1>1, <1>7 DEF IInv, PlaceInv, TodoInv, WriterInv, ArchiveInv
  <2>2. WorkerInv'
    <3>1. WorkerInv
      BY DEF IInv, PlaceInv
    <3>2. QED
      BY <1>1, <1>6, <3>1 DEF WorkerInv
  <2>3. ToWriteInv'
    <3>1. ToWriteInv
      BY DEF IInv, PlaceInv
    <3>2. QED
      BY <1>1, <1>6, <3>1 DEF ToWriteInv
  <2>4. ASSUME NEW x \in Objects, stamps'[x] # None
        PROVE  Somewhere(x)'
    <3>1. Somewhere(x)
      BY <1>1, <2>4 DEF IInv, PlaceInv
    <3>2. QED
      BY <1>1, <1>6, <3>1 DEF Somewhere
  <2>5. QED
    BY <2>1, <2>2, <2>3, <2>4 DEF PlaceInv
<1>11. MatchInv'
  <2>1. \A d \in archive' : Matches(d, stamps[d.oid])
    BY <1>1, <1>6 DEF IInv, MatchInv
  <2>2. QED
    BY <1>1, <2>1 DEF IInv, MatchInv, Matches, Fits
<1>12. IncrInv'
  BY <1>1 DEF IInv, IncrInv, Existing, backups, SameSecond
<1>13. QED
  BY <1>1, <1>2, <1>3, <1>8, <1>9, <1>10, <1>11, <1>12, Goes DEF Stamps
\* Nothing is on its way any more when the metadata is written.
LEMMA Archived ==
    ASSUME IInv, Running, ~lister.on, todo = <<>>, towrite = <<>>, writer = None,
           \A w \in Workers : worker[w].pc = "idle"
    PROVE  /\ \A o \in Objects : stamps[o] # None => \E c \in archive : c.oid = o
           /\ Complete([stamps |-> stamps, archive |-> archive])
           /\ [stamps |-> stamps, archive |-> archive] \in Backups
<1>1. DOMAIN towrite = {}
  BY Empties
<1>2. \A o \in Objects : stamps[o] # None => \E c \in archive : c.oid = o
  BY <1>1 DEF IInv, PlaceInv, Somewhere
<1>3. /\ stamps \in Stamps /\ archive \subseteq Containers
      /\ \A c, e \in archive : c.oid = e.oid => c = e
  BY DEF IInv, TypeOK, BackupsOK
<1>4. QED
  BY <1>2, <1>3 DEF Complete, Backups

LEMMA WriteManifestInv == IInv /\ WriteManifest => IInv'
<1> SUFFICES ASSUME IInv, WriteManifest PROVE IInv'
  OBVIOUS
<1> DEFINE b == [stamps |-> stamps, archive |-> archive]
<1>1. /\ Running /\ ~lister.on /\ todo = <<>> /\ towrite = <<>> /\ writer = None
      /\ \A w \in Workers : worker[w].pc = "idle"
      /\ stamps' = Nothing /\ archive' = {}
      /\ UNCHANGED <<bounds, used, ceph, clock, lister, todo, towrite, worker, writer, target>>
  BY DEF WriteManifest, channels
<1>2. SystemOK /\ GoroutinesOK /\ BackupsOK
  BY DEF IInv, TypeOK
<1>3. /\ \A o \in Objects : stamps[o] # None => \E c \in archive : c.oid = o
      /\ Complete(b) /\ b \in Backups
  BY <1>1, Archived
<1>4. \A c \in archive : /\ c.oid \in Objects /\ stamps[c.oid] # None
                         /\ Matches(c, stamps[c.oid])
  BY <1>2, Contained DEF IInv, PlaceInv, ArchiveInv, MatchInv, BackupsOK
<1>5. b.stamps = stamps /\ b.archive = archive
  OBVIOUS
<1>6. GoroutinesOK' /\ QuietInv'
  BY <1>1, <1>2 DEF GoroutinesOK, QuietInv
<1>7. PlaceInv' /\ MatchInv'
  <2>1. DOMAIN todo' = {} /\ DOMAIN towrite' = {} /\ writer' = None /\ ~lister'.on
    BY <1>1, Empties
  <2>2. \A w \in Workers : worker'[w].pc = "idle"
    BY <1>1
  <2>3. \A o \in Objects : stamps'[o] = None
    BY <1>1 DEF Nothing
  <2>4. PlaceInv'
    BY <1>1, <2>1, <2>2, <2>3
       DEF PlaceInv, TodoInv, WorkerInv, ToWriteInv, WriterInv, ArchiveInv
  <2>5. MatchInv'
    BY <1>1, <2>1, <2>2 DEF MatchInv
  <2>6. QED
    BY <2>4, <2>5
<1>8. Stamps' = Stamps /\ Backups' = Backups /\ stamps' \in Stamps' /\ Existing' = Existing
  BY <1>1 DEF Stamps, Backups, Nothing, Existing
<1> HIDE DEF b
<1>9. CASE /\ phase = "full" /\ phase' = "live" /\ full' = b /\ UNCHANGED <<incr, left>>
  <2>1. SystemOK'
    BY <1>1, <1>2, <1>9 DEF SystemOK, Existing
  <2>2. BackupsOK'
    BY <1>1, <1>2, <1>3, <1>8, <1>9 DEF BackupsOK
  <2>3. FullInv'
    BY <1>1, <1>3, <1>4, <1>5, <1>9 DEF FullInv, Complete, Matches
  <2>4. IncrInv' /\ IncrDone' /\ TargetInv'
    BY <1>1, <1>9 DEF IInv, IncrInv, IncrDone, TargetInv, Restoring
  <2>5. QED
    BY <1>6, <1>7, <2>1, <2>2, <2>3, <2>4 DEF IInv, TypeOK
<1>10. CASE /\ phase = "incr" /\ phase' = "restore full" /\ incr' = b
            /\ left' = full.archive /\ UNCHANGED full
  <2>1. SystemOK'
    BY <1>1, <1>2, <1>10 DEF SystemOK, Existing
  <2>2. full \in Backups
    BY <1>2, <1>10 DEF BackupsOK
  <2>3. BackupsOK'
    <3>1. full.archive \subseteq Containers
      BY <2>2 DEF Backups
    <3>2. QED
      BY <1>1, <1>2, <1>3, <1>8, <1>10, <2>2, <3>1 DEF BackupsOK
  <2>4. FullInv'
    BY <1>1, <1>10 DEF IInv, FullInv, Complete, Matches
  <2>5. IncrInv'
    BY <1>10 DEF IncrInv
  <2>6. IncrDone'
    <3>1. \A c \in archive : /\ ceph[c.oid] # None
                             /\ Matches(c, ceph[c.oid].mtime)
      <4>1. \A o \in Objects : stamps[o] # None => ceph[o] # None /\ stamps[o] = ceph[o].mtime
        BY <1>10 DEF IInv, IncrInv
      <4>2. QED
        BY <1>4, <4>1
    <3>2. used["listerrors"] = 0 =>
             \A o \in Existing : \/ \E c \in archive : c.oid = o
                                 \/ SameSecond(o)
      <4>1. DOMAIN todo = {} /\ Existing \subseteq Objects
        BY <1>1, Empties DEF Existing
      <4>2. QED
        BY <1>1, <1>3, <1>10, <4>1 DEF IInv, IncrInv
    <3>3. QED
      BY <1>1, <1>3, <1>5, <1>8, <1>10, <3>1, <3>2
         DEF IncrDone, Restoring, Complete, Matches, SameSecond
  <2>7. TargetInv'
    BY <1>1, <1>10 DEF IInv, TargetInv, Restoring
  <2>8. QED
    BY <1>6, <1>7, <2>1, <2>3, <2>4, <2>5, <2>6, <2>7 DEF IInv, TypeOK
<1>11. QED
  BY <1>9, <1>10 DEF WriteManifest, b

-----------------------------------------------------------------------------
(* Restore. *)

\* What the target holds of an object after a container was restored.
LEMMA Restores ==
    ASSUME NEW c \in Containers,
           NEW old \in [data : Contents, attrs : SUBSET UNION AttrSets] \cup {None},
           old # None => (old.data = Empty <=> ~Filled(c.oid))
    PROVE  /\ Restored(old, c) \in
                 [data : Contents, attrs : SUBSET UNION AttrSets] \cup {None}
           /\ Restored(old, c) # None =>
                 (Restored(old, c).data = Empty <=> ~Filled(c.oid))
           /\ c.data # Empty \/ c.attrs # {} =>
                 /\ Restored(old, c) # None
                 /\ c.data # Empty => Restored(old, c).data = c.data
                 /\ c.attrs \subseteq Restored(old, c).attrs
<1>1. /\ c.data \in Contents /\ c.attrs \in AttrSets
      /\ c.data = Empty <=> ~Filled(c.oid)
  BY DEF Containers
<1>2. c.attrs \in SUBSET UNION AttrSets
  BY <1>1
<1> DEFINE data == IF c.data # Empty \/ old = None THEN c.data ELSE old.data
           attrs == c.attrs \cup (IF old = None THEN {} ELSE old.attrs)
           new == [data |-> data, attrs |-> attrs]
<1>3. /\ data \in Contents /\ (data = Empty <=> ~Filled(c.oid))
      /\ c.data # Empty => data = c.data
  <2>1. CASE old = None
    BY <1>1, <2>1
  <2>2. CASE old # None
    BY <1>1, <2>2
  <2>3. QED
    BY <2>1, <2>2
<1>4. attrs \in SUBSET UNION AttrSets /\ c.attrs \subseteq attrs
  BY <1>2
<1>5. Restored(old, c) = IF ~(old # None \/ c.data # Empty \/ c.attrs # {}) THEN None ELSE new
  BY DEF Restored
<1> HIDE DEF data, attrs
<1>6. /\ new \in [data : Contents, attrs : SUBSET UNION AttrSets] /\ new # None
      /\ new.data = data /\ new.attrs = attrs
  BY <1>3, <1>4, NoneAssumption
<1> HIDE DEF new
<1>7. QED
  BY <1>3, <1>4, <1>5, <1>6

LEMMA RestoreTypes ==
    ASSUME IInv
    PROVE  /\ SystemOK /\ GoroutinesOK /\ BackupsOK
           /\ left \subseteq Containers
           /\ target \in [Objects -> [data : Contents, attrs : SUBSET UNION AttrSets]
                                     \cup {None}]
           /\ phase # "full" => full \in Backups
           /\ Restoring => incr \in Backups
BY DEF IInv, TypeOK, BackupsOK, SystemOK, Restoring

\* The objects of Ceph and the backups stay as they are.
LEMMA OnlyRestore ==
    ASSUME IInv, Restoring, Restoring',
           UNCHANGED <<bounds, ceph, clock, channels, output, backups>>,
           used' \in [Kinds -> Nat], used'["listerrors"] = 0 => used["listerrors"] = 0,
           phase' \in {"full", "live", "incr", "restore full", "restore incr", "done"},
           left' \subseteq Containers,
           target' \in [Objects -> [data : Contents, attrs : SUBSET UNION AttrSets] \cup {None}],
           TargetInv'
    PROVE  IInv'
<1>1. UNCHANGED <<lister, todo, towrite, worker, writer, stamps, archive, full, incr>>
  BY DEF channels, output, backups
<1>2. phase # "full" /\ phase' # "full" /\ ~Running /\ ~Running'
      /\ phase # "incr" /\ phase' # "incr"
      /\ phase' \notin {"full", "live", "incr"}
  BY DEF Restoring, Running
<1>3. SystemOK'
  BY RestoreTypes DEF SystemOK, Existing
<1>4. ~lister.on
  BY <1>2 DEF IInv, QuietInv
<1>5. GoroutinesOK'
  <2>1. GoroutinesOK
    BY RestoreTypes
  <2>2. QED
    BY <1>1, <1>4, <2>1 DEF GoroutinesOK
<1>6. BackupsOK'
  <2>1. BackupsOK /\ full \in Backups /\ incr \in Backups
    BY <1>2, RestoreTypes
  <2>2. Stamps' = Stamps /\ Backups' = Backups
    BY DEF Stamps, Backups
  <2>3. QED
    BY <1>1, <2>1, <2>2 DEF BackupsOK
<1>7. QuietInv'
  BY <1>1, <1>2 DEF IInv, QuietInv
<1>8. PlaceInv'
  <2>1. TodoInv' /\ WorkerInv' /\ ToWriteInv' /\ WriterInv' /\ ArchiveInv'
    BY <1>1 DEF IInv, PlaceInv, TodoInv, WorkerInv, ToWriteInv, WriterInv, ArchiveInv
  <2>2. QED
    BY <1>1, <2>1 DEF IInv, PlaceInv, Somewhere
<1>9. MatchInv'
  BY <1>1 DEF IInv, MatchInv, Matches, Fits
<1>10. IncrInv' /\ FullInv'
  BY <1>1, <1>2 DEF IInv, IncrInv, FullInv, Complete, Matches
<1>11. IncrDone'
  BY <1>1 DEF IInv, IncrDone, Restoring, Complete, Matches, Existing, SameSecond
<1>12. QED
  BY <1>3, <1>5, <1>6, <1>7, <1>8, <1>9, <1>10, <1>11 DEF IInv, TypeOK

LEMMA RestoreObjectInv == IInv /\ RestoreObject => IInv'
<1> SUFFICES ASSUME IInv, RestoreObject PROVE IInv'
  OBVIOUS
<1>1. PICK c \in left : /\ target' = [target EXCEPT ![c.oid] = Restored(target[c.oid], c)]
                        /\ left' = left \ {c}
  BY DEF RestoreObject
<1>2. UNCHANGED <<bounds, used, ceph, clock, phase, channels, output, backups>>
  BY DEF RestoreObject
<1>3. /\ left \subseteq Containers
      /\ target \in [Objects -> [data : Contents, attrs : SUBSET UNION AttrSets] \cup {None}]
      /\ used \in [Kinds -> Nat]
      /\ phase \in {"full", "live", "incr", "restore full", "restore incr", "done"}
  BY RestoreTypes DEF SystemOK
<1>4. Restoring /\ phase \in {"restore full", "restore incr"}
  BY <1>1 DEF IInv, TargetInv, Restoring
<1>5. c \in Containers /\ c.oid \in Objects
  BY <1>1, <1>3, Contained
<1>6. TargetInv
  BY DEF IInv
<1> DEFINE new == Restored(target[c.oid], c)
<1>7. /\ new \in [data : Contents, attrs : SUBSET UNION AttrSets] \cup {None}
      /\ new # None => (new.data = Empty <=> ~Filled(c.oid))
      /\ c.data # Empty \/ c.attrs # {} =>
            /\ new # None
            /\ c.data # Empty => new.data = c.data
            /\ c.attrs \subseteq new.attrs
  <2>1. target[c.oid] \in [data : Contents, attrs : SUBSET UNION AttrSets] \cup {None}
    BY <1>3, <1>5
  <2>2. target[c.oid] # None => (target[c.oid].data = Empty <=> ~Filled(c.oid))
    BY <1>5, <1>6 DEF TargetInv
  <2>3. QED
    BY <1>5, <2>1, <2>2, Restores
<1>8. target' = [target EXCEPT ![c.oid] = new]
  BY <1>1
<1> HIDE DEF new
<1>9. /\ target' \in [Objects -> [data : Contents, attrs : SUBSET UNION AttrSets] \cup {None}]
      /\ target'[c.oid] = new /\ \A o \in Objects : o # c.oid => target'[o] = target[o]
  BY <1>3, <1>5, <1>7, <1>8
<1>10. \A o \in Objects : target'[o] # None => (target'[o].data = Empty <=> ~Filled(o))
  BY <1>6, <1>7, <1>9 DEF TargetInv
<1>11. Holds(c)'
  BY <1>7, <1>9 DEF Holds
<1>12. ASSUME NEW d \in Containers, d.oid # c.oid, Holds(d) PROVE Holds(d)'
  <2>1. target'[d.oid] = target[d.oid]
    BY <1>9, <1>12, Contained
  <2>2. QED
    BY <1>12, <2>1 DEF Holds
<1>13. full' = full /\ incr' = incr
  BY <1>2 DEF backups
<1>14. CASE phase = "restore full"
  <2>1. /\ left \subseteq full.archive /\ \A d \in full.archive \ left : Holds(d)
        /\ full.archive \subseteq Containers
        /\ \A d, e \in full.archive : d.oid = e.oid => d = e
    BY <1>6, <1>14, RestoreTypes DEF TargetInv, Backups, IInv, FullInv, Complete
  <2>2. ASSUME NEW d \in full.archive \ left' PROVE Holds(d)'
    <3>1. CASE d = c
      BY <1>11, <3>1 DEF Holds
    <3>2. CASE d # c
      <4>1. d \in full.archive \ left /\ d.oid # c.oid
        BY <1>1, <2>1, <3>2
      <4>2. QED
        BY <1>12, <2>1, <4>1
    <3>3. QED
      BY <3>1, <3>2
  <2>3. TargetInv'
    BY <1>1, <1>2, <1>10, <1>13, <1>14, <2>1, <2>2 DEF TargetInv, Restoring, Holds
  <2>4. QED
    BY <1>1, <1>2, <1>3, <1>4, <1>9, <2>3, OnlyRestore DEF Restoring
<1>15. CASE phase = "restore incr"
  <2>1. /\ left \subseteq incr.archive /\ \A d \in incr.archive \ left : Holds(d)
        /\ \A d \in full.archive : Final(d) => Holds(d)
        /\ incr.archive \subseteq Containers /\ full.archive \subseteq Containers
        /\ \A d, e \in incr.archive : d.oid = e.oid => d = e
    BY <1>4, <1>6, <1>15, RestoreTypes DEF TargetInv, Backups, IInv, IncrDone, Complete
  <2>2. ASSUME NEW d \in incr.archive \ left' PROVE Holds(d)'
    <3>1. CASE d = c
      BY <1>11, <3>1 DEF Holds
    <3>2. CASE d # c
      <4>1. d \in incr.archive \ left /\ d.oid # c.oid
        BY <1>1, <2>1, <3>2
      <4>2. QED
        BY <1>12, <2>1, <4>1
    <3>3. QED
      BY <3>1, <3>2
  <2>3. ASSUME NEW d \in full.archive, Final(d) PROVE Holds(d)'
    <3>1. d.oid # c.oid
      BY <1>1, <2>1, <2>3 DEF Final
    <3>2. QED
      BY <1>12, <2>1, <2>3, <3>1
  <2>4. TargetInv'
    BY <1>1, <1>2, <1>10, <1>13, <1>15, <2>1, <2>2, <2>3
       DEF TargetInv, Restoring, Holds, Final
  <2>5. QED
    BY <1>1, <1>2, <1>3, <1>4, <1>9, <2>4, OnlyRestore DEF Restoring
<1>16. QED
  BY <1>4, <1>14, <1>15

LEMMA RestoreDoneInv == IInv /\ RestoreDone => IInv'
<1> SUFFICES ASSUME IInv, RestoreDone PROVE IInv'
  OBVIOUS
<1>1. /\ left = {}
      /\ UNCHANGED <<bounds, used, ceph, clock, channels, output, backups, target>>
  BY DEF RestoreDone
<1>2. /\ left \subseteq Containers
      /\ target \in [Objects -> [data : Contents, attrs : SUBSET UNION AttrSets] \cup {None}]
      /\ used \in [Kinds -> Nat]
  BY RestoreTypes DEF SystemOK
<1>3. full' = full /\ incr' = incr /\ target' = target
  BY <1>1 DEF backups
<1>4. CASE phase = "restore full" /\ phase' = "restore incr" /\ left' = incr.archive
  <2>1. incr.archive \subseteq Containers
    BY <1>4, RestoreTypes DEF Restoring, Backups
  <2>2. TargetInv'
    BY <1>1, <1>3, <1>4 DEF IInv, TargetInv, Restoring, Holds, Final
  <2>3. QED
    BY <1>1, <1>2, <1>3, <1>4, <2>1, <2>2, OnlyRestore DEF Restoring
<1>5. CASE phase = "restore incr" /\ phase' = "done" /\ left' = left
  <2>1. TargetInv'
    BY <1>1, <1>3, <1>5 DEF IInv, TargetInv, Restoring, Holds, Final
  <2>2. QED
    BY <1>1, <1>2, <1>3, <1>5, <2>1, OnlyRestore DEF Restoring
<1>6. QED
  BY <1>4, <1>5 DEF RestoreDone

LEMMA RestoreAgainInv == IInv /\ RestoreAgain => IInv'
<1> SUFFICES ASSUME IInv, RestoreAgain PROVE IInv'
  OBVIOUS
<1>1. /\ left # {} /\ Use("crashes")
      /\ left' = IF phase = "restore full" THEN full.archive ELSE incr.archive
      /\ UNCHANGED <<bounds, ceph, clock, phase, channels, output, backups, target>>
  BY DEF RestoreAgain
<1>2. /\ target \in [Objects -> [data : Contents, attrs : SUBSET UNION AttrSets] \cup {None}]
      /\ phase \in {"full", "live", "incr", "restore full", "restore incr", "done"}
      /\ SystemOK
  BY RestoreTypes DEF SystemOK
<1>3. /\ used' \in [Kinds -> Nat]
      /\ used'["listerrors"] = 0 => used["listerrors"] = 0
  BY <1>1, <1>2, Uses, "crashes" \in Kinds DEF Kinds
<1>4. Restoring /\ phase \in {"restore full", "restore incr"}
  BY <1>1 DEF IInv, TargetInv, Restoring
<1>5. full' = full /\ incr' = incr /\ target' = target
  BY <1>1 DEF backups
<1>6. left' \subseteq Containers
  BY <1>1, <1>4, RestoreTypes DEF Backups
<1>7. TargetInv'
  BY <1>1, <1>4, <1>5 DEF IInv, TargetInv, Restoring, Holds, Final
<1>8. QED
  BY <1>1, <1>2, <1>3, <1>4, <1>5, <1>6, <1>7, OnlyRestore DEF Restoring

-----------------------------------------------------------------------------
LEMMA NextInv == IInv /\ [Next]_vars => IInv'
<1> SUFFICES ASSUME IInv, [Next]_vars PROVE IInv'
  OBVIOUS
<1>1. CASE UNCHANGED vars
  <2>1. UNCHANGED <<bounds, used, ceph, clock, phase, lister, todo, towrite, worker, writer,
                    stamps, archive, backups, restore>>
    BY <1>1 DEF vars, channels, output
  <2>2. TypeOK'
    <3>1. SystemOK /\ GoroutinesOK /\ BackupsOK
      BY DEF IInv, TypeOK
    <3>2. SystemOK' /\ GoroutinesOK'
      BY <2>1, <3>1 DEF SystemOK, GoroutinesOK, Existing, Running
    <3>3. BackupsOK'
      BY <2>1, <3>1, BackupsStill DEF BackupsOK
    <3>4. QED
      BY <3>2, <3>3 DEF TypeOK
  <2>3. QuietInv'
    BY <2>1 DEF IInv, QuietInv, Running
  <2>4. PlaceInv'
    <3>1. TodoInv' /\ WorkerInv' /\ ToWriteInv' /\ WriterInv' /\ ArchiveInv'
      BY <2>1 DEF IInv, PlaceInv, TodoInv, WorkerInv, ToWriteInv, WriterInv, ArchiveInv
    <3>2. QED
      BY <2>1, <3>1 DEF IInv, PlaceInv, Somewhere
  <2>5. MatchInv' /\ IncrInv'
    BY <2>1 DEF IInv, MatchInv, Matches, Fits, IncrInv, Existing, backups, SameSecond
  <2>6. FullInv' /\ IncrDone' /\ TargetInv'
    BY <2>1, Still DEF IInv
  <2>7. QED
    BY <2>2, <2>3, <2>4, <2>5, <2>6 DEF IInv
<1>2. CASE BTrDB
  BY <1>2, ChangeInv, DeleteInv DEF BTrDB
<1>3. CASE Lister
  BY <1>3, ListInv, EndListInv DEF Lister
<1>4. CASE \E w \in Workers : Worker(w)
  BY <1>4, StatInv, ReadInv, ReadAttrsInv, SendInv DEF Worker
<1>5. CASE Main
  BY <1>5, ReceiveInv, WriteInv, WriteManifestInv DEF Main
<1>6. CASE Restore
  BY <1>6, RestoreObjectInv, RestoreDoneInv DEF Restore
<1>7. QED
  BY <1>1, <1>2, <1>3, <1>4, <1>5, <1>6, ShutDownInv, CrashInv, RestoreAgainInv DEF Next

(* An object is at one place of a backup, what keeps its time was read as it is,
   and the target follows the two archives: the inductive invariant. *)
THEOREM BackupInvariant == Spec => []IInv
BY InitInv, NextInv, PTL DEF Spec

(* The variables of Backup keep their types, and an archive has an object once. *)
THEOREM TypeCorrect == Spec => []TypeOK
<1>1. IInv => TypeOK
  BY DEF IInv
<1>2. QED
  BY <1>1, BackupInvariant, PTL

(* A backup that has its metadata has every object of the metadata. *)
THEOREM CompleteArchive == Spec => []MetadataMeansArchived
<1>1. IInv => MetadataMeansArchived
  <2>1. SUFFICES ASSUME IInv, NEW b \in {full, incr} \ {None}, NEW o \in Objects,
                        b.stamps[o] # None
                 PROVE  \E c \in b.archive : c.oid = o
    BY DEF MetadataMeansArchived
  <2>2. Complete(b)
    <3>1. full # None => Complete(full)
      BY <2>1 DEF IInv, FullInv
    <3>2. incr # None => Complete(incr)
      BY <2>1 DEF IInv, IncrDone
    <3>3. QED
      BY <3>1, <3>2
  <2>3. QED
    BY <2>1, <2>2 DEF Complete
<1>2. QED
  BY <1>1, BackupInvariant, PTL

(* However objects change, come and go during the full backup, and wherever the
   programs are ended and started again: the restored target has what the system
   that was shut down held, but for a content lost in a buffer, of every object
   that was not written last in the second that the full backup had noted. *)
THEOREM RestoredTarget == Spec => []RestoredIsFinal
<1>1. IInv => RestoredIsFinal
  <2>1. SUFFICES ASSUME IInv, phase = "done", used["listerrors"] = 0, NEW o \in Existing,
                        ceph[o].data # Empty \/ ceph[o].attrs # {},
                        SameSecond(o) => full.stamps[o] = ceph[o].mtime
                 PROVE  /\ target[o] # None
                        /\ target[o].data \in {ceph[o].data, Garbage}
                        /\ ceph[o].attrs \subseteq target[o].attrs
    BY DEF RestoredIsFinal
  <2>2. o \in Objects /\ ceph[o] # None
    BY DEF Existing
  <2>3. (ceph[o].data = Empty <=> ~Filled(o)) /\ ceph[o].mtime # None
    <3>1. SystemOK
      BY <2>1 DEF IInv, TypeOK
    <3>2. QED
      BY <2>2, <3>1, Stored
  <2>4. ASSUME NEW c \in Containers, c.oid = o, Holds(c), Matches(c, ceph[o].mtime)
        PROVE  /\ target[o] # None
               /\ target[o].data \in {ceph[o].data, Garbage}
               /\ ceph[o].attrs \subseteq target[o].attrs
    <3>1. c.data \in {ceph[o].data, Garbage} /\ c.attrs = ceph[o].attrs
      BY <2>2, <2>4 DEF Matches
    <3>2. c.data # Empty \/ c.attrs # {}
      BY <2>1, <3>1, GarbageAssumption
    <3>3. /\ target[o] # None /\ c.attrs \subseteq target[o].attrs
          /\ c.data # Empty => target[o].data = c.data
      BY <2>4, <3>2 DEF Holds
    <3>4. CASE c.data # Empty
      BY <3>1, <3>3, <3>4
    <3>5. CASE c.data = Empty
      <4>1. ceph[o].data = Empty
        BY <2>3, <2>4, <3>5, Contained DEF Fits
      <4>2. target[o].data = Empty
        <5>1. TargetInv
          BY <2>1 DEF IInv
        <5>2. QED
          BY <2>2, <2>3, <3>3, <4>1, <5>1 DEF TargetInv
      <4>3. QED
        BY <3>1, <3>3, <4>1, <4>2
    <3>6. QED
      BY <3>4, <3>5
  <2>5. /\ full \in Backups /\ incr \in Backups
        /\ full.archive \subseteq Containers /\ incr.archive \subseteq Containers
    BY <2>1, RestoreTypes DEF Restoring, Backups
  <2>6. CASE \E c \in incr.archive : c.oid = o
    <3>1. PICK c \in incr.archive : c.oid = o
      BY <2>6
    <3>2. Matches(c, ceph[o].mtime) /\ Holds(c)
      BY <2>1, <3>1 DEF IInv, IncrDone, TargetInv, Restoring
    <3>3. QED
      BY <2>4, <2>5, <3>1, <3>2
  <2>7. CASE ~(\E c \in incr.archive : c.oid = o)
    <3>1. full.stamps[o] = ceph[o].mtime
      <4>1. SameSecond(o)
        BY <2>1, <2>7 DEF IInv, IncrDone, Restoring
      <4>2. QED
        BY <2>1, <4>1
    <3>2. full.stamps[o] # None
      BY <2>3, <3>1
    <3>3. PICK c \in full.archive : c.oid = o
      BY <2>1, <2>2, <3>2 DEF IInv, FullInv, Complete
    <3>4. Matches(c, ceph[o].mtime) /\ Holds(c)
      BY <2>1, <2>7, <3>1, <3>3 DEF IInv, FullInv, TargetInv, Final
    <3>5. QED
      BY <2>4, <2>5, <3>3, <3>4
  <2>8. QED
    BY <2>6, <2>7
<1>2. QED
  BY <1>1, BackupInvariant, PTL
=============================================================================
