-------------------------------- MODULE Backup --------------------------------
(***************************************************************************)
(* tools/backuptool: what an operator does to move a system, as its README *)
(* says.  A full backup while BTrDB is running, then BTrDB is shut down, an *)
(* incremental backup over the full one, and both are restored, in this    *)
(* order, to a target that was cleared.                                    *)
(*                                                                         *)
(* In a backup one goroutine lists the objects, workers stat and read them, *)
(* and the main goroutine writes what they read to the archive.  Every     *)
(* error ends the program; the operator starts it again with a new output  *)
(* directory.                                                              *)
(*                                                                         *)
(* An object has a content, which may be empty, and attributes (its xattrs *)
(* and omap).  Every write is at a tick of a clock of its own; but what    *)
(* Ceph tells of the time of an object is its second, and the program sees *)
(* no more than that.                                                      *)
(***************************************************************************)
EXTENDS Integers, Sequences

CONSTANTS Objects, Workers,
          Values,       \* what an object may hold: a function to sets of records
          TodoLen, ToWriteLen,  \* the capacities of the channels
          TicksPerSecond,       \* how many writes there may be in a second
          Empty, Garbage, None,
          Scenarios     \* the objects at first, and bounds on what may happen

Kinds == {"changes", "removals", "crashes", "listerrors"}

\* An object either has a content, which never becomes empty, or has none.
Filled(o) == \E v \in Values[o] : v.data # Empty

Contents == {Empty, Garbage} \cup UNION {{v.data : v \in Values[o]} : o \in Objects}
AttrSets == {{}} \cup UNION {{v.attrs : v \in Values[o]} : o \in Objects}

\* What an object holds, the same with its time, and with the worker that read it.
Value == [data : Contents, attrs : AttrSets]
Object == [data : Contents, attrs : AttrSets, mtime : Nat]
Carried == [by : Workers, oid : Objects, data : Contents, attrs : AttrSets]

ASSUME CapacitiesAssumption == TodoLen \in Nat \ {0} /\ ToWriteLen \in Nat \ {0}
ASSUME TicksAssumption == TicksPerSecond \in Nat \ {0}
ASSUME ValuesAssumption ==
    \A o \in Objects : \A v \in Values[o] : v \in Value /\ (v.data = Empty <=> ~Filled(o))
ASSUME NoneAssumption ==
    /\ None \notin Nat \cup Objects \cup Object \cup Carried
    /\ None \notin [data : Contents, attrs : SUBSET UNION AttrSets]
ASSUME GarbageAssumption ==
    Garbage # Empty /\ \A o \in Objects : \A v \in Values[o] : v.data # Garbage
ASSUME ScenariosAssumption ==
    \A s \in Scenarios : /\ \A k \in Kinds : s[k] \in Nat
                         /\ \A o \in Objects : s.objects[o] \in Values[o] \cup {None}

VARIABLES bounds, used,
          ceph, clock,  \* the objects of the running system, with their times
          phase,
          lister,       \* the goroutine that lists objects
          todo, towrite, \* the two channels
          worker, writer, \* the workers, and the record the main goroutine writes
          stamps,       \* gtimestamps
          archive,      \* the containers in the archive files
          full, incr,   \* the two finished backups
          left, target  \* containers to be restored, objects of the target

channels == <<lister, todo, towrite, worker, writer>>
output   == <<stamps, archive>>
backups  == <<full, incr>>
restore  == <<left, target>>
vars == <<bounds, used, ceph, clock, phase, channels, output, backups, restore>>

Nothing == [o \in Objects |-> None]
Existing == {o \in Objects : ceph[o] # None}
Second(tick) == tick \div TicksPerSecond
Holding(v, time) == [data |-> v.data, attrs |-> v.attrs, mtime |-> time]

Idle == [pc |-> "idle", oid |-> None, data |-> Empty, attrs |-> {}]

Use(kind) ==
    /\ used[kind] < bounds[kind]
    /\ used' = [used EXCEPT ![kind] = @ + 1]

Off == [on |-> FALSE, listed |-> {}, owed |-> {}]

Init ==
    /\ bounds \in Scenarios
    /\ used = [k \in Kinds |-> 0]
    /\ clock = TicksPerSecond
    /\ ceph = [o \in Objects |-> IF bounds.objects[o] = None THEN None
                                 ELSE Holding(bounds.objects[o], clock)]
    /\ phase = "full"
    /\ lister = [on |-> TRUE, listed |-> {}, owed |-> Existing]
    /\ todo = <<>> /\ towrite = <<>>
    /\ worker = [w \in Workers |-> Idle] /\ writer = None
    /\ stamps = Nothing /\ archive = {}
    /\ full = None /\ incr = None
    /\ left = {} /\ target = Nothing

-----------------------------------------------------------------------------
(* BTrDB, while it runs. *)

\* A write, in the second of the last one or in the next.
Change(o) ==
    /\ phase \in {"full", "live"} /\ Use("changes")
    /\ \E v \in Values[o], tick \in {clock + 1, (Second(clock) + 1) * TicksPerSecond} :
          /\ ceph[o] # None => Holding(v, ceph[o].mtime) # ceph[o]
          /\ ceph' = [ceph EXCEPT ![o] = Holding(v, tick)]
          /\ clock' = tick
    /\ UNCHANGED <<bounds, phase, channels, output, backups, restore>>

Delete(o) ==
    /\ phase \in {"full", "live"} /\ ceph[o] # None /\ Use("removals")
    /\ ceph' = [ceph EXCEPT ![o] = None]
    /\ lister' = [lister EXCEPT !.owed = @ \ {o}]
    /\ UNCHANGED <<bounds, clock, phase, todo, towrite, worker, writer, output, backups,
                   restore>>

-----------------------------------------------------------------------------
(* Create.  A backup that was ended by an error is started again. *)

Running == phase \in {"full", "incr"}

Begin ==
    /\ lister' = [on |-> TRUE, listed |-> {}, owed |-> Existing]
    /\ todo' = <<>> /\ towrite' = <<>>
    /\ worker' = [w \in Workers |-> Idle] /\ writer' = None
    /\ stamps' = Nothing /\ archive' = {}

\* Mutant: an object may be listed twice.
ListAgain ==
    /\ lister.on /\ Len(todo) < TodoLen
    /\ \E o \in Existing :
          /\ todo' = Append(todo, o)
          /\ lister' = [lister EXCEPT !.listed = @ \cup {o}]
    /\ UNCHANGED <<bounds, used, ceph, clock, phase, towrite, worker, writer, output, backups,
                   restore>>

\* The iterator returns what has been there all the time, and may return what
\* comes or goes.
List ==
    /\ lister.on /\ Len(todo) < TodoLen
    /\ \E o \in Existing \ lister.listed :
          /\ todo' = Append(todo, o)
          /\ lister' = [lister EXCEPT !.listed = @ \cup {o}]
    /\ UNCHANGED <<bounds, used, ceph, clock, phase, towrite, worker, writer, output, backups,
                   restore>>

\* Mutant: todo is not closed.
EndListOpen == FALSE /\ UNCHANGED vars

\* The end of the iterator.  Where an error ends it nobody looks at the error.
EndList ==
    /\ lister.on
    /\ IF lister.owed \subseteq lister.listed THEN UNCHANGED used ELSE Use("listerrors")
    /\ lister' = Off
    /\ UNCHANGED <<bounds, ceph, clock, phase, todo, towrite, worker, writer, output, backups,
                   restore>>

\* The full backup has noted the time that the object has now.
SameSecond(o) ==
    full.stamps[o] # None /\ Second(full.stamps[o]) = Second(ceph[o].mtime)

Unchanged(o) == phase = "incr" /\ SameSecond(o)

\* A worker takes an object and looks at its time, before anything else of it.
\* The metadata has the second of what is noted here.
Stat(w) ==
    /\ Running /\ worker[w].pc = "idle" /\ todo # <<>>
    /\ LET o == Head(todo) IN
       \/ /\ ceph[o] = None
          /\ Begin
       \/ /\ ceph[o] # None
          /\ todo' = Tail(todo)
          /\ IF Unchanged(o)
             THEN UNCHANGED <<stamps, worker>>
             ELSE /\ stamps' = [stamps EXCEPT ![o] = ceph[o].mtime]
                  /\ worker' = [worker EXCEPT ![w].pc = "read", ![w].oid = o]
          /\ UNCHANGED <<lister, towrite, writer, archive>>
    /\ UNCHANGED <<bounds, used, ceph, clock, phase, backups, restore>>

\* A container whose content is in the buffer of worker w, after w has read data.
Clobbered(c, w, data) ==
    IF c.by = w /\ c.data # Empty /\ data \notin {Empty, c.data}
    THEN [c EXCEPT !.data = Garbage]
    ELSE c

\* A worker has one buffer.  The containers that it queued before and that are
\* not written yet still point to it.
Read(w) ==
    /\ worker[w].pc = "read"
    /\ LET o == worker[w].oid IN
       \/ /\ ceph[o] = None
          /\ Begin
       \/ /\ ceph[o] # None
          /\ worker' = [worker EXCEPT ![w].pc = "attrs", ![w].data = ceph[o].data]
          /\ towrite' = [i \in DOMAIN towrite |-> Clobbered(towrite[i], w, ceph[o].data)]
          /\ writer' = IF writer = None THEN None ELSE Clobbered(writer, w, ceph[o].data)
          /\ UNCHANGED <<lister, todo, output>>
    /\ UNCHANGED <<bounds, used, ceph, clock, phase, backups, restore>>

\* Mutant: the time is looked at last.
ReadAttrsStats(w) ==
    /\ worker[w].pc = "attrs"
    /\ LET o == worker[w].oid IN
       \/ /\ ceph[o] = None
          /\ Begin
       \/ /\ ceph[o] # None
          /\ worker' = [worker EXCEPT ![w].pc = "send", ![w].attrs = ceph[o].attrs]
          /\ stamps' = [stamps EXCEPT ![o] = ceph[o].mtime]
          /\ UNCHANGED <<lister, todo, towrite, writer, archive>>
    /\ UNCHANGED <<bounds, used, ceph, clock, phase, backups, restore>>

\* ListXattrs and GetAllOmapValues.
ReadAttrs(w) ==
    /\ worker[w].pc = "attrs"
    /\ LET o == worker[w].oid IN
       \/ /\ ceph[o] = None
          /\ Begin
       \/ /\ ceph[o] # None
          /\ worker' = [worker EXCEPT ![w].pc = "send", ![w].attrs = ceph[o].attrs]
          /\ UNCHANGED <<lister, todo, towrite, writer, output>>
    /\ UNCHANGED <<bounds, used, ceph, clock, phase, backups, restore>>

Send(w) ==
    /\ worker[w].pc = "send" /\ Len(towrite) < ToWriteLen
    /\ towrite' = Append(towrite, [by |-> w, oid |-> worker[w].oid,
                                   data |-> worker[w].data, attrs |-> worker[w].attrs])
    /\ worker' = [worker EXCEPT ![w] = Idle]
    /\ UNCHANGED <<bounds, used, ceph, clock, phase, lister, todo, writer, output, backups,
                   restore>>

Receive ==
    /\ writer = None /\ towrite # <<>>
    /\ writer' = Head(towrite) /\ towrite' = Tail(towrite)
    /\ UNCHANGED <<bounds, used, ceph, clock, phase, lister, todo, worker, output, backups,
                   restore>>

\* The content is what the buffer holds now.
Write ==
    /\ writer # None
    /\ archive' = archive \cup {[oid |-> writer.oid, data |-> writer.data,
                                 attrs |-> writer.attrs]}
    /\ writer' = None
    /\ UNCHANGED <<bounds, used, ceph, clock, phase, lister, todo, towrite, worker, stamps,
                   backups, restore>>

\* Mutant: nobody waits for the workers.
WriteManifestEarly ==
    /\ Running /\ ~lister.on /\ todo = <<>>
    /\ towrite = <<>> /\ writer = None
    /\ \/ /\ phase = "full" /\ phase' = "live"
          /\ full' = [stamps |-> stamps, archive |-> archive]
          /\ UNCHANGED <<incr, left>>
       \/ /\ phase = "incr" /\ phase' = "restore full"
          /\ incr' = [stamps |-> stamps, archive |-> archive]
          /\ left' = full.archive
          /\ UNCHANGED full
    /\ stamps' = Nothing /\ archive' = {}
    /\ UNCHANGED <<bounds, used, ceph, clock, channels, target>>

\* Both channels are closed and empty: the metadata is written.
WriteManifest ==
    /\ Running /\ ~lister.on /\ todo = <<>>
    /\ \A w \in Workers : worker[w].pc = "idle"
    /\ towrite = <<>> /\ writer = None
    /\ \/ /\ phase = "full" /\ phase' = "live"
          /\ full' = [stamps |-> stamps, archive |-> archive]
          /\ UNCHANGED <<incr, left>>
       \/ /\ phase = "incr" /\ phase' = "restore full"
          /\ incr' = [stamps |-> stamps, archive |-> archive]
          /\ left' = full.archive
          /\ UNCHANGED full
    /\ stamps' = Nothing /\ archive' = {}
    /\ UNCHANGED <<bounds, used, ceph, clock, channels, target>>

\* Ctrl-C, or an error of Ceph.
Crash ==
    /\ Running /\ Use("crashes")
    /\ Begin
    /\ UNCHANGED <<bounds, ceph, clock, phase, backups, restore>>

\* BTrDB is shut down, and the incremental backup is started.
ShutDown ==
    /\ phase = "live" /\ phase' = "incr"
    /\ Begin
    /\ UNCHANGED <<bounds, used, ceph, clock, backups, restore>>

-----------------------------------------------------------------------------
(* Restore. *)

\* An object of the target after a container was restored.  A content that is
\* empty is not written, and attributes are only added.
Restored(old, c) ==
    LET exists == old # None \/ c.data # Empty \/ c.attrs # {} IN
    IF ~exists THEN None
    ELSE [data |-> IF c.data # Empty \/ old = None THEN c.data ELSE old.data,
          attrs |-> c.attrs \cup (IF old = None THEN {} ELSE old.attrs)]

RestoreObject ==
    /\ \E c \in left :
          /\ target' = [target EXCEPT ![c.oid] = Restored(@, c)]
          /\ left' = left \ {c}
    /\ UNCHANGED <<bounds, used, ceph, clock, phase, channels, output, backups>>

RestoreDone ==
    /\ left = {}
    /\ \/ /\ phase = "restore full" /\ phase' = "restore incr"
          /\ left' = incr.archive
       \/ /\ phase = "restore incr" /\ phase' = "done"
          /\ UNCHANGED left
    /\ UNCHANGED <<bounds, used, ceph, clock, channels, output, backups, target>>

\* The restore was ended by an error, and is started again.
RestoreAgain ==
    /\ left # {} /\ Use("crashes")
    /\ left' = IF phase = "restore full" THEN full.archive ELSE incr.archive
    /\ UNCHANGED <<bounds, ceph, clock, phase, channels, output, backups, target>>

-----------------------------------------------------------------------------
BTrDB == \E o \in Objects : Change(o) \/ Delete(o)

Lister == List \/ EndList

Worker(w) == Stat(w) \/ Read(w) \/ ReadAttrs(w) \/ Send(w)

Main == Receive \/ Write \/ WriteManifest

Restore == RestoreObject \/ RestoreDone

Next ==
    \/ BTrDB
    \/ Lister \/ (\E w \in Workers : Worker(w)) \/ Main
    \/ ShutDown \/ Restore
    \/ Crash \/ RestoreAgain

\* The goroutines run; the operator does what the README says.
Fairness ==
    /\ WF_vars(Lister) /\ WF_vars(Main)
    /\ \A w \in Workers : WF_vars(Worker(w))
    /\ WF_vars(ShutDown) /\ WF_vars(Restore)

Spec == Init /\ [][Next]_vars /\ Fairness

-----------------------------------------------------------------------------
(* Properties. *)

Containers ==
    {c \in [oid : Objects, data : Contents, attrs : AttrSets] :
        c.data = Empty <=> ~Filled(c.oid)}

Stamps == [Objects -> 1..clock \cup {None}]
Backups == [stamps : Stamps, archive : SUBSET Containers]

SystemOK ==
    /\ bounds \in Scenarios /\ used \in [Kinds -> Nat]
    /\ clock \in Nat \ {0}
    /\ ceph \in [Objects -> Object \cup {None}]
    /\ \A o \in Existing : /\ ceph[o].mtime \in 1..clock
                          /\ [data |-> ceph[o].data, attrs |-> ceph[o].attrs] \in Values[o]
    /\ phase \in {"full", "live", "incr", "restore full", "restore incr", "done"}

GoroutinesOK ==
    /\ lister \in [on : BOOLEAN, listed : SUBSET Objects, owed : SUBSET Objects]
    /\ lister.on => Running
    /\ todo \in Seq(Objects) /\ Len(todo) <= TodoLen
    /\ towrite \in Seq(Carried) /\ Len(towrite) <= ToWriteLen
    /\ worker \in [Workers -> [pc : {"idle", "read", "attrs", "send"},
                               oid : Objects \cup {None},
                               data : Contents, attrs : AttrSets]]
    /\ \A w \in Workers : worker[w].oid = None <=> worker[w].pc = "idle"
    /\ writer \in Carried \cup {None}

BackupsOK ==
    /\ stamps \in Stamps
    /\ archive \subseteq Containers
    /\ \A c, e \in archive : c.oid = e.oid => c = e
    /\ phase = "full" \/ full \in Backups
    /\ phase \in {"full", "live", "incr"} \/ incr \in Backups
    /\ left \subseteq Containers
    /\ target \in [Objects -> [data : Contents, attrs : SUBSET UNION AttrSets] \cup {None}]

\* An archive has an object once: the iterator returns it once, and one worker
\* takes it.
TypeOK == SystemOK /\ GoroutinesOK /\ BackupsOK

\* A backup that has its metadata is complete: every object of the metadata, of
\* which an incremental backup will leave out what did not change, is in the
\* archive.  No object is in flight when the metadata is written.
MetadataMeansArchived ==
    \A b \in {full, incr} \ {None} :
       \A o \in Objects : b.stamps[o] # None => \E c \in b.archive : c.oid = o

\* "To restore, first process the full backup, and then the incremental backup":
\* the target then has every object of the system that was shut down, with what
\* it held, however the objects changed and came and went during the full
\* backup.  Four things are set apart: a content lost in a worker's buffer (see
\* ContentIsReal), a listing cut short by an error, attributes that were
\* removed, which come back, and an object that was written last in the very
\* second that the full backup had noted, which the incremental one leaves out.
RestoredIsFinal ==
    phase = "done" /\ used["listerrors"] = 0 =>
       \A o \in Existing :
          /\ ceph[o].data # Empty \/ ceph[o].attrs # {}
          /\ SameSecond(o) => full.stamps[o] = ceph[o].mtime
          => /\ target[o] # None
             /\ target[o].data \in {ceph[o].data, Garbage}
             /\ ceph[o].attrs \subseteq target[o].attrs

\* The procedure comes to its end: no goroutine of a backup waits for ever at a
\* channel, though objects come and go under it.
Ends == <>(phase = "done")

\* "get real content" (process.go:188): what a backup of a system that does not
\* change says of an object is what the object holds.
ContentIsReal ==
    used["changes"] = 0 /\ used["removals"] = 0 /\ full # None =>
       \A c \in full.archive : c.data = ceph[c.oid].data
===============================================================================
