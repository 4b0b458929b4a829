----------------------------- MODULE Gen2Inserter -----------------------------
(***************************************************************************)
(* tools/gen2ingress: the inserter that all devices of a daemon share.     *)
(* The devices' goroutines offer batches of records; a count of bytes      *)
(* bounds what is accepted.  Workers take records from the queue, collect  *)
(* them by stream, and insert what they have when the queue is empty or    *)
(* some time has passed.  Any error of BTrDB but those of an insert or of  *)
(* setting annotations panics, which ends the process.                     *)
(*                                                                         *)
(* A key is a collection, a name and a unit.  Streams are looked up by     *)
(* collection and name alone, so keys may share one; it is named by the    *)
(* key that it was created for.  A record that comes with annotations has  *)
(* annotated set, and the annotations are named by its id.                 *)
(***************************************************************************)
EXTENDS Integers, Sequences, SequencesExt, FiniteSetsExt

CONSTANTS Devs, Workers, Keys,
          Name,         \* the collection and name in a key
          MaxSize,      \* WORK_QUEUE_LENGTH
          None,
          Scenarios     \* offers: the batches of each device; faults of each kind

Kinds == {"crashes", "edits", "faults"}

Record == [id : Nat, key : Keys, points : Nat, annotated : BOOLEAN]

\* An empty batch is accepted and changes nothing.
Batch == Seq(Record) \ {<<>>}

\* Every record that is offered has an id of its own.
Numbered(offers) ==
    \A d, e \in Devs : \A i \in DOMAIN offers[d], j \in DOMAIN offers[e] :
       \A m \in DOMAIN offers[d][i], n \in DOMAIN offers[e][j] :
          offers[d][i][m].id = offers[e][j][n].id => d = e /\ i = j /\ m = n

ASSUME DevsAssumption == IsFiniteSet(Devs) /\ Devs # {}
ASSUME NoneAssumption == None \notin Keys \cup Workers \cup Nat /\ None \notin Record
\* With less than that, which no record of a point fits in, the channel would
\* have no buffer.
ASSUME MaxSizeAssumption == MaxSize \in Nat /\ MaxSize >= 116
ASSUME ScenariosAssumption ==
    \A s \in Scenarios : /\ \A k \in Kinds : s[k] \in Nat
                         /\ \A d \in Devs : s.offers[d] \in Seq(Batch)
                         /\ Numbered(s.offers)

VARIABLES bounds, used,
          producer,     \* the call of ProcessBatch in each device's goroutine
          workq, curSize,
          worker,       \* each worker: its place, its locals ir and buf
          anns,         \* each worker: annotations that it has still to set
          mu, cache,    \* cachemu and streamcache
          streams,      \* BTrDB: the streams that exist
          version,      \* BTrDB: the version of a stream's annotations
          stored,       \* BTrDB: the records inserted, with their streams
          lost,         \* records dropped, empty, refused, or lost in a crash
          settled       \* annotations set, or replaced by newer ones before

queue == <<producer, workq, curSize>>
work  == <<worker, anns, mu, cache>>
btrdb == <<streams, version, stored>>
vars  == <<bounds, used, queue, work, btrdb, lost, settled>>

Size(r) == r.points * 16 + 100

BatchSize(b) == MapThenSumSet(Size, ToSet(b))

Capacity == MaxSize \div 116

Idle == [pc |-> "top", ir |-> None, buf |-> {}, at |-> None, ver |-> 0]

Ids(records) == {r.id : r \in records}

Use(kind) ==
    /\ used[kind] < bounds[kind]
    /\ used' = [used EXCEPT ![kind] = @ + 1]

NoAnns == [w \in Workers |-> [k \in Keys |-> None]]
NoCache == [k \in Keys |-> None]

Init ==
    /\ bounds \in Scenarios
    /\ used = [k \in Kinds |-> 0]
    /\ producer = [d \in Devs |-> [pc |-> "idle", batch |-> <<>>, todo |-> bounds.offers[d]]]
    /\ workq = <<>> /\ curSize = 0
    /\ worker = [w \in Workers |-> Idle] /\ anns = NoAnns
    /\ mu = None /\ cache = NoCache
    /\ streams = {} /\ version = [k \in Keys |-> 0] /\ stored = {}
    /\ lost = {} /\ settled = {}

-----------------------------------------------------------------------------
(* ProcessBatch, in the goroutine of a device. *)

\* Mutant: the size of the batch itself is not counted.
OfferIgnoresBatch(d) ==
    /\ producer[d].pc = "idle" /\ producer[d].todo # <<>>
    /\ LET b == Head(producer[d].todo)
           fits == curSize < MaxSize
       IN  /\ producer' = [producer EXCEPT ![d] =
                              [pc |-> IF fits THEN "add" ELSE "idle",
                               batch |-> IF fits THEN b ELSE <<>>,
                               todo |-> Tail(@.todo)]]
           /\ lost' = IF fits THEN lost ELSE lost \cup Ids(ToSet(b))
    /\ UNCHANGED <<bounds, used, workq, curSize, work, btrdb, settled>>

\* The count is loaded and compared: the batch is dropped or will be queued.
Offer(d) ==
    /\ producer[d].pc = "idle" /\ producer[d].todo # <<>>
    /\ LET b == Head(producer[d].todo)
           fits == curSize + BatchSize(b) < MaxSize
       IN  /\ producer' = [producer EXCEPT ![d] =
                              [pc |-> IF fits THEN "add" ELSE "idle",
                               batch |-> IF fits THEN b ELSE <<>>,
                               todo |-> Tail(@.todo)]]
           /\ lost' = IF fits THEN lost ELSE lost \cup Ids(ToSet(b))
    /\ UNCHANGED <<bounds, used, workq, curSize, work, btrdb, settled>>


\* Mutant: only the first record of a batch is added to the count.
AddFirst(d) ==
    /\ producer[d].pc = "add"
    /\ curSize' = curSize + Size(producer[d].batch[1])
    /\ producer' = [producer EXCEPT ![d].pc = "send"]
    /\ UNCHANGED <<bounds, used, workq, work, btrdb, lost, settled>>

Add(d) ==
    /\ producer[d].pc = "add"
    /\ curSize' = curSize + BatchSize(producer[d].batch)
    /\ producer' = [producer EXCEPT ![d].pc = "send"]
    /\ UNCHANGED <<bounds, used, workq, work, btrdb, lost, settled>>

\* One record is sent to the channel, which blocks when it is full.
Send(d) ==
    /\ producer[d].pc = "send"
    /\ Len(workq) < Capacity
    /\ LET b == producer[d].batch IN
       /\ workq' = Append(workq, Head(b))
       /\ producer' = [producer EXCEPT ![d].batch = Tail(b),
                                       ![d].pc = IF Len(b) = 1 THEN "idle" ELSE "send"]
    /\ UNCHANGED <<bounds, used, curSize, work, btrdb, lost, settled>>

-----------------------------------------------------------------------------
(* The workers. *)

Goto(w, pc) == worker' = [worker EXCEPT ![w].pc = pc]

Take(w) ==
    /\ worker[w].pc = "top" /\ workq # <<>>
    /\ worker' = [worker EXCEPT ![w].pc = "took", ![w].ir = Head(workq)]
    /\ workq' = Tail(workq)
    /\ UNCHANGED <<bounds, used, producer, curSize, anns, mu, cache, btrdb, lost, settled>>


\* Mutant: the buffer is flushed by time only.
FlushNever(w) == FALSE /\ UNCHANGED vars

\* "Opportunistically flush the buffer if there is no work to be done"
FlushIdle(w) ==
    /\ worker[w].pc = "top" /\ workq = <<>> /\ worker[w].buf # {}
    /\ Goto(w, "flush")
    /\ UNCHANGED <<bounds, used, queue, anns, mu, cache, btrdb, lost, settled>>


\* The record leaves the count and goes to the buffer, unless it has no data.
\* The buffer is flushed then if the coalescing interval is over.
Collect(w) ==
    LET r == worker[w].ir
        old == anns[w][r.key]
    IN
    /\ worker[w].pc = "took"
    /\ curSize' = curSize - Size(r)
    /\ IF r.points = 0
       THEN /\ worker' = [worker EXCEPT ![w].pc = "top", ![w].ir = None]
            /\ lost' = lost \cup {r.id}
            /\ UNCHANGED <<anns, settled>>
       ELSE /\ \E pc \in {"top", "flush"} :
                  worker' = [worker EXCEPT ![w].pc = pc, ![w].ir = None,
                                           ![w].buf = @ \cup {r}]
            /\ anns' = IF r.annotated THEN [anns EXCEPT ![w][r.key] = r.id] ELSE anns
            /\ settled' = IF r.annotated THEN settled \cup ({old} \ {None}) ELSE settled
            /\ UNCHANGED lost
    /\ UNCHANGED <<bounds, used, producer, workq, mu, cache, btrdb>>

\* The next stream of the buffer, under cachemu.
Lock(w) ==
    /\ worker[w].pc = "flush" /\ mu = None
    /\ \E r \in worker[w].buf :
          /\ worker' = [worker EXCEPT ![w].at = r.key,
                           ![w].pc = IF cache[r.key] = None THEN "lookup" ELSE "annotate"]
          /\ mu' = IF cache[r.key] = None THEN w ELSE None
    /\ UNCHANGED <<bounds, used, queue, anns, cache, btrdb, lost, settled>>


\* Mutant: cachemu is released before the stream is created.
LookupUnlocks(w) ==
    LET k == worker[w].at
        found == {s \in streams : Name[s] = Name[k]}
    IN
    /\ worker[w].pc = "lookup"
    /\ mu' = None
    /\ IF found = {}
       THEN Goto(w, "create") /\ UNCHANGED cache
       ELSE /\ \E s \in found : cache' = [cache EXCEPT ![k] = s]
            /\ Goto(w, "annotate")
    /\ UNCHANGED <<bounds, used, queue, anns, btrdb, lost, settled>>

Lookup(w) ==
    LET k == worker[w].at
        found == {s \in streams : Name[s] = Name[k]}
    IN
    /\ worker[w].pc = "lookup"
    /\ IF found = {}
       THEN Goto(w, "create") /\ UNCHANGED <<mu, cache>>
       ELSE /\ \E s \in found : cache' = [cache EXCEPT ![k] = s]
            /\ mu' = None
            /\ Goto(w, "annotate")
    /\ UNCHANGED <<bounds, used, queue, anns, btrdb, lost, settled>>

Create(w) ==
    LET k == worker[w].at IN
    /\ worker[w].pc = "create"
    /\ streams' = streams \cup {k}
    /\ cache' = [cache EXCEPT ![k] = k]
    /\ mu' = None
    /\ Goto(w, "annotate")
    /\ UNCHANGED <<bounds, used, queue, anns, version, stored, lost, settled>>

\* The version of the annotations is fetched, if there are some to set.
Annotate(w) ==
    LET k == worker[w].at IN
    /\ worker[w].pc = "annotate"
    /\ worker' = [worker EXCEPT ![w].pc = IF anns[w][k] = None THEN "insert" ELSE "set",
                                ![w].ver = version[cache[k]]]
    /\ UNCHANGED <<bounds, used, queue, anns, mu, cache, btrdb, lost, settled>>


\* Mutant: annotations that could not be set are forgotten.
SetAnnotationsOnce(w) ==
    LET k == worker[w].at
        s == cache[k]
    IN
    /\ worker[w].pc = "set"
    /\ IF version[s] = worker[w].ver
       THEN /\ version' = [version EXCEPT ![s] = @ + 1]
            /\ settled' = settled \cup {anns[w][k]}
       ELSE UNCHANGED <<version, settled>>
    /\ anns' = [anns EXCEPT ![w][k] = None]
    /\ Goto(w, "insert")
    /\ UNCHANGED <<bounds, used, queue, mu, cache, streams, stored, lost>>

\* CompareAndSetAnnotation.  Where the version has changed, or BTrDB refuses,
\* the annotations are kept for the next flush.
SetAnnotations(w) ==
    LET k == worker[w].at
        s == cache[k]
    IN
    /\ worker[w].pc = "set"
    /\ \/ /\ version[s] = worker[w].ver
          /\ version' = [version EXCEPT ![s] = @ + 1]
          /\ settled' = settled \cup {anns[w][k]}
          /\ anns' = [anns EXCEPT ![w][k] = None]
          /\ UNCHANGED used
       \/ /\ IF version[s] = worker[w].ver THEN Use("faults") ELSE UNCHANGED used
          /\ UNCHANGED <<version, settled, anns>>
    /\ Goto(w, "insert")
    /\ UNCHANGED <<bounds, queue, mu, cache, streams, stored, lost>>


\* Mutant: the buffer is made anew after the first stream.
InsertClears(w) ==
    LET k == worker[w].at
        dat == {r \in worker[w].buf : r.key = k}
    IN
    /\ worker[w].pc = "insert"
    /\ stored' = stored \cup (Ids(dat) \X {cache[k]})
    /\ worker' = [worker EXCEPT ![w] = Idle]
    /\ UNCHANGED <<bounds, used, queue, anns, mu, cache, streams, version, lost, settled>>

\* The data of the stream is inserted; an error is printed and ignored.
Insert(w) ==
    LET k == worker[w].at
        dat == {r \in worker[w].buf : r.key = k}
        rest == worker[w].buf \ dat
    IN
    /\ worker[w].pc = "insert"
    /\ \/ /\ stored' = stored \cup (Ids(dat) \X {cache[k]})
          /\ UNCHANGED <<used, lost>>
       \/ /\ Use("faults")
          /\ lost' = lost \cup Ids(dat)
          /\ UNCHANGED stored
    /\ worker' = [worker EXCEPT ![w] =
                     [Idle EXCEPT !.buf = rest,
                                  !.pc = IF rest = {} THEN "top" ELSE "flush"]]
    /\ UNCHANGED <<bounds, queue, anns, mu, cache, streams, version, settled>>

-----------------------------------------------------------------------------
\* Somebody else changes the annotations of a stream.
EditAnnotations(s) ==
    /\ s \in streams
    /\ Use("edits")
    /\ version' = [version EXCEPT ![s] = @ + 1]
    /\ UNCHANGED <<bounds, queue, work, streams, stored, lost, settled>>

\* The records in the process, wherever they are.
Pending == UNION {ToSet(producer[d].batch) : d \in Devs}
Taken == {worker[w].ir : w \in Workers} \ {None}
Buffered == UNION {worker[w].buf : w \in Workers}
InProcess == Ids(Pending \cup ToSet(workq) \cup Taken \cup Buffered)

\* A panic, or the end of the pod.  It starts again with nothing.
Crash ==
    /\ Use("crashes")
    /\ lost' = lost \cup InProcess
    /\ producer' = [d \in Devs |-> [producer[d] EXCEPT !.pc = "idle", !.batch = <<>>]]
    /\ workq' = <<>> /\ curSize' = 0
    /\ worker' = [w \in Workers |-> Idle] /\ anns' = NoAnns
    /\ mu' = None /\ cache' = NoCache
    /\ UNCHANGED <<bounds, btrdb, settled>>

ProcessBatch(d) == Offer(d) \/ Add(d) \/ Send(d)

FlushBuf(w) ==
    Lock(w) \/ Lookup(w) \/ Create(w) \/ Annotate(w) \/ SetAnnotations(w) \/ Insert(w)

Work(w) == Take(w) \/ FlushIdle(w) \/ Collect(w) \/ FlushBuf(w)

Next ==
    \/ \E d \in Devs : ProcessBatch(d)
    \/ \E w \in Workers : Work(w)
    \/ \E s \in Keys : EditAnnotations(s)
    \/ Crash

\* The goroutines run.  A device need not have anything to offer.
Fairness ==
    /\ \A d \in Devs : WF_vars(Add(d) \/ Send(d))
    /\ \A w \in Workers : WF_vars(Work(w))

Spec == Init /\ [][Next]_vars /\ Fairness

-----------------------------------------------------------------------------
(* Properties. *)

Offered == UNION {UNION {ToSet(bounds.offers[d][i]) : i \in DOMAIN bounds.offers[d]} : d \in Devs}
Waiting == UNION {UNION {ToSet(b) : b \in ToSet(producer[d].todo)} : d \in Devs}
Stored == {x[1] : x \in stored}

TypeOK ==
    /\ bounds \in Scenarios /\ used \in [Kinds -> Nat]
    /\ \A d \in Devs : /\ producer[d].pc \in {"idle", "add", "send"}
                       /\ producer[d].batch = <<>> <=> producer[d].pc = "idle"
    /\ ToSet(workq) \subseteq Offered /\ Len(workq) <= Capacity
    /\ curSize \in Nat
    /\ \A w \in Workers :
          /\ worker[w].pc \in {"top", "took", "flush", "lookup", "create", "annotate",
                               "set", "insert"}
          /\ worker[w].ir \in Offered \cup {None} /\ worker[w].buf \subseteq Offered
          /\ worker[w].at \in Keys \cup {None} /\ worker[w].ver \in Nat
    /\ anns \in [Workers -> [Keys -> Ids(Offered) \cup {None}]]
    /\ mu \in Workers \cup {None}
    /\ cache \in [Keys -> streams \cup {None}] /\ streams \subseteq Keys
    /\ version \in [Keys -> Nat]
    /\ stored \subseteq Ids(Offered) \X streams
    /\ lost \subseteq Ids(Offered) /\ settled \subseteq Ids(Offered)

\* The bytes that are accepted and not yet in a worker's buffer.
CountIsQueue ==
    curSize = MapThenSumSet(Size,
        (UNION {ToSet(producer[d].batch) : d \in {e \in Devs : producer[e].pc = "send"}})
        \cup ToSet(workq)
        \cup {worker[w].ir : w \in {v \in Workers : worker[v].pc = "took"}})

\* curSize is what its name says, however the loads, additions and subtractions
\* of the devices and workers fall.  The devices test the count and add to it in
\* two steps, so together they can pass the bound that each of them keeps, but
\* by no more than a batch of each of the others: the queue of a daemon that
\* falls behind does not grow (btrdbconn.go, ProcessBatch and worker).
QueueBounded ==
    /\ CountIsQueue
    /\ curSize < MaxSize + (Cardinality(Devs) - 1)
                           * Max({0} \cup {BatchSize(b) : b \in UNION {ToSet(bounds.offers[d]) :
                                                                     d \in Devs}})

\* A record is with its device, in the process, in BTrDB, or lost in one of the
\* ways the code prints or a crash: it disappears nowhere else, and is in two
\* places never.
EveryRecordAccounted ==
    /\ Ids(Offered) = Ids(Waiting) \cup InProcess \cup Stored \cup lost
    /\ Cardinality(Offered) = Cardinality(Waiting) + Cardinality(Pending) + Len(workq)
                              + Cardinality(Taken) + Cardinality(Buffered)
                              + Cardinality(Stored) + Cardinality(lost)

\* The records of a collection and name are in one stream, whichever worker
\* comes to them first and whatever unit they come with: lookup and creation
\* are one under cachemu.
OneStream == \A s, t \in streams : Name[s] = Name[t] => s = t

\* Annotations that arrived with data that is inserted are not forgotten when
\* somebody else has changed the stream's annotations meanwhile: they are set,
\* replaced by newer ones, or still kept by a worker.
AnnotationKept ==
    used["crashes"] = 0 =>
       \A r \in Offered :
          r.annotated /\ r.id \in Stored =>
             r.id \in settled \/ \E w \in Workers : anns[w][r.key] = r.id

\* What is accepted leaves the process: no device stays blocked at the channel,
\* no worker at the mutex, and no record in a buffer until more data come.
Drains == []<>(InProcess = {})
===============================================================================
