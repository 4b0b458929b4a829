-------------------------------- MODULE C37Pmu --------------------------------
(***************************************************************************)
(* tools/c37ingress: the connection to one C37.118 device.  dialloop dials, *)
(* asks for the configuration and for data, and reads frames until an      *)
(* error; data frames go to a bounded queue per id code, from which the    *)
(* process loop takes batches and hands them to the inserter's worker.     *)
(*                                                                         *)
(* The device configures an id code on a connection before it sends data.  *)
(* A data frame is its id code, its number, the version of configuration   *)
(* that the device encoded it with, whether it has values to be dropped,   *)
(* and whether the device's present configuration of the id code has been  *)
(* sent whole on the same connection; as is the version it was decoded     *)
(* with.                                                                   *)
(*                                                                         *)
(* A frame becomes a point in each of several streams.  There are two      *)
(* kinds: STAT has all frames, the others those whose STAT does not say    *)
(* to drop the data and whose value is a number; "data" is one of them.    *)
(***************************************************************************)
EXTENDS Naturals, Sequences, FiniteSets, SequencesExt

CONSTANTS IdCodes, QueueSize, MaxBatch, MaxNet, Scenarios

Kinds == {"frames", "flags", "drops", "corrupt", "junk", "reconfigs", "faults",
          "crashes"}

Streams == {"STAT", "data"}

ASSUME SizesAssumption == QueueSize \in Nat \ {0} /\ MaxBatch \in Nat \ {0}
ASSUME ScenariosAssumption ==
    \A s \in Scenarios : s.ids \subseteq IdCodes /\ \A k \in Kinds : s[k] \in Nat

VARIABLES bounds, used,
          open, net,      \* the connection: the device's end, frames to be read
          asked,          \* id codes whose configuration is due, TX being on
          announced,      \* id codes configured on this connection
          current,        \* those whose present configuration was not damaged
          version,        \* of the device's configuration
          dialer,         \* the goroutine of dialloop
          cfgs, output,   \* PMU.cfgs, PMU.output
          consumer,       \* the process loop: id codes to drain, batch to hand on
          worker, due,    \* the batch that is being inserted, streams still to do
          stored, lost    \* of each stream: its frames, the numbers it will lack

device == <<asked, announced, current, version>>
reading == <<dialer, cfgs, output>>
saving == <<consumer, worker, due, stored>>
vars == <<bounds, used, open, net, device, reading, saving, lost>>

Use(kind) ==
    /\ used[kind] < bounds[kind]
    /\ used' = [used EXCEPT ![kind] = @ + 1]

Sleeping == [pc |-> "sleep", todo |-> {}, batch |-> {}, drained |-> TRUE]

Init ==
    /\ bounds \in Scenarios
    /\ used = [k \in Kinds |-> 0]
    /\ open = FALSE /\ net = <<>>
    /\ asked = {} /\ announced = {} /\ current = {} /\ version = 1
    /\ dialer = "dial"
    /\ cfgs = [i \in IdCodes |-> 0]
    /\ output = [i \in IdCodes |-> <<>>]
    /\ consumer = Sleeping
    /\ worker = <<>> /\ due = {}
    /\ stored = [s \in Streams |-> {}]
    /\ lost = [s \in Streams |-> {}]

\* The numbers of the data frames in a sequence.
Numbers(frames) == {f.n : f \in {g \in ToSet(frames) : g.kind = "data"}}

Lose(numbers) == lost' = [s \in Streams |-> lost[s] \cup numbers]

-----------------------------------------------------------------------------
(* The device and the network. *)

Frame(kind, i, n, drop) ==
    [kind |-> kind, id |-> i, n |-> n, of |-> version, as |-> 0, drop |-> drop,
     sure |-> kind = "data" /\ i \in current]

Deliver(f) == Len(net) < MaxNet /\ net' = Append(net, f)

\* The device answers CMD_SEND_CFG2.
SendConfig(i) ==
    /\ open /\ i \in asked
    /\ Deliver(Frame("config", i, 0, FALSE))
    /\ asked' = asked \ {i} /\ announced' = announced \cup {i}
    /\ current' = current \cup {i}
    /\ UNCHANGED <<bounds, used, open, version, reading, saving, lost>>

\* drop: STAT has 0x8000 set, or the value is NaN.
SendData(i, drop) ==
    /\ open /\ i \in announced
    /\ used["frames"] < bounds["frames"]
    /\ drop => used["flags"] < bounds["flags"]
    /\ used' = [used EXCEPT !["frames"] = @ + 1,
                            !["flags"] = IF drop THEN @ + 1 ELSE @]
    /\ Deliver(Frame("data", i, used["frames"] + 1, drop))
    /\ UNCHANGED <<bounds, open, device, reading, saving, lost>>

\* The frame after the k-th is damaged, and its checksum will be wrong.  With a
\* damaged length it takes the frames behind it along.
Corrupt ==
    /\ Use("corrupt")
    /\ \E k \in 0 .. Len(net) - 1 :
          LET gone == SubSeq(net, k + 1, Len(net)) IN
          /\ net' = Append(SubSeq(net, 1, k), Frame("damaged", 0, 0, FALSE))
          /\ current' = current \ {f.id : f \in {g \in ToSet(gone) : g.kind = "config"}}
          /\ Lose(Numbers(gone))
    /\ UNCHANGED <<bounds, open, asked, announced, version, reading, saving>>

\* Bytes that are no frame.
SendJunk ==
    /\ open
    /\ Use("junk")
    /\ Deliver(Frame("junk", 0, 0, FALSE))
    /\ UNCHANGED <<bounds, open, device, reading, saving, lost>>

Disconnect == open' = FALSE /\ asked' = {} /\ announced' = {} /\ current' = {}

\* The connection is lost, and with it some of what is on its way.
Drop ==
    /\ open
    /\ Use("drops")
    /\ Disconnect
    /\ \E k \in 0 .. Len(net) :
          /\ net' = SubSeq(net, 1, k)
          /\ Lose(Numbers(SubSeq(net, k + 1, Len(net))))
    /\ UNCHANGED <<bounds, version, reading, saving>>

\* The device changes its configuration, of which it does not tell.
Reconfigure ==
    /\ Use("reconfigs")
    /\ version' = version + 1
    /\ current' = {}
    /\ UNCHANGED <<bounds, open, net, asked, announced, reading, saving, lost>>

-----------------------------------------------------------------------------
(* dialloop, process and readFrame. *)

\* dial and initialConfigure.  While the device cannot be reached dial fails
\* and is tried again, which changes nothing.
Dial ==
    /\ dialer = "dial"
    /\ dialer' = "read"
    /\ open' = TRUE /\ net' = <<>>
    /\ asked' = bounds.ids /\ announced' = {} /\ current' = {}
    /\ UNCHANGED <<bounds, used, version, cfgs, output, saving, lost>>

\* Mutant: a frame read error is no reason to stop reading.
FailReadsOn ==
    /\ dialer = "read"
    /\ ~open /\ net = <<>>
    /\ UNCHANGED vars

\* A frame read error: the connection is closed and dial returns.
Fail ==
    /\ dialer = "read"
    /\ ~open /\ net = <<>>
    /\ dialer' = "backoff"
    /\ UNCHANGED <<bounds, used, open, net, device, cfgs, output, saving, lost>>

Backoff ==
    /\ dialer = "backoff"
    /\ dialer' = "dial"
    /\ UNCHANGED <<bounds, used, open, net, device, cfgs, output, saving, lost>>

Reading(kind) ==
    /\ dialer = "read"
    /\ net # <<>> /\ Head(net).kind = kind

\* Mutant: a configuration that is known already is not replaced.
ReadConfigOnce ==
    /\ Reading("config")
    /\ cfgs' = [cfgs EXCEPT ![Head(net).id] = IF @ = 0 THEN Head(net).of ELSE @]
    /\ net' = Tail(net)
    /\ UNCHANGED <<bounds, used, open, device, dialer, output, saving, lost>>

\* dial returns an error, or panics and recovers, while there may be more to
\* read: that is lost with the connection.
HangUp ==
    /\ dialer' = "backoff"
    /\ Disconnect
    /\ net' = <<>>
    /\ Lose(Numbers(net))

\* The configuration is kept, and the start command sent again, which panics if
\* the connection is no more.
ReadConfig ==
    /\ Reading("config")
    /\ cfgs' = [cfgs EXCEPT ![Head(net).id] = Head(net).of]
    /\ \/ /\ net' = Tail(net)
          /\ UNCHANGED <<open, device, dialer, lost>>
       \/ /\ ~open
          /\ HangUp
          /\ UNCHANGED version
    /\ UNCHANGED <<bounds, used, output, saving>>

\* Mutant: a full queue makes room by dropping its oldest frame, unseen.
ReadDataDropsOldest ==
    /\ Reading("data")
    /\ LET f == Head(net)
           q == Append(output[f.id], [f EXCEPT !.as = cfgs[f.id]])
       IN  output' = [output EXCEPT ![f.id] = IF Len(q) > QueueSize THEN Tail(q) ELSE q]
    /\ net' = Tail(net)
    /\ UNCHANGED <<bounds, used, open, device, dialer, cfgs, saving, lost>>

\* Mutant: the queue takes one frame too many.
ReadDataOneMore ==
    /\ Reading("data")
    /\ LET f == Head(net) IN
       IF cfgs[f.id] = 0 \/ Len(output[f.id]) > QueueSize
       THEN Lose({f.n}) /\ UNCHANGED output
       ELSE /\ output' = [output EXCEPT ![f.id] = Append(@, [f EXCEPT !.as = cfgs[f.id]])]
            /\ UNCHANGED lost
    /\ net' = Tail(net)
    /\ UNCHANGED <<bounds, used, open, device, dialer, cfgs, saving>>

\* A data frame is decoded with the configuration of its id code and queued.
\* Without a configuration, or with a full queue, it is dropped.
ReadData ==
    /\ Reading("data")
    /\ LET f == Head(net) IN
       IF cfgs[f.id] = 0 \/ Len(output[f.id]) = QueueSize
       THEN Lose({f.n}) /\ UNCHANGED output
       ELSE /\ output' = [output EXCEPT ![f.id] = Append(@, [f EXCEPT !.as = cfgs[f.id]])]
            /\ UNCHANGED lost
    /\ net' = Tail(net)
    /\ UNCHANGED <<bounds, used, open, device, dialer, cfgs, saving>>

\* A data frame does not fit the configuration that it is decoded with.
Misfit ==
    /\ Reading("data")
    /\ cfgs[Head(net).id] \notin {0, Head(net).of}
    /\ HangUp
    /\ UNCHANGED <<bounds, used, version, cfgs, output, saving>>

\* "the spec says silently ignore frames with bad checksums"
ReadDamaged ==
    /\ Reading("damaged")
    /\ net' = Tail(net)
    /\ UNCHANGED <<bounds, used, open, device, reading, saving, lost>>

\* Behind a byte 0xAA comes what is no frame of a known type.
ReadUnknown ==
    /\ Reading("junk")
    /\ HangUp
    /\ UNCHANGED <<bounds, used, version, cfgs, output, saving>>

\* The first byte is no 0xAA: bytes are skipped up to the next.
LoseSync ==
    /\ Reading("junk")
    /\ dialer' = "skip"
    /\ UNCHANGED <<bounds, used, open, net, device, cfgs, output, saving, lost>>

\* The loop that skips bytes ends at the first byte of a frame, and only there:
\* it does not look at the error of ReadByte.
Resync ==
    /\ dialer = "skip" /\ net # <<>>
    /\ IF Head(net).kind = "junk" THEN net' = Tail(net) /\ UNCHANGED dialer
                                  ELSE dialer' = "read" /\ UNCHANGED net
    /\ UNCHANGED <<bounds, used, open, device, cfgs, output, saving, lost>>

ReadFrame ==
    \/ ReadConfig \/ ReadData \/ Misfit \/ ReadDamaged \/ ReadUnknown
    \/ LoseSync \/ Resync

-----------------------------------------------------------------------------
(* The process loop and the inserter's worker. *)

\* Mutant: only one of the queues is looked at.
WakeForOne ==
    /\ consumer.pc = "sleep"
    /\ consumer' = [pc |-> "drain", todo |-> {CHOOSE i \in bounds.ids : TRUE},
                    batch |-> {}, drained |-> TRUE]
    /\ UNCHANGED <<bounds, used, open, net, device, reading, worker, due, stored, lost>>

Wake ==
    /\ consumer.pc = "sleep"
    /\ consumer' = [pc |-> "drain", todo |-> bounds.ids, batch |-> {}, drained |-> TRUE]
    /\ UNCHANGED <<bounds, used, open, net, device, reading, worker, due, stored, lost>>

Batch(i) == SubSeq(output[i], 1, Min({Len(output[i]), MaxBatch}))

\* GetBatch, for one id code: up to MaxBatch frames.
Drain(i) ==
    /\ consumer.pc = "drain" /\ i \in consumer.todo
    /\ output' = [output EXCEPT ![i] = SubSeq(@, Len(Batch(i)) + 1, Len(@))]
    /\ consumer' = [consumer EXCEPT
                       !.todo = @ \ {i},
                       !.batch = (@ \cup {Batch(i)}) \ {<<>>},
                       !.drained = @ /\ Len(Batch(i)) < MaxBatch,
                       !.pc = IF consumer.todo = {i} THEN "hand" ELSE @]
    /\ UNCHANGED <<bounds, used, open, net, device, dialer, cfgs, worker, due, stored, lost>>

\* The frames that stream s has a point of.
Carried(s, frames) == {f \in ToSet(frames) : s = "data" => ~f.drop}

\* ProcessBatch hands the frames of an id code to the worker when that is idle,
\* which sorts their values by stream and passes over those to be dropped.
Hand ==
    /\ consumer.pc = "hand" /\ worker = <<>>
    /\ \E b \in consumer.batch :
          /\ worker' = b
          /\ due' = {s \in Streams : Carried(s, b) # {}}
          /\ lost' = [s \in Streams |->
                         lost[s] \cup {f.n : f \in ToSet(b) \ Carried(s, b)}]
          /\ consumer' = [consumer EXCEPT !.batch = @ \ {b}]
    /\ UNCHANGED <<bounds, used, open, net, device, reading, stored>>

\* Again at once, or after the rest of the 30 seconds if all queues were empty.
Done ==
    /\ consumer.pc = "hand" /\ consumer.batch = {}
    /\ consumer' = IF consumer.drained THEN Sleeping
                   ELSE [consumer EXCEPT !.pc = "drain", !.todo = bounds.ids,
                                         !.drained = TRUE]
    /\ UNCHANGED <<bounds, used, open, net, device, reading, worker, due, stored, lost>>

\* The worker is through with stream s of its batch.
Finish(s) ==
    /\ due' = due \ {s}
    /\ worker' = IF due = {s} THEN <<>> ELSE worker

\* Mutant: a batch of which an insert failed goes back to its queue.
InsertRequeues(s) ==
    /\ s \in due
    /\ \/ /\ stored' = [stored EXCEPT ![s] = @ \cup Carried(s, worker)]
          /\ Finish(s)
          /\ UNCHANGED <<used, output>>
       \/ /\ Use("faults")
          /\ Len(output[worker[1].id]) + Len(worker) <= QueueSize
          /\ output' = [output EXCEPT ![worker[1].id] = @ \o worker]
          /\ worker' = <<>> /\ due' = {}
          /\ UNCHANGED stored
    /\ UNCHANGED <<bounds, open, net, device, dialer, cfgs, lost, consumer>>

\* The stream is looked up or created when it is not known (an error of which
\* is a Crash) and the points are inserted.  An error of the insert is printed,
\* and the worker goes on to the next stream.
Insert(s) ==
    /\ s \in due
    /\ \/ /\ stored' = [stored EXCEPT ![s] = @ \cup Carried(s, worker)]
          /\ UNCHANGED <<used, lost>>
       \/ /\ Use("faults")
          /\ lost' = [lost EXCEPT ![s] = @ \cup {f.n : f \in Carried(s, worker)}]
          /\ UNCHANGED stored
    /\ Finish(s)
    /\ UNCHANGED <<bounds, open, net, device, reading, consumer>>

-----------------------------------------------------------------------------
\* The numbers of the frames that are queued, batched or with the worker and
\* have still to get into stream s.
Queued(s) ==
    (UNION ({Numbers(output[i]) : i \in IdCodes} \cup {Numbers(b) : b \in consumer.batch}))
    \cup (IF s \in due THEN {f.n : f \in Carried(s, worker)} ELSE {})

\* A panic outside dial ends the process with all that is queued: LookupStreams
\* or Create fails in the worker, or etcd in the main loop, or the pod ends.
\* The device is locked again, by this or another process, and dialled.
Crash ==
    /\ Use("crashes")
    /\ Disconnect
    /\ net' = <<>>
    /\ dialer' = "dial"
    /\ cfgs' = [i \in IdCodes |-> 0]
    /\ output' = [i \in IdCodes |-> <<>>]
    /\ consumer' = Sleeping
    /\ worker' = <<>> /\ due' = {}
    /\ lost' = [s \in Streams |-> lost[s] \cup Numbers(net) \cup Queued(s)]
    /\ UNCHANGED <<bounds, version, stored>>

Device ==
    \/ \E i \in IdCodes : SendConfig(i) \/ \E drop \in BOOLEAN : SendData(i, drop)
    \/ Corrupt \/ SendJunk \/ Drop \/ Reconfigure

Dialloop == Dial \/ Fail \/ Backoff \/ ReadFrame

Consume == Wake \/ (\E i \in IdCodes : Drain(i)) \/ Hand \/ Done

Work == \E s \in Streams : Insert(s)

Next == Device \/ Dialloop \/ Consume \/ Work \/ Crash

\* The three goroutines run; nothing is assumed of the device.
Fairness == WF_vars(Dialloop) /\ WF_vars(Consume) /\ WF_vars(Work)

Spec == Init /\ [][Next]_vars /\ Fairness

-----------------------------------------------------------------------------
(* Properties. *)

FrameType == [kind : {"config", "data", "damaged", "junk"}, id : IdCodes \cup {0},
              n : Nat, of : Nat, as : Nat, drop : BOOLEAN, sure : BOOLEAN]

TypeOK ==
    /\ bounds \in Scenarios
    /\ used \in [Kinds -> Nat]
    /\ open \in BOOLEAN
    /\ net \in Seq(FrameType) /\ worker \in Seq(FrameType) /\ due \subseteq Streams
    /\ asked \subseteq IdCodes /\ announced \subseteq IdCodes /\ current \subseteq announced
    /\ version \in Nat
    /\ dialer \in {"dial", "read", "skip", "backoff"}
    /\ cfgs \in [IdCodes -> Nat]
    /\ \A i \in IdCodes : output[i] \in Seq(FrameType) /\ Len(output[i]) <= QueueSize
    /\ stored \in [Streams -> SUBSET FrameType]
    /\ consumer.pc \in {"sleep", "drain", "hand"}
    /\ consumer.todo \subseteq IdCodes /\ consumer.drained \in BOOLEAN
    /\ consumer.batch \subseteq Seq(FrameType)
    /\ lost \in [Streams -> SUBSET Nat]

\* For every stream, each data frame that the device sent is on its way, queued,
\* in a batch or with the worker, in the stream, or lost to it in one of these
\* ways, and is in one of these places only: it was damaged, or lost with the
\* connection; it found no configuration or a full queue, or its insert failed
\* (each of these is printed); its own STAT says to drop it; the process ended
\* (neither of which is).  No step of the goroutines of dialloop, the process
\* loop and the worker loses a frame otherwise, or doubles one.
EveryFrameAccounted ==
    \A s \in Streams :
       LET Stored == {f.n : f \in stored[s]} IN
       /\ 1 .. used["frames"] = Numbers(net) \cup Queued(s) \cup Stored \cup lost[s]
       /\ used["frames"] = Cardinality(Numbers(net)) + Cardinality(Queued(s))
                           + Cardinality(Stored) + Cardinality(lost[s])

\* The frames of an id code reach each stream in the order in which the device
\* sent them, over full batches, overflows, failed inserts and connections: what
\* is inserted was sent after all that was inserted before.
StoredInOrder ==
    [][\A s \in Streams : \A f \in stored'[s] \ stored[s], g \in stored[s] :
          f.id = g.id => g.n < f.n]_vars

\* A frame is decoded with the configuration that the device encoded it with,
\* though PMU.cfgs outlives the connection and the device may change between
\* two, provided that the device has sent its present configuration on the same
\* connection and that this was not damaged.  (Behind a damaged configuration,
\* or one that changes under a connection, cfgs has an old one or none.)
DecodedAsEncoded == \A s \in Streams : \A f \in stored[s] : f.sure => f.as = f.of

\* What is queued is taken on, whatever the other id codes' queues are like.
QueuesDrain == []<>(\A s \in Streams : Queued(s) = {})

\* A lost connection is dialled again ("backoff over, reconnecting").
Reconnects == ~open ~> open
===============================================================================
