------------------------------- MODULE Pmu2btrdb -------------------------------
(***************************************************************************)
(* tools/pmu2btrdb: the receiver that inserts an uploaded file into BTrDB  *)
(* itself.  A goroutine reads the messages of a connection and starts a    *)
(* goroutine for each; that one parses, inserts and answers while the next *)
(* message may be read.  All goroutines of a connection share the variables *)
(* of its reader: sendid is looked at only when the answer is written, and *)
(* dtbuffer only when the file is parsed.  Any error of BTrDB ends the     *)
(* process.                                                                *)
(*                                                                         *)
(* The client (tools/simulator/upmusim.go) numbers its files from 0 and    *)
(* takes the answer with the number of a file for its confirmation.  It    *)
(* waits for the answer to one file before it sends the next: window is 1. *)
(* A client with a larger one overwrites what the goroutines share, and    *)
(* may have the beginning of a file dropped: what is read with the end of  *)
(* a message is thrown away.  Files are not empty (a message with lendt 0  *)
(* is never finished).                                                     *)
(***************************************************************************)
EXTENDS Naturals, Sequences, FiniteSets

CONSTANTS Conns,        \* connections; a client that comes back uses another
          Serials, Serial,    \* the uPMU at the other end of a connection
          Garbage,      \* what is read from a buffer that is being overwritten
          NumFiles,     \* how many files a client has
          Scenarios

VARIABLES bounds,       \* the scenario: conns, window, slots, bad, breaks, crashes
          used,         \* breaks and crashes so far
          reader,       \* handlePMUConn: its place, sendid, dtbuffer, the message
          task,         \* the goroutine of each file
          wire,         \* answers on their way
          next, waiting,      \* client: next file, files it has no answer to
          confirmed, refused, \* client: files answered with their number, or not
          streams, inserted   \* BTrDB: streams that exist, files in them

server == <<reader, task>>
client == <<next, waiting, confirmed, refused>>
btrdb  == <<streams, inserted>>
vars   == <<bounds, used, server, wire, client, btrdb>>

Kinds == {"breaks", "crashes"}

ASSUME ConnsAssumption == Serial \in [Conns -> Serials]
ASSUME ScenariosAssumption ==
    \A s \in Scenarios :
       /\ s.window \in Nat /\ s.slots \in Nat \ {0}
       /\ s.conns \subseteq Conns /\ s.bad \subseteq Conns \X Nat
       /\ \A k \in Kinds : s[k] \in Nat
ASSUME GarbageAssumption == Garbage \notin Nat
ASSUME NumFilesAssumption == NumFiles \in Nat

Ids == 0 .. NumFiles - 1

FAILUREMSG == 0     \* four zero bytes

Idle == [pc |-> "idle", sendid |-> 0, data |-> Garbage, message |-> 0]
NoTask == [pc |-> "none", file |-> Garbage, resp |-> Garbage]

ReaderPCs == {"idle", "header", "astray", "lost", "closed"}
TaskPCs == {"none", "queued", "parse", "exists", "create", "insert", "reply"}
Holds == {"parse", "exists", "create", "insert", "reply"}

Use(kind) ==
    /\ used[kind] < bounds[kind]
    /\ used' = [used EXCEPT ![kind] = @ + 1]

Init ==
    /\ bounds \in Scenarios
    /\ used = [k \in Kinds |-> 0]
    /\ reader = [c \in Conns |-> [Idle EXCEPT !.pc =
                                     IF c \in bounds.conns THEN "idle" ELSE "closed"]]
    /\ task = [c \in Conns |-> [i \in Ids |-> NoTask]]
    /\ wire = [c \in Conns |-> <<>>]
    /\ next = [c \in Conns |-> 0]
    /\ waiting = [c \in Conns |-> {}]
    /\ confirmed = [c \in Conns |-> {}]
    /\ refused = [c \in Conns |-> {}]
    /\ streams = {} /\ inserted = {}

Open(c) == reader[c].pc # "closed"

-----------------------------------------------------------------------------
(* The client and the reader of a connection. *)

\* Mutant: sendid keeps the number of the message before.
SendStaleId(c) ==
    /\ reader[c].pc = "idle"
    /\ next[c] < NumFiles
    /\ Cardinality(waiting[c]) < bounds.window
    /\ next' = [next EXCEPT ![c] = @ + 1]
    /\ waiting' = [waiting EXCEPT ![c] = @ \cup {next[c]}]
    /\ reader' = [reader EXCEPT ![c].pc = "header", ![c].message = next[c]]
    /\ UNCHANGED <<task, wire, confirmed, refused, btrdb, bounds, used>>

\* The client sends its next file; the header is read into infobuffer, which
\* sendid is a slice of.
Send(c) ==
    /\ reader[c].pc = "idle"
    /\ next[c] < NumFiles
    /\ Cardinality(waiting[c]) < bounds.window
    /\ next' = [next EXCEPT ![c] = @ + 1]
    /\ waiting' = [waiting EXCEPT ![c] = @ \cup {next[c]}]
    /\ reader' = [reader EXCEPT ![c].pc = "header", ![c].message = next[c],
                                ![c].sendid = next[c]]
    /\ UNCHANGED <<task, wire, confirmed, refused, btrdb, bounds, used>>

\* The rest of the message is in dtbuffer: its goroutine is started.
Receive(c) ==
    /\ reader[c].pc = "header"
    /\ reader' = [reader EXCEPT ![c].pc = "idle", ![c].data = reader[c].message]
    /\ task' = [task EXCEPT ![c][reader[c].message].pc = "queued"]
    /\ UNCHANGED <<wire, client, btrdb, bounds, used>>

\* The same, but the client does not wait, and the beginning of its next file was
\* read with the end of this one: "WARNING: got %d extra bytes".  It is dropped,
\* and the reader takes the rest of that file for a message.
Overread(c) ==
    /\ reader[c].pc = "header"
    /\ next[c] < NumFiles
    /\ Cardinality(waiting[c]) < bounds.window
    /\ next' = [next EXCEPT ![c] = @ + 1]
    /\ waiting' = [waiting EXCEPT ![c] = @ \cup {next[c]}]
    /\ reader' = [reader EXCEPT ![c].pc = "astray", ![c].data = reader[c].message,
                                ![c].message = next[c]]
    /\ task' = [task EXCEPT ![c][reader[c].message].pc = "queued"]
    /\ UNCHANGED <<wire, confirmed, refused, btrdb, bounds, used>>

\* Data in the place of a header fails the sanity check of the lengths, or passes
\* for one with any number.  What the reader finds after one such message is left
\* out: it is lost.  Ids \cup {NumFiles} bounds the numbers.
Stray(c) ==
    /\ reader[c].pc = "astray"
    /\ \/ /\ reader' = [reader EXCEPT ![c].pc = "closed"]
          /\ UNCHANGED task
       \/ /\ \E id \in Ids \cup {NumFiles} :
                reader' = [reader EXCEPT ![c].pc = "lost", ![c].sendid = id,
                                         ![c].data = Garbage]
          /\ task' = [task EXCEPT ![c][reader[c].message].pc = "queued"]
    /\ UNCHANGED <<wire, client, btrdb, bounds, used>>

Break(c) ==
    /\ Open(c)
    /\ Use("breaks")
    /\ reader' = [reader EXCEPT ![c].pc = "closed"]
    /\ UNCHANGED <<task, wire, client, btrdb, bounds>>

\* The client has an answer.  One with a number that it does not wait for is
\* "improper"; it prints that and goes on with the next file.
TakeAnswer(c) ==
    /\ wire[c] # <<>>
    /\ LET r == Head(wire[c])
           oldest == {i \in waiting[c] : \A j \in waiting[c] : i <= j}
       IN  IF r \in waiting[c]
           THEN /\ confirmed' = [confirmed EXCEPT ![c] = @ \cup {r}]
                /\ waiting' = [waiting EXCEPT ![c] = @ \ {r}]
                /\ UNCHANGED refused
           ELSE /\ refused' = [refused EXCEPT ![c] = @ \cup oldest]
                /\ waiting' = [waiting EXCEPT ![c] = @ \ oldest]
                /\ UNCHANGED confirmed
    /\ wire' = [wire EXCEPT ![c] = Tail(@)]
    /\ UNCHANGED <<server, next, btrdb, bounds, used>>

-----------------------------------------------------------------------------
(* The goroutine of file i. *)

At(c, i, pc) == task[c][i].pc = pc

Goto(c, i, pc) == task' = [task EXCEPT ![c][i].pc = pc]

Holding == {t \in Conns \X Ids : task[t[1]][t[2]].pc \in Holds}

\* insertionSemaphore
Acquire(c, i) ==
    /\ At(c, i, "queued")
    /\ Cardinality(Holding) < bounds.slots
    /\ Goto(c, i, "parse")
    /\ UNCHANGED <<reader, wire, client, btrdb, bounds, used>>

\* What the goroutine finds in dtbuffer now: if the reader is at the next
\* message, that, what was there, or something of both.
Seen(c) ==
    {reader[c].data}
    \cup (IF reader[c].pc = "header" THEN {reader[c].message} ELSE {})
    \cup (IF reader[c].pc \in {"header", "astray"} THEN {Garbage} ELSE {})

Parseable(c, f) == f # Garbage /\ <<c, f>> \notin bounds.bad

\* Mutant: there is no answer for a failure.
ParseAnswersNothing(c, i) ==
    /\ At(c, i, "parse")
    /\ \E f \in Seen(c) :
          task' = [task EXCEPT ![c][i] =
                      IF Parseable(c, f)
                      THEN [pc |-> "exists", file |-> f, resp |-> Garbage] ELSE NoTask]
    /\ UNCHANGED <<reader, wire, client, btrdb, bounds, used>>

Parse(c, i) ==
    /\ At(c, i, "parse")
    /\ \E f \in Seen(c) :
          task' = [task EXCEPT ![c][i] =
                      IF Parseable(c, f)
                      THEN [pc |-> "exists", file |-> f, resp |-> Garbage]
                      ELSE [pc |-> "reply", file |-> Garbage, resp |-> FAILUREMSG]]
    /\ UNCHANGED <<reader, wire, client, btrdb, bounds, used>>

Exists(c, i) ==
    /\ At(c, i, "exists")
    /\ Goto(c, i, IF Serial[c] \in streams THEN "insert" ELSE "create")
    /\ UNCHANGED <<reader, wire, client, btrdb, bounds, used>>

\* log.Fatalf: the process ends; its connections break and it starts again.
Fatal ==
    /\ reader' = [c \in Conns |-> [reader[c] EXCEPT !.pc = "closed"]]
    /\ task' = [c \in Conns |-> [i \in Ids |-> NoTask]]

\* A stream that another goroutine has created meanwhile is a fatal error.
Create(c, i) ==
    /\ At(c, i, "create")
    /\ IF Serial[c] \in streams
       THEN Fatal /\ UNCHANGED streams
       ELSE /\ streams' = streams \cup {Serial[c]}
            /\ Goto(c, i, "insert")
            /\ UNCHANGED reader
    /\ UNCHANGED <<wire, client, inserted, bounds, used>>

Insert(c, i) ==
    /\ At(c, i, "insert")
    /\ inserted' = inserted \cup {<<c, task[c][i].file>>}
    /\ Goto(c, i, "reply")
    /\ UNCHANGED <<reader, wire, client, streams, bounds, used>>

\* Mutant: the answer to a success is not set.
ReplyUnset(c, i) ==
    /\ At(c, i, "reply")
    /\ wire' = IF Open(c) THEN [wire EXCEPT ![c] = Append(@, task[c][i].resp)]
               ELSE wire
    /\ task' = [task EXCEPT ![c][i] = NoTask]
    /\ UNCHANGED <<reader, client, btrdb, bounds, used>>

\* The answer: FAILUREMSG, or what sendid is now.
Reply(c, i) ==
    /\ At(c, i, "reply")
    /\ wire' = IF Open(c)
               THEN [wire EXCEPT ![c] = Append(@, IF task[c][i].resp = FAILUREMSG
                                                  THEN FAILUREMSG ELSE reader[c].sendid)]
               ELSE wire
    /\ task' = [task EXCEPT ![c][i] = NoTask]
    /\ UNCHANGED <<reader, client, btrdb, bounds, used>>

\* BTrDB or etcd fails, or the pod ends.
Crash ==
    /\ Use("crashes")
    /\ Fatal
    /\ UNCHANGED <<wire, client, btrdb, bounds>>

Process(c, i) ==
    Acquire(c, i) \/ Parse(c, i) \/ Exists(c, i) \/ Create(c, i) \/ Insert(c, i)
    \/ Reply(c, i)

Next ==
    \/ \E c \in Conns : \/ Send(c) \/ Receive(c) \/ Overread(c) \/ Stray(c)
                        \/ Break(c) \/ TakeAnswer(c)
                        \/ \E i \in Ids : Process(c, i)
    \/ Crash

\* Messages arrive, goroutines run, and take the semaphore in the order in
\* which they asked for it.  A client need not send anything.
Fairness ==
    \A c \in Conns :
       /\ WF_vars(Receive(c)) /\ WF_vars(TakeAnswer(c))
       /\ WF_vars(\E i \in Ids : Process(c, i))
       /\ SF_vars(\E i \in Ids : Acquire(c, i))

Spec == Init /\ [][Next]_vars /\ Fairness

-----------------------------------------------------------------------------
(* Properties. *)

File == Nat \cup {Garbage}

TypeOK ==
    /\ bounds \in Scenarios
    /\ used \in [Kinds -> Nat]
    /\ reader \in [Conns -> [pc : ReaderPCs, sendid : Nat,
                             data : File, message : Nat]]
    /\ task \in [Conns -> [Ids -> [pc : TaskPCs, file : File, resp : File]]]
    /\ wire \in [Conns -> Seq(Nat)]
    /\ next \in [Conns -> 0 .. NumFiles]
    /\ waiting \in [Conns -> SUBSET Ids]
    /\ confirmed \in [Conns -> SUBSET Ids]
    /\ refused \in [Conns -> SUBSET Ids]
    /\ streams \subseteq Serials
    /\ inserted \subseteq Conns \X File

\* A file that a client that waits for its answers takes for received is in
\* BTrDB: "sendid" is written to the connection only after processMessage has
\* inserted the data, and the client compares it with the number of its file
\* (upmusim.go:100).  And only a file that cannot be parsed gets an answer that
\* is not its own, unless it is the first, whose number is FAILUREMSG.  So it is
\* whatever other connections, other goroutines and crashes do.
AnswersAreTrue ==
    bounds.window = 1 =>
        \A c \in Conns :
           /\ \A i \in confirmed[c] :
                 <<c, i>> \in inserted \/ (i = FAILUREMSG /\ <<c, i>> \in bounds.bad)
           /\ \A i \in refused[c] : <<c, i>> \in bounds.bad

\* Every file sent is answered, or the connection breaks: the goroutines give
\* back what they hold of the semaphore on every path.  Excepted are the files of
\* a client that does not wait once the beginning of one was dropped: the reader
\* then waits for data in vain (receiver.go:257-261).
EveryFileAnswered ==
    \A c \in Conns, i \in Ids :
       i \in waiting[c] ~> \/ i \notin waiting[c] \/ ~Open(c)
                           \/ reader[c].pc \in {"astray", "lost"}
===============================================================================
