--------------------------- MODULE Pmu2btrdb_proofs ---------------------------
(***************************************************************************)
(* pmu2btrdb proved for any connections, uPMUs, numbers of files, bad      *)
(* files, places in the semaphore and faults: what a client that waits for *)
(* each answer may conclude from it.                                       *)
(***************************************************************************)
EXTENDS Pmu2btrdb, FiniteSetTheorems, SequenceTheorems, TLAPS

Task == [pc : TaskPCs, file : File, resp : File]

Active(c, i) == task[c][i].pc # "none"

\* What the client may take for the answer to its file i.
True(c, i, answer) ==
    \/ answer = i /\ <<c, i>> \in inserted
    \/ answer = FAILUREMSG /\ <<c, i>> \in bounds.bad

\* A message that is being read is the only one on its way, and nothing is dropped.
ReaderInv(c) ==
    /\ reader[c].pc \notin {"astray", "lost"}
    /\ reader[c].pc = "header" =>
          /\ waiting[c] = {reader[c].message}
          /\ reader[c].sendid = reader[c].message
          /\ \A i \in Ids : ~Active(c, i)
          /\ wire[c] = <<>>

\* And so is a file that a goroutine is at, which has what the reader has.
TaskInv(c) ==
    \A i \in Ids :
       IF Active(c, i)
       THEN /\ waiting[c] = {i} /\ wire[c] = <<>>
            /\ reader[c].sendid = i /\ reader[c].data = i
            /\ task[c][i].pc \in {"exists", "create", "insert"} => task[c][i].file = i
            /\ task[c][i].pc \in {"queued", "parse", "exists", "create", "insert"} =>
                  task[c][i].resp = Garbage
            /\ task[c][i].pc = "reply" =>
                  \/ task[c][i].resp = FAILUREMSG /\ <<c, i>> \in bounds.bad
                  \/ task[c][i].resp = Garbage /\ <<c, i>> \in inserted
       ELSE task[c][i].resp = Garbage

\* And so is an answer.
WireInv(c) ==
    wire[c] # <<>> =>
       /\ Len(wire[c]) = 1
       /\ \E i \in Ids : waiting[c] = {i} /\ True(c, i, Head(wire[c]))

ClientInv(c) ==
    /\ \A i, j \in waiting[c] : i = j
    /\ \A i \in confirmed[c] : True(c, i, i)
    /\ \A i \in refused[c] : <<c, i>> \in bounds.bad

OneAtATime(c) == ReaderInv(c) /\ TaskInv(c) /\ WireInv(c) /\ ClientInv(c)

MessageInv ==
    \A c \in Conns : reader[c].pc \in {"header", "astray"} => reader[c].message \in Ids

IInv ==
    /\ TypeOK
    /\ MessageInv
    /\ bounds.window = 1 => \A c \in Conns : OneAtATime(c)

USE DEF FAILUREMSG

-----------------------------------------------------------------------------
(* Types. *)

Reader == [pc : ReaderPCs, sendid : Nat, data : File, message : Nat]

LEMMA InitInv == Init => IInv
<1> SUFFICES ASSUME Init PROVE IInv
  OBVIOUS
<1>1. TypeOK
  <2>1. \A c \in Conns : reader[c] \in Reader
    BY DEF Init, Idle, Reader, ReaderPCs, File
  <2>2. reader \in [Conns -> Reader]
    BY <2>1 DEF Init
  <2>3. task \in [Conns -> [Ids -> Task]]
    BY DEF Init, NoTask, Task, TaskPCs, File
  <2>4. bounds \in Scenarios /\ used \in [Kinds -> Nat] /\ wire \in [Conns -> Seq(Nat)]
    BY DEF Init
  <2>5. /\ next \in [Conns -> 0 .. NumFiles]
        /\ waiting \in [Conns -> SUBSET Ids]
        /\ confirmed \in [Conns -> SUBSET Ids]
        /\ refused \in [Conns -> SUBSET Ids]
        /\ streams \subseteq Serials /\ inserted \subseteq Conns \X File
    BY NumFilesAssumption DEF Init
  <2>6. QED
    BY <2>2, <2>3, <2>4, <2>5 DEF TypeOK, Reader, Task
<1>2. MessageInv
  BY DEF Init, MessageInv, Idle
<1>3. \A c \in Conns : OneAtATime(c)
  BY DEF Init, OneAtATime, ReaderInv, TaskInv, WireInv, ClientInv, Active, Idle, NoTask
<1>4. QED
  BY <1>1, <1>2, <1>3 DEF IInv

LEMMA SetReader ==
    ASSUME TypeOK, NEW c \in Conns, NEW r \in Reader, reader' = [reader EXCEPT ![c] = r]
    PROVE  /\ reader' \in [Conns -> Reader]
           /\ reader'[c] = r
           /\ \A d \in Conns \ {c} : reader'[d] = reader[d]
BY DEF TypeOK, Reader

LEMMA Types ==
    ASSUME TypeOK
    PROVE  /\ task \in [Conns -> [Ids -> Task]]
           /\ wire \in [Conns -> Seq(Nat)]
           /\ waiting \in [Conns -> SUBSET Ids]
           /\ confirmed \in [Conns -> SUBSET Ids] /\ refused \in [Conns -> SUBSET Ids]
           /\ streams \subseteq Serials /\ inserted \subseteq Conns \X File
BY DEF TypeOK, Task

LEMMA SetTask ==
    ASSUME TypeOK, NEW c \in Conns, NEW i \in Ids, NEW t \in Task,
           task' = [task EXCEPT ![c][i] = t]
    PROVE  /\ task' \in [Conns -> [Ids -> Task]]
           /\ task'[c][i] = t
           /\ \A d \in Conns, j \in Ids : d # c \/ j # i => task'[d][j] = task[d][j]
<1>1. task \in [Conns -> [Ids -> Task]]
  BY DEF TypeOK, Task
<1>2. QED
  BY <1>1

LEMMA GotoFacts ==
    ASSUME TypeOK, NEW c \in Conns, NEW i \in Ids, NEW where \in TaskPCs, Goto(c, i, where)
    PROVE  /\ task' \in [Conns -> [Ids -> Task]]
           /\ task'[c][i].pc = where
           /\ task'[c][i].file = task[c][i].file /\ task'[c][i].resp = task[c][i].resp
           /\ \A d \in Conns, j \in Ids : d # c \/ j # i => task'[d][j] = task[d][j]
<1> DEFINE t == [task[c][i] EXCEPT !.pc = where]
<1>1. task[c][i] \in Task
  BY DEF TypeOK, Task
<1>2. /\ t \in Task /\ t.pc = where
      /\ t.file = task[c][i].file /\ t.resp = task[c][i].resp
  BY <1>1 DEF Task
<1>3. task' = [task EXCEPT ![c][i] = t]
  BY DEF Goto
<1> HIDE DEF t
<1>4. t \in Task
  BY <1>2
<1>5. /\ task' \in [Conns -> [Ids -> Task]] /\ task'[c][i] = t
      /\ \A d \in Conns, j \in Ids : d # c \/ j # i => task'[d][j] = task[d][j]
  BY <1>3, <1>4, Types
<1>6. QED
  BY <1>2, <1>5

\* What happens to one connection leaves the invariant of the others alone.
LEMMA Frame ==
    ASSUME NEW d \in Conns, OneAtATime(d), bounds' = bounds,
           reader'[d] = reader[d], wire'[d] = wire[d], waiting'[d] = waiting[d],
           confirmed'[d] = confirmed[d], refused'[d] = refused[d],
           \A i \in Ids : task'[d][i] = task[d][i],
           inserted \subseteq inserted'
    PROVE  OneAtATime(d)'
<1>1. ReaderInv(d)'
  BY DEF OneAtATime, ReaderInv, Active
<1>2. TaskInv(d)'
  BY DEF OneAtATime, TaskInv, Active
<1>3. WireInv(d)'
  BY DEF OneAtATime, WireInv, True
<1>4. ClientInv(d)'
  BY DEF OneAtATime, ClientInv, True
<1>5. QED
  BY <1>1, <1>2, <1>3, <1>4 DEF OneAtATime

LEMMA UseFacts ==
    ASSUME TypeOK, NEW kind \in Kinds, Use(kind)
    PROVE  used' \in [Kinds -> Nat]
BY DEF TypeOK, Use

-----------------------------------------------------------------------------
(* The client and the reader. *)

\* A client that waits for nothing has no message, file or answer on its way.
LEMMA Quiet ==
    ASSUME TypeOK, NEW c \in Conns, OneAtATime(c), waiting[c] = {}
    PROVE  /\ wire[c] = <<>> /\ \A i \in Ids : ~Active(c, i)
           /\ reader[c].pc # "header"
BY DEF OneAtATime, ReaderInv, TaskInv, WireInv

LEMMA FiniteBelow ==
    ASSUME NEW S \in SUBSET Nat, NEW n \in Nat, \A k \in S : k <= n
    PROVE  IsFiniteSet(S)
BY FS_BoundedSetOfNaturals

LEMMA WaitsForNone ==
    ASSUME TypeOK, NEW c \in Conns, Cardinality(waiting[c]) < 1
    PROVE  waiting[c] = {}
<1>1. waiting[c] \in SUBSET Ids
  BY DEF TypeOK
<1>2. waiting[c] \in SUBSET Nat /\ \A k \in waiting[c] : k <= NumFiles
  BY <1>1, NumFilesAssumption DEF Ids
<1>3. IsFiniteSet(waiting[c])
  BY <1>2, NumFilesAssumption, FiniteBelow
<1>4. QED
  BY <1>3, FS_CardinalityType, FS_EmptySet

LEMMA SendInv ==
    ASSUME IInv, NEW c \in Conns, Send(c)
    PROVE  IInv'
<1> DEFINE r == [reader[c] EXCEPT !.pc = "header", !.message = next[c], !.sendid = next[c]]
<1> USE DEF IInv
<1>1. next[c] \in Ids /\ next[c] \in Nat
  BY NumFilesAssumption DEF Send, TypeOK, Ids
<1>2. reader[c] \in Reader
  BY DEF TypeOK, Reader
<1>3. /\ r \in Reader
      /\ r.pc = "header" /\ r.message = next[c] /\ r.sendid = next[c]
  BY <1>1, <1>2 DEF Reader, ReaderPCs
<1>4. reader' = [reader EXCEPT ![c] = r]
  BY DEF Send
<1> HIDE DEF r
<1>5. /\ reader' \in [Conns -> Reader]
      /\ reader'[c] = r
      /\ \A d \in Conns \ {c} : reader'[d] = reader[d]
  BY <1>3, <1>4, SetReader
<1>6. /\ UNCHANGED <<task, wire, confirmed, refused, streams, inserted, bounds, used>>
      /\ waiting' = [waiting EXCEPT ![c] = @ \cup {next[c]}]
      /\ next' = [next EXCEPT ![c] = @ + 1]
  BY DEF Send, btrdb
<1>7. next' \in [Conns -> 0 .. NumFiles] /\ waiting' \in [Conns -> SUBSET Ids]
  BY NumFilesAssumption, <1>1, <1>6 DEF TypeOK, Ids
<1>8. TypeOK'
  BY <1>5, <1>6, <1>7 DEF TypeOK, Reader
<1>9. MessageInv'
  BY <1>1, <1>3, <1>5 DEF MessageInv
<1>10. ASSUME bounds'.window = 1, NEW d \in Conns PROVE OneAtATime(d)'
  <2>1. OneAtATime(d) /\ OneAtATime(c)
    BY <1>6, <1>10
  <2>2. CASE d # c
    <3>1. waiting'[d] = waiting[d]
      BY <1>6, <2>2 DEF TypeOK
    <3>2. QED
      BY <1>5, <1>6, <2>1, <2>2, <3>1, Frame
  <2>3. CASE d = c
    <3>1. waiting[c] = {}
      BY <1>6, <1>10, WaitsForNone DEF Send
    <3>2. waiting'[c] = {next[c]}
      BY <1>6, <3>1 DEF TypeOK
    <3>3. wire[c] = <<>> /\ \A i \in Ids : ~Active(c, i)
      BY <2>1, <3>1, Quiet
    <3>4. ReaderInv(c)'
      BY <1>3, <1>5, <1>6, <3>2, <3>3 DEF ReaderInv, Active
    <3>5. TaskInv(c)'
      BY <1>6, <2>1, <3>3 DEF OneAtATime, TaskInv, Active
    <3>6. WireInv(c)'
      BY <1>6, <3>3 DEF WireInv
    <3>7. ClientInv(c)'
      BY <1>6, <2>1, <3>2 DEF OneAtATime, ClientInv, True
    <3>8. QED
      BY <2>3, <3>4, <3>5, <3>6, <3>7 DEF OneAtATime
  <2>4. QED
    BY <2>2, <2>3
<1>11. QED
  BY <1>8, <1>9, <1>10

LEMMA ReceiveInv ==
    ASSUME IInv, NEW c \in Conns, Receive(c)
    PROVE  IInv'
<1> DEFINE r == [reader[c] EXCEPT !.pc = "idle", !.data = reader[c].message]
<1> USE DEF IInv
<1>1. reader[c] \in Reader
  BY DEF TypeOK, Reader
<1>2. PICK m \in Ids : m = reader[c].message /\ m \in Nat
  BY <1>1 DEF Receive, MessageInv, Reader
<1>3. /\ r \in Reader
      /\ r.pc = "idle" /\ r.data = m /\ r.sendid = reader[c].sendid
  BY <1>1, <1>2 DEF Reader, ReaderPCs, File
<1>4. reader' = [reader EXCEPT ![c] = r]
  BY DEF Receive
<1> HIDE DEF r
<1>5. /\ reader' \in [Conns -> Reader]
      /\ reader'[c] = r
      /\ \A d \in Conns \ {c} : reader'[d] = reader[d]
  BY <1>3, <1>4, SetReader
<1>6. /\ UNCHANGED <<wire, next, waiting, confirmed, refused, streams, inserted, bounds, used>>
      /\ Goto(c, m, "queued")
  BY <1>2 DEF Receive, Goto, client, btrdb
<1>7. /\ task' \in [Conns -> [Ids -> Task]]
      /\ task'[c][m].pc = "queued" /\ task'[c][m].resp = task[c][m].resp
      /\ \A d \in Conns, j \in Ids : d # c \/ j # m => task'[d][j] = task[d][j]
  BY <1>6, GotoFacts DEF TaskPCs
<1>8. TypeOK'
  BY <1>5, <1>6, <1>7 DEF TypeOK, Reader, Task
<1>9. MessageInv'
  BY <1>3, <1>5 DEF MessageInv
<1>10. ASSUME bounds'.window = 1, NEW d \in Conns PROVE OneAtATime(d)'
  <2>1. OneAtATime(d) /\ OneAtATime(c)
    BY <1>6, <1>10
  <2>2. CASE d # c
    BY <1>5, <1>6, <1>7, <2>1, <2>2, Frame
  <2>3. CASE d = c
    <3>1. /\ waiting[c] = {m} /\ reader[c].sendid = m
          /\ wire[c] = <<>> /\ \A i \in Ids : ~Active(c, i)
      BY <1>2, <2>1 DEF Receive, OneAtATime, ReaderInv
    <3>2. ReaderInv(c)' /\ WireInv(c)'
      BY <1>3, <1>5, <1>6, <3>1 DEF ReaderInv, WireInv
    <3>3. TaskInv(c)'
      <4>1. \A i \in Ids : task[c][i].resp = Garbage
        BY <2>1, <3>1 DEF OneAtATime, TaskInv
      <4>2. \A i \in Ids \ {m} : ~Active(c, i)' /\ task'[c][i].resp = Garbage
        BY <1>7, <3>1, <4>1 DEF Active
      <4>3. task'[c][m].pc = "queued" /\ task'[c][m].resp = Garbage
        BY <1>7, <4>1
      <4>4. /\ waiting'[c] = {m} /\ wire'[c] = <<>>
            /\ reader'[c].sendid = m /\ reader'[c].data = m
        BY <1>3, <1>5, <1>6, <3>1
      <4>5. QED
        BY <4>2, <4>3, <4>4 DEF TaskInv, Active
    <3>4. ClientInv(c)'
      BY <1>6, <2>1 DEF OneAtATime, ClientInv, True
    <3>5. QED
      BY <2>3, <3>2, <3>3, <3>4 DEF OneAtATime
  <2>4. QED
    BY <2>2, <2>3
<1>11. QED
  BY <1>8, <1>9, <1>10

\* A client that waits has sent nothing that could be read with the end of a message.
LEMMA OverreadInv ==
    ASSUME IInv, NEW c \in Conns, Overread(c)
    PROVE  IInv'
<1> DEFINE r == [reader[c] EXCEPT !.pc = "astray", !.data = reader[c].message,
                                  !.message = next[c]]
<1> USE DEF IInv
<1>1. next[c] \in Ids /\ next[c] \in Nat
  BY NumFilesAssumption DEF Overread, TypeOK, Ids
<1>2. reader[c] \in Reader /\ reader[c].pc = "header"
  BY DEF TypeOK, Reader, Overread
<1>3. PICK m \in Ids : m = reader[c].message /\ m \in Nat
  BY <1>2 DEF MessageInv, Reader
<1>4. r \in Reader /\ r.pc = "astray" /\ r.message = next[c]
  BY <1>1, <1>2, <1>3 DEF Reader, ReaderPCs, File
<1>5. reader' = [reader EXCEPT ![c] = r]
  BY DEF Overread
<1> HIDE DEF r
<1>6. /\ reader' \in [Conns -> Reader]
      /\ reader'[c] = r
      /\ \A d \in Conns \ {c} : reader'[d] = reader[d]
  BY <1>4, <1>5, SetReader
<1>7. /\ UNCHANGED <<wire, confirmed, refused, streams, inserted, bounds, used>>
      /\ waiting' = [waiting EXCEPT ![c] = @ \cup {next[c]}]
      /\ next' = [next EXCEPT ![c] = @ + 1]
      /\ Goto(c, m, "queued")
  BY <1>3 DEF Overread, Goto, btrdb
<1>8. task' \in [Conns -> [Ids -> Task]]
  BY <1>7, GotoFacts DEF TaskPCs
<1>9. next' \in [Conns -> 0 .. NumFiles] /\ waiting' \in [Conns -> SUBSET Ids]
  BY NumFilesAssumption, <1>1, <1>7 DEF TypeOK, Ids
<1>10. TypeOK'
  BY <1>6, <1>7, <1>8, <1>9 DEF TypeOK, Reader, Task
<1>11. MessageInv'
  BY <1>1, <1>4, <1>6 DEF MessageInv
<1>12. bounds'.window # 1
  <2> SUFFICES ASSUME bounds.window = 1 PROVE FALSE
    BY <1>7
  <2>1. waiting[c] = {m}
    BY <1>2, <1>3 DEF OneAtATime, ReaderInv
  <2>2. waiting[c] = {}
    BY WaitsForNone DEF Overread
  <2>3. QED
    BY <2>1, <2>2
<1>13. QED
  BY <1>10, <1>11, <1>12

\* So its reader does not go astray.
LEMMA StrayInv ==
    ASSUME IInv, NEW c \in Conns, Stray(c)
    PROVE  IInv'
<1> USE DEF IInv
<1>1. reader[c] \in Reader /\ reader[c].pc = "astray"
  BY DEF TypeOK, Reader, Stray
<1>2. PICK m \in Ids : m = reader[c].message
  BY <1>1 DEF MessageInv
<1>3. UNCHANGED <<wire, next, waiting, confirmed, refused, streams, inserted, bounds, used>>
  BY DEF Stray, client, btrdb
<1>4. PICK r \in Reader : reader' = [reader EXCEPT ![c] = r] /\ r.pc \in {"closed", "lost"}
  <2>1. CASE reader' = [reader EXCEPT ![c].pc = "closed"]
    <3>1. /\ [reader[c] EXCEPT !.pc = "closed"] \in Reader
          /\ [reader[c] EXCEPT !.pc = "closed"].pc = "closed"
      BY <1>1 DEF Reader, ReaderPCs
    <3>2. QED
      BY <2>1, <3>1
  <2>2. CASE \E id \in Ids \cup {NumFiles} :
                reader' = [reader EXCEPT ![c].pc = "lost", ![c].sendid = id,
                                         ![c].data = Garbage]
    <3>1. PICK id \in Ids \cup {NumFiles} :
             reader' = [reader EXCEPT ![c].pc = "lost", ![c].sendid = id,
                                      ![c].data = Garbage]
      BY <2>2
    <3>2. id \in Nat
      BY NumFilesAssumption DEF Ids
    <3> DEFINE r == [reader[c] EXCEPT !.pc = "lost", !.sendid = id, !.data = Garbage]
    <3>3. r \in Reader /\ r.pc = "lost"
      BY <1>1, <3>2 DEF Reader, ReaderPCs, File
    <3>4. reader' = [reader EXCEPT ![c] = r]
      BY <3>1
    <3> HIDE DEF r
    <3>5. QED
      BY <3>3, <3>4
  <2>3. QED
    BY <2>1, <2>2 DEF Stray
<1>5. /\ reader' \in [Conns -> Reader]
      /\ reader'[c] = r
      /\ \A d \in Conns \ {c} : reader'[d] = reader[d]
  BY <1>4, SetReader
<1>6. task' \in [Conns -> [Ids -> Task]]
  <2>1. CASE UNCHANGED task
    BY <2>1, Types
  <2>2. CASE task' = [task EXCEPT ![c][reader[c].message].pc = "queued"]
    <3>1. Goto(c, m, "queued")
      BY <1>2, <2>2 DEF Goto
    <3>2. QED
      BY <3>1, GotoFacts DEF TaskPCs
  <2>3. QED
    BY <2>1, <2>2 DEF Stray
<1>7. TypeOK'
  BY <1>3, <1>5, <1>6 DEF TypeOK, Reader, Task
<1>8. MessageInv'
  BY <1>4, <1>5 DEF MessageInv
<1>9. bounds'.window # 1
  BY <1>1, <1>3 DEF OneAtATime, ReaderInv
<1>10. QED
  BY <1>7, <1>8, <1>9

\* Connections end, and goroutines with the process or not.
LEMMA EndInv ==
    ASSUME IInv, used' \in [Kinds -> Nat],
           streams' = streams, reader' \in [Conns -> Reader],
           \A c \in Conns :
              \/ reader'[c] = reader[c]
              \/ /\ reader'[c].pc = "closed"
                 /\ reader'[c].sendid = reader[c].sendid /\ reader'[c].data = reader[c].data,
           task' = task \/ task' = [c \in Conns |-> [i \in Ids |-> NoTask]],
           UNCHANGED <<wire, next, waiting, confirmed, refused, inserted, bounds>>
    PROVE  IInv'
<1> USE DEF IInv
<1>1. NoTask \in Task /\ NoTask.pc = "none" /\ NoTask.resp = Garbage
  BY DEF NoTask, Task, TaskPCs, File
<1>2. task' \in [Conns -> [Ids -> Task]]
  BY <1>1 DEF TypeOK, Task
<1>3. \A c \in Conns, i \in Ids : task'[c][i] = task[c][i] \/ task'[c][i] = NoTask
  OBVIOUS
<1>4. TypeOK'
  BY <1>2 DEF TypeOK, Reader, Task
<1>5. MessageInv'
  BY DEF MessageInv
<1>6. ASSUME bounds'.window = 1, NEW c \in Conns PROVE OneAtATime(c)'
  <2>1. OneAtATime(c)
    BY <1>6
  <2>2. ReaderInv(c)'
    BY <1>1, <1>3, <2>1 DEF OneAtATime, ReaderInv, Active
  <2>3. TaskInv(c)'
    BY <1>1, <1>3, <2>1 DEF OneAtATime, TaskInv, Active
  <2>4. WireInv(c)' /\ ClientInv(c)'
    BY <2>1 DEF OneAtATime, WireInv, ClientInv, True
  <2>5. QED
    BY <2>2, <2>3, <2>4 DEF OneAtATime
<1>7. QED
  BY <1>4, <1>5, <1>6

LEMMA FatalInv ==
    ASSUME IInv, Fatal, used' \in [Kinds -> Nat], streams' = streams,
           UNCHANGED <<wire, next, waiting, confirmed, refused, inserted, bounds>>
    PROVE  IInv'
<1>1. \A c \in Conns : reader[c] \in Reader
  BY DEF IInv, TypeOK, Reader
<1>2. \A c \in Conns : /\ [reader[c] EXCEPT !.pc = "closed"] \in Reader
                       /\ [reader[c] EXCEPT !.pc = "closed"].pc = "closed"
                       /\ [reader[c] EXCEPT !.pc = "closed"].sendid = reader[c].sendid
                       /\ [reader[c] EXCEPT !.pc = "closed"].data = reader[c].data
  BY <1>1 DEF Reader, ReaderPCs
<1>3. \A c \in Conns : reader'[c] = [reader[c] EXCEPT !.pc = "closed"]
  BY DEF Fatal
<1>4. reader' \in [Conns -> Reader]
  BY <1>2 DEF Fatal
<1>5. QED
  BY <1>2, <1>3, <1>4, EndInv DEF Fatal

LEMMA BreakInv ==
    ASSUME IInv, NEW c \in Conns, Break(c)
    PROVE  IInv'
<1> DEFINE r == [reader[c] EXCEPT !.pc = "closed"]
<1>1. reader[c] \in Reader
  BY DEF IInv, TypeOK, Reader
<1>2. /\ r \in Reader /\ r.pc = "closed"
      /\ r.sendid = reader[c].sendid /\ r.data = reader[c].data
  BY <1>1 DEF Reader, ReaderPCs
<1>3. reader' = [reader EXCEPT ![c] = r]
  BY DEF Break
<1> HIDE DEF r
<1>4. /\ reader' \in [Conns -> Reader] /\ reader'[c] = r
      /\ \A d \in Conns \ {c} : reader'[d] = reader[d]
  BY <1>2, <1>3, SetReader DEF IInv
<1>5. used' \in [Kinds -> Nat]
  BY UseFacts DEF Break, IInv, Kinds
<1>6. QED
  BY <1>2, <1>4, <1>5, EndInv DEF Break, client, btrdb

LEMMA CrashInv == IInv /\ Crash => IInv'
BY FatalInv, UseFacts DEF Crash, IInv, Kinds, client, btrdb

-----------------------------------------------------------------------------
(* The answers and the goroutines. *)

LEMMA TailOfOne ==
    ASSUME NEW q \in Seq(Nat), Len(q) = 1
    PROVE  Tail(q) = <<>>
<1>1. Len(<<>>) = 0 /\ \A seq \in Seq(Nat) : seq # <<>> => Len(seq) \in Nat \ {0}
  BY EmptySeq
<1>2. q # <<>>
  BY GarbageAssumption, <1>1
<1>3. Tail(q) \in Seq(Nat) /\ Len(Tail(q)) = Len(q) - 1
  BY <1>2, HeadTailProperties
<1>4. Len(Tail(q)) \notin Nat \ {0}
  BY <1>3
<1>5. QED
  BY <1>1, <1>3, <1>4

LEMMA TakeAnswerInv ==
    ASSUME IInv, NEW c \in Conns, TakeAnswer(c)
    PROVE  IInv'
<1> DEFINE answer == Head(wire[c])
           oldest == {i \in waiting[c] : \A j \in waiting[c] : i <= j}
<1> USE DEF IInv
<1>1. /\ wire[c] # <<>> /\ wire' = [wire EXCEPT ![c] = Tail(@)]
      /\ UNCHANGED <<reader, task, next, streams, inserted, bounds, used>>
  BY DEF TakeAnswer, server, btrdb
<1>2. wire[c] \in Seq(Nat) /\ waiting[c] \subseteq Ids
  BY DEF TypeOK
<1>3. /\ wire' \in [Conns -> Seq(Nat)] /\ wire'[c] = Tail(wire[c])
      /\ \A d \in Conns \ {c} : wire'[d] = wire[d]
  BY <1>1, <1>2, Types
<1>4. oldest \subseteq waiting[c]
  OBVIOUS
<1>5. \/ /\ answer \in waiting[c]
         /\ confirmed' = [confirmed EXCEPT ![c] = @ \cup {answer}]
         /\ waiting' = [waiting EXCEPT ![c] = @ \ {answer}]
         /\ UNCHANGED refused
      \/ /\ answer \notin waiting[c]
         /\ refused' = [refused EXCEPT ![c] = @ \cup oldest]
         /\ waiting' = [waiting EXCEPT ![c] = @ \ oldest]
         /\ UNCHANGED confirmed
  BY DEF TakeAnswer
<1> HIDE DEF oldest
<1>6. /\ confirmed' \in [Conns -> SUBSET Ids] /\ refused' \in [Conns -> SUBSET Ids]
      /\ waiting' \in [Conns -> SUBSET Ids]
      /\ \/ /\ answer \in waiting[c] /\ waiting'[c] = waiting[c] \ {answer}
            /\ confirmed'[c] = confirmed[c] \cup {answer} /\ refused'[c] = refused[c]
         \/ /\ answer \notin waiting[c] /\ waiting'[c] = waiting[c] \ oldest
            /\ refused'[c] = refused[c] \cup oldest /\ confirmed'[c] = confirmed[c]
      /\ \A d \in Conns \ {c} : /\ waiting'[d] = waiting[d]
                                /\ confirmed'[d] = confirmed[d] /\ refused'[d] = refused[d]
  <2>1. CASE /\ answer \in waiting[c]
             /\ confirmed' = [confirmed EXCEPT ![c] = @ \cup {answer}]
             /\ waiting' = [waiting EXCEPT ![c] = @ \ {answer}]
             /\ UNCHANGED refused
    <3>1. answer \in Ids
      BY <1>2, <2>1
    <3> HIDE DEF answer
    <3>2. QED
      BY <2>1, <3>1, Types
  <2>2. CASE /\ answer \notin waiting[c]
             /\ refused' = [refused EXCEPT ![c] = @ \cup oldest]
             /\ waiting' = [waiting EXCEPT ![c] = @ \ oldest]
             /\ UNCHANGED confirmed
    BY <1>2, <1>4, <2>2, Types
  <2>3. QED
    BY <1>5, <2>1, <2>2
<1>7. TypeOK'
  BY <1>1, <1>3, <1>6 DEF TypeOK
<1>8. MessageInv'
  BY <1>1 DEF MessageInv
<1>9. ASSUME bounds'.window = 1, NEW d \in Conns PROVE OneAtATime(d)'
  <2>1. OneAtATime(d) /\ OneAtATime(c)
    BY <1>1, <1>9
  <2>2. CASE d # c
    <3>1. /\ wire'[d] = wire[d] /\ waiting'[d] = waiting[d]
          /\ confirmed'[d] = confirmed[d] /\ refused'[d] = refused[d]
      BY <1>3, <1>6, <2>2
    <3>2. QED
      BY <1>1, <2>1, <3>1, Frame
  <2>3. CASE d = c
    <3>1. PICK i \in Ids : waiting[c] = {i} /\ True(c, i, answer) /\ Len(wire[c]) = 1
      BY <1>1, <2>1 DEF OneAtATime, WireInv
    <3>2. i \in Nat
      BY DEF Ids
    <3>3. oldest = {i}
      BY <3>1, <3>2 DEF oldest
    <3>4. wire'[c] = <<>>
      BY <1>2, <1>3, <3>1, TailOfOne
    <3>5. waiting'[c] = {}
      BY <1>6, <3>1, <3>3
    <3>6. \A j \in Ids : ~Active(c, j)
      BY <1>1, <2>1 DEF OneAtATime, TaskInv
    <3>7. reader[c].pc \notin {"header", "astray", "lost"}
      BY <1>1, <2>1 DEF OneAtATime, ReaderInv
    <3>8. ReaderInv(c)' /\ WireInv(c)'
      BY <1>1, <3>4, <3>7 DEF ReaderInv, WireInv
    <3>9. TaskInv(c)'
      BY <1>1, <2>1, <3>6 DEF OneAtATime, TaskInv, Active
    <3>10. /\ \A j \in confirmed'[c] : j \in confirmed[c] \/ (j = i /\ True(c, i, i))
           /\ \A j \in refused'[c] : j \in refused[c] \/ (j = i /\ <<c, i>> \in bounds.bad)
      BY <1>6, <3>1, <3>3 DEF True
    <3>11. ClientInv(c)'
      BY <1>1, <2>1, <3>5, <3>10 DEF OneAtATime, ClientInv, True
    <3>12. QED
      BY <2>3, <3>8, <3>9, <3>11 DEF OneAtATime
  <2>4. QED
    BY <2>2, <2>3
<1>10. QED
  BY <1>7, <1>8, <1>9

\* A goroutine goes on with its file.
LEMMA GoesOnInv ==
    ASSUME IInv, NEW c \in Conns, NEW i \in Ids, Active(c, i),
           task' \in [Conns -> [Ids -> Task]],
           \A d \in Conns, j \in Ids : d # c \/ j # i => task'[d][j] = task[d][j],
           task'[c][i].pc # "none",
           UNCHANGED <<reader, wire, next, waiting, confirmed, refused, bounds, used>>,
           streams' \subseteq Serials, inserted \subseteq inserted',
           inserted' \subseteq Conns \X File,
           bounds.window = 1 /\ TaskInv(c) =>
              /\ task'[c][i].pc \in {"exists", "create", "insert"} => task'[c][i].file = i
              /\ task'[c][i].pc # "reply" => task'[c][i].resp = Garbage
              /\ task'[c][i].pc = "reply" =>
                    \/ task'[c][i].resp = FAILUREMSG /\ <<c, i>> \in bounds.bad
                    \/ task'[c][i].resp = Garbage /\ <<c, i>> \in inserted'
    PROVE  IInv'
<1> USE DEF IInv
<1>1. TypeOK'
  BY DEF TypeOK, Task
<1>2. MessageInv'
  BY DEF MessageInv
<1>3. ASSUME bounds'.window = 1, NEW d \in Conns PROVE OneAtATime(d)'
  <2>1. OneAtATime(d) /\ OneAtATime(c)
    BY <1>3
  <2>2. CASE d # c
    BY <2>1, <2>2, Frame
  <2>3. CASE d = c
    <3>1. /\ waiting[c] = {i} /\ wire[c] = <<>>
          /\ reader[c].pc \notin {"header", "astray", "lost"}
      BY <2>1 DEF OneAtATime, TaskInv, ReaderInv
    <3>2. ReaderInv(c)' /\ WireInv(c)'
      BY <3>1 DEF ReaderInv, WireInv
    <3>3. ClientInv(c)'
      BY <2>1 DEF OneAtATime, ClientInv, True
    <3>4. TaskInv(c)
      BY <2>1 DEF OneAtATime
    <3>5. \A j \in Ids \ {i} : ~Active(c, j) /\ task'[c][j] = task[c][j]
                               /\ task[c][j].resp = Garbage
      BY <3>1, <3>4 DEF TaskInv
    <3>6. TaskInv(c)'
      BY <1>3, <3>1, <3>4, <3>5 DEF TaskInv, Active
    <3>7. QED
      BY <2>3, <3>2, <3>3, <3>6 DEF OneAtATime
  <2>4. QED
    BY <2>2, <2>3
<1>4. QED
  BY <1>1, <1>2, <1>3

LEMMA AcquireInv ==
    ASSUME IInv, NEW c \in Conns, NEW i \in Ids, Acquire(c, i)
    PROVE  IInv'
<1>1. Active(c, i) /\ task[c][i].pc = "queued"
  BY DEF Acquire, At, Active
<1>2. /\ task' \in [Conns -> [Ids -> Task]]
      /\ task'[c][i].pc = "parse" /\ task'[c][i].resp = task[c][i].resp
      /\ \A d \in Conns, j \in Ids : d # c \/ j # i => task'[d][j] = task[d][j]
  BY GotoFacts DEF Acquire, TaskPCs, IInv
<1>3. TaskInv(c) => /\ task'[c][i].pc \in {"exists", "create", "insert"} => task'[c][i].file = i
                    /\ task'[c][i].pc # "reply" /\ task'[c][i].resp = Garbage
  BY <1>1, <1>2 DEF TaskInv
<1>4. UNCHANGED <<reader, wire, next, waiting, confirmed, refused, streams, inserted, bounds, used>>
  BY DEF Acquire, client, btrdb
<1>5. QED
  BY <1>1, <1>2, <1>3, <1>4, Types, GoesOnInv DEF IInv

LEMMA ExistsInv ==
    ASSUME IInv, NEW c \in Conns, NEW i \in Ids, Exists(c, i)
    PROVE  IInv'
<1>1. Active(c, i) /\ task[c][i].pc = "exists"
  BY DEF Exists, At, Active
<1>2. PICK where \in {"insert", "create"} : Goto(c, i, where)
  BY DEF Exists
<1>3. /\ task' \in [Conns -> [Ids -> Task]]
      /\ task'[c][i].pc = where
      /\ task'[c][i].file = task[c][i].file /\ task'[c][i].resp = task[c][i].resp
      /\ \A d \in Conns, j \in Ids : d # c \/ j # i => task'[d][j] = task[d][j]
  BY <1>2, GotoFacts DEF TaskPCs, IInv
<1>4. TaskInv(c) => /\ task'[c][i].pc \in {"exists", "create", "insert"} => task'[c][i].file = i
                    /\ task'[c][i].pc # "reply" /\ task'[c][i].resp = Garbage
  BY <1>1, <1>3 DEF TaskInv
<1>5. UNCHANGED <<reader, wire, next, waiting, confirmed, refused, streams, inserted, bounds, used>>
  BY DEF Exists, client, btrdb
<1>6. QED
  BY <1>1, <1>3, <1>4, <1>5, Types, GoesOnInv DEF IInv

LEMMA ParseInv ==
    ASSUME IInv, NEW c \in Conns, NEW i \in Ids, Parse(c, i)
    PROVE  IInv'
<1>1. Active(c, i) /\ task[c][i].pc = "parse"
  BY DEF Parse, At, Active
<1>2. PICK f \in Seen(c) :
        task' = [task EXCEPT ![c][i] =
                    IF Parseable(c, f)
                    THEN [pc |-> "exists", file |-> f, resp |-> Garbage]
                    ELSE [pc |-> "reply", file |-> Garbage, resp |-> FAILUREMSG]]
  BY DEF Parse
<1>3. f \in File
  BY DEF Seen, IInv, TypeOK, File
<1> DEFINE t == IF Parseable(c, f)
                THEN [pc |-> "exists", file |-> f, resp |-> Garbage]
                ELSE [pc |-> "reply", file |-> Garbage, resp |-> FAILUREMSG]
<1>4. t \in Task /\ t.pc # "none"
  BY <1>3 DEF Task, TaskPCs, File
<1>5. bounds.window = 1 /\ TaskInv(c) =>
         /\ t.pc \in {"exists", "create", "insert"} => t.file = i
         /\ t.pc # "reply" => t.resp = Garbage
         /\ t.pc = "reply" => t.resp = FAILUREMSG /\ <<c, i>> \in bounds.bad
  <2> SUFFICES ASSUME bounds.window = 1, TaskInv(c)
               PROVE  /\ t.pc \in {"exists", "create", "insert"} => t.file = i
                      /\ t.pc # "reply" => t.resp = Garbage
                      /\ t.pc = "reply" => t.resp = FAILUREMSG /\ <<c, i>> \in bounds.bad
    OBVIOUS
  <2>1. reader[c].data = i /\ reader[c].pc \notin {"header", "astray"}
    BY <1>1 DEF TaskInv, IInv, OneAtATime, ReaderInv
  <2>2. f = i /\ f # Garbage
    BY GarbageAssumption, <2>1 DEF Seen, Ids
  <2>3. QED
    BY <2>2 DEF Parseable
<1>6. task' = [task EXCEPT ![c][i] = t]
  BY <1>2
<1> HIDE DEF t
<1>7. /\ task' \in [Conns -> [Ids -> Task]] /\ task'[c][i] = t
      /\ \A d \in Conns, j \in Ids : d # c \/ j # i => task'[d][j] = task[d][j]
  BY <1>4, <1>6, Types DEF IInv
<1>8. UNCHANGED <<reader, wire, next, waiting, confirmed, refused, streams, inserted, bounds, used>>
  BY DEF Parse, client, btrdb
<1>9. QED
  BY <1>1, <1>4, <1>5, <1>7, <1>8, Types, GoesOnInv DEF IInv

LEMMA CreateInv ==
    ASSUME IInv, NEW c \in Conns, NEW i \in Ids, Create(c, i)
    PROVE  IInv'
<1>1. UNCHANGED <<wire, next, waiting, confirmed, refused, inserted, bounds, used>>
  BY DEF Create, client
<1>2. CASE Fatal /\ UNCHANGED streams
  BY <1>1, <1>2, FatalInv DEF IInv, TypeOK
<1>3. CASE /\ streams' = streams \cup {Serial[c]} /\ Goto(c, i, "insert")
           /\ UNCHANGED reader
  <2>1. Active(c, i) /\ task[c][i].pc = "create"
    BY DEF Create, At, Active
  <2>2. /\ task' \in [Conns -> [Ids -> Task]]
        /\ task'[c][i].pc = "insert"
        /\ task'[c][i].file = task[c][i].file /\ task'[c][i].resp = task[c][i].resp
        /\ \A d \in Conns, j \in Ids : d # c \/ j # i => task'[d][j] = task[d][j]
    BY <1>3, GotoFacts DEF TaskPCs, IInv
  <2>3. streams' \subseteq Serials
    BY ConnsAssumption, <1>3 DEF IInv, TypeOK
  <2>4. TaskInv(c) => task'[c][i].file = i /\ task'[c][i].resp = Garbage
    BY <2>1, <2>2 DEF TaskInv
  <2>5. QED
    BY <1>1, <1>3, <2>1, <2>2, <2>3, <2>4, Types, GoesOnInv DEF IInv
<1>4. QED
  BY <1>2, <1>3 DEF Create

LEMMA InsertInv ==
    ASSUME IInv, NEW c \in Conns, NEW i \in Ids, Insert(c, i)
    PROVE  IInv'
<1>1. Active(c, i) /\ task[c][i].pc = "insert"
  BY DEF Insert, At, Active
<1>2. /\ task' \in [Conns -> [Ids -> Task]]
      /\ task'[c][i].pc = "reply"
      /\ task'[c][i].file = task[c][i].file /\ task'[c][i].resp = task[c][i].resp
      /\ \A d \in Conns, j \in Ids : d # c \/ j # i => task'[d][j] = task[d][j]
  BY GotoFacts DEF Insert, TaskPCs, IInv
<1>3. inserted' = inserted \cup {<<c, task[c][i].file>>} /\ task[c][i].file \in File
  BY DEF Insert, IInv, TypeOK
<1>4. inserted' \subseteq Conns \X File
  BY <1>3 DEF IInv, TypeOK
<1>5. TaskInv(c) => task'[c][i].resp = Garbage /\ <<c, i>> \in inserted'
  BY <1>1, <1>2, <1>3 DEF TaskInv
<1>6. QED
  BY <1>1, <1>2, <1>3, <1>4, <1>5, GoesOnInv DEF Insert, client, IInv, TypeOK

LEMMA ReplyInv ==
    ASSUME IInv, NEW c \in Conns, NEW i \in Ids, Reply(c, i)
    PROVE  IInv'
<1> DEFINE answer == IF task[c][i].resp = FAILUREMSG THEN FAILUREMSG ELSE reader[c].sendid
<1> USE DEF IInv
<1>1. /\ Active(c, i) /\ task[c][i].pc = "reply"
      /\ task' = [task EXCEPT ![c][i] = NoTask]
      /\ UNCHANGED <<reader, next, waiting, confirmed, refused, streams, inserted, bounds, used>>
  BY DEF Reply, At, Active, client, btrdb
<1>2. NoTask \in Task /\ NoTask.pc = "none" /\ NoTask.resp = Garbage
  BY DEF NoTask, Task, TaskPCs, File
<1>3. /\ task' \in [Conns -> [Ids -> Task]] /\ task'[c][i] = NoTask
      /\ \A d \in Conns, j \in Ids : d # c \/ j # i => task'[d][j] = task[d][j]
  BY <1>1, <1>2, Types
<1>4. answer \in Nat
  BY DEF TypeOK
<1>5. wire' = wire \/ wire' = [wire EXCEPT ![c] = Append(@, answer)]
  BY DEF Reply
<1> HIDE DEF answer
<1>6. /\ wire' \in [Conns -> Seq(Nat)]
      /\ wire'[c] = wire[c] \/ wire'[c] = Append(wire[c], answer)
      /\ \A d \in Conns \ {c} : wire'[d] = wire[d]
  <2>1. Append(wire[c], answer) \in Seq(Nat)
    BY <1>4, Types
  <2>2. QED
    BY <1>5, <2>1, Types
<1>7. TypeOK'
  BY <1>1, <1>3, <1>6 DEF TypeOK, Task
<1>8. MessageInv'
  BY <1>1 DEF MessageInv
<1>9. ASSUME bounds'.window = 1, NEW d \in Conns PROVE OneAtATime(d)'
  <2>1. OneAtATime(d) /\ OneAtATime(c)
    BY <1>1, <1>9
  <2>2. CASE d # c
    <3>1. wire'[d] = wire[d]
      BY <1>6, <2>2
    <3>2. QED
      BY <1>1, <1>3, <2>1, <2>2, <3>1, Frame
  <2>3. CASE d = c
    <3>1. /\ waiting[c] = {i} /\ wire[c] = <<>> /\ reader[c].sendid = i
          /\ reader[c].pc \notin {"header", "astray", "lost"}
      BY <1>1, <2>1 DEF OneAtATime, TaskInv, ReaderInv
    <3>2. TaskInv(c)
      BY <2>1 DEF OneAtATime
    <3>3. True(c, i, answer)
      BY GarbageAssumption, <1>1, <3>1, <3>2 DEF TaskInv, True, answer
    <3>4. wire'[c] = <<>> \/ wire'[c] = <<answer>>
      BY <1>4, <1>6, <3>1
    <3>5. WireInv(c)'
      <4>1. PICK a \in Nat : a = answer
        BY <1>4
      <4>2. Len(<<a>>) = 1 /\ Head(<<a>>) = a
        OBVIOUS
      <4>3. wire'[c] # <<>> => Len(wire'[c]) = 1 /\ Head(wire'[c]) = answer
        BY <3>4, <4>1, <4>2
      <4>4. QED
        BY <1>1, <3>1, <3>3, <4>3 DEF WireInv, True
    <3>6. ReaderInv(c)'
      BY <1>1, <3>1 DEF ReaderInv
    <3>7. ClientInv(c)'
      BY <1>1, <2>1 DEF OneAtATime, ClientInv, True
    <3>8. \A j \in Ids \ {i} : ~Active(c, j) /\ task'[c][j] = task[c][j]
                               /\ task[c][j].resp = Garbage
      BY <1>3, <3>1, <3>2 DEF TaskInv
    <3>9. TaskInv(c)'
      BY <1>2, <1>3, <3>8 DEF TaskInv, Active
    <3>10. QED
      BY <2>3, <3>5, <3>6, <3>7, <3>9 DEF OneAtATime
  <2>4. QED
    BY <2>2, <2>3
<1>10. QED
  BY <1>7, <1>8, <1>9

-----------------------------------------------------------------------------
LEMMA NextInv == IInv /\ [Next]_vars => IInv'
<1> SUFFICES ASSUME IInv, [Next]_vars PROVE IInv'
  OBVIOUS
<1>1. CASE UNCHANGED vars
  <2>1. TypeOK' /\ MessageInv'
    BY <1>1 DEF vars, server, client, btrdb, IInv, TypeOK, MessageInv
  <2>2. ASSUME bounds'.window = 1, NEW d \in Conns PROVE OneAtATime(d)'
    BY <1>1, <2>2, Frame DEF vars, server, client, btrdb, IInv
  <2>3. QED
    BY <2>1, <2>2 DEF IInv
<1>2. CASE Next
  BY <1>2, SendInv, ReceiveInv, OverreadInv, StrayInv, BreakInv, TakeAnswerInv, AcquireInv,
     ParseInv, ExistsInv, CreateInv, InsertInv, ReplyInv, CrashInv DEF Next, Process
<1>3. QED
  BY <1>1, <1>2

(* One file at a time is on its way between a client that waits for its answer
   and its connection, as an inductive invariant. *)
THEOREM ConnectionInvariant == Spec => []IInv
BY InitInv, NextInv, PTL DEF Spec

(* The variables of Pmu2btrdb keep their types. *)
THEOREM TypeCorrect == Spec => []TypeOK
<1>1. IInv => TypeOK
  BY DEF IInv
<1>2. QED
  BY <1>1, ConnectionInvariant, PTL

(* What is confirmed to a client that waits for its answers is in BTrDB, except
   a first file that is bad; what is refused is bad. *)
THEOREM TruthOfAnswers == Spec => []AnswersAreTrue
<1>1. IInv => AnswersAreTrue
  BY DEF IInv, OneAtATime, ClientInv, True, AnswersAreTrue
<1>2. QED
  BY <1>1, ConnectionInvariant, PTL
=============================================================================
