-------------------------------- MODULE Import --------------------------------
(***************************************************************************)
(* tools/importman: the bulk import of archived files.  The main goroutine *)
(* takes the streams of one file after another and puts them in a channel; *)
(* workers take them out, find or create the stream of BTrDB that each of  *)
(* them goes to, and insert its points chunk by chunk.  A handle is made   *)
(* once for each collection and tags, by the first worker that needs it.   *)
(*                                                                         *)
(* Every error ends the process, and so does a kill; what had been done    *)
(* stays done.  The operator may start the import again, with --continue   *)
(* or with --erase, which implies it.                                      *)
(*                                                                         *)
(* A stream of a file is an Item: its number n in the import, the key      *)
(* (collection and tags) and how many chunks of points it gives.           *)
(***************************************************************************)
EXTENDS Integers, Sequences, FiniteSets

CONSTANTS Keys,         \* collections with tags
          Workers,
          Capacity,     \* of the channel of streams
          None,
          Scenarios     \* the files, what BTrDB holds, and the options

Item == [n : Nat, key : Keys, chunks : Nat]
Option == [continue : BOOLEAN, erase : BOOLEAN]

(* The files, each a set of items; the keys of the streams that BTrDB has
   beforehand, a key twice if a lookup of it finds two; the options that the
   import may be started with; and how often it may be started again. *)
Scenario == [files : Seq(SUBSET Item), before : Seq(Keys),
             options : SUBSET Option, reruns : Nat]

ASSUME WorkersAssumption == Workers # {}
ASSUME CapacityAssumption == Capacity \in Nat \ {0}
ASSUME ScenariosAssumption == Scenarios \subseteq Scenario
ASSUME NoneAssumption == None \notin Nat \cup Item

VARIABLES
    bounds, reruns,
    db,         \* the streams of BTrDB, in the order in which they were created
    option,     \* how the process was started
    main,       \* where the main goroutine is
    cursor,     \* the file that comes next
    todo,       \* the items of the file at hand that are not in the channel yet
    input, closed,  \* the channel
    handle,     \* dw.streams: no entry, one that is not ready, or the stream
    worker

vars == <<bounds, reruns, db, option, main, cursor, todo, input, closed, handle, worker>>
files == <<cursor, todo, closed>>
same == <<bounds, reruns, option>>

NoHandle == 0
Pending == -1

Old == <<"old">>     \* a point that was there before
Idle == [pc |-> "take", item |-> None, chunk |-> 0]

Stream == [key : Keys, live : BOOLEAN, points : SUBSET ((Nat \X Nat) \cup {Old})]

TypeOK ==
    /\ bounds \in Scenario /\ reruns \in 0 .. bounds.reruns
    /\ db \in Seq(Stream)
    /\ option \in Option
    /\ main \in {"files", "enqueue", "wait", "done", "exited"}
    /\ cursor \in 1 .. Len(bounds.files) + 1
    /\ todo \subseteq Item
    /\ input \in Seq(Item) /\ Len(input) <= Capacity
    /\ closed \in BOOLEAN
    /\ handle \in [Keys -> {NoHandle, Pending} \cup DOMAIN db]
    /\ worker \in [Workers -> [pc : {"take", "handle", "lookup", "obliterate", "create",
                                     "wait", "insert", "done"},
                               item : Item \cup {None}, chunk : Nat]]
    /\ \A w \in Workers : worker[w].pc \in {"take", "done"} <=> worker[w].item = None

Init ==
    /\ bounds \in Scenarios /\ reruns = 0
    /\ db = [i \in DOMAIN bounds.before |->
                [key |-> bounds.before[i], live |-> TRUE, points |-> {Old}]]
    /\ option \in bounds.options
    /\ main = "files" /\ cursor = 1
    /\ todo = {} /\ input = <<>> /\ closed = FALSE
    /\ handle = [k \in Keys |-> NoHandle]
    /\ worker = [w \in Workers |-> Idle]

Running == main \notin {"done", "exited"}

-----------------------------------------------------------------------------
(* The main goroutine. *)

\* The streams of the next file.  The loop ends at a file that has none, or
\* after the last, and nothing more comes.
NextFile ==
    /\ main = "files"
    /\ IF cursor <= Len(bounds.files) /\ bounds.files[cursor] # {}
       THEN /\ main' = "enqueue"
            /\ todo' = bounds.files[cursor]
            /\ UNCHANGED closed
       ELSE /\ main' = "wait"
            /\ closed' = TRUE
            /\ UNCHANGED todo
    /\ cursor' = IF cursor <= Len(bounds.files) THEN cursor + 1 ELSE cursor
    /\ UNCHANGED <<db, input, handle, worker>> /\ UNCHANGED same

\* In the order of a Go map.
Enqueue(item) ==
    /\ main = "enqueue"
    /\ item \in todo
    /\ Len(input) < Capacity
    /\ input' = Append(input, item)
    /\ todo' = todo \ {item}
    /\ main' = IF todo' = {} THEN "files" ELSE main
    /\ UNCHANGED <<cursor, closed, db, handle, worker>> /\ UNCHANGED same

Wait ==
    /\ main = "wait"
    /\ \A w \in Workers : worker[w].pc = "done"
    /\ main' = "done"
    /\ UNCHANGED <<db, input, handle, worker>> /\ UNCHANGED files /\ UNCHANGED same

-----------------------------------------------------------------------------
(* The workers. *)

Key(w) == worker[w].item.key

\* What a lookup finds.
Found(key) == {i \in DOMAIN db : db[i].key = key /\ db[i].live}

Goto(w, where) == worker' = [worker EXCEPT ![w].pc = where]

\* os.Exit
Exit == main' = "exited" /\ UNCHANGED <<db, handle, worker>>

\* The worker goes on, and no other goroutine.
Alone == UNCHANGED <<main, input>> /\ UNCHANGED files /\ UNCHANGED same

\* Mutant: nobody asks whether the channel was closed.
TakeAnything(w) ==
    /\ worker[w].pc = "take"
    /\ input # <<>> \/ closed
    /\ IF input # <<>>
       THEN /\ input' = Tail(input)
            /\ worker' = [worker EXCEPT ![w].pc = "handle", ![w].item = Head(input)]
       ELSE /\ worker' = [worker EXCEPT ![w].pc = "handle"]
            /\ UNCHANGED input
    /\ UNCHANGED <<main, db, handle>> /\ UNCHANGED files /\ UNCHANGED same

Take(w) ==
    /\ worker[w].pc = "take"
    /\ \/ /\ input # <<>>
          /\ input' = Tail(input)
          /\ worker' = [worker EXCEPT ![w].pc = "handle", ![w].item = Head(input)]
       \/ /\ input = <<>> /\ closed
          /\ Goto(w, "done")
          /\ UNCHANGED input
    /\ UNCHANGED <<main, db, handle>> /\ UNCHANGED files /\ UNCHANGED same

\* Mutant: the entry is made only when there is a stream to put in it.
FindUnclaimed(w) ==
    /\ worker[w].pc = "handle"
    /\ IF handle[Key(w)] = NoHandle
       THEN Goto(w, IF option.continue THEN "lookup" ELSE "create")
       ELSE Goto(w, "wait")
    /\ UNCHANGED <<db, handle>> /\ Alone

\* getHandleFor: the worker that finds no entry for the key makes one, and is
\* to fill it; the others wait for that.
FindHandle(w) ==
    /\ worker[w].pc = "handle"
    /\ IF handle[Key(w)] = NoHandle
       THEN /\ handle' = [handle EXCEPT ![Key(w)] = Pending]
            /\ Goto(w, IF option.continue THEN "lookup" ELSE "create")
       ELSE /\ Goto(w, "wait")
            /\ UNCHANGED handle
    /\ UNCHANGED db /\ Alone

\* Mutant: the stream that was found is noted, but not that it is ready.
LookupNotReady(w) ==
    /\ worker[w].pc = "lookup"
    /\ \/ /\ Cardinality(Found(Key(w))) = 1
          /\ Goto(w, IF option.erase THEN "obliterate" ELSE "wait")
       \/ /\ Found(Key(w)) = {}
          /\ Goto(w, "create")
    /\ UNCHANGED <<db, handle>> /\ Alone

Lookup(w) ==
    /\ worker[w].pc = "lookup"
    /\ UNCHANGED db
    /\ \/ /\ Cardinality(Found(Key(w))) > 1
          /\ Exit
          /\ UNCHANGED input /\ UNCHANGED files /\ UNCHANGED same
       \/ /\ Cardinality(Found(Key(w))) = 1
          /\ IF option.erase
             THEN Goto(w, "obliterate") /\ UNCHANGED handle
             ELSE /\ Goto(w, "wait")
                  /\ \E i \in Found(Key(w)) : handle' = [handle EXCEPT ![Key(w)] = i]
          /\ Alone
       \/ /\ Found(Key(w)) = {}
          /\ Goto(w, "create")
          /\ UNCHANGED handle
          /\ Alone

Obliterate(w) ==
    /\ worker[w].pc = "obliterate"
    /\ \E i \in Found(Key(w)) : db' = [db EXCEPT ![i].live = FALSE]
    /\ Goto(w, "create")
    /\ UNCHANGED handle /\ Alone

\* BTrDB refuses a stream with the collection and tags of another.
Create(w) ==
    /\ worker[w].pc = "create"
    /\ IF Found(Key(w)) # {}
       THEN /\ Exit
            /\ UNCHANGED input /\ UNCHANGED files /\ UNCHANGED same
       ELSE /\ db' = Append(db, [key |-> Key(w), live |-> TRUE, points |-> {}])
            /\ handle' = [handle EXCEPT ![Key(w)] = Len(db) + 1]
            /\ Goto(w, "wait")
            /\ Alone

\* <-str.ready
Ready(w) ==
    /\ worker[w].pc = "wait"
    /\ handle[Key(w)] > 0
    /\ Goto(w, "insert")
    /\ UNCHANGED <<db, handle>> /\ Alone

\* Mutant: only the first chunk is inserted.
InsertOne(w) ==
    LET item == worker[w].item
        s    == handle[item.key]
    IN
    /\ worker[w].pc = "insert"
    /\ IF worker[w].chunk = 1 \/ item.chunks = 0
       THEN /\ worker' = [worker EXCEPT ![w] = Idle]
            /\ UNCHANGED db
       ELSE /\ db' = [db EXCEPT ![s].points = @ \cup {<<item.n, 1>>}]
            /\ worker' = [worker EXCEPT ![w].chunk = 1]
    /\ UNCHANGED handle /\ Alone

\* The next chunk, until there is none.  An obliterated stream takes no points.
Insert(w) ==
    LET item == worker[w].item
        next == worker[w].chunk + 1
        s    == handle[item.key]
    IN
    /\ worker[w].pc = "insert"
    /\ \/ /\ next > item.chunks
          /\ worker' = [worker EXCEPT ![w] = Idle]
          /\ UNCHANGED <<db, handle>> /\ Alone
       \/ /\ next <= item.chunks /\ db[s].live
          /\ db' = [db EXCEPT ![s].points = @ \cup {<<item.n, next>>}]
          /\ worker' = [worker EXCEPT ![w].chunk = next]
          /\ UNCHANGED handle /\ Alone
       \/ /\ next <= item.chunks /\ ~db[s].live
          /\ Exit
          /\ UNCHANGED input /\ UNCHANGED files /\ UNCHANGED same

Work(w) ==
    \/ Take(w) \/ FindHandle(w) \/ Lookup(w) \/ Obliterate(w) \/ Create(w)
    \/ Ready(w) \/ Insert(w)

\* An operation on BTrDB fails, before or after it has had its effect, or the
\* process is killed.
Fail ==
    /\ Running
    /\ reruns < bounds.reruns
    /\ Exit
    /\ UNCHANGED input /\ UNCHANGED files /\ UNCHANGED same

\* The operator starts it again.
Rerun ==
    /\ main = "exited"
    /\ reruns < bounds.reruns
    /\ reruns' = reruns + 1
    /\ option' \in bounds.options
    /\ main' = "files" /\ cursor' = 1
    /\ todo' = {} /\ input' = <<>> /\ closed' = FALSE
    /\ handle' = [k \in Keys |-> NoHandle]
    /\ worker' = [w \in Workers |-> Idle]
    /\ UNCHANGED <<bounds, db>>

Step ==
    \/ NextFile \/ Wait
    \/ \E item \in todo : Enqueue(item)
    \/ \E w \in Workers : Running /\ Work(w)

Next == Step \/ Fail \/ Rerun

\* A goroutine that can go on does.
Fairness ==
    /\ WF_vars(NextFile \/ Wait \/ \E item \in todo : Enqueue(item))
    /\ \A w \in Workers : WF_vars(Running /\ Work(w))

Spec == Init /\ [][Next]_vars /\ Fairness

-----------------------------------------------------------------------------
(* However many workers meet a key at the same time, they all write to the one
   stream of that key, and never to one that the import has obliterated
   (datawriter.go, getHandleFor). *)
HandlesAreLive ==
    \A k \in Keys : handle[k] > 0 => Found(k) = {handle[k]}

\* The items up to a file that has none.
Imported ==
    UNION {bounds.files[i] : i \in {j \in DOMAIN bounds.files :
                                       \A h \in 1 .. j : bounds.files[h] # {}}}

Points(k) == UNION {{<<item.n, c>> : c \in 1 .. item.chunks} :
                       item \in {it \in Imported : it.key = k}}

(* When the import says that it is complete, the streams of the same collection
   and tags are merged in one, which has all their points, however often the
   import had failed and was started again; with --erase it has no others
   (importcli/main.go, "import complete"; plugins/interface.go, DataSource). *)
CompleteIsComplete ==
    main = "done" =>
        \A k \in {item.key : item \in Imported} :
            \E s \in DOMAIN db :
                /\ Found(k) = {s}
                /\ Points(k) \subseteq db[s].points
                /\ option.erase => db[s].points = Points(k)

(* The import ends: nobody waits for a stream that no one prepares, for room in
   a channel that no one reads, or for workers that do not return. *)
ImportEnds == Running ~> ~Running
=============================================================================
