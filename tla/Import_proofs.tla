---------------------------- MODULE Import_proofs ----------------------------
(***************************************************************************)
(* The bulk import proved for any keys, workers, files and options: the    *)
(* handles that the workers share, and that a complete import is complete. *)
(***************************************************************************)
EXTENDS Import, FiniteSetTheorems, TLAPS

Preparing(w) == worker[w].pc \in {"lookup", "obliterate", "create"}

\* Whoever makes the entry of a key is alone with it until the stream is in it.
Preparers ==
    /\ \A w \in Workers : Preparing(w) => handle[Key(w)] = Pending
    /\ \A v, w \in Workers :
          Preparing(v) /\ Preparing(w) /\ Key(v) = Key(w) => v = w

\* Points are inserted only through a handle that is ready.
Inserters ==
    \A w \in Workers :
       /\ worker[w].pc = "insert" => handle[Key(w)] > 0
       /\ worker[w].pc # "insert" => worker[w].chunk = 0

HandleInv == TypeOK /\ Preparers /\ Inserters /\ HandlesAreLive

WorkerPCs == {"take", "handle", "lookup", "obliterate", "create", "wait", "insert", "done"}

WorkerOK ==
    /\ worker \in [Workers -> [pc : WorkerPCs, item : Item \cup {None}, chunk : Nat]]
    /\ \A w \in Workers : worker[w].pc \in {"take", "done"} <=> worker[w].item = None

USE DEF NoHandle, Pending

-----------------------------------------------------------------------------
LEMMA HandleInit == Init => HandleInv
<1> SUFFICES ASSUME Init PROVE HandleInv
  OBVIOUS
<1>1. TypeOK
  <2>0. bounds \in Scenario /\ option \in bounds.options
    BY ScenariosAssumption DEF Init
  <2>1. /\ bounds.files \in Seq(SUBSET Item) /\ bounds.before \in Seq(Keys)
        /\ option \in Option /\ bounds.reruns \in Nat
    BY <2>0 DEF Scenario
  <2>2. db \in Seq(Stream)
    <3>1. Len(bounds.before) \in Nat /\ DOMAIN bounds.before = 1 .. Len(bounds.before)
      BY <2>1
    <3>2. \A i \in DOMAIN bounds.before :
             [key |-> bounds.before[i], live |-> TRUE, points |-> {Old}] \in Stream
      BY <2>1 DEF Stream
    <3>3. db \in [1 .. Len(bounds.before) -> Stream]
      BY <3>1, <3>2 DEF Init
    <3>4. QED
      BY <3>1, <3>3
  <2>3. Len(bounds.files) \in Nat
    BY <2>1
  <2>4. handle \in [Keys -> {NoHandle, Pending} \cup DOMAIN db]
    BY DEF Init
  <2>5. WorkerOK
    BY DEF Init, WorkerOK, WorkerPCs, Idle
  <2>6. cursor \in 1 .. Len(bounds.files) + 1 /\ reruns \in 0 .. bounds.reruns
    BY <2>1, <2>3 DEF Init
  <2>7. input \in Seq(Item) /\ Len(input) <= Capacity
    BY CapacityAssumption DEF Init
  <2>8. QED
    BY <2>0, <2>1, <2>2, <2>4, <2>5, <2>6, <2>7 DEF Init, TypeOK, WorkerOK, WorkerPCs
<1>2. \A w \in Workers : worker[w].pc = "take" /\ worker[w].chunk = 0
  BY DEF Init, Idle
<1>3. Preparers /\ Inserters
  BY <1>2 DEF Preparers, Preparing, Inserters
<1>4. HandlesAreLive
  BY DEF Init, HandlesAreLive
<1>5. QED
  BY <1>1, <1>3, <1>4 DEF HandleInv

\* What is at hand of a worker that is not waiting for more.
LEMMA AtHand ==
    ASSUME TypeOK, NEW w \in Workers, worker[w].pc \notin {"take", "done"}
    PROVE  /\ worker[w].item \in Item
           /\ Key(w) \in Keys
           /\ handle[Key(w)] \in {NoHandle, Pending} \cup DOMAIN db
           /\ handle[Key(w)] \in Int
<1>1. worker[w].item \in Item
  BY DEF TypeOK
<1>2. Key(w) \in Keys
  BY <1>1 DEF Key, Item
<1>3. DOMAIN db \subseteq Int
  BY DEF TypeOK
<1>4. QED
  BY <1>1, <1>2, <1>3 DEF TypeOK

\* A step of the main goroutine, or the end of the process.
LEMMA MainInv ==
    ASSUME HandleInv, TypeOK', UNCHANGED <<db, handle, worker>>
    PROVE  HandleInv'
BY DEF HandleInv, Preparers, Preparing, Inserters, HandlesAreLive, Key, Found

\* A worker goes somewhere else and nothing else changes.
LEMMA GotoInv ==
    ASSUME HandleInv, NEW w \in Workers, NEW where \in WorkerPCs, Goto(w, where),
           UNCHANGED <<db, handle, main, input, cursor, todo, closed, bounds, reruns, option>>,
           where \in {"take", "done"} <=> worker[w].item = None,
           where \in {"lookup", "obliterate", "create"} => Preparing(w),
           worker[w].pc # "insert",
           where = "insert" => handle[Key(w)] > 0
    PROVE  HandleInv'
<1>1. worker' = [worker EXCEPT ![w].pc = where]
  BY DEF Goto
<1>2. WorkerOK
  BY DEF HandleInv, TypeOK, WorkerOK, WorkerPCs
<1>3. /\ worker'[w].pc = where /\ worker'[w].item = worker[w].item
      /\ worker'[w].chunk = worker[w].chunk
      /\ \A v \in Workers \ {w} : worker'[v] = worker[v]
  BY <1>1, <1>2 DEF WorkerOK
<1>4. WorkerOK'
  BY <1>1, <1>2, <1>3 DEF WorkerOK
<1>5. TypeOK'
  BY <1>4 DEF HandleInv, TypeOK, WorkerOK, WorkerPCs
<1>6. \A v \in Workers : Key(v)' = Key(v)
  BY <1>3 DEF Key
<1>7. \A v \in Workers : Preparing(v)' => Preparing(v)
  BY <1>3 DEF Preparing
<1>8. Preparers'
  BY <1>6, <1>7 DEF HandleInv, Preparers
<1>9. Inserters'
  BY <1>3, <1>6 DEF HandleInv, Inserters
<1>10. HandlesAreLive'
  BY DEF HandleInv, HandlesAreLive, Found
<1>11. QED
  BY <1>5, <1>8, <1>9, <1>10 DEF HandleInv

-----------------------------------------------------------------------------
LEMMA MainStepInv ==
    ASSUME HandleInv,
           NextFile \/ Wait \/ (\E item \in todo : Enqueue(item)) \/ Fail
    PROVE  HandleInv'
<1> USE DEF HandleInv, same, files
<1>0. /\ Len(bounds.files) \in Nat /\ cursor \in Nat
      /\ DOMAIN bounds.files = 1 .. Len(bounds.files)
      /\ \A j \in 1 .. Len(bounds.files) : bounds.files[j] \subseteq Item
  BY DEF TypeOK, Scenario
<1>1. CASE NextFile
  <2>1. cursor' \in 1 .. Len(bounds.files) + 1
    BY <1>0, <1>1 DEF NextFile, TypeOK
  <2>2. todo' \subseteq Item
    BY <1>0, <1>1 DEF NextFile, TypeOK
  <2>3. /\ main' \in {"files", "enqueue", "wait", "done", "exited"} /\ closed' \in BOOLEAN
        /\ UNCHANGED <<db, input, handle, worker, bounds, reruns, option>>
    BY <1>1 DEF NextFile, TypeOK
  <2>4. TypeOK'
    BY <2>1, <2>2, <2>3 DEF TypeOK
  <2>5. QED
    BY <2>3, <2>4, MainInv
<1>2. CASE Wait
  <2>1. TypeOK'
    BY <1>2 DEF Wait, TypeOK
  <2>2. QED
    BY <1>2, <2>1, MainInv DEF Wait
<1>3. ASSUME NEW item \in todo, Enqueue(item) PROVE HandleInv'
  <2>1. /\ input' = Append(input, item) /\ Len(input) < Capacity
        /\ todo' = todo \ {item}
        /\ main' = IF todo' = {} THEN "files" ELSE main
        /\ UNCHANGED <<cursor, closed, db, handle, worker, bounds, reruns, option>>
    BY <1>3 DEF Enqueue
  <2>2. item \in Item /\ input \in Seq(Item)
    BY DEF TypeOK
  <2>3. input' \in Seq(Item) /\ Len(input') <= Capacity
    BY CapacityAssumption, <2>1, <2>2
  <2>4. todo' \subseteq Item /\ main' \in {"files", "enqueue", "wait", "done", "exited"}
    BY <2>1 DEF TypeOK
  <2>5. TypeOK'
    BY <2>1, <2>3, <2>4 DEF TypeOK
  <2>6. QED
    BY <2>1, <2>5, MainInv
<1>4. CASE Fail
  <2>1. TypeOK'
    BY <1>4 DEF Fail, Exit, TypeOK
  <2>2. QED
    BY <1>4, <2>1, MainInv DEF Fail, Exit
<1>5. QED
  BY <1>1, <1>2, <1>3, <1>4

LEMMA RerunInv ==
    ASSUME HandleInv, Rerun
    PROVE  HandleInv'
<1>1. TypeOK'
  <2>1. WorkerOK'
    BY DEF Rerun, WorkerOK, WorkerPCs, Idle
  <2>2. option' \in Option /\ UNCHANGED <<bounds, db>>
    BY DEF HandleInv, TypeOK, Scenario, Rerun
  <2>3. reruns' \in 0 .. bounds.reruns
    BY DEF HandleInv, TypeOK, Scenario, Rerun
  <2>4. cursor' \in 1 .. Len(bounds.files) + 1
    BY DEF HandleInv, TypeOK, Scenario, Rerun
  <2>5. handle' \in [Keys -> {NoHandle, Pending} \cup DOMAIN db]
    BY DEF Rerun
  <2>6. input' \in Seq(Item) /\ Len(input') <= Capacity
    BY CapacityAssumption DEF Rerun
  <2>7. QED
    BY <2>1, <2>2, <2>3, <2>4, <2>5, <2>6 DEF HandleInv, TypeOK, Rerun, WorkerOK, WorkerPCs
<1>2. \A w \in Workers : worker'[w].pc = "take" /\ worker'[w].chunk = 0
  BY DEF Rerun, Idle
<1>3. Preparers' /\ Inserters'
  BY <1>2 DEF Preparers, Preparing, Inserters
<1>4. HandlesAreLive'
  BY DEF Rerun, HandlesAreLive
<1>5. QED
  BY <1>1, <1>3, <1>4 DEF HandleInv

-----------------------------------------------------------------------------
LEMMA TakeInv ==
    ASSUME HandleInv, NEW w \in Workers, Take(w)
    PROVE  HandleInv'
<1> USE DEF HandleInv, same, files
<1>0. /\ worker[w].pc = "take" /\ worker[w].item = None
      /\ UNCHANGED <<main, db, handle, cursor, todo, closed, bounds, reruns, option>>
  BY DEF Take, TypeOK
<1>1. CASE input = <<>> /\ closed /\ Goto(w, "done") /\ UNCHANGED input
  BY <1>0, <1>1, GotoInv DEF WorkerPCs
<1>2. CASE /\ input # <<>> /\ input' = Tail(input)
           /\ worker' = [worker EXCEPT ![w].pc = "handle", ![w].item = Head(input)]
  <2>1. Head(input) \in Item /\ input' \in Seq(Item) /\ Len(input') <= Capacity
    BY CapacityAssumption, <1>2 DEF TypeOK
  <2>2. WorkerOK
    BY DEF TypeOK, WorkerOK, WorkerPCs
  <2>3. /\ worker'[w].pc = "handle" /\ worker'[w].item = Head(input)
        /\ worker'[w].chunk = worker[w].chunk
        /\ \A v \in Workers \ {w} : worker'[v] = worker[v]
    BY <1>2, <2>2 DEF WorkerOK
  <2>4. WorkerOK'
    <3> DEFINE new == [worker[w] EXCEPT !.pc = "handle", !.item = Head(input)]
    <3>1. worker[w] \in [pc : WorkerPCs, item : Item \cup {None}, chunk : Nat]
      BY <2>2 DEF WorkerOK
    <3>2. new \in [pc : WorkerPCs, item : Item \cup {None}, chunk : Nat]
      BY <2>1, <3>1 DEF WorkerPCs
    <3>3. worker' = [worker EXCEPT ![w] = new]
      BY <1>2
    <3> HIDE DEF new
    <3>4. worker' \in [Workers -> [pc : WorkerPCs, item : Item \cup {None}, chunk : Nat]]
      BY <2>2, <3>2, <3>3 DEF WorkerOK
    <3>5. QED
      BY NoneAssumption, <2>1, <2>2, <2>3, <3>4 DEF WorkerOK
  <2>5. TypeOK'
    BY <1>0, <2>1, <2>4 DEF TypeOK, WorkerOK, WorkerPCs
  <2>6. ~Preparing(w)' /\ \A v \in Workers \ {w} : Preparing(v)' = Preparing(v) /\ Key(v)' = Key(v)
    BY <2>3 DEF Preparing, Key
  <2>7. Preparers'
    BY <1>0, <2>6 DEF Preparers
  <2>8. Inserters'
    BY <1>0, <2>3, <2>6 DEF Inserters
  <2>9. HandlesAreLive'
    BY <1>0 DEF HandlesAreLive, Found
  <2>10. QED
    BY <2>5, <2>7, <2>8, <2>9
<1>3. QED
  BY <1>1, <1>2 DEF Take

\* What Goto does to the workers.
LEMMA GotoFacts ==
    ASSUME HandleInv, NEW w \in Workers, NEW where \in WorkerPCs, Goto(w, where),
           where \in {"take", "done"} <=> worker[w].item = None
    PROVE  /\ WorkerOK'
           /\ worker'[w].pc = where /\ worker'[w].item = worker[w].item
           /\ worker'[w].chunk = worker[w].chunk
           /\ \A v \in Workers \ {w} : worker'[v] = worker[v]
           /\ \A v \in Workers : Key(v)' = Key(v)
           /\ \A v \in Workers \ {w} : Preparing(v)' = Preparing(v)
<1>1. worker' = [worker EXCEPT ![w].pc = where]
  BY DEF Goto
<1>2. WorkerOK
  BY DEF HandleInv, TypeOK, WorkerOK, WorkerPCs
<1>3. /\ worker'[w].pc = where /\ worker'[w].item = worker[w].item
      /\ worker'[w].chunk = worker[w].chunk
      /\ \A v \in Workers \ {w} : worker'[v] = worker[v]
  BY <1>1, <1>2 DEF WorkerOK
<1>4. WorkerOK'
  BY <1>1, <1>2, <1>3 DEF WorkerOK
<1>5. QED
  BY <1>3, <1>4 DEF Key, Preparing

LEMMA FindHandleInv ==
    ASSUME HandleInv, NEW w \in Workers, FindHandle(w)
    PROVE  HandleInv'
<1> USE DEF HandleInv, same, files, Alone
<1>0. /\ worker[w].pc = "handle" /\ worker[w].item # None /\ Key(w) \in Keys
      /\ UNCHANGED <<db, main, input, cursor, todo, closed, bounds, reruns, option>>
  BY AtHand DEF FindHandle, TypeOK
<1>1. CASE handle[Key(w)] # NoHandle
  BY <1>0, <1>1, GotoInv DEF FindHandle, WorkerPCs
<1>2. CASE handle[Key(w)] = NoHandle
  <2>1. PICK where \in {"lookup", "create"} : Goto(w, where)
    BY <1>2 DEF FindHandle
  <2>2. handle' = [handle EXCEPT ![Key(w)] = Pending]
    BY <1>2 DEF FindHandle
  <2>3. /\ WorkerOK'
        /\ worker'[w].pc = where /\ worker'[w].chunk = worker[w].chunk
        /\ \A v \in Workers \ {w} : worker'[v] = worker[v]
        /\ \A v \in Workers : Key(v)' = Key(v)
        /\ \A v \in Workers \ {w} : Preparing(v)' = Preparing(v)
    BY <1>0, <2>1, GotoFacts DEF WorkerPCs
  <2>4. TypeOK'
    BY <1>0, <2>2, <2>3 DEF TypeOK, WorkerOK, WorkerPCs
  <2>5. \A v \in Workers \ {w} : Preparing(v) => /\ Key(v) \in Keys /\ Key(v) # Key(w)
                                                 /\ handle'[Key(v)] = Pending
    <3> SUFFICES ASSUME NEW v \in Workers \ {w}, Preparing(v)
                 PROVE  Key(v) \in Keys /\ Key(v) # Key(w) /\ handle'[Key(v)] = Pending
      OBVIOUS
    <3>1. Key(v) \in Keys
      BY AtHand DEF Preparing
    <3>2. handle[Key(v)] = Pending
      BY DEF Preparers
    <3>3. QED
      BY <1>0, <1>2, <2>2, <3>1, <3>2 DEF TypeOK
  <2>6. handle'[Key(w)] = Pending
    BY <1>0, <2>2 DEF TypeOK
  <2>7. Preparers'
    BY <2>3, <2>5, <2>6 DEF Preparers
  <2>8. Inserters'
    <3> SUFFICES ASSUME NEW v \in Workers
                 PROVE  /\ worker'[v].pc = "insert" => handle'[Key(v)'] > 0
                        /\ worker'[v].pc # "insert" => worker'[v].chunk = 0
      BY DEF Inserters
    <3>1. CASE v = w
      BY <1>0, <2>3, <3>1 DEF Inserters
    <3>2. CASE v # w
      <4>1. worker[v].pc = "insert" => Key(v) \in Keys /\ handle[Key(v)] > 0
        BY AtHand DEF Inserters
      <4>2. worker[v].pc = "insert" => handle'[Key(v)] > 0
        BY <1>2, <2>2, <4>1 DEF TypeOK
      <4>3. QED
        BY <2>3, <3>2, <4>2 DEF Inserters
    <3>3. QED
      BY <3>1, <3>2
  <2>9. HandlesAreLive'
    BY <1>0, <2>2 DEF HandlesAreLive, Found, TypeOK
  <2>10. QED
    BY <2>4, <2>7, <2>8, <2>9
<1>3. QED
  BY <1>1, <1>2

\* The worker that prepares a key puts the stream in its entry.
LEMMA ReadyHandle ==
    ASSUME HandleInv, NEW w \in Workers, Preparing(w), Goto(w, "wait"),
           TypeOK', NEW s \in Nat, s > 0, NEW key \in Keys, key = Key(w),
           handle' = [handle EXCEPT ![key] = s],
           Found(key)' = {s},
           \A k \in Keys \ {key} : handle[k] > 0 => Found(k)' = Found(k)
    PROVE  HandleInv'
<1> USE DEF HandleInv
<1>0. worker[w].item # None /\ Key(w) \in Keys
  BY AtHand DEF Preparing, TypeOK
<1>1. /\ worker'[w].pc = "wait" /\ worker'[w].chunk = worker[w].chunk
      /\ \A v \in Workers \ {w} : worker'[v] = worker[v]
      /\ \A v \in Workers : Key(v)' = Key(v)
      /\ \A v \in Workers \ {w} : Preparing(v)' = Preparing(v)
  BY <1>0, GotoFacts DEF WorkerPCs
<1>2. ~Preparing(w)'
  BY <1>1 DEF Preparing
<1>3. ASSUME NEW v \in Workers \ {w}, Preparing(v)
      PROVE  handle'[Key(v)] = Pending
  <2>1. Key(v) \in Keys /\ handle[Key(v)] = Pending
    BY <1>3, AtHand DEF Preparing, Preparers
  <2>2. Key(v) # Key(w)
    BY <1>3 DEF Preparers
  <2>3. QED
    BY <2>1, <2>2 DEF TypeOK
<1>4. Preparers'
  BY <1>1, <1>2, <1>3 DEF Preparers
<1>5. ASSUME NEW v \in Workers, worker[v].pc = "insert"
      PROVE  handle'[Key(v)] > 0
  <2>1. Key(v) \in Keys /\ handle[Key(v)] > 0
    BY <1>5, AtHand DEF Inserters
  <2>2. QED
    BY <2>1 DEF TypeOK
<1>6. Inserters'
  <2>1. worker'[w].pc # "insert" /\ worker[w].chunk = 0
    BY <1>1 DEF Inserters, Preparing
  <2>2. QED
    BY <1>1, <1>5, <2>1 DEF Inserters
<1>7. HandlesAreLive'
  <2> SUFFICES ASSUME NEW k \in Keys, handle'[k] > 0
               PROVE  Found(k)' = {handle'[k]}
    BY DEF HandlesAreLive
  <2>1. CASE k = key
    BY <2>1 DEF TypeOK
  <2>2. CASE k # key
    BY <2>2 DEF HandlesAreLive, TypeOK
  <2>3. QED
    BY <2>1, <2>2
<1>8. QED
  BY <1>4, <1>6, <1>7

LEMMA LookupInv ==
    ASSUME HandleInv, NEW w \in Workers, Lookup(w)
    PROVE  HandleInv'
<1> USE DEF HandleInv, same, files, Alone
<1>0. /\ worker[w].pc = "lookup" /\ worker[w].item # None /\ Key(w) \in Keys
      /\ Preparing(w) /\ db' = db
  BY AtHand DEF Lookup, TypeOK, Preparing
<1>1. CASE Exit /\ UNCHANGED <<input, cursor, todo, closed, bounds, reruns, option>>
  <2>1. TypeOK'
    BY <1>1 DEF Exit, TypeOK
  <2>2. QED
    BY <1>1, <2>1, MainInv DEF Exit
<1>2. ASSUME NEW where \in {"obliterate", "create"}, Goto(w, where),
             UNCHANGED handle, Alone
      PROVE  HandleInv'
  BY <1>0, <1>2, GotoInv DEF WorkerPCs
<1>3. ASSUME Cardinality(Found(Key(w))) = 1, Goto(w, "wait"), Alone,
             NEW s \in Found(Key(w)), handle' = [handle EXCEPT ![Key(w)] = s]
      PROVE  HandleInv'
  <2>1. IsFiniteSet(DOMAIN db)
    <3>1. DOMAIN db = 1 .. Len(db) /\ Len(db) \in Nat
      BY DEF TypeOK
    <3>2. QED
      BY <3>1, FS_Interval
  <2>2. IsFiniteSet(Found(Key(w)))
    BY <2>1, FS_Subset DEF Found
  <2>3. Found(Key(w)) = {s}
    BY <1>3, <2>2, FS_Singleton
  <2>4. s \in DOMAIN db /\ s \in Nat /\ s > 0
    BY DEF Found, TypeOK
  <2>5. WorkerOK'
    BY <1>0, <1>3, GotoFacts DEF WorkerPCs
  <2>6. TypeOK'
    BY <1>0, <1>3, <2>4, <2>5 DEF TypeOK, WorkerOK, WorkerPCs
  <2>7. PICK key \in Keys : key = Key(w)
    BY <1>0
  <2>8. \A k \in Keys : Found(k)' = Found(k)
    BY <1>0 DEF Found
  <2>9. Found(key)' = {s}
    BY <2>3, <2>7, <2>8
  <2>10. QED
    BY <1>0, <1>3, <2>4, <2>6, <2>7, <2>8, <2>9, ReadyHandle
<1>4. QED
  BY <1>1, <1>2, <1>3 DEF Lookup

LEMMA ObliterateInv ==
    ASSUME HandleInv, NEW w \in Workers, Obliterate(w)
    PROVE  HandleInv'
<1> USE DEF HandleInv, same, files, Alone
<1>1. /\ worker[w].pc = "obliterate" /\ worker[w].item # None /\ Preparing(w)
      /\ Goto(w, "create")
      /\ UNCHANGED <<handle, main, input, cursor, todo, closed, bounds, reruns, option>>
  BY DEF Obliterate, TypeOK, Preparing
<1>2. PICK key \in Keys : key = Key(w)
  BY <1>1, AtHand DEF Obliterate
<1>3. PICK i \in Found(key) : db' = [db EXCEPT ![i].live = FALSE]
  BY <1>2 DEF Obliterate
<1>4. i \in DOMAIN db /\ db[i].key = key
  BY <1>3 DEF Found
<1>5. /\ db' \in Seq(Stream) /\ DOMAIN db' = DOMAIN db
      /\ db'[i].key = key
      /\ \A j \in DOMAIN db \ {i} : db'[j] = db[j]
  <2> DEFINE new == [db[i] EXCEPT !.live = FALSE]
  <2>1. db[i] \in Stream
    BY <1>4 DEF TypeOK
  <2>2. new \in Stream /\ new.key = db[i].key
    BY <2>1 DEF Stream
  <2>3. db' = [db EXCEPT ![i] = new]
    BY <1>3
  <2> HIDE DEF new
  <2>4. QED
    BY <1>4, <2>2, <2>3 DEF TypeOK
<1>6. /\ WorkerOK'
      /\ worker'[w].pc = "create" /\ worker'[w].chunk = worker[w].chunk
      /\ \A v \in Workers \ {w} : worker'[v] = worker[v]
      /\ \A v \in Workers : Key(v)' = Key(v)
      /\ \A v \in Workers \ {w} : Preparing(v)' = Preparing(v)
  BY <1>1, GotoFacts DEF WorkerPCs
<1>7. TypeOK'
  BY <1>1, <1>5, <1>6 DEF TypeOK, WorkerOK, WorkerPCs
<1>8. Preparers'
  BY <1>1, <1>6 DEF Preparers
<1>9. Inserters'
  BY <1>1, <1>6 DEF Inserters
<1>10. HandlesAreLive'
  <2> SUFFICES ASSUME NEW k \in Keys, handle[k] > 0
               PROVE  Found(k)' = {handle[k]}
    BY <1>1 DEF HandlesAreLive
  <2>1. k # key
    BY <1>1, <1>2 DEF Preparers
  <2>2. Found(k)' = Found(k)
    BY <1>4, <1>5, <2>1 DEF Found
  <2>3. QED
    BY <2>2 DEF HandlesAreLive
<1>11. QED
  BY <1>7, <1>8, <1>9, <1>10

LEMMA CreateInv ==
    ASSUME HandleInv, NEW w \in Workers, Create(w)
    PROVE  HandleInv'
<1> USE DEF HandleInv, same, files, Alone
<1>1. /\ worker[w].pc = "create" /\ worker[w].item # None /\ Preparing(w)
      /\ UNCHANGED <<input, cursor, todo, closed, bounds, reruns, option>>
  BY DEF Create, TypeOK, Preparing
<1>2. PICK key \in Keys : key = Key(w)
  BY <1>1, AtHand
<1>3. CASE Found(key) # {}
  <2>1. TypeOK'
    BY <1>1, <1>2, <1>3 DEF Create, Exit, TypeOK
  <2>2. QED
    BY <1>2, <1>3, <2>1, MainInv DEF Create, Exit
<1>4. CASE Found(key) = {}
  <2> DEFINE new == [key |-> key, live |-> TRUE, points |-> {}]
             s   == Len(db) + 1
  <2>1. /\ db' = Append(db, new) /\ handle' = [handle EXCEPT ![key] = s]
        /\ Goto(w, "wait") /\ main' = main
    BY <1>2, <1>4 DEF Create
  <2>2. new \in Stream /\ new.key = key /\ new.live
    BY DEF Stream
  <2> HIDE DEF new
  <2>3. db \in Seq(Stream) /\ Len(db) \in Nat /\ DOMAIN db = 1 .. Len(db)
    BY DEF TypeOK
  <2>4. /\ db' \in Seq(Stream) /\ DOMAIN db' = 1 .. s
        /\ db'[s] = new
        /\ \A j \in DOMAIN db : db'[j] = db[j]
    BY <2>1, <2>2, <2>3
  <2>5. s \in Nat /\ s > 0 /\ s \in DOMAIN db' /\ DOMAIN db \subseteq DOMAIN db'
    BY <2>3, <2>4
  <2>6. WorkerOK'
    BY <1>1, <2>1, GotoFacts DEF WorkerPCs
  <2>7. handle' \in [Keys -> {NoHandle, Pending} \cup DOMAIN db']
    BY <2>1, <2>5 DEF TypeOK
  <2>8. TypeOK'
    BY <1>1, <2>1, <2>4, <2>6, <2>7 DEF TypeOK, WorkerOK, WorkerPCs
  <2>9. DOMAIN db' = DOMAIN db \cup {s} /\ s \notin DOMAIN db
    BY <2>3, <2>4
  <2>10. Found(key)' = {s}
    BY <1>4, <2>2, <2>4, <2>9 DEF Found
  <2>11. \A k \in Keys \ {key} : Found(k)' = Found(k)
    BY <2>2, <2>4, <2>9 DEF Found
  <2>12. PICK t \in Nat : t = s
    BY <2>5
  <2>13. QED
    BY <1>1, <1>2, <2>1, <2>5, <2>8, <2>10, <2>11, <2>12, ReadyHandle
<1>5. QED
  BY <1>3, <1>4

LEMMA ReadyInv ==
    ASSUME HandleInv, NEW w \in Workers, Ready(w)
    PROVE  HandleInv'
<1>1. /\ worker[w].pc = "wait" /\ worker[w].item # None
      /\ handle[Key(w)] > 0 /\ Goto(w, "insert")
      /\ UNCHANGED <<db, handle, main, input, cursor, todo, closed, bounds, reruns, option>>
  BY DEF Ready, HandleInv, TypeOK, Alone, same, files
<1>2. QED
  BY <1>1, GotoInv DEF WorkerPCs

\* The stream at s with one more point.
WithPoint(s, x) == [db EXCEPT ![s].points = @ \cup {x}]

AddsChunk(w) ==
    db' = WithPoint(handle[worker[w].item.key], <<worker[w].item.n, worker[w].chunk + 1>>)

\* What a chunk of points changes.
LEMMA InsertFacts ==
    ASSUME HandleInv, NEW w \in Workers, worker[w].pc = "insert", AddsChunk(w)
    PROVE  \E s \in DOMAIN db, next \in Nat :
              /\ s = handle[Key(w)] /\ next = worker[w].chunk + 1
              /\ db' \in Seq(Stream) /\ DOMAIN db' = DOMAIN db
              /\ db'[s].points = db[s].points \cup {<<worker[w].item.n, next>>}
              /\ \A j \in DOMAIN db : /\ db'[j].key = db[j].key
                                      /\ db'[j].live = db[j].live
                                      /\ j # s => db'[j] = db[j]
<1>1. TypeOK /\ Inserters
  BY DEF HandleInv
<1>2. /\ worker[w].item \in Item
      /\ handle[Key(w)] \in {NoHandle, Pending} \cup DOMAIN db
  BY <1>1, AtHand
<1>3. handle[Key(w)] > 0
  BY <1>1 DEF Inserters
<1>4. /\ db \in Seq(Stream) /\ DOMAIN db = 1 .. Len(db) /\ Len(db) \in Nat
      /\ worker[w].chunk \in Nat
  BY <1>1 DEF TypeOK
<1>5. /\ handle[Key(w)] \in DOMAIN db
      /\ worker[w].item.n \in Nat /\ worker[w].chunk + 1 \in Nat
  BY <1>2, <1>3, <1>4 DEF Item
<1>6. PICK s \in DOMAIN db, n \in Nat, next \in Nat :
         s = handle[Key(w)] /\ n = worker[w].item.n /\ next = worker[w].chunk + 1
  BY <1>5
<1> DEFINE x == <<n, next>>
           new == [db[s] EXCEPT !.points = @ \cup {x}]
<1>7. db' = WithPoint(s, x)
  BY <1>6 DEF AddsChunk, Key
<1>8. x \in Nat \X Nat
  OBVIOUS
<1> HIDE DEF x
<1>9. /\ new \in Stream /\ new.key = db[s].key /\ new.live = db[s].live
      /\ new.points = db[s].points \cup {x}
  <2>1. db[s] \in Stream
    BY <1>4
  <2>2. QED
    BY <1>8, <2>1 DEF Stream
<1>10. db' = [db EXCEPT ![s] = new]
  BY <1>7 DEF WithPoint
<1> HIDE DEF new
<1>11. /\ db' \in [1 .. Len(db) -> Stream]
       /\ db'[s] = new /\ \A j \in DOMAIN db : j # s => db'[j] = db[j]
  BY <1>4, <1>9, <1>10
<1>12. db' \in Seq(Stream) /\ DOMAIN db' = DOMAIN db
  BY <1>4, <1>11
<1>13. /\ db'[s].points = db[s].points \cup {<<worker[w].item.n, next>>}
       /\ \A j \in DOMAIN db : db'[j].key = db[j].key /\ db'[j].live = db[j].live
  BY <1>6, <1>9, <1>11 DEF x
<1>14. QED
  BY <1>6, <1>11, <1>12, <1>13

LEMMA InsertInv ==
    ASSUME HandleInv, NEW w \in Workers, Insert(w)
    PROVE  HandleInv'
<1> USE DEF HandleInv, same, files, Alone
<1>0. /\ worker[w].pc = "insert" /\ handle' = handle
      /\ UNCHANGED <<input, cursor, todo, closed, bounds, reruns, option>>
  BY DEF Insert, Exit
<1>1. WorkerOK
  BY DEF TypeOK, WorkerOK, WorkerPCs
<1>2. CASE Exit
  <2>1. TypeOK'
    BY <1>0, <1>2 DEF Exit, TypeOK
  <2>2. QED
    BY <1>2, <2>1, MainInv DEF Exit
<1>3. CASE worker' = [worker EXCEPT ![w] = Idle] /\ db' = db /\ main' = main
  <2>1. WorkerOK' /\ worker'[w] = Idle
    BY <1>1, <1>3 DEF WorkerOK, WorkerPCs, Idle
  <2>2. TypeOK'
    BY <1>0, <1>3, <2>1 DEF TypeOK, WorkerOK, WorkerPCs
  <2>3. \A v \in Workers \ {w} : worker'[v] = worker[v] /\ Key(v)' = Key(v)
    BY <1>3 DEF TypeOK, Key
  <2>4. Preparers'
    BY <1>0, <2>1, <2>3 DEF Preparers, Preparing, Idle
  <2>5. Inserters'
    BY <1>0, <2>1, <2>3 DEF Inserters, Idle
  <2>6. HandlesAreLive'
    BY <1>0, <1>3 DEF HandlesAreLive, Found
  <2>7. QED
    BY <2>2, <2>4, <2>5, <2>6
<1>4. CASE /\ main' = main /\ AddsChunk(w)
           /\ worker' = [worker EXCEPT ![w].chunk = worker[w].chunk + 1]
  <2>1. PICK s \in DOMAIN db, next \in Nat :
              /\ next = worker[w].chunk + 1
              /\ db' \in Seq(Stream) /\ DOMAIN db' = DOMAIN db
              /\ \A j \in DOMAIN db : db'[j].key = db[j].key /\ db'[j].live = db[j].live
    BY <1>0, <1>4, InsertFacts
  <2>3. next \in Nat
    OBVIOUS
  <2>4. /\ WorkerOK'
        /\ \A v \in Workers : /\ worker'[v].pc = worker[v].pc
                              /\ worker'[v].item = worker[v].item
        /\ \A v \in Workers \ {w} : worker'[v] = worker[v]
    <3> DEFINE new == [worker[w] EXCEPT !.chunk = next]
    <3>1. worker[w] \in [pc : WorkerPCs, item : Item \cup {None}, chunk : Nat]
      BY <1>1 DEF WorkerOK
    <3>2. /\ new \in [pc : WorkerPCs, item : Item \cup {None}, chunk : Nat]
          /\ new.pc = worker[w].pc /\ new.item = worker[w].item
      BY <2>3, <3>1
    <3>3. worker' = [worker EXCEPT ![w] = new]
      BY <1>4, <2>1
    <3> HIDE DEF new
    <3>4. QED
      BY <1>1, <3>2, <3>3 DEF WorkerOK
  <2>5. TypeOK'
    BY <1>0, <1>4, <2>1, <2>4 DEF TypeOK, WorkerOK, WorkerPCs
  <2>6. Preparers'
    BY <1>0, <2>4 DEF Preparers, Preparing, Key
  <2>7. Inserters'
    BY <1>0, <2>4 DEF Inserters, Key
  <2>8. \A k : Found(k)' = Found(k)
    BY <2>1 DEF Found
  <2>9. HandlesAreLive'
    BY <1>0, <2>8 DEF HandlesAreLive
  <2>10. QED
    BY <2>5, <2>6, <2>7, <2>9
<1>5. QED
  BY <1>2, <1>3, <1>4 DEF Insert, AddsChunk, WithPoint

LEMMA HandleNext == HandleInv /\ [Next]_vars => HandleInv'
<1> SUFFICES ASSUME HandleInv, [Next]_vars PROVE HandleInv'
  OBVIOUS
<1>1. CASE UNCHANGED vars
  BY <1>1 DEF vars, HandleInv, TypeOK, Preparers, Preparing, Inserters, HandlesAreLive,
              Key, Found
<1>2. CASE Next
  BY <1>2, MainStepInv, RerunInv, TakeInv, FindHandleInv, LookupInv, ObliterateInv,
     CreateInv, ReadyInv, InsertInv DEF Next, Step, Work
<1>3. QED
  BY <1>1, <1>2

(* The handles that the workers share, as an inductive invariant. *)
THEOREM HandleInvariant == Spec => []HandleInv
BY HandleInit, HandleNext, PTL DEF Spec

(* The variables of Import keep their types. *)
THEOREM TypeCorrect == Spec => []TypeOK
<1>1. HandleInv => TypeOK
  BY DEF HandleInv
<1>2. QED
  BY <1>1, HandleInvariant, PTL

(* A handle that is ready is that of the only live stream of its key. *)
THEOREM OneStreamForAKey == Spec => []HandlesAreLive
<1>1. HandleInv => HandlesAreLive
  BY DEF HandleInv
<1>2. QED
  BY <1>1, HandleInvariant, PTL

-----------------------------------------------------------------------------
(* The way of the items through the channel. *)

Reading == main \in {"files", "enqueue"}
AllRead == main \in {"wait", "done"}

\* The main goroutine ends only behind a file without items or the last one.
ReadInv ==
    /\ Reading => ~closed /\ \A j \in 1 .. cursor - 1 : bounds.files[j] # {}
    /\ AllRead => \A i \in DOMAIN bounds.files :
                     i >= cursor => \E h \in 1 .. i : bounds.files[h] = {}
    /\ main # "enqueue" /\ main # "exited" => todo = {}

\* A worker ends only when nothing is left and nothing can come.
DoneInv ==
    /\ \A w \in Workers : worker[w].pc = "done" => closed /\ input = <<>>
    /\ main = "done" => \A w \in Workers : worker[w].pc = "done"

OnTheWay ==
    /\ todo \subseteq Imported
    /\ \A x \in DOMAIN input : input[x] \in Imported
    /\ \A w \in Workers : worker[w].item \in Imported \cup {None}

QueueInv == ReadInv /\ DoneInv /\ OnTheWay

LEMMA QueueInit == Init => QueueInv
<1> SUFFICES ASSUME Init PROVE QueueInv
  OBVIOUS
<1>1. ReadInv
  BY DEF Init, ReadInv, Reading, AllRead
<1>2. DoneInv /\ OnTheWay
  BY DEF Init, DoneInv, OnTheWay, Idle
<1>3. QED
  BY <1>1, <1>2 DEF QueueInv

LEMMA ImportedFacts ==
    ASSUME TypeOK
    PROVE  /\ Imported \subseteq Item
           /\ DOMAIN bounds.files = 1 .. Len(bounds.files) /\ Len(bounds.files) \in Nat
           /\ cursor \in Nat /\ cursor > 0 /\ cursor <= Len(bounds.files) + 1
           /\ \A i \in DOMAIN bounds.files : bounds.files[i] \subseteq Item
           /\ \A i \in DOMAIN bounds.files :
                 (\A h \in 1 .. i : bounds.files[h] # {}) => bounds.files[i] \subseteq Imported
           /\ \A item \in Imported : \E i \in DOMAIN bounds.files :
                 /\ item \in bounds.files[i]
                 /\ \A h \in 1 .. i : bounds.files[h] # {}
<1>1. bounds.files \in Seq(SUBSET Item)
  BY DEF TypeOK, Scenario
<1>2. /\ DOMAIN bounds.files = 1 .. Len(bounds.files) /\ Len(bounds.files) \in Nat
      /\ \A i \in DOMAIN bounds.files : bounds.files[i] \subseteq Item
  BY <1>1
<1>3. cursor \in Nat /\ cursor > 0 /\ cursor <= Len(bounds.files) + 1
  BY <1>2 DEF TypeOK
<1>4. /\ Imported \subseteq Item
      /\ \A i \in DOMAIN bounds.files :
            (\A h \in 1 .. i : bounds.files[h] # {}) => bounds.files[i] \subseteq Imported
      /\ \A item \in Imported : \E i \in DOMAIN bounds.files :
            /\ item \in bounds.files[i]
            /\ \A h \in 1 .. i : bounds.files[h] # {}
  BY <1>2 DEF Imported
<1>5. QED
  BY <1>2, <1>3, <1>4

\* A worker goes on with the item it has, or ends the process.
LEMMA SameItems ==
    ASSUME QueueInv, Running, main' = main \/ main' = "exited",
           UNCHANGED <<input, todo, cursor, closed, bounds>>,
           \A v \in Workers : /\ worker'[v].item \in {worker[v].item, None}
                              /\ worker'[v].pc = "done" => worker[v].pc = "done"
    PROVE  QueueInv'
<1>1. ReadInv'
  BY DEF QueueInv, ReadInv, Reading, AllRead
<1>2. DoneInv'
  BY DEF QueueInv, DoneInv, Running
<1>3. Imported' = Imported
  BY DEF Imported
<1>4. OnTheWay'
  BY <1>3 DEF QueueInv, OnTheWay
<1>5. QED
  BY <1>1, <1>2, <1>4 DEF QueueInv

LEMMA NextFileQueue ==
    ASSUME TypeOK, QueueInv, NextFile
    PROVE  QueueInv'
<1> USE DEF same
<1>0. /\ main = "files" /\ todo = {} /\ ~closed
      /\ \A j \in 1 .. cursor - 1 : bounds.files[j] # {}
      /\ UNCHANGED <<bounds, input, worker>>
  BY DEF NextFile, QueueInv, ReadInv, Reading
<1>1. Imported' = Imported
  BY <1>0 DEF Imported
<1>2. \A w \in Workers : worker[w].pc # "done"
  BY <1>0 DEF QueueInv, DoneInv
<1>3. CASE cursor <= Len(bounds.files) /\ bounds.files[cursor] # {}
  <2>1. /\ main' = "enqueue" /\ todo' = bounds.files[cursor] /\ closed' = closed
        /\ cursor' = cursor + 1
    BY <1>3 DEF NextFile
  <2>2. \A j \in 1 .. cursor : bounds.files[j] # {}
    BY <1>0, <1>3, ImportedFacts
  <2>3. todo' \subseteq Imported
    <3>1. cursor \in DOMAIN bounds.files
      BY <1>3, ImportedFacts
    <3>2. bounds.files[cursor] \subseteq Imported
      BY <2>2, <3>1, ImportedFacts
    <3>3. QED
      BY <2>1, <3>2
  <2>4. ReadInv'
    BY <1>0, <2>1, <2>2, ImportedFacts DEF ReadInv, Reading, AllRead
  <2>5. DoneInv'
    BY <1>0, <1>2, <2>1 DEF DoneInv
  <2>6. OnTheWay'
    BY <1>0, <1>1, <2>3 DEF QueueInv, OnTheWay
  <2>7. QED
    BY <2>4, <2>5, <2>6 DEF QueueInv
<1>4. CASE ~(cursor <= Len(bounds.files) /\ bounds.files[cursor] # {})
  <2>1. /\ main' = "wait" /\ todo' = todo /\ closed'
        /\ cursor' = IF cursor <= Len(bounds.files) THEN cursor + 1 ELSE cursor
    BY <1>4 DEF NextFile
  <2>2. \A i \in DOMAIN bounds.files :
           i >= cursor' => \E h \in 1 .. i : bounds.files[h] = {}
    <3>1. CASE cursor <= Len(bounds.files)
      <4>1. bounds.files[cursor] = {} /\ cursor' = cursor + 1
        BY <1>4, <2>1, <3>1
      <4>2. QED
        BY <4>1, ImportedFacts
    <3>2. CASE ~(cursor <= Len(bounds.files))
      <4>1. cursor' = cursor /\ cursor > Len(bounds.files)
        BY <2>1, <3>2, ImportedFacts
      <4>2. QED
        BY <4>1, ImportedFacts
    <3>3. QED
      BY <3>1, <3>2
  <2>3. ReadInv'
    BY <1>0, <2>1, <2>2 DEF ReadInv, Reading, AllRead
  <2>4. DoneInv'
    BY <1>0, <1>2, <2>1 DEF DoneInv
  <2>5. OnTheWay'
    BY <1>0, <1>1, <2>1 DEF QueueInv, OnTheWay
  <2>6. QED
    BY <2>3, <2>4, <2>5 DEF QueueInv
<1>5. QED
  BY <1>3, <1>4

LEMMA MainQueue ==
    ASSUME TypeOK, QueueInv,
           Wait \/ (\E item \in todo : Enqueue(item)) \/ Fail \/ Rerun
    PROVE  QueueInv'
<1> USE DEF same, files
<1>1. CASE Wait
  <2>1. /\ main = "wait" /\ main' = "done" /\ \A w \in Workers : worker[w].pc = "done"
        /\ UNCHANGED <<input, todo, cursor, closed, bounds, worker>>
    BY <1>1 DEF Wait
  <2>2. Imported' = Imported
    BY <2>1 DEF Imported
  <2>3. ReadInv'
    BY <2>1 DEF QueueInv, ReadInv, Reading, AllRead
  <2>4. DoneInv'
    BY <2>1 DEF QueueInv, DoneInv
  <2>5. OnTheWay'
    BY <2>1, <2>2 DEF QueueInv, OnTheWay
  <2>6. QED
    BY <2>3, <2>4, <2>5 DEF QueueInv
<1>2. ASSUME NEW item \in todo, Enqueue(item)
      PROVE  QueueInv'
  <2>1. /\ main = "enqueue" /\ ~closed
        /\ input' = Append(input, item) /\ todo' = todo \ {item}
        /\ main' = IF todo' = {} THEN "files" ELSE main
        /\ UNCHANGED <<cursor, closed, bounds, worker>>
    BY <1>2 DEF Enqueue, QueueInv, ReadInv, Reading
  <2>2. Imported' = Imported
    BY <2>1 DEF Imported
  <2>3. ReadInv'
    BY <2>1 DEF QueueInv, ReadInv, Reading, AllRead
  <2>4. DoneInv'
    BY <2>1 DEF QueueInv, DoneInv
  <2>5. item \in Imported /\ item \in Item /\ input \in Seq(Item)
    BY ImportedFacts DEF QueueInv, OnTheWay, TypeOK
  <2>6. \A x \in DOMAIN input' : input'[x] \in Imported
    <3>1. DOMAIN input = 1 .. Len(input) /\ Len(input) \in Nat
      BY <2>5
    <3>2. DOMAIN input' = 1 .. Len(input) + 1
      BY <2>1, <2>5
    <3>3. input'[Len(input) + 1] = item
      BY <2>1, <2>5
    <3>4. \A x \in DOMAIN input : input'[x] = input[x]
      BY <2>1, <2>5
    <3>5. QED
      BY <2>5, <3>1, <3>2, <3>3, <3>4 DEF QueueInv, OnTheWay
  <2>7. OnTheWay'
    BY <2>1, <2>2, <2>6 DEF QueueInv, OnTheWay
  <2>8. QED
    BY <2>3, <2>4, <2>7 DEF QueueInv
<1>3. CASE Fail
  BY <1>3, SameItems DEF Fail, Exit
<1>4. CASE Rerun
  <2>1. ReadInv'
    BY <1>4 DEF Rerun, ReadInv, Reading, AllRead
  <2>2. DoneInv' /\ OnTheWay'
    BY <1>4 DEF Rerun, DoneInv, OnTheWay, Idle
  <2>3. QED
    BY <2>1, <2>2 DEF QueueInv
<1>5. QED
  BY <1>1, <1>2, <1>3, <1>4

LEMMA WorkQueue ==
    ASSUME HandleInv, QueueInv, Running, NEW w \in Workers, Work(w)
    PROVE  QueueInv'
<1> USE DEF same, files, Alone
<1>0. TypeOK /\ WorkerOK
  BY DEF HandleInv, TypeOK, WorkerOK, WorkerPCs
<1>1. CASE Take(w)
  <2>1. CASE input = <<>> /\ closed /\ Goto(w, "done") /\ UNCHANGED input
    <3>1. UNCHANGED <<main, todo, cursor, closed, bounds, input>>
      BY <1>1, <2>1 DEF Take
    <3>2. \A v \in Workers : worker'[v].item = worker[v].item
      BY <1>0, <2>1 DEF Goto, WorkerOK
    <3>3. Imported' = Imported
      BY <3>1 DEF Imported
    <3>4. ReadInv' /\ OnTheWay'
      BY <3>1, <3>2, <3>3 DEF QueueInv, ReadInv, Reading, AllRead, OnTheWay
    <3>5. DoneInv'
      BY <2>1, <3>1 DEF DoneInv, Running
    <3>6. QED
      BY <3>4, <3>5 DEF QueueInv
  <2>2. CASE /\ input # <<>> /\ input' = Tail(input)
             /\ worker' = [worker EXCEPT ![w].pc = "handle", ![w].item = Head(input)]
    <3>1. UNCHANGED <<main, todo, cursor, closed, bounds>>
      BY <1>1, <2>2 DEF Take
    <3>2. Imported' = Imported
      BY <3>1 DEF Imported
    <3>3. /\ worker'[w].pc = "handle" /\ worker'[w].item = Head(input)
          /\ \A v \in Workers \ {w} : worker'[v] = worker[v]
      BY <1>0, <2>2 DEF WorkerOK
    <3>4. input \in Seq(Item) /\ Len(input) > 0 /\ Len(input) \in Nat
      BY <1>0, <2>2 DEF TypeOK
    <3>5. Head(input) = input[1] /\ 1 \in DOMAIN input
      BY <3>4
    <3>6. \A x \in DOMAIN input' : x + 1 \in DOMAIN input /\ input'[x] = input[x + 1]
      BY <2>2, <3>4
    <3>7. OnTheWay'
      BY <3>1, <3>2, <3>3, <3>5, <3>6 DEF QueueInv, OnTheWay
    <3>8. ReadInv'
      BY <3>1 DEF QueueInv, ReadInv, Reading, AllRead
    <3>9. DoneInv'
      BY <2>2, <3>1, <3>3 DEF QueueInv, DoneInv, Running
    <3>10. QED
      BY <3>7, <3>8, <3>9 DEF QueueInv
  <2>3. QED
    BY <1>1, <2>1, <2>2 DEF Take
<1>2. ASSUME NEW where \in WorkerPCs \ {"done"}, Goto(w, where),
             UNCHANGED <<main, input, todo, cursor, closed, bounds>>
      PROVE  QueueInv'
  <2>1. \A v \in Workers : /\ worker'[v].item = worker[v].item
                           /\ worker'[v].pc \in {worker[v].pc, where}
    BY <1>0, <1>2 DEF Goto, WorkerOK
  <2>2. QED
    BY <1>2, <2>1, SameItems DEF WorkerPCs
<1>3. CASE Exit /\ UNCHANGED <<input, todo, cursor, closed, bounds>>
  BY <1>3, SameItems DEF Exit
<1>4. CASE Insert(w)
  <2>1. CASE worker' = [worker EXCEPT ![w] = Idle]
             /\ UNCHANGED <<main, input, todo, cursor, closed, bounds>>
    BY <1>0, <2>1, SameItems DEF WorkerOK, Idle
  <2>2. CASE worker' = [worker EXCEPT ![w].chunk = worker[w].chunk + 1]
             /\ UNCHANGED <<main, input, todo, cursor, closed, bounds>>
    BY <1>0, <2>2, SameItems DEF WorkerOK
  <2>3. QED
    BY <1>3, <1>4, <2>1, <2>2 DEF Insert
<1>5. CASE FindHandle(w)
  BY <1>2, <1>5 DEF FindHandle, WorkerPCs
<1>6. CASE Lookup(w)
  BY <1>2, <1>3, <1>6 DEF Lookup, WorkerPCs
<1>7. CASE Obliterate(w) \/ Create(w) \/ Ready(w)
  BY <1>2, <1>3, <1>7 DEF Obliterate, Create, Ready, WorkerPCs
<1>8. QED
  BY <1>1, <1>4, <1>5, <1>6, <1>7 DEF Work

LEMMA QueueNext == HandleInv /\ QueueInv /\ [Next]_vars => QueueInv'
<1> SUFFICES ASSUME HandleInv, QueueInv, [Next]_vars PROVE QueueInv'
  OBVIOUS
<1>1. CASE UNCHANGED vars
  BY <1>1 DEF vars, QueueInv, ReadInv, Reading, AllRead, DoneInv, OnTheWay, Imported
<1>2. CASE Next
  BY <1>2, NextFileQueue, MainQueue, WorkQueue DEF Next, Step, HandleInv
<1>3. QED
  BY <1>1, <1>2

-----------------------------------------------------------------------------
(* What has been inserted. *)

\* The first c chunks of the item are in the stream of its key.
Inserted(item, c) ==
    /\ handle[item.key] > 0
    /\ \A x \in 1 .. c : <<item.n, x>> \in db[handle[item.key]].points

\* An item of a file that was read is still to come, at hand, or inserted.
Somewhere(item) ==
    \/ item \in todo
    \/ \E x \in DOMAIN input : input[x] = item
    \/ \E w \in Workers : worker[w].item = item
    \/ Inserted(item, item.chunks)

Whereabouts ==
    \A j \in 1 .. cursor - 1 : \A item \in bounds.files[j] : Somewhere(item)

\* A worker has inserted as many chunks as it has counted.
InPart ==
    \A w \in Workers :
       worker[w].pc = "insert" => Inserted(worker[w].item, worker[w].chunk)

\* An import that erases has nothing but its own points in its streams.
OnlyNew ==
    option.erase =>
       \A k \in Keys : handle[k] > 0 => db[handle[k]].points \subseteq Points(k)

PointsInv == Whereabouts /\ InPart /\ OnlyNew

\* Nothing is taken out of a stream that a handle leads to.
Grows ==
    \A k \in Keys : handle[k] > 0 =>
       /\ handle'[k] = handle[k]
       /\ db[handle[k]].points \subseteq db'[handle[k]].points

LEMMA PointsInit == Init => PointsInv
<1> SUFFICES ASSUME Init PROVE PointsInv
  OBVIOUS
<1>1. Whereabouts
  BY DEF Init, Whereabouts
<1>2. InPart
  BY DEF Init, InPart, Idle
<1>3. OnlyNew
  BY DEF Init, OnlyNew
<1>4. QED
  BY <1>1, <1>2, <1>3 DEF PointsInv

LEMMA StaysInserted ==
    ASSUME Grows, NEW item \in Item, NEW c, Inserted(item, c)
    PROVE  Inserted(item, c)'
<1>1. item.key \in Keys
  BY DEF Item
<1>2. QED
  BY <1>1 DEF Grows, Inserted

LEMMA SamePoints ==
    ASSUME UNCHANGED bounds
    PROVE  Imported' = Imported /\ \A k : Points(k)' = Points(k)
<1>1. Imported' = Imported
  BY DEF Imported
<1>2. QED
  BY <1>1 DEF Points

\* No worker begins to insert.
LEMMA WritersGoOn ==
    ASSUME HandleInv, PointsInv, Grows,
           \A v \in Workers : worker'[v].pc = "insert" => worker'[v] = worker[v]
    PROVE  InPart'
<1>1. ASSUME NEW v \in Workers, worker'[v].pc = "insert"
      PROVE  Inserted(worker[v].item, worker[v].chunk)'
  <2>1. worker[v].item \in Item
    BY <1>1, AtHand DEF HandleInv
  <2>2. Inserted(worker[v].item, worker[v].chunk)
    BY <1>1 DEF PointsInv, InPart
  <2>3. PICK item \in Item, c \in {worker[v].chunk} : item = worker[v].item
    BY <2>1
  <2>4. Inserted(item, c)'
    BY <2>2, <2>3, StaysInserted
  <2>5. QED
    BY <1>1, <2>3, <2>4 DEF Inserted
<1>2. QED
  BY <1>1 DEF InPart

\* A step after which every item that was on the way is so or is inserted.
LEMMA KeepsPoints ==
    ASSUME HandleInv, PointsInv, Grows, UNCHANGED <<bounds, option>>,
           \A item \in Item :
              \/ item \in todo
              \/ \E x \in DOMAIN input : input[x] = item
              \/ \E w \in Workers : worker[w].item = item
              => Somewhere(item)',
           cursor' = cursor,
           InPart', OnlyNew'
    PROVE  PointsInv'
<1>1. ASSUME NEW j \in 1 .. cursor - 1, NEW item \in bounds.files[j]
      PROVE  Somewhere(item)'
  <2>1. item \in Item
    BY ImportedFacts DEF HandleInv
  <2>2. Somewhere(item)
    BY DEF PointsInv, Whereabouts
  <2>3. CASE Inserted(item, item.chunks)
    BY <2>1, <2>3, StaysInserted DEF Somewhere
  <2>4. QED
    BY <2>1, <2>2, <2>3 DEF Somewhere
<1>2. Whereabouts'
  BY <1>1 DEF Whereabouts
<1>3. QED
  BY <1>2 DEF PointsInv

\* A step that inserts nothing and makes no handle ready.
LEMMA Idles ==
    ASSUME HandleInv, PointsInv, UNCHANGED <<bounds, option>>,
           \A k \in Keys : handle[k] > 0 => db'[handle[k]].points = db[handle[k]].points,
           \A k \in Keys : handle[k] > 0 \/ handle'[k] > 0 => handle'[k] = handle[k],
           \A v \in Workers : worker'[v].pc = "insert" =>
              worker'[v] = worker[v] \/ (worker'[v].chunk = 0 /\ handle[worker'[v].item.key] > 0
                                         /\ worker'[v].item \in Item)
    PROVE  Grows /\ InPart' /\ OnlyNew'
<1>1. Grows
  BY DEF Grows
<1>2. ASSUME NEW v \in Workers, worker'[v].pc = "insert"
      PROVE  Inserted(worker[v].item, worker[v].chunk)'
  <2>1. CASE worker'[v] = worker[v]
    <3>1. worker[v].item \in Item
      BY <1>2, <2>1, AtHand DEF HandleInv
    <3>2. Inserted(worker[v].item, worker[v].chunk)
      BY <1>2, <2>1 DEF PointsInv, InPart
    <3>3. PICK item \in Item, c \in {worker[v].chunk} : item = worker[v].item
      BY <3>1
    <3>4. Inserted(item, c)'
      BY <1>1, <3>2, <3>3, StaysInserted
    <3>5. QED
      BY <2>1, <3>3, <3>4 DEF Inserted
  <2>2. CASE /\ worker'[v].chunk = 0 /\ handle[worker'[v].item.key] > 0
             /\ worker'[v].item \in Item
    <3>1. PICK item \in Item : item = worker'[v].item
      BY <2>2
    <3>2. handle'[item.key] > 0
      BY <2>2, <3>1 DEF Item
    <3>3. QED
      BY <2>2, <3>1, <3>2 DEF Inserted
  <2>3. QED
    BY <1>2, <2>1, <2>2
<1>3. InPart'
  BY <1>2 DEF InPart
<1>4. OnlyNew'
  BY SamePoints DEF PointsInv, OnlyNew
<1>5. QED
  BY <1>1, <1>3, <1>4

LEMMA MainPoints ==
    ASSUME HandleInv, QueueInv, PointsInv,
           NextFile \/ Wait \/ (\E item \in todo : Enqueue(item)) \/ Fail \/ Rerun
    PROVE  PointsInv'
<1> USE DEF same, files
<1>1. CASE Rerun
  <2>1. Whereabouts' /\ InPart' /\ OnlyNew'
    BY <1>1 DEF Rerun, Whereabouts, InPart, OnlyNew, Idle
  <2>2. QED
    BY <2>1 DEF PointsInv
<1>2. CASE NextFile
  <2>1. UNCHANGED <<bounds, option, db, handle, worker, input>> /\ todo = {}
    BY <1>2 DEF NextFile, QueueInv, ReadInv
  <2>2. Grows /\ InPart' /\ OnlyNew'
    BY <2>1, Idles
  <2>3. ASSUME NEW item \in Item, Somewhere(item) PROVE Somewhere(item)'
    <3>1. CASE Inserted(item, item.chunks)
      BY <2>2, <3>1, StaysInserted DEF Somewhere
    <3>2. QED
      BY <2>1, <2>3, <3>1 DEF Somewhere
  <2>4. ASSUME NEW j \in 1 .. cursor' - 1, NEW item \in bounds.files[j]
        PROVE  Somewhere(item)'
    <3>1. cursor' \in {cursor, cursor + 1} /\ cursor \in Nat
      BY <1>2, ImportedFacts DEF NextFile, HandleInv
    <3>2. CASE j \in 1 .. cursor - 1
      <4>1. item \in Item
        BY <3>2, ImportedFacts DEF HandleInv
      <4>2. QED
        BY <2>3, <3>2, <4>1 DEF PointsInv, Whereabouts
    <3>3. CASE j = cursor
      <4>1. cursor' = cursor + 1 /\ cursor <= Len(bounds.files)
        BY <1>2, <2>4, <3>1, <3>3 DEF NextFile
      <4>2. bounds.files[cursor] # {}
        BY <2>4, <3>3
      <4>3. todo' = bounds.files[cursor]
        BY <1>2, <4>1, <4>2 DEF NextFile
      <4>4. item \in todo'
        BY <2>4, <3>3, <4>3
      <4>5. QED
        BY <4>4 DEF Somewhere
    <3>4. j \in 1 .. cursor - 1 \/ j = cursor
      <4>1. ASSUME NEW m \in Nat, NEW n \in {m, m + 1}, NEW h \in 1 .. n - 1
            PROVE  h \in 1 .. m - 1 \/ h = m
        OBVIOUS
      <4>2. QED
        BY <3>1, <4>1
    <3>5. QED
      BY <3>2, <3>3, <3>4
  <2>5. Whereabouts'
    BY <2>1, <2>4 DEF Whereabouts
  <2>6. QED
    BY <2>2, <2>5 DEF PointsInv
<1>3. CASE Wait \/ Fail
  <2>1. UNCHANGED <<bounds, option, db, handle, worker, input, todo, cursor>>
    BY <1>3 DEF Wait, Fail, Exit
  <2>2. Grows /\ InPart' /\ OnlyNew'
    BY <2>1, Idles
  <2>3. QED
    BY <2>1, <2>2, KeepsPoints DEF Somewhere
<1>4. ASSUME NEW next \in todo, Enqueue(next)
      PROVE  PointsInv'
  <2>1. /\ UNCHANGED <<bounds, option, db, handle, worker, cursor>>
        /\ input' = Append(input, next) /\ todo' = todo \ {next}
    BY <1>4 DEF Enqueue
  <2>2. Grows /\ InPart' /\ OnlyNew'
    BY <2>1, Idles
  <2>3. input \in Seq(Item) /\ next \in Item
    BY DEF HandleInv, TypeOK
  <2>4. /\ DOMAIN input \subseteq DOMAIN input'
        /\ \A x \in DOMAIN input : input'[x] = input[x]
        /\ Len(input) + 1 \in DOMAIN input' /\ input'[Len(input) + 1] = next
    BY <2>1, <2>3
  <2>5. QED
    BY <2>1, <2>2, <2>4, KeepsPoints DEF Somewhere
<1>5. QED
  BY <1>1, <1>2, <1>3, <1>4

\* A worker that stays with its item.
LEMMA Stays ==
    ASSUME HandleInv, PointsInv, Grows, InPart', OnlyNew',
           UNCHANGED <<bounds, option, todo, input, cursor>>,
           \A v \in Workers : worker'[v].item = worker[v].item
    PROVE  PointsInv'
<1>1. ASSUME NEW item \in Item,
             \/ item \in todo
             \/ \E x \in DOMAIN input : input[x] = item
             \/ \E w \in Workers : worker[w].item = item
      PROVE  Somewhere(item)'
  BY <1>1 DEF Somewhere
<1>2. QED
  BY <1>1, KeepsPoints

LEMMA GoesOnPoints ==
    ASSUME HandleInv, PointsInv, NEW w \in Workers, NEW where \in WorkerPCs,
           Goto(w, where), where # "insert",
           \A k \in Keys : handle[k] > 0 => db'[handle[k]].points = db[handle[k]].points,
           UNCHANGED <<bounds, option, todo, input, cursor>>,
           \A k \in Keys : handle[k] > 0 \/ handle'[k] > 0 => handle'[k] = handle[k]
    PROVE  PointsInv'
<1>1. WorkerOK
  BY DEF HandleInv, TypeOK, WorkerOK, WorkerPCs
<1>2. /\ worker'[w].pc = where /\ worker'[w].item = worker[w].item
      /\ \A v \in Workers \ {w} : worker'[v] = worker[v]
  BY <1>1 DEF Goto, WorkerOK
<1>3. Grows /\ InPart' /\ OnlyNew'
  BY <1>2, Idles
<1>4. QED
  BY <1>2, <1>3, Stays

\* The process ends.
LEMMA ExitPoints ==
    ASSUME HandleInv, PointsInv, Exit,
           UNCHANGED <<bounds, option, todo, input, cursor>>
    PROVE  PointsInv'
<1>1. UNCHANGED <<db, handle, worker>>
  BY DEF Exit
<1>2. Grows /\ InPart' /\ OnlyNew'
  BY <1>1, Idles
<1>3. QED
  BY <1>1, <1>2, Stays

LEMMA TakePoints ==
    ASSUME HandleInv, QueueInv, PointsInv, NEW w \in Workers, Take(w)
    PROVE  PointsInv'
<1> USE DEF same, files
<1>0. WorkerOK
  BY DEF HandleInv, TypeOK, WorkerOK, WorkerPCs
<1>1. UNCHANGED <<bounds, option, todo, cursor, db, handle>>
  BY DEF Take
<1>2. CASE Goto(w, "done") /\ UNCHANGED input
  BY <1>1, <1>2, GoesOnPoints DEF WorkerPCs
<1>3. CASE /\ input # <<>> /\ input' = Tail(input)
           /\ worker' = [worker EXCEPT ![w].pc = "handle", ![w].item = Head(input)]
  <2>1. /\ worker'[w].pc = "handle" /\ worker'[w].item = Head(input)
        /\ \A v \in Workers \ {w} : worker'[v] = worker[v]
    BY <1>0, <1>3 DEF WorkerOK
  <2>2. Grows /\ InPart' /\ OnlyNew'
    BY <1>1, <2>1, Idles
  <2>3. input \in Seq(Item) /\ Len(input) > 0 /\ Len(input) \in Nat
    BY <1>3 DEF HandleInv, TypeOK
  <2>4. \A x \in DOMAIN input :
           input[x] = Head(input) \/ (x - 1 \in DOMAIN input' /\ input'[x - 1] = input[x])
    BY <1>3, <2>3
  <2>5. worker[w].item = None
    BY DEF Take, HandleInv, TypeOK
  <2>6. ASSUME NEW item \in Item,
               \/ item \in todo
               \/ \E x \in DOMAIN input : input[x] = item
               \/ \E v \in Workers : worker[v].item = item
        PROVE  Somewhere(item)'
    <3>1. CASE item \in todo
      BY <1>1, <3>1 DEF Somewhere
    <3>2. CASE \E x \in DOMAIN input : input[x] = item
      BY <2>1, <2>4, <3>2 DEF Somewhere
    <3>3. CASE \E v \in Workers : worker[v].item = item
      BY NoneAssumption, <2>1, <2>5, <3>3 DEF Somewhere
    <3>4. QED
      BY <2>6, <3>1, <3>2, <3>3
  <2>7. QED
    BY <1>1, <2>2, <2>6, KeepsPoints
<1>4. QED
  BY <1>2, <1>3 DEF Take

LEMMA FindHandlePoints ==
    ASSUME HandleInv, PointsInv, NEW w \in Workers, FindHandle(w)
    PROVE  PointsInv'
<1>1. /\ Key(w) \in Keys /\ handle[Key(w)] \in Int
      /\ handle \in [Keys -> {NoHandle, Pending} \cup DOMAIN db]
  BY AtHand DEF FindHandle, HandleInv, TypeOK
<1>2. \A k \in Keys : handle[k] > 0 \/ handle'[k] > 0 => handle'[k] = handle[k]
  BY <1>1 DEF FindHandle
<1>3. QED
  BY <1>2, GoesOnPoints DEF FindHandle, Alone, same, files, WorkerPCs

LEMMA LookupPoints ==
    ASSUME HandleInv, PointsInv, NEW w \in Workers, Lookup(w)
    PROVE  PointsInv'
<1> USE DEF same, files, Alone
<1>1. CASE Exit /\ UNCHANGED <<bounds, option, todo, input, cursor>>
  BY <1>1, ExitPoints
<1>2. ASSUME NEW where \in WorkerPCs \ {"insert"}, Goto(w, where), UNCHANGED handle,
             UNCHANGED <<bounds, option, todo, input, cursor, db>>
      PROVE  PointsInv'
  BY <1>2, GoesOnPoints
<1>3. ASSUME ~option.erase, Goto(w, "wait"),
             UNCHANGED <<bounds, option, todo, input, cursor, db>>,
             NEW i \in Found(Key(w)), handle' = [handle EXCEPT ![Key(w)] = i]
      PROVE  PointsInv'
  <2>1. WorkerOK
    BY DEF HandleInv, TypeOK, WorkerOK, WorkerPCs
  <2>2. /\ worker'[w].pc = "wait" /\ worker'[w].item = worker[w].item
        /\ \A v \in Workers \ {w} : worker'[v] = worker[v]
    BY <1>3, <2>1 DEF Goto, WorkerOK
  <2>3. handle[Key(w)] = Pending
    BY DEF Lookup, HandleInv, Preparers, Preparing
  <2>4. \A k \in Keys : handle[k] > 0 => handle'[k] = handle[k]
    BY <1>3, <2>3 DEF HandleInv, TypeOK
  <2>5. Grows
    BY <1>3, <2>4 DEF Grows
  <2>6. OnlyNew'
    BY <1>3 DEF OnlyNew
  <2>7. InPart'
    BY <2>2, <2>5, WritersGoOn
  <2>8. QED
    BY <1>3, <2>2, <2>5, <2>6, <2>7, Stays
<1>4. QED
  BY <1>1, <1>2, <1>3 DEF Lookup, WorkerPCs

LEMMA ObliteratePoints ==
    ASSUME HandleInv, PointsInv, NEW w \in Workers, Obliterate(w)
    PROVE  PointsInv'
<1>1. PICK i \in DOMAIN db : db' = [db EXCEPT ![i].live = FALSE]
  BY DEF Obliterate, Found
<1> DEFINE new == [db[i] EXCEPT !.live = FALSE]
<1>0. /\ db \in Seq(Stream) /\ DOMAIN db \subseteq Int
      /\ handle \in [Keys -> {NoHandle, Pending} \cup DOMAIN db]
  BY DEF HandleInv, TypeOK
<1>2. new.points = db[i].points
  <2>1. db[i] \in Stream
    BY <1>0
  <2>2. QED
    BY <2>1 DEF Stream
<1>3. db' = [db EXCEPT ![i] = new]
  BY <1>1
<1> HIDE DEF new
<1>4. \A j \in DOMAIN db : db'[j].points = db[j].points
  BY <1>0, <1>2, <1>3
<1>5. \A k \in Keys : handle[k] > 0 => db'[handle[k]].points = db[handle[k]].points
  BY <1>0, <1>4
<1>6. QED
  BY <1>5, GoesOnPoints DEF Obliterate, Alone, same, files, WorkerPCs

LEMMA CreatePoints ==
    ASSUME HandleInv, PointsInv, NEW w \in Workers, Create(w)
    PROVE  PointsInv'
<1> USE DEF same, files, Alone
<1>1. CASE Exit /\ UNCHANGED <<bounds, option, todo, input, cursor>>
  BY <1>1, ExitPoints
<1>2. PICK key \in Keys : key = Key(w)
  BY AtHand DEF Create, HandleInv
<1> DEFINE new == [key |-> key, live |-> TRUE, points |-> {}]
<1>3. ASSUME db' = Append(db, new), handle' = [handle EXCEPT ![key] = Len(db) + 1],
             Goto(w, "wait"), UNCHANGED <<bounds, option, todo, input, cursor>>
      PROVE  PointsInv'
  <2>1. WorkerOK
    BY DEF HandleInv, TypeOK, WorkerOK, WorkerPCs
  <2>2. /\ worker'[w].pc = "wait" /\ worker'[w].item = worker[w].item
        /\ \A v \in Workers \ {w} : worker'[v] = worker[v]
    BY <1>3, <2>1 DEF Goto, WorkerOK
  <2>3. handle[key] = Pending
    BY <1>2 DEF Create, HandleInv, Preparers, Preparing
  <2>4. new \in Stream /\ new.points = {}
    BY DEF Stream
  <2> HIDE DEF new
  <2>5. db \in Seq(Stream) /\ Len(db) \in Nat /\ DOMAIN db = 1 .. Len(db)
    BY DEF HandleInv, TypeOK
  <2>6. db'[Len(db) + 1] = new /\ \A j \in DOMAIN db : db'[j] = db[j]
    BY <1>3, <2>4, <2>5
  <2>7. /\ handle \in [Keys -> {NoHandle, Pending} \cup DOMAIN db]
        /\ handle'[key] = Len(db) + 1
        /\ \A k \in Keys : k # key => handle'[k] = handle[k]
    BY <1>3 DEF HandleInv, TypeOK
  <2>8. \A k \in Keys : handle[k] > 0 => k # key /\ handle[k] \in DOMAIN db
    BY <2>3, <2>5, <2>7
  <2>9. Grows
    BY <2>6, <2>7, <2>8 DEF Grows
  <2>10. ASSUME option.erase, NEW k \in Keys, handle'[k] > 0
         PROVE  db'[handle'[k]].points \subseteq Points(k)
    <3>1. CASE k = key
      BY <2>4, <2>6, <2>7, <3>1
    <3>2. CASE k # key
      BY <2>6, <2>7, <2>8, <2>10, <3>2 DEF PointsInv, OnlyNew
    <3>3. QED
      BY <3>1, <3>2
  <2>11. OnlyNew'
    BY <1>3, <2>10, SamePoints DEF OnlyNew
  <2>12. InPart'
    BY <2>2, <2>9, WritersGoOn
  <2>13. QED
    BY <1>3, <2>2, <2>9, <2>11, <2>12, Stays
<1>4. QED
  BY <1>1, <1>2, <1>3 DEF Create

LEMMA ReadyPoints ==
    ASSUME HandleInv, PointsInv, NEW w \in Workers, Ready(w)
    PROVE  PointsInv'
<1> USE DEF same, files, Alone
<1>1. WorkerOK
  BY DEF HandleInv, TypeOK, WorkerOK, WorkerPCs
<1>2. /\ worker'[w].item = worker[w].item /\ worker'[w].chunk = worker[w].chunk
      /\ \A v \in Workers \ {w} : worker'[v] = worker[v]
  BY <1>1 DEF Ready, Goto, WorkerOK
<1>3. /\ worker[w].chunk = 0 /\ worker[w].item \in Item
      /\ handle[worker[w].item.key] > 0
  BY AtHand DEF Ready, HandleInv, Inserters, Key
<1>4. UNCHANGED <<bounds, option, todo, input, cursor, db, handle>>
  BY DEF Ready
<1>5. Grows /\ InPart' /\ OnlyNew'
  BY <1>2, <1>3, <1>4, Idles
<1>6. QED
  BY <1>2, <1>4, <1>5, Stays

LEMMA InsertPoints ==
    ASSUME HandleInv, QueueInv, PointsInv, NEW w \in Workers, Insert(w)
    PROVE  PointsInv'
<1> USE DEF same, files, Alone
<1>1. CASE Exit /\ UNCHANGED <<bounds, option, todo, input, cursor>>
  BY <1>1, ExitPoints
<1>2. WorkerOK
  BY DEF HandleInv, TypeOK, WorkerOK, WorkerPCs
<1>3. PICK item \in Item, c \in Nat : item = worker[w].item /\ c = worker[w].chunk
  BY <1>2, AtHand DEF Insert, HandleInv, WorkerOK
<1>4. Inserted(item, c) /\ item.chunks \in Nat /\ item.n \in Nat
  BY <1>3 DEF Insert, PointsInv, InPart, Item
<1>5. ASSUME c + 1 > item.chunks, worker' = [worker EXCEPT ![w] = Idle],
             UNCHANGED <<bounds, option, todo, input, cursor, db, handle>>
      PROVE  PointsInv'
  <2>1. /\ worker'[w].pc = "take"
        /\ \A v \in Workers \ {w} : worker'[v] = worker[v]
    BY <1>2, <1>5 DEF WorkerOK, Idle
  <2>2. Grows /\ InPart' /\ OnlyNew'
    BY <1>5, <2>1, Idles
  <2>3. Inserted(item, item.chunks)
    BY <1>4, <1>5 DEF Inserted
  <2>4. Inserted(item, item.chunks)'
    BY <2>2, <2>3, StaysInserted
  <2>5. ASSUME NEW it \in Item,
               \/ it \in todo
               \/ \E x \in DOMAIN input : input[x] = it
               \/ \E v \in Workers : worker[v].item = it
        PROVE  Somewhere(it)'
    <3>1. CASE it = item
      BY <2>4, <3>1 DEF Somewhere
    <3>2. CASE it # item
      BY <1>3, <1>5, <2>1, <2>5, <3>2 DEF Somewhere
    <3>3. QED
      BY <3>1, <3>2
  <2>6. QED
    BY <1>5, <2>2, <2>5, KeepsPoints
<1>6. ASSUME c + 1 <= item.chunks, AddsChunk(w),
             worker' = [worker EXCEPT ![w].chunk = c + 1],
             UNCHANGED <<bounds, option, todo, input, cursor, handle>>
      PROVE  PointsInv'
  <2>1. /\ worker'[w].item = item /\ worker'[w].chunk = c + 1
        /\ \A v \in Workers \ {w} : worker'[v] = worker[v]
        /\ \A v \in Workers : worker'[v].item = worker[v].item
    BY <1>2, <1>3, <1>6 DEF WorkerOK
  <2>2. PICK s \in DOMAIN db :
            /\ s = handle[item.key]
            /\ db'[s].points = db[s].points \cup {<<item.n, c + 1>>}
            /\ \A j \in DOMAIN db : j # s => db'[j] = db[j]
    <3>1. HandleInv /\ worker[w].pc = "insert" /\ Key(w) = item.key
      BY <1>3 DEF Insert, Key
    <3>2. QED
      BY <1>3, <1>6, <3>1, InsertFacts
  <2>3. /\ handle \in [Keys -> {NoHandle, Pending} \cup DOMAIN db]
        /\ DOMAIN db \subseteq Int
        /\ item.key \in Keys
    BY DEF HandleInv, TypeOK, Item
  <2>4. \A k \in Keys : handle[k] > 0 => handle[k] \in DOMAIN db
    BY <2>3
  <2>5. Grows
    BY <1>6, <2>2, <2>4 DEF Grows
  <2>6. <<item.n, c + 1>> \in Points(item.key)
    <3>1. item \in Imported
      BY <1>3, NoneAssumption DEF QueueInv, OnTheWay
    <3>2. c + 1 \in 1 .. item.chunks
      BY <1>3, <1>4, <1>6
    <3>3. QED
      BY <3>1, <3>2 DEF Points
  <2>7. ASSUME option.erase, NEW k \in Keys, handle[k] > 0
        PROVE  db'[handle[k]].points \subseteq Points(k)
    <3>1. CASE k = item.key
      BY <2>2, <2>6, <2>7, <3>1 DEF PointsInv, OnlyNew
    <3>2. CASE k # item.key
      <4>1. handle[item.key] > 0
        BY <1>4 DEF Inserted
      <4>2. handle[k] # s
        BY <2>2, <2>3, <2>7, <3>2, <4>1 DEF HandleInv, HandlesAreLive, Found
      <4>3. QED
        BY <2>2, <2>4, <2>7, <4>2 DEF PointsInv, OnlyNew
    <3>3. QED
      BY <3>1, <3>2
  <2>8. OnlyNew'
    BY <1>6, <2>7, SamePoints DEF OnlyNew
  <2>9. ASSUME NEW v \in Workers, worker'[v].pc = "insert"
        PROVE  Inserted(worker[v].item, worker[v].chunk)'
    <3>1. CASE v = w
      <4>1. Inserted(item, c)'
        BY <1>4, <2>5, StaysInserted
      <4>2. <<item.n, c + 1>> \in db'[handle'[item.key]].points
        BY <1>6, <2>2
      <4>3. \A x \in 1 .. c + 1 : x \in 1 .. c \/ x = c + 1
        BY <1>3
      <4>4. handle'[item.key] > 0 /\ \A x \in 1 .. c + 1 :
                <<item.n, x>> \in db'[handle'[item.key]].points
        BY <4>1, <4>2, <4>3 DEF Inserted
      <4>5. QED
        BY <2>1, <3>1, <4>4 DEF Inserted
    <3>2. CASE v # w
      <4>1. PICK it \in Item, d \in {worker[v].chunk} : it = worker[v].item
        BY <2>1, <2>9, <3>2, AtHand DEF HandleInv
      <4>2. Inserted(it, d)
        BY <2>1, <2>9, <3>2, <4>1 DEF PointsInv, InPart
      <4>3. Inserted(it, d)'
        BY <2>5, <4>2, StaysInserted
      <4>4. QED
        BY <2>1, <3>2, <4>1, <4>3 DEF Inserted
    <3>3. QED
      BY <3>1, <3>2
  <2>10. InPart'
    BY <2>9 DEF InPart
  <2>11. QED
    BY <1>6, <2>1, <2>5, <2>8, <2>10, Stays
<1>7. QED
  BY <1>1, <1>3, <1>5, <1>6 DEF Insert, AddsChunk, WithPoint

LEMMA PointsNext == HandleInv /\ QueueInv /\ PointsInv /\ [Next]_vars => PointsInv'
<1> SUFFICES ASSUME HandleInv, QueueInv, PointsInv, [Next]_vars PROVE PointsInv'
  OBVIOUS
<1>1. CASE UNCHANGED vars
  <2>1. Grows /\ InPart' /\ OnlyNew'
    BY <1>1, Idles DEF vars
  <2>2. QED
    BY <1>1, <2>1, Stays DEF vars
<1>2. CASE Next
  BY <1>2, MainPoints, TakePoints, FindHandlePoints, LookupPoints, ObliteratePoints,
     CreatePoints, ReadyPoints, InsertPoints DEF Next, Step, Work
<1>3. QED
  BY <1>1, <1>2

-----------------------------------------------------------------------------
\* At the end nothing is on the way any more.
LEMMA NothingOnTheWay ==
    ASSUME HandleInv, QueueInv, PointsInv, main = "done", NEW item \in Imported
    PROVE  item \in Item /\ Inserted(item, item.chunks)
<1>1. \A w \in Workers : worker[w].pc = "done"
  BY DEF QueueInv, DoneInv
<1>2. \A w \in Workers : worker[w].item = None
  BY <1>1 DEF HandleInv, TypeOK
<1>3. PICK v \in Workers : TRUE
  BY WorkersAssumption
<1>4. input = <<>> /\ todo = {}
  BY <1>1, <1>3 DEF QueueInv, DoneInv, ReadInv
<1>5. item \in Item
  BY ImportedFacts DEF HandleInv
<1>6. PICK i \in DOMAIN bounds.files :
          item \in bounds.files[i] /\ \A h \in 1 .. i : bounds.files[h] # {}
  BY ImportedFacts DEF HandleInv
<1>7. ~(i >= cursor)
  BY <1>6 DEF QueueInv, ReadInv, AllRead
<1>8. i \in 1 .. cursor - 1
  BY <1>7, ImportedFacts DEF HandleInv
<1>9. Somewhere(item)
  BY <1>6, <1>8 DEF PointsInv, Whereabouts
<1>10. QED
  BY NoneAssumption, <1>2, <1>4, <1>5, <1>9 DEF Somewhere

LEMMA CompleteFromInv == HandleInv /\ QueueInv /\ PointsInv => CompleteIsComplete
<1> SUFFICES ASSUME HandleInv, QueueInv, PointsInv, main = "done",
                    NEW first \in Imported, NEW k \in Keys, k = first.key
             PROVE  \E s \in DOMAIN db :
                       /\ Found(k) = {s}
                       /\ Points(k) \subseteq db[s].points
                       /\ option.erase => db[s].points = Points(k)
  BY NothingOnTheWay DEF CompleteIsComplete, Item
<1>1. handle[k] > 0
  BY NothingOnTheWay DEF Inserted
<1>2. handle[k] \in DOMAIN db
  <2>1. DOMAIN db \subseteq Int
    BY DEF HandleInv, TypeOK
  <2>2. handle[k] \in {NoHandle, Pending} \cup DOMAIN db
    BY DEF HandleInv, TypeOK
  <2>3. QED
    BY <1>1, <2>1, <2>2
<1>3. Found(k) = {handle[k]}
  BY <1>1 DEF HandleInv, HandlesAreLive
<1>4. Points(k) \subseteq db[handle[k]].points
  <2> SUFFICES ASSUME NEW item \in Imported, item.key = k, NEW c \in 1 .. item.chunks
               PROVE  <<item.n, c>> \in db[handle[k]].points
    BY DEF Points
  <2>1. QED
    BY NothingOnTheWay DEF Inserted
<1>5. option.erase => db[handle[k]].points \subseteq Points(k)
  BY <1>1 DEF PointsInv, OnlyNew
<1>6. option.erase => db[handle[k]].points = Points(k)
  BY <1>4, <1>5, Zenon
<1>7. QED
  BY <1>2, <1>3, <1>4, <1>6

(* A complete import has put every point of its items in the one live stream of
   the item's key, after any number of failures and new starts. *)
THEOREM CompleteImport == Spec => []CompleteIsComplete
<1>1. Init => HandleInv /\ QueueInv /\ PointsInv
  BY HandleInit, QueueInit, PointsInit
<1>2. /\ HandleInv /\ QueueInv /\ PointsInv /\ [Next]_vars
      => (HandleInv /\ QueueInv /\ PointsInv)'
  BY HandleNext, QueueNext, PointsNext
<1>3. QED
  BY <1>1, <1>2, CompleteFromInv, PTL DEF Spec
=============================================================================
