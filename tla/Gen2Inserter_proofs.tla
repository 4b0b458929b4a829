-------------------------- MODULE Gen2Inserter_proofs --------------------------
(***************************************************************************)
(* Gen2Inserter proved for any devices, workers and keys, any size of the  *)
(* queue and any scenarios: a record is in one place, the count of bytes   *)
(* is that of what is queued and keeps its bound, streams are made once,   *)
(* and annotations are not forgotten.                                      *)
(***************************************************************************)
EXTENDS Gen2Inserter, FiniteSetTheorems, SequenceTheorems, WellFoundedInduction, TLAPS

\* All records of a sequence of batches.
RecordsOf(batches) == UNION {ToSet(b) : b \in ToSet(batches)}

\* A sequence has no element twice.
Once(s) == \A i, j \in DOMAIN s : s[i] = s[j] => i = j

\* No record is in two of the batches, or in one twice.
OnceIn(batches) ==
    \A i, j \in DOMAIN batches : \A m \in DOMAIN batches[i], n \in DOMAIN batches[j] :
       batches[i][m] = batches[j][n] => i = j /\ m = n

\* Where a record can be.
Places == ({"todo", "batch"} \X Devs) \cup ({"ir", "buf"} \X Workers)
          \cup ({"queue", "stored", "lost"} \X {None})

Along(todo, batch, q, ir, buf, kept, gone) ==
    [p \in Places |-> IF p[1] = "todo" THEN todo[p[2]]
                      ELSE IF p[1] = "batch" THEN batch[p[2]]
                      ELSE IF p[1] = "ir" THEN ir[p[2]]
                      ELSE IF p[1] = "buf" THEN buf[p[2]]
                      ELSE IF p[1] = "queue" THEN q
                      ELSE IF p[1] = "stored" THEN kept
                      ELSE gone]

With(ids) == {r \in Offered : r.id \in ids}

At == Along([d \in Devs |-> RecordsOf(producer[d].todo)],
            [d \in Devs |-> ToSet(producer[d].batch)],
            ToSet(workq),
            [w \in Workers |-> {worker[w].ir} \ {None}],
            [w \in Workers |-> worker[w].buf],
            With(Stored), With(lost))

\* Each of the records is in one place.
Account(at, all) ==
    /\ \A p \in Places : at[p] \subseteq all
    /\ \A r \in all : \E p \in Places : r \in at[p]
    /\ \A p, q \in Places : p # q => at[p] \cap at[q] = {}

\* The batches that the devices are to offer, their sizes, the largest one.
Batches == UNION {ToSet(bounds.offers[d]) : d \in Devs}
Sizes == {0} \cup {BatchSize(b) : b \in Batches}
Largest == Max(Sizes)

\* A call of ProcessBatch works on a batch of those that were to be offered.
ProducersOk ==
    /\ producer \in [Devs -> [pc : {"idle", "add", "send"}, batch : Seq(Record),
                              todo : Seq(Batch)]]
    /\ \A d \in Devs : /\ producer[d].batch = <<>> <=> producer[d].pc = "idle"
                       /\ Once(producer[d].batch) /\ OnceIn(producer[d].todo)
                       /\ ToSet(producer[d].todo) \subseteq Batches
                       /\ producer[d].pc = "add" => producer[d].batch \in Batches

QueueOk == workq \in Seq(Record) /\ Once(workq) /\ Len(workq) <= Capacity

PCs == {"top", "took", "flush", "lookup", "create", "annotate", "set", "insert"}

\* Who is between the lookup and the creation of a stream has the mutex, and no
\* stream has been made of that collection and name since it looked.
WorkerOk(w) ==
    /\ worker[w].pc = "took" <=> worker[w].ir # None
    /\ worker[w].pc \in {"lookup", "create"} <=> mu = w
    /\ worker[w].pc \in {"lookup", "create", "annotate", "set", "insert"}
          => worker[w].at \in Keys
    /\ worker[w].pc \in {"annotate", "set", "insert"} => cache[worker[w].at] \in streams
    /\ worker[w].pc = "create" => \A s \in streams : Name[s] # Name[worker[w].at]
    /\ worker[w].pc = "set" => anns[w][worker[w].at] # None

WorkerType == [pc : PCs, ir : Record \cup {None}, buf : SUBSET Record,
               at : Keys \cup {None}, ver : Nat]

WorkersOk ==
    /\ worker \in [Workers -> WorkerType]
    /\ mu \in Workers \cup {None}
    /\ \A w \in Workers : WorkerOk(w)

StreamsOk ==
    /\ streams \subseteq Keys /\ cache \in [Keys -> streams \cup {None}]
    /\ version \in [Keys -> Nat] /\ stored \subseteq Ids(Offered) \X streams
    /\ \A s, t \in streams : Name[s] = Name[t] => s = t

\* Annotations of what is in a buffer or inserted are set, replaced or kept.
AnnsOk ==
    /\ anns \in [Workers -> [Keys -> Ids(Offered) \cup {None}]]
    /\ settled \subseteq Ids(Offered)
    /\ used["crashes"] = 0 =>
          \A r \in Offered :
             r.annotated /\ (r.id \in Stored \/ \E w \in Workers : r \in worker[w].buf)
                => r.id \in settled \/ \E w \in Workers : anns[w][r.key] = r.id

\* What has been counted and is not collected yet.
Counted ==
    (UNION {ToSet(producer[d].batch) : d \in {e \in Devs : producer[e].pc = "send"}})
    \cup ToSet(workq)
    \cup {worker[w].ir : w \in {v \in Workers : worker[v].pc = "took"}}

CountOk == curSize = MapThenSumSet(Size, Counted)

\* Of the devices that have tested the count and not added to it, one did so
\* last: it saw what all that had added before had added.
Adding == {d \in Devs : producer[d].pc = "add"}

BoundOk ==
    /\ Adding = {} => curSize < MaxSize + (Cardinality(Devs) - 1) * Largest
    /\ Adding # {} =>
          \E d \in Adding : curSize + BatchSize(producer[d].batch)
                               + Cardinality(Adding) * Largest
                            < MaxSize + Cardinality(Devs) * Largest

RestOk == bounds \in Scenarios /\ used \in [Kinds -> Nat] /\ lost \subseteq Ids(Offered)

IInv ==
    /\ RestOk /\ ProducersOk /\ QueueOk /\ WorkersOk /\ StreamsOk /\ AnnsOk
    /\ CountOk /\ BoundOk /\ Account(At, Offered)

-----------------------------------------------------------------------------
(* Induction, and the bytes of a set of records. *)

\* Any set of natural numbers has a least one: the library's induction theorems
\* have operators as parameters, this one has not.
LEMMA Smallest ==
    ASSUME NEW T, T \subseteq Nat, T # {}
    PROVE  \E n \in T : \A m \in T : n <= m
<1> DEFINE R == OpToRel(<, Nat)
<1>1. IsWellFoundedOn(R, Nat)
  BY NatLessThanWellFounded, Zenon
<1>2. \A m, n \in Nat : <<m, n>> \in R <=> m < n
  BY DEF OpToRel
<1> HIDE DEF R
<1>3. PICK n \in T : \A m \in T : ~ (<<m, n>> \in R)
  BY <1>1, WFMin
<1>4. ASSUME NEW m \in T PROVE n <= m
  <2>1. m \in Nat /\ n \in Nat /\ ~ (<<m, n>> \in R)
    BY <1>3
  <2>2. ~ (m < n)
    BY <1>2, <2>1
  <2>3. QED
    BY <2>1, <2>2
<1>5. QED
  BY <1>4

\* Induction over a set of natural numbers.
LEMMA FromZero ==
    ASSUME NEW T, 0 \in T, \A n \in Nat : n \in T => n + 1 \in T
    PROVE  Nat \subseteq T
<1> DEFINE F == {n \in Nat : n \notin T}
<1>1. CASE F = {}
  BY <1>1
<1>2. CASE F # {}
  <2> HIDE DEF F
  <2>1. PICK n \in F : \A m \in F : n <= m
    BY <1>2, Smallest DEF F
  <2>2. n \in Nat /\ n \notin T /\ n # 0
    BY <2>1 DEF F
  <2>3. n - 1 \in Nat /\ n - 1 + 1 = n /\ ~ (n <= n - 1)
    BY <2>2
  <2>4. n - 1 \in T
    BY <2>1, <2>3 DEF F
  <2>5. QED
    BY <2>2, <2>3, <2>4
<1>3. QED
  BY <1>1, <1>2

Total(S) == MapThenSumSet(Size, S)

Pick(S) == CHOOSE r \in S : TRUE

Adds(f, s) == IF s = {} THEN 0 ELSE Size(Pick(s)) + f[s \ {Pick(s)}]

IsTotal(f, S) == f = [s \in SUBSET S |-> Adds(f, s)]

Sized(S) == IsFiniteSet(S) /\ \A r \in S : Size(r) \in Nat

LEMMA Smaller ==
    ASSUME NEW S, IsFiniteSet(S), NEW s \in SUBSET S, s # {}
    PROVE  /\ Pick(s) \in s /\ Pick(s) \in S /\ s \ {Pick(s)} \in SUBSET S
           /\ Cardinality(s) \in Nat /\ Cardinality(s \ {Pick(s)}) \in Nat
           /\ Cardinality(s) = Cardinality(s \ {Pick(s)}) + 1
<1>1. Pick(s) \in s
  BY DEF Pick
<1>2. IsFiniteSet(s)
  BY FS_Subset
<1>3. Cardinality(s \ {Pick(s)}) = Cardinality(s) - 1
  BY <1>1, <1>2, FS_RemoveElement
<1>4. IsFiniteSet(s \ {Pick(s)})
  BY <1>2, FS_Subset
<1>5. Cardinality(s) \in Nat /\ Cardinality(s \ {Pick(s)}) \in Nat
  BY <1>2, <1>4, FS_CardinalityType
<1>6. QED
  BY <1>1, <1>3, <1>5

LEMMA EmptyOnly ==
    ASSUME NEW S, IsFiniteSet(S), NEW s \in SUBSET S, Cardinality(s) <= 0
    PROVE  s = {}
<1>1. IsFiniteSet(s)
  BY FS_Subset
<1>2. Cardinality(s) \in Nat /\ (Cardinality(s) = 0 <=> s = {})
  BY <1>1, FS_CardinalityType, FS_EmptySet
<1>3. Cardinality(s) = 0
  BY <1>2
<1>4. QED
  BY <1>2, <1>3

LEMMA TotalExists ==
    ASSUME NEW S, Sized(S)
    PROVE  \E f \in [SUBSET S -> Nat] : IsTotal(f, S)
<1> DEFINE UpTo(f, n) == \A s \in SUBSET S : Cardinality(s) <= n => f[s] = Adds(f, s)
           T == {n \in Nat : \E f \in [SUBSET S -> Nat] : UpTo(f, n)}
<1>1. ASSUME NEW f \in [SUBSET S -> Nat], NEW s \in SUBSET S
      PROVE  Adds(f, s) \in Nat
  <2>1. CASE s = {}
    BY <2>1 DEF Adds
  <2>2. CASE s # {}
    <3>1. Pick(s) \in S /\ s \ {Pick(s)} \in SUBSET S
      BY <2>2, Smaller DEF Sized
    <3>2. Size(Pick(s)) \in Nat /\ f[s \ {Pick(s)}] \in Nat
      BY <3>1 DEF Sized
    <3>3. QED
      BY <2>2, <3>2 DEF Adds
  <2>3. QED
    BY <2>1, <2>2
<1>2. 0 \in T
  <2> DEFINE f == [s \in SUBSET S |-> 0]
  <2>1. f \in [SUBSET S -> Nat]
    OBVIOUS
  <2>2. ASSUME NEW s \in SUBSET S, Cardinality(s) <= 0 PROVE s = {}
    BY <2>2, EmptyOnly DEF Sized
  <2>3. f[{}] = 0
    OBVIOUS
  <2> HIDE DEF f
  <2>4. ASSUME NEW s \in SUBSET S, Cardinality(s) <= 0 PROVE f[s] = Adds(f, s)
    BY <2>2, <2>3, <2>4 DEF Adds
  <2>5. QED
    BY <2>1, <2>4
<1>3. ASSUME NEW n \in Nat, n \in T PROVE n + 1 \in T
  <2>1. PICK f \in [SUBSET S -> Nat] : UpTo(f, n)
    BY <1>3
  <2> DEFINE g == [s \in SUBSET S |-> Adds(f, s)]
  <2>2. g \in [SUBSET S -> Nat]
    BY <1>1
  <2>3. ASSUME NEW s \in SUBSET S, Cardinality(s) <= n + 1 PROVE g[s] = Adds(g, s)
    <3>1. CASE s = {}
      BY <3>1 DEF Adds
    <3>2. CASE s # {}
      <4> DEFINE t == s \ {Pick(s)}
      <4>1. t \in SUBSET S /\ Cardinality(t) <= n
        BY <2>3, <3>2, Smaller DEF Sized
      <4> HIDE DEF t
      <4>2. g[t] = f[t]
        BY <2>1, <4>1
      <4>3. Adds(f, s) = Size(Pick(s)) + f[t] /\ Adds(g, s) = Size(Pick(s)) + g[t]
        BY <3>2 DEF Adds, t
      <4>4. QED
        BY <4>2, <4>3
    <3>3. QED
      BY <3>1, <3>2
  <2> HIDE DEF g
  <2>4. QED
    BY <2>2, <2>3
<1>4. Cardinality(S) \in T
  <2> HIDE DEF T
  <2>1. Nat \subseteq T
    BY <1>2, <1>3, FromZero
  <2>2. QED
    BY <2>1, FS_CardinalityType DEF Sized
<1>5. PICK f \in [SUBSET S -> Nat] : UpTo(f, Cardinality(S))
  BY <1>4
<1>6. \A s \in SUBSET S : f[s] = Adds(f, s)
  BY <1>5, FS_Subset DEF Sized
<1>7. QED
  BY <1>6 DEF IsTotal

\* Such a function is no other on a part of the set.
LEMMA TotalUnique ==
    ASSUME NEW S, IsFiniteSet(S), NEW R \in SUBSET S, NEW f, NEW g, IsTotal(f, R), IsTotal(g, S)
    PROVE  \A s \in SUBSET R : f[s] = g[s]
<1> DEFINE T == {n \in Nat : \A s \in SUBSET R : Cardinality(s) <= n => f[s] = g[s]}
<1>1. \A s \in SUBSET R : f[s] = Adds(f, s) /\ g[s] = Adds(g, s)
  BY DEF IsTotal
<1>2. IsFiniteSet(R)
  BY FS_Subset
<1>3. 0 \in T
  <2>1. ASSUME NEW s \in SUBSET R, Cardinality(s) <= 0 PROVE f[s] = g[s]
    <3>1. s = {}
      BY <1>2, <2>1, EmptyOnly
    <3>2. Adds(f, s) = 0 /\ Adds(g, s) = 0
      BY <3>1 DEF Adds
    <3>3. QED
      BY <1>1, <3>2
  <2>2. QED
    BY <2>1
<1>4. ASSUME NEW n \in Nat, n \in T PROVE n + 1 \in T
  <2>1. ASSUME NEW s \in SUBSET R, Cardinality(s) <= n + 1 PROVE f[s] = g[s]
    <3>1. CASE s = {}
      BY <1>1, <3>1 DEF Adds
    <3>2. CASE s # {}
      <4> DEFINE t == s \ {Pick(s)}
      <4>1. t \in SUBSET R /\ Cardinality(t) <= n
        BY <1>2, <2>1, <3>2, Smaller
      <4> HIDE DEF t
      <4>2. f[t] = g[t]
        BY <1>4, <4>1
      <4>3. Adds(f, s) = Size(Pick(s)) + f[t] /\ Adds(g, s) = Size(Pick(s)) + g[t]
        BY <3>2 DEF Adds, t
      <4>4. QED
        BY <1>1, <4>2, <4>3
    <3>3. QED
      BY <3>1, <3>2
  <2>2. QED
    BY <2>1
<1>5. ASSUME NEW s \in SUBSET R PROVE f[s] = g[s]
  <2>1. Cardinality(s) \in Nat
    BY <1>2, FS_Subset, FS_CardinalityType
  <2> HIDE DEF T
  <2>2. Nat \subseteq T
    BY <1>3, <1>4, FromZero
  <2>3. QED
    BY <2>1, <2>2 DEF T
<1>6. QED
  BY <1>5

LEMMA TotalIs ==
    ASSUME NEW S, Sized(S)
    PROVE  \E f : IsTotal(f, S) /\ Total(S) = f[S]
<1> DEFINE f == CHOOSE f : IsTotal(f, S)
<1>1. \E g : IsTotal(g, S)
  BY TotalExists
<1>2. IsTotal(f, S)
  BY <1>1
<1>3. Total(S) = f[S]
  BY DEF Total, MapThenSumSet, MapThenFoldSet, IsTotal, Adds, Pick
<1>4. QED
  BY <1>2, <1>3

\* The total of a set is what the definition of MapThenSumSet suggests.
LEMMA TotalOf ==
    ASSUME NEW S, Sized(S)
    PROVE  \E f \in [SUBSET S -> Nat] : /\ IsTotal(f, S)
                                        /\ \A s \in SUBSET S : Total(s) = f[s]
<1>1. PICK f \in [SUBSET S -> Nat] : IsTotal(f, S)
  BY TotalExists
<1>2. ASSUME NEW s \in SUBSET S PROVE Total(s) = f[s]
  <2>1. Sized(s)
    BY FS_Subset DEF Sized
  <2>2. PICK g : IsTotal(g, s) /\ Total(s) = g[s]
    BY <2>1, TotalIs
  <2>3. g[s] = f[s]
    BY <1>1, <2>2, TotalUnique DEF Sized
  <2>4. QED
    BY <2>2, <2>3
<1>3. QED
  BY <1>1, <1>2

LEMMA TotalStep ==
    ASSUME NEW S, Sized(S)
    PROVE  /\ Total(S) \in Nat /\ Total({}) = 0
           /\ S # {} => Total(S) = Size(Pick(S)) + Total(S \ {Pick(S)})
<1>1. PICK f \in [SUBSET S -> Nat] : /\ IsTotal(f, S)
                                     /\ \A s \in SUBSET S : Total(s) = f[s]
  BY TotalOf
<1>2. \A s \in SUBSET S : f[s] = Adds(f, s)
  BY <1>1 DEF IsTotal
<1>3. Total(S) \in Nat /\ S \in SUBSET S /\ {} \in SUBSET S
  BY <1>1
<1>4. Total({}) = 0
  BY <1>1, <1>2, <1>3 DEF Adds
<1>5. ASSUME S # {} PROVE Total(S) = Size(Pick(S)) + Total(S \ {Pick(S)})
  <2>1. S \ {Pick(S)} \in SUBSET S
    OBVIOUS
  <2>2. f[S] = Size(Pick(S)) + f[S \ {Pick(S)}]
    BY <1>2, <1>3, <1>5 DEF Adds
  <2>3. QED
    BY <1>1, <1>3, <2>1, <2>2
<1>6. QED
  BY <1>3, <1>4, <1>5

LEMMA TotalAdd ==
    ASSUME NEW S, Sized(S), NEW r \in S
    PROVE  Total(S) = Total(S \ {r}) + Size(r)
<1> DEFINE T == {n \in Nat : \A s \in SUBSET S : Cardinality(s) <= n =>
                     \A x \in s : Total(s) = Total(s \ {x}) + Size(x)}
<1>1. 0 \in T
  <2>1. ASSUME NEW s \in SUBSET S, Cardinality(s) <= 0 PROVE s = {}
    BY <2>1, EmptyOnly DEF Sized
  <2>2. QED
    BY <2>1
<1>2. ASSUME NEW n \in Nat, n \in T PROVE n + 1 \in T
  <2> SUFFICES ASSUME NEW s \in SUBSET S, Cardinality(s) <= n + 1, NEW x \in s
               PROVE  Total(s) = Total(s \ {x}) + Size(x)
    OBVIOUS
  <2> DEFINE y == Pick(s)
             t == s \ {y}
  <2>1. /\ y \in s /\ y \in S /\ t \in SUBSET S /\ Cardinality(t) <= n
        /\ Sized(s) /\ Sized(t)
    BY Smaller, FS_Subset DEF Sized
  <2>2. Total(s) = Size(y) + Total(t)
    BY <2>1, TotalStep
  <2>3. Total(t) \in Nat /\ Size(y) \in Nat /\ Size(x) \in Nat
    BY <2>1, TotalStep DEF Sized
  <2> HIDE DEF y
  <2>4. CASE x = y
    BY <2>2, <2>3, <2>4
  <2>5. CASE x # y
    <3> DEFINE u == t \ {x}
               v == s \ {x}
    <3>1. Total(t) = Total(u) + Size(x)
      BY <1>2, <2>1, <2>5
    <3>2. /\ v \in SUBSET S /\ y \in v /\ v \ {y} = u /\ u \in SUBSET S
          /\ Sized(v) /\ Sized(u)
      BY <2>1, <2>5, FS_Subset DEF Sized
    <3>3. Cardinality(v) <= n
      <4>1. Cardinality(v) = Cardinality(s) - 1 /\ Cardinality(s) \in Nat
        BY <2>1, FS_RemoveElement, FS_CardinalityType DEF Sized
      <4>2. QED
        BY <4>1
    <3> HIDE DEF u, v
    <3>4. Total(v) = Total(u) + Size(y)
      BY <1>2, <3>2, <3>3
    <3>5. Total(u) \in Nat /\ Total(v) \in Nat
      BY <3>2, TotalStep
    <3>6. Total(s) = Total(v) + Size(x)
      BY <2>2, <2>3, <3>1, <3>4, <3>5
    <3>7. QED
      BY <3>6 DEF v
  <2>6. QED
    BY <2>4, <2>5
<1>3. Cardinality(S) \in T
  <2> HIDE DEF T
  <2>1. Nat \subseteq T
    BY <1>1, <1>2, FromZero
  <2>2. QED
    BY <2>1, FS_CardinalityType DEF Sized
<1>4. QED
  BY <1>3, FS_CardinalityType DEF Sized

LEMMA TotalUnion ==
    ASSUME NEW S, Sized(S), NEW A \in SUBSET S, NEW B \in SUBSET S, A \cap B = {}
    PROVE  Total(A \cup B) = Total(A) + Total(B)
<1> DEFINE T == {n \in Nat : \A b \in SUBSET B : Cardinality(b) <= n =>
                     Total(A \cup b) = Total(A) + Total(b)}
<1>1. Sized(A) /\ Sized(B) /\ Total(A) \in Nat /\ Total({}) = 0
  <2>1. Sized(A) /\ Sized(B)
    BY FS_Subset DEF Sized
  <2>2. QED
    BY <2>1, TotalStep
<1>2. 0 \in T
  <2>1. ASSUME NEW b \in SUBSET B, Cardinality(b) <= 0
        PROVE  Total(A \cup b) = Total(A) + Total(b)
    <3>1. b = {}
      BY <1>1, <2>1, EmptyOnly DEF Sized
    <3>2. A \cup b = A
      BY <3>1
    <3>3. QED
      BY <1>1, <3>1, <3>2
  <2>2. QED
    BY <2>1
<1>3. ASSUME NEW n \in Nat, n \in T PROVE n + 1 \in T
  <2> SUFFICES ASSUME NEW b \in SUBSET B, Cardinality(b) <= n + 1
               PROVE  Total(A \cup b) = Total(A) + Total(b)
    OBVIOUS
  <2>1. CASE b = {}
    <3>1. A \cup b = A
      BY <2>1
    <3>2. QED
      BY <1>1, <2>1, <3>1
  <2>2. CASE b # {}
    <3> DEFINE y == Pick(b)
               c == b \ {y}
               u == A \cup b
    <3>1. y \in b /\ c \in SUBSET B /\ Cardinality(c) <= n
      BY <1>1, <2>2, Smaller DEF Sized
    <3>2. /\ y \in u /\ u \ {y} = A \cup c /\ A \cup c \in SUBSET S
          /\ Sized(u) /\ Sized(c) /\ Sized(b) /\ Sized(A \cup c)
      BY <3>1, FS_Subset DEF Sized
    <3> HIDE DEF y
    <3>3. Total(A \cup c) = Total(A) + Total(c)
      BY <1>3, <3>1
    <3> HIDE DEF u
    <3>4. Total(b) = Total(c) + Size(y) /\ Total(u) = Total(A \cup c) + Size(y)
      BY <3>1, <3>2, TotalAdd
    <3>5. Total(c) \in Nat /\ Total(A \cup c) \in Nat /\ Size(y) \in Nat
      BY <3>1, <3>2, TotalStep DEF Sized
    <3>6. Total(u) = Total(A) + Total(b)
      BY <1>1, <3>3, <3>4, <3>5
    <3>7. QED
      BY <3>6 DEF u
  <2>3. QED
    BY <2>1, <2>2
<1>4. Cardinality(B) \in T
  <2> HIDE DEF T
  <2>1. Nat \subseteq T
    BY <1>2, <1>3, FromZero
  <2>2. QED
    BY <1>1, <2>1, FS_CardinalityType DEF Sized
<1>5. QED
  BY <1>1, <1>4, FS_CardinalityType DEF Sized

-----------------------------------------------------------------------------
(* Sequences. *)

LEMMA SeqFacts ==
    ASSUME NEW S, NEW s \in Seq(S)
    PROVE  /\ Len(s) \in Nat /\ DOMAIN s = 1 .. Len(s)
           /\ \A k \in DOMAIN s : s[k] \in S
           /\ ToSet(s) \subseteq S
           /\ \A x : x \in ToSet(s) <=> \E k \in DOMAIN s : s[k] = x
<1>1. Len(s) \in Nat /\ DOMAIN s = 1 .. Len(s) /\ s \in [1 .. Len(s) -> S]
  BY LenProperties
<1>2. \A k \in DOMAIN s : s[k] \in S
  BY <1>1
<1>3. \A x : x \in ToSet(s) <=> \E k \in DOMAIN s : s[k] = x
  BY DEF ToSet
<1>4. ToSet(s) \subseteq S
  BY <1>2, <1>3
<1>5. QED
  BY <1>1, <1>2, <1>3, <1>4

LEMMA NoElements == Once(<<>>) /\ ToSet(<<>>) = {} /\ OnceIn(<<>>) /\ RecordsOf(<<>>) = {}
<1>1. DOMAIN <<>> = {}
  OBVIOUS
<1>2. Once(<<>>) /\ OnceIn(<<>>)
  BY <1>1 DEF Once, OnceIn
<1>3. ToSet(<<>>) = {}
  BY <1>1 DEF ToSet
<1>4. RecordsOf(<<>>) = {}
  BY <1>3 DEF RecordsOf
<1>5. QED
  BY <1>2, <1>3, <1>4

LEMMA Tails ==
    ASSUME NEW S, NEW s \in Seq(S), s # <<>>
    PROVE  /\ Head(s) = s[1] /\ Head(s) \in S /\ 1 \in DOMAIN s
           /\ Tail(s) \in Seq(S) /\ Len(Tail(s)) = Len(s) - 1 /\ Len(s) >= 1
           /\ DOMAIN Tail(s) = 1 .. Len(s) - 1
           /\ \A k \in DOMAIN Tail(s) : k + 1 \in DOMAIN s /\ Tail(s)[k] = s[k + 1]
           /\ ToSet(s) = {Head(s)} \cup ToSet(Tail(s))
<1>1. /\ Tail(s) \in Seq(S) /\ Len(Tail(s)) = Len(s) - 1 /\ Head(s) \in S
      /\ \A k \in 1 .. Len(Tail(s)) : Tail(s)[k] = s[k + 1]
  BY HeadTailProperties
<1>2. /\ Len(s) \in Nat /\ DOMAIN s = 1 .. Len(s)
      /\ \A x : x \in ToSet(s) <=> \E k \in DOMAIN s : s[k] = x
  BY SeqFacts
<1>3. /\ Len(Tail(s)) \in Nat /\ DOMAIN Tail(s) = 1 .. Len(Tail(s))
      /\ \A x : x \in ToSet(Tail(s)) <=> \E k \in DOMAIN Tail(s) : Tail(s)[k] = x
  BY <1>1, SeqFacts
<1>4. Len(s) >= 1 /\ 1 \in DOMAIN s /\ Head(s) = s[1]
  BY <1>2, <1>1, <1>3
<1>5. \A k \in DOMAIN Tail(s) : k + 1 \in DOMAIN s /\ Tail(s)[k] = s[k + 1]
  BY <1>1, <1>2, <1>3
<1>6. \A k \in DOMAIN s : k = 1 \/ (k - 1 \in DOMAIN Tail(s) /\ k - 1 + 1 = k)
  BY <1>1, <1>2, <1>3
<1>7. ASSUME NEW x PROVE x \in ToSet(s) <=> x = Head(s) \/ x \in ToSet(Tail(s))
  <2>1. ASSUME NEW k \in DOMAIN s, s[k] = x, k # 1 PROVE x \in ToSet(Tail(s))
    <3>1. k - 1 \in DOMAIN Tail(s) /\ Tail(s)[k - 1] = x
      BY <1>5, <1>6, <2>1
    <3>2. QED
      BY <1>3, <3>1
  <2>2. x = Head(s) => x \in ToSet(s)
    BY <1>2, <1>4
  <2>3. x \in ToSet(Tail(s)) => x \in ToSet(s)
    BY <1>2, <1>3, <1>5
  <2>4. QED
    BY <1>2, <1>4, <2>1, <2>2, <2>3
<1>8. QED
  BY <1>1, <1>3, <1>4, <1>5, <1>7

LEMMA OnceTail ==
    ASSUME NEW S, NEW s \in Seq(S), s # <<>>, Once(s)
    PROVE  Once(Tail(s)) /\ Head(s) \notin ToSet(Tail(s))
<1>1. /\ Head(s) = s[1] /\ 1 \in DOMAIN s /\ Tail(s) \in Seq(S)
      /\ DOMAIN Tail(s) = 1 .. Len(s) - 1
      /\ \A k \in DOMAIN Tail(s) : k + 1 \in DOMAIN s /\ Tail(s)[k] = s[k + 1]
  BY Tails
<1>2. Len(s) \in Nat
  BY SeqFacts
<1>3. ASSUME NEW j \in DOMAIN Tail(s), NEW k \in DOMAIN Tail(s), Tail(s)[j] = Tail(s)[k]
      PROVE  j = k
  <2>1. j + 1 = k + 1
    BY <1>1, <1>3 DEF Once
  <2>2. QED
    BY <1>1, <1>2, <2>1
<1>4. ASSUME NEW k \in DOMAIN Tail(s) PROVE Tail(s)[k] # Head(s)
  <2>1. k + 1 # 1
    BY <1>1, <1>2
  <2>2. QED
    BY <1>1, <2>1 DEF Once
<1>5. Once(Tail(s))
  BY <1>3 DEF Once
<1>6. \A x : x \in ToSet(Tail(s)) <=> \E k \in DOMAIN Tail(s) : Tail(s)[k] = x
  BY DEF ToSet
<1>7. QED
  BY <1>4, <1>5, <1>6

LEMMA OnceAppend ==
    ASSUME NEW S, NEW s \in Seq(S), Once(s), NEW x \in S, x \notin ToSet(s)
    PROVE  /\ Append(s, x) \in Seq(S) /\ Len(Append(s, x)) = Len(s) + 1
           /\ ToSet(Append(s, x)) = ToSet(s) \cup {x} /\ Once(Append(s, x))
<1> DEFINE t == Append(s, x)
<1>1. /\ t \in Seq(S) /\ Len(t) = Len(s) + 1
      /\ \A k \in 1 .. Len(s) : t[k] = s[k]
      /\ t[Len(s) + 1] = x
  BY AppendProperties
<1> HIDE DEF t
<1>2. /\ Len(s) \in Nat /\ DOMAIN s = 1 .. Len(s)
      /\ \A y : y \in ToSet(s) <=> \E k \in DOMAIN s : s[k] = y
  BY SeqFacts
<1>3. /\ DOMAIN t = 1 .. Len(s) + 1
      /\ \A y : y \in ToSet(t) <=> \E k \in DOMAIN t : t[k] = y
  BY <1>1, SeqFacts
<1>4. \A k \in DOMAIN t : (k \in DOMAIN s /\ t[k] = s[k]) \/ (k = Len(s) + 1 /\ t[k] = x)
  BY <1>1, <1>2, <1>3
<1>5. \A k \in DOMAIN s : k \in DOMAIN t /\ t[k] = s[k]
  BY <1>1, <1>2, <1>3
<1>6. Len(s) + 1 \in DOMAIN t
  BY <1>2, <1>3
<1>7. ToSet(t) = ToSet(s) \cup {x}
  BY <1>1, <1>2, <1>3, <1>4, <1>5, <1>6
<1>8. \A j \in DOMAIN s : s[j] # x
  BY <1>2
<1>9. Once(t)
  BY <1>4, <1>8 DEF Once
<1>10. QED
  BY <1>1, <1>7, <1>9 DEF t

\* The first batch, and the records of the others.
LEMMA BatchesTail ==
    ASSUME NEW t \in Seq(Batch), t # <<>>, OnceIn(t)
    PROVE  /\ Head(t) \in Batch /\ Head(t) \in Seq(Record) /\ Head(t) # <<>> /\ Once(Head(t))
           /\ Tail(t) \in Seq(Batch) /\ OnceIn(Tail(t))
           /\ RecordsOf(t) = ToSet(Head(t)) \cup RecordsOf(Tail(t))
           /\ ToSet(Head(t)) \cap RecordsOf(Tail(t)) = {}
           /\ Head(t) \in ToSet(t) /\ ToSet(Tail(t)) \subseteq ToSet(t)
<1>1. /\ Head(t) = t[1] /\ Head(t) \in Batch /\ 1 \in DOMAIN t
      /\ Tail(t) \in Seq(Batch) /\ DOMAIN Tail(t) = 1 .. Len(t) - 1
      /\ \A k \in DOMAIN Tail(t) : k + 1 \in DOMAIN t /\ Tail(t)[k] = t[k + 1]
      /\ ToSet(t) = {Head(t)} \cup ToSet(Tail(t))
  BY Tails
<1>2. Len(t) \in Nat
  BY SeqFacts
<1>3. Once(Head(t))
  BY <1>1 DEF Once, OnceIn
<1>4. OnceIn(Tail(t))
  <2> SUFFICES ASSUME NEW i \in DOMAIN Tail(t), NEW j \in DOMAIN Tail(t),
                      NEW m \in DOMAIN Tail(t)[i], NEW n \in DOMAIN Tail(t)[j],
                      Tail(t)[i][m] = Tail(t)[j][n]
               PROVE  i = j /\ m = n
    BY DEF OnceIn
  <2>1. i + 1 = j + 1 /\ m = n
    BY <1>1 DEF OnceIn
  <2>2. QED
    BY <1>1, <1>2, <2>1
<1>5. RecordsOf(t) = ToSet(Head(t)) \cup RecordsOf(Tail(t))
  BY <1>1 DEF RecordsOf
<1>6. ASSUME NEW r \in ToSet(Head(t)), r \in RecordsOf(Tail(t)) PROVE FALSE
  <2>1. PICK m \in DOMAIN Head(t) : Head(t)[m] = r
    BY DEF ToSet
  <2>2. PICK b \in ToSet(Tail(t)) : r \in ToSet(b)
    BY <1>6 DEF RecordsOf
  <2>3. PICK j \in DOMAIN Tail(t) : Tail(t)[j] = b
    BY DEF ToSet
  <2>4. PICK n \in DOMAIN b : b[n] = r
    BY <2>2 DEF ToSet
  <2>5. j + 1 \in DOMAIN t /\ t[j + 1] = b /\ t[1] = Head(t)
    BY <1>1, <2>3
  <2>6. 1 = j + 1
    BY <1>1, <2>1, <2>4, <2>5 DEF OnceIn
  <2>7. QED
    BY <1>1, <1>2, <2>6
<1>7. QED
  BY <1>1, <1>3, <1>4, <1>5, <1>6 DEF Batch

-----------------------------------------------------------------------------
(* The places of a record. *)

LEMMA AlongFacts ==
    ASSUME NEW todo, NEW batch, NEW q, NEW ir, NEW buf, NEW kept, NEW gone
    PROVE  LET at == Along(todo, batch, q, ir, buf, kept, gone) IN
           /\ \A d \in Devs : at[<<"todo", d>>] = todo[d] /\ at[<<"batch", d>>] = batch[d]
           /\ \A w \in Workers : at[<<"ir", w>>] = ir[w] /\ at[<<"buf", w>>] = buf[w]
           /\ at[<<"queue", None>>] = q /\ at[<<"stored", None>>] = kept
           /\ at[<<"lost", None>>] = gone
<1>1. /\ \A d \in Devs : <<"todo", d>> \in Places /\ <<"batch", d>> \in Places
      /\ \A w \in Workers : <<"ir", w>> \in Places /\ <<"buf", w>> \in Places
      /\ <<"queue", None>> \in Places /\ <<"stored", None>> \in Places
      /\ <<"lost", None>> \in Places
  BY DEF Places
<1>2. QED
  BY <1>1 DEF Along

LEMMA PlacesFacts ==
    /\ \A d \in Devs : <<"todo", d>> \in Places /\ <<"batch", d>> \in Places
    /\ \A w \in Workers : <<"ir", w>> \in Places /\ <<"buf", w>> \in Places
    /\ <<"queue", None>> \in Places /\ <<"stored", None>> \in Places
    /\ <<"lost", None>> \in Places
    /\ \A p \in Places : \/ \E d \in Devs : p = <<"todo", d>> \/ p = <<"batch", d>>
                         \/ \E w \in Workers : p = <<"ir", w>> \/ p = <<"buf", w>>
                         \/ p \in {<<"queue", None>>, <<"stored", None>>, <<"lost", None>>}
BY DEF Places

LEMMA AtFacts ==
    /\ \A d \in Devs : /\ At[<<"todo", d>>] = RecordsOf(producer[d].todo)
                       /\ At[<<"batch", d>>] = ToSet(producer[d].batch)
    /\ \A w \in Workers : /\ At[<<"ir", w>>] = {worker[w].ir} \ {None}
                          /\ At[<<"buf", w>>] = worker[w].buf
    /\ At[<<"queue", None>>] = ToSet(workq) /\ At[<<"stored", None>>] = With(Stored)
    /\ At[<<"lost", None>>] = With(lost)
    /\ \A d \in Devs : /\ At'[<<"todo", d>>] = RecordsOf(producer'[d].todo)
                       /\ At'[<<"batch", d>>] = ToSet(producer'[d].batch)
    /\ \A w \in Workers : /\ At'[<<"ir", w>>] = {worker'[w].ir} \ {None}
                          /\ At'[<<"buf", w>>] = worker'[w].buf
    /\ At'[<<"queue", None>>] = ToSet(workq') /\ At'[<<"stored", None>>] = With(Stored)'
    /\ At'[<<"lost", None>>] = With(lost)'
<1> DEFINE todo == [d \in Devs |-> RecordsOf(producer[d].todo)]
           batch == [d \in Devs |-> ToSet(producer[d].batch)]
           ir == [w \in Workers |-> {worker[w].ir} \ {None}]
           buf == [w \in Workers |-> worker[w].buf]
<1>1. /\ \A d \in Devs : /\ todo[d] = RecordsOf(producer[d].todo)
                         /\ batch[d] = ToSet(producer[d].batch)
                         /\ todo'[d] = RecordsOf(producer'[d].todo)
                         /\ batch'[d] = ToSet(producer'[d].batch)
      /\ \A w \in Workers : /\ ir[w] = {worker[w].ir} \ {None} /\ buf[w] = worker[w].buf
                            /\ ir'[w] = {worker'[w].ir} \ {None} /\ buf'[w] = worker'[w].buf
  OBVIOUS
<1>2. At = Along(todo, batch, ToSet(workq), ir, buf, With(Stored), With(lost))
  BY DEF At
<1>3. At' = Along(todo', batch', ToSet(workq'), ir', buf', With(Stored)', With(lost)')
  BY DEF At
<1> HIDE DEF todo, batch, ir, buf
<1>4. QED
  BY <1>1, <1>2, <1>3, AlongFacts

LEMMA AtDevice ==
    ASSUME NEW d \in Devs
    PROVE  /\ <<"todo", d>> \in Places /\ <<"batch", d>> \in Places
           /\ At[<<"todo", d>>] = RecordsOf(producer[d].todo)
           /\ At[<<"batch", d>>] = ToSet(producer[d].batch)
           /\ At'[<<"todo", d>>] = RecordsOf(producer'[d].todo)
           /\ At'[<<"batch", d>>] = ToSet(producer'[d].batch)
BY AtFacts, PlacesFacts

LEMMA AtWorker ==
    ASSUME NEW w \in Workers
    PROVE  /\ <<"ir", w>> \in Places /\ <<"buf", w>> \in Places
           /\ At[<<"ir", w>>] = {worker[w].ir} \ {None}
           /\ At[<<"buf", w>>] = worker[w].buf
           /\ At'[<<"ir", w>>] = {worker'[w].ir} \ {None}
           /\ At'[<<"buf", w>>] = worker'[w].buf
BY AtFacts, PlacesFacts

\* Records get from a place to another one.
Moved(at, after, from, to, M) ==
    /\ from \in Places /\ to \in Places /\ from # to
    /\ M \subseteq at[from]
    /\ after[from] = at[from] \ M /\ after[to] = at[to] \cup M
    /\ \A p \in Places \ {from, to} : after[p] = at[p]

LEMMA Moves ==
    ASSUME NEW at, NEW all, Account(at, all), NEW after,
           NEW from, NEW to, NEW M, Moved(at, after, from, to, M)
    PROVE  Account(after, all)
<1>1. \A p \in Places : after[p] \subseteq all
  BY DEF Moved, Account
<1>2. ASSUME NEW r \in all PROVE \E p \in Places : r \in after[p]
  <2>1. PICK p \in Places : r \in at[p]
    BY DEF Account
  <2>2. QED
    BY <2>1 DEF Moved
<1>3. ASSUME NEW p \in Places, NEW q \in Places, p # q, NEW r \in after[p], r \in after[q]
      PROVE  FALSE
  <2>1. \A x, y \in Places : r \in at[x] /\ r \in at[y] => x = y
    BY DEF Account
  <2>2. r \in M \/ (r \in at[p] /\ r \in at[q])
    BY <1>3 DEF Moved
  <2>3. r \in M => r \in at[from] /\ r \notin after[from]
    BY DEF Moved
  <2>4. ASSUME NEW x \in Places, r \in M, r \in after[x] PROVE x = to
    <3>1. x # from
      BY <2>3, <2>4
    <3>2. x # to => r \in at[x]
      BY <2>4, <3>1 DEF Moved
    <3>3. QED
      BY <2>1, <2>3, <2>4, <3>1, <3>2 DEF Moved
  <2>5. QED
    BY <1>3, <2>1, <2>2, <2>4
<1>4. QED
  BY <1>1, <1>2, <1>3 DEF Account
-----------------------------------------------------------------------------
(* What is offered. *)

LEMMA FiniteRange ==
    ASSUME NEW S, IsFiniteSet(S), NEW f
    PROVE  IsFiniteSet({f[x] : x \in S})
<1> DEFINE T == {f[x] : x \in S}
           g == [x \in S |-> f[x]]
<1>1. g \in Surjection(S, T)
  BY DEF Surjection
<1> HIDE DEF T, g
<1>2. IsFiniteSet(T)
  BY <1>1, FS_Surjection
<1>3. QED
  BY <1>2 DEF T

LEMMA FiniteUnion ==
    ASSUME NEW S, IsFiniteSet(S), NEW f, \A x \in S : IsFiniteSet(f[x])
    PROVE  IsFiniteSet(UNION {f[x] : x \in S})
<1>1. IsFiniteSet({f[x] : x \in S})
  BY FiniteRange
<1>2. QED
  BY <1>1, FS_UNION

LEMMA FiniteSeq ==
    ASSUME NEW S, NEW s \in Seq(S)
    PROVE  IsFiniteSet(ToSet(s)) /\ (Once(s) => Cardinality(ToSet(s)) = Len(s))
<1>1. /\ Len(s) \in Nat /\ DOMAIN s = 1 .. Len(s)
      /\ \A x : x \in ToSet(s) <=> \E k \in DOMAIN s : s[k] = x
  BY SeqFacts
<1>2. IsFiniteSet(1 .. Len(s)) /\ Cardinality(1 .. Len(s)) = Len(s)
  <2>1. 1 \in Int /\ Len(s) \in Int
    BY <1>1
  <2>2. /\ IsFiniteSet(1 .. Len(s))
        /\ Cardinality(1 .. Len(s)) = IF 1 > Len(s) THEN 0 ELSE Len(s) - 1 + 1
    BY <2>1, FS_Interval
  <2>3. QED
    BY <1>1, <2>2
<1>3. ToSet(s) = {s[k] : k \in 1 .. Len(s)}
  BY <1>1
<1>4. IsFiniteSet(ToSet(s))
  BY <1>2, <1>3, FiniteRange
<1>5. ASSUME Once(s) PROVE Cardinality(ToSet(s)) = Len(s)
  <2>1. s \in [1 .. Len(s) -> ToSet(s)]
    <3>1. s = [k \in 1 .. Len(s) |-> s[k]]
      BY LenProperties
    <3>2. \A k \in 1 .. Len(s) : s[k] \in ToSet(s)
      BY <1>1
    <3>3. QED
      BY <3>1, <3>2
  <2>2. s \in Bijection(1 .. Len(s), ToSet(s))
    BY <1>1, <1>5, <2>1 DEF Bijection, Injection, Surjection, IsInjective, Once
  <2>3. ExistsBijection(1 .. Len(s), ToSet(s))
    BY <2>2 DEF ExistsBijection
  <2>4. QED
    BY <1>2, <2>3, FS_Bijection
<1>6. QED
  BY <1>4, <1>5

LEMMA MaxOf ==
    ASSUME NEW S, IsFiniteSet(S), S \subseteq Nat, S # {}
    PROVE  Max(S) \in S /\ \A m \in S : m <= Max(S)
<1> DEFINE Has(s) == \E n \in s : \A m \in s : n >= m
           T == {n \in Nat : \A s \in SUBSET S : s # {} /\ Cardinality(s) <= n => Has(s)}
<1>1. 0 \in T
  <2>1. \A s \in SUBSET S : Cardinality(s) <= 0 => s = {}
    BY EmptyOnly
  <2>2. QED
    BY <2>1
<1>2. ASSUME NEW n \in Nat, n \in T PROVE n + 1 \in T
  <2> SUFFICES ASSUME NEW s \in SUBSET S, s # {}, Cardinality(s) <= n + 1 PROVE Has(s)
    OBVIOUS
  <2> DEFINE x == Pick(s)
             t == s \ {x}
  <2>1. x \in s /\ t \in SUBSET S /\ Cardinality(t) <= n /\ s = t \cup {x}
    <3>1. /\ x \in s /\ t \in SUBSET S /\ Cardinality(t) \in Nat
          /\ Cardinality(s) = Cardinality(t) + 1
      BY Smaller
    <3>2. Cardinality(t) <= n
      BY <3>1
    <3>3. QED
      BY <3>1, <3>2
  <2> HIDE DEF x, t
  <2>2. x \in Nat /\ t \subseteq Nat
    BY <2>1
  <2>3. CASE t = {}
    BY <2>1, <2>2, <2>3
  <2>4. CASE t # {}
    <3>1. PICK y \in t : \A m \in t : y >= m
      BY <1>2, <2>1, <2>4
    <3>2. CASE x >= y
      <4>1. \A m \in s : x >= m
        BY <2>1, <2>2, <3>1, <3>2
      <4>2. QED
        BY <2>1, <4>1
    <3>3. CASE ~(x >= y)
      <4>1. \A m \in s : y >= m
        BY <2>1, <2>2, <3>1, <3>3
      <4>2. QED
        BY <2>1, <3>1, <4>1
    <3>4. QED
      BY <3>2, <3>3
  <2>5. QED
    BY <2>3, <2>4
<1>3. Cardinality(S) \in T
  <2> HIDE DEF T
  <2>1. Nat \subseteq T
    BY <1>1, <1>2, FromZero
  <2>2. QED
    BY <2>1, FS_CardinalityType
<1>4. Has(S)
  BY <1>3, FS_CardinalityType
<1>5. Max(S) \in S /\ \A m \in S : Max(S) >= m
  BY <1>4 DEF Max
<1>6. QED
  BY <1>5

LEMMA OfferedFacts ==
    ASSUME bounds \in Scenarios
    PROVE  /\ Sized(Offered) /\ Offered \subseteq Record
           /\ \A r \in Offered : r.id \in Nat /\ r.id # None /\ r.key \in Keys /\ r # None
           /\ \A r, q \in Offered : r.id = q.id => r = q
           /\ \A d \in Devs : bounds.offers[d] \in Seq(Batch) /\ OnceIn(bounds.offers[d])
           /\ \A d, e \in Devs :
                 d # e => RecordsOf(bounds.offers[d]) \cap RecordsOf(bounds.offers[e]) = {}
           /\ Offered = UNION {RecordsOf(bounds.offers[d]) : d \in Devs}
<1> DEFINE offers == bounds.offers
<1>0. \A s \in Scenarios : (\A d \in Devs : s.offers[d] \in Seq(Batch)) /\ Numbered(s.offers)
  BY ScenariosAssumption
<1>1. (\A d \in Devs : offers[d] \in Seq(Batch)) /\ Numbered(offers)
  BY <1>0
<1> HIDE DEF offers
<1>2. \A d \in Devs : \A i \in DOMAIN offers[d] :
         offers[d][i] \in Seq(Record)
  BY <1>1, SeqFacts DEF Batch
<1>3. \A d \in Devs : \A i \in DOMAIN offers[d] : \A m \in DOMAIN offers[d][i] :
         offers[d][i][m] \in Record
  BY <1>2, SeqFacts
<1>4. \A r : r \in Offered <=> \E d \in Devs : \E i \in DOMAIN offers[d] :
                                  \E m \in DOMAIN offers[d][i] : r = offers[d][i][m]
  BY DEF Offered, ToSet, offers
<1>5. \A d \in Devs : \A r : r \in RecordsOf(offers[d])
         <=> \E i \in DOMAIN offers[d] : \E m \in DOMAIN offers[d][i] : r = offers[d][i][m]
  BY DEF RecordsOf, ToSet
<1>6. Offered \subseteq Record
  BY <1>3, <1>4
<1>7. \A r \in Record : r.id \in Nat /\ r.key \in Keys /\ r.points \in Nat
  BY DEF Record
<1>8. \A r \in Record : r.id # None /\ r # None
  BY <1>7, NoneAssumption
<1>9. \A r, q \in Offered : r.id = q.id => r = q
  BY <1>1, <1>4 DEF Numbered
<1>10. \A d \in Devs : OnceIn(offers[d])
  BY <1>1 DEF Numbered, OnceIn
<1>11. ASSUME NEW d \in Devs, NEW e \in Devs, d # e,
              NEW r \in RecordsOf(offers[d]), r \in RecordsOf(offers[e])
       PROVE  FALSE
  <2>0. r \in RecordsOf(offers[d]) /\ r \in RecordsOf(offers[e])
    BY <1>11
  <2>1. PICK i \in DOMAIN offers[d] : \E m \in DOMAIN offers[d][i] : r = offers[d][i][m]
    BY <1>5, <2>0
  <2>2. PICK m \in DOMAIN offers[d][i] : r = offers[d][i][m]
    BY <2>1
  <2>3. PICK j \in DOMAIN offers[e] : \E n \in DOMAIN offers[e][j] : r = offers[e][j][n]
    BY <1>5, <2>0
  <2>4. PICK n \in DOMAIN offers[e][j] : r = offers[e][j][n]
    BY <2>3
  <2>5. offers[d][i][m].id = offers[e][j][n].id
    BY <2>2, <2>4
  <2>6. d = e
    BY <1>1, <2>5 DEF Numbered
  <2>7. QED
    BY <1>11, <2>6
<1>12. Offered = UNION {RecordsOf(offers[d]) : d \in Devs}
  <2> DEFINE S == {RecordsOf(offers[d]) : d \in Devs}
  <2>1. \A r : r \in UNION S <=> \E d \in Devs : r \in RecordsOf(offers[d])
    OBVIOUS
  <2> DEFINE From(d, r) ==
                \E i \in DOMAIN offers[d] : \E m \in DOMAIN offers[d][i] : r = offers[d][i][m]
  <2>2. \A r : r \in Offered <=> \E d \in Devs : From(d, r)
    BY <1>4
  <2>3. \A d \in Devs : \A r : r \in RecordsOf(offers[d]) <=> From(d, r)
    BY <1>5
  <2> HIDE DEF S, From
  <2>4. Offered = UNION S
    BY <2>1, <2>2, <2>3
  <2>5. QED
    BY <2>4 DEF S
<1>13. IsFiniteSet(Offered)
  <2> DEFINE f == [d \in Devs |-> RecordsOf(offers[d])]
  <2>1. ASSUME NEW d \in Devs PROVE IsFiniteSet(RecordsOf(offers[d]))
    <3> DEFINE S == ToSet(offers[d])
               g == [b \in S |-> ToSet(b)]
    <3>1. offers[d] \in Seq(Batch)
      BY <1>1
    <3>2. IsFiniteSet(S) /\ S \subseteq Batch
      BY <3>1, FiniteSeq, SeqFacts
    <3>3. \A b \in S : IsFiniteSet(ToSet(b))
      BY <3>2, FiniteSeq DEF Batch
    <3>4. RecordsOf(offers[d]) = UNION {g[b] : b \in S}
      BY DEF RecordsOf
    <3>5. \A b \in S : IsFiniteSet(g[b])
      BY <3>3
    <3> HIDE DEF S, g
    <3>6. QED
      BY <3>2, <3>4, <3>5, FiniteUnion
  <2>2. Offered = UNION {f[d] : d \in Devs} /\ \A d \in Devs : IsFiniteSet(f[d])
    BY <1>12, <2>1
  <2> HIDE DEF f
  <2>3. QED
    BY <2>2, FiniteUnion, DevsAssumption
<1>14. \A r \in Offered : Size(r) \in Nat
  BY <1>6, <1>7 DEF Size
<1>15. QED
  BY <1>1, <1>6, <1>7, <1>8, <1>9, <1>10, <1>11, <1>12, <1>13, <1>14 DEF Sized, offers

\* The largest of the batches bounds the others.
LEMMA LargestFacts ==
    ASSUME bounds \in Scenarios
    PROVE  /\ Largest \in Nat
           /\ \A b \in Batches : b \in Batch /\ BatchSize(b) \in Nat /\ BatchSize(b) <= Largest
<1>1. /\ Sized(Offered) /\ \A d \in Devs : bounds.offers[d] \in Seq(Batch)
  BY OfferedFacts
<1>2. IsFiniteSet(Batches) /\ Batches \subseteq Batch
  <2> DEFINE f == [d \in Devs |-> ToSet(bounds.offers[d])]
  <2>1. Batches = UNION {f[d] : d \in Devs}
    BY DEF Batches
  <2>2. \A d \in Devs : IsFiniteSet(f[d]) /\ f[d] \subseteq Batch
    BY <1>1, FiniteSeq, SeqFacts
  <2> HIDE DEF f
  <2>3. IsFiniteSet(Batches)
    BY <2>1, <2>2, FiniteUnion, DevsAssumption
  <2>4. QED
    BY <2>1, <2>2, <2>3
<1>3. ASSUME NEW b \in Batches PROVE BatchSize(b) \in Nat
  <2>1. b \in Seq(Record)
    BY <1>2 DEF Batch
  <2>2. IsFiniteSet(ToSet(b)) /\ ToSet(b) \subseteq Record
    BY <2>1, FiniteSeq, SeqFacts
  <2>3. \A r \in Record : Size(r) \in Nat
    BY DEF Record, Size
  <2>4. Sized(ToSet(b))
    BY <2>2, <2>3 DEF Sized
  <2>5. QED
    BY <2>4, TotalStep DEF BatchSize, Total
<1>4. IsFiniteSet(Sizes) /\ Sizes \subseteq Nat /\ 0 \in Sizes
  <2> DEFINE f == [b \in Batches |-> BatchSize(b)]
             S == {f[b] : b \in Batches}
  <2>1. IsFiniteSet(S)
    BY <1>2, FiniteRange
  <2>2. Sizes = {0} \cup S
    BY DEF Sizes
  <2> HIDE DEF S
  <2>3. IsFiniteSet({0})
    BY FS_Singleton
  <2>4. IsFiniteSet(Sizes)
    BY <2>1, <2>2, <2>3, FS_Union
  <2>5. QED
    BY <1>3, <2>4 DEF Sizes
<1>5. Largest \in Sizes /\ \A m \in Sizes : m <= Largest
  BY <1>4, MaxOf DEF Largest
<1>6. QED
  BY <1>2, <1>3, <1>4, <1>5 DEF Sizes

-----------------------------------------------------------------------------
(* What a step that leaves its variables alone keeps. *)

LEMMA SameOffered ==
    ASSUME bounds' = bounds
    PROVE  /\ Offered' = Offered /\ Batches' = Batches /\ Largest' = Largest
           /\ With(Stored)' = {r \in Offered : r.id \in Stored'}
           /\ With(lost)' = {r \in Offered : r.id \in lost'}
<1>1. Offered' = Offered
  BY DEF Offered
<1>2. Batches' = Batches
  BY DEF Batches
<1>3. Largest' = Largest
  BY <1>2 DEF Largest, Sizes
<1>4. QED
  BY <1>1, <1>2, <1>3 DEF With

LEMMA ProducersFrame ==
    ASSUME ProducersOk, UNCHANGED <<producer, bounds>>
    PROVE  ProducersOk'
BY SameOffered DEF ProducersOk

LEMMA QueueFrame ==
    ASSUME QueueOk, UNCHANGED workq
    PROVE  QueueOk'
BY DEF QueueOk

LEMMA OtherWorker ==
    ASSUME NEW w \in Workers, WorkerOk(w), worker'[w] = worker[w], anns'[w] = anns[w],
           mu = w <=> mu' = w,
           \A k \in Keys : cache[k] \in streams => cache'[k] \in streams',
           worker[w].pc = "create" => streams' = streams
    PROVE  WorkerOk(w)'
BY DEF WorkerOk

LEMMA WorkersFrame ==
    ASSUME WorkersOk, UNCHANGED <<worker, anns, mu, cache, streams>>
    PROVE  WorkersOk'
<1>1. \A w \in Workers : WorkerOk(w)'
  BY OtherWorker DEF WorkersOk
<1>2. QED
  BY <1>1 DEF WorkersOk

LEMMA StreamsFrame ==
    ASSUME StreamsOk, UNCHANGED <<bounds, streams, cache, version, stored>>
    PROVE  StreamsOk'
BY SameOffered DEF StreamsOk

LEMMA AnnsFrame ==
    ASSUME AnnsOk, UNCHANGED <<bounds, anns, settled, stored>>,
           used'["crashes"] = used["crashes"],
           \A w \in Workers : worker'[w].buf = worker[w].buf
    PROVE  AnnsOk'
<1>1. Offered' = Offered /\ Stored' = Stored
  BY SameOffered DEF Stored
<1>2. \A r : (\E w \in Workers : r \in worker'[w].buf) <=> \E w \in Workers : r \in worker[w].buf
  OBVIOUS
<1>3. QED
  BY <1>1, <1>2 DEF AnnsOk

LEMMA BoundFrame ==
    ASSUME BoundOk, UNCHANGED <<producer, bounds>>, bounds \in Scenarios,
           curSize \in Int, curSize' \in Int, curSize' <= curSize, ProducersOk
    PROVE  BoundOk'
<1>1. Adding' = Adding /\ Largest' = Largest
  BY SameOffered DEF Adding
<1>2. Largest \in Nat /\ MaxSize \in Nat
  BY LargestFacts, MaxSizeAssumption
<1> DEFINE p == (Cardinality(Devs) - 1) * Largest
           q == Cardinality(Devs) * Largest
           a == Cardinality(Adding) * Largest
<1>3. Cardinality(Devs) \in Nat /\ Cardinality(Adding) \in Nat
  <2>1. Adding \subseteq Devs
    BY DEF Adding
  <2>2. QED
    BY <2>1, DevsAssumption, FS_Subset, FS_CardinalityType
<1>4. p \in Int /\ q \in Int /\ a \in Int
  BY <1>2, <1>3
<1> HIDE DEF p, q, a
<1>5. /\ Adding = {} => curSize < MaxSize + p
      /\ Adding # {} => \E d \in Adding : curSize + BatchSize(producer[d].batch) + a < MaxSize + q
  BY DEF BoundOk, p, q, a
<1>6. \A d \in Adding : BatchSize(producer[d].batch) \in Nat
  BY LargestFacts DEF Adding, ProducersOk
<1>7. /\ Adding = {} => curSize' < MaxSize + p
      /\ Adding # {} => \E d \in Adding : curSize' + BatchSize(producer[d].batch) + a < MaxSize + q
  BY <1>2, <1>4, <1>5, <1>6
<1>8. BoundOk' = /\ Adding = {} => curSize' < MaxSize + p
                 /\ Adding # {} => \E d \in Adding :
                                      curSize' + BatchSize(producer[d].batch) + a < MaxSize + q
  BY <1>1 DEF BoundOk, p, q, a
<1>9. QED
  BY <1>7, <1>8

\* Of the places, those outside S hold what they held.
LEMMA Elsewhere ==
    ASSUME NEW S, bounds' = bounds,
           \A d \in Devs :
              /\ <<"todo", d>> \in S \/ producer'[d].todo = producer[d].todo
              /\ <<"batch", d>> \in S \/ producer'[d].batch = producer[d].batch,
           \A w \in Workers :
              /\ <<"ir", w>> \in S \/ worker'[w].ir = worker[w].ir
              /\ <<"buf", w>> \in S \/ worker'[w].buf = worker[w].buf,
           <<"queue", None>> \in S \/ workq' = workq,
           <<"stored", None>> \in S \/ stored' = stored,
           <<"lost", None>> \in S \/ lost' = lost
    PROVE  \A p \in Places \ S : At'[p] = At[p]
<1> SUFFICES ASSUME NEW p \in Places, p \notin S PROVE At'[p] = At[p]
  OBVIOUS
<1>1. ASSUME NEW d \in Devs, p = <<"todo", d>> PROVE At'[p] = At[p]
  <2>1. producer'[d].todo = producer[d].todo
    BY <1>1
  <2>2. QED
    BY <1>1, <2>1, AtDevice
<1>2. ASSUME NEW d \in Devs, p = <<"batch", d>> PROVE At'[p] = At[p]
  <2>1. producer'[d].batch = producer[d].batch
    BY <1>2
  <2>2. QED
    BY <1>2, <2>1, AtDevice
<1>3. ASSUME NEW w \in Workers, p = <<"ir", w>> PROVE At'[p] = At[p]
  <2>1. worker'[w].ir = worker[w].ir
    BY <1>3
  <2>2. /\ At[<<"ir", w>>] = {worker[w].ir} \ {None}
        /\ At'[<<"ir", w>>] = {worker'[w].ir} \ {None}
    BY AtWorker
  <2>3. QED
    BY <1>3, <2>1, <2>2
<1>4. ASSUME NEW w \in Workers, p = <<"buf", w>> PROVE At'[p] = At[p]
  <2>1. worker'[w].buf = worker[w].buf
    BY <1>4
  <2>2. QED
    BY <1>4, <2>1, AtWorker
<1>5. CASE p = <<"queue", None>>
  BY <1>5, AtFacts
<1>6. CASE p = <<"stored", None>>
  <2>1. stored' = stored
    BY <1>6
  <2>2. With(Stored)' = With(Stored)
    BY <2>1, SameOffered DEF With, Stored
  <2>3. QED
    BY <1>6, <2>2, AtFacts
<1>7. CASE p = <<"lost", None>>
  <2>1. lost' = lost
    BY <1>7
  <2>2. With(lost)' = With(lost)
    BY <2>1, SameOffered DEF With
  <2>3. QED
    BY <1>7, <2>2, AtFacts
<1>8. QED
  BY <1>1, <1>2, <1>3, <1>4, <1>5, <1>6, <1>7, PlacesFacts

\* All of them hold what they held.
LEMMA SameAccount ==
    ASSUME Account(At, Offered), bounds' = bounds, \A p \in Places : At'[p] = At[p]
    PROVE  Account(At', Offered')
<1>1. Offered' = Offered
  BY SameOffered
<1>2. Account(At', Offered)
  BY DEF Account
<1>3. QED
  BY <1>1, <1>2

LEMMA WithIds ==
    ASSUME bounds \in Scenarios, NEW X, NEW M, M \subseteq Offered
    PROVE  /\ {r \in Offered : r.id \in X \cup Ids(M)} = {r \in Offered : r.id \in X} \cup M
           /\ Ids(M) \subseteq Ids(Offered)
<1>1. \A r, q \in Offered : r.id = q.id => r = q
  BY OfferedFacts
<1>2. \A r \in Offered : r.id \in Ids(M) <=> r \in M
  BY <1>1 DEF Ids
<1>3. QED
  BY <1>2 DEF Ids

\* What has been counted is to be sent by a device, in the channel, or taken.
ToSend(r) == \E d \in Devs : producer[d].pc = "send" /\ r \in ToSet(producer[d].batch)
IsTaken(r) == \E w \in Workers : worker[w].pc = "took" /\ r = worker[w].ir

LEMMA CountedFacts ==
    /\ \A r : r \in Counted <=> ToSend(r) \/ r \in ToSet(workq) \/ IsTaken(r)
    /\ \A r : r \in Counted' <=> ToSend(r)' \/ r \in ToSet(workq') \/ IsTaken(r)'
<1> DEFINE A == {ToSet(producer[d].batch) : d \in {e \in Devs : producer[e].pc = "send"}}
           B == {worker[w].ir : w \in {v \in Workers : worker[v].pc = "took"}}
<1>1. Counted = (UNION A) \cup ToSet(workq) \cup B
  BY DEF Counted
<1>2. Counted' = (UNION A') \cup ToSet(workq') \cup B'
  BY DEF Counted
<1>3. \A r : (r \in UNION A <=> ToSend(r)) /\ (r \in UNION A' <=> ToSend(r)')
  BY DEF ToSend
<1>4. \A r : (r \in B <=> IsTaken(r)) /\ (r \in B' <=> IsTaken(r)')
  BY DEF IsTaken
<1> HIDE DEF A, B
<1>5. /\ \A r : r \in Counted <=> r \in UNION A \/ r \in ToSet(workq) \/ r \in B
      /\ \A r : r \in Counted' <=> r \in UNION A' \/ r \in ToSet(workq') \/ r \in B'
  BY <1>1, <1>2
<1>6. QED
  BY <1>3, <1>4, <1>5

LEMMA CountedSized ==
    ASSUME bounds \in Scenarios, Account(At, Offered), WorkersOk
    PROVE  /\ Sized(Counted) /\ Counted \subseteq Offered
           /\ curSize = Total(Counted) => curSize \in Nat
<1>1. \A p \in Places : At[p] \subseteq Offered
  BY DEF Account
<1>2. \A d \in Devs : ToSet(producer[d].batch) \subseteq Offered
  BY <1>1, AtDevice
<1>3. ToSet(workq) \subseteq Offered
  BY <1>1, AtFacts, PlacesFacts
<1>4. \A w \in Workers : worker[w].pc = "took" => worker[w].ir \in Offered
  <2> SUFFICES ASSUME NEW w \in Workers, worker[w].pc = "took" PROVE worker[w].ir \in Offered
    OBVIOUS
  <2>1. worker[w].ir # None
    BY DEF WorkersOk, WorkerOk
  <2>2. worker[w].ir \in At[<<"ir", w>>]
    BY <2>1, AtWorker
  <2>3. QED
    BY <1>1, <2>2, AtWorker
<1>5. Counted \subseteq Offered
  BY <1>2, <1>3, <1>4, CountedFacts DEF ToSend, IsTaken
<1>6. Sized(Counted)
  BY <1>5, OfferedFacts, FS_Subset DEF Sized
<1>7. QED
  BY <1>5, <1>6, TotalStep

LEMMA SameBut ==
    ASSUME CountOk, curSize' = curSize, workq' = workq, worker' = worker,
           \A r : ToSend(r)' <=> ToSend(r)
    PROVE  CountOk'
<1>1. \A r : IsTaken(r)' <=> IsTaken(r)
  BY DEF IsTaken
<1>2. ToSet(workq') = ToSet(workq)
  OBVIOUS
<1>3. \A r : r \in Counted' <=> r \in Counted
  BY <1>1, <1>2, CountedFacts
<1>4. Counted' = Counted
  BY <1>3
<1>5. QED
  BY <1>4 DEF CountOk

LEMMA SameCounted ==
    ASSUME WorkersOk, WorkersOk', CountOk, UNCHANGED <<producer, workq, curSize>>,
           \A w \in Workers : worker'[w].ir = worker[w].ir
    PROVE  CountOk'
<1>1. \A w \in Workers : worker'[w].pc = "took" <=> worker[w].pc = "took"
  BY DEF WorkersOk, WorkerOk
<1>2. \A r : IsTaken(r)' <=> IsTaken(r)
  BY <1>1 DEF IsTaken
<1>3. \A r : ToSend(r)' <=> ToSend(r)
  BY DEF ToSend
<1>4. ToSet(workq') = ToSet(workq)
  OBVIOUS
<1>5. \A r : r \in Counted' <=> r \in Counted
  BY <1>2, <1>3, <1>4, CountedFacts
<1>6. Counted' = Counted
  BY <1>5
<1>7. QED
  BY <1>6 DEF CountOk

-----------------------------------------------------------------------------
(* Steps of a device, and of a worker. *)

ProducerType == [pc : {"idle", "add", "send"}, batch : Seq(Record), todo : Seq(Batch)]

LEMMA ProducerIs ==
    ASSUME ProducersOk, NEW d \in Devs
    PROVE  /\ producer[d] \in ProducerType
           /\ producer[d].pc \in {"idle", "add", "send"}
           /\ producer[d].batch \in Seq(Record) /\ producer[d].todo \in Seq(Batch)
           /\ producer[d].batch = <<>> <=> producer[d].pc = "idle"
           /\ Once(producer[d].batch) /\ OnceIn(producer[d].todo)
           /\ ToSet(producer[d].todo) \subseteq Batches
           /\ producer[d].pc = "add" => producer[d].batch \in Batches
BY DEF ProducersOk, ProducerType

LEMMA ProducerSet ==
    ASSUME ProducersOk, NEW d \in Devs, NEW new \in ProducerType, bounds' = bounds,
           producer' = [producer EXCEPT ![d] = new],
           new.batch = <<>> <=> new.pc = "idle", Once(new.batch), OnceIn(new.todo),
           ToSet(new.todo) \subseteq Batches, new.pc = "add" => new.batch \in Batches
    PROVE  /\ ProducersOk'
           /\ producer'[d] = new /\ \A e \in Devs \ {d} : producer'[e] = producer[e]
<1>1. producer'[d] = new /\ \A e \in Devs \ {d} : producer'[e] = producer[e]
  BY DEF ProducersOk
<1>2. producer' \in [Devs -> ProducerType]
  BY DEF ProducersOk, ProducerType
<1>3. ASSUME NEW e \in Devs
      PROVE  /\ producer'[e].batch = <<>> <=> producer'[e].pc = "idle"
             /\ Once(producer'[e].batch) /\ OnceIn(producer'[e].todo)
             /\ ToSet(producer'[e].todo) \subseteq Batches
             /\ producer'[e].pc = "add" => producer'[e].batch \in Batches
  <2>1. CASE e = d
    BY <1>1, <2>1
  <2>2. CASE e # d
    BY <1>1, <2>2, ProducerIs
  <2>3. QED
    BY <2>1, <2>2
<1>4. Batches' = Batches
  BY SameOffered
<1>5. QED
  BY <1>1, <1>2, <1>3, <1>4 DEF ProducersOk, ProducerType

LEMMA WorkerIs ==
    ASSUME WorkersOk, NEW w \in Workers
    PROVE  /\ worker[w] \in WorkerType /\ WorkerOk(w)
           /\ worker[w].pc \in PCs /\ worker[w].ir \in Record \cup {None}
           /\ worker[w].buf \subseteq Record /\ worker[w].at \in Keys \cup {None}
           /\ worker[w].ver \in Nat
BY DEF WorkersOk, WorkerType

LEMMA WorkerSet ==
    ASSUME WorkersOk, NEW w \in Workers, NEW new \in WorkerType,
           worker' = [worker EXCEPT ![w] = new]
    PROVE  /\ worker' \in [Workers -> WorkerType]
           /\ worker'[w] = new /\ \A v \in Workers \ {w} : worker'[v] = worker[v]
BY DEF WorkersOk

\* The others keep what they have.
LEMMA WorkersStep ==
    ASSUME WorkersOk, NEW w \in Workers, worker' \in [Workers -> WorkerType],
           \A v \in Workers \ {w} : worker'[v] = worker[v] /\ anns'[v] = anns[v],
           mu' \in Workers \cup {None},
           \A v \in Workers \ {w} : mu = v <=> mu' = v,
           \A k \in Keys : cache[k] \in streams => cache'[k] \in streams',
           \A v \in Workers \ {w} : worker[v].pc = "create" => streams' = streams,
           WorkerOk(w)'
    PROVE  WorkersOk'
<1>1. ASSUME NEW v \in Workers, v # w PROVE WorkerOk(v)'
  <2>1. WorkerOk(v)
    BY DEF WorkersOk
  <2>2. /\ worker'[v] = worker[v] /\ anns'[v] = anns[v] /\ (mu = v <=> mu' = v)
        /\ worker[v].pc = "create" => streams' = streams
    BY <1>1
  <2>3. QED
    BY <2>1, <2>2, OtherWorker
<1>2. QED
  BY <1>1 DEF WorkersOk

LEMMA UseFacts ==
    ASSUME RestOk, NEW kind \in Kinds, Use(kind)
    PROVE  /\ used' \in [Kinds -> Nat]
           /\ kind # "crashes" => used'["crashes"] = used["crashes"]
           /\ kind = "crashes" => used'["crashes"] # 0
<1>1. used \in [Kinds -> Nat] /\ used' = [used EXCEPT ![kind] = @ + 1] /\ "crashes" \in Kinds
  BY DEF RestOk, Use, Kinds
<1>2. QED
  BY <1>1

\* A step that moves no record.
LEMMA Stays ==
    ASSUME IInv, WorkersOk', UNCHANGED <<bounds, producer, workq, curSize, stored, lost>>,
           used' \in [Kinds -> Nat],
           \A w \in Workers : worker'[w].ir = worker[w].ir /\ worker'[w].buf = worker[w].buf
    PROVE  /\ RestOk' /\ ProducersOk' /\ QueueOk' /\ CountOk' /\ BoundOk'
           /\ Account(At, Offered)'
<1>1. /\ RestOk /\ ProducersOk /\ QueueOk /\ WorkersOk /\ CountOk /\ BoundOk
      /\ Account(At, Offered)
  BY DEF IInv
<1>2. bounds \in Scenarios /\ Offered' = Offered
  BY <1>1, SameOffered DEF RestOk
<1>3. RestOk'
  BY <1>1, <1>2 DEF RestOk
<1>4. ProducersOk' /\ QueueOk'
  BY <1>1, ProducersFrame, QueueFrame
<1>5. CountOk'
  BY <1>1, SameCounted
<1>6. curSize \in Int
  BY <1>1, <1>2, CountedSized DEF CountOk, Total
<1>7. BoundOk'
  BY <1>1, <1>2, <1>6, BoundFrame
<1>8. \A p \in Places \ {} : At'[p] = At[p]
  BY Elsewhere
<1>9. Account(At', Offered')
  BY <1>1, <1>8, SameAccount
<1>10. QED
  BY <1>3, <1>4, <1>5, <1>7, <1>9

\* A step that moves the records M from a place to another one.
LEMMA MoveStep ==
    ASSUME Account(At, Offered), bounds' = bounds,
           NEW from \in Places, NEW to \in Places, from # to, NEW M, M \subseteq At[from],
           At'[from] = At[from] \ M, At'[to] = At[to] \cup M,
           \A p \in Places \ {from, to} : At'[p] = At[p]
    PROVE  Account(At, Offered)'
<1>1. Moved(At, At', from, to, M)
  BY DEF Moved
<1>2. Account(At', Offered)
  BY <1>1, Moves
<1>3. Offered' = Offered
  BY SameOffered
<1>4. QED
  BY <1>2, <1>3

\* The others are not in a lookup or creation that this worker is in.
LEMMA Mutex ==
    ASSUME WorkersOk, NEW w \in Workers, worker[w].pc \in {"lookup", "create"}
    PROVE  mu = w /\ \A v \in Workers \ {w} : mu # v /\ worker[v].pc # "create"
BY WorkerIs DEF WorkerOk

\* A step of a worker in FlushBuf, but for the last one.
Flushes(w, pc, at, ver) ==
    /\ worker[w].pc # "took"
    /\ pc \in PCs /\ pc # "took" /\ at \in Keys \cup {None} /\ ver \in Nat
    /\ worker' = [worker EXCEPT ![w] = [worker[w] EXCEPT !.pc = pc, !.at = at, !.ver = ver]]
    /\ UNCHANGED <<bounds, producer, workq, curSize, stored, lost>>
    /\ used' \in [Kinds -> Nat]
    /\ \A v \in Workers \ {w} : /\ anns'[v] = anns[v]
                                /\ mu = v <=> mu' = v
                                /\ worker[v].pc = "create" => streams' = streams
    /\ mu' \in Workers \cup {None}
    /\ \A k \in Keys : cache[k] \in streams => cache'[k] \in streams'
    /\ pc \in {"lookup", "create"} <=> mu' = w
    /\ pc \in {"lookup", "create", "annotate", "set", "insert"} => at \in Keys
    /\ pc \in {"annotate", "set", "insert"} => cache'[at] \in streams'
    /\ pc = "create" => \A s \in streams' : Name[s] # Name[at]
    /\ pc = "set" => anns'[w][at] # None

LEMMA FlushStep ==
    ASSUME IInv, NEW w \in Workers, NEW pc, NEW at, NEW ver, Flushes(w, pc, at, ver),
           StreamsOk', AnnsOk'
    PROVE  IInv'
<1> DEFINE new == [worker[w] EXCEPT !.pc = pc, !.at = at, !.ver = ver]
<1>1. WorkersOk
  BY DEF IInv
<1>2. /\ worker[w] \in WorkerType /\ WorkerOk(w)
  BY <1>1, WorkerIs
<1>3. /\ new \in WorkerType /\ new.pc = pc /\ new.at = at
      /\ new.ir = worker[w].ir /\ new.buf = worker[w].buf
  BY <1>2 DEF WorkerType, Flushes
<1> HIDE DEF new
<1>4. /\ worker' \in [Workers -> WorkerType]
      /\ worker'[w] = new /\ \A v \in Workers \ {w} : worker'[v] = worker[v]
  BY <1>1, <1>3, WorkerSet DEF new, Flushes
<1>5. worker[w].ir = None
  BY <1>2 DEF WorkerOk, Flushes
<1>6. WorkerOk(w)'
  BY <1>3, <1>4, <1>5 DEF WorkerOk, Flushes
<1>7. WorkersOk'
  <2>1. \A v \in Workers \ {w} : worker'[v] = worker[v] /\ anns'[v] = anns[v]
    BY <1>4 DEF Flushes
  <2>2. /\ mu' \in Workers \cup {None}
        /\ \A v \in Workers \ {w} : mu = v <=> mu' = v
        /\ \A k \in Keys : cache[k] \in streams => cache'[k] \in streams'
        /\ \A v \in Workers \ {w} : worker[v].pc = "create" => streams' = streams
    BY DEF Flushes
  <2>3. QED
    BY <1>1, <1>4, <1>6, <2>1, <2>2, WorkersStep
<1>8. \A v \in Workers : worker'[v].ir = worker[v].ir /\ worker'[v].buf = worker[v].buf
  BY <1>3, <1>4
<1>9. /\ RestOk' /\ ProducersOk' /\ QueueOk' /\ CountOk' /\ BoundOk'
      /\ Account(At, Offered)'
  BY <1>7, <1>8, Stays DEF Flushes
<1>10. QED
  BY <1>7, <1>9 DEF IInv

LEMMA FlushIdleInv ==
    ASSUME IInv, NEW w \in Workers, FlushIdle(w)
    PROVE  IInv'
<1>1. RestOk /\ WorkersOk /\ StreamsOk /\ AnnsOk
  BY DEF IInv
<1>2. /\ worker[w] \in WorkerType /\ WorkerOk(w) /\ worker[w].pc = "top"
      /\ worker[w].at \in Keys \cup {None} /\ worker[w].ver \in Nat
  BY <1>1, WorkerIs DEF FlushIdle
<1>3. UNCHANGED <<bounds, used, queue, anns, mu, cache, btrdb, lost, settled>>
  BY DEF FlushIdle
<1>4. UNCHANGED <<bounds, used, producer, workq, curSize, anns, mu, cache, streams, version,
                  stored, lost, settled>>
  BY <1>3 DEF queue, btrdb
<1> DEFINE new == [worker[w] EXCEPT !.pc = "flush", !.at = worker[w].at, !.ver = worker[w].ver]
<1>5. new = [worker[w] EXCEPT !.pc = "flush"]
  BY <1>2 DEF WorkerType
<1>6. worker' = [worker EXCEPT ![w] = [worker[w] EXCEPT !.pc = "flush"]]
  BY DEF FlushIdle, Goto
<1>7. worker' = [worker EXCEPT ![w] = new]
  BY <1>5, <1>6
<1>8. StreamsOk'
  BY <1>1, <1>4, StreamsFrame
<1>9. \A v \in Workers : worker'[v].buf = worker[v].buf
  BY <1>1, <1>2, <1>6 DEF WorkersOk, WorkerType
<1>10. AnnsOk'
  BY <1>1, <1>4, <1>9, AnnsFrame
<1>11. mu # w /\ mu' \in Workers \cup {None} /\ used' \in [Kinds -> Nat] /\ "flush" \in PCs
  BY <1>1, <1>2, <1>4 DEF WorkerOk, WorkersOk, RestOk, PCs
<1>12. Flushes(w, "flush", worker[w].at, worker[w].ver)
  BY <1>2, <1>4, <1>7, <1>11 DEF Flushes
<1>13. QED
  BY <1>8, <1>10, <1>12, FlushStep

LEMMA LockInv ==
    ASSUME IInv, NEW w \in Workers, Lock(w)
    PROVE  IInv'
<1>1. RestOk /\ WorkersOk /\ StreamsOk /\ AnnsOk
  BY DEF IInv
<1>2. PICK r \in worker[w].buf :
         /\ worker' = [worker EXCEPT ![w].at = r.key,
                          ![w].pc = IF cache[r.key] = None THEN "lookup" ELSE "annotate"]
         /\ mu' = IF cache[r.key] = None THEN w ELSE None
  BY DEF Lock
<1> DEFINE k == r.key
           pc == IF cache[k] = None THEN "lookup" ELSE "annotate"
<1>3. /\ worker[w] \in WorkerType /\ WorkerOk(w) /\ worker[w].pc = "flush"
      /\ worker[w].ver \in Nat /\ k \in Keys /\ mu = None /\ w # None
  <2>1. r \in Record
    BY <1>1, WorkerIs
  <2>2. w # None /\ k \in Keys
    BY <2>1, NoneAssumption DEF Record
  <2>3. QED
    BY <1>1, <2>2, WorkerIs DEF Lock
<1>4. UNCHANGED <<bounds, used, queue, anns, cache, btrdb, lost, settled>>
  BY DEF Lock
<1>5. UNCHANGED <<bounds, used, producer, workq, curSize, anns, cache, streams, version,
                  stored, lost, settled>>
  BY <1>4 DEF queue, btrdb
<1>6. cache[k] = None \/ cache[k] \in streams
  BY <1>1, <1>3 DEF StreamsOk
<1>7. StreamsOk'
  BY <1>1, <1>5, StreamsFrame
<1>8. worker' = [worker EXCEPT ![w].at = k, ![w].pc = pc]
  BY <1>2
<1>9. mu' \in {w, None} /\ (pc = "lookup" <=> mu' = w) /\ pc \in {"lookup", "annotate"}
  BY <1>2, <1>3
<1>10. pc = "annotate" => cache[k] \in streams
  BY <1>6
<1> HIDE DEF k, pc
<1>11. worker' = [worker EXCEPT ![w] = [worker[w] EXCEPT !.pc = pc, !.at = k,
                                                        !.ver = worker[w].ver]]
  BY <1>3, <1>8 DEF WorkerType
<1>12. \A v \in Workers : worker'[v].buf = worker[v].buf
  BY <1>1, <1>8 DEF WorkersOk, WorkerType
<1>13. AnnsOk'
  BY <1>1, <1>5, <1>12, AnnsFrame
<1>14. \A v \in Workers \ {w} : mu # v /\ mu' # v
  BY <1>3, <1>9, NoneAssumption
<1>15. Flushes(w, pc, k, worker[w].ver)
  BY <1>1, <1>3, <1>5, <1>9, <1>10, <1>11, <1>14 DEF Flushes, RestOk, PCs
<1>16. QED
  BY <1>7, <1>13, <1>15, FlushStep

LEMMA LookupInv ==
    ASSUME IInv, NEW w \in Workers, Lookup(w)
    PROVE  IInv'
<1> DEFINE k == worker[w].at
           found == {s \in streams : Name[s] = Name[k]}
<1>1. RestOk /\ WorkersOk /\ StreamsOk /\ AnnsOk
  BY DEF IInv
<1>2. /\ worker[w] \in WorkerType /\ WorkerOk(w) /\ worker[w].pc = "lookup"
      /\ worker[w].ver \in Nat /\ k \in Keys /\ mu = w /\ w # None
      /\ \A v \in Workers \ {w} : mu # v
  <2>1. worker[w] \in WorkerType /\ WorkerOk(w) /\ worker[w].pc = "lookup"
    BY <1>1, WorkerIs DEF Lookup
  <2>2. k \in Keys /\ w # None
    BY <2>1, NoneAssumption DEF WorkerOk
  <2>3. QED
    BY <1>1, <2>1, <2>2, Mutex, WorkerIs
<1>3. UNCHANGED <<bounds, used, queue, anns, btrdb, lost, settled>>
  BY DEF Lookup
<1>4. UNCHANGED <<bounds, used, producer, workq, curSize, anns, streams, version,
                  stored, lost, settled>>
  BY <1>3 DEF queue, btrdb
<1>5. ASSUME NEW pc, worker' = [worker EXCEPT ![w].pc = pc]
      PROVE  /\ worker' = [worker EXCEPT ![w] = [worker[w] EXCEPT !.pc = pc, !.at = k,
                                                                 !.ver = worker[w].ver]]
             /\ AnnsOk'
  <2>1. \A v \in Workers : worker'[v].buf = worker[v].buf
    BY <1>1, <1>5 DEF WorkersOk, WorkerType
  <2>2. AnnsOk'
    BY <1>1, <1>4, <2>1, AnnsFrame
  <2>3. QED
    BY <1>2, <1>5, <2>2 DEF WorkerType
<1>6. CASE found = {}
  <2>1. worker' = [worker EXCEPT ![w].pc = "create"] /\ mu' = mu /\ cache' = cache
    BY <1>6 DEF Lookup, Goto
  <2>2. \A s \in streams : Name[s] # Name[k]
    BY <1>6
  <2>3. StreamsOk'
    BY <1>1, <1>4, <2>1, StreamsFrame
  <2> HIDE DEF found, k
  <2>4. Flushes(w, "create", k, worker[w].ver)
    BY <1>1, <1>2, <1>4, <1>5, <2>1, <2>2 DEF Flushes, RestOk, PCs
  <2>5. QED
    BY <1>5, <2>1, <2>3, <2>4, FlushStep
<1>7. CASE found # {}
  <2>1. PICK s \in found : cache' = [cache EXCEPT ![k] = s]
    BY <1>7 DEF Lookup
  <2>2. worker' = [worker EXCEPT ![w].pc = "annotate"] /\ mu' = None
    BY <1>7 DEF Lookup, Goto
  <2>3. s \in streams
    BY <2>1
  <2> HIDE DEF found, k
  <2>4. /\ cache' \in [Keys -> streams \cup {None}] /\ cache'[k] \in streams
        /\ \A j \in Keys : cache[j] \in streams => cache'[j] \in streams
    BY <1>1, <1>2, <2>1, <2>3 DEF StreamsOk
  <2>5. StreamsOk'
    BY <1>1, <1>4, <2>4, SameOffered DEF StreamsOk
  <2>6. \A v \in Workers \ {w} : mu' # v
    BY <2>2, NoneAssumption
  <2>7. Flushes(w, "annotate", k, worker[w].ver)
    BY <1>1, <1>2, <1>4, <1>5, <2>2, <2>4, <2>6 DEF Flushes, RestOk, PCs
  <2>8. QED
    BY <1>5, <2>2, <2>5, <2>7, FlushStep
<1>8. QED
  BY <1>6, <1>7

LEMMA CreateInv ==
    ASSUME IInv, NEW w \in Workers, Create(w)
    PROVE  IInv'
<1> DEFINE k == worker[w].at
<1>1. RestOk /\ WorkersOk /\ StreamsOk /\ AnnsOk
  BY DEF IInv
<1>2. /\ worker[w] \in WorkerType /\ WorkerOk(w) /\ worker[w].pc = "create"
      /\ worker[w].ver \in Nat /\ k \in Keys /\ mu = w /\ w # None
      /\ \A v \in Workers \ {w} : mu # v /\ worker[v].pc # "create"
  <2>1. worker[w] \in WorkerType /\ WorkerOk(w) /\ worker[w].pc = "create"
    BY <1>1, WorkerIs DEF Create
  <2>2. k \in Keys /\ w # None
    BY <2>1, NoneAssumption DEF WorkerOk
  <2>3. QED
    BY <1>1, <2>1, <2>2, Mutex, WorkerIs
<1>3. \A s \in streams : Name[s] # Name[k]
  BY <1>2 DEF WorkerOk
<1>4. /\ streams' = streams \cup {k} /\ cache' = [cache EXCEPT ![k] = k] /\ mu' = None
      /\ worker' = [worker EXCEPT ![w].pc = "annotate"]
  BY DEF Create, Goto
<1>5. UNCHANGED <<bounds, used, queue, anns, version, stored, lost, settled>>
  BY DEF Create
<1>6. UNCHANGED <<bounds, used, producer, workq, curSize, anns, version, stored, lost, settled>>
  BY <1>5 DEF queue
<1> HIDE DEF k
<1>7. /\ streams' \subseteq Keys /\ cache' \in [Keys -> streams' \cup {None}]
      /\ cache'[k] \in streams' /\ \A j \in Keys : cache[j] \in streams => cache'[j] \in streams'
  BY <1>1, <1>2, <1>4 DEF StreamsOk
<1>8. StreamsOk'
  <2>1. \A s, t \in streams' : Name[s] = Name[t] => s = t
    BY <1>1, <1>3, <1>4 DEF StreamsOk
  <2>2. stored' \subseteq Ids(Offered') \X streams'
    <3>1. stored \subseteq Ids(Offered) \X streams /\ Offered' = Offered
      BY <1>1, <1>6, SameOffered DEF StreamsOk
    <3>2. QED
      BY <1>4, <1>6, <3>1
  <2>3. version' \in [Keys -> Nat]
    BY <1>1, <1>6 DEF StreamsOk
  <2>4. QED
    BY <1>7, <2>1, <2>2, <2>3 DEF StreamsOk
<1>9. \A v \in Workers : worker'[v].buf = worker[v].buf
  BY <1>1, <1>4 DEF WorkersOk, WorkerType
<1>10. AnnsOk'
  BY <1>1, <1>6, <1>9, AnnsFrame
<1>11. worker' = [worker EXCEPT ![w] = [worker[w] EXCEPT !.pc = "annotate", !.at = k,
                                                        !.ver = worker[w].ver]]
  BY <1>2, <1>4 DEF WorkerType, k
<1>12. \A v \in Workers \ {w} : mu' # v
  BY <1>4, NoneAssumption
<1>13. "annotate" \in PCs /\ used' \in [Kinds -> Nat] /\ mu' \in Workers \cup {None} /\ mu' # w
  BY <1>1, <1>2, <1>4, <1>6 DEF RestOk, PCs
<1>14. UNCHANGED <<bounds, producer, workq, curSize, stored, lost>>
  BY <1>6
<1>15. Flushes(w, "annotate", k, worker[w].ver)
  BY <1>2, <1>6, <1>7, <1>11, <1>12, <1>13, <1>14 DEF Flushes
<1>16. QED
  BY <1>8, <1>10, <1>15, FlushStep

LEMMA AnnotateInv ==
    ASSUME IInv, NEW w \in Workers, Annotate(w)
    PROVE  IInv'
<1> DEFINE k == worker[w].at
           pc == IF anns[w][k] = None THEN "insert" ELSE "set"
           ver == version[cache[k]]
<1>1. RestOk /\ WorkersOk /\ StreamsOk /\ AnnsOk
  BY DEF IInv
<1>2. /\ worker[w] \in WorkerType /\ WorkerOk(w) /\ worker[w].pc = "annotate"
  BY <1>1, WorkerIs DEF Annotate
<1>3. k \in Keys /\ cache[k] \in streams /\ mu # w
  BY <1>2 DEF WorkerOk
<1>4. ver \in Nat
  BY <1>1, <1>3 DEF StreamsOk
<1>5. UNCHANGED <<bounds, used, queue, anns, mu, cache, btrdb, lost, settled>>
  BY DEF Annotate
<1>6. UNCHANGED <<bounds, used, producer, workq, curSize, anns, mu, cache, streams, version,
                  stored, lost, settled>>
  BY <1>5 DEF queue, btrdb
<1>7. worker' = [worker EXCEPT ![w].pc = pc, ![w].ver = ver]
  BY DEF Annotate
<1>8. pc \in {"insert", "set"} /\ (pc = "set" => anns[w][k] # None)
  OBVIOUS
<1> HIDE DEF k, pc, ver
<1>9. worker' = [worker EXCEPT ![w] = [worker[w] EXCEPT !.pc = pc, !.at = k, !.ver = ver]]
  BY <1>2, <1>7 DEF WorkerType, k
<1>10. \A v \in Workers : worker'[v].buf = worker[v].buf
  BY <1>1, <1>7 DEF WorkersOk, WorkerType
<1>11. AnnsOk' /\ StreamsOk'
  BY <1>1, <1>6, <1>10, AnnsFrame, StreamsFrame
<1>12. pc \in PCs /\ used' \in [Kinds -> Nat] /\ mu' \in Workers \cup {None} /\ mu' # w
  BY <1>1, <1>3, <1>6, <1>8 DEF RestOk, PCs, WorkersOk
<1>13. Flushes(w, pc, k, ver)
  BY <1>2, <1>3, <1>4, <1>6, <1>8, <1>9, <1>12 DEF Flushes
<1>14. QED
  BY <1>11, <1>13, FlushStep

\* Annotations that are set are settled before the worker forgets them.
LEMMA AnnsSettled ==
    ASSUME RestOk, AnnsOk, NEW w \in Workers, NEW k \in Keys, anns[w][k] # None,
           anns' = [anns EXCEPT ![w][k] = None], settled' = settled \cup {anns[w][k]},
           UNCHANGED <<bounds, used, stored>>,
           \A v \in Workers : worker'[v].buf = worker[v].buf
    PROVE  AnnsOk'
<1>1. Offered' = Offered /\ Stored' = Stored
  BY SameOffered DEF Stored
<1>2. anns \in [Workers -> [Keys -> Ids(Offered) \cup {None}]] /\ settled \subseteq Ids(Offered)
  BY DEF AnnsOk
<1>3. /\ anns' \in [Workers -> [Keys -> Ids(Offered) \cup {None}]]
      /\ settled' \subseteq Ids(Offered)
  BY <1>2
<1>4. \A v \in Workers : \A j \in Keys : anns'[v][j] = anns[v][j] \/ anns[v][j] \in settled'
  BY <1>2
<1>5. ASSUME used["crashes"] = 0, NEW r \in Offered, r.annotated,
             r.id \in Stored \/ \E v \in Workers : r \in worker'[v].buf
      PROVE  r.id \in settled' \/ \E v \in Workers : anns'[v][r.key] = r.id
  <2>0. r.key \in Keys
    BY OfferedFacts DEF RestOk
  <2>1. r.id \in Stored \/ \E v \in Workers : r \in worker[v].buf
    BY <1>5
  <2>2. r.id \in settled \/ \E v \in Workers : anns[v][r.key] = r.id
    BY <1>5, <2>1 DEF AnnsOk
  <2>3. CASE r.id \in settled
    BY <2>3
  <2>4. ASSUME NEW v \in Workers, anns[v][r.key] = r.id
        PROVE  r.id \in settled' \/ anns'[v][r.key] = r.id
    BY <1>4, <2>0, <2>4
  <2>5. QED
    BY <2>2, <2>3, <2>4
<1>6. QED
  BY <1>1, <1>3, <1>5 DEF AnnsOk

LEMMA SetAnnotationsInv ==
    ASSUME IInv, NEW w \in Workers, SetAnnotations(w)
    PROVE  IInv'
<1> DEFINE k == worker[w].at
           s == cache[k]
<1>1. RestOk /\ WorkersOk /\ StreamsOk /\ AnnsOk
  BY DEF IInv
<1>2. /\ worker[w] \in WorkerType /\ WorkerOk(w) /\ worker[w].pc = "set"
      /\ worker[w].ver \in Nat
  BY <1>1, WorkerIs DEF SetAnnotations
<1>3. k \in Keys /\ s \in streams /\ mu # w /\ anns[w][k] # None
  BY <1>2 DEF WorkerOk
<1>4. UNCHANGED <<bounds, queue, mu, cache, streams, stored, lost>>
  BY DEF SetAnnotations
<1>5. UNCHANGED <<bounds, producer, workq, curSize, mu, cache, streams, stored, lost>>
  BY <1>4 DEF queue
<1>6. worker' = [worker EXCEPT ![w].pc = "insert"]
  BY DEF SetAnnotations, Goto
<1>7. \/ /\ version' = [version EXCEPT ![s] = @ + 1] /\ settled' = settled \cup {anns[w][k]}
         /\ anns' = [anns EXCEPT ![w][k] = None] /\ used' = used
      \/ /\ UNCHANGED <<version, settled, anns>>
         /\ Use("faults") \/ used' = used
  BY DEF SetAnnotations
<1> HIDE DEF k, s
<1>8. \A v \in Workers : worker'[v].buf = worker[v].buf
  BY <1>1, <1>6 DEF WorkersOk, WorkerType
<1>9. used' \in [Kinds -> Nat] /\ used'["crashes"] = used["crashes"]
  <2>1. used' = used \/ Use("faults")
    BY <1>7
  <2>2. "faults" \in Kinds /\ "faults" # "crashes"
    BY DEF Kinds
  <2>3. QED
    BY <1>1, <2>1, <2>2, UseFacts DEF RestOk
<1>10. version' \in [Keys -> Nat]
  BY <1>1, <1>3, <1>7 DEF StreamsOk
<1>11. StreamsOk'
  BY <1>1, <1>5, <1>10, SameOffered DEF StreamsOk
<1>12. AnnsOk'
  <2>1. CASE UNCHANGED <<version, settled, anns>>
    BY <1>1, <1>5, <1>8, <1>9, <2>1, AnnsFrame
  <2>2. CASE /\ anns' = [anns EXCEPT ![w][k] = None] /\ settled' = settled \cup {anns[w][k]}
             /\ used' = used
    BY <1>1, <1>3, <1>5, <1>8, <2>2, AnnsSettled
  <2>3. QED
    BY <1>7, <2>1, <2>2
<1>13. worker' = [worker EXCEPT ![w] = [worker[w] EXCEPT !.pc = "insert", !.at = k,
                                                        !.ver = worker[w].ver]]
  BY <1>2, <1>6 DEF WorkerType, k
<1>14. \A v \in Workers \ {w} : anns'[v] = anns[v]
  BY <1>1, <1>7 DEF AnnsOk
<1>15. "insert" \in PCs /\ mu' \in Workers \cup {None} /\ mu' # w
  BY <1>1, <1>3, <1>5 DEF PCs, WorkersOk
<1>16. Flushes(w, "insert", k, worker[w].ver)
  BY <1>2, <1>3, <1>5, <1>9, <1>13, <1>14, <1>15 DEF Flushes, s
<1>17. QED
  BY <1>11, <1>12, <1>16, FlushStep

LEMMA EditAnnotationsInv ==
    ASSUME IInv, NEW s \in Keys, EditAnnotations(s)
    PROVE  IInv'
<1>1. RestOk /\ WorkersOk /\ StreamsOk /\ AnnsOk
  BY DEF IInv
<1>2. UNCHANGED <<bounds, queue, work, streams, stored, lost, settled>>
  BY DEF EditAnnotations
<1>3. UNCHANGED <<bounds, producer, workq, curSize, worker, anns, mu, cache, streams, stored,
                  lost, settled>>
  BY <1>2 DEF queue, work
<1>4. used' \in [Kinds -> Nat] /\ used'["crashes"] = used["crashes"]
  <2>1. Use("edits") /\ "edits" \in Kinds /\ "edits" # "crashes"
    BY DEF Kinds, EditAnnotations
  <2>2. QED
    BY <1>1, <2>1, UseFacts
<1>5. version' \in [Keys -> Nat]
  BY <1>1 DEF EditAnnotations, StreamsOk
<1>6. StreamsOk'
  BY <1>1, <1>3, <1>5, SameOffered DEF StreamsOk
<1>7. AnnsOk' /\ WorkersOk'
  BY <1>1, <1>3, <1>4, AnnsFrame, WorkersFrame
<1>8. /\ RestOk' /\ ProducersOk' /\ QueueOk' /\ CountOk' /\ BoundOk'
      /\ Account(At, Offered)'
  BY <1>3, <1>4, <1>7, Stays
<1>9. QED
  BY <1>6, <1>7, <1>8 DEF IInv

-----------------------------------------------------------------------------
(* The devices. *)

LEMMA OfferDrops ==
    ASSUME IInv, NEW d \in Devs, Offer(d),
           ~ (curSize + BatchSize(Head(producer[d].todo)) < MaxSize)
    PROVE  IInv'
<1> DEFINE old == producer[d].todo
           b == Head(old)
           new == [pc |-> "idle", batch |-> <<>>, todo |-> Tail(old)]
<1>1. /\ RestOk /\ ProducersOk /\ QueueOk /\ WorkersOk /\ StreamsOk /\ AnnsOk /\ CountOk
      /\ BoundOk /\ Account(At, Offered)
  BY DEF IInv
<1>2. /\ producer[d].pc = "idle" /\ old # <<>> /\ producer' = [producer EXCEPT ![d] = new]
      /\ lost' = lost \cup Ids(ToSet(b))
  BY DEF Offer
<1>3. UNCHANGED <<bounds, used, workq, curSize, work, btrdb, settled>>
  BY DEF Offer
<1>4. UNCHANGED <<bounds, used, workq, curSize, worker, anns, mu, cache, streams, version,
                  stored, settled>>
  BY <1>3 DEF work, btrdb
<1>5. /\ old \in Seq(Batch) /\ OnceIn(old) /\ ToSet(old) \subseteq Batches
      /\ producer[d].batch = <<>>
  BY <1>1, <1>2, ProducerIs
<1> HIDE DEF old
<1>6. /\ b \in Seq(Record) /\ Tail(old) \in Seq(Batch) /\ OnceIn(Tail(old))
      /\ RecordsOf(old) = ToSet(b) \cup RecordsOf(Tail(old))
      /\ ToSet(b) \cap RecordsOf(Tail(old)) = {}
      /\ ToSet(Tail(old)) \subseteq Batches
  BY <1>2, <1>5, BatchesTail
<1> HIDE DEF b
<1>7. /\ new \in ProducerType /\ new.batch = <<>> /\ new.pc = "idle" /\ new.todo = Tail(old)
  BY <1>6 DEF ProducerType
<1> HIDE DEF new
<1>8. /\ ProducersOk' /\ producer'[d] = new
      /\ \A e \in Devs \ {d} : producer'[e] = producer[e]
  <2>1. /\ Once(new.batch) /\ OnceIn(new.todo) /\ ToSet(new.todo) \subseteq Batches
        /\ new.batch = <<>> <=> new.pc = "idle"
        /\ new.pc = "add" => new.batch \in Batches
    BY <1>6, <1>7, NoElements
  <2>2. bounds' = bounds
    BY <1>4
  <2>3. QED
    BY <1>1, <1>2, <1>7, <2>1, <2>2, ProducerSet
<1>9. QueueOk' /\ WorkersOk' /\ StreamsOk'
  BY <1>1, <1>4, QueueFrame, WorkersFrame, StreamsFrame
<1>10. AnnsOk'
  BY <1>1, <1>4, AnnsFrame
<1>11. \A r : ToSend(r)' <=> ToSend(r)
  BY <1>2, <1>7, <1>8 DEF ToSend
<1>12. CountOk'
  BY <1>1, <1>4, <1>11, SameBut
<1>13. BoundOk'
  <2>1. Adding' = Adding /\ d \notin Adding
    BY <1>2, <1>7, <1>8 DEF Adding
  <2>2. \A e \in Adding : producer'[e] = producer[e]
    BY <1>8, <2>1 DEF Adding
  <2>3. Largest' = Largest
    BY <1>4, SameOffered
  <2>4. QED
    BY <1>1, <1>4, <2>1, <2>2, <2>3 DEF BoundOk
<1>14. RecordsOf(old) \subseteq Offered
  <2>1. At[<<"todo", d>>] \subseteq Offered
    BY <1>1, AtDevice DEF Account
  <2>2. QED
    BY <2>1, AtDevice DEF old
<1>15. bounds \in Scenarios /\ Offered' = Offered
  BY <1>1, <1>4, SameOffered DEF RestOk
<1>16. ToSet(b) \subseteq Offered
  BY <1>6, <1>14
<1>17. /\ {r \in Offered : r.id \in lost'} = {r \in Offered : r.id \in lost} \cup ToSet(b)
       /\ Ids(ToSet(b)) \subseteq Ids(Offered)
  <2>1. /\ {r \in Offered : r.id \in lost \cup Ids(ToSet(b))}
              = {r \in Offered : r.id \in lost} \cup ToSet(b)
        /\ Ids(ToSet(b)) \subseteq Ids(Offered)
    BY <1>15, <1>16, WithIds
  <2>2. QED
    BY <1>2, <2>1
<1>18. RestOk'
  BY <1>1, <1>2, <1>4, <1>15, <1>17 DEF RestOk
<1> DEFINE from == <<"todo", d>>
           to == <<"lost", None>>
<1>19. At'[from] = At[from] \ ToSet(b) /\ ToSet(b) \subseteq At[from] /\ from \in Places
  <2>1. from \in Places /\ At[from] = RecordsOf(old) /\ At'[from] = RecordsOf(Tail(old))
    BY <1>7, <1>8, AtDevice DEF old
  <2>2. QED
    BY <1>6, <2>1
<1>20. At'[to] = At[to] \cup ToSet(b) /\ to \in Places /\ from # to
  BY <1>4, <1>17, AtFacts, PlacesFacts, SameOffered DEF With
<1>21. \A p \in Places \ {from, to} : At'[p] = At[p]
  <2>1. \A e \in Devs : /\ <<"todo", e>> \in {from, to} \/ producer'[e].todo = producer[e].todo
                        /\ producer'[e].batch = producer[e].batch
    BY <1>5, <1>7, <1>8
  <2>2. to \in {from, to}
    OBVIOUS
  <2> HIDE DEF from, to
  <2>3. QED
    BY <1>4, <2>1, <2>2, Elsewhere DEF to
<1> HIDE DEF from, to
<1>22. Account(At, Offered)'
  BY <1>1, <1>4, <1>19, <1>20, <1>21, MoveStep
<1>23. QED
  BY <1>8, <1>9, <1>10, <1>12, <1>13, <1>18, <1>22 DEF IInv

LEMMA Times ==
    ASSUME NEW L \in Nat, NEW a \in Nat, NEW n \in Nat, a <= n
    PROVE  a * L \in Nat /\ n * L \in Nat /\ a * L <= n * L
<1>1. PICK m \in Nat : n = a + m
  <2>1. n - a \in Nat /\ n = a + (n - a)
    OBVIOUS
  <2>2. QED
    BY <2>1
<1>2. n * L = a * L + m * L
  BY <1>1
<1>3. a * L \in Nat /\ m * L \in Nat
  OBVIOUS
<1>4. QED
  BY <1>2, <1>3

LEMMA OneLess ==
    ASSUME NEW L \in Nat, NEW a \in Nat, a >= 1
    PROVE  (a - 1) * L \in Nat /\ a * L = (a - 1) * L + L
<1>1. PICK m \in Nat : a = m + 1
  <2>1. a - 1 \in Nat /\ a = (a - 1) + 1
    OBVIOUS
  <2>2. QED
    BY <2>1
<1>2. (m + 1) * L = m * L + L /\ m * L \in Nat /\ a - 1 = m
  BY <1>1
<1>3. QED
  BY <1>1, <1>2

LEMMA AddingFacts ==
    /\ IsFiniteSet(Adding) /\ Cardinality(Adding) \in Nat
    /\ Cardinality(Devs) \in Nat /\ Cardinality(Devs) >= 1
    /\ Cardinality(Adding) <= Cardinality(Devs)
    /\ IsFiniteSet(Adding') /\ Cardinality(Adding') \in Nat
    /\ Cardinality(Adding') <= Cardinality(Devs)
    /\ MaxSize \in Nat
<1>1. Adding \subseteq Devs /\ Adding' \subseteq Devs
  BY DEF Adding
<1>2. IsFiniteSet(Devs) /\ Devs # {}
  BY DevsAssumption
<1>3. Cardinality(Devs) \in Nat /\ Cardinality(Devs) # 0
  BY <1>2, FS_CardinalityType, FS_EmptySet
<1>4. QED
  BY <1>1, <1>2, <1>3, FS_Subset, FS_CardinalityType, MaxSizeAssumption

LEMMA OfferAccepts ==
    ASSUME IInv, NEW d \in Devs, Offer(d),
           curSize + BatchSize(Head(producer[d].todo)) < MaxSize
    PROVE  IInv'
<1> DEFINE old == producer[d].todo
           b == Head(old)
           new == [pc |-> "add", batch |-> b, todo |-> Tail(old)]
<1>1. /\ RestOk /\ ProducersOk /\ QueueOk /\ WorkersOk /\ StreamsOk /\ AnnsOk /\ CountOk
      /\ BoundOk /\ Account(At, Offered)
  BY DEF IInv
<1>2. /\ producer[d].pc = "idle" /\ old # <<>> /\ producer' = [producer EXCEPT ![d] = new]
      /\ lost' = lost
  BY DEF Offer
<1>3. UNCHANGED <<bounds, used, workq, curSize, work, btrdb, settled>>
  BY DEF Offer
<1>4. UNCHANGED <<bounds, used, workq, curSize, worker, anns, mu, cache, streams, version,
                  stored, lost, settled>>
  BY <1>2, <1>3 DEF work, btrdb
<1>5. /\ old \in Seq(Batch) /\ OnceIn(old) /\ ToSet(old) \subseteq Batches
      /\ producer[d].batch = <<>>
  BY <1>1, <1>2, ProducerIs
<1>6. curSize + BatchSize(b) < MaxSize
  OBVIOUS
<1> HIDE DEF old
<1>7. /\ b \in Seq(Record) /\ b # <<>> /\ Once(b)
      /\ Tail(old) \in Seq(Batch) /\ OnceIn(Tail(old))
      /\ RecordsOf(old) = ToSet(b) \cup RecordsOf(Tail(old))
      /\ ToSet(b) \cap RecordsOf(Tail(old)) = {}
      /\ ToSet(Tail(old)) \subseteq Batches /\ b \in Batches
  BY <1>2, <1>5, BatchesTail
<1> HIDE DEF b
<1>8. /\ new \in ProducerType /\ new.batch = b /\ new.pc = "add" /\ new.todo = Tail(old)
  BY <1>7 DEF ProducerType
<1> HIDE DEF new
<1>9. /\ ProducersOk' /\ producer'[d] = new
      /\ \A e \in Devs \ {d} : producer'[e] = producer[e]
  <2>1. /\ Once(new.batch) /\ OnceIn(new.todo) /\ ToSet(new.todo) \subseteq Batches
        /\ new.batch = <<>> <=> new.pc = "idle"
        /\ new.pc = "add" => new.batch \in Batches
    BY <1>7, <1>8
  <2>2. bounds' = bounds
    BY <1>4
  <2>3. QED
    BY <1>1, <1>2, <1>8, <2>1, <2>2, ProducerSet
<1>10. QueueOk' /\ WorkersOk' /\ StreamsOk'
  BY <1>1, <1>4, QueueFrame, WorkersFrame, StreamsFrame
<1>11. AnnsOk'
  BY <1>1, <1>4, AnnsFrame
<1>12. \A r : ToSend(r)' <=> ToSend(r)
  BY <1>2, <1>8, <1>9 DEF ToSend
<1>13. CountOk'
  BY <1>1, <1>4, <1>12, SameBut
<1>14. bounds \in Scenarios /\ Offered' = Offered /\ Largest' = Largest
  BY <1>1, <1>4, SameOffered DEF RestOk
<1>15. BoundOk'
  <2>1. d \in Adding'
    BY <1>8, <1>9 DEF Adding
  <2> DEFINE p == Cardinality(Adding') * Largest
             q == Cardinality(Devs) * Largest
  <2>2. p \in Nat /\ q \in Nat /\ p <= q
    BY <1>14, LargestFacts, AddingFacts, Times
  <2>3. curSize \in Nat /\ BatchSize(b) \in Nat
    BY <1>1, <1>7, <1>14, CountedSized, LargestFacts DEF CountOk, Total
  <2> HIDE DEF p, q
  <2>4. curSize + BatchSize(b) + p < MaxSize + q
    BY <1>6, <2>2, <2>3, AddingFacts
  <2>5. curSize' + BatchSize(producer'[d].batch) + p < MaxSize + q
    BY <1>4, <1>8, <1>9, <2>4
  <2>6. QED
    BY <1>14, <2>1, <2>5 DEF BoundOk, p, q
<1>16. RestOk'
  BY <1>1, <1>4, <1>14 DEF RestOk
<1> DEFINE from == <<"todo", d>>
           to == <<"batch", d>>
<1>17. At'[from] = At[from] \ ToSet(b) /\ ToSet(b) \subseteq At[from] /\ from \in Places
  <2>1. from \in Places /\ At[from] = RecordsOf(old) /\ At'[from] = RecordsOf(Tail(old))
    BY <1>8, <1>9, AtDevice DEF old
  <2>2. QED
    BY <1>7, <2>1
<1>18. At'[to] = At[to] \cup ToSet(b) /\ to \in Places /\ from # to
  <2>1. to \in Places /\ At[to] = ToSet(<<>>) /\ At'[to] = ToSet(b)
    BY <1>5, <1>8, <1>9, AtDevice
  <2>2. QED
    BY <2>1, NoElements
<1>19. \A p \in Places \ {from, to} : At'[p] = At[p]
  <2>1. \A e \in Devs : /\ <<"todo", e>> \in {from, to} \/ producer'[e].todo = producer[e].todo
                        /\ <<"batch", e>> \in {from, to}
                              \/ producer'[e].batch = producer[e].batch
    BY <1>9
  <2> HIDE DEF from, to
  <2>2. QED
    BY <1>4, <2>1, Elsewhere
<1> HIDE DEF from, to
<1>20. Account(At, Offered)'
  BY <1>1, <1>4, <1>17, <1>18, <1>19, MoveStep
<1>21. QED
  BY <1>9, <1>10, <1>11, <1>13, <1>15, <1>16, <1>20 DEF IInv

LEMMA OfferInv ==
    ASSUME IInv, NEW d \in Devs, Offer(d)
    PROVE  IInv'
BY OfferDrops, OfferAccepts

LEMMA Apart ==
    ASSUME Account(At, Offered), NEW p \in Places, NEW q \in Places, p # q, NEW r \in At[p]
    PROVE  r \notin At[q] /\ r \in Offered
BY DEF Account

\* What is in the batch of a device that has not added it is not counted.
LEMMA NotCounted ==
    ASSUME Account(At, Offered), WorkersOk, bounds \in Scenarios,
           NEW d \in Devs, producer[d].pc # "send", NEW r \in ToSet(producer[d].batch)
    PROVE  r \notin Counted /\ r \in Offered
<1> DEFINE p == <<"batch", d>>
<1>1. p \in Places /\ r \in At[p]
  BY AtDevice
<1>2. ASSUME NEW e \in Devs, producer[e].pc = "send" PROVE r \notin ToSet(producer[e].batch)
  <2>1. e # d /\ <<"batch", e>> # p
    BY <1>2
  <2> HIDE DEF p
  <2>2. r \notin At[<<"batch", e>>]
    BY <1>1, <2>1, Apart, AtDevice
  <2>3. QED
    BY <2>2, AtDevice
<1>3. r \notin ToSet(workq)
  <2>1. <<"queue", None>> # p /\ <<"queue", None>> \in Places
    BY PlacesFacts
  <2> HIDE DEF p
  <2>2. r \notin At[<<"queue", None>>]
    BY <1>1, <2>1, Apart
  <2>3. QED
    BY <2>2, AtFacts
<1>4. ASSUME NEW w \in Workers PROVE r # worker[w].ir
  <2>1. <<"ir", w>> # p
    OBVIOUS
  <2> HIDE DEF p
  <2>2. r \notin At[<<"ir", w>>] /\ r \in Offered
    BY <1>1, <2>1, Apart, AtWorker
  <2>3. r # None
    BY <2>2, OfferedFacts
  <2>4. QED
    BY <2>2, <2>3, AtWorker
<1>5. ~ ToSend(r) /\ ~ IsTaken(r)
  BY <1>2, <1>4 DEF ToSend, IsTaken
<1>6. r \in Offered
  BY <1>1 DEF Account
<1>7. QED
  BY <1>3, <1>5, <1>6, CountedFacts

LEMMA BoundAll ==
    ASSUME NEW c \in Nat, NEW m \in Nat, NEW L \in Nat, NEW x \in Nat, NEW y \in Nat,
           NEW p \in Nat, NEW q \in Nat, x = y + L, q = p + L, c + x < m + q
    PROVE  c + y < m + p /\ c < m + p
OBVIOUS

LEMMA BoundEach ==
    ASSUME NEW c \in Nat, NEW m \in Nat, NEW L \in Nat, NEW x \in Nat, NEW y \in Nat,
           NEW q \in Nat, x = y + L, c + x < m + q, NEW z \in Nat, z <= L
    PROVE  c + z + y < m + q
OBVIOUS

LEMMA AddInv ==
    ASSUME IInv, NEW d \in Devs, Add(d)
    PROVE  IInv'
<1> DEFINE old == producer[d]
           b == old.batch
           new == [old EXCEPT !.pc = "send"]
<1>1. /\ RestOk /\ ProducersOk /\ QueueOk /\ WorkersOk /\ StreamsOk /\ AnnsOk /\ CountOk
      /\ BoundOk /\ Account(At, Offered)
  BY DEF IInv
<1>2. /\ old.pc = "add" /\ curSize' = curSize + BatchSize(b)
      /\ producer' = [producer EXCEPT ![d] = new]
  BY DEF Add
<1>3. UNCHANGED <<bounds, used, workq, work, btrdb, lost, settled>>
  BY DEF Add
<1>4. UNCHANGED <<bounds, used, workq, worker, anns, mu, cache, streams, version,
                  stored, lost, settled>>
  BY <1>3 DEF work, btrdb
<1>5. /\ old \in ProducerType /\ OnceIn(old.todo) /\ ToSet(old.todo) \subseteq Batches
      /\ b # <<>> /\ Once(b) /\ b \in Batches /\ b \in Seq(Record)
  BY <1>1, <1>2, ProducerIs
<1>6. /\ new \in ProducerType /\ new.batch = b /\ new.pc = "send" /\ new.todo = old.todo
  BY <1>5 DEF ProducerType
<1> HIDE DEF old, new, b
<1>7. /\ ProducersOk' /\ producer'[d] = new
      /\ \A e \in Devs \ {d} : producer'[e] = producer[e]
  <2>1. /\ Once(new.batch) /\ OnceIn(new.todo) /\ ToSet(new.todo) \subseteq Batches
        /\ new.batch = <<>> <=> new.pc = "idle"
        /\ new.pc = "add" => new.batch \in Batches
    BY <1>5, <1>6
  <2>2. bounds' = bounds
    BY <1>4
  <2>3. QED
    BY <1>1, <1>2, <1>6, <2>1, <2>2, ProducerSet
<1>8. QueueOk' /\ WorkersOk' /\ StreamsOk'
  BY <1>1, <1>4, QueueFrame, WorkersFrame, StreamsFrame
<1>9. AnnsOk'
  BY <1>1, <1>4, AnnsFrame
<1>10. bounds \in Scenarios /\ Offered' = Offered /\ Largest' = Largest
  BY <1>1, <1>4, SameOffered DEF RestOk
<1>11. Sized(Offered) /\ Counted \in SUBSET Offered /\ curSize \in Nat
  BY <1>1, <1>10, CountedSized, OfferedFacts DEF CountOk, Total
<1>12. CountOk'
  <2>1. ToSet(b) \cap Counted = {} /\ ToSet(b) \in SUBSET Offered
    BY <1>1, <1>2, <1>10, NotCounted DEF b, old
  <2>2. \A r : ToSend(r)' <=> ToSend(r) \/ r \in ToSet(b)
    <3>1. \A e \in Devs \ {d} : producer'[e].pc = producer[e].pc
                               /\ producer'[e].batch = producer[e].batch
      BY <1>7
    <3>2. producer'[d].pc = "send" /\ producer'[d].batch = b /\ producer[d].pc = "add"
      BY <1>2, <1>6, <1>7 DEF old
    <3>3. QED
      BY <3>1, <3>2 DEF ToSend
  <2>3. \A r : IsTaken(r)' <=> IsTaken(r)
    BY <1>4 DEF IsTaken
  <2>4. ToSet(workq') = ToSet(workq)
    BY <1>4
  <2>5. \A r : r \in Counted' <=> r \in Counted \/ r \in ToSet(b)
    BY <2>2, <2>3, <2>4, CountedFacts
  <2>6. Counted' = Counted \cup ToSet(b)
    BY <2>5
  <2>7. Total(Counted \cup ToSet(b)) = Total(Counted) + Total(ToSet(b))
    BY <1>11, <2>1, TotalUnion
  <2>8. curSize = Total(Counted) /\ BatchSize(b) = Total(ToSet(b))
    BY <1>1 DEF CountOk, Total, BatchSize
  <2>9. QED
    BY <1>2, <2>6, <2>7, <2>8 DEF CountOk, Total
<1>13. BoundOk'
  <2> DEFINE L == Largest
             a == Cardinality(Adding)
             n == Cardinality(Devs)
  <2>1. d \in Adding /\ Adding' = Adding \ {d}
    BY <1>2, <1>6, <1>7 DEF Adding, old
  <2>2. a \in Nat /\ Cardinality(Adding') = a - 1 /\ a >= 1
    <3>1. a \in Nat /\ a # 0
      BY <2>1, AddingFacts, FS_EmptySet
    <3>2. QED
      BY <2>1, <3>1, AddingFacts, FS_RemoveElement
  <2>3. L \in Nat /\ BatchSize(b) \in Nat /\ BatchSize(b) <= L
    BY <1>5, <1>10, LargestFacts
  <2>4. n \in Nat /\ n >= 1 /\ MaxSize \in Nat
    BY AddingFacts
  <2> HIDE DEF L, a, n
  <2> DEFINE x == a * L
             y == (a - 1) * L
             q == n * L
             p == (n - 1) * L
  <2>5. x \in Nat /\ y \in Nat /\ x = y + L
    BY <2>2, <2>3, OneLess
  <2>6. q \in Nat /\ p \in Nat /\ q = p + L
    BY <2>3, <2>4, OneLess
  <2>7. PICK w \in Adding : curSize + BatchSize(producer[w].batch) + x < MaxSize + q
    BY <1>1, <2>1 DEF BoundOk, a, n, L
  <2>8. \A e \in Adding : BatchSize(producer[e].batch) \in Nat
                          /\ BatchSize(producer[e].batch) <= L
    BY <1>1, <1>10, LargestFacts DEF Adding, ProducersOk, L
  <2>9. \A e \in Adding' : e \in Adding /\ producer'[e].batch = producer[e].batch
    BY <1>7, <2>1 DEF Adding
  <2>10. BoundOk' = /\ Adding' = {} => curSize' < MaxSize + p
                    /\ Adding' # {} =>
                          \E e \in Adding' :
                             curSize' + BatchSize(producer'[e].batch) + y < MaxSize + q
    BY <1>10, <2>2 DEF BoundOk, p, q, y, n, L
  <2> HIDE DEF x, y, p, q
  <2>11. CASE w = d
    <3>1. curSize' + x < MaxSize + q
      BY <1>2, <2>7, <2>11 DEF b, old
    <3>2. curSize' \in Nat
      BY <1>2, <1>11, <2>3
    <3>3. curSize' + y < MaxSize + p /\ curSize' < MaxSize + p
      BY <2>3, <2>4, <2>5, <2>6, <3>1, <3>2, BoundAll
    <3>4. ASSUME NEW e \in Adding'
          PROVE  curSize' + BatchSize(producer'[e].batch) + y < MaxSize + q
      <4>1. BatchSize(producer'[e].batch) \in Nat /\ BatchSize(producer'[e].batch) <= L
        BY <2>8, <2>9
      <4>2. QED
        BY <2>3, <2>4, <2>5, <2>6, <3>2, <3>1, <4>1, BoundEach
    <3>5. QED
      BY <2>10, <3>3, <3>4
  <2>12. CASE w # d
    <3>1. w \in Adding' /\ producer'[w].batch = producer[w].batch
      BY <2>1, <2>7, <2>9, <2>12
    <3>2. BatchSize(producer[w].batch) \in Nat
      BY <2>8
    <3>3. curSize' + BatchSize(producer[w].batch) + y < MaxSize + q
      BY <1>2, <1>11, <2>3, <2>4, <2>5, <2>6, <2>7, <3>2
    <3>4. QED
      BY <2>10, <3>1, <3>3
  <2>13. QED
    BY <2>11, <2>12
<1>14. RestOk'
  BY <1>1, <1>4, <1>10 DEF RestOk
<1>15. \A p \in Places \ {} : At'[p] = At[p]
  <2>1. \A e \in Devs : producer'[e].todo = producer[e].todo
                        /\ producer'[e].batch = producer[e].batch
    BY <1>6, <1>7 DEF b, old
  <2>2. QED
    BY <1>4, <2>1, Elsewhere
<1>16. Account(At, Offered)'
  BY <1>1, <1>4, <1>15, SameAccount
<1>17. QED
  BY <1>7, <1>8, <1>9, <1>12, <1>13, <1>14, <1>16 DEF IInv

LEMMA SendInv ==
    ASSUME IInv, NEW d \in Devs, Send(d)
    PROVE  IInv'
<1> DEFINE old == producer[d]
           b == old.batch
           r == Head(b)
           pc == IF Len(b) = 1 THEN "idle" ELSE "send"
           new == [old EXCEPT !.batch = Tail(b), !.pc = pc]
<1>1. /\ RestOk /\ ProducersOk /\ QueueOk /\ WorkersOk /\ StreamsOk /\ AnnsOk /\ CountOk
      /\ BoundOk /\ Account(At, Offered)
  BY DEF IInv
<1>2. /\ old.pc = "send" /\ Len(workq) < Capacity /\ workq' = Append(workq, r)
      /\ producer' = [producer EXCEPT ![d].batch = Tail(b), ![d].pc = pc]
  BY DEF Send
<1>3. UNCHANGED <<bounds, used, curSize, work, btrdb, lost, settled>>
  BY DEF Send
<1>4. UNCHANGED <<bounds, used, curSize, worker, anns, mu, cache, streams, version,
                  stored, lost, settled>>
  BY <1>3 DEF work, btrdb
<1>5. /\ old \in ProducerType /\ OnceIn(old.todo) /\ ToSet(old.todo) \subseteq Batches
      /\ b # <<>> /\ Once(b) /\ b \in Seq(Record)
  BY <1>1, <1>2, ProducerIs
<1>6. producer' = [producer EXCEPT ![d] = new]
  BY <1>2
<1> HIDE DEF b
<1>7. /\ r \in Record /\ Tail(b) \in Seq(Record) /\ Len(Tail(b)) = Len(b) - 1
      /\ Len(b) \in Nat /\ ToSet(b) = {r} \cup ToSet(Tail(b)) /\ Once(Tail(b))
      /\ r \notin ToSet(Tail(b))
  BY <1>5, Tails, OnceTail, LenProperties
<1>8. /\ pc \in {"idle", "send"} /\ (Tail(b) = <<>> <=> pc = "idle")
  <2>1. Tail(b) = <<>> <=> Len(Tail(b)) = 0
    BY <1>7, EmptySeq
  <2>2. Tail(b) = <<>> <=> Len(b) = 1
    BY <1>7, <2>1
  <2>3. QED
    BY <2>2
<1> HIDE DEF old, r, pc
<1>9. /\ new \in ProducerType /\ new.batch = Tail(b) /\ new.pc = pc /\ new.todo = old.todo
  BY <1>5, <1>7, <1>8 DEF ProducerType
<1> HIDE DEF new
<1>10. /\ ProducersOk' /\ producer'[d] = new
       /\ \A e \in Devs \ {d} : producer'[e] = producer[e]
  <2>1. /\ Once(new.batch) /\ OnceIn(new.todo) /\ ToSet(new.todo) \subseteq Batches
        /\ new.batch = <<>> <=> new.pc = "idle"
        /\ new.pc = "add" => new.batch \in Batches
    BY <1>5, <1>7, <1>8, <1>9
  <2>2. bounds' = bounds
    BY <1>4
  <2>3. QED
    BY <1>1, <1>6, <1>9, <2>1, <2>2, ProducerSet
<1>11. WorkersOk' /\ StreamsOk'
  BY <1>1, <1>4, WorkersFrame, StreamsFrame
<1>12. AnnsOk'
  BY <1>1, <1>4, AnnsFrame
<1>13. bounds \in Scenarios /\ Offered' = Offered /\ Largest' = Largest
  BY <1>1, <1>4, SameOffered DEF RestOk
<1> DEFINE from == <<"batch", d>>
           to == <<"queue", None>>
<1>14. /\ from \in Places /\ to \in Places /\ from # to
       /\ At[from] = ToSet(b) /\ At'[from] = ToSet(new.batch)
       /\ At[to] = ToSet(workq) /\ At'[to] = ToSet(workq')
  BY <1>10, AtDevice, AtFacts, PlacesFacts DEF b, old
<1>15. \A p \in Places \ {from, to} : At'[p] = At[p]
  <2>1. \A e \in Devs : /\ producer'[e].todo = producer[e].todo
                        /\ <<"batch", e>> \in {from, to}
                              \/ producer'[e].batch = producer[e].batch
    BY <1>9, <1>10 DEF old
  <2>2. to \in {from, to}
    OBVIOUS
  <2> HIDE DEF from, to
  <2>3. QED
    BY <1>4, <2>1, <2>2, Elsewhere DEF to
<1> HIDE DEF from, to
<1>16. r \notin ToSet(workq)
  BY <1>1, <1>7, <1>14, Apart
<1>17. /\ workq' \in Seq(Record) /\ Len(workq') = Len(workq) + 1
       /\ ToSet(workq') = ToSet(workq) \cup {r} /\ Once(workq')
  BY <1>1, <1>2, <1>7, <1>16, OnceAppend DEF QueueOk
<1>18. QueueOk'
  <2>1. Capacity \in Nat /\ Len(workq) \in Nat
    BY <1>1, MaxSizeAssumption, LenProperties DEF Capacity, QueueOk
  <2>2. Len(workq') <= Capacity
    BY <1>2, <1>17, <2>1
  <2>3. QED
    BY <1>17, <2>2 DEF QueueOk
<1>19. CountOk'
  <2>1. \A x : ToSend(x) \/ x \in ToSet(workq) <=> ToSend(x)' \/ x \in ToSet(workq')
    <3> DEFINE Other(x) == \E e \in Devs \ {d} : /\ producer[e].pc = "send"
                                                 /\ x \in ToSet(producer[e].batch)
    <3>1. \A x : ToSend(x) <=> Other(x) \/ x \in ToSet(b)
      BY <1>2 DEF ToSend, b, old
    <3>2. \A x : ToSend(x)' <=> Other(x) \/ x \in ToSet(Tail(b))
      BY <1>8, <1>9, <1>10, NoElements DEF ToSend
    <3> HIDE DEF Other
    <3>3. QED
      BY <1>7, <1>17, <3>1, <3>2
  <2>2. \A x : IsTaken(x)' <=> IsTaken(x)
    BY <1>4 DEF IsTaken
  <2>3. \A x : x \in Counted' <=> x \in Counted
    BY <2>1, <2>2, CountedFacts
  <2>4. Counted' = Counted
    BY <2>3
  <2>5. QED
    BY <1>1, <1>4, <2>4 DEF CountOk
<1>20. BoundOk'
  <2>1. Adding' = Adding /\ d \notin Adding
    BY <1>2, <1>8, <1>9, <1>10 DEF Adding, old
  <2>2. \A e \in Adding : producer'[e] = producer[e]
    BY <1>10, <2>1 DEF Adding
  <2>3. QED
    BY <1>1, <1>4, <1>13, <2>1, <2>2 DEF BoundOk
<1>21. RestOk'
  BY <1>1, <1>4, <1>13 DEF RestOk
<1>22. Account(At, Offered)'
  <2>1. /\ {r} \subseteq At[from] /\ At'[from] = At[from] \ {r} /\ At'[to] = At[to] \cup {r}
    BY <1>7, <1>9, <1>14, <1>17
  <2>2. QED
    BY <1>1, <1>4, <1>14, <1>15, <2>1, MoveStep
<1>23. QED
  BY <1>10, <1>11, <1>12, <1>18, <1>19, <1>20, <1>21, <1>22 DEF IInv

-----------------------------------------------------------------------------
(* The workers. *)

LEMMA TakeInv ==
    ASSUME IInv, NEW w \in Workers, Take(w)
    PROVE  IInv'
<1> DEFINE old == worker[w]
           r == Head(workq)
           new == [old EXCEPT !.pc = "took", !.ir = r]
<1>1. /\ RestOk /\ ProducersOk /\ QueueOk /\ WorkersOk /\ StreamsOk /\ AnnsOk /\ CountOk
      /\ BoundOk /\ Account(At, Offered)
  BY DEF IInv
<1>2. /\ old.pc = "top" /\ workq # <<>> /\ workq' = Tail(workq)
      /\ worker' = [worker EXCEPT ![w].pc = "took", ![w].ir = r]
  BY DEF Take
<1>3. UNCHANGED <<bounds, used, producer, curSize, anns, mu, cache, btrdb, lost, settled>>
  BY DEF Take
<1>4. UNCHANGED <<bounds, used, producer, curSize, anns, mu, cache, streams, version,
                  stored, lost, settled>>
  BY <1>3 DEF btrdb
<1>5. old \in WorkerType /\ WorkerOk(w) /\ old.ir = None /\ mu # w
  BY <1>1, <1>2, WorkerIs DEF WorkerOk
<1>6. /\ workq \in Seq(Record) /\ Once(workq) /\ Len(workq) <= Capacity
      /\ r \in Record /\ Tail(workq) \in Seq(Record) /\ Len(Tail(workq)) = Len(workq) - 1
      /\ Len(workq) \in Nat /\ ToSet(workq) = {r} \cup ToSet(Tail(workq))
      /\ Once(Tail(workq)) /\ r \notin ToSet(Tail(workq))
  BY <1>1, <1>2, Tails, OnceTail, LenProperties DEF QueueOk
<1>7. r # None
  BY <1>6, NoneAssumption
<1>8. worker' = [worker EXCEPT ![w] = new]
  BY <1>2
<1>9. /\ new \in WorkerType /\ new.pc = "took" /\ new.ir = r /\ new.buf = old.buf
  BY <1>5, <1>6 DEF WorkerType, PCs
<1> HIDE DEF old, r, new
<1>10. /\ worker' \in [Workers -> WorkerType]
       /\ worker'[w] = new /\ \A v \in Workers \ {w} : worker'[v] = worker[v]
  BY <1>1, <1>8, <1>9, WorkerSet
<1>11. WorkersOk'
  <2>1. WorkerOk(w)'
    BY <1>4, <1>5, <1>7, <1>9, <1>10 DEF WorkerOk
  <2>2. /\ mu' \in Workers \cup {None}
        /\ \A v \in Workers \ {w} : mu = v <=> mu' = v
        /\ \A k \in Keys : cache[k] \in streams => cache'[k] \in streams'
        /\ \A v \in Workers \ {w} : worker[v].pc = "create" => streams' = streams
        /\ \A v \in Workers \ {w} : worker'[v] = worker[v] /\ anns'[v] = anns[v]
    BY <1>1, <1>4, <1>10 DEF WorkersOk
  <2>3. QED
    BY <1>1, <1>10, <2>1, <2>2, WorkersStep
<1>12. ProducersOk' /\ StreamsOk'
  BY <1>1, <1>4, ProducersFrame, StreamsFrame
<1>13. \A v \in Workers : worker'[v].buf = worker[v].buf
  BY <1>9, <1>10 DEF old
<1>14. AnnsOk'
  BY <1>1, <1>4, <1>13, AnnsFrame
<1>15. QueueOk'
  <2>1. Capacity \in Nat
    BY MaxSizeAssumption DEF Capacity
  <2>2. Len(workq') <= Capacity
    BY <1>2, <1>6, <2>1
  <2>3. QED
    BY <1>2, <1>6, <2>2 DEF QueueOk
<1>16. bounds \in Scenarios /\ Offered' = Offered
  BY <1>1, <1>4, SameOffered DEF RestOk
<1>17. CountOk'
  <2>1. \A x : IsTaken(x)' <=> IsTaken(x) \/ x = r
    <3>1. worker[w].pc # "took" /\ worker'[w].pc = "took" /\ worker'[w].ir = r
      BY <1>2, <1>9, <1>10 DEF old
    <3>2. QED
      BY <1>10, <3>1 DEF IsTaken
  <2>2. \A x : x \in ToSet(workq) <=> x = r \/ x \in ToSet(workq')
    BY <1>2, <1>6
  <2>3. \A x : ToSend(x)' <=> ToSend(x)
    BY <1>4 DEF ToSend
  <2>4. \A x : x \in Counted' <=> x \in Counted
    BY <2>1, <2>2, <2>3, CountedFacts
  <2>5. Counted' = Counted
    BY <2>4
  <2>6. QED
    BY <1>1, <1>4, <2>5 DEF CountOk
<1>18. BoundOk'
  <2>1. curSize \in Int
    BY <1>1, <1>16, CountedSized DEF CountOk, Total
  <2>2. curSize' \in Int /\ curSize' <= curSize
    BY <1>4, <2>1
  <2>3. QED
    BY <1>1, <1>4, <1>16, <2>1, <2>2, BoundFrame
<1>19. RestOk'
  BY <1>1, <1>4, <1>16 DEF RestOk
<1> DEFINE from == <<"queue", None>>
           to == <<"ir", w>>
<1>20. /\ from \in Places /\ to \in Places /\ from # to
       /\ At[from] = ToSet(workq) /\ At'[from] = ToSet(workq')
       /\ At[to] = {old.ir} \ {None} /\ At'[to] = {new.ir} \ {None}
  BY <1>10, AtWorker, AtFacts, PlacesFacts DEF old
<1>21. \A p \in Places \ {from, to} : At'[p] = At[p]
  <2>1. \A v \in Workers : /\ <<"ir", v>> \in {from, to} \/ worker'[v].ir = worker[v].ir
                           /\ worker'[v].buf = worker[v].buf
    BY <1>9, <1>10, <1>13
  <2>2. from \in {from, to}
    OBVIOUS
  <2> HIDE DEF from, to
  <2>3. QED
    BY <1>4, <2>1, <2>2, Elsewhere DEF from
<1> HIDE DEF from, to
<1>22. Account(At, Offered)'
  <2>1. /\ {r} \subseteq At[from] /\ At'[from] = At[from] \ {r} /\ At'[to] = At[to] \cup {r}
    BY <1>2, <1>5, <1>6, <1>7, <1>9, <1>20
  <2>2. QED
    BY <1>1, <1>4, <1>20, <1>21, <2>1, MoveStep
<1>23. QED
  BY <1>11, <1>12, <1>14, <1>15, <1>17, <1>18, <1>19, <1>22 DEF IInv

\* What has been collected is counted no more.
LEMMA CollectCount ==
    ASSUME IInv, NEW w \in Workers, worker[w].pc = "took", worker'[w].pc # "took",
           \A v \in Workers \ {w} : worker'[v] = worker[v],
           UNCHANGED <<bounds, producer, workq>>,
           curSize' = curSize - Size(worker[w].ir)
    PROVE  CountOk' /\ BoundOk'
<1> DEFINE r == worker[w].ir
<1>1. /\ RestOk /\ ProducersOk /\ WorkersOk /\ CountOk /\ BoundOk /\ Account(At, Offered)
  BY DEF IInv
<1>2. bounds \in Scenarios /\ Offered' = Offered
  BY <1>1, SameOffered DEF RestOk
<1>3. r # None
  <2>1. WorkerOk(w)
    BY <1>1, WorkerIs
  <2>2. QED
    BY <2>1 DEF WorkerOk
<1>4. r \in At[<<"ir", w>>] /\ <<"ir", w>> \in Places
  <2>1. At[<<"ir", w>>] = {worker[w].ir} \ {None} /\ <<"ir", w>> \in Places
    BY AtWorker
  <2>2. QED
    BY <1>3, <2>1
<1> HIDE DEF r
<1>5. r \notin ToSet(workq)
  <2>1. r \notin At[<<"queue", None>>]
    BY <1>1, <1>4, Apart, PlacesFacts
  <2>2. QED
    BY <2>1, AtFacts
<1>6. ~ ToSend(r)
  <2>1. ASSUME NEW d \in Devs PROVE r \notin ToSet(producer[d].batch)
    <3>1. r \notin At[<<"batch", d>>]
      BY <1>1, <1>4, Apart, AtDevice
    <3>2. QED
      BY <3>1, AtDevice
  <2>2. QED
    BY <2>1 DEF ToSend
<1>7. \A v \in Workers \ {w} : worker[v].ir # r
  <2> SUFFICES ASSUME NEW v \in Workers \ {w} PROVE worker[v].ir # r
    OBVIOUS
  <2>1. <<"ir", v>> # <<"ir", w>>
    OBVIOUS
  <2>2. r \notin At[<<"ir", v>>]
    BY <1>1, <1>4, <2>1, Apart, AtWorker
  <2>3. QED
    BY <1>3, <2>2, AtWorker
<1>8. IsTaken(r)
  BY DEF IsTaken, r
<1>9. \A x : IsTaken(x)' <=> IsTaken(x) /\ x # r
  BY <1>7 DEF IsTaken, r
<1>10. \A x : (ToSend(x)' <=> ToSend(x)) /\ (x \in ToSet(workq') <=> x \in ToSet(workq))
  BY DEF ToSend
<1>11. \A x : x \in Counted' <=> x \in Counted /\ x # r
  BY <1>5, <1>6, <1>9, <1>10, CountedFacts
<1>12. Counted' = Counted \ {r} /\ r \in Counted
  BY <1>8, <1>11, CountedFacts
<1>13. Sized(Counted) /\ Sized(Counted \ {r}) /\ curSize = Total(Counted)
  <2>1. Sized(Counted) /\ curSize = Total(Counted)
    BY <1>1, <1>2, CountedSized DEF CountOk, Total
  <2>2. QED
    BY <2>1, FS_Subset DEF Sized
<1>14. /\ Total(Counted) = Total(Counted \ {r}) + Size(r)
       /\ Total(Counted) \in Nat /\ Total(Counted \ {r}) \in Nat /\ Size(r) \in Nat
  <2>1. Total(Counted) \in Nat /\ Total(Counted \ {r}) \in Nat
    BY <1>13, TotalStep
  <2>2. Size(r) \in Nat
    BY <1>12, <1>13 DEF Sized
  <2>3. QED
    BY <1>12, <1>13, <2>1, <2>2, TotalAdd
<1>15. /\ curSize' = Total(Counted \ {r}) /\ curSize' <= curSize
       /\ curSize \in Int /\ curSize' \in Int
  <2>1. curSize' = curSize - Size(r)
    BY DEF r
  <2>2. QED
    BY <1>13, <1>14, <2>1
<1>16. CountOk'
  BY <1>12, <1>15 DEF CountOk, Total
<1>17. BoundOk'
  BY <1>1, <1>2, <1>15, BoundFrame
<1>18. QED
  BY <1>16, <1>17

\* The annotations of what is collected replace those that were kept.
LEMMA AnnsCollected ==
    ASSUME RestOk, AnnsOk, NEW w \in Workers, NEW r \in Offered,
           UNCHANGED <<bounds, used, stored>>,
           \A v \in Workers : \A q \in worker'[v].buf : q \in worker[v].buf \/ q = r,
           anns' = IF r.annotated THEN [anns EXCEPT ![w][r.key] = r.id] ELSE anns,
           settled' = IF r.annotated THEN settled \cup ({anns[w][r.key]} \ {None}) ELSE settled
    PROVE  AnnsOk'
<1>1. /\ Offered' = Offered /\ Stored' = Stored /\ r.key \in Keys
      /\ \A q \in Offered : q.id # None /\ q.key \in Keys
  BY SameOffered, OfferedFacts DEF Stored, RestOk
<1>2. anns \in [Workers -> [Keys -> Ids(Offered) \cup {None}]] /\ settled \subseteq Ids(Offered)
  BY DEF AnnsOk
<1>3. r.id \in Ids(Offered)
  BY DEF Ids
<1>4. /\ anns' \in [Workers -> [Keys -> Ids(Offered) \cup {None}]]
      /\ settled' \subseteq Ids(Offered)
  BY <1>1, <1>2, <1>3
<1>5. settled \subseteq settled'
  OBVIOUS
<1>6. \A v \in Workers : \A k \in Keys :
         anns'[v][k] = anns[v][k] \/ anns[v][k] \in settled' \/ anns[v][k] = None
  <2> SUFFICES ASSUME NEW v \in Workers, NEW k \in Keys, anns'[v][k] # anns[v][k]
               PROVE  anns[v][k] \in settled' \/ anns[v][k] = None
    OBVIOUS
  <2>1. v = w /\ k = r.key /\ r.annotated
    BY <1>1, <1>2
  <2>2. QED
    BY <2>1
<1>7. r.annotated => anns'[w][r.key] = r.id
  BY <1>1, <1>2
<1>8. ASSUME used["crashes"] = 0, NEW q \in Offered, q.annotated,
             q.id \in Stored \/ \E v \in Workers : q \in worker'[v].buf
      PROVE  q.id \in settled' \/ \E v \in Workers : anns'[v][q.key] = q.id
  <2>1. CASE q = r
    BY <1>7, <1>8, <2>1
  <2>2. CASE q # r
    <3>1. q.id \in Stored \/ \E v \in Workers : q \in worker[v].buf
      BY <1>8, <2>2
    <3>2. q.id \in settled \/ \E v \in Workers : anns[v][q.key] = q.id
      BY <1>8, <3>1 DEF AnnsOk
    <3>3. ASSUME NEW v \in Workers, anns[v][q.key] = q.id
          PROVE  q.id \in settled' \/ anns'[v][q.key] = q.id
      BY <1>1, <1>6, <3>3
    <3>4. QED
      BY <1>5, <3>2, <3>3
  <2>3. QED
    BY <2>1, <2>2
<1>9. QED
  BY <1>1, <1>4, <1>8 DEF AnnsOk

LEMMA CollectDrops ==
    ASSUME IInv, NEW w \in Workers, Collect(w), worker[w].ir.points = 0
    PROVE  IInv'
<1> DEFINE old == worker[w]
           r == old.ir
           new == [old EXCEPT !.pc = "top", !.ir = None]
<1>1. /\ RestOk /\ ProducersOk /\ QueueOk /\ WorkersOk /\ StreamsOk /\ AnnsOk
      /\ Account(At, Offered)
  BY DEF IInv
<1>2. /\ old.pc = "took" /\ curSize' = curSize - Size(r) /\ lost' = lost \cup {r.id}
      /\ worker' = [worker EXCEPT ![w].pc = "top", ![w].ir = None]
      /\ UNCHANGED <<anns, settled>>
  BY DEF Collect
<1>3. UNCHANGED <<bounds, used, producer, workq, mu, cache, btrdb>>
  BY DEF Collect
<1>4. UNCHANGED <<bounds, used, producer, workq, anns, mu, cache, streams, version,
                  stored, settled>>
  BY <1>2, <1>3 DEF btrdb
<1>5. old \in WorkerType /\ WorkerOk(w) /\ r # None /\ mu # w
  BY <1>1, <1>2, WorkerIs DEF WorkerOk
<1>6. worker' = [worker EXCEPT ![w] = new]
  BY <1>2
<1> HIDE DEF r
<1>7. /\ new \in WorkerType /\ new.pc = "top" /\ new.ir = None /\ new.buf = old.buf
  BY <1>5 DEF WorkerType, PCs
<1> HIDE DEF old, new
<1>8. /\ worker' \in [Workers -> WorkerType]
      /\ worker'[w] = new /\ \A v \in Workers \ {w} : worker'[v] = worker[v]
  BY <1>1, <1>6, <1>7, WorkerSet
<1>9. WorkersOk'
  <2>1. WorkerOk(w)'
    BY <1>4, <1>5, <1>7, <1>8 DEF WorkerOk
  <2>2. /\ mu' \in Workers \cup {None}
        /\ \A v \in Workers \ {w} : mu = v <=> mu' = v
        /\ \A k \in Keys : cache[k] \in streams => cache'[k] \in streams'
        /\ \A v \in Workers \ {w} : worker[v].pc = "create" => streams' = streams
        /\ \A v \in Workers \ {w} : worker'[v] = worker[v] /\ anns'[v] = anns[v]
    BY <1>1, <1>4, <1>8 DEF WorkersOk
  <2>3. QED
    BY <1>1, <1>8, <2>1, <2>2, WorkersStep
<1>10. ProducersOk' /\ StreamsOk' /\ QueueOk'
  BY <1>1, <1>4, ProducersFrame, StreamsFrame, QueueFrame
<1>11. \A v \in Workers : worker'[v].buf = worker[v].buf
  BY <1>7, <1>8 DEF old
<1>12. AnnsOk'
  BY <1>1, <1>4, <1>11, AnnsFrame
<1>13. CountOk' /\ BoundOk'
  <2>1. worker[w].pc = "took" /\ worker'[w].pc # "took" /\ curSize' = curSize - Size(worker[w].ir)
    BY <1>2, <1>7, <1>8 DEF r, old
  <2>2. QED
    BY <1>4, <1>8, <2>1, CollectCount
<1>14. bounds \in Scenarios /\ Offered' = Offered
  BY <1>1, <1>4, SameOffered DEF RestOk
<1> DEFINE from == <<"ir", w>>
           to == <<"lost", None>>
<1>15. /\ from \in Places /\ to \in Places /\ from # to
       /\ At[from] = {r} \ {None} /\ At'[from] = {new.ir} \ {None}
       /\ At[to] = With(lost) /\ At'[to] = With(lost)'
  BY <1>8, AtWorker, AtFacts, PlacesFacts DEF old, r
<1>16. \A p \in Places \ {from, to} : At'[p] = At[p]
  <2>1. \A v \in Workers : /\ <<"ir", v>> \in {from, to} \/ worker'[v].ir = worker[v].ir
                           /\ worker'[v].buf = worker[v].buf
    BY <1>7, <1>8, <1>11
  <2>2. to \in {from, to}
    OBVIOUS
  <2> HIDE DEF from, to
  <2>3. QED
    BY <1>4, <2>1, <2>2, Elsewhere DEF to
<1> HIDE DEF from, to
<1>17. r \in Offered
  BY <1>1, <1>5, <1>15 DEF Account
<1>18. /\ With(lost)' = With(lost) \cup {r} /\ lost' \subseteq Ids(Offered)
  <2>1. Ids({r}) = {r.id}
    BY DEF Ids
  <2>2. /\ {x \in Offered : x.id \in lost \cup Ids({r})} = {x \in Offered : x.id \in lost} \cup {r}
        /\ Ids({r}) \subseteq Ids(Offered)
    BY <1>14, <1>17, WithIds
  <2>3. QED
    <3>1. With(lost) = {x \in Offered : x.id \in lost}
          /\ With(lost)' = {x \in Offered : x.id \in lost'}
      BY <1>4, SameOffered DEF With
    <3>2. lost \subseteq Ids(Offered) /\ lost' = lost \cup {r.id}
      BY <1>1, <1>2 DEF RestOk
    <3>3. QED
      BY <2>1, <2>2, <3>1, <3>2
<1>19. RestOk'
  BY <1>1, <1>4, <1>14, <1>18 DEF RestOk
<1>20. Account(At, Offered)'
  <2>1. /\ {r} \subseteq At[from] /\ At'[from] = At[from] \ {r} /\ At'[to] = At[to] \cup {r}
    BY <1>5, <1>7, <1>15, <1>18
  <2>2. QED
    BY <1>1, <1>4, <1>15, <1>16, <2>1, MoveStep
<1>21. QED
  BY <1>9, <1>10, <1>12, <1>13, <1>19, <1>20 DEF IInv

LEMMA CollectKeeps ==
    ASSUME IInv, NEW w \in Workers, Collect(w), worker[w].ir.points # 0
    PROVE  IInv'
<1> DEFINE old == worker[w]
           r == old.ir
<1>1. /\ RestOk /\ ProducersOk /\ QueueOk /\ WorkersOk /\ StreamsOk /\ AnnsOk
      /\ Account(At, Offered)
  BY DEF IInv
<1>2. PICK pc \in {"top", "flush"} :
         worker' = [worker EXCEPT ![w].pc = pc, ![w].ir = None, ![w].buf = @ \cup {r}]
  BY DEF Collect
<1>3. /\ old.pc = "took" /\ curSize' = curSize - Size(r) /\ lost' = lost
      /\ anns' = IF r.annotated THEN [anns EXCEPT ![w][r.key] = r.id] ELSE anns
      /\ settled' = IF r.annotated THEN settled \cup ({anns[w][r.key]} \ {None}) ELSE settled
  BY DEF Collect
<1>4. UNCHANGED <<bounds, used, producer, workq, mu, cache, btrdb>>
  BY DEF Collect
<1>5. UNCHANGED <<bounds, used, producer, workq, mu, cache, streams, version, stored, lost>>
  BY <1>3, <1>4 DEF btrdb
<1>6. old \in WorkerType /\ WorkerOk(w) /\ r # None /\ mu # w
  BY <1>1, <1>3, WorkerIs DEF WorkerOk
<1> DEFINE new == [old EXCEPT !.pc = pc, !.ir = None, !.buf = old.buf \cup {r}]
<1>7. worker' = [worker EXCEPT ![w] = new]
  BY <1>2
<1> HIDE DEF r
<1>8. r \in Record
  BY <1>6 DEF WorkerType, r
<1>9. /\ new \in WorkerType /\ new.pc \in {"top", "flush"} /\ new.ir = None
      /\ new.buf = old.buf \cup {r}
  BY <1>6, <1>8 DEF WorkerType, PCs
<1> HIDE DEF old, new
<1>10. /\ worker' \in [Workers -> WorkerType]
       /\ worker'[w] = new /\ \A v \in Workers \ {w} : worker'[v] = worker[v]
  BY <1>1, <1>7, <1>9, WorkerSet
<1> DEFINE from == <<"ir", w>>
           to == <<"buf", w>>
<1>11. /\ from \in Places /\ to \in Places /\ from # to
       /\ At[from] = {r} \ {None} /\ At'[from] = {new.ir} \ {None}
       /\ At[to] = old.buf /\ At'[to] = new.buf
  BY <1>10, AtWorker DEF old, r
<1>12. \A p \in Places \ {from, to} : At'[p] = At[p]
  <2>1. \A v \in Workers : /\ <<"ir", v>> \in {from, to} \/ worker'[v].ir = worker[v].ir
                           /\ <<"buf", v>> \in {from, to} \/ worker'[v].buf = worker[v].buf
    BY <1>10
  <2> HIDE DEF from, to
  <2>2. QED
    BY <1>5, <2>1, Elsewhere
<1> HIDE DEF from, to
<1>13. r \in Offered
  BY <1>1, <1>6, <1>11 DEF Account
<1>14. bounds \in Scenarios /\ Offered' = Offered /\ r.key \in Keys
  BY <1>1, <1>5, <1>13, SameOffered, OfferedFacts DEF RestOk
<1>15. \A v \in Workers : anns'[v] = anns[v] \/ v = w
  BY <1>1, <1>3 DEF AnnsOk
<1>16. WorkersOk'
  <2>1. WorkerOk(w)'
    BY <1>5, <1>6, <1>9, <1>10 DEF WorkerOk
  <2>2. /\ mu' \in Workers \cup {None}
        /\ \A v \in Workers \ {w} : mu = v <=> mu' = v
        /\ \A k \in Keys : cache[k] \in streams => cache'[k] \in streams'
        /\ \A v \in Workers \ {w} : worker[v].pc = "create" => streams' = streams
        /\ \A v \in Workers \ {w} : worker'[v] = worker[v] /\ anns'[v] = anns[v]
    BY <1>1, <1>5, <1>10, <1>15 DEF WorkersOk
  <2>3. QED
    BY <1>1, <1>10, <2>1, <2>2, WorkersStep
<1>17. ProducersOk' /\ StreamsOk' /\ QueueOk'
  BY <1>1, <1>5, ProducersFrame, StreamsFrame, QueueFrame
<1>18. \A v \in Workers : \A q \in worker'[v].buf : q \in worker[v].buf \/ q = r
  BY <1>9, <1>10 DEF old
<1>19. AnnsOk'
  BY <1>1, <1>3, <1>5, <1>13, <1>18, AnnsCollected
<1>20. CountOk' /\ BoundOk'
  <2>1. worker[w].pc = "took" /\ worker'[w].pc # "took" /\ curSize' = curSize - Size(worker[w].ir)
    BY <1>3, <1>9, <1>10 DEF r, old
  <2>2. QED
    BY <1>5, <1>10, <2>1, CollectCount
<1>21. RestOk'
  BY <1>1, <1>5, <1>14 DEF RestOk
<1>22. Account(At, Offered)'
  <2>1. /\ {r} \subseteq At[from] /\ At'[from] = At[from] \ {r} /\ At'[to] = At[to] \cup {r}
    BY <1>6, <1>9, <1>11
  <2>2. QED
    BY <1>1, <1>5, <1>11, <1>12, <2>1, MoveStep
<1>23. QED
  BY <1>16, <1>17, <1>19, <1>20, <1>21, <1>22 DEF IInv

LEMMA CollectInv ==
    ASSUME IInv, NEW w \in Workers, Collect(w)
    PROVE  IInv'
BY CollectDrops, CollectKeeps

\* Annotations of what is inserted are as settled or kept as when it was in the
\* buffer.
LEMMA AnnsInserted ==
    ASSUME RestOk, AnnsOk, UNCHANGED <<bounds, anns, settled>>,
           used'["crashes"] = used["crashes"],
           \A v \in Workers : worker'[v].buf \subseteq worker[v].buf,
           \A q \in Offered : q.id \in Stored' => \/ q.id \in Stored
                                                 \/ \E v \in Workers : q \in worker[v].buf
    PROVE  AnnsOk'
<1>1. Offered' = Offered
  BY SameOffered
<1>2. \A q \in Offered :
         q.id \in Stored' \/ (\E v \in Workers : q \in worker'[v].buf)
         => q.id \in Stored \/ \E v \in Workers : q \in worker[v].buf
  OBVIOUS
<1>3. QED
  BY <1>1, <1>2 DEF AnnsOk

LEMMA StoredMore ==
    ASSUME NEW M, NEW c, stored' = stored \cup (M \X {c})
    PROVE  Stored' = Stored \cup M
<1> DEFINE P == M \X {c}
           Q == {x[1] : x \in P}
<1>1. \A i : i \in Q <=> \E x \in P : x[1] = i
  OBVIOUS
<1>2. \A i \in M : <<i, c>> \in P /\ <<i, c>>[1] = i
  OBVIOUS
<1>3. \A x \in P : x[1] \in M
  OBVIOUS
<1>4. Stored' = {x[1] : x \in stored \cup P}
  BY DEF Stored
<1> HIDE DEF P
<1>5. Stored' = Stored \cup Q
  BY <1>4 DEF Stored
<1> HIDE DEF Q
<1>6. Q = M
  BY <1>1, <1>2, <1>3
<1>7. QED
  BY <1>5, <1>6

LEMMA InsertInv ==
    ASSUME IInv, NEW w \in Workers, Insert(w)
    PROVE  IInv'
<1> DEFINE old == worker[w]
           k == old.at
           dat == {r \in old.buf : r.key = k}
           rest == old.buf \ dat
           pc == IF rest = {} THEN "top" ELSE "flush"
           new == [Idle EXCEPT !.buf = rest, !.pc = pc]
<1>1. /\ RestOk /\ ProducersOk /\ QueueOk /\ WorkersOk /\ StreamsOk /\ AnnsOk /\ CountOk
      /\ BoundOk /\ Account(At, Offered)
  BY DEF IInv
<1>2. /\ old.pc = "insert" /\ worker' = [worker EXCEPT ![w] = new]
      /\ \/ /\ stored' = stored \cup (Ids(dat) \X {cache[k]})
            /\ UNCHANGED <<used, lost>>
         \/ /\ Use("faults") /\ lost' = lost \cup Ids(dat)
            /\ UNCHANGED stored
  BY DEF Insert
<1>3. UNCHANGED <<bounds, queue, anns, mu, cache, streams, version, settled>>
  BY DEF Insert
<1>4. UNCHANGED <<bounds, producer, workq, curSize, anns, mu, cache, streams, version,
                  settled>>
  BY <1>3 DEF queue
<1>5. old \in WorkerType /\ WorkerOk(w) /\ old.ir = None /\ mu # w /\ cache[k] \in streams
  BY <1>1, <1>2, WorkerIs DEF WorkerOk
<1>6. dat \subseteq old.buf /\ rest = old.buf \ dat /\ rest \subseteq Record
  BY <1>5 DEF WorkerType
<1> HIDE DEF dat, rest, k, old
<1>7. /\ new \in WorkerType /\ new.pc \in {"top", "flush"} /\ new.ir = None /\ new.buf = rest
  BY <1>6 DEF WorkerType, PCs, Idle
<1> HIDE DEF new, pc
<1>8. /\ worker' \in [Workers -> WorkerType]
      /\ worker'[w] = new /\ \A v \in Workers \ {w} : worker'[v] = worker[v]
  BY <1>1, <1>2, <1>7, WorkerSet
<1>9. WorkersOk'
  <2>1. WorkerOk(w)'
    BY <1>4, <1>5, <1>7, <1>8 DEF WorkerOk
  <2>2. /\ mu' \in Workers \cup {None}
        /\ \A v \in Workers \ {w} : mu = v <=> mu' = v
        /\ \A j \in Keys : cache[j] \in streams => cache'[j] \in streams'
        /\ \A v \in Workers \ {w} : worker[v].pc = "create" => streams' = streams
        /\ \A v \in Workers \ {w} : worker'[v] = worker[v] /\ anns'[v] = anns[v]
    BY <1>1, <1>4, <1>8 DEF WorkersOk
  <2>3. QED
    BY <1>1, <1>8, <2>1, <2>2, WorkersStep
<1>10. ProducersOk' /\ QueueOk'
  BY <1>1, <1>4, ProducersFrame, QueueFrame
<1>11. bounds \in Scenarios /\ Offered' = Offered
  BY <1>1, <1>4, SameOffered DEF RestOk
<1>12. used' \in [Kinds -> Nat] /\ used'["crashes"] = used["crashes"]
  <2>1. used' = used \/ Use("faults")
    BY <1>2
  <2>2. "faults" \in Kinds /\ "faults" # "crashes"
    BY DEF Kinds
  <2>3. QED
    BY <1>1, <2>1, <2>2, UseFacts DEF RestOk
<1>13. /\ <<"buf", w>> \in Places /\ <<"stored", None>> \in Places /\ <<"lost", None>> \in Places
       /\ At[<<"buf", w>>] = old.buf /\ At'[<<"buf", w>>] = rest
       /\ At[<<"stored", None>>] = With(Stored) /\ At'[<<"stored", None>>] = With(Stored)'
       /\ At[<<"lost", None>>] = With(lost) /\ At'[<<"lost", None>>] = With(lost)'
  BY <1>7, <1>8, AtWorker, AtFacts, PlacesFacts DEF old
<1>14. dat \subseteq Offered
  BY <1>1, <1>6, <1>13 DEF Account
<1>15. \A v \in Workers : worker'[v].ir = worker[v].ir
  BY <1>5, <1>7, <1>8 DEF old
<1>16. CountOk'
  BY <1>1, <1>4, <1>9, <1>15, SameCounted
<1>17. BoundOk'
  <2>1. curSize \in Int
    BY <1>1, <1>11, CountedSized DEF CountOk, Total
  <2>2. curSize' \in Int /\ curSize' <= curSize
    BY <1>4, <2>1
  <2>3. QED
    BY <1>1, <1>4, <1>11, <2>1, <2>2, BoundFrame
<1>18. \A v \in Workers : worker'[v].buf \subseteq worker[v].buf
  BY <1>6, <1>7, <1>8 DEF old
<1>19. Ids(dat) \subseteq Ids(Offered)
  BY <1>14 DEF Ids
<1> DEFINE from == <<"buf", w>>
<1>20. CASE stored' = stored \cup (Ids(dat) \X {cache[k]}) /\ lost' = lost
  <2> DEFINE to == <<"stored", None>>
  <2>1. Stored' = Stored \cup Ids(dat)
    BY <1>20, StoredMore
  <2>2. With(Stored)' = With(Stored) \cup dat
    <3>1. {x \in Offered : x.id \in Stored \cup Ids(dat)}
             = {x \in Offered : x.id \in Stored} \cup dat
      BY <1>11, <1>14, WithIds
    <3>2. With(Stored)' = {x \in Offered : x.id \in Stored'}
      BY <1>4, SameOffered
    <3>3. QED
      BY <2>1, <3>1, <3>2 DEF With
  <2>3. StreamsOk'
    <3>1. stored' \subseteq Ids(Offered) \X streams
      <4>1. stored \subseteq Ids(Offered) \X streams
        BY <1>1 DEF StreamsOk
      <4>2. QED
        BY <1>5, <1>19, <1>20, <4>1
    <3>2. QED
      BY <1>1, <1>4, <1>11, <3>1 DEF StreamsOk
  <2>4. AnnsOk'
    <3>1. \A q \in Offered : q.id \in Stored' => q.id \in Stored \/ q \in dat
      BY <2>2, <1>4, SameOffered DEF With
    <3>2. \A q \in Offered : q.id \in Stored' => \/ q.id \in Stored
                                                \/ \E v \in Workers : q \in worker[v].buf
      BY <1>6, <3>1 DEF old
    <3>3. QED
      BY <1>1, <1>4, <1>12, <1>18, <3>2, AnnsInserted
  <2>5. RestOk'
    BY <1>1, <1>4, <1>11, <1>12, <1>20 DEF RestOk
  <2>6. \A p \in Places \ {from, to} : At'[p] = At[p]
    <3>1. \A v \in Workers : /\ worker'[v].ir = worker[v].ir
                             /\ <<"buf", v>> \in {from, to} \/ worker'[v].buf = worker[v].buf
      BY <1>8, <1>15
    <3>2. to \in {from, to}
      OBVIOUS
    <3> HIDE DEF from, to
    <3>3. QED
      BY <1>4, <1>20, <3>1, <3>2, Elsewhere DEF to
  <2>7. /\ from \in Places /\ to \in Places /\ from # to /\ dat \subseteq At[from]
        /\ At'[from] = At[from] \ dat /\ At'[to] = At[to] \cup dat
    BY <1>6, <1>13, <2>2
  <2> HIDE DEF from, to
  <2>8. Account(At, Offered)'
    BY <1>1, <1>4, <2>6, <2>7, MoveStep
  <2>9. QED
    BY <1>9, <1>10, <1>16, <1>17, <2>3, <2>4, <2>5, <2>8 DEF IInv
<1>21. CASE lost' = lost \cup Ids(dat) /\ stored' = stored
  <2> DEFINE to == <<"lost", None>>
  <2>1. With(lost)' = With(lost) \cup dat
    <3>1. {x \in Offered : x.id \in lost \cup Ids(dat)} = {x \in Offered : x.id \in lost} \cup dat
      BY <1>11, <1>14, WithIds
    <3>2. With(lost)' = {x \in Offered : x.id \in lost'}
      BY <1>4, SameOffered
    <3>3. QED
      BY <1>21, <3>1, <3>2 DEF With
  <2>2. StreamsOk'
    BY <1>1, <1>4, <1>21, StreamsFrame
  <2>3. AnnsOk'
    <3>1. Stored' = Stored
      BY <1>21 DEF Stored
    <3>2. QED
      BY <1>1, <1>4, <1>12, <1>18, <3>1, AnnsInserted
  <2>4. RestOk'
    BY <1>1, <1>4, <1>11, <1>12, <1>19, <1>21 DEF RestOk
  <2>5. \A p \in Places \ {from, to} : At'[p] = At[p]
    <3>1. \A v \in Workers : /\ worker'[v].ir = worker[v].ir
                             /\ <<"buf", v>> \in {from, to} \/ worker'[v].buf = worker[v].buf
      BY <1>8, <1>15
    <3>2. to \in {from, to}
      OBVIOUS
    <3> HIDE DEF from, to
    <3>3. QED
      BY <1>4, <1>21, <3>1, <3>2, Elsewhere DEF to
  <2>6. /\ from \in Places /\ to \in Places /\ from # to /\ dat \subseteq At[from]
        /\ At'[from] = At[from] \ dat /\ At'[to] = At[to] \cup dat
    BY <1>6, <1>13, <2>1
  <2> HIDE DEF from, to
  <2>7. Account(At, Offered)'
    BY <1>1, <1>4, <2>5, <2>6, MoveStep
  <2>8. QED
    BY <1>9, <1>10, <1>16, <1>17, <2>2, <2>3, <2>4, <2>7 DEF IInv
<1>22. QED
  BY <1>2, <1>20, <1>21

-----------------------------------------------------------------------------
(* The start, and a new one. *)

\* What was in the places S gets to one that is not of them.
Swept(at, after, S, to) ==
    /\ S \subseteq Places /\ to \in Places \ S
    /\ \A p \in S : after[p] = {}
    /\ \A p \in Places \ (S \cup {to}) : after[p] = at[p]
    /\ \A r : r \in after[to] <=> r \in at[to] \/ \E p \in S : r \in at[p]

LEMMA Sweeps ==
    ASSUME NEW at, NEW all, Account(at, all), NEW after, NEW S, NEW to, Swept(at, after, S, to)
    PROVE  Account(after, all)
<1>1. \A p \in Places : at[p] \subseteq all
  BY DEF Account
<1>2. \A p \in Places : p = to \/ after[p] \subseteq at[p]
  BY DEF Swept
<1>3. after[to] \subseteq all
  BY <1>1 DEF Swept
<1>4. \A p \in Places : after[p] \subseteq all
  BY <1>1, <1>2, <1>3
<1>5. ASSUME NEW r \in all PROVE \E p \in Places : r \in after[p]
  <2>1. PICK p \in Places : r \in at[p]
    BY DEF Account
  <2>2. CASE p \in S \/ p = to
    BY <2>1, <2>2 DEF Swept
  <2>3. CASE p \notin S /\ p # to
    BY <2>1, <2>3 DEF Swept
  <2>4. QED
    BY <2>2, <2>3
<1>6. \A p, q \in Places : \A r : r \in at[p] /\ r \in at[q] => p = q
  BY DEF Account
<1>7. ASSUME NEW q \in Places, q # to, NEW r \in after[q], r \in after[to] PROVE FALSE
  <2>1. q \notin S /\ r \in at[q]
    BY <1>7, <1>2 DEF Swept
  <2>2. r \in at[to] \/ \E p \in S : r \in at[p]
    BY <1>7 DEF Swept
  <2>3. r \notin at[to]
    BY <1>6, <1>7, <2>1 DEF Swept
  <2>4. \A p \in S : r \notin at[p]
    BY <1>6, <2>1 DEF Swept
  <2>5. QED
    BY <2>2, <2>3, <2>4
<1>8. ASSUME NEW p \in Places, NEW q \in Places, p # q, NEW r \in after[p], r \in after[q]
      PROVE  FALSE
  <2>1. p # to /\ q # to
    BY <1>7, <1>8
  <2>2. r \in at[p] /\ r \in at[q]
    BY <1>2, <1>8, <2>1
  <2>3. QED
    BY <1>6, <1>8, <2>2
<1>9. QED
  BY <1>4, <1>5, <1>8 DEF Account

\* The places in the process.
Inside == ({"batch"} \X Devs) \cup ({"ir", "buf"} \X Workers) \cup {<<"queue", None>>}

Held == Pending \cup ToSet(workq) \cup Taken \cup Buffered

LEMMA HeldFacts == \A r : r \in Held <=> \E p \in Inside : r \in At[p]
<1>1. \A r : r \in Pending <=> \E d \in Devs : r \in At[<<"batch", d>>]
  <2>1. \A r : r \in Pending <=> \E d \in Devs : r \in ToSet(producer[d].batch)
    BY DEF Pending
  <2>2. \A d \in Devs : At[<<"batch", d>>] = ToSet(producer[d].batch)
    BY AtFacts
  <2>3. QED
    BY <2>1, <2>2
<1>2. \A r : r \in Taken <=> \E w \in Workers : r \in At[<<"ir", w>>]
  <2>1. \A r : r \in Taken <=> \E w \in Workers : r = worker[w].ir /\ r # None
    BY DEF Taken
  <2>2. \A w \in Workers : At[<<"ir", w>>] = {worker[w].ir} \ {None}
    BY AtFacts
  <2>3. \A w \in Workers : \A r : r \in At[<<"ir", w>>] <=> r = worker[w].ir /\ r # None
    BY <2>2
  <2>4. QED
    BY <2>1, <2>3
<1>3. \A r : r \in Buffered <=> \E w \in Workers : r \in At[<<"buf", w>>]
  <2>1. \A r : r \in Buffered <=> \E w \in Workers : r \in worker[w].buf
    BY DEF Buffered
  <2>2. \A w \in Workers : At[<<"buf", w>>] = worker[w].buf
    BY AtFacts
  <2>3. QED
    BY <2>1, <2>2
<1>4. At[<<"queue", None>>] = ToSet(workq)
  BY AtFacts
<1>5. /\ \A d \in Devs : <<"batch", d>> \in Inside
      /\ \A w \in Workers : <<"ir", w>> \in Inside /\ <<"buf", w>> \in Inside
      /\ <<"queue", None>> \in Inside
      /\ \A p \in Inside : \/ \E d \in Devs : p = <<"batch", d>>
                           \/ \E w \in Workers : p = <<"ir", w>> \/ p = <<"buf", w>>
                           \/ p = <<"queue", None>>
  BY DEF Inside
<1>6. \A r : r \in Held <=> r \in Pending \/ r \in ToSet(workq) \/ r \in Taken \/ r \in Buffered
  BY DEF Held
<1>7. ASSUME NEW r PROVE r \in Held <=> \E p \in Inside : r \in At[p]
  <2>1. ASSUME r \in Held PROVE \E p \in Inside : r \in At[p]
    BY <1>1, <1>2, <1>3, <1>4, <1>5, <1>6, <2>1
  <2>2. ASSUME NEW p \in Inside, r \in At[p] PROVE r \in Held
    BY <1>1, <1>2, <1>3, <1>4, <1>5, <1>6, <2>2
  <2>3. QED
    BY <2>1, <2>2
<1>8. QED
  BY <1>7

LEMMA NothingCounted == Sized({}) /\ Total({}) = 0
<1>1. Sized({})
  BY FS_EmptySet DEF Sized
<1>2. QED
  BY <1>1, TotalStep

LEMMA Bounded ==
    ASSUME bounds \in Scenarios
    PROVE  0 < MaxSize + (Cardinality(Devs) - 1) * Largest
<1>1. Largest \in Nat /\ MaxSize \in Nat /\ MaxSize >= 116
  BY LargestFacts, MaxSizeAssumption
<1> DEFINE L == Largest
           n == Cardinality(Devs)
<1>2. L \in Nat /\ n \in Nat /\ n >= 1
  BY <1>1, AddingFacts
<1> HIDE DEF L, n
<1>3. (n - 1) * L \in Nat
  BY <1>2, OneLess
<1> DEFINE p == (n - 1) * L
<1> HIDE DEF p
<1>4. p \in Nat
  BY <1>3 DEF p
<1>5. 0 < MaxSize + p
  BY <1>1, <1>4
<1>6. QED
  BY <1>5 DEF p, n, L

LEMMA Cleared ==
    ASSUME NEW p \in ProducerType,
           NEW q, q = [p EXCEPT !.pc = "idle", !.batch = <<>>]
    PROVE  q \in ProducerType /\ q.pc = "idle" /\ q.batch = <<>> /\ q.todo = p.todo
<1>1. <<>> \in Seq(Record)
  BY EmptySeq
<1> DEFINE none == <<>>
<1>2. none \in Seq(Record) /\ q = [p EXCEPT !.pc = "idle", !.batch = none]
  BY <1>1
<1> HIDE DEF none
<1>3. q \in ProducerType /\ q.pc = "idle" /\ q.batch = none /\ q.todo = p.todo
  BY <1>2 DEF ProducerType
<1>4. QED
  BY <1>3 DEF none

LEMMA CrashInv ==
    ASSUME IInv, Crash
    PROVE  IInv'
<1>1. /\ RestOk /\ ProducersOk /\ StreamsOk /\ AnnsOk /\ Account(At, Offered)
  BY DEF IInv
<1>2. /\ Use("crashes") /\ lost' = lost \cup Ids(Held)
      /\ producer' = [d \in Devs |-> [producer[d] EXCEPT !.pc = "idle", !.batch = <<>>]]
      /\ workq' = <<>> /\ curSize' = 0
      /\ worker' = [w \in Workers |-> Idle] /\ anns' = NoAnns
      /\ mu' = None /\ cache' = NoCache
  BY DEF Crash, InProcess, Held
<1>3. UNCHANGED <<bounds, btrdb, settled>>
  BY DEF Crash
<1>4. UNCHANGED <<bounds, streams, version, stored, settled>>
  BY <1>3 DEF btrdb
<1>5. bounds \in Scenarios /\ Offered' = Offered /\ Batches' = Batches /\ Largest' = Largest
  BY <1>1, <1>4, SameOffered DEF RestOk
<1>6. used' \in [Kinds -> Nat] /\ used'["crashes"] # 0
  BY <1>1, <1>2, UseFacts DEF Kinds
<1>7. \A d \in Devs : /\ producer'[d] \in ProducerType /\ producer'[d].pc = "idle"
                      /\ producer'[d].batch = <<>> /\ producer'[d].todo = producer[d].todo
  <2> SUFFICES ASSUME NEW d \in Devs
               PROVE  /\ producer'[d] \in ProducerType /\ producer'[d].pc = "idle"
                      /\ producer'[d].batch = <<>> /\ producer'[d].todo = producer[d].todo
    OBVIOUS
  <2>1. producer[d] \in ProducerType
    BY <1>1, ProducerIs
  <2>2. producer'[d] = [producer[d] EXCEPT !.pc = "idle", !.batch = <<>>]
    BY <1>2
  <2>3. QED
    BY <2>1, <2>2, Cleared
<1>8. ProducersOk'
  <2>1. producer' \in [Devs -> ProducerType]
    BY <1>2, <1>7
  <2>2. \A d \in Devs : OnceIn(producer'[d].todo) /\ ToSet(producer'[d].todo) \subseteq Batches
    BY <1>1, <1>7, ProducerIs
  <2>3. QED
    BY <1>5, <1>7, <2>1, <2>2, NoElements DEF ProducersOk, ProducerType
<1>9. QueueOk'
  <2>1. Capacity \in Nat
    BY MaxSizeAssumption DEF Capacity
  <2>2. <<>> \in Seq(Record) /\ Len(<<>>) = 0
    BY EmptySeq
  <2>3. workq' = <<>>
    BY <1>2
  <2>4. QED
    BY <2>1, <2>2, <2>3, NoElements DEF QueueOk
<1>10. \A w \in Workers : worker'[w].pc = "top" /\ worker'[w].ir = None /\ worker'[w].buf = {}
  BY <1>2 DEF Idle
<1>11. WorkersOk'
  <2>1. Idle \in WorkerType
    BY DEF Idle, WorkerType, PCs
  <2>2. \A w \in Workers : w # None
    BY NoneAssumption
  <2>3. \A w \in Workers : WorkerOk(w)'
    BY <1>2, <1>10, <2>2 DEF WorkerOk
  <2>4. QED
    BY <1>2, <2>1, <2>3 DEF WorkersOk
<1>12. StreamsOk'
  <2>1. cache' \in [Keys -> streams' \cup {None}]
    BY <1>2 DEF NoCache
  <2>2. QED
    BY <1>1, <1>4, <1>5, <2>1 DEF StreamsOk
<1>13. AnnsOk'
  <2>1. anns' \in [Workers -> [Keys -> Ids(Offered) \cup {None}]]
    BY <1>2 DEF NoAnns
  <2>2. settled' \subseteq Ids(Offered)
    BY <1>1, <1>4 DEF AnnsOk
  <2>3. QED
    BY <1>5, <1>6, <2>1, <2>2 DEF AnnsOk
<1>14. CountOk'
  <2>1. \A r : ~ ToSend(r)' /\ ~ IsTaken(r)' /\ r \notin ToSet(workq')
    BY <1>2, <1>7, <1>10, NoElements DEF ToSend, IsTaken
  <2>2. Counted' = {}
    BY <2>1, CountedFacts
  <2>3. QED
    BY <1>2, <2>2, NothingCounted DEF CountOk, Total
<1>15. BoundOk'
  <2>1. Adding' = {}
    BY <1>7 DEF Adding
  <2>2. curSize' < MaxSize + (Cardinality(Devs) - 1) * Largest
    BY <1>2, <1>5, Bounded
  <2>3. QED
    BY <1>5, <2>1, <2>2 DEF BoundOk
<1> DEFINE to == <<"lost", None>>
<1>16. \A r : r \in Held <=> \E p \in Inside : r \in At[p]
  BY HeldFacts
<1>17. Inside \subseteq Places /\ to \in Places \ Inside
  BY DEF Inside, Places
<1>18. Held \subseteq Offered
  BY <1>1, <1>16, <1>17 DEF Account
<1>19. At[to] = With(lost) /\ At'[to] = With(lost) \cup Held /\ Ids(Held) \subseteq Ids(Offered)
  <2>1. At[to] = With(lost) /\ At'[to] = With(lost)'
    BY AtFacts
  <2>2. /\ {x \in Offered : x.id \in lost \cup Ids(Held)}
              = {x \in Offered : x.id \in lost} \cup Held
        /\ Ids(Held) \subseteq Ids(Offered)
    BY <1>5, <1>18, WithIds
  <2>3. With(lost)' = {x \in Offered : x.id \in lost'}
    BY <1>4, SameOffered
  <2>4. QED
    BY <1>2, <2>1, <2>2, <2>3 DEF With
<1>20. \A p \in Places \ (Inside \cup {to}) : At'[p] = At[p]
  <2>1. \A d \in Devs : /\ producer'[d].todo = producer[d].todo
                        /\ <<"batch", d>> \in Inside \cup {to}
    BY <1>7 DEF Inside
  <2>2. /\ \A w \in Workers : <<"ir", w>> \in Inside \cup {to} /\ <<"buf", w>> \in Inside \cup {to}
        /\ <<"queue", None>> \in Inside \cup {to} /\ <<"lost", None>> \in Inside \cup {to}
    BY DEF Inside
  <2> HIDE DEF to
  <2>3. QED
    BY <1>4, <2>1, <2>2, Elsewhere
<1>21. \A p \in Inside : At'[p] = {}
  <2>1. ASSUME NEW d \in Devs PROVE At'[<<"batch", d>>] = {}
    BY <1>7, AtDevice, NoElements
  <2>2. ASSUME NEW w \in Workers PROVE At'[<<"ir", w>>] = {} /\ At'[<<"buf", w>>] = {}
    BY <1>10, AtWorker
  <2>3. At'[<<"queue", None>>] = {}
    BY <1>2, AtFacts, NoElements
  <2>4. \A p \in Inside : \/ \E d \in Devs : p = <<"batch", d>>
                          \/ \E w \in Workers : p = <<"ir", w>> \/ p = <<"buf", w>>
                          \/ p = <<"queue", None>>
    BY DEF Inside
  <2>5. QED
    BY <2>1, <2>2, <2>3, <2>4
<1> HIDE DEF to
<1>22. Account(At, Offered)'
  <2>1. \A r : r \in At'[to] <=> r \in At[to] \/ \E p \in Inside : r \in At[p]
    BY <1>16, <1>19
  <2>2. Swept(At, At', Inside, to)
    BY <1>17, <1>20, <1>21, <2>1 DEF Swept
  <2>3. Account(At', Offered)
    BY <1>1, <2>2, Sweeps
  <2>4. QED
    BY <1>5, <2>3
<1>23. RestOk'
  BY <1>1, <1>2, <1>4, <1>5, <1>6, <1>19 DEF RestOk
<1>24. QED
  BY <1>8, <1>9, <1>11, <1>12, <1>13, <1>14, <1>15, <1>22, <1>23 DEF IInv

LEMMA InitInv ==
    ASSUME Init
    PROVE  IInv
<1>1. /\ bounds \in Scenarios /\ used = [k \in Kinds |-> 0]
      /\ producer = [d \in Devs |-> [pc |-> "idle", batch |-> <<>>, todo |-> bounds.offers[d]]]
      /\ workq = <<>> /\ curSize = 0
      /\ worker = [w \in Workers |-> Idle] /\ anns = NoAnns
      /\ mu = None /\ cache = NoCache
      /\ streams = {} /\ version = [k \in Keys |-> 0] /\ stored = {}
      /\ lost = {} /\ settled = {}
  BY DEF Init
<1>2. RestOk
  BY <1>1 DEF RestOk
<1>3. \A d \in Devs : /\ producer[d].pc = "idle" /\ producer[d].batch = <<>>
                      /\ producer[d].todo = bounds.offers[d]
                      /\ bounds.offers[d] \in Seq(Batch) /\ OnceIn(bounds.offers[d])
                      /\ ToSet(bounds.offers[d]) \subseteq Batches
  BY <1>1, OfferedFacts DEF Batches
<1>4. ProducersOk
  <2>1. <<>> \in Seq(Record)
    BY EmptySeq
  <2>2. producer \in [Devs -> ProducerType]
    BY <1>1, <1>3, <2>1 DEF ProducerType
  <2>3. QED
    BY <1>3, <2>2, NoElements DEF ProducersOk, ProducerType
<1>5. QueueOk
  <2>1. Capacity \in Nat
    BY MaxSizeAssumption DEF Capacity
  <2>2. <<>> \in Seq(Record) /\ Len(<<>>) = 0
    BY EmptySeq
  <2>3. QED
    BY <1>1, <2>1, <2>2, NoElements DEF QueueOk
<1>6. \A w \in Workers : worker[w].pc = "top" /\ worker[w].ir = None /\ worker[w].buf = {}
  BY <1>1 DEF Idle
<1>7. WorkersOk
  <2>1. Idle \in WorkerType
    BY DEF Idle, WorkerType, PCs
  <2>2. \A w \in Workers : w # None
    BY NoneAssumption
  <2>3. \A w \in Workers : WorkerOk(w)
    BY <1>1, <1>6, <2>2 DEF WorkerOk
  <2>4. QED
    BY <1>1, <2>1, <2>3 DEF WorkersOk
<1>8. StreamsOk
  BY <1>1 DEF StreamsOk, NoCache
<1>9. Stored = {}
  BY <1>1 DEF Stored
<1>10. AnnsOk
  <2>1. anns \in [Workers -> [Keys -> Ids(Offered) \cup {None}]]
    BY <1>1 DEF NoAnns
  <2>2. \A w \in Workers : worker[w].buf = {}
    BY <1>6
  <2>3. QED
    BY <1>1, <1>9, <2>1, <2>2 DEF AnnsOk
<1>11. CountOk
  <2>1. \A r : ~ ToSend(r) /\ ~ IsTaken(r) /\ r \notin ToSet(workq)
    BY <1>1, <1>3, <1>6, NoElements DEF ToSend, IsTaken
  <2>2. Counted = {}
    BY <2>1, CountedFacts
  <2>3. QED
    BY <1>1, <2>2, NothingCounted DEF CountOk, Total
<1>12. BoundOk
  <2>1. Adding = {}
    BY <1>3 DEF Adding
  <2>2. QED
    BY <1>1, <2>1, Bounded DEF BoundOk
<1>13. Account(At, Offered)
  <2>1. \A d \in Devs : At[<<"todo", d>>] = RecordsOf(bounds.offers[d]) /\ At[<<"batch", d>>] = {}
    BY <1>3, AtDevice, NoElements
  <2>2. \A w \in Workers : At[<<"ir", w>>] = {} /\ At[<<"buf", w>>] = {}
    BY <1>6, AtWorker
  <2>3. At[<<"queue", None>>] = {} /\ At[<<"stored", None>>] = {} /\ At[<<"lost", None>>] = {}
    BY <1>1, <1>9, AtFacts, NoElements DEF With
  <2>4. \A p \in Places : At[p] = {} \/ \E d \in Devs : p = <<"todo", d>>
    BY <2>1, <2>2, <2>3, PlacesFacts
  <2> DEFINE Of(d) == RecordsOf(bounds.offers[d])
  <2>5. /\ \A r : r \in Offered <=> \E d \in Devs : r \in Of(d)
        /\ \A d, e \in Devs : d # e => Of(d) \cap Of(e) = {}
    <3>1. /\ Offered = UNION {Of(d) : d \in Devs}
          /\ \A d, e \in Devs : d # e => Of(d) \cap Of(e) = {}
      BY <1>1, OfferedFacts
    <3> HIDE DEF Of
    <3>2. QED
      BY <3>1
  <2>6. \A d \in Devs : <<"todo", d>> \in Places /\ At[<<"todo", d>>] = Of(d)
    BY <2>1, PlacesFacts
  <2> HIDE DEF Of
  <2>7. ASSUME NEW p \in Places PROVE At[p] \subseteq Offered
    <3>1. ASSUME NEW d \in Devs, p = <<"todo", d>> PROVE At[p] \subseteq Offered
      <4>1. At[p] = Of(d)
        BY <2>6, <3>1
      <4>2. QED
        BY <2>5, <4>1
    <3>2. QED
      BY <2>4, <3>1
  <2>8. ASSUME NEW r \in Offered PROVE \E p \in Places : r \in At[p]
    <3>1. PICK d \in Devs : r \in Of(d)
      BY <2>5
    <3>2. <<"todo", d>> \in Places /\ r \in At[<<"todo", d>>]
      BY <2>6, <3>1
    <3>3. QED
      BY <3>2
  <2>9. ASSUME NEW p \in Places, NEW q \in Places, p # q PROVE At[p] \cap At[q] = {}
    <3>1. CASE At[p] = {} \/ At[q] = {}
      BY <3>1
    <3>2. CASE At[p] # {} /\ At[q] # {}
      <4>1. PICK d \in Devs : p = <<"todo", d>>
        BY <2>4, <3>2
      <4>2. PICK e \in Devs : q = <<"todo", e>>
        BY <2>4, <3>2
      <4>3. d # e
        BY <2>9, <4>1, <4>2
      <4>4. QED
        BY <2>5, <2>6, <4>1, <4>2, <4>3
    <3>3. QED
      BY <3>1, <3>2
  <2>10. QED
    BY <2>7, <2>8, <2>9 DEF Account
<1>14. QED
  BY <1>2, <1>4, <1>5, <1>7, <1>8, <1>10, <1>11, <1>12, <1>13 DEF IInv

LEMMA NextInv ==
    ASSUME IInv, [Next]_vars
    PROVE  IInv'
<1>1. ASSUME NEW d \in Devs, ProcessBatch(d) PROVE IInv'
  BY <1>1, OfferInv, AddInv, SendInv DEF ProcessBatch
<1>2. ASSUME NEW w \in Workers, Work(w) PROVE IInv'
  <2>1. CASE FlushBuf(w)
    BY <2>1, LockInv, LookupInv, CreateInv, AnnotateInv, SetAnnotationsInv, InsertInv
       DEF FlushBuf
  <2>2. CASE Take(w) \/ FlushIdle(w) \/ Collect(w)
    BY <2>2, TakeInv, FlushIdleInv, CollectInv
  <2>3. QED
    BY <1>2, <2>1, <2>2 DEF Work
<1>3. ASSUME NEW s \in Keys, EditAnnotations(s) PROVE IInv'
  BY <1>3, EditAnnotationsInv
<1>4. ASSUME Crash PROVE IInv'
  BY <1>4, CrashInv
<1>5. ASSUME UNCHANGED vars PROVE IInv'
  <2>1. UNCHANGED <<bounds, used, producer, workq, curSize, worker, anns, mu, cache, streams,
                    version, stored, lost, settled>>
    BY <1>5 DEF vars, queue, work, btrdb
  <2>2. RestOk /\ WorkersOk /\ StreamsOk /\ AnnsOk
    BY DEF IInv
  <2>3. WorkersOk' /\ StreamsOk' /\ AnnsOk'
    BY <2>1, <2>2, WorkersFrame, StreamsFrame, AnnsFrame
  <2>4. used' \in [Kinds -> Nat]
    BY <2>1, <2>2 DEF RestOk
  <2>5. /\ RestOk' /\ ProducersOk' /\ QueueOk' /\ CountOk' /\ BoundOk'
        /\ Account(At, Offered)'
    BY <2>1, <2>3, <2>4, Stays
  <2>6. QED
    BY <2>3, <2>5 DEF IInv
<1>6. QED
  BY <1>1, <1>2, <1>3, <1>4, <1>5 DEF Next

\* Every step of a device, a worker or another editor, and a crash, keeps the
\* records, the count, its bound, the mutex and the annotations in order.
THEOREM Invariant == Spec => []IInv
<1>1. Init => IInv
  BY InitInv
<1>2. IInv /\ [Next]_vars => IInv'
  BY NextInv
<1>3. QED
  BY <1>1, <1>2, PTL DEF Spec

-----------------------------------------------------------------------------
(* What the invariant says of the properties. *)

LEMMA TypeFollows ==
    ASSUME IInv
    PROVE  TypeOK
<1>1. /\ RestOk /\ ProducersOk /\ QueueOk /\ WorkersOk /\ StreamsOk /\ AnnsOk /\ CountOk
      /\ Account(At, Offered)
  BY DEF IInv
<1>2. bounds \in Scenarios /\ used \in [Kinds -> Nat] /\ lost \subseteq Ids(Offered)
  BY <1>1 DEF RestOk
<1>3. \A d \in Devs : /\ producer[d].pc \in {"idle", "add", "send"}
                      /\ producer[d].batch = <<>> <=> producer[d].pc = "idle"
  BY <1>1, ProducerIs
<1>4. ToSet(workq) \subseteq Offered /\ Len(workq) <= Capacity
  BY <1>1, AtFacts, PlacesFacts DEF Account, QueueOk
<1>5. curSize \in Nat
  BY <1>1, <1>2, CountedSized DEF CountOk, Total
<1>6. ASSUME NEW w \in Workers
      PROVE  /\ worker[w].pc \in {"top", "took", "flush", "lookup", "create", "annotate",
                                  "set", "insert"}
             /\ worker[w].ir \in Offered \cup {None} /\ worker[w].buf \subseteq Offered
             /\ worker[w].at \in Keys \cup {None} /\ worker[w].ver \in Nat
  <2>1. /\ worker[w].pc \in PCs /\ worker[w].at \in Keys \cup {None} /\ worker[w].ver \in Nat
    BY <1>1, WorkerIs
  <2>2. At[<<"ir", w>>] \subseteq Offered /\ At[<<"buf", w>>] \subseteq Offered
    BY <1>1, AtWorker DEF Account
  <2>3. {worker[w].ir} \ {None} \subseteq Offered /\ worker[w].buf \subseteq Offered
    BY <2>2, AtWorker
  <2>4. QED
    BY <2>1, <2>3 DEF PCs
<1>7. mu \in Workers \cup {None}
  BY <1>1 DEF WorkersOk
<1>8. /\ cache \in [Keys -> streams \cup {None}] /\ streams \subseteq Keys
      /\ version \in [Keys -> Nat] /\ stored \subseteq Ids(Offered) \X streams
  BY <1>1 DEF StreamsOk
<1>9. /\ anns \in [Workers -> [Keys -> Ids(Offered) \cup {None}]]
      /\ settled \subseteq Ids(Offered)
  BY <1>1 DEF AnnsOk
<1>10. QED
  BY <1>2, <1>3, <1>4, <1>5, <1>6, <1>7, <1>8, <1>9 DEF TypeOK

LEMMA BoundFollows ==
    ASSUME IInv
    PROVE  curSize < MaxSize + (Cardinality(Devs) - 1) * Largest
<1>1. RestOk /\ ProducersOk /\ WorkersOk /\ CountOk /\ BoundOk /\ Account(At, Offered)
  BY DEF IInv
<1>2. bounds \in Scenarios
  BY <1>1 DEF RestOk
<1>3. curSize \in Nat
  BY <1>1, <1>2, CountedSized DEF CountOk, Total
<1>4. CASE Adding = {}
  BY <1>1, <1>4 DEF BoundOk
<1>5. CASE Adding # {}
  <2> DEFINE L == Largest
             a == Cardinality(Adding)
             n == Cardinality(Devs)
  <2>1. PICK d \in Adding : curSize + BatchSize(producer[d].batch) + a * L < MaxSize + n * L
    BY <1>1, <1>5 DEF BoundOk
  <2>2. BatchSize(producer[d].batch) \in Nat
    BY <1>1, <1>2, LargestFacts DEF Adding, ProducersOk
  <2>3. a \in Nat /\ a >= 1 /\ n \in Nat /\ n >= 1 /\ L \in Nat /\ MaxSize \in Nat
    <3>1. a \in Nat /\ a # 0
      BY <1>5, AddingFacts, FS_EmptySet
    <3>2. QED
      BY <1>2, <3>1, AddingFacts, LargestFacts
  <2> HIDE DEF L, a, n
  <2>4. (a - 1) * L \in Nat /\ a * L = (a - 1) * L + L
    BY <2>3, OneLess
  <2>5. (n - 1) * L \in Nat /\ n * L = (n - 1) * L + L
    BY <2>3, OneLess
  <2> DEFINE x == a * L
             y == (a - 1) * L
             q == n * L
             p == (n - 1) * L
             z == BatchSize(producer[d].batch)
  <2>6. /\ x \in Nat /\ y \in Nat /\ q \in Nat /\ p \in Nat /\ z \in Nat
        /\ x = y + L /\ q = p + L /\ curSize + z + x < MaxSize + q
    BY <2>1, <2>2, <2>3, <2>4, <2>5
  <2> HIDE DEF x, y, p, q, z
  <2>7. curSize + x < MaxSize + q
    BY <1>3, <2>3, <2>6
  <2>8. curSize < MaxSize + p
    BY <1>3, <2>3, <2>6, <2>7, BoundAll
  <2>9. QED
    BY <2>8 DEF p, n, L
<1>6. QED
  BY <1>4, <1>5

\* The records in the places of a kind.
In(kind) == {r \in Offered : \E p \in Places : p[1] = kind /\ r \in At[p]}

LEMMA InApart ==
    ASSUME Account(At, Offered), NEW j, NEW k, j # k
    PROVE  In(j) \cap In(k) = {}
<1> SUFFICES ASSUME NEW r \in In(j), r \in In(k) PROVE FALSE
  OBVIOUS
<1>1. PICK p \in Places : p[1] = j /\ r \in At[p]
  BY DEF In
<1>2. PICK q \in Places : q[1] = k /\ r \in At[q]
  BY DEF In
<1>3. p # q
  BY <1>1, <1>2
<1>4. QED
  BY <1>1, <1>2, <1>3 DEF Account

\* The sets that EveryRecordAccounted is about are the records of a kind of places.
LEMMA InIs ==
    ASSUME Account(At, Offered)
    PROVE  /\ Waiting = In("todo") /\ Pending = In("batch") /\ ToSet(workq) = In("queue")
           /\ Taken = In("ir") /\ Buffered = In("buf")
           /\ With(Stored) = In("stored") /\ With(lost) = In("lost")
<1>1. \A p \in Places : At[p] \subseteq Offered
  BY DEF Account
<1>2. \A r : r \in In("todo") <=> \E d \in Devs : r \in At[<<"todo", d>>]
  <2>1. \A p \in Places : p[1] = "todo" => \E d \in Devs : p = <<"todo", d>>
    BY DEF Places
  <2>2. \A d \in Devs : <<"todo", d>> \in Places /\ <<"todo", d>>[1] = "todo"
    BY PlacesFacts
  <2>3. ASSUME NEW r \in In("todo") PROVE \E d \in Devs : r \in At[<<"todo", d>>]
    BY <2>1 DEF In
  <2>4. ASSUME NEW d \in Devs, NEW r \in At[<<"todo", d>>] PROVE r \in In("todo")
    BY <1>1, <2>2 DEF In
  <2>5. QED
    BY <2>3, <2>4
<1>3. \A r : r \in In("batch") <=> \E d \in Devs : r \in At[<<"batch", d>>]
  <2>1. \A p \in Places : p[1] = "batch" => \E d \in Devs : p = <<"batch", d>>
    BY DEF Places
  <2>2. \A d \in Devs : <<"batch", d>> \in Places /\ <<"batch", d>>[1] = "batch"
    BY PlacesFacts
  <2>3. ASSUME NEW r \in In("batch") PROVE \E d \in Devs : r \in At[<<"batch", d>>]
    BY <2>1 DEF In
  <2>4. ASSUME NEW d \in Devs, NEW r \in At[<<"batch", d>>] PROVE r \in In("batch")
    BY <1>1, <2>2 DEF In
  <2>5. QED
    BY <2>3, <2>4
<1>4. \A r : r \in In("ir") <=> \E w \in Workers : r \in At[<<"ir", w>>]
  <2>1. \A p \in Places : p[1] = "ir" => \E w \in Workers : p = <<"ir", w>>
    BY DEF Places
  <2>2. \A w \in Workers : <<"ir", w>> \in Places /\ <<"ir", w>>[1] = "ir"
    BY PlacesFacts
  <2>3. ASSUME NEW r \in In("ir") PROVE \E w \in Workers : r \in At[<<"ir", w>>]
    BY <2>1 DEF In
  <2>4. ASSUME NEW w \in Workers, NEW r \in At[<<"ir", w>>] PROVE r \in In("ir")
    BY <1>1, <2>2 DEF In
  <2>5. QED
    BY <2>3, <2>4
<1>5. \A r : r \in In("buf") <=> \E w \in Workers : r \in At[<<"buf", w>>]
  <2>1. \A p \in Places : p[1] = "buf" => \E w \in Workers : p = <<"buf", w>>
    BY DEF Places
  <2>2. \A w \in Workers : <<"buf", w>> \in Places /\ <<"buf", w>>[1] = "buf"
    BY PlacesFacts
  <2>3. ASSUME NEW r \in In("buf") PROVE \E w \in Workers : r \in At[<<"buf", w>>]
    BY <2>1 DEF In
  <2>4. ASSUME NEW w \in Workers, NEW r \in At[<<"buf", w>>] PROVE r \in In("buf")
    BY <1>1, <2>2 DEF In
  <2>5. QED
    BY <2>3, <2>4
<1>6. /\ In("queue") = At[<<"queue", None>>] /\ In("stored") = At[<<"stored", None>>]
      /\ In("lost") = At[<<"lost", None>>]
  BY <1>1 DEF In, Places
<1>7. ToSet(workq) = In("queue") /\ With(Stored) = In("stored") /\ With(lost) = In("lost")
  BY <1>6, AtFacts
<1>8. Waiting = In("todo")
  <2>1. \A r : r \in Waiting <=> \E d \in Devs : r \in RecordsOf(producer[d].todo)
    BY DEF Waiting, RecordsOf
  <2>2. \A d \in Devs : At[<<"todo", d>>] = RecordsOf(producer[d].todo)
    BY AtFacts
  <2>3. \A r : r \in Waiting <=> r \in In("todo")
    BY <1>2, <2>1, <2>2
  <2>4. QED
    BY <2>3
<1>9. Pending = In("batch")
  <2>1. \A r : r \in Pending <=> \E d \in Devs : r \in ToSet(producer[d].batch)
    BY DEF Pending
  <2>2. \A d \in Devs : At[<<"batch", d>>] = ToSet(producer[d].batch)
    BY AtFacts
  <2>3. \A r : r \in Pending <=> r \in In("batch")
    BY <1>3, <2>1, <2>2
  <2>4. QED
    BY <2>3
<1>10. Taken = In("ir")
  <2>1. \A r : r \in Taken <=> \E w \in Workers : r = worker[w].ir /\ r # None
    BY DEF Taken
  <2>2. \A w \in Workers : At[<<"ir", w>>] = {worker[w].ir} \ {None}
    BY AtFacts
  <2>3. \A w \in Workers : \A r : r \in At[<<"ir", w>>] <=> r = worker[w].ir /\ r # None
    BY <2>2
  <2>4. \A r : r \in Taken <=> \E w \in Workers : r \in At[<<"ir", w>>]
    BY <2>1, <2>3
  <2>5. \A r : r \in Taken <=> r \in In("ir")
    BY <1>4, <2>4
  <2>6. QED
    BY <2>5
<1>11. Buffered = In("buf")
  <2>1. \A r : r \in Buffered <=> \E w \in Workers : r \in worker[w].buf
    BY DEF Buffered
  <2>2. \A w \in Workers : At[<<"buf", w>>] = worker[w].buf
    BY AtFacts
  <2>3. \A r : r \in Buffered <=> r \in In("buf")
    BY <1>5, <2>1, <2>2
  <2>4. QED
    BY <2>3
<1>12. QED
  BY <1>7, <1>8, <1>9, <1>10, <1>11

\* As many ids as records.
LEMMA IdsCount ==
    ASSUME bounds \in Scenarios, NEW X, X \subseteq Ids(Offered)
    PROVE  /\ IsFiniteSet(With(X)) /\ Cardinality(X) = Cardinality(With(X))
           /\ Ids(With(X)) = X
<1> DEFINE S == With(X)
           f == [r \in S |-> r.id]
<1>1. /\ IsFiniteSet(Offered) /\ \A r, q \in Offered : r.id = q.id => r = q
  BY OfferedFacts DEF Sized
<1>2. S \subseteq Offered /\ \A r \in S : r.id \in X
  BY DEF With
<1>3. IsFiniteSet(S)
  BY <1>1, <1>2, FS_Subset
<1>4. \A i \in X : \E r \in S : r.id = i
  BY DEF With, Ids
<1>5. Ids(S) = X
  BY <1>2, <1>4 DEF Ids
<1> HIDE DEF S
<1>6. f \in [S -> X] /\ \A r \in S : f[r] = r.id
  BY <1>2
<1> HIDE DEF f
<1>7. f \in Bijection(S, X)
  BY <1>1, <1>2, <1>4, <1>6 DEF Bijection, Injection, Surjection, IsInjective
<1>8. ExistsBijection(S, X)
  BY <1>7 DEF ExistsBijection
<1>9. Cardinality(X) = Cardinality(S)
  BY <1>3, <1>8, FS_Bijection
<1>10. QED
  BY <1>3, <1>5, <1>9 DEF S

LEMMA DisjointCount ==
    ASSUME NEW S, NEW T, IsFiniteSet(S), IsFiniteSet(T), S \cap T = {}
    PROVE  /\ IsFiniteSet(S \cup T) /\ Cardinality(S \cup T) \in Nat
           /\ Cardinality(S) \in Nat /\ Cardinality(T) \in Nat
           /\ Cardinality(S \cup T) = Cardinality(S) + Cardinality(T)
<1>1. /\ IsFiniteSet(S \cup T)
      /\ Cardinality(S \cup T) = Cardinality(S) + Cardinality(T) - Cardinality(S \cap T)
  BY FS_Union
<1>2. Cardinality(S \cap T) = 0
  BY FS_EmptySet
<1>3. Cardinality(S) \in Nat /\ Cardinality(T) \in Nat /\ Cardinality(S \cup T) \in Nat
  BY <1>1, FS_CardinalityType
<1>4. QED
  BY <1>1, <1>2, <1>3

\* The records in the places of some kinds.
Among(kinds) == {r \in Offered : \E p \in Places : p[1] \in kinds /\ r \in At[p]}

LEMMA OneKindMore ==
    ASSUME Account(At, Offered), IsFiniteSet(Offered), NEW K, NEW k, k \notin K
    PROVE  /\ Cardinality(Among(K)) \in Nat /\ Cardinality(In(k)) \in Nat
           /\ Cardinality(Among(K \cup {k})) = Cardinality(Among(K)) + Cardinality(In(k))
<1>1. ASSUME NEW r PROVE r \in Among(K \cup {k}) <=> r \in Among(K) \cup In(k)
  BY DEF Among, In
<1>2. Among(K \cup {k}) = Among(K) \cup In(k)
  BY <1>1
<1>3. Among(K) \cap In(k) = {}
  <2> SUFFICES ASSUME NEW r \in Among(K), r \in In(k) PROVE FALSE
    OBVIOUS
  <2>1. PICK p \in Places : p[1] \in K /\ r \in At[p]
    BY DEF Among
  <2>2. PICK q \in Places : q[1] = k /\ r \in At[q]
    BY DEF In
  <2>3. p # q
    BY <2>1, <2>2
  <2>4. QED
    BY <2>1, <2>2, <2>3 DEF Account
<1>4. IsFiniteSet(Among(K)) /\ IsFiniteSet(In(k))
  <2>1. Among(K) \subseteq Offered /\ In(k) \subseteq Offered
    BY DEF Among, In
  <2>2. QED
    BY <2>1, FS_Subset
<1>5. QED
  BY <1>2, <1>3, <1>4, DisjointCount

LEMMA KindsCount ==
    ASSUME Account(At, Offered), IsFiniteSet(Offered)
    PROVE  Cardinality(Offered) =
              Cardinality(In("todo")) + Cardinality(In("batch")) + Cardinality(In("queue"))
              + Cardinality(In("ir")) + Cardinality(In("buf"))
              + Cardinality(In("stored")) + Cardinality(In("lost"))
<1> DEFINE K1 == {"todo"}
           K2 == K1 \cup {"batch"}
           K3 == K2 \cup {"queue"}
           K4 == K3 \cup {"ir"}
           K5 == K4 \cup {"buf"}
           K6 == K5 \cup {"stored"}
           K7 == K6 \cup {"lost"}
<1>1. Among(K1) = In("todo") /\ Cardinality(In("todo")) \in Nat
  <2>1. Among(K1) = In("todo")
    BY DEF Among, In
  <2>2. "todo" \notin {}
    OBVIOUS
  <2>3. QED
    BY <2>1, <2>2, OneKindMore
<1>2. Among(K7) = Offered
  <2>1. \A p \in Places : p[1] \in K7
    BY PlacesFacts
  <2>2. \A r \in Offered : \E p \in Places : r \in At[p]
    BY DEF Account
  <2> HIDE DEF K7
  <2>3. QED
    BY <2>1, <2>2 DEF Among
<1>3. /\ "batch" \notin K1 /\ "queue" \notin K2 /\ "ir" \notin K3 /\ "buf" \notin K4
      /\ "stored" \notin K5 /\ "lost" \notin K6
  OBVIOUS
<1>4. /\ Cardinality(In("batch")) \in Nat
      /\ Cardinality(Among(K2)) = Cardinality(Among(K1)) + Cardinality(In("batch"))
  BY <1>3, OneKindMore
<1>5. /\ Cardinality(In("queue")) \in Nat
      /\ Cardinality(Among(K3)) = Cardinality(Among(K2)) + Cardinality(In("queue"))
  <2> HIDE DEF K2
  <2>1. QED
    BY <1>3, OneKindMore
<1>6. /\ Cardinality(In("ir")) \in Nat
      /\ Cardinality(Among(K4)) = Cardinality(Among(K3)) + Cardinality(In("ir"))
  <2> HIDE DEF K3
  <2>1. QED
    BY <1>3, OneKindMore
<1>7. /\ Cardinality(In("buf")) \in Nat
      /\ Cardinality(Among(K5)) = Cardinality(Among(K4)) + Cardinality(In("buf"))
  <2> HIDE DEF K4
  <2>1. QED
    BY <1>3, OneKindMore
<1>8. /\ Cardinality(In("stored")) \in Nat
      /\ Cardinality(Among(K6)) = Cardinality(Among(K5)) + Cardinality(In("stored"))
  <2> HIDE DEF K5
  <2>1. QED
    BY <1>3, OneKindMore
<1>9. /\ Cardinality(In("lost")) \in Nat
      /\ Cardinality(Among(K7)) = Cardinality(Among(K6)) + Cardinality(In("lost"))
  <2> HIDE DEF K6
  <2>1. QED
    BY <1>3, OneKindMore
<1> HIDE DEF K1, K2, K3, K4, K5, K6, K7
<1>10. QED
  BY <1>1, <1>2, <1>4, <1>5, <1>6, <1>7, <1>8, <1>9

LEMMA IdsInKinds ==
    ASSUME Account(At, Offered), Stored \subseteq Ids(Offered), lost \subseteq Ids(Offered),
           bounds \in Scenarios
    PROVE  Ids(Offered) = Ids(Waiting) \cup InProcess \cup Stored \cup lost
<1>1. /\ Waiting = In("todo") /\ Pending = In("batch") /\ ToSet(workq) = In("queue")
      /\ Taken = In("ir") /\ Buffered = In("buf")
      /\ With(Stored) = In("stored") /\ With(lost) = In("lost")
  BY InIs
<1>2. InProcess = Ids(In("batch") \cup In("queue") \cup In("ir") \cup In("buf"))
  BY <1>1 DEF InProcess
<1>3. Ids(In("stored")) = Stored /\ Ids(In("lost")) = lost
  BY <1>1, IdsCount
<1>4. \A k : In(k) \subseteq Offered
  BY DEF In
<1>5. ASSUME NEW r \in Offered
      PROVE  r.id \in Ids(Waiting) \cup InProcess \cup Stored \cup lost
  <2>1. PICK p \in Places : r \in At[p]
    BY DEF Account
  <2>2. r \in In(p[1])
    BY <2>1 DEF In
  <2>3. p[1] \in {"todo", "batch", "queue", "ir", "buf", "stored", "lost"}
    BY PlacesFacts
  <2>4. r \in In("todo") => r.id \in Ids(Waiting)
    BY <1>1 DEF Ids
  <2>5. r \in In("batch") \cup In("queue") \cup In("ir") \cup In("buf") => r.id \in InProcess
    BY <1>2 DEF Ids
  <2>6. r \in In("stored") => r.id \in Stored
    BY <1>1 DEF With
  <2>7. r \in In("lost") => r.id \in lost
    BY <1>1 DEF With
  <2>8. QED
    BY <2>2, <2>3, <2>4, <2>5, <2>6, <2>7
<1>6. Ids(Waiting) \subseteq Ids(Offered) /\ InProcess \subseteq Ids(Offered)
  <2>1. ASSUME NEW X, X \subseteq Offered PROVE Ids(X) \subseteq Ids(Offered)
    BY <2>1 DEF Ids
  <2>2. /\ Waiting \subseteq Offered
        /\ In("batch") \cup In("queue") \cup In("ir") \cup In("buf") \subseteq Offered
    BY <1>1, <1>4
  <2>3. QED
    BY <1>2, <2>1, <2>2
<1>7. Ids(Offered) \subseteq Ids(Waiting) \cup InProcess \cup Stored \cup lost
  <2>1. \A i \in Ids(Offered) : \E r \in Offered : i = r.id
    BY DEF Ids
  <2>2. QED
    BY <1>5, <2>1
<1>8. QED
  BY <1>6, <1>7

LEMMA AccountFollows ==
    ASSUME IInv
    PROVE  EveryRecordAccounted
<1>1. /\ bounds \in Scenarios /\ lost \subseteq Ids(Offered) /\ QueueOk /\ StreamsOk
      /\ Account(At, Offered)
  <2>1. RestOk /\ QueueOk /\ StreamsOk /\ Account(At, Offered)
    BY DEF IInv
  <2>2. QED
    BY <2>1 DEF RestOk
<1>2. Stored \subseteq Ids(Offered)
  <2>1. stored \subseteq Ids(Offered) \X streams
    BY <1>1 DEF StreamsOk
  <2>2. QED
    BY <2>1 DEF Stored
<1>3. Ids(Offered) = Ids(Waiting) \cup InProcess \cup Stored \cup lost
  BY <1>1, <1>2, IdsInKinds
<1>4. IsFiniteSet(Offered)
  BY <1>1, OfferedFacts DEF Sized
<1>5. /\ Waiting = In("todo") /\ Pending = In("batch") /\ ToSet(workq) = In("queue")
      /\ Taken = In("ir") /\ Buffered = In("buf")
      /\ With(Stored) = In("stored") /\ With(lost) = In("lost")
  BY <1>1, InIs
<1>6. /\ Cardinality(Stored) = Cardinality(With(Stored))
      /\ Cardinality(lost) = Cardinality(With(lost))
  BY <1>1, <1>2, IdsCount
<1>7. Len(workq) = Cardinality(ToSet(workq))
  BY <1>1, FiniteSeq DEF QueueOk
<1>8. Cardinality(Offered) = Cardinality(Waiting) + Cardinality(Pending) + Len(workq)
                             + Cardinality(Taken) + Cardinality(Buffered)
                             + Cardinality(Stored) + Cardinality(lost)
  BY <1>1, <1>4, <1>5, <1>6, <1>7, KindsCount
<1>9. QED
  BY <1>3, <1>8 DEF EveryRecordAccounted

LEMMA QueueFollows ==
    ASSUME IInv
    PROVE  QueueBounded
<1>1. CountOk
  BY DEF IInv
<1>2. CountIsQueue
  BY <1>1 DEF CountOk, Counted, CountIsQueue
<1>3. curSize < MaxSize + (Cardinality(Devs) - 1) * Largest
  BY BoundFollows
<1>4. Largest = Max({0} \cup {BatchSize(b) : b \in UNION {ToSet(bounds.offers[d]) : d \in Devs}})
  BY DEF Largest, Sizes, Batches
<1>5. QED
  BY <1>2, <1>3, <1>4 DEF QueueBounded

LEMMA AnnotationsFollow ==
    ASSUME IInv
    PROVE  AnnotationKept
<1>1. AnnsOk
  BY DEF IInv
<1>2. QED
  BY <1>1 DEF AnnsOk, AnnotationKept

LEMMA StreamsFollow ==
    ASSUME IInv
    PROVE  OneStream
<1>1. StreamsOk
  BY DEF IInv
<1>2. QED
  BY <1>1 DEF StreamsOk, OneStream

-----------------------------------------------------------------------------
(* The theorems. *)

\* The producers, the channel, the workers and BTrDB keep their types: what is
\* queued, buffered, set or stored was offered, the channel never holds more
\* than its capacity, and curSize is not negative.
THEOREM TypeCorrect == Spec => []TypeOK
<1>1. IInv => TypeOK
  BY TypeFollows
<1>2. QED
  BY <1>1, Invariant, PTL

\* curSize is the bytes that are accepted and not in a buffer yet, and passes
\* the bound that ProcessBatch tests by no more than a batch of each other
\* device, however tests, additions and subtractions fall.
THEOREM BoundKept == Spec => []QueueBounded
<1>1. IInv => QueueBounded
  BY QueueFollows
<1>2. QED
  BY <1>1, Invariant, PTL

\* Each record that was offered is in one place: with its device, in a batch
\* under way, in the channel, with a worker, in a buffer, in BTrDB or lost.
THEOREM RecordsAccounted == Spec => []EveryRecordAccounted
<1>1. IInv => EveryRecordAccounted
  BY AccountFollows
<1>2. QED
  BY <1>1, Invariant, PTL

\* No collection and name gets two streams, whichever workers meet it at once:
\* cachemu is held from the lookup to the creation.
THEOREM StreamMadeOnce == Spec => []OneStream
<1>1. IInv => OneStream
  BY StreamsFollow
<1>2. QED
  BY <1>1, Invariant, PTL

\* Annotations of inserted records are set, replaced or still kept by a worker,
\* however often the compare and set in flushBuf fails.
THEOREM AnnotationsNotForgotten == Spec => []AnnotationKept
<1>1. IInv => AnnotationKept
  BY AnnotationsFollow
<1>2. QED
  BY <1>1, Invariant, PTL
================================================================================
