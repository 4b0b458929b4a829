----------------------------- MODULE C37Pmu_proofs -----------------------------
(***************************************************************************)
(* C37Pmu proved for any id codes, sizes of queues and batches, and        *)
(* scenarios: for each stream every frame is in one place, the places that *)
(* a frame passes through hold the frames of an id code in their order,    *)
(* and what a device sends behind its configuration finds that when it is  *)
(* read.                                                                   *)
(***************************************************************************)
EXTENDS C37Pmu, FiniteSetTheorems, SequenceTheorems, TLAPS

\* The data frames of a sequence.
DataOf(s) == {f \in ToSet(s) : f.kind = "data"}

\* Within a sequence, the frames of an id code are in their order.
Increasing(s) ==
    \A j, k \in DOMAIN s :
       j < k /\ s[j].kind = "data" /\ s[k].kind = "data" /\ s[j].id = s[k].id
          => s[j].n < s[k].n

\* Those of an id code in A were sent before those in B.
Before(A, B) == \A f \in A, g \in B : f.id = g.id => f.n < g.n

\* Decoded with the configuration that it was encoded with, if that was sent whole.
Right(f) == f.sure => f.as = f.of

\* Data frames of i only, which are right.
OfId(s, i) ==
    \A k \in DOMAIN s : s[k].kind = "data" /\ s[k].id = i /\ Right(s[k])

\* The places that a frame passes through, from the last to the first.
Places == 1 .. 5

Along(a, b, c, d, e) ==
    [k \in Places |-> IF k = 1 THEN a ELSE IF k = 2 THEN b ELSE IF k = 3 THEN c
                     ELSE IF k = 4 THEN d ELSE e]

InWorker(s) == IF s \in due THEN Carried(s, worker) ELSE {}
InBatches   == UNION {DataOf(b) : b \in consumer.batch}
InQueues    == UNION {DataOf(output[i]) : i \in IdCodes}

\* Where the frames are that stream s may have a point of.
At(s) == Along(stored[s], InWorker(s), InBatches, InQueues, DataOf(net))

\* Of the numbers up to top each is one of a frame in one place, or gone.
Account(at, gone, top) ==
    /\ at \in [Places -> SUBSET FrameType]
    /\ top \in Nat /\ gone \subseteq 1 .. top
    /\ \A j \in Places : \A f \in at[j] : f.n \in 1 .. top /\ f.n \notin gone
    /\ \A n \in 1 .. top : n \in gone \/ \E j \in Places : \E f \in at[j] : f.n = n
    /\ \A j, k \in Places : \A f \in at[j], g \in at[k] : f.n = g.n => f.id = g.id
    /\ \A j, k \in Places : j < k => Before(at[j], at[k])

\* The consumer and the worker hold batches of one id code, of which there is
\* one at most, and none of those that are still to be drained.
BatchesOk ==
    /\ consumer \in [pc : {"sleep", "drain", "hand"}, todo : SUBSET IdCodes,
                     batch : SUBSET Seq(FrameType), drained : BOOLEAN]
    /\ consumer.pc = "sleep" => consumer.batch = {}
    /\ \A b \in consumer.batch :
          /\ b # <<>> /\ Increasing(b)
          /\ b[1].id \in IdCodes \ consumer.todo /\ OfId(b, b[1].id)
    /\ \A b, c \in consumer.batch : b[1].id = c[1].id => b = c

WorkerOk ==
    /\ worker \in Seq(FrameType) /\ due \subseteq Streams
    /\ worker # <<>> =>
          worker[1].id \in IdCodes /\ OfId(worker, worker[1].id) /\ Increasing(worker)

SequenceOk(s, i) == s \in Seq(FrameType) /\ OfId(s, i) /\ Increasing(s)

QueuesOk ==
    /\ output \in [IdCodes -> Seq(FrameType)]
    /\ \A i \in IdCodes : SequenceOk(output[i], i) /\ Len(output[i]) <= QueueSize

StoredOk ==
    /\ stored \in [Streams -> SUBSET FrameType]
    /\ \A s \in Streams : \A f \in stored[s] : Right(f)

\* When the k-th frame has been reached, i has the configuration v.
Configured(i, k, v) ==
    /\ \A j \in DOMAIN net :
          j < k /\ net[j].kind = "config" /\ net[j].id = i => net[j].of = v
    /\ \/ cfgs[i] = v
       \/ \E j \in DOMAIN net : j < k /\ net[j].kind = "config" /\ net[j].id = i

\* An id code is configured once on a connection.  Where the device's present
\* configuration has been sent whole, it comes before the data behind it, and
\* before all that is still to be sent.
NetOk ==
    /\ net \in Seq(FrameType) /\ Increasing(net)
    /\ \A k \in DOMAIN net :
          /\ net[k].kind \in {"config", "data"} => net[k].id \in IdCodes
          /\ net[k].kind = "config" => net[k].id \notin asked
          /\ net[k].kind = "data" /\ net[k].sure => Configured(net[k].id, k, net[k].of)
    /\ \A i \in current : Configured(i, Len(net) + 1, version)
    /\ ~open => asked = {} /\ current = {}
    /\ dialer \in {"dial", "backoff"} => net = <<>> /\ ~open

\* The types of the rest.
RestOk ==
    /\ bounds \in Scenarios
    /\ used \in [Kinds -> Nat]
    /\ open \in BOOLEAN
    /\ asked \subseteq IdCodes /\ announced \subseteq IdCodes
    /\ current \subseteq announced
    /\ version \in Nat
    /\ dialer \in {"dial", "read", "skip", "backoff"}
    /\ cfgs \in [IdCodes -> Nat]

Accounts ==
    /\ lost \in [Streams -> SUBSET Nat]
    /\ \A s \in Streams : Account(At(s), lost[s], used["frames"])

IInv ==
    /\ RestOk /\ NetOk /\ QueuesOk /\ BatchesOk /\ WorkerOk /\ StoredOk
    /\ Accounts

-----------------------------------------------------------------------------
(* Sequences of frames. *)

LEMMA SeqFacts ==
    ASSUME NEW s \in Seq(FrameType)
    PROVE  /\ Len(s) \in Nat /\ DOMAIN s = 1 .. Len(s)
           /\ \A k \in DOMAIN s : s[k] \in FrameType
           /\ \A k \in DOMAIN s : s[k].n \in Nat
           /\ s # <<>> => 1 \in DOMAIN s /\ Len(s) \in DOMAIN s /\ Head(s) = s[1]
<1>1. Len(s) \in Nat /\ DOMAIN s = 1 .. Len(s) /\ s \in [1 .. Len(s) -> FrameType]
  BY LenProperties
<1>2. \A k \in DOMAIN s : s[k] \in FrameType
  BY <1>1
<1>3. \A f \in FrameType : f.n \in Nat
  BY DEF FrameType
<1>4. s # <<>> => Len(s) > 0
  BY <1>1, EmptySeq
<1>5. QED
  BY <1>1, <1>2, <1>3, <1>4

\* t is a stretch of s that begins after o frames of it.
Stretch(t, s, o) ==
    /\ t \in Seq(FrameType)
    /\ \A k \in DOMAIN t : k + o \in DOMAIN s /\ t[k] = s[k + o]

LEMMA StretchOf ==
    ASSUME NEW s \in Seq(FrameType), NEW t, NEW o \in Nat, Stretch(t, s, o)
    PROVE  /\ DataOf(t) \subseteq DataOf(s)
           /\ Increasing(s) => Increasing(t)
           /\ \A i : OfId(s, i) => OfId(t, i)
<1>1. /\ DOMAIN t = 1 .. Len(t) /\ Len(t) \in Nat
      /\ \A k \in DOMAIN t : k + o \in DOMAIN s /\ t[k] = s[k + o]
  BY SeqFacts DEF Stretch
<1>2. DataOf(t) \subseteq DataOf(s)
  BY <1>1 DEF DataOf, ToSet
<1>3. ASSUME Increasing(s), NEW j \in DOMAIN t, NEW k \in DOMAIN t,
             j < k, t[j].kind = "data", t[k].kind = "data", t[j].id = t[k].id
      PROVE  t[j].n < t[k].n
  <2>1. j + o < k + o
    BY <1>1, <1>3
  <2>2. QED
    BY <1>1, <1>3, <2>1 DEF Increasing
<1>4. \A i : OfId(s, i) => OfId(t, i)
  BY <1>1 DEF OfId
<1>5. QED
  BY <1>2, <1>3, <1>4 DEF Increasing

LEMMA Tails ==
    ASSUME NEW s \in Seq(FrameType), s # <<>>
    PROVE  /\ Stretch(Tail(s), s, 1)
           /\ Len(Tail(s)) = Len(s) - 1
           /\ \A k \in DOMAIN Tail(s) : Tail(s)[k] = s[k + 1]
           /\ Head(s) = s[1] /\ Head(s) \in FrameType
<1>1. /\ Tail(s) \in Seq(FrameType) /\ Len(Tail(s)) = Len(s) - 1
      /\ \A k \in 1 .. Len(Tail(s)) : Tail(s)[k] = s[k + 1]
  BY HeadTailProperties
<1>2. /\ DOMAIN Tail(s) = 1 .. Len(Tail(s)) /\ DOMAIN s = 1 .. Len(s) /\ Len(s) \in Nat
      /\ Len(Tail(s)) \in Nat /\ Head(s) = s[1] /\ s[1] \in FrameType
  BY <1>1, SeqFacts
<1>3. \A k \in 1 .. Len(s) - 1 : k + 1 \in 1 .. Len(s)
  BY <1>2
<1>4. QED
  BY <1>1, <1>2, <1>3 DEF Stretch

\* The first frame was sent before the rest.
LEMMA DataTail ==
    ASSUME NEW s \in Seq(FrameType), s # <<>>
    PROVE  /\ DataOf(s) = DataOf(Tail(s))
                          \cup (IF Head(s).kind = "data" THEN {Head(s)} ELSE {})
           /\ Increasing(s) /\ Head(s).kind = "data" => Before({Head(s)}, DataOf(Tail(s)))
<1>1. /\ DOMAIN s = 1 .. Len(s) /\ DOMAIN Tail(s) = 1 .. Len(s) - 1
      /\ Len(s) \in Nat /\ Len(s) > 0 /\ Head(s) = s[1]
      /\ \A k \in DOMAIN Tail(s) : Tail(s)[k] = s[k + 1]
  BY Tails, SeqFacts DEF Stretch
<1>2. \A k \in DOMAIN s : k = 1 \/ (k - 1 \in DOMAIN Tail(s) /\ s[k] = Tail(s)[k - 1])
  BY <1>1
<1>3. ASSUME NEW f \in DataOf(s), f # Head(s)
      PROVE  f \in DataOf(Tail(s))
  <2>1. PICK k \in DOMAIN s : f = s[k] /\ f.kind = "data"
    BY DEF DataOf, ToSet
  <2>2. k - 1 \in DOMAIN Tail(s) /\ f = Tail(s)[k - 1]
    BY <1>1, <1>2, <1>3, <2>1
  <2>3. QED
    BY <2>1, <2>2 DEF DataOf, ToSet
<1>4. DataOf(Tail(s)) \subseteq DataOf(s)
  BY StretchOf, Tails
<1>5. /\ Head(s).kind = "data" => Head(s) \in DataOf(s)
      /\ \A f \in DataOf(s) : f.kind = "data"
  BY <1>1 DEF DataOf, ToSet
<1>6. ASSUME Increasing(s), Head(s).kind = "data", NEW g \in DataOf(Tail(s)),
             Head(s).id = g.id
      PROVE  Head(s).n < g.n
  <2>1. PICK k \in DOMAIN Tail(s) : g = Tail(s)[k] /\ g.kind = "data"
    BY DEF DataOf, ToSet
  <2>2. k + 1 \in DOMAIN s /\ 1 \in DOMAIN s /\ 1 < k + 1 /\ g = s[k + 1]
    BY <1>1, <2>1
  <2>3. QED
    BY <1>1, <1>6, <2>1, <2>2 DEF Increasing
<1>7. QED
  BY <1>3, <1>4, <1>5, <1>6 DEF Before

LEMMA DataAppend ==
    ASSUME NEW s \in Seq(FrameType), NEW f \in FrameType
    PROVE  /\ Append(s, f) \in Seq(FrameType) /\ Len(Append(s, f)) = Len(s) + 1
           /\ DataOf(Append(s, f)) = DataOf(s) \cup (IF f.kind = "data" THEN {f} ELSE {})
           /\ Increasing(s) /\ (f.kind = "data" => Before(DataOf(s), {f}))
                 => Increasing(Append(s, f))
           /\ \A k \in DOMAIN s : k \in DOMAIN Append(s, f) /\ Append(s, f)[k] = s[k]
           /\ DOMAIN Append(s, f) = DOMAIN s \cup {Len(s) + 1}
           /\ Append(s, f)[Len(s) + 1] = f
<1> DEFINE t == Append(s, f)
<1>1. /\ t \in Seq(FrameType) /\ Len(t) = Len(s) + 1
      /\ \A k \in 1 .. Len(s) : t[k] = s[k]
      /\ t[Len(s) + 1] = f
  BY AppendProperties
<1>2. DOMAIN s = 1 .. Len(s) /\ Len(s) \in Nat /\ DOMAIN t = 1 .. Len(s) + 1
  BY <1>1, SeqFacts
<1>3. DOMAIN t = DOMAIN s \cup {Len(s) + 1}
  BY <1>2
<1> HIDE DEF t
<1>4. DataOf(t) = DataOf(s) \cup (IF f.kind = "data" THEN {f} ELSE {})
  BY <1>1, <1>2, <1>3 DEF DataOf, ToSet
<1>5. ASSUME Increasing(s), f.kind = "data" => Before(DataOf(s), {f}),
             NEW j \in DOMAIN t, NEW k \in DOMAIN t,
             j < k, t[j].kind = "data", t[k].kind = "data", t[j].id = t[k].id
      PROVE  t[j].n < t[k].n
  <2>1. j \in DOMAIN s /\ t[j] = s[j]
    BY <1>1, <1>2, <1>5
  <2>2. CASE k \in DOMAIN s
    BY <1>1, <1>2, <1>5, <2>1, <2>2 DEF Increasing
  <2>3. CASE k = Len(s) + 1
    BY <1>1, <1>5, <2>1, <2>3 DEF Before, DataOf, ToSet
  <2>4. QED
    BY <1>3, <2>2, <2>3
<1>6. Increasing(s) /\ (f.kind = "data" => Before(DataOf(s), {f})) => Increasing(t)
  BY <1>5 DEF Increasing
<1>7. QED
  BY <1>1, <1>2, <1>3, <1>4, <1>6 DEF t

\* A sequence cut in two.
LEMMA DataSplit ==
    ASSUME NEW s \in Seq(FrameType), NEW m \in 0 .. Len(s)
    PROVE  /\ Stretch(SubSeq(s, 1, m), s, 0)
           /\ Stretch(SubSeq(s, m + 1, Len(s)), s, m)
           /\ Len(SubSeq(s, 1, m)) = m /\ Len(SubSeq(s, m + 1, Len(s))) = Len(s) - m
           /\ DataOf(s) = DataOf(SubSeq(s, 1, m)) \cup DataOf(SubSeq(s, m + 1, Len(s)))
           /\ Increasing(s)
                 => Before(DataOf(SubSeq(s, 1, m)), DataOf(SubSeq(s, m + 1, Len(s))))
<1> DEFINE t == SubSeq(s, 1, m)
           u == SubSeq(s, m + 1, Len(s))
<1>1. /\ Len(s) \in Nat /\ m \in Nat /\ m <= Len(s) /\ DOMAIN s = 1 .. Len(s)
      /\ \A k \in DOMAIN s : s[k] \in FrameType
  BY SeqFacts
<1>2. /\ t \in Seq(FrameType) /\ Len(t) = m /\ \A k \in 1 .. m : t[k] = s[k]
  <2>1. \A k \in 1 .. m : s[k] \in FrameType
    BY <1>1
  <2>2. /\ t \in Seq(FrameType) /\ Len(t) = IF 1 <= m THEN m - 1 + 1 ELSE 0
        /\ \A k \in 1 .. m - 1 + 1 : t[k] = s[1 + k - 1]
    BY <1>1, <2>1, SubSeqProperties
  <2> HIDE DEF t, u
  <2>3. m - 1 + 1 = m /\ \A k \in 1 .. m : 1 + k - 1 = k
    BY <1>1
  <2>4. Len(t) = m
    BY <1>1, <2>2, <2>3
  <2>5. QED
    BY <2>2, <2>3, <2>4
<1>3. /\ u \in Seq(FrameType) /\ Len(u) = Len(s) - m
      /\ \A k \in 1 .. Len(s) - m : u[k] = s[k + m]
  <2>1. m + 1 \in Int /\ Len(s) \in Int /\ \A k \in m + 1 .. Len(s) : s[k] \in FrameType
    BY <1>1
  <2>2. /\ u \in Seq(FrameType)
        /\ Len(u) = IF m + 1 <= Len(s) THEN Len(s) - (m + 1) + 1 ELSE 0
        /\ \A k \in 1 .. Len(s) - (m + 1) + 1 : u[k] = s[m + 1 + k - 1]
    BY <2>1, SubSeqProperties
  <2> HIDE DEF t, u
  <2>3. Len(u) = Len(s) - m
    <3>1. \A a, b \in Nat :
             a <= b => (IF a + 1 <= b THEN b - (a + 1) + 1 ELSE 0) = b - a
      OBVIOUS
    <3>2. m \in Nat /\ Len(s) \in Nat /\ m <= Len(s)
      BY <1>1
    <3>3. QED
      BY <2>2, <3>1, <3>2
  <2>4. ASSUME NEW k \in 1 .. Len(s) - m
        PROVE  u[k] = s[k + m]
    <3>1. k \in 1 .. Len(s) - (m + 1) + 1 /\ m + 1 + k - 1 = k + m
      BY <1>1
    <3>2. QED
      BY <2>2, <3>1
  <2>5. QED
    BY <2>2, <2>3, <2>4
<1>4. DOMAIN t = 1 .. m /\ DOMAIN u = 1 .. Len(s) - m
  BY <1>2, <1>3, SeqFacts
<1> HIDE DEF t, u
<1>5. Stretch(t, s, 0)
  BY <1>1, <1>2, <1>4 DEF Stretch
<1>6. Stretch(u, s, m)
  BY <1>1, <1>3, <1>4 DEF Stretch
<1>7. \A k \in DOMAIN s : \/ k \in DOMAIN t /\ s[k] = t[k]
                          \/ k - m \in DOMAIN u /\ s[k] = u[k - m]
  <2>1. \A k \in DOMAIN s : k \in 1 .. m \/ (k - m \in 1 .. Len(s) - m /\ (k - m) + m = k)
    BY <1>1
  <2>2. QED
    BY <1>2, <1>3, <1>4, <2>1
<1>8. DataOf(s) \subseteq DataOf(t) \cup DataOf(u)
  BY <1>7 DEF DataOf, ToSet
<1>9. DataOf(t) \subseteq DataOf(s) /\ DataOf(u) \subseteq DataOf(s)
  BY <1>1, <1>5, <1>6, StretchOf
<1>10. ASSUME Increasing(s), NEW f \in DataOf(t), NEW g \in DataOf(u), f.id = g.id
       PROVE  f.n < g.n
  <2>1. PICK j \in DOMAIN t : f = t[j] /\ f.kind = "data"
    BY DEF DataOf, ToSet
  <2>2. PICK k \in DOMAIN u : g = u[k] /\ g.kind = "data"
    BY DEF DataOf, ToSet
  <2>3. j \in DOMAIN s /\ k + m \in DOMAIN s /\ j < k + m /\ f = s[j] /\ g = s[k + m]
    BY <1>1, <1>2, <1>3, <1>4, <2>1, <2>2
  <2>4. QED
    BY <1>10, <2>1, <2>2, <2>3 DEF Increasing
<1>11. QED
  BY <1>2, <1>3, <1>5, <1>6, <1>8, <1>9, <1>10 DEF t, u, Before

-----------------------------------------------------------------------------
(* Accounts. *)

\* Frames in two places are not the same, and neither are two in a sequence.
LEMMA Apart ==
    ASSUME NEW at, NEW gone, NEW top, Account(at, gone, top),
           NEW j \in Places, NEW k \in Places, j # k, NEW f \in at[j], NEW g \in at[k]
    PROVE  f.n # g.n
<1>1. f.n \in Nat /\ g.n \in Nat
  BY DEF Account
<1>2. j < k \/ k < j
  BY DEF Places
<1>3. f.id = g.id => f.n < g.n \/ g.n < f.n
  BY <1>2 DEF Account, Before
<1>4. f.n = g.n => f.id = g.id
  BY DEF Account
<1>5. QED
  BY <1>1, <1>3, <1>4

\* Some frames go: those that no longer are in any place have gone.
LEMMA Goes ==
    ASSUME NEW at, NEW gone, NEW top, Account(at, gone, top), NEW after, NEW more,
           after \in [Places -> SUBSET FrameType],
           \A j \in Places : after[j] \subseteq at[j],
           \A j \in Places : \A f \in at[j] : f \in after[j] \/ f.n \in more,
           more \subseteq 1 .. top,
           \A j \in Places : \A f \in after[j] : f.n \notin more
    PROVE  Account(after, gone \cup more, top)
<1>1. \A j \in Places : \A f \in after[j] : f.n \in 1 .. top /\ f.n \notin gone \cup more
  BY DEF Account
<1>2. \A n \in 1 .. top : \/ n \in gone \cup more
                          \/ \E j \in Places : \E f \in after[j] : f.n = n
  BY DEF Account
<1>3. \A j, k \in Places : \A f \in after[j], g \in after[k] : f.n = g.n => f.id = g.id
  BY DEF Account
<1>4. \A j, k \in Places : j < k => Before(after[j], after[k])
  BY DEF Account, Before
<1>5. QED
  BY <1>1, <1>2, <1>3, <1>4 DEF Account

\* A frame is sent.
LEMMA Comes ==
    ASSUME NEW at, NEW gone, NEW top, Account(at, gone, top), NEW after,
           NEW f \in FrameType, f.n = top + 1,
           after = [at EXCEPT ![5] = @ \cup {f}]
    PROVE  Account(after, gone, top + 1)
<1>1. /\ after \in [Places -> SUBSET FrameType]
      /\ \A j \in Places : after[j] = IF j = 5 THEN at[5] \cup {f} ELSE at[j]
  BY DEF Account, Places
<1>2. top \in Nat /\ top + 1 \in Nat /\ 1 .. top + 1 = 1 .. top \cup {top + 1}
  BY DEF Account
<1>3. \A j \in Places : \A g \in after[j] : g = f \/ g \in at[j]
  BY <1>1
<1>4. \A j \in Places : \A g \in at[j] : g.n \in 1 .. top /\ g.n < f.n
  BY <1>2 DEF Account
<1>5. \A j \in Places : \A g \in after[j] : g.n \in 1 .. top + 1 /\ g.n \notin gone
  BY <1>2, <1>3 DEF Account
<1>6. \A n \in 1 .. top + 1 : n \in gone \/ \E j \in Places : \E g \in after[j] : g.n = n
  <2>1. f \in after[5] /\ 5 \in Places
    BY <1>1 DEF Places
  <2>2. \A j \in Places : at[j] \subseteq after[j]
    BY <1>1
  <2>3. QED
    BY <1>2, <2>1, <2>2 DEF Account
<1>7. ASSUME NEW j \in Places, NEW k \in Places, NEW g \in after[j], NEW h \in after[k],
             g.n = h.n
      PROVE  g.id = h.id
  BY <1>2, <1>3, <1>4, <1>7 DEF Account
<1>8. ASSUME NEW j \in Places, NEW k \in Places, j < k, NEW g \in after[j],
             NEW h \in after[k], g.id = h.id
      PROVE  g.n < h.n
  <2>1. g \in at[j]
    BY <1>1, <1>8 DEF Places
  <2>2. QED
    BY <1>3, <1>4, <1>8, <2>1 DEF Account, Before
<1>9. QED
  BY <1>1, <1>2, <1>5, <1>6, <1>7, <1>8 DEF Account, Before

\* Some of the frames in a place, M with their numbers and id codes, which were
\* sent before the rest of those of their id codes, get from place "from" to m.
Moved(at, after, m, from, M) ==
    /\ m \in 1 .. 4 /\ from = m + 1
    /\ \A j \in Places \ {m, from} : after[j] = at[j]
    /\ after[m] = at[m] \cup M /\ after[from] \subseteq at[from]
    /\ \A f \in M : \E g \in at[from] : g.n = f.n /\ g.id = f.id
    /\ \A g \in at[from] : g \in after[from] \/ \E f \in M : f.n = g.n
    /\ Before(M, after[from])

LEMMA Moves ==
    ASSUME NEW at, NEW gone, NEW top, Account(at, gone, top),
           NEW after, after \in [Places -> SUBSET FrameType],
           NEW m, NEW from, NEW M, Moved(at, after, m, from, M)
    PROVE  Account(after, gone, top)
<1> SUFFICES ASSUME m \in 1 .. 4, from = m + 1,
                    \A j \in Places \ {m, from} : after[j] = at[j],
                    after[m] = at[m] \cup M, after[from] \subseteq at[from],
                    \A f \in M : \E g \in at[from] : g.n = f.n /\ g.id = f.id,
                    \A g \in at[from] : g \in after[from] \/ \E f \in M : f.n = g.n,
                    Before(M, after[from])
             PROVE  Account(after, gone, top)
  BY DEF Moved
<1>1. m \in Places /\ from \in Places /\ m \in Nat /\ m < from
  BY DEF Places
<1>2. \A j \in Places : \A f \in after[j] :
         f \in at[j] \/ (j = m /\ f \in M /\ \E g \in at[from] : g.n = f.n /\ g.id = f.id)
  BY <1>1
<1>3. \A j \in Places : \A f \in after[j] :
         \E k \in Places : \E g \in at[k] : g.n = f.n /\ g.id = f.id
  BY <1>1, <1>2
<1>4. \A j \in Places : \A f \in after[j] : f.n \in 1 .. top /\ f.n \notin gone
  BY <1>3 DEF Account
<1>5. \A j, k \in Places : \A f \in after[j], g \in after[k] : f.n = g.n => f.id = g.id
  <2> SUFFICES ASSUME NEW j \in Places, NEW k \in Places, NEW f \in after[j],
                      NEW g \in after[k], f.n = g.n
               PROVE  f.id = g.id
    OBVIOUS
  <2>1. PICK a \in Places : \E x \in at[a] : x.n = f.n /\ x.id = f.id
    BY <1>3
  <2>2. PICK b \in Places : \E x \in at[b] : x.n = g.n /\ x.id = g.id
    BY <1>3
  <2>3. QED
    BY <2>1, <2>2 DEF Account
<1>6. ASSUME NEW n \in 1 .. top, n \notin gone
      PROVE  \E j \in Places : \E f \in after[j] : f.n = n
  <2>1. PICK j \in Places : \E f \in at[j] : f.n = n
    BY <1>6 DEF Account
  <2>2. CASE j = from
    BY <1>1, <2>1, <2>2
  <2>3. CASE j # from
    BY <1>1, <2>1, <2>3
  <2>4. QED
    BY <2>2, <2>3
<1>7. ASSUME NEW j \in Places, NEW k \in Places, j < k
      PROVE  Before(after[j], after[k])
  <2>1. \A a, b \in Places : a < b => Before(at[a], at[b])
    BY DEF Account
  <2> SUFFICES ASSUME NEW f \in after[j], NEW g \in after[k], f.id = g.id
               PROVE  f.n < g.n
    BY DEF Before
  <2>2. CASE f \in at[j] /\ g \in at[k]
    BY <1>7, <2>1, <2>2 DEF Before
  <2>3. CASE f \in at[j] /\ g \notin at[k]
    <3>1. k = m /\ \E h \in at[from] : h.n = g.n /\ h.id = g.id
      BY <1>2, <2>3
    <3>2. j < from
      BY <1>1, <1>7, <3>1 DEF Places
    <3>3. Before(at[j], at[from])
      BY <1>1, <2>1, <3>2
    <3>4. QED
      BY <2>3, <3>1, <3>3 DEF Before
  <2>4. CASE f \notin at[j]
    <3>1. j = m /\ f \in M /\ \E h \in at[from] : h.n = f.n /\ h.id = f.id
      BY <1>2, <2>4
    <3>2. CASE k = from
      BY <3>1, <3>2 DEF Before
    <3>3. CASE k # from
      <4>1. from < k /\ g \in at[k]
        BY <1>1, <1>2, <1>7, <3>1, <3>3 DEF Places
      <4>2. Before(at[from], at[k])
        BY <1>1, <2>1, <4>1
      <4>3. QED
        BY <3>1, <4>1, <4>2 DEF Before
    <3>4. QED
      BY <3>2, <3>3
  <2>5. QED
    BY <2>2, <2>3, <2>4
<1>8. QED
  BY <1>4, <1>5, <1>6, <1>7 DEF Account

LEMMA AlongFacts ==
    ASSUME NEW a, NEW b, NEW c, NEW d, NEW e
    PROVE  LET at == Along(a, b, c, d, e) IN
           /\ at[1] = a /\ at[2] = b /\ at[3] = c /\ at[4] = d /\ at[5] = e
           /\ Places = {1, 2, 3, 4, 5}
           /\ a \subseteq FrameType /\ b \subseteq FrameType /\ c \subseteq FrameType
              /\ d \subseteq FrameType /\ e \subseteq FrameType
                 => at \in [Places -> SUBSET FrameType]
<1>1. Places = {1, 2, 3, 4, 5}
  BY DEF Places
<1>2. QED
  BY <1>1 DEF Along

LEMMA DataType ==
    ASSUME NEW s \in Seq(FrameType)
    PROVE  DataOf(s) \subseteq FrameType
BY SeqFacts DEF DataOf, ToSet

LEMMA EmptyFacts ==
    /\ <<>> \in Seq(FrameType) /\ DOMAIN <<>> = {} /\ Len(<<>>) = 0
    /\ DataOf(<<>>) = {} /\ Increasing(<<>>) /\ \A i : OfId(<<>>, i)
<1>1. <<>> \in Seq(FrameType) /\ Len(<<>>) = 0
  BY EmptySeq
<1>2. DOMAIN <<>> = {}
  BY <1>1, SeqFacts
<1>3. QED
  BY <1>1, <1>2 DEF DataOf, ToSet, Increasing, OfId


\* The values that a stream gets of a batch are of its frames.
LEMMA CarriedFacts ==
    ASSUME NEW b \in Seq(FrameType), NEW s
    PROVE  /\ Carried(s, b) \subseteq ToSet(b) /\ ToSet(b) \subseteq FrameType
           /\ \A i : OfId(b, i) =>
                 ToSet(b) = DataOf(b) /\ \A f \in ToSet(b) : f.id = i /\ Right(f)
<1>1. ToSet(b) \subseteq FrameType
  BY SeqFacts DEF ToSet
<1>2. ASSUME NEW i, OfId(b, i)
      PROVE  ToSet(b) = DataOf(b) /\ \A f \in ToSet(b) : f.id = i /\ Right(f)
  BY <1>2 DEF OfId, ToSet, DataOf
<1>3. QED
  BY <1>1, <1>2 DEF Carried

\* No two frames of a batch have a number in common.
LEMMA Alone ==
    ASSUME NEW b \in Seq(FrameType), NEW i, OfId(b, i), Increasing(b),
           NEW f \in ToSet(b), NEW g \in ToSet(b), f.n = g.n
    PROVE  f = g
<1>1. PICK j \in DOMAIN b : f = b[j]
  BY DEF ToSet
<1>2. PICK k \in DOMAIN b : g = b[k]
  BY DEF ToSet
<1>3. j \in Nat /\ k \in Nat /\ f.n \in Nat
  BY <1>1, <1>2, SeqFacts
<1>4. ~(j < k) /\ ~(k < j)
  <2>1. b[j].kind = "data" /\ b[k].kind = "data" /\ b[j].id = b[k].id
    BY DEF OfId
  <2>2. QED
    BY <1>1, <1>2, <1>3, <2>1 DEF Increasing
<1>5. QED
  BY <1>1, <1>2, <1>3, <1>4

\* The numbers that Numbers gives are those of the data frames.
LEMMA NumbersOfData == ASSUME NEW s PROVE Numbers(s) = {f.n : f \in DataOf(s)}
BY DEF Numbers, DataOf

AtRight ==
    \A s \in Streams :
       /\ At(s)[1] = stored[s] /\ At(s)[2] = InWorker(s) /\ At(s)[3] = InBatches
       /\ At(s)[4] = InQueues /\ At(s)[5] = DataOf(net)
       /\ DOMAIN At(s) = Places /\ At(s) = [j \in Places |-> At(s)[j]]

LEMMA AtIs == AtRight
<1>1. ASSUME NEW s \in Streams
      PROVE  /\ At(s)[1] = stored[s] /\ At(s)[2] = InWorker(s) /\ At(s)[3] = InBatches
             /\ At(s)[4] = InQueues /\ At(s)[5] = DataOf(net)
  BY AlongFacts DEF At
<1>2. ASSUME NEW s \in Streams
      PROVE  DOMAIN At(s) = Places /\ At(s) = [j \in Places |-> At(s)[j]]
  BY DEF At, Along
<1>3. QED
  BY <1>1, <1>2 DEF AtRight

\* The places of a stream, before and after a step.
LEMMA AtFacts ==
    ASSUME NEW s \in Streams
    PROVE  /\ Places = {1, 2, 3, 4, 5}
           /\ At(s)[1] = stored[s] /\ At(s)[2] = InWorker(s) /\ At(s)[3] = InBatches
           /\ At(s)[4] = InQueues /\ At(s)[5] = DataOf(net)
           /\ At(s)'[1] = stored'[s] /\ At(s)'[2] = InWorker(s)'
           /\ At(s)'[3] = InBatches' /\ At(s)'[4] = InQueues'
           /\ At(s)'[5] = DataOf(net')
           /\ DOMAIN At(s)' = Places /\ At(s)' = [j \in Places |-> At(s)'[j]]
<1>1. AtRight /\ AtRight'
  BY AtIs, PTL
<1>2. Places = {1, 2, 3, 4, 5}
  BY AlongFacts
<1>3. QED
  BY <1>1, <1>2 DEF AtRight

\* The places hold frames.
PlacesOk == \A s \in Streams : At(s) \in [Places -> SUBSET FrameType]

LEMMA PlacesHold ==
    NetOk /\ QueuesOk /\ BatchesOk /\ WorkerOk /\ StoredOk => PlacesOk
<1> SUFFICES ASSUME NetOk, QueuesOk, BatchesOk, WorkerOk, StoredOk, NEW s \in Streams
             PROVE  At(s) \in [Places -> SUBSET FrameType]
  BY DEF PlacesOk
<1>1. DataOf(net) \subseteq FrameType
  BY DataType DEF NetOk
<1>2. InWorker(s) \subseteq FrameType
  <2>1. Carried(s, worker) \subseteq FrameType
    BY CarriedFacts DEF WorkerOk
  <2>2. QED
    BY <2>1 DEF InWorker
<1>3. InQueues \subseteq FrameType
  BY DataType DEF QueuesOk, InQueues
<1>4. \A b \in consumer.batch : b \in Seq(FrameType)
  BY DEF BatchesOk
<1>5. InBatches \subseteq FrameType
  BY <1>4, DataType DEF InBatches
<1>6. stored[s] \subseteq FrameType
  BY DEF StoredOk
<1>7. QED
  BY <1>1, <1>2, <1>3, <1>5, <1>6, AlongFacts DEF At

LEMMA PlacesType ==
    ASSUME NEW s \in Streams
    PROVE  /\ NetOk /\ QueuesOk /\ BatchesOk /\ WorkerOk /\ StoredOk
                 => At(s) \in [Places -> SUBSET FrameType]
           /\ NetOk' /\ QueuesOk' /\ BatchesOk' /\ WorkerOk' /\ StoredOk'
                 => At(s)' \in [Places -> SUBSET FrameType]
<1>1. (NetOk /\ QueuesOk /\ BatchesOk /\ WorkerOk /\ StoredOk => PlacesOk)'
  BY PlacesHold, PTL
<1>2. QED
  BY <1>1, PlacesHold DEF PlacesOk

\* Data frames on their way go: in no other place are frames of their numbers.
LEMMA NetGoes ==
    ASSUME NEW s \in Streams, At(s) \in [Places -> SUBSET FrameType],
           NEW top, Account(At(s), lost[s], top),
           UNCHANGED saving, UNCHANGED output,
           NEW stay, NEW go, DataOf(net) = stay \cup go,
           DataOf(net') = stay, Before(stay, go) \/ Before(go, stay)
    PROVE  Account(At(s)', lost[s] \cup {f.n : f \in go}, top)
<1> DEFINE more == {f.n : f \in go}
           at == At(s)
           after == At(s)'
<1>1. /\ at[5] = DataOf(net) /\ after[5] = stay /\ 5 \in Places
      /\ \A j \in Places \ {5} : after[j] = at[j]
  <2>1. stored' = stored /\ InWorker(s)' = InWorker(s) /\ InBatches' = InBatches
        /\ InQueues' = InQueues
    BY DEF InWorker, InBatches, InQueues, saving
  <2>2. QED
    BY <2>1, AtFacts
<1>2. go \subseteq at[5] /\ stay \subseteq at[5]
  BY <1>1
<1>3. after \in [Places -> SUBSET FrameType]
  <2>1. DOMAIN after = Places /\ after = [j \in Places |-> after[j]]
    BY AtFacts
  <2>2. \A j \in Places : after[j] \subseteq FrameType
    BY <1>1, <1>2
  <2> HIDE DEF after
  <2>3. QED
    BY <2>1, <2>2
<1>4. Account(at, lost[s], top)
  OBVIOUS
<1> HIDE DEF at, after
<1>5. \A j \in Places : after[j] \subseteq at[j]
  BY <1>1, <1>2
<1>6. \A j \in Places : \A f \in at[j] : f \in after[j] \/ f.n \in more
  BY <1>1
<1>7. more \subseteq 1 .. top
  BY <1>1, <1>2, <1>4 DEF Account
<1>8. ASSUME NEW j \in Places, NEW f \in after[j], NEW g \in go
      PROVE  f.n # g.n
  <2>1. f \in at[j] /\ g \in at[5]
    BY <1>2, <1>5
  <2>2. CASE j # 5
    BY <1>1, <1>4, <2>1, <2>2, Apart
  <2>3. CASE j = 5
    <3>1. f \in stay /\ f.n \in Nat /\ g.n \in Nat
      BY <1>1, <1>4, <2>1, <2>3 DEF Account
    <3>2. f.n = g.n => f.id = g.id
      BY <1>1, <1>4, <2>1, <2>3 DEF Account
    <3>3. f.id = g.id => f.n < g.n \/ g.n < f.n
      BY <3>1 DEF Before
    <3>4. QED
      BY <3>1, <3>2, <3>3
  <2>4. QED
    BY <2>2, <2>3
<1>9. \A j \in Places : \A f \in after[j] : f.n \notin more
  BY <1>8
<1> HIDE DEF more
<1>10. Account(after, lost[s] \cup more, top)
  BY <1>3, <1>4, <1>5, <1>6, <1>7, <1>9, Goes
<1>11. QED
  BY <1>10 DEF more, after

\* The same of all streams.
LEMMA LoseAccounts ==
    ASSUME IInv, NEW go, DataOf(net) = DataOf(net') \cup go,
           Before(DataOf(net'), go) \/ Before(go, DataOf(net')),
           Lose({f.n : f \in go}), used'["frames"] = used["frames"],
           UNCHANGED output, UNCHANGED saving
    PROVE  Accounts'
<1>1. /\ NetOk /\ QueuesOk /\ BatchesOk /\ WorkerOk /\ StoredOk /\ Accounts
      /\ net \in Seq(FrameType)
  BY DEF IInv, NetOk
<1>2. {f.n : f \in go} \subseteq Nat
  <2>1. go \subseteq FrameType
    BY <1>1, DataType
  <2>2. QED
    BY <2>1 DEF FrameType
<1>3. /\ lost' \in [Streams -> SUBSET Nat]
      /\ \A s \in Streams : lost'[s] = lost[s] \cup {f.n : f \in go}
  <2> DEFINE more == {f.n : f \in go}
  <2>1. lost' = [s \in Streams |-> lost[s] \cup more] /\ more \subseteq Nat
    BY <1>2 DEF Lose
  <2>2. lost \in [Streams -> SUBSET Nat]
    BY <1>1 DEF Accounts
  <2> HIDE DEF more
  <2>3. /\ lost' \in [Streams -> SUBSET Nat]
        /\ \A s \in Streams : lost'[s] = lost[s] \cup more
    BY <2>1, <2>2
  <2>4. QED
    BY <2>3 DEF more
<1>4. ASSUME NEW s \in Streams
      PROVE  Account(At(s)', lost[s] \cup {f.n : f \in go}, used["frames"])
  <2>1. At(s) \in [Places -> SUBSET FrameType] /\ Account(At(s), lost[s], used["frames"])
    BY <1>1, PlacesType DEF Accounts
  <2>2. QED
    BY <2>1, NetGoes
<1>5. ASSUME NEW s \in Streams
      PROVE  Account(At(s)', lost'[s], used'["frames"])
  BY <1>3, <1>4
<1>6. QED
  BY <1>3, <1>5 DEF Accounts

\* Where the data on their way are the same, so are the accounts.
LEMMA SameAccounts ==
    ASSUME Accounts, UNCHANGED <<saving, output, lost>>,
           DataOf(net') = DataOf(net), used'["frames"] = used["frames"]
    PROVE  Accounts'
<1>1. ASSUME NEW s \in Streams
      PROVE  At(s)' = At(s)
  <2>1. stored' = stored /\ InWorker(s)' = InWorker(s) /\ InBatches' = InBatches
        /\ InQueues' = InQueues
    BY DEF InWorker, InBatches, InQueues, saving
  <2>2. QED
    BY <2>1 DEF At
<1>2. QED
  BY <1>1 DEF Accounts

LEMMA UseType ==
    ASSUME used \in [Kinds -> Nat], NEW kind \in Kinds, Use(kind)
    PROVE  /\ used' \in [Kinds -> Nat] /\ used'[kind] = used[kind] + 1
           /\ \A k \in Kinds \ {kind} : used'[k] = used[k]
BY DEF Use

\* Each part depends on some of the variables only.
LEMMA Frames ==
    /\ NetOk /\ UNCHANGED <<net, open, asked, current, version, dialer, cfgs>> => NetOk'
    /\ QueuesOk /\ UNCHANGED output => QueuesOk'
    /\ BatchesOk /\ UNCHANGED consumer => BatchesOk'
    /\ WorkerOk /\ UNCHANGED <<worker, due>> => WorkerOk'
    /\ StoredOk /\ UNCHANGED stored => StoredOk'
<1>1. NetOk /\ UNCHANGED <<net, open, asked, current, version, dialer, cfgs>> => NetOk'
  BY DEF NetOk, Configured
<1>2. QueuesOk /\ UNCHANGED output => QueuesOk'
  BY DEF QueuesOk
<1>3. BatchesOk /\ UNCHANGED consumer => BatchesOk'
  BY DEF BatchesOk
<1>4. WorkerOk /\ UNCHANGED <<worker, due>> => WorkerOk'
  BY DEF WorkerOk
<1>5. StoredOk /\ UNCHANGED stored => StoredOk'
  BY DEF StoredOk
<1>6. QED
  BY <1>1, <1>2, <1>3, <1>4, <1>5

\* The process has just begun.
Fresh ==
    /\ net = <<>> /\ ~open /\ asked = {} /\ current = {}
    /\ output = [i \in IdCodes |-> <<>>]
    /\ consumer = Sleeping /\ worker = <<>> /\ due = {}

NothingHeld == \A s \in Streams, j \in Places : j # 1 => At(s)[j] = {}

LEMMA FreshIs ==
    Fresh => NetOk /\ QueuesOk /\ BatchesOk /\ WorkerOk /\ NothingHeld
<1> SUFFICES ASSUME Fresh
             PROVE  /\ NetOk /\ QueuesOk /\ BatchesOk /\ WorkerOk
                    /\ \A s \in Streams, j \in Places : j # 1 => At(s)[j] = {}
  BY DEF NothingHeld
<1>1. NetOk
  BY EmptyFacts DEF Fresh, NetOk
<1>2. QueuesOk
  <2>1. \A i \in IdCodes : output[i] = <<>>
    BY DEF Fresh
  <2>2. 0 <= QueueSize
    BY SizesAssumption
  <2>3. output \in [IdCodes -> Seq(FrameType)]
    BY EmptyFacts DEF Fresh
  <2>4. QED
    BY <2>1, <2>2, <2>3, EmptyFacts DEF QueuesOk, SequenceOk
<1>3. BatchesOk
  BY DEF Fresh, Sleeping, BatchesOk
<1>4. WorkerOk
  BY EmptyFacts DEF Fresh, WorkerOk
<1>5. ASSUME NEW s \in Streams, NEW j \in Places, j # 1
      PROVE  At(s)[j] = {}
  <2>1. DataOf(net) = {} /\ InWorker(s) = {} /\ InQueues = {}
    BY EmptyFacts DEF Fresh, InWorker, InQueues
  <2>2. InBatches = {}
    BY DEF Fresh, Sleeping, InBatches
  <2>3. QED
    BY <1>5, <2>1, <2>2, AtFacts
<1>6. QED
  BY <1>1, <1>2, <1>3, <1>4, <1>5

LEMMA InitInv == Init => IInv
<1> SUFFICES ASSUME Init PROVE IInv
  OBVIOUS
<1>1. RestOk
  BY DEF Init, RestOk
<1>2. Fresh
  BY DEF Init, Fresh
<1>3. /\ NetOk /\ QueuesOk /\ BatchesOk /\ WorkerOk
      /\ \A s \in Streams, j \in Places : j # 1 => At(s)[j] = {}
  BY <1>2, FreshIs DEF NothingHeld
<1>4. StoredOk /\ \A s \in Streams : stored[s] = {} /\ lost[s] = {}
  BY DEF Init, StoredOk
<1>5. Accounts
  <2>1. lost \in [Streams -> SUBSET Nat] /\ used["frames"] = 0
    BY DEF Init, Kinds
  <2>2. ASSUME NEW s \in Streams
        PROVE  Account(At(s), lost[s], used["frames"])
    <3>1. \A j \in Places : At(s)[j] = {}
      BY <1>3, <1>4, AtFacts
    <3>2. At(s) \in [Places -> SUBSET FrameType]
      BY <1>3, <1>4, PlacesType
    <3>3. QED
      BY <1>4, <2>1, <3>1, <3>2 DEF Account, Before
  <2>3. QED
    BY <2>1, <2>2 DEF Accounts
<1>6. QED
  BY <1>1, <1>3, <1>4, <1>5 DEF IInv

-----------------------------------------------------------------------------
(* The device and the network. *)

\* A frame that is put on its way on the open connection.
LEMMA Appended ==
    ASSUME NetOk, open, asked \subseteq IdCodes, NEW f \in FrameType, f.of = version,
           \/ /\ f.kind = "config" /\ f.id \in asked
              /\ asked' = asked \ {f.id} /\ current' = current \cup {f.id}
           \/ /\ f.kind = "data" /\ f.id \in IdCodes /\ (f.sure => f.id \in current)
              /\ Before(DataOf(net), {f}) /\ asked' = asked /\ current' = current
           \/ f.kind = "junk" /\ asked' = asked /\ current' = current,
           net' = Append(net, f), UNCHANGED <<open, version, dialer, cfgs>>
    PROVE  NetOk'
<1>1. /\ net' \in Seq(FrameType) /\ Len(net') = Len(net) + 1 /\ Len(net) \in Nat
      /\ Increasing(net')
      /\ \A k \in DOMAIN net : k \in DOMAIN net' /\ net'[k] = net[k] /\ k <= Len(net)
      /\ DOMAIN net' = DOMAIN net \cup {Len(net) + 1} /\ DOMAIN net = 1 .. Len(net)
      /\ net'[Len(net) + 1] = f
  <2>1. net \in Seq(FrameType) /\ Increasing(net)
    BY DEF NetOk
  <2>2. Len(net) \in Nat /\ DOMAIN net = 1 .. Len(net)
    BY <2>1, SeqFacts
  <2>3. Increasing(net')
    BY <2>1, DataAppend
  <2>4. QED
    BY <2>1, <2>2, <2>3, DataAppend
<1>2. asked' \subseteq asked
  OBVIOUS
<1>3. ASSUME NEW i, NEW k \in 1 .. Len(net) + 1, NEW v, Configured(i, k, v)
      PROVE  Configured(i, k, v)'
  <2>1. \A j \in DOMAIN net' : j < k => j \in DOMAIN net /\ net'[j] = net[j]
    BY <1>1
  <2>2. QED
    BY <1>1, <1>3, <2>1 DEF Configured
<1>4. ASSUME NEW i \in current', NEW l \in Nat, l = Len(net) + 2
      PROVE  Configured(i, l, version)'
  <2>1. CASE i \in current /\ ~(f.kind = "config" /\ i = f.id)
    <3>1. Configured(i, Len(net) + 1, version)
      BY <2>1 DEF NetOk
    <3>2. \A j \in DOMAIN net' : j < l /\ net'[j].kind = "config"
                                   /\ net'[j].id = i => j \in DOMAIN net /\ net'[j] = net[j]
      BY <1>1, <2>1
    <3>3. \A j \in DOMAIN net : j < Len(net) + 1 /\ j < l
      BY <1>1, <1>4
    <3>4. QED
      BY <1>1, <3>1, <3>2, <3>3 DEF Configured
  <2>2. CASE f.kind = "config" /\ i = f.id
    <3>1. \A j \in DOMAIN net : ~(net[j].kind = "config" /\ net[j].id = i)
      BY <2>2 DEF NetOk
    <3>2. \A j \in DOMAIN net' : net'[j].kind = "config" /\ net'[j].id = i
                                   => net'[j].of = version
      BY <1>1, <3>1
    <3>3. Len(net) + 1 < l /\ Len(net) + 1 \in DOMAIN net'
      BY <1>1, <1>4
    <3>4. QED
      BY <1>1, <2>2, <3>2, <3>3 DEF Configured
  <2>3. QED
    BY <2>1, <2>2
<1>5. Len(net') + 1 = Len(net) + 2 /\ Len(net) + 2 \in Nat
  BY <1>1
<1>6. ASSUME NEW k \in DOMAIN net', net'[k].kind = "data", net'[k].sure
      PROVE  Configured(net[k].id, k, net[k].of)'
  <2>1. CASE k \in DOMAIN net
    <3>1. Configured(net'[k].id, k, net'[k].of) /\ k \in 1 .. Len(net) + 1
      BY <1>1, <1>6, <2>1 DEF NetOk
    <3>2. QED
      BY <1>3, <3>1
  <2>2. CASE k = Len(net) + 1
    <3>1. Configured(f.id, k, version) /\ k \in 1 .. Len(net) + 1 /\ net'[k] = f
      BY <1>1, <1>6, <2>2 DEF NetOk
    <3>2. QED
      BY <1>3, <3>1
  <2>3. QED
    BY <1>1, <2>1, <2>2
<1>7. ASSUME NEW k \in DOMAIN net'
      PROVE  /\ net'[k].kind \in {"config", "data"} => net'[k].id \in IdCodes
             /\ net'[k].kind = "config" => net'[k].id \notin asked'
  BY <1>1, <1>2 DEF NetOk
<1>8. ~(dialer \in {"dial", "backoff"})
  BY DEF NetOk
<1>9. \A i \in current' : Configured(i, Len(net) + 1, version)'
  BY <1>4, <1>5
<1>10. QED
  BY <1>1, <1>6, <1>7, <1>8, <1>9 DEF NetOk

\* A frame that is no data.
LEMMA OtherInv ==
    ASSUME IInv, open, NEW f \in FrameType, f.of = version, Deliver(f),
           \/ /\ f.kind = "config" /\ f.id \in asked
              /\ asked' = asked \ {f.id} /\ current' = current \cup {f.id}
              /\ announced' = announced \cup {f.id}
           \/ f.kind = "junk" /\ UNCHANGED device,
           used' \in [Kinds -> Nat], used'["frames"] = used["frames"],
           UNCHANGED <<bounds, open, version, reading, saving, lost>>
    PROVE  IInv'
<1>1. /\ net' = Append(net, f) /\ f.kind # "data"
      /\ \/ /\ f.kind = "config" /\ f.id \in asked
            /\ asked' = asked \ {f.id} /\ current' = current \cup {f.id}
         \/ f.kind = "junk" /\ asked' = asked /\ current' = current
  BY DEF Deliver, device
<1>2. RestOk /\ NetOk /\ QueuesOk /\ BatchesOk /\ WorkerOk /\ StoredOk /\ Accounts
  BY DEF IInv
<1>3. asked \subseteq IdCodes
  BY <1>2 DEF RestOk
<1>4. RestOk'
  BY <1>2 DEF RestOk, reading, device
<1>5. NetOk'
  BY <1>1, <1>2, <1>3, Appended DEF reading
<1>6. DataOf(net') = DataOf(net)
  <2>1. net \in Seq(FrameType)
    BY <1>2 DEF NetOk
  <2>2. DataOf(net') = DataOf(net) \cup (IF f.kind = "data" THEN {f} ELSE {})
    BY <1>1, <2>1, DataAppend
  <2>3. QED
    BY <1>1, <2>2
<1>7. Accounts'
  <2>1. UNCHANGED <<saving, output, lost>>
    BY DEF reading
  <2>2. QED
    BY <1>2, <1>6, <2>1, SameAccounts
<1>8. QueuesOk' /\ BatchesOk' /\ WorkerOk' /\ StoredOk'
  BY <1>2, Frames DEF reading, saving
<1>9. QED
  BY <1>4, <1>5, <1>7, <1>8 DEF IInv

LEMMA SendConfigInv == ASSUME IInv, NEW i \in IdCodes, SendConfig(i) PROVE IInv'
<1> DEFINE f == Frame("config", i, 0, FALSE)
<1>1. RestOk /\ used \in [Kinds -> Nat]
  BY DEF IInv, RestOk
<1>2. /\ open /\ Deliver(f) /\ i \in asked /\ asked' = asked \ {i}
      /\ announced' = announced \cup {i} /\ current' = current \cup {i}
      /\ UNCHANGED <<bounds, used, open, version, reading, saving, lost>>
  BY DEF SendConfig
<1>3. f \in FrameType /\ f.kind = "config" /\ f.id = i /\ f.of = version
  BY <1>1 DEF Frame, FrameType, RestOk
<1> HIDE DEF f
<1>4. QED
  BY <1>1, <1>2, <1>3, OtherInv

LEMMA SendJunkInv == ASSUME IInv, SendJunk PROVE IInv'
<1> DEFINE f == Frame("junk", 0, 0, FALSE)
<1>1. RestOk /\ used \in [Kinds -> Nat]
  BY DEF IInv, RestOk
<1>2. used' \in [Kinds -> Nat] /\ used'["frames"] = used["frames"]
  BY <1>1, UseType DEF SendJunk, Kinds
<1>3. /\ open /\ Deliver(f)
      /\ UNCHANGED <<bounds, open, device, reading, saving, lost>>
  BY DEF SendJunk
<1>4. f \in FrameType /\ f.kind = "junk" /\ f.of = version
  BY <1>1 DEF Frame, FrameType, RestOk
<1> HIDE DEF f
<1>5. version' = version
  BY <1>3 DEF device
<1>6. QED
  BY <1>1, <1>2, <1>3, <1>4, <1>5, OtherInv

LEMMA SendDataInv ==
    ASSUME IInv, NEW i \in IdCodes, NEW drop \in BOOLEAN, SendData(i, drop)
    PROVE  IInv'
<1> DEFINE n == used["frames"] + 1
           f == Frame("data", i, n, drop)
<1>1. RestOk /\ used \in [Kinds -> Nat] /\ used["frames"] \in Nat /\ used["flags"] \in Nat
  BY DEF IInv, RestOk, Kinds
<1>2. /\ f \in FrameType /\ f.kind = "data" /\ f.id = i /\ f.n = n /\ f.of = version
      /\ f.sure => f.id \in current
  <2>1. (i \in current) \in BOOLEAN /\ n \in Nat /\ version \in Nat
    BY <1>1 DEF RestOk
  <2>2. QED
    BY <2>1 DEF Frame, FrameType
<1>3. used' \in [Kinds -> Nat] /\ used'["frames"] = n
  BY <1>1 DEF SendData, Kinds
<1>4. open /\ net' = Append(net, f)
      /\ UNCHANGED <<bounds, open, device, reading, saving, lost>>
  BY DEF SendData, Deliver
<1> HIDE DEF f
<1>5. RestOk'
  BY <1>1, <1>3, <1>4 DEF RestOk, device, reading
<1>6. NetOk /\ QueuesOk /\ BatchesOk /\ WorkerOk /\ StoredOk /\ Accounts
  BY DEF IInv
<1>7. \A g \in DataOf(net) : g.n \in 1 .. used["frames"]
  <2> DEFINE s == "STAT"
  <2>1. s \in Streams /\ 5 \in Places /\ At(s)[5] = DataOf(net)
    BY AtFacts DEF Streams
  <2> HIDE DEF s
  <2>2. Account(At(s), lost[s], used["frames"])
    BY <1>6, <2>1 DEF Accounts
  <2>3. QED
    BY <2>1, <2>2 DEF Account
<1>8. Before(DataOf(net), {f})
  BY <1>1, <1>2, <1>7 DEF Before
<1>9. NetOk'
  <2>1. asked \subseteq IdCodes /\ asked' = asked /\ current' = current
        /\ UNCHANGED <<open, version, dialer, cfgs>>
    BY <1>1, <1>4 DEF RestOk, device, reading
  <2>2. QED
    BY <1>2, <1>4, <1>6, <1>8, <2>1, Appended
<1>10. DataOf(net') = DataOf(net) \cup {f}
  <2>1. net \in Seq(FrameType)
    BY <1>6 DEF NetOk
  <2>2. DataOf(net') = DataOf(net) \cup (IF f.kind = "data" THEN {f} ELSE {})
    BY <1>2, <1>4, <2>1, DataAppend
  <2>3. QED
    BY <1>2, <2>2
<1>11. QueuesOk' /\ BatchesOk' /\ WorkerOk' /\ StoredOk'
  BY <1>4, <1>6, Frames DEF reading, saving
<1>12. ASSUME NEW s \in Streams
       PROVE  Account(At(s)', lost[s], n)
  <2>1. At(s)' = [At(s) EXCEPT ![5] = @ \cup {f}]
    <3>1. At(s) \in [Places -> SUBSET FrameType]
      BY <1>6, PlacesType
    <3>2. stored' = stored /\ InWorker(s)' = InWorker(s) /\ InBatches' = InBatches
          /\ InQueues' = InQueues
      BY <1>4 DEF InWorker, InBatches, InQueues, saving, reading
    <3>3. /\ DOMAIN At(s)' = Places /\ At(s)' = [j \in Places |-> At(s)'[j]]
          /\ \A j \in Places : At(s)'[j] = IF j = 5 THEN At(s)[5] \cup {f} ELSE At(s)[j]
      <4>1. /\ Places = {1, 2, 3, 4, 5} /\ DOMAIN At(s)' = Places
            /\ At(s)' = [j \in Places |-> At(s)'[j]]
        BY AtFacts
      <4>2. /\ At(s)'[1] = At(s)[1] /\ At(s)'[2] = At(s)[2] /\ At(s)'[3] = At(s)[3]
            /\ At(s)'[4] = At(s)[4]
        BY <3>2, AtFacts
      <4>3. At(s)'[5] = At(s)[5] \cup {f}
        BY <1>10, AtFacts
      <4>4. QED
        BY <4>1, <4>2, <4>3
    <3> DEFINE at == At(s)
               after == At(s)'
    <3> HIDE DEF at, after
    <3>4. /\ at \in [Places -> SUBSET FrameType]
          /\ DOMAIN after = Places /\ after = [j \in Places |-> after[j]]
          /\ \A j \in Places : after[j] = IF j = 5 THEN at[5] \cup {f} ELSE at[j]
      BY <3>1, <3>3 DEF at, after
    <3>5. after = [at EXCEPT ![5] = @ \cup {f}]
      BY <3>4
    <3>6. QED
      BY <3>5 DEF at, after
  <2>2. Account(At(s), lost[s], used["frames"])
    BY <1>6 DEF Accounts
  <2>3. QED
    BY <1>2, <2>1, <2>2, Comes
<1>13. Accounts'
  <2>1. lost' = lost /\ lost \in [Streams -> SUBSET Nat]
    BY <1>4, <1>6 DEF Accounts
  <2>2. \A s \in Streams : Account(At(s)', lost'[s], used'["frames"])
    BY <1>3, <1>12, <2>1
  <2>3. QED
    BY <2>1, <2>2 DEF Accounts
<1>14. QED
  BY <1>5, <1>6, <1>9, <1>11, <1>13 DEF IInv

\* t is the first m frames of s, behind which there may be a damaged one.
CutTo(t, s, m) ==
    /\ t \in Seq(FrameType) /\ m \in Nat /\ m <= Len(t) /\ m <= Len(s)
    /\ \A k \in 1 .. m : t[k] = s[k]
    /\ \A k \in DOMAIN t : k > m => t[k].kind = "damaged"

LEMMA CutIs ==
    ASSUME NEW s \in Seq(FrameType), NEW m \in 0 .. Len(s), NEW t,
           NEW d \in FrameType, d.kind = "damaged",
           t = SubSeq(s, 1, m) \/ t = Append(SubSeq(s, 1, m), d)
    PROVE  CutTo(t, s, m) /\ DataOf(t) = DataOf(SubSeq(s, 1, m))
<1> DEFINE u == SubSeq(s, 1, m)
<1>1. Stretch(u, s, 0) /\ Len(u) = m /\ m \in Nat /\ Len(s) \in Nat /\ m <= Len(s)
  BY DataSplit, SeqFacts
<1>2. t = u \/ t = Append(u, d)
  OBVIOUS
<1> HIDE DEF u
<1>3. u \in Seq(FrameType) /\ DOMAIN u = 1 .. m /\ \A k \in 1 .. m : u[k] = s[k]
  <2>1. u \in Seq(FrameType) /\ \A k \in DOMAIN u : u[k] = s[k + 0]
    BY <1>1 DEF Stretch
  <2>2. DOMAIN u = 1 .. m
    BY <1>1, <2>1, SeqFacts
  <2>3. QED
    BY <1>1, <2>1, <2>2
<1>4. CASE t = u
  BY <1>1, <1>3, <1>4 DEF CutTo, u
<1>5. CASE t = Append(u, d)
  <2>1. /\ t \in Seq(FrameType) /\ Len(t) = Len(u) + 1
        /\ DataOf(t) = DataOf(u) \cup (IF d.kind = "data" THEN {d} ELSE {})
    BY <1>3, <1>5, DataAppend
  <2>2. /\ \A k \in DOMAIN u : t[k] = u[k]
        /\ DOMAIN t = DOMAIN u \cup {Len(u) + 1} /\ t[Len(u) + 1] = d
    BY <1>3, <1>5, DataAppend
  <2>3. DataOf(t) = DataOf(u)
    BY <2>1
  <2>4. m <= Len(t)
    BY <1>1, <2>1
  <2>5. \A k \in 1 .. m : t[k] = s[k]
    BY <1>3, <2>2
  <2>6. ASSUME NEW k \in DOMAIN t, k > m
        PROVE  t[k].kind = "damaged"
    <3>1. k \notin 1 .. m
      BY <1>1, <2>6
    <3>2. t[k] = d
      BY <1>3, <2>2, <3>1
    <3>3. QED
      BY <3>2
  <2>7. CutTo(t, s, m)
    BY <1>1, <2>1, <2>4, <2>5, <2>6 DEF CutTo
  <2>8. QED
    BY <2>3, <2>7 DEF u
<1>6. QED
  BY <1>2, <1>4, <1>5

\* What is on its way is cut off.
LEMMA Shortened ==
    ASSUME NetOk, ~(dialer \in {"dial", "backoff"}), NEW m \in Nat, CutTo(net', net, m),
           asked' \subseteq asked, ~open' => asked' = {} /\ current' = {},
           current' \subseteq current,
           \A i \in current', k \in DOMAIN net :
              net[k].kind = "config" /\ net[k].id = i => k <= m,
           UNCHANGED <<dialer, cfgs, version>>
    PROVE  NetOk'
<1>1. /\ net \in Seq(FrameType) /\ net' \in Seq(FrameType) /\ Increasing(net)
      /\ DOMAIN net = 1 .. Len(net) /\ DOMAIN net' = 1 .. Len(net')
      /\ Len(net) \in Nat /\ Len(net') \in Nat /\ m <= Len(net) /\ m <= Len(net')
  BY SeqFacts DEF NetOk, CutTo
<1>2. \A k \in 1 .. m : k \in DOMAIN net /\ k \in DOMAIN net' /\ net'[k] = net[k]
  BY <1>1 DEF CutTo
<1>3. \A k \in DOMAIN net' :
         k \in 1 .. m \/ ~(net'[k].kind \in {"config", "data"})
  BY <1>1 DEF CutTo
<1>4. Increasing(net')
  BY <1>1, <1>2, <1>3 DEF Increasing
<1>5. ASSUME NEW k \in DOMAIN net', net'[k].kind = "data", net'[k].sure
      PROVE  Configured(net[k].id, k, net[k].of)'
  <2>1. k \in 1 .. m /\ Configured(net'[k].id, k, net'[k].of)
    BY <1>2, <1>3, <1>5 DEF NetOk
  <2>2. \A j \in DOMAIN net : j < k => j \in 1 .. m
    BY <1>1, <2>1
  <2>3. \A j \in DOMAIN net' : j < k => j \in 1 .. m
    BY <1>1, <2>1
  <2>4. QED
    BY <1>2, <2>1, <2>2, <2>3 DEF Configured
<1>6. ASSUME NEW i \in current'
      PROVE  Configured(i, Len(net) + 1, version)'
  <2>1. Configured(i, Len(net) + 1, version)
    BY DEF NetOk
  <2>2. \A j \in DOMAIN net : net[j].kind = "config" /\ net[j].id = i => j \in 1 .. m
    BY <1>1
  <2>3. \A j \in DOMAIN net' : net'[j].kind = "config" => j \in 1 .. m
    BY <1>3
  <2>4. \A j \in 1 .. m : j < Len(net) + 1 /\ j < Len(net') + 1
    BY <1>1
  <2>5. QED
    BY <1>2, <2>1, <2>2, <2>3, <2>4 DEF Configured
<1>7. ASSUME NEW k \in DOMAIN net'
      PROVE  /\ net'[k].kind \in {"config", "data"} => net'[k].id \in IdCodes
             /\ net'[k].kind = "config" => net'[k].id \notin asked'
  BY <1>2, <1>3 DEF NetOk
<1>8. QED
  BY <1>1, <1>4, <1>5, <1>6, <1>7 DEF NetOk

\* The frames behind the first m are lost.
LEMMA CutInv ==
    ASSUME IInv, ~(dialer \in {"dial", "backoff"}), NEW m \in 0 .. Len(net),
           NEW d \in FrameType, d.kind = "damaged",
           net' = SubSeq(net, 1, m) \/ net' = Append(SubSeq(net, 1, m), d),
           Lose(Numbers(SubSeq(net, m + 1, Len(net)))),
           asked' \subseteq asked, announced' \subseteq announced,
           open' \in BOOLEAN, ~open' => asked' = {} /\ current' = {},
           current' \subseteq current \cap announced',
           \A i \in current', k \in DOMAIN net :
              net[k].kind = "config" /\ net[k].id = i => k <= m,
           used' \in [Kinds -> Nat], used'["frames"] = used["frames"],
           UNCHANGED <<bounds, version, reading, saving>>
    PROVE  IInv'
<1> DEFINE stay == DataOf(SubSeq(net, 1, m))
           go == DataOf(SubSeq(net, m + 1, Len(net)))
<1>1. /\ RestOk /\ NetOk /\ QueuesOk /\ BatchesOk /\ WorkerOk /\ StoredOk
      /\ net \in Seq(FrameType) /\ Increasing(net)
  BY DEF IInv, NetOk
<1>2. UNCHANGED output
  BY DEF reading
<1>3. RestOk'
  BY <1>1 DEF RestOk, reading
<1>4. CutTo(net', net, m) /\ DataOf(net') = stay /\ m \in Nat
  <2>1. CutTo(net', net, m) /\ DataOf(net') = stay
    BY <1>1, CutIs
  <2>2. QED
    BY <2>1 DEF CutTo
<1>5. NetOk'
  BY <1>1, <1>4, Shortened DEF reading
<1>6. QueuesOk' /\ BatchesOk' /\ WorkerOk' /\ StoredOk'
  BY <1>1, <1>2, Frames DEF saving
<1>7. DataOf(net) = stay \cup go /\ Before(stay, go)
  BY <1>1, DataSplit
<1>8. Lose({f.n : f \in go})
  <2>1. Numbers(SubSeq(net, m + 1, Len(net))) = {f.n : f \in go}
    BY NumbersOfData
  <2>2. QED
    BY <2>1
<1> HIDE DEF stay, go
<1>9. DataOf(net) = DataOf(net') \cup go /\ Before(DataOf(net'), go)
  BY <1>4, <1>7
<1>10. Accounts'
  BY <1>2, <1>8, <1>9, LoseAccounts
<1>11. QED
  BY <1>3, <1>5, <1>6, <1>10 DEF IInv

LEMMA DropInv == ASSUME IInv, Drop PROVE IInv'
<1>1. PICK m \in 0 .. Len(net) :
         net' = SubSeq(net, 1, m) /\ Lose(Numbers(SubSeq(net, m + 1, Len(net))))
  BY DEF Drop
<1>2. RestOk /\ NetOk /\ used \in [Kinds -> Nat]
  BY DEF IInv, RestOk
<1>3. /\ used' \in [Kinds -> Nat] /\ used'["frames"] = used["frames"]
      /\ UNCHANGED <<bounds, version, reading, saving>>
  BY <1>2, UseType DEF Drop, Kinds
<1>4. /\ asked' \subseteq asked /\ announced' \subseteq announced /\ open' \in BOOLEAN
      /\ ~open' => asked' = {} /\ current' = {}
      /\ current' \subseteq current \cap announced'
      /\ \A i \in current', k \in DOMAIN net :
            net[k].kind = "config" /\ net[k].id = i => k <= m
  BY DEF Drop, Disconnect
<1>5. ~(dialer \in {"dial", "backoff"})
  BY <1>2 DEF Drop, NetOk
<1> DEFINE d == Frame("damaged", 0, 0, FALSE)
<1>6. d \in FrameType /\ d.kind = "damaged"
  BY <1>2 DEF Frame, FrameType, RestOk
<1> HIDE DEF d
<1>7. QED
  BY <1>1, <1>3, <1>4, <1>5, <1>6, CutInv

LEMMA CorruptInv == ASSUME IInv, Corrupt PROVE IInv'
<1> DEFINE d == Frame("damaged", 0, 0, FALSE)
           Gone(m) == SubSeq(net, m + 1, Len(net))
           Cut(m) == {f.id : f \in {g \in ToSet(Gone(m)) : g.kind = "config"}}
<1>1. RestOk /\ NetOk /\ used \in [Kinds -> Nat] /\ net \in Seq(FrameType)
      /\ Len(net) \in Nat /\ DOMAIN net = 1 .. Len(net)
  BY SeqFacts DEF IInv, RestOk, NetOk
<1>2. PICK m \in 0 .. Len(net) - 1 :
         /\ net' = Append(SubSeq(net, 1, m), d)
         /\ current' = current \ Cut(m)
         /\ Lose(Numbers(Gone(m)))
  BY DEF Corrupt
<1>3. m \in 0 .. Len(net) /\ m \in Nat /\ net # <<>>
  BY <1>1, EmptySeq
<1>4. /\ used' \in [Kinds -> Nat] /\ used'["frames"] = used["frames"]
      /\ UNCHANGED <<bounds, open, asked, announced, version, reading, saving>>
  BY <1>1, UseType DEF Corrupt, Kinds
<1>5. d \in FrameType /\ d.kind = "damaged"
  BY <1>1 DEF Frame, FrameType, RestOk
<1>6. ASSUME NEW i \in current', NEW k \in DOMAIN net,
             net[k].kind = "config", net[k].id = i, ~(k <= m)
      PROVE  FALSE
  <2>1. /\ Stretch(SubSeq(net, m + 1, Len(net)), net, m)
        /\ Len(SubSeq(net, m + 1, Len(net))) = Len(net) - m
    BY <1>1, <1>3, DataSplit
  <2>2. /\ Gone(m) \in Seq(FrameType) /\ Len(Gone(m)) = Len(net) - m
        /\ \A j \in DOMAIN Gone(m) : Gone(m)[j] = net[j + m]
    BY <2>1 DEF Stretch
  <2>3. DOMAIN Gone(m) = 1 .. Len(net) - m
    BY <2>2, SeqFacts
  <2>4. k - m \in 1 .. Len(net) - m /\ (k - m) + m = k
    BY <1>1, <1>3, <1>6
  <2> DEFINE u == Gone(m)
  <2> HIDE DEF Gone
  <2>5. u[k - m] = net[k] /\ k - m \in DOMAIN u
    BY <2>2, <2>3, <2>4
  <2> HIDE DEF u
  <2>6. net[k] \in ToSet(u)
    BY <2>5 DEF ToSet
  <2>7. i \in Cut(m)
    BY <1>6, <2>6 DEF u
  <2>8. QED
    BY <1>2, <2>7
<1> HIDE DEF d, Cut
<1>7. /\ asked' \subseteq asked /\ announced' \subseteq announced /\ open' \in BOOLEAN
      /\ ~open' => asked' = {} /\ current' = {}
      /\ current' \subseteq current \cap announced'
  BY <1>1, <1>2, <1>4 DEF RestOk, NetOk
<1>8. ~(dialer \in {"dial", "backoff"})
  BY <1>1, <1>3 DEF NetOk
<1>9. \A i \in current', k \in DOMAIN net :
         net[k].kind = "config" /\ net[k].id = i => k <= m
  BY <1>6
<1>10. QED
  BY <1>2, <1>3, <1>4, <1>5, <1>7, <1>8, <1>9, CutInv

LEMMA ReconfigureInv == ASSUME IInv, Reconfigure PROVE IInv'
<1>1. RestOk /\ NetOk /\ QueuesOk /\ BatchesOk /\ WorkerOk /\ StoredOk /\ Accounts
  BY DEF IInv
<1>2. /\ version' = version + 1 /\ current' = {}
      /\ UNCHANGED <<bounds, open, net, asked, announced, reading, saving, lost>>
  BY DEF Reconfigure
<1>3. used' \in [Kinds -> Nat] /\ used'["frames"] = used["frames"]
  BY <1>1, UseType DEF Reconfigure, Kinds, RestOk
<1>4. RestOk'
  BY <1>1, <1>2, <1>3 DEF RestOk, reading
<1>5. NetOk'
  BY <1>1, <1>2 DEF NetOk, Configured, reading
<1>6. QueuesOk' /\ BatchesOk' /\ WorkerOk' /\ StoredOk'
  BY <1>1, <1>2, Frames DEF reading, saving
<1>7. Accounts'
  BY <1>1, <1>2, <1>3, SameAccounts DEF reading
<1>8. QED
  BY <1>4, <1>5, <1>6, <1>7 DEF IInv

-----------------------------------------------------------------------------
(* dialloop, process and readFrame. *)

\* A step that only the dialer makes, to read on or while nothing is to be read.
LEMMA QuietInv ==
    ASSUME IInv, dialer' \in {"dial", "read", "skip", "backoff"},
           dialer' \in {"dial", "backoff"} => net = <<>> /\ ~open,
           UNCHANGED <<bounds, used, open, net, device, cfgs, output, saving, lost>>
    PROVE  IInv'
<1>1. RestOk /\ NetOk /\ QueuesOk /\ BatchesOk /\ WorkerOk /\ StoredOk /\ Accounts
  BY DEF IInv
<1>2. RestOk'
  BY <1>1 DEF RestOk, device
<1>3. NetOk'
  BY <1>1 DEF NetOk, Configured, device
<1>4. QueuesOk' /\ BatchesOk' /\ WorkerOk' /\ StoredOk'
  BY <1>1, Frames DEF saving
<1>5. Accounts'
  BY <1>1, SameAccounts
<1>6. QED
  BY <1>2, <1>3, <1>4, <1>5 DEF IInv

LEMMA FailInv == ASSUME IInv, Fail PROVE IInv'
BY QuietInv DEF Fail

LEMMA BackoffInv == ASSUME IInv, Backoff PROVE IInv'
<1>1. net = <<>> /\ ~open
  BY DEF IInv, NetOk, Backoff
<1>2. QED
  BY <1>1, QuietInv DEF Backoff

LEMMA LoseSyncInv == ASSUME IInv, LoseSync PROVE IInv'
BY QuietInv DEF LoseSync

\* There is nothing left of the last connection when the next one begins.
LEMMA DialInv == ASSUME IInv, Dial PROVE IInv'
<1>1. RestOk /\ NetOk /\ QueuesOk /\ BatchesOk /\ WorkerOk /\ StoredOk /\ Accounts
  BY DEF IInv
<1>2. /\ dialer = "dial" /\ dialer' = "read" /\ open' = TRUE /\ net' = <<>>
      /\ asked' = bounds.ids /\ announced' = {} /\ current' = {}
      /\ UNCHANGED <<bounds, used, version, cfgs, output, saving, lost>>
  BY DEF Dial
<1>3. bounds.ids \subseteq IdCodes
  BY <1>1, ScenariosAssumption DEF RestOk
<1>4. RestOk'
  BY <1>1, <1>2, <1>3 DEF RestOk
<1>5. NetOk'
  BY <1>2, EmptyFacts DEF NetOk
<1>6. net = <<>>
  BY <1>1, <1>2 DEF NetOk
<1>7. QueuesOk' /\ BatchesOk' /\ WorkerOk' /\ StoredOk'
  BY <1>1, <1>2, Frames DEF saving
<1>8. Accounts'
  BY <1>1, <1>2, <1>6, SameAccounts
<1>9. QED
  BY <1>4, <1>5, <1>7, <1>8 DEF IInv

\* The connection is closed, with all that is still to be read.
LEMMA HangUpInv ==
    ASSUME IInv, HangUp, cfgs' \in [IdCodes -> Nat],
           UNCHANGED <<bounds, used, version, output, saving>>
    PROVE  IInv'
<1>1. RestOk /\ NetOk /\ QueuesOk /\ BatchesOk /\ WorkerOk /\ StoredOk /\ Accounts
  BY DEF IInv
<1>2. /\ dialer' = "backoff" /\ open' = FALSE /\ net' = <<>>
      /\ asked' = {} /\ announced' = {} /\ current' = {} /\ Lose(Numbers(net))
  BY DEF HangUp, Disconnect
<1>3. RestOk'
  BY <1>1, <1>2 DEF RestOk
<1>4. NetOk'
  BY <1>2, EmptyFacts DEF NetOk
<1>5. QueuesOk' /\ BatchesOk' /\ WorkerOk' /\ StoredOk'
  BY <1>1, Frames DEF saving
<1>6. DataOf(net') = {} /\ Numbers(net) = {f.n : f \in DataOf(net)}
  BY <1>2, EmptyFacts, NumbersOfData
<1>7. Before(DataOf(net'), DataOf(net))
  BY <1>6 DEF Before
<1>8. Lose({f.n : f \in DataOf(net)})
  BY <1>2, <1>6
<1>9. DataOf(net) = DataOf(net') \cup DataOf(net)
  BY <1>6
<1>10. Accounts'
  BY <1>7, <1>8, <1>9, LoseAccounts
<1>11. QED
  BY <1>3, <1>4, <1>5, <1>10 DEF IInv

LEMMA MisfitInv == ASSUME IInv, Misfit PROVE IInv'
<1>1. HangUp /\ UNCHANGED <<bounds, used, version, cfgs, output, saving>>
  BY DEF Misfit
<1>2. cfgs' \in [IdCodes -> Nat]
  BY <1>1 DEF IInv, RestOk
<1>3. QED
  BY <1>1, <1>2, HangUpInv

LEMMA ReadUnknownInv == ASSUME IInv, ReadUnknown PROVE IInv'
<1>1. HangUp /\ UNCHANGED <<bounds, used, version, cfgs, output, saving>>
  BY DEF ReadUnknown
<1>2. cfgs' \in [IdCodes -> Nat]
  BY <1>1 DEF IInv, RestOk
<1>3. QED
  BY <1>1, <1>2, HangUpInv

\* A frame is read: where it is a configuration, that is kept.
LEMMA ReadOn ==
    ASSUME RestOk, NetOk, net # <<>>, net' = Tail(net), dialer' \in {"read", "skip"},
           \/ Head(net).kind # "config" /\ cfgs' = cfgs
           \/ /\ Head(net).kind = "config"
              /\ cfgs' = [cfgs EXCEPT ![Head(net).id] = Head(net).of],
           UNCHANGED <<open, asked, current, version>>
    PROVE  NetOk'
<1>1. net \in Seq(FrameType) /\ Increasing(net) /\ cfgs \in [IdCodes -> Nat]
  BY DEF NetOk, RestOk
<1>2. /\ Stretch(Tail(net), net, 1) /\ Len(Tail(net)) = Len(net) - 1
      /\ \A k \in DOMAIN Tail(net) : Tail(net)[k] = net[k + 1]
      /\ Head(net) = net[1]
  BY <1>1, Tails
<1>3. /\ DOMAIN net = 1 .. Len(net) /\ Len(net) \in Nat /\ 1 \in DOMAIN net
      /\ net' \in Seq(FrameType) /\ DOMAIN net' = 1 .. Len(net) - 1
      /\ Len(net') = Len(net) - 1
  BY <1>1, <1>2, SeqFacts DEF Stretch
<1>4. \A k \in DOMAIN net' : k + 1 \in DOMAIN net /\ net'[k] = net[k + 1]
  BY <1>2, <1>3
<1>5. Increasing(net')
  BY <1>1, <1>2, StretchOf
<1>6. net[1].kind = "config" => net[1].id \in IdCodes
  BY <1>3 DEF NetOk
<1>7. ASSUME NEW i \in IdCodes, NEW k \in Nat \ {0}, NEW v, Configured(i, k + 1, v)
      PROVE  Configured(i, k, v)'
  <2>1. \A j \in DOMAIN net : j < k + 1 /\ net[j].kind = "config" /\ net[j].id = i
                                => net[j].of = v
    BY <1>7 DEF Configured
  <2>2. ASSUME NEW j \in DOMAIN net', j < k, net'[j].kind = "config", net'[j].id = i
        PROVE  net'[j].of = v
    <3>1. j + 1 \in DOMAIN net /\ j + 1 < k + 1 /\ net'[j] = net[j + 1]
      BY <1>3, <1>4, <2>2
    <3>2. QED
      BY <2>1, <2>2, <3>1
  <2>3. CASE net[1].kind = "config" /\ net[1].id = i
    <3>1. 1 < k + 1
      OBVIOUS
    <3>2. net[1].of = v
      BY <1>3, <2>1, <2>3, <3>1
    <3>3. cfgs'[i] = v
      BY <1>1, <1>2, <2>3, <3>2
    <3>4. QED
      BY <2>2, <3>3 DEF Configured
  <2>4. CASE ~(net[1].kind = "config" /\ net[1].id = i)
    <3>1. cfgs'[i] = cfgs[i]
      BY <1>1, <1>2, <2>4
    <3>2. CASE cfgs[i] = v
      BY <2>2, <3>1, <3>2 DEF Configured
    <3>3. ASSUME NEW j \in DOMAIN net, j < k + 1, net[j].kind = "config", net[j].id = i
          PROVE  \E h \in DOMAIN net' : h < k /\ net'[h].kind = "config" /\ net'[h].id = i
      <4>1. j # 1
        BY <2>4, <3>3
      <4>2. j - 1 \in DOMAIN net' /\ j - 1 < k /\ j - 1 + 1 = j
        BY <1>3, <3>3, <4>1
      <4>3. net'[j - 1] = net[j]
        BY <1>4, <4>2
      <4>4. QED
        BY <3>3, <4>2, <4>3
    <3>4. \/ cfgs[i] = v
          \/ \E j \in DOMAIN net : j < k + 1 /\ net[j].kind = "config" /\ net[j].id = i
      BY <1>7 DEF Configured
    <3>5. QED
      BY <2>2, <3>2, <3>3, <3>4 DEF Configured
  <2>5. QED
    BY <2>3, <2>4
<1>8. ASSUME NEW k \in DOMAIN net', net'[k].kind = "data", net'[k].sure
      PROVE  Configured(net[k].id, k, net[k].of)'
  <2>1. /\ k + 1 \in DOMAIN net /\ net[k + 1].kind = "data" /\ net[k + 1].sure
        /\ k \in Nat \ {0} /\ net'[k] = net[k + 1]
    BY <1>3, <1>4, <1>8
  <2>2. net[k + 1].id \in IdCodes /\ Configured(net[k + 1].id, k + 1, net[k + 1].of)
    BY <2>1 DEF NetOk
  <2>3. QED
    BY <1>7, <2>1, <2>2
<1>9. ASSUME NEW i \in current'
      PROVE  Configured(i, Len(net) + 1, version)'
  <2>1. i \in IdCodes /\ Configured(i, Len(net) + 1, version)
    BY DEF NetOk, RestOk
  <2>2. Len(net) \in Nat \ {0} /\ Len(net') + 1 = Len(net)
    BY <1>3
  <2> DEFINE l == Len(net)
  <2>3. Configured(i, l + 1, version) /\ l \in Nat \ {0}
    BY <2>1, <2>2
  <2>4. ASSUME NEW k, k = l
        PROVE  Configured(i, k, version)'
    BY <1>7, <2>1, <2>3, <2>4
  <2>5. QED
    BY <2>2, <2>4
<1>10. \A k \in DOMAIN net' : /\ net'[k].kind \in {"config", "data"} => net'[k].id \in IdCodes
                              /\ net'[k].kind = "config" => net'[k].id \notin asked'
  BY <1>4 DEF NetOk
<1>11. QED
  BY <1>3, <1>5, <1>8, <1>9, <1>10 DEF NetOk

\* A frame that is no data is taken off, or nothing is.
LEMMA SkipInv ==
    ASSUME IInv, net # <<>>, Head(net).kind # "data", net' = Tail(net),
           dialer' \in {"read", "skip"},
           \/ Head(net).kind # "config" /\ cfgs' = cfgs
           \/ /\ Head(net).kind = "config"
              /\ cfgs' = [cfgs EXCEPT ![Head(net).id] = Head(net).of],
           UNCHANGED <<bounds, used, open, device, output, saving, lost>>
    PROVE  IInv'
<1>1. RestOk /\ NetOk /\ QueuesOk /\ BatchesOk /\ WorkerOk /\ StoredOk /\ Accounts
  BY DEF IInv
<1>2. net \in Seq(FrameType) /\ cfgs \in [IdCodes -> Nat] /\ Head(net).of \in Nat
  <2>1. net \in Seq(FrameType) /\ cfgs \in [IdCodes -> Nat]
    BY <1>1 DEF NetOk, RestOk
  <2>2. Head(net) \in FrameType
    BY <2>1, Tails
  <2>3. QED
    BY <2>1, <2>2 DEF FrameType
<1>3. cfgs' \in [IdCodes -> Nat]
  BY <1>2
<1>4. RestOk'
  BY <1>1, <1>3 DEF RestOk, device
<1>5. NetOk'
  BY <1>1, ReadOn DEF device
<1>6. QueuesOk' /\ BatchesOk' /\ WorkerOk' /\ StoredOk'
  BY <1>1, Frames DEF saving
<1>7. DataOf(net) = DataOf(Tail(net)) \cup (IF Head(net).kind = "data" THEN {Head(net)} ELSE {})
  BY <1>2, DataTail
<1>8. DataOf(net') = DataOf(net)
  BY <1>7
<1>9. Accounts'
  BY <1>1, <1>8, SameAccounts
<1>10. QED
  BY <1>4, <1>5, <1>6, <1>9 DEF IInv

LEMMA ReadDamagedInv == ASSUME IInv, ReadDamaged PROVE IInv'
BY SkipInv DEF ReadDamaged, Reading, reading

LEMMA ResyncInv == ASSUME IInv, Resync PROVE IInv'
<1>1. CASE Head(net).kind = "junk"
  BY <1>1, SkipInv DEF Resync
<1>2. CASE Head(net).kind # "junk"
  BY <1>2, QuietInv DEF Resync
<1>3. QED
  BY <1>1, <1>2

LEMMA ReadConfigInv == ASSUME IInv, ReadConfig PROVE IInv'
<1>1. /\ dialer = "read" /\ net # <<>> /\ Head(net).kind = "config"
      /\ cfgs' = [cfgs EXCEPT ![Head(net).id] = Head(net).of]
      /\ UNCHANGED <<bounds, used, output, saving>>
  BY DEF ReadConfig, Reading
<1>2. CASE net' = Tail(net) /\ UNCHANGED <<open, device, dialer, lost>>
  BY <1>1, <1>2, SkipInv
<1>3. CASE HangUp /\ UNCHANGED version
  <2>1. net \in Seq(FrameType) /\ cfgs \in [IdCodes -> Nat]
    BY DEF IInv, NetOk, RestOk
  <2>2. Head(net).of \in Nat
    BY <1>1, <2>1, Tails DEF FrameType
  <2>3. cfgs' \in [IdCodes -> Nat]
    BY <1>1, <2>1, <2>2
  <2>4. QED
    BY <1>1, <1>3, <2>3, HangUpInv
<1>4. QED
  BY <1>2, <1>3 DEF ReadConfig

\* Frames get from a place to the next, where the parts keep their shape.
LEMMA PassInv ==
    ASSUME IInv, RestOk', NetOk', QueuesOk', BatchesOk', WorkerOk', StoredOk',
           lost' = lost, used'["frames"] = used["frames"],
           NEW m, NEW from, NEW M, \A s \in Streams : Moved(At(s), At(s)', m, from, M)
    PROVE  IInv'
<1>1. Accounts
  BY DEF IInv
<1>2. ASSUME NEW s \in Streams
      PROVE  Account(At(s)', lost[s], used["frames"])
  <2>1. Account(At(s), lost[s], used["frames"])
    BY <1>1 DEF Accounts
  <2>2. At(s)' \in [Places -> SUBSET FrameType]
    BY PlacesType
  <2>3. QED
    BY <2>1, <2>2, Moves
<1>3. Accounts'
  <2>1. lost' \in [Streams -> SUBSET Nat]
    BY <1>1 DEF Accounts
  <2>2. \A s \in Streams : Account(At(s)', lost'[s], used'["frames"])
    BY <1>2
  <2>3. QED
    BY <2>1, <2>2 DEF Accounts
<1>4. QED
  BY <1>3 DEF IInv

\* What a data frame is decoded with when it is reached.
LEMMA HeadData ==
    ASSUME RestOk, NetOk, Reading("data")
    PROVE  LET f == Head(net)
               g == [f EXCEPT !.as = cfgs[f.id]]
           IN  /\ f \in FrameType /\ f.id \in IdCodes /\ f.kind = "data"
               /\ g \in FrameType /\ g.kind = "data" /\ g.id = f.id /\ g.n = f.n
               /\ Right(g)
               /\ DataOf(net) = DataOf(Tail(net)) \cup {f}
               /\ Before({f}, DataOf(Tail(net)))
<1> DEFINE f == Head(net)
           g == [f EXCEPT !.as = cfgs[f.id]]
<1>1. net \in Seq(FrameType) /\ Increasing(net) /\ net # <<>> /\ cfgs \in [IdCodes -> Nat]
  BY DEF NetOk, RestOk, Reading
<1>2. /\ f = net[1] /\ f \in FrameType /\ f.kind = "data"
      /\ DOMAIN net = 1 .. Len(net) /\ Len(net) \in Nat /\ 1 \in DOMAIN net
  BY <1>1, Tails, SeqFacts DEF Reading
<1>3. f.id \in IdCodes /\ (f.sure => Configured(f.id, 1, f.of))
  BY <1>2 DEF NetOk
<1>4. f.sure => cfgs[f.id] = f.of
  <2>1. ~ \E j \in DOMAIN net : j < 1
    BY <1>2
  <2>2. QED
    BY <1>3, <2>1 DEF Configured
<1>5. /\ g \in FrameType /\ g.kind = f.kind /\ g.id = f.id /\ g.n = f.n
      /\ g.as = cfgs[f.id] /\ g.of = f.of /\ g.sure = f.sure
  <2>1. cfgs[f.id] \in Nat
    BY <1>1, <1>3
  <2>2. QED
    BY <1>2, <2>1 DEF FrameType
<1>6. DataOf(net) = DataOf(Tail(net)) \cup {f} /\ Before({f}, DataOf(Tail(net)))
  BY <1>1, <1>2, DataTail
<1>7. Right(g)
  BY <1>4, <1>5 DEF Right
<1>8. QED
  BY <1>2, <1>3, <1>5, <1>6, <1>7

LEMMA ReadDataInv == ASSUME IInv, ReadData PROVE IInv'
<1> DEFINE f == Head(net)
           g == [f EXCEPT !.as = cfgs[f.id]]
<1>1. RestOk /\ NetOk /\ QueuesOk /\ BatchesOk /\ WorkerOk /\ StoredOk /\ Accounts
  BY DEF IInv
<1>2. /\ Reading("data") /\ net' = Tail(net)
      /\ UNCHANGED <<bounds, used, open, device, dialer, cfgs, saving>>
  BY DEF ReadData
<1>3. /\ f \in FrameType /\ f.id \in IdCodes /\ f.kind = "data"
      /\ g \in FrameType /\ g.kind = "data" /\ g.id = f.id /\ g.n = f.n /\ Right(g)
      /\ DataOf(net) = DataOf(Tail(net)) \cup {f}
      /\ Before({f}, DataOf(Tail(net)))
  BY <1>1, <1>2, HeadData
<1>4. \/ Lose({f.n}) /\ UNCHANGED output
      \/ /\ Len(output[f.id]) # QueueSize /\ lost' = lost
         /\ output' = [output EXCEPT ![f.id] = Append(@, g)]
  BY DEF ReadData
<1> HIDE DEF f, g
<1>5. RestOk'
  BY <1>1, <1>2 DEF RestOk, device
<1>6. NetOk'
  <2>1. dialer = "read" /\ net # <<>> /\ Head(net).kind # "config"
    BY <1>2 DEF Reading
  <2>2. QED
    BY <1>1, <1>2, <2>1, ReadOn DEF device
<1>7. BatchesOk' /\ WorkerOk' /\ StoredOk'
  BY <1>1, <1>2, Frames DEF saving
<1>8. CASE Lose({f.n}) /\ UNCHANGED output
  <2>1. Lose({h.n : h \in {f}})
    <3>1. {h.n : h \in {f}} = {f.n}
      OBVIOUS
    <3>2. QED
      BY <1>8, <3>1
  <2>2. DataOf(net) = DataOf(net') \cup {f} /\ Before({f}, DataOf(net'))
    BY <1>2, <1>3
  <2>3. Accounts'
    BY <1>2, <1>8, <2>1, <2>2, LoseAccounts
  <2>4. QueuesOk'
    BY <1>1, <1>8, Frames
  <2>5. QED
    BY <1>5, <1>6, <1>7, <2>3, <2>4 DEF IInv
<1>9. CASE /\ Len(output[f.id]) # QueueSize /\ lost' = lost
           /\ output' = [output EXCEPT ![f.id] = Append(@, g)]
  <2> DEFINE o == output[f.id]
  <2>1. /\ o \in Seq(FrameType) /\ OfId(o, f.id) /\ Increasing(o)
        /\ Len(o) <= QueueSize /\ Len(o) \in Nat /\ QueueSize \in Nat
        /\ output \in [IdCodes -> Seq(FrameType)]
    BY <1>1, <1>3, SeqFacts, SizesAssumption DEF QueuesOk, SequenceOk
  <2>2. Before(DataOf(o), {g})
    <3> DEFINE s == "STAT"
    <3>1. /\ s \in Streams /\ 4 \in Places /\ 5 \in Places
          /\ At(s)[4] = InQueues /\ At(s)[5] = DataOf(net)
      BY AtFacts DEF Streams
    <3> HIDE DEF s
    <3>2. Account(At(s), lost[s], used["frames"])
      BY <1>1, <3>1 DEF Accounts
    <3>3. Before(InQueues, DataOf(net))
      BY <3>1, <3>2 DEF Account
    <3>4. DataOf(o) \subseteq InQueues
      BY <1>3 DEF InQueues
    <3>5. QED
      BY <1>3, <3>3, <3>4 DEF Before
  <2> DEFINE new == Append(o, g)
  <2>3. /\ new \in Seq(FrameType) /\ Len(new) = Len(o) + 1 /\ Increasing(new)
        /\ DataOf(new) = DataOf(o) \cup {g}
        /\ DOMAIN new = DOMAIN o \cup {Len(o) + 1}
        /\ \A k \in DOMAIN o : new[k] = o[k]
        /\ new[Len(o) + 1] = g
    BY <1>3, <2>1, <2>2, DataAppend
  <2>4. output' = [output EXCEPT ![f.id] = new]
    BY <1>9
  <2> HIDE DEF new
  <2>5. OfId(new, f.id)
    BY <1>3, <2>1, <2>3 DEF OfId
  <2>6. Len(new) <= QueueSize
    BY <1>9, <2>1, <2>3
  <2>7. output' \in [IdCodes -> Seq(FrameType)]
        /\ \A i \in IdCodes : output'[i] = IF i = f.id THEN new ELSE output[i]
    BY <1>3, <2>1, <2>3, <2>4
  <2>8. QueuesOk'
    BY <1>1, <2>3, <2>5, <2>6, <2>7 DEF QueuesOk, SequenceOk
  <2>9. InQueues' = InQueues \cup {g}
    <3>1. \A i \in IdCodes : DataOf(output'[i])
                             = IF i = f.id THEN DataOf(o) \cup {g} ELSE DataOf(output[i])
      BY <2>3, <2>7
    <3>2. QED
      BY <1>3, <3>1 DEF InQueues
  <2>10. ASSUME NEW s \in Streams
         PROVE  Moved(At(s), At(s)', 4, 5, {g})
    <3>1. stored' = stored /\ InWorker(s)' = InWorker(s) /\ InBatches' = InBatches
      BY <1>2 DEF InWorker, InBatches, saving
    <3>2. /\ At(s)'[4] = At(s)[4] \cup {g} /\ At(s)'[5] = DataOf(Tail(net))
          /\ At(s)[5] = DataOf(Tail(net)) \cup {f}
      BY <1>2, <1>3, <2>9, AtFacts
    <3>3. \A j \in Places \ {4, 5} : At(s)'[j] = At(s)[j]
      BY <3>1, AtFacts
    <3>4. Before({g}, DataOf(Tail(net)))
      BY <1>3 DEF Before
    <3>5. /\ 5 = 4 + 1 /\ 4 \in 1 .. 4
          /\ \A h \in {g} : \E x \in At(s)[5] : x.n = h.n /\ x.id = h.id
          /\ \A x \in At(s)[5] : x \in At(s)'[5] \/ \E h \in {g} : h.n = x.n
          /\ At(s)'[5] \subseteq At(s)[5] /\ Before({g}, At(s)'[5])
      BY <1>3, <3>2, <3>4
    <3>6. QED
      BY <3>2, <3>3, <3>5 DEF Moved
  <2>11. used'["frames"] = used["frames"] /\ lost' = lost
    BY <1>2, <1>9
  <2>12. QED
    BY <1>5, <1>6, <1>7, <2>8, <2>10, <2>11, PassInv
<1>10. QED
  BY <1>4, <1>8, <1>9

LEMMA ReadFrameInv == ASSUME IInv, ReadFrame PROVE IInv'
BY ReadConfigInv, ReadDataInv, MisfitInv, ReadDamagedInv, ReadUnknownInv, LoseSyncInv,
   ResyncInv DEF ReadFrame

-----------------------------------------------------------------------------
(* The process loop and the inserter's worker. *)

\* A step of the consumer that leaves its batches alone.
LEMMA TurnInv ==
    ASSUME IInv, BatchesOk', InBatches' = InBatches,
           UNCHANGED <<bounds, used, open, net, device, reading, worker, due, stored, lost>>
    PROVE  IInv'
<1>1. RestOk /\ NetOk /\ QueuesOk /\ BatchesOk /\ WorkerOk /\ StoredOk /\ Accounts
  BY DEF IInv
<1>2. RestOk'
  BY <1>1 DEF RestOk, device, reading
<1>3. NetOk'
  BY <1>1, Frames DEF device, reading
<1>4. QueuesOk' /\ WorkerOk' /\ StoredOk'
  BY <1>1, Frames DEF reading
<1>5. ASSUME NEW s \in Streams
      PROVE  At(s)' = At(s)
  BY DEF At, InWorker, InQueues, reading
<1>6. Accounts'
  BY <1>1, <1>5 DEF Accounts
<1>7. QED
  BY <1>2, <1>3, <1>4, <1>6 DEF IInv

LEMMA WakeInv == ASSUME IInv, Wake PROVE IInv'
<1>1. BatchesOk /\ consumer.pc = "sleep" /\ consumer.batch = {}
  BY DEF IInv, Wake, BatchesOk
<1>2. bounds.ids \subseteq IdCodes
  BY ScenariosAssumption DEF IInv, RestOk
<1>3. consumer' = [pc |-> "drain", todo |-> bounds.ids, batch |-> {}, drained |-> TRUE]
  BY DEF Wake
<1>4. BatchesOk'
  BY <1>2, <1>3 DEF BatchesOk
<1>5. InBatches' = InBatches
  BY <1>1, <1>3 DEF InBatches
<1>6. QED
  BY <1>4, <1>5, TurnInv DEF Wake

LEMMA DoneInv == ASSUME IInv, Done PROVE IInv'
<1>1. BatchesOk /\ consumer.batch = {}
  BY DEF IInv, Done
<1>2. bounds.ids \subseteq IdCodes
  BY ScenariosAssumption DEF IInv, RestOk
<1>3. /\ consumer' \in [pc : {"sleep", "drain", "hand"}, todo : SUBSET IdCodes,
                        batch : SUBSET Seq(FrameType), drained : BOOLEAN]
      /\ consumer'.batch = {}
  <2>1. CASE consumer' = Sleeping
    BY <2>1 DEF Sleeping
  <2>2. CASE consumer' = [consumer EXCEPT !.pc = "drain", !.todo = bounds.ids,
                                          !.drained = TRUE]
    BY <1>1, <1>2, <2>2 DEF BatchesOk
  <2>3. QED
    BY <2>1, <2>2 DEF Done
<1>4. BatchesOk'
  BY <1>3 DEF BatchesOk
<1>5. InBatches' = InBatches
  BY <1>1, <1>3 DEF InBatches
<1>6. QED
  BY <1>4, <1>5, TurnInv DEF Done

\* How many frames GetBatch takes from a queue.
LEMMA BatchIs ==
    ASSUME NEW i \in IdCodes, output[i] \in Seq(FrameType)
    PROVE  \E m \in 0 .. Len(output[i]) :
              /\ Batch(i) = SubSeq(output[i], 1, m) /\ Len(Batch(i)) = m
<1> DEFINE S == {Len(output[i]), MaxBatch}
           m == Min(S)
<1>1. Len(output[i]) \in Nat /\ MaxBatch \in Nat
  BY SeqFacts, SizesAssumption
<1>2. \E x \in S : \A y \in S : x =< y
  <2>1. CASE Len(output[i]) =< MaxBatch
    BY <1>1, <2>1
  <2>2. CASE MaxBatch =< Len(output[i])
    BY <1>1, <2>2
  <2>3. QED
    BY <1>1, <2>1, <2>2
<1>3. m \in S /\ \A y \in S : m =< y
  <2> HIDE DEF S
  <2>1. QED
    BY <1>2 DEF Min
<1>4. m \in 0 .. Len(output[i])
  <2> HIDE DEF m
  <2>1. m \in Nat /\ m =< Len(output[i])
    BY <1>1, <1>3
  <2>2. QED
    BY <1>1, <2>1
<1>5. Batch(i) = SubSeq(output[i], 1, m)
  BY DEF Batch
<1> HIDE DEF m
<1>6. Len(SubSeq(output[i], 1, m)) = m
  BY <1>4, DataSplit
<1>7. QED
  BY <1>4, <1>5, <1>6

LEMMA DrainInv == ASSUME IInv, NEW i \in IdCodes, Drain(i) PROVE IInv'
<1>1. RestOk /\ NetOk /\ QueuesOk /\ BatchesOk /\ WorkerOk /\ StoredOk /\ Accounts
  BY DEF IInv
<1> DEFINE o == output[i]
<1>2. /\ o \in Seq(FrameType) /\ OfId(o, i) /\ Increasing(o)
      /\ Len(o) <= QueueSize /\ Len(o) \in Nat
      /\ output \in [IdCodes -> Seq(FrameType)]
  BY <1>1, SeqFacts DEF QueuesOk, SequenceOk
<1>3. PICK m \in 0 .. Len(o) : Batch(i) = SubSeq(o, 1, m) /\ Len(Batch(i)) = m
  BY <1>2, BatchIs
<1> DEFINE b == SubSeq(o, 1, m)
           r == SubSeq(o, m + 1, Len(o))
<1>4. /\ Stretch(b, o, 0) /\ Stretch(r, o, m) /\ Len(r) = Len(o) - m /\ Len(b) = m
      /\ DataOf(o) = DataOf(b) \cup DataOf(r) /\ Before(DataOf(b), DataOf(r))
  BY <1>2, <1>3, DataSplit
<1>5. /\ consumer.pc = "drain" /\ i \in consumer.todo
      /\ output' = [output EXCEPT ![i] = r]
      /\ consumer' = [consumer EXCEPT
                         !.todo = consumer.todo \ {i},
                         !.batch = (consumer.batch \cup {b}) \ {<<>>},
                         !.drained = consumer.drained /\ m < MaxBatch,
                         !.pc = IF consumer.todo = {i} THEN "hand" ELSE consumer.pc]
      /\ UNCHANGED <<bounds, used, open, net, device, dialer, cfgs>>
      /\ UNCHANGED <<worker, due, stored, lost>>
  BY <1>3 DEF Drain
<1> HIDE DEF b, r
<1>6. /\ b \in Seq(FrameType) /\ OfId(b, i) /\ Increasing(b)
      /\ r \in Seq(FrameType) /\ OfId(r, i) /\ Increasing(r)
      /\ Len(r) <= QueueSize
  <2>1. m \in Nat /\ 0 \in Nat /\ Len(o) - m <= Len(o) /\ QueueSize \in Nat
    BY <1>2, <1>3, SizesAssumption
  <2>2. b \in Seq(FrameType) /\ r \in Seq(FrameType)
    BY <1>4 DEF Stretch
  <2>3. /\ OfId(b, i) /\ Increasing(b) /\ OfId(r, i) /\ Increasing(r)
    BY <1>2, <1>4, <2>1, StretchOf
  <2>4. Len(r) <= QueueSize
    BY <1>2, <1>3, <1>4, <2>1
  <2>5. QED
    BY <2>2, <2>3, <2>4
<1>7. RestOk' /\ NetOk' /\ WorkerOk' /\ StoredOk'
  <2>1. RestOk'
    BY <1>1, <1>5 DEF RestOk, device
  <2>2. QED
    BY <1>1, <1>5, <2>1, Frames DEF device
<1>8. /\ output' \in [IdCodes -> Seq(FrameType)]
      /\ \A k \in IdCodes : output'[k] = IF k = i THEN r ELSE output[k]
  BY <1>2, <1>5, <1>6
<1>9. QueuesOk'
  BY <1>1, <1>6, <1>8 DEF QueuesOk, SequenceOk
<1>10. /\ consumer \in [pc : {"sleep", "drain", "hand"}, todo : SUBSET IdCodes,
                        batch : SUBSET Seq(FrameType), drained : BOOLEAN]
       /\ \A c \in consumer.batch :
             /\ c # <<>> /\ Increasing(c)
             /\ c[1].id \in IdCodes \ consumer.todo /\ OfId(c, c[1].id)
       /\ \A c, e \in consumer.batch : c[1].id = e[1].id => c = e
  BY <1>1 DEF BatchesOk
<1>11. /\ consumer'.todo = consumer.todo \ {i}
       /\ consumer'.batch = (consumer.batch \cup {b}) \ {<<>>}
       /\ consumer'.pc \in {"drain", "hand"}
       /\ consumer' \in [pc : {"sleep", "drain", "hand"}, todo : SUBSET IdCodes,
                         batch : SUBSET Seq(FrameType), drained : BOOLEAN]
  <2>1. (consumer.batch \cup {b}) \ {<<>>} \in SUBSET Seq(FrameType)
    BY <1>6, <1>10
  <2>2. (consumer.drained /\ m < MaxBatch) \in BOOLEAN
    <3>1. consumer.drained \in BOOLEAN
      BY <1>10
    <3>2. (m < MaxBatch) \in BOOLEAN
      BY <1>2, <1>3, SizesAssumption
    <3>3. QED
      BY <3>1, <3>2
  <2>3. (IF consumer.todo = {i} THEN "hand" ELSE consumer.pc) \in {"drain", "hand"}
    BY <1>5
  <2>4. QED
    BY <1>5, <1>10, <2>1, <2>2, <2>3
<1>12. b # <<>> => b[1].id = i
  BY <1>6, SeqFacts DEF OfId
<1>13. BatchesOk'
  <2>1. \A c \in consumer'.batch : c \in consumer.batch \/ (c = b /\ b # <<>>)
    BY <1>11
  <2>2. consumer'.pc # "sleep"
    BY <1>11
  <2>3. ASSUME NEW c \in consumer'.batch
        PROVE  /\ c # <<>> /\ Increasing(c)
               /\ c[1].id \in IdCodes \ consumer'.todo /\ OfId(c, c[1].id)
    <3>1. CASE c \in consumer.batch
      BY <1>10, <1>11, <3>1
    <3>2. CASE c = b /\ b # <<>>
      BY <1>6, <1>11, <1>12, <3>2
    <3>3. QED
      BY <2>1, <3>1, <3>2
  <2>4. \A c \in consumer.batch : c[1].id # i
    BY <1>5, <1>10
  <2>5. ASSUME NEW c \in consumer'.batch, NEW e \in consumer'.batch, c[1].id = e[1].id
        PROVE  c = e
    BY <1>10, <1>12, <2>1, <2>4, <2>5
  <2>6. QED
    BY <1>11, <2>2, <2>3, <2>5 DEF BatchesOk
<1>14. InBatches' = InBatches \cup DataOf(b)
  <2>1. b = <<>> => DataOf(b) = {}
    BY EmptyFacts
  <2>2. \A c \in consumer.batch : c # <<>>
    BY <1>10
  <2>3. QED
    BY <1>11, <2>1, <2>2 DEF InBatches
<1>15. InQueues' \subseteq InQueues /\ InQueues \subseteq InQueues' \cup DataOf(b)
       /\ DataOf(b) \subseteq InQueues
  <2>1. \A k \in IdCodes : /\ DataOf(output'[k]) \subseteq DataOf(output[k])
                           /\ DataOf(output[k]) \subseteq DataOf(output'[k]) \cup DataOf(b)
    BY <1>4, <1>8
  <2>2. DataOf(b) \subseteq DataOf(output[i])
    BY <1>4
  <2>3. QED
    BY <2>1, <2>2 DEF InQueues
<1>16. Before(DataOf(b), InQueues')
  <2> SUFFICES ASSUME NEW f \in DataOf(b), NEW k \in IdCodes, NEW g \in DataOf(output'[k]),
                      f.id = g.id
               PROVE  f.n < g.n
    BY DEF Before, InQueues
  <2>1. f.id = i
    BY <1>6 DEF DataOf, ToSet, OfId
  <2>2. OfId(output'[k], k)
    BY <1>9 DEF QueuesOk, SequenceOk
  <2>3. g.id = k
    BY <2>2 DEF DataOf, ToSet, OfId
  <2>4. g \in DataOf(r)
    BY <1>8, <2>1, <2>3
  <2>5. QED
    BY <1>4, <2>4 DEF Before
<1>17. ASSUME NEW s \in Streams
       PROVE  Moved(At(s), At(s)', 3, 4, DataOf(b))
  <2>1. stored' = stored /\ InWorker(s)' = InWorker(s) /\ net' = net
    BY <1>5 DEF InWorker
  <2>2. \A j \in Places \ {3, 4} : At(s)'[j] = At(s)[j]
    BY <2>1, AtFacts
  <2>3. /\ At(s)'[3] = At(s)[3] \cup DataOf(b) /\ At(s)'[4] \subseteq At(s)[4]
        /\ \A f \in DataOf(b) : \E g \in At(s)[4] : g.n = f.n /\ g.id = f.id
        /\ \A g \in At(s)[4] : g \in At(s)'[4] \/ \E f \in DataOf(b) : f.n = g.n
        /\ Before(DataOf(b), At(s)'[4])
    BY <1>14, <1>15, <1>16, AtFacts
  <2>4. 4 = 3 + 1 /\ 3 \in 1 .. 4
    OBVIOUS
  <2>5. QED
    BY <2>2, <2>3, <2>4 DEF Moved
<1>18. used'["frames"] = used["frames"] /\ lost' = lost
  BY <1>5
<1>19. QED
  BY <1>7, <1>9, <1>13, <1>17, <1>18, PassInv

\* Of a batch at the worker a stream will lack what it has no point of.
LEMMA HandAccount ==
    ASSUME NEW s \in Streams, NEW b \in Seq(FrameType), NEW i, OfId(b, i), Increasing(b),
           NEW top, Account(At(s), lost[s], top), At(s) \in [Places -> SUBSET FrameType],
           At(s)[2] = {}, At(s)[3] = At(s)'[3] \cup DataOf(b),
           Before(DataOf(b), At(s)'[3]), At(s)'[2] = Carried(s, b),
           \A j \in {1, 4, 5} : At(s)'[j] = At(s)[j],
           At(s)' \in [Places -> SUBSET FrameType]
    PROVE  Account(At(s)', lost[s] \cup {f.n : f \in ToSet(b) \ Carried(s, b)}, top)
<1> DEFINE at == At(s)
           after == At(s)'
           M == DataOf(b)
           mid == [j \in Places |-> IF j = 2 THEN M ELSE after[j]]
           C == Carried(s, b)
           more == {f.n : f \in M \ C}
<1>1. Places = {1, 2, 3, 4, 5} /\ M = ToSet(b) /\ C \subseteq M /\ M \subseteq FrameType
  BY AlongFacts, CarriedFacts
<1>2. \A f \in M, g \in M : f.n = g.n => f = g
  <2>1. \A f \in ToSet(b), g \in ToSet(b) : f.n = g.n => f = g
    BY Alone
  <2>2. QED
    BY <1>1, <2>1
<1>3. /\ Account(at, lost[s], top) /\ at \in [Places -> SUBSET FrameType]
      /\ after \in [Places -> SUBSET FrameType]
      /\ at[2] = {} /\ at[3] = after[3] \cup M /\ Before(M, after[3]) /\ after[2] = C
      /\ after[1] = at[1] /\ after[4] = at[4] /\ after[5] = at[5]
  OBVIOUS
<1> HIDE DEF at, after, M, C
<1>4. /\ mid \in [Places -> SUBSET FrameType]
      /\ \A j \in Places : mid[j] = IF j = 2 THEN M ELSE after[j]
  BY <1>1, <1>3
<1> HIDE DEF mid
<1>5. Moved(at, mid, 2, 3, M)
  <2>1. /\ mid[2] = at[2] \cup M /\ mid[3] = after[3]
        /\ mid[1] = at[1] /\ mid[4] = at[4] /\ mid[5] = at[5]
    BY <1>1, <1>3, <1>4
  <2>2. /\ \A j \in Places \ {2, 3} : mid[j] = at[j]
        /\ mid[3] \subseteq at[3] /\ Before(M, mid[3])
        /\ \A f \in M : \E g \in at[3] : g.n = f.n /\ g.id = f.id
        /\ \A g \in at[3] : g \in mid[3] \/ \E f \in M : f.n = g.n
    BY <1>1, <1>3, <2>1
  <2>3. 3 = 2 + 1 /\ 2 \in 1 .. 4
    OBVIOUS
  <2>4. QED
    BY <2>1, <2>2, <2>3 DEF Moved
<1>6. Account(mid, lost[s], top)
  BY <1>3, <1>4, <1>5, Moves
<1>7. \A j \in Places : after[j] \subseteq mid[j]
  BY <1>1, <1>3, <1>4
<1>8. \A j \in Places : \A f \in mid[j] : f \in after[j] \/ f.n \in more
  BY <1>3, <1>4
<1>9. more \subseteq 1 .. top
  <2>1. 2 \in Places /\ mid[2] = M
    BY <1>1, <1>4
  <2>2. \A f \in M : f.n \in 1 .. top
    BY <1>6, <2>1 DEF Account
  <2>3. QED
    BY <2>2
<1>10. ASSUME NEW j \in Places, NEW f \in after[j], NEW g \in M \ C
       PROVE  f.n # g.n
  <2>1. f \in mid[j] /\ g \in mid[2] /\ 2 \in Places
    BY <1>1, <1>4, <1>7
  <2>2. CASE j # 2
    BY <1>6, <2>1, <2>2, Apart
  <2>3. CASE j = 2
    BY <1>1, <1>2, <1>3, <1>10, <2>3
  <2>4. QED
    BY <2>2, <2>3
<1>11. \A j \in Places : \A f \in after[j] : f.n \notin more
  BY <1>10
<1>12. {f.n : f \in ToSet(b) \ C} = more
  BY <1>1
<1> HIDE DEF more
<1>13. Account(after, lost[s] \cup more, top)
  BY <1>3, <1>6, <1>7, <1>8, <1>9, <1>11, Goes
<1>14. QED
  BY <1>12, <1>13 DEF after, C

LEMMA HandInv == ASSUME IInv, Hand PROVE IInv'
<1>1. RestOk /\ NetOk /\ QueuesOk /\ BatchesOk /\ WorkerOk /\ StoredOk /\ Accounts
  BY DEF IInv
<1>2. PICK b \in consumer.batch :
         /\ worker' = b /\ due' = {s \in Streams : Carried(s, b) # {}}
         /\ lost' = [s \in Streams |->
                        lost[s] \cup {f.n : f \in ToSet(b) \ Carried(s, b)}]
         /\ consumer' = [consumer EXCEPT !.batch = consumer.batch \ {b}]
  BY DEF Hand
<1>3. /\ worker = <<>> /\ consumer.pc = "hand"
      /\ UNCHANGED <<bounds, used, open, net, device, reading, stored>>
  BY DEF Hand
<1>4. /\ consumer \in [pc : {"sleep", "drain", "hand"}, todo : SUBSET IdCodes,
                       batch : SUBSET Seq(FrameType), drained : BOOLEAN]
      /\ \A c \in consumer.batch :
            /\ c # <<>> /\ Increasing(c)
            /\ c[1].id \in IdCodes \ consumer.todo /\ OfId(c, c[1].id)
      /\ \A c, e \in consumer.batch : c[1].id = e[1].id => c = e
  BY <1>1 DEF BatchesOk
<1>5. /\ consumer'.batch = consumer.batch \ {b} /\ consumer'.pc = "hand"
      /\ consumer'.todo = consumer.todo
      /\ consumer' \in [pc : {"sleep", "drain", "hand"}, todo : SUBSET IdCodes,
                        batch : SUBSET Seq(FrameType), drained : BOOLEAN]
  BY <1>2, <1>3, <1>4
<1>6. BatchesOk'
  BY <1>4, <1>5 DEF BatchesOk
<1>7. b \in Seq(FrameType) /\ OfId(b, b[1].id) /\ Increasing(b)
  BY <1>4
<1>8. WorkerOk'
  <2>1. due' \subseteq Streams
    BY <1>2
  <2>2. QED
    BY <1>2, <1>4, <1>7, <2>1 DEF WorkerOk
<1>9. RestOk' /\ NetOk' /\ QueuesOk' /\ StoredOk'
  <2>1. RestOk'
    BY <1>1, <1>3 DEF RestOk, device, reading
  <2>2. QED
    BY <1>1, <1>3, <2>1, Frames DEF device, reading
<1>10. InBatches = InBatches' \cup DataOf(b)
  BY <1>5 DEF InBatches
<1>11. Before(DataOf(b), InBatches')
  <2> SUFFICES ASSUME NEW f \in DataOf(b), NEW c \in consumer'.batch, NEW g \in DataOf(c),
                      f.id = g.id
               PROVE  FALSE
    BY DEF Before, InBatches
  <2>1. f.id = b[1].id
    BY <1>4 DEF DataOf, ToSet, OfId
  <2>2. c \in consumer.batch /\ c # b
    BY <1>5
  <2>3. g.id = c[1].id
    BY <1>4, <2>2 DEF DataOf, ToSet, OfId
  <2>4. QED
    BY <1>4, <2>1, <2>2, <2>3
<1>12. ASSUME NEW s \in Streams
       PROVE  Account(At(s)', lost[s] \cup {f.n : f \in ToSet(b) \ Carried(s, b)},
                      used["frames"])
  <2>1. stored' = stored /\ InQueues' = InQueues /\ net' = net
    BY <1>3 DEF InQueues, reading
  <2>2. InWorker(s) = {}
    <3>1. ToSet(worker) = {}
      BY <1>3, EmptyFacts DEF ToSet
    <3>2. QED
      BY <3>1 DEF InWorker, Carried
  <2>3. InWorker(s)' = Carried(s, b)
    <3>1. InWorker(s)' = IF s \in due' THEN Carried(s, b) ELSE {}
      BY <1>2 DEF InWorker, Carried
    <3>2. QED
      BY <1>2, <3>1
  <2>4. /\ At(s)[2] = {} /\ At(s)'[2] = Carried(s, b)
        /\ At(s)[3] = At(s)'[3] \cup DataOf(b) /\ Before(DataOf(b), At(s)'[3])
    BY <1>10, <1>11, <2>2, <2>3, AtFacts
  <2>5. \A j \in {1, 4, 5} : At(s)'[j] = At(s)[j]
    BY <2>1, AtFacts
  <2>6. /\ At(s) \in [Places -> SUBSET FrameType] /\ At(s)' \in [Places -> SUBSET FrameType]
        /\ Account(At(s), lost[s], used["frames"])
    BY <1>1, <1>6, <1>8, <1>9, PlacesType DEF Accounts
  <2>7. QED
    BY <1>7, <2>4, <2>5, <2>6, HandAccount
<1>13. Accounts'
  <2>1. ASSUME NEW s \in Streams
        PROVE  {f.n : f \in ToSet(b) \ Carried(s, b)} \subseteq Nat
    <3>1. ToSet(b) \subseteq FrameType
      BY <1>7, CarriedFacts
    <3>2. QED
      BY <3>1 DEF FrameType
  <2>2. lost \in [Streams -> SUBSET Nat]
    BY <1>1 DEF Accounts
  <2>3. lost' \in [Streams -> SUBSET Nat]
    BY <1>2, <2>1, <2>2
  <2>4. \A s \in Streams : Account(At(s)', lost'[s], used'["frames"])
    BY <1>2, <1>3, <1>12
  <2>5. QED
    BY <2>3, <2>4 DEF Accounts
<1>14. QED
  BY <1>6, <1>8, <1>9, <1>13 DEF IInv

\* What another stream still is to get of the batch.
LEMMA FinishOthers ==
    ASSUME NEW s \in Streams, s \in due, Finish(s), NEW t \in Streams \ {s}
    PROVE  InWorker(t)' = InWorker(t)
<1>1. due' = due \ {s} /\ worker' = IF due = {s} THEN <<>> ELSE worker
  BY DEF Finish
<1>2. CASE t \in due
  <2>1. worker' = worker /\ t \in due'
    BY <1>1, <1>2
  <2>2. Carried(t, worker)' = Carried(t, worker)
    BY <2>1 DEF Carried
  <2>3. InWorker(t)' = Carried(t, worker)'
    BY <2>1 DEF InWorker
  <2>4. QED
    BY <1>2, <2>2, <2>3 DEF InWorker
<1>3. CASE t \notin due
  <2>1. t \notin due'
    BY <1>1, <1>3
  <2>2. QED
    BY <1>3, <2>1 DEF InWorker
<1>4. QED
  BY <1>2, <1>3

LEMMA InsertInv == ASSUME IInv, NEW s \in Streams, Insert(s) PROVE IInv'
<1> DEFINE C == Carried(s, worker)
           more == {f.n : f \in C}
<1>1. /\ RestOk /\ NetOk /\ QueuesOk /\ BatchesOk /\ WorkerOk /\ StoredOk /\ Accounts
      /\ used \in [Kinds -> Nat]
  BY DEF IInv, RestOk
<1>2. /\ s \in due /\ Finish(s)
      /\ due' = due \ {s} /\ worker' = IF due = {s} THEN <<>> ELSE worker
      /\ UNCHANGED <<bounds, open, net, device, reading, consumer>>
      /\ \/ stored' = [stored EXCEPT ![s] = @ \cup C] /\ UNCHANGED lost
         \/ lost' = [lost EXCEPT ![s] = @ \cup more] /\ UNCHANGED stored
  BY DEF Insert, Finish
<1>3. used' \in [Kinds -> Nat] /\ used'["frames"] = used["frames"]
  <2>1. CASE UNCHANGED used
    BY <1>1, <2>1
  <2>2. CASE Use("faults")
    BY <1>1, <2>2, UseType DEF Kinds
  <2>3. QED
    BY <2>1, <2>2 DEF Insert
<1>4. WorkerOk'
  <2>1. due' \subseteq Streams
    BY <1>1, <1>2 DEF WorkerOk
  <2>2. CASE worker' = <<>>
    BY <2>1, <2>2, EmptyFacts DEF WorkerOk
  <2>3. CASE worker' = worker
    BY <1>1, <2>1, <2>3 DEF WorkerOk
  <2>4. QED
    BY <1>2, <2>2, <2>3
<1>5. RestOk' /\ NetOk' /\ QueuesOk' /\ BatchesOk'
  <2>1. RestOk'
    BY <1>1, <1>2, <1>3 DEF RestOk, device, reading
  <2>2. QED
    BY <1>1, <1>2, <2>1, Frames DEF device, reading
<1>6. C \subseteq FrameType /\ \A f \in C : Right(f)
  <2>1. C \subseteq ToSet(worker) /\ ToSet(worker) \subseteq FrameType
    BY <1>1, CarriedFacts DEF WorkerOk
  <2>2. CASE worker = <<>>
    <3>1. ToSet(worker) = {}
      BY <2>2, EmptyFacts DEF ToSet
    <3>2. QED
      BY <2>1, <3>1
  <2>3. CASE worker # <<>>
    <3>1. worker \in Seq(FrameType) /\ OfId(worker, worker[1].id)
      BY <1>1, <2>3 DEF WorkerOk
    <3>2. \A f \in ToSet(worker) : Right(f)
      BY <3>1, CarriedFacts
    <3>3. QED
      BY <2>1, <3>2
  <2>4. QED
    BY <2>2, <2>3
<1>7. InWorker(s) = C /\ InWorker(s)' = {}
  BY <1>2 DEF InWorker
<1>8. \A t \in Streams \ {s} : InWorker(t)' = InWorker(t)
  BY <1>2, FinishOthers
<1>9. InQueues' = InQueues /\ InBatches' = InBatches /\ net' = net
  BY <1>2 DEF InQueues, InBatches, reading
<1> HIDE DEF C
<1>10. /\ stored' \in [Streams -> SUBSET FrameType] /\ lost' \in [Streams -> SUBSET Nat]
       /\ \A t \in Streams \ {s} : stored'[t] = stored[t] /\ lost'[t] = lost[t]
       /\ \/ stored'[s] = stored[s] \cup C /\ lost'[s] = lost[s]
          \/ stored'[s] = stored[s] /\ lost'[s] = lost[s] \cup more
  <2>1. stored \in [Streams -> SUBSET FrameType] /\ lost \in [Streams -> SUBSET Nat]
    BY <1>1 DEF StoredOk, Accounts
  <2>2. more \subseteq Nat
    BY <1>6 DEF FrameType
  <2> HIDE DEF more
  <2>3. CASE stored' = [stored EXCEPT ![s] = @ \cup C] /\ UNCHANGED lost
    BY <1>6, <2>1, <2>3
  <2>4. CASE lost' = [lost EXCEPT ![s] = @ \cup more] /\ UNCHANGED stored
    BY <2>1, <2>2, <2>4
  <2>5. QED
    BY <1>2, <2>3, <2>4
<1>11. StoredOk'
  <2>1. \A t \in Streams : \A f \in stored'[t] : f \in stored[t] \/ f \in C
    BY <1>10
  <2>2. QED
    BY <1>1, <1>6, <1>10, <2>1 DEF StoredOk
<1>12. /\ At(s) \in [Places -> SUBSET FrameType] /\ At(s)' \in [Places -> SUBSET FrameType]
       /\ Account(At(s), lost[s], used["frames"])
  BY <1>1, <1>4, <1>5, <1>11, PlacesType DEF Accounts
<1>13. /\ At(s)[2] = C /\ At(s)'[2] = {} /\ Places = {1, 2, 3, 4, 5}
       /\ At(s)'[3] = At(s)[3] /\ At(s)'[4] = At(s)[4] /\ At(s)'[5] = At(s)[5]
       /\ At(s)[1] = stored[s] /\ At(s)'[1] = stored'[s]
  BY <1>7, <1>9, AtFacts
<1>14. Account(At(s)', lost'[s], used["frames"])
  <2> DEFINE at == At(s)
             after == At(s)'
  <2>1. /\ at \in [Places -> SUBSET FrameType] /\ after \in [Places -> SUBSET FrameType]
        /\ Account(at, lost[s], used["frames"]) /\ Places = {1, 2, 3, 4, 5}
        /\ at[2] = C /\ after[2] = {} /\ after[3] = at[3] /\ after[4] = at[4]
        /\ after[5] = at[5] /\ at[1] = stored[s] /\ after[1] = stored'[s]
    BY <1>12, <1>13
  <2> HIDE DEF at, after
  <2>2. CASE stored'[s] = stored[s] \cup C /\ lost'[s] = lost[s]
    <3>1. /\ 2 = 1 + 1 /\ 1 \in 1 .. 4
          /\ \A j \in Places \ {1, 2} : after[j] = at[j]
          /\ after[1] = at[1] \cup C /\ after[2] \subseteq at[2]
          /\ \A f \in C : \E g \in at[2] : g.n = f.n /\ g.id = f.id
          /\ \A g \in at[2] : g \in after[2] \/ \E f \in C : f.n = g.n
      BY <2>1, <2>2
    <3>2. Before(C, after[2])
      BY <2>1 DEF Before
    <3>3. Moved(at, after, 1, 2, C)
      BY <3>1, <3>2 DEF Moved
    <3>4. Account(after, lost[s], used["frames"])
      BY <2>1, <3>3, Moves
    <3>5. QED
      BY <2>2, <3>4 DEF after
  <2>3. CASE stored'[s] = stored[s] /\ lost'[s] = lost[s] \cup more
    <3>1. \A j \in Places : after[j] \subseteq at[j] /\ (j # 2 => after[j] = at[j])
      BY <2>1, <2>3
    <3>2. \A j \in Places : \A f \in at[j] : f \in after[j] \/ f.n \in more
      BY <2>1, <3>1
    <3>3. more \subseteq 1 .. used["frames"]
      <4>1. \A f \in C : f.n \in 1 .. used["frames"]
        BY <2>1 DEF Account
      <4>2. QED
        BY <4>1
    <3>4. ASSUME NEW j \in Places, NEW f \in after[j], NEW g \in C
          PROVE  f.n # g.n
      <4>1. j # 2 /\ f \in at[j] /\ g \in at[2] /\ 2 \in Places
        BY <2>1, <3>1
      <4>2. QED
        BY <2>1, <4>1, Apart
    <3>5. \A j \in Places : \A f \in after[j] : f.n \notin more
      BY <3>4
    <3>6. \A j \in Places : after[j] \subseteq at[j]
      BY <3>1
    <3> HIDE DEF more
    <3>7. Account(after, lost[s] \cup more, used["frames"])
      BY <2>1, <3>2, <3>3, <3>5, <3>6, Goes
    <3>8. QED
      BY <2>3, <3>7 DEF after
  <2>4. QED
    BY <1>10, <2>2, <2>3
<1>15. ASSUME NEW t \in Streams \ {s}
       PROVE  Account(At(t)', lost'[t], used["frames"])
  <2>1. At(t)' = At(t)
    BY <1>8, <1>9, <1>10 DEF At
  <2>2. QED
    BY <1>1, <1>10, <2>1 DEF Accounts
<1>16. Accounts'
  <2>1. \A t \in Streams : Account(At(t)', lost'[t], used'["frames"])
    BY <1>3, <1>14, <1>15
  <2>2. QED
    BY <1>10, <2>1 DEF Accounts
<1>17. QED
  BY <1>4, <1>5, <1>11, <1>16 DEF IInv

LEMMA UnionOfTwo ==
    ASSUME NEW A, NEW B
    PROVE  UNION (A \cup B) = (UNION A) \cup (UNION B)
<1> DEFINE all == UNION (A \cup B)
           a == UNION A
           b == UNION B
<1>1. \A x : x \in all <=> \E s \in A \cup B : x \in s
  OBVIOUS
<1>2. \A x : x \in a <=> \E s \in A : x \in s
  OBVIOUS
<1>3. \A x : x \in b <=> \E s \in B : x \in s
  OBVIOUS
<1> HIDE DEF all, a, b
<1>4. all = a \cup b
  BY <1>1, <1>2, <1>3
<1>5. QED
  BY <1>4 DEF all, a, b

\* The numbers of the frames in each of the places.
LEMMA NumbersOfPlaces ==
    ASSUME NEW s \in Streams
    PROVE  /\ Numbers(net) = {f.n : f \in At(s)[5]}
           /\ {f.n : f \in stored[s]} = {f.n : f \in At(s)[1]}
           /\ Queued(s) = {f.n : f \in At(s)[2]} \cup {f.n : f \in At(s)[3]}
                          \cup {f.n : f \in At(s)[4]}
<1>1. /\ At(s)[1] = stored[s] /\ At(s)[2] = InWorker(s) /\ At(s)[3] = InBatches
      /\ At(s)[4] = InQueues /\ At(s)[5] = DataOf(net)
  BY AtFacts
<1>2. UNION {Numbers(output[i]) : i \in IdCodes} = {f.n : f \in InQueues}
  BY NumbersOfData DEF InQueues
<1>3. UNION {Numbers(b) : b \in consumer.batch} = {f.n : f \in InBatches}
  BY NumbersOfData DEF InBatches
<1>4. (IF s \in due THEN {f.n : f \in Carried(s, worker)} ELSE {})
      = {f.n : f \in InWorker(s)}
  BY DEF InWorker
<1> DEFINE A == {Numbers(output[i]) : i \in IdCodes}
           B == {Numbers(b) : b \in consumer.batch}
           c == IF s \in due THEN {f.n : f \in Carried(s, worker)} ELSE {}
<1>5. Queued(s) = (UNION (A \cup B)) \cup c
  BY DEF Queued
<1>6. UNION A = {f.n : f \in InQueues} /\ UNION B = {f.n : f \in InBatches}
      /\ c = {f.n : f \in InWorker(s)}
  BY <1>2, <1>3, <1>4
<1> HIDE DEF A, B, c
<1>7. Queued(s) = (UNION A) \cup (UNION B) \cup c
  BY <1>5, UnionOfTwo
<1>8. Numbers(net) = {f.n : f \in DataOf(net)}
  BY NumbersOfData
<1>9. QED
  BY <1>1, <1>6, <1>7, <1>8

\* The process ends and begins anew: what was not stored is lost.
LEMMA CrashInv == ASSUME IInv, Crash PROVE IInv'
<1>1. RestOk /\ NetOk /\ QueuesOk /\ BatchesOk /\ WorkerOk /\ StoredOk /\ Accounts
  BY DEF IInv
<1>2. /\ open' = FALSE /\ asked' = {} /\ announced' = {} /\ current' = {} /\ net' = <<>>
      /\ dialer' = "dial" /\ cfgs' = [i \in IdCodes |-> 0]
      /\ output' = [i \in IdCodes |-> <<>>] /\ consumer' = Sleeping
      /\ worker' = <<>> /\ due' = {}
      /\ lost' = [s \in Streams |-> lost[s] \cup Numbers(net) \cup Queued(s)]
      /\ UNCHANGED <<bounds, version, stored>>
  BY DEF Crash, Disconnect
<1>3. used' \in [Kinds -> Nat] /\ used'["frames"] = used["frames"]
  BY <1>1, UseType DEF Crash, Kinds, RestOk
<1>4. RestOk'
  BY <1>1, <1>2, <1>3 DEF RestOk
<1>5. Fresh'
  BY <1>2 DEF Fresh
<1>6. /\ NetOk' /\ QueuesOk' /\ BatchesOk' /\ WorkerOk'
      /\ \A s \in Streams, j \in Places : j # 1 => At(s)'[j] = {}
  <2>1. (Fresh => NetOk /\ QueuesOk /\ BatchesOk /\ WorkerOk /\ NothingHeld)'
    BY FreshIs, PTL
  <2>2. QED
    BY <1>5, <2>1 DEF NothingHeld
<1>7. StoredOk'
  BY <1>1, <1>2, Frames
<1>8. ASSUME NEW s \in Streams
      PROVE  /\ lost'[s] \subseteq Nat
             /\ Account(At(s)', lost'[s], used["frames"])
  <2> DEFINE at == At(s)
             after == At(s)'
             P(j) == {f.n : f \in at[j]}
             more == Numbers(net) \cup Queued(s)
  <2>1. /\ Account(at, lost[s], used["frames"]) /\ at \in [Places -> SUBSET FrameType]
        /\ after \in [Places -> SUBSET FrameType]
    BY <1>1, <1>6, <1>7, PlacesType DEF Accounts
  <2>2. /\ Places = {1, 2, 3, 4, 5} /\ after[1] = at[1]
        /\ \A j \in Places : j # 1 => after[j] = {}
    BY <1>2, <1>6, AtFacts
  <2>3. more = P(2) \cup P(3) \cup P(4) \cup P(5)
    <3>1. Numbers(net) = P(5) /\ Queued(s) = P(2) \cup P(3) \cup P(4)
      BY NumbersOfPlaces
    <3> HIDE DEF P
    <3>2. QED
      BY <3>1
  <2>4. lost'[s] = lost[s] \cup more
    BY <1>2
  <2> HIDE DEF at, after, more
  <2>5. \A j \in Places : P(j) \subseteq 1 .. used["frames"]
    BY <2>1 DEF Account
  <2>6. \A j \in Places : after[j] \subseteq at[j]
    BY <2>2
  <2>7. ASSUME NEW j \in Places, NEW f \in at[j]
        PROVE  f \in after[j] \/ f.n \in more
    <3>1. f.n \in P(j)
      OBVIOUS
    <3> HIDE DEF P
    <3>2. QED
      BY <2>2, <2>3, <3>1
  <2>8. ASSUME NEW j \in Places, NEW f \in after[j]
        PROVE  f.n \notin more
    <3>1. j = 1 /\ f \in at[1] /\ 1 \in Places
      BY <2>2
    <3>2. \A k \in Places \ {1} : f.n \notin P(k)
      BY <2>1, <3>1, Apart
    <3> HIDE DEF P
    <3>3. QED
      BY <2>2, <2>3, <3>2
  <2>9. more \subseteq 1 .. used["frames"]
    <3> HIDE DEF P
    <3>1. QED
      BY <2>2, <2>3, <2>5
  <2> HIDE DEF P
  <2>10. Account(after, lost[s] \cup more, used["frames"])
    BY <2>1, <2>6, <2>7, <2>8, <2>9, Goes
  <2>11. lost[s] \cup more \subseteq Nat
    BY <2>10 DEF Account
  <2>12. QED
    BY <2>4, <2>10, <2>11 DEF after
<1>9. Accounts'
  <2>1. DOMAIN lost' = Streams /\ lost' = [s \in Streams |-> lost'[s]]
    BY <1>2
  <2>2. lost' \in [Streams -> SUBSET Nat]
    BY <1>8, <2>1
  <2>3. \A s \in Streams : Account(At(s)', lost'[s], used'["frames"])
    BY <1>3, <1>8
  <2>4. QED
    BY <2>2, <2>3 DEF Accounts
<1>10. QED
  BY <1>4, <1>6, <1>7, <1>9 DEF IInv

LEMMA NextInv == IInv /\ [Next]_vars => IInv'
<1> SUFFICES ASSUME IInv, [Next]_vars PROVE IInv'
  OBVIOUS
<1>1. CASE Device
  BY <1>1, SendConfigInv, SendDataInv, CorruptInv, SendJunkInv, DropInv, ReconfigureInv
     DEF Device
<1>2. CASE Dialloop
  BY <1>2, DialInv, FailInv, BackoffInv, ReadFrameInv DEF Dialloop
<1>3. CASE Consume
  BY <1>3, WakeInv, DrainInv, HandInv, DoneInv DEF Consume
<1>4. CASE Work
  BY <1>4, InsertInv DEF Work
<1>5. CASE Crash
  BY <1>5, CrashInv
<1>6. CASE UNCHANGED vars
  <2>1. BatchesOk' /\ InBatches' = InBatches
    BY <1>6, Frames DEF IInv, InBatches, vars, saving
  <2>2. QED
    BY <1>6, <2>1, TurnInv DEF vars, saving
<1>7. QED
  BY <1>1, <1>2, <1>3, <1>4, <1>5, <1>6 DEF Next

\* The invariant is one of every behaviour.
THEOREM Invariant == Spec => []IInv
BY InitInv, NextInv, PTL DEF Spec

-----------------------------------------------------------------------------
(* The variables keep their types: nothing but frames of the id codes that
   exist is queued, batched or stored, and no queue of PMU.output ever holds
   more than it has room for (pmu.go). *)
THEOREM TypeCorrect == Spec => []TypeOK
<1>1. IInv => TypeOK
  <2> SUFFICES ASSUME IInv PROVE TypeOK
    OBVIOUS
  <2>1. RestOk /\ NetOk /\ QueuesOk /\ BatchesOk /\ WorkerOk /\ StoredOk /\ Accounts
    BY DEF IInv
  <2>2. net \in Seq(FrameType) /\ worker \in Seq(FrameType) /\ due \subseteq Streams
    BY <2>1 DEF NetOk, WorkerOk
  <2>3. \A i \in IdCodes : output[i] \in Seq(FrameType) /\ Len(output[i]) <= QueueSize
    BY <2>1 DEF QueuesOk, SequenceOk
  <2>4. /\ consumer.pc \in {"sleep", "drain", "hand"}
        /\ consumer.todo \subseteq IdCodes /\ consumer.drained \in BOOLEAN
        /\ consumer.batch \subseteq Seq(FrameType)
    BY <2>1 DEF BatchesOk
  <2>5. stored \in [Streams -> SUBSET FrameType] /\ lost \in [Streams -> SUBSET Nat]
    BY <2>1 DEF StoredOk, Accounts
  <2>6. QED
    BY <2>1, <2>2, <2>3, <2>4, <2>5 DEF RestOk, TypeOK
<1>2. QED
  BY <1>1, Invariant, PTL

LEMMA DisjointCardinality ==
    ASSUME NEW S, NEW T, IsFiniteSet(S), IsFiniteSet(T), S \cap T = {}
    PROVE  /\ IsFiniteSet(S \cup T)
           /\ Cardinality(S \cup T) = Cardinality(S) + Cardinality(T)
<1>1. /\ IsFiniteSet(S \cup T)
      /\ Cardinality(S \cup T) = Cardinality(S) + Cardinality(T) - Cardinality(S \cap T)
  BY FS_Union
<1>2. Cardinality(S \cap T) = 0
  BY FS_EmptySet
<1>3. Cardinality(S) \in Nat /\ Cardinality(T) \in Nat
  BY FS_CardinalityType
<1>4. QED
  BY <1>1, <1>2, <1>3

(* For every stream, each data frame that was sent is in one place, or lost to
   the stream: damaged or cut off on the network, without a configuration or
   room in its queue, of a failed insert, to be dropped by its own STAT, or
   gone with the process.  Between the goroutines of dialloop, the process loop
   and the worker, over any number of connections and crashes, none is lost
   otherwise and none is doubled. *)
THEOREM AllFramesAccounted == Spec => []EveryFrameAccounted
<1>1. ASSUME IInv, NEW s \in Streams
      PROVE  LET Stored == {f.n : f \in stored[s]} IN
             /\ 1 .. used["frames"] = Numbers(net) \cup Queued(s) \cup Stored \cup lost[s]
             /\ used["frames"] = Cardinality(Numbers(net)) + Cardinality(Queued(s))
                                 + Cardinality(Stored) + Cardinality(lost[s])
  <2> DEFINE top == used["frames"]
             N == Numbers(net)
             Q == Queued(s)
             S == {f.n : f \in stored[s]}
             L == lost[s]
             at == At(s)
             P(j) == {f.n : f \in at[j]}
  <2>1. Account(at, L, top) /\ top \in Nat /\ Places = {1, 2, 3, 4, 5}
    BY <1>1, AlongFacts DEF IInv, Accounts, Account
  <2>2. N = P(5) /\ S = P(1) /\ Q = P(2) \cup P(3) \cup P(4)
    BY NumbersOfPlaces
  <2> HIDE DEF at, N, Q, S, L, top
  <2>3. /\ \A j \in Places : P(j) \subseteq 1 .. top
        /\ L \subseteq 1 .. top
        /\ \A n \in 1 .. top : n \in L \/ \E j \in Places : n \in P(j)
    BY <2>1 DEF Account
  <2>4. \A j, k \in Places : j # k => P(j) \cap P(k) = {}
    BY <2>1, Apart
  <2>5. \A j \in Places : P(j) \cap L = {}
    BY <2>1 DEF Account
  <2> HIDE DEF P
  <2>6. 1 .. top = N \cup Q \cup S \cup L
    BY <2>1, <2>2, <2>3
  <2>7. N \cap Q = {} /\ (N \cup Q) \cap S = {} /\ (N \cup Q \cup S) \cap L = {}
    <3>1. /\ P(5) \cap P(2) = {} /\ P(5) \cap P(3) = {} /\ P(5) \cap P(4) = {}
          /\ P(1) \cap P(2) = {} /\ P(1) \cap P(3) = {} /\ P(1) \cap P(4) = {}
          /\ P(1) \cap P(5) = {}
          /\ P(1) \cap L = {} /\ P(2) \cap L = {} /\ P(3) \cap L = {}
          /\ P(4) \cap L = {} /\ P(5) \cap L = {}
      BY <2>1, <2>4, <2>5
    <3>2. QED
      BY <2>2, <3>1
  <2>8. /\ IsFiniteSet(1 .. top) /\ Cardinality(1 .. top) = top
    BY <2>1, FS_Interval
  <2>9. /\ IsFiniteSet(N) /\ IsFiniteSet(Q) /\ IsFiniteSet(S) /\ IsFiniteSet(L)
    BY <2>6, <2>8, FS_Subset
  <2>10. /\ IsFiniteSet(N \cup Q)
         /\ Cardinality(N \cup Q) = Cardinality(N) + Cardinality(Q)
    BY <2>7, <2>9, DisjointCardinality
  <2>11. /\ IsFiniteSet((N \cup Q) \cup S)
         /\ Cardinality((N \cup Q) \cup S) = Cardinality(N \cup Q) + Cardinality(S)
    BY <2>7, <2>9, <2>10, DisjointCardinality
  <2>12. Cardinality((N \cup Q \cup S) \cup L) = Cardinality(N \cup Q \cup S) + Cardinality(L)
    BY <2>7, <2>9, <2>11, DisjointCardinality
  <2>13. top = Cardinality(N) + Cardinality(Q) + Cardinality(S) + Cardinality(L)
    BY <2>6, <2>8, <2>10, <2>11, <2>12
  <2>14. QED
    BY <2>6, <2>13 DEF N, Q, S, L, top
<1>2. IInv => EveryFrameAccounted
  BY <1>1 DEF EveryFrameAccounted
<1>3. QED
  BY <1>2, Invariant, PTL

\* Only the worker inserts.
LEMMA OthersStoreNothing ==
    ASSUME [Next]_vars, ~Work
    PROVE  stored' = stored
<1>1. CASE Device
  BY <1>1 DEF Device, SendConfig, SendData, Corrupt, SendJunk, Drop, Reconfigure, saving
<1>2. CASE Dialloop
  BY <1>2 DEF Dialloop, Dial, Fail, Backoff, ReadFrame, ReadConfig, ReadData, Misfit,
              ReadDamaged, ReadUnknown, LoseSync, Resync, saving
<1>3. CASE Consume
  BY <1>3 DEF Consume, Wake, Drain, Hand, Done
<1>4. CASE Crash
  BY <1>4 DEF Crash
<1>5. CASE UNCHANGED vars
  BY <1>5 DEF vars, saving
<1>6. QED
  BY <1>1, <1>2, <1>3, <1>4, <1>5 DEF Next

(* What is inserted into a stream was sent after all of the same id code that
   had been inserted before, whatever is dropped or lost in between: the points
   of a device never come to BTrDB out of their order. *)
THEOREM OrderKept == Spec => StoredInOrder
<1> DEFINE Ordered == \A s \in Streams : \A f \in stored'[s] \ stored[s], g \in stored[s] :
                         f.id = g.id => g.n < f.n
<1>1. ASSUME IInv, NEW t \in Streams, Insert(t)
      PROVE  Ordered
  <2>1. StoredOk /\ Accounts /\ t \in due
    BY <1>1 DEF IInv, Insert
  <2>2. stored \in [Streams -> SUBSET FrameType]
    BY <2>1 DEF StoredOk
  <2>3. \A s \in Streams : stored'[s] \ stored[s] \subseteq
                              IF s = t THEN Carried(t, worker) ELSE {}
    BY <1>1, <2>2 DEF Insert
  <2>4. Before(stored[t], Carried(t, worker))
    <3>1. /\ 1 \in Places /\ 2 \in Places /\ At(t)[1] = stored[t]
          /\ At(t)[2] = Carried(t, worker)
      BY <2>1, AtFacts DEF InWorker
    <3>2. Account(At(t), lost[t], used["frames"])
      BY <2>1 DEF Accounts
    <3>3. QED
      BY <3>1, <3>2 DEF Account
  <2>5. QED
    BY <2>3, <2>4 DEF Before
<1>2. ASSUME IInv, [Next]_vars
      PROVE  Ordered
  <2>1. CASE Work
    BY <1>1, <1>2, <2>1 DEF Work
  <2>2. CASE ~Work
    BY <1>2, <2>2, OthersStoreNothing
  <2>3. QED
    BY <2>1, <2>2
<1>3. IInv /\ [Next]_vars => [Ordered]_vars
  BY <1>2
<1> HIDE DEF Ordered
<1>4. Spec => [][Ordered]_vars
  BY <1>3, Invariant, PTL DEF Spec
<1>5. QED
  BY <1>4 DEF StoredInOrder, Ordered

(* A frame in a stream was decoded with the configuration that the device
   encoded it with, where the device had sent that on the same connection and
   it came whole: over damaged frames of every kind, devices that change under
   a connection, and a cfgs that outlives it (pmu.go:100). *)
THEOREM DecodedRight == Spec => []DecodedAsEncoded
<1>1. IInv => DecodedAsEncoded
  BY DEF IInv, StoredOk, Right, DecodedAsEncoded
<1>2. QED
  BY <1>1, Invariant, PTL
===============================================================================
