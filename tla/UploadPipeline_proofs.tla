------------------------ MODULE UploadPipeline_proofs ------------------------
(***************************************************************************)
(* What the receiver and the ingester owe a confirmed file, proved for any *)
(* uPMUs, names, contents, numbers of handles and scenarios.               *)
(*                                                                         *)
(* A name is taken off the list only behind a chain of small facts: the    *)
(* size that Stat saw is that of a content that was uploaded, so the bytes *)
(* that were read are the whole of the only content there is, so that      *)
(* content was inserted.  LoopInv is that chain, Sound the matching one    *)
(* for the three writes of the receiver.                                   *)
(***************************************************************************)
EXTENDS UploadPipeline, TLAPS

\* A goroutine of the receiver has written what its place in the code says.
HandlersInOrder ==
    \A c \in Conns :
       /\ handler[c] # Free => handler[c].content \in sent[handler[c].path]
       /\ handler[c].pc \in {"master", "gen", "reply"} =>
             objects[handler[c].path] # Absent
       /\ handler[c].pc \in {"gen", "reply"} => handler[c].path \in master

\* What is stored and what is confirmed was uploaded.
Uploaded ==
    \A p \in Paths : /\ objects[p] \in sent[p] \cup {Absent}
                     /\ acked[p] \in sent[p] \cup {Absent}

\* A file with only one content is in BTrDB or on its way there.
Safe(p) ==
    \A v \in Contents \ Rejected :
       sent[p] = {v} =>
          \/ \E d \in Serials : <<d, p, v>> \in ingested
          \/ objects[p] = v /\ p \in gen /\ p \in master

Promised(p) ==
    \/ acked[p] # Absent
    \/ \E c \in Conns : handler[c].pc = "reply" /\ handler[c].path = p

PromisedIsSafe == \A p \in Paths : Promised(p) => Safe(p)

\* What a process loop knows of the file it is at.
Knows(d, p) ==
    /\ loop[d].pc = "read" => /\ objects[p] # Absent
                              /\ \E x \in sent[p] : loop[d].size = Size[x]
    /\ loop[d].pc = "insert" =>
          /\ loop[d].buf \in sent[p]
          /\ \A v \in Contents : sent[p] = {v} => loop[d].whole
    /\ loop[d].pc = "remove" =>
          /\ sent[p] # {}
          /\ \A v \in Contents \ Rejected :
                sent[p] = {v} => <<d, p, v>> \in ingested

LoopInv == \A d \in Serials, p \in Paths : First(d, p) => Knows(d, p)

Sound == HandlersInOrder /\ Uploaded /\ ListedIsStored /\ PromisedIsSafe

Inv == TypeOK /\ Sound /\ LoopInv

USE DEF Loop

-----------------------------------------------------------------------------
LEMMA UseType ==
    ASSUME TypeOK, NEW kind \in Kinds, Use(kind)
    PROVE  used' \in [Kinds -> Nat]
BY DEF TypeOK, Use

LEMMA InitInv == Init => Inv
<1> SUFFICES ASSUME Init PROVE Inv
  OBVIOUS
<1> USE DEF Init, PoolInit, RecvInit, IngInit
<1>1. TypeOK
  <2>1. RecvTypeOK
    BY DEF RecvTypeOK, Handler
  <2>2. IngTypeOK
    BY ScenariosAssumption DEF IngTypeOK, Off, LoopPCs
  <2>3. QED
    BY <2>1, <2>2 DEF TypeOK, PoolTypeOK
<1>2. Sound
  BY DEF Sound, HandlersInOrder, Uploaded, ListedIsStored, PromisedIsSafe,
         Promised, Free
<1>3. LoopInv
  BY DEF LoopInv, First, Off
<1>4. QED
  BY <1>1, <1>2, <1>3 DEF Inv

-----------------------------------------------------------------------------
(* The receiver. *)

\* A goroutine of a known type at a known place.
LEMMA BusyHandler ==
    ASSUME TypeOK, NEW c \in Conns, handler[c] # Free
    PROVE  handler[c] \in [pc : HandlerPCs, serial : Serials, path : Paths,
                           content : Contents, open : BOOLEAN]
BY DEF TypeOK, RecvTypeOK, Handler

LEMMA GotoType ==
    ASSUME TypeOK, NEW c \in Conns, handler[c] # Free, NEW pc \in HandlerPCs,
           Goto(c, pc)
    PROVE  /\ handler' \in [Conns -> Handler]
           /\ handler' = [handler EXCEPT ![c] = [handler[c] EXCEPT !.pc = pc]]
           /\ handler'[c].pc = pc
           /\ handler'[c].path = handler[c].path
           /\ handler'[c].content = handler[c].content
           /\ handler'[c].open = handler[c].open
<1>1. [handler[c] EXCEPT !.pc = pc] \in Handler
  BY BusyHandler DEF Handler
<1>2. QED
  BY <1>1, BusyHandler DEF Goto, TypeOK, RecvTypeOK

\* What the loops know survives what the receiver does.
LEMMA RecvLoopInv ==
    ASSUME LoopInv, TypeOK, UNCHANGED ing, sent' \in [Paths -> SUBSET Contents],
           \A p \in Paths :
              /\ \/ sent'[p] = sent[p]
                 \/ \E v \in Contents : sent'[p] = sent[p] \cup {v}
              /\ objects[p] # Absent => objects'[p] # Absent
    PROVE  LoopInv'
<1> SUFFICES ASSUME NEW d \in Serials, NEW p \in Paths, First(d, p)'
             PROVE  Knows(d, p)'
  BY DEF LoopInv
<1>1. First(d, p) /\ loop' = loop /\ ingested' = ingested
  BY DEF First, ing
<1>2. Knows(d, p)
  BY <1>1 DEF LoopInv
<1>3. sent[p] \subseteq sent'[p] /\ sent[p] \subseteq Contents
  BY DEF TypeOK, RecvTypeOK
<1>4. ASSUME NEW v \in Contents, sent'[p] = {v}, sent[p] # {}
      PROVE  sent[p] = {v}
  BY <1>3, <1>4
<1>5. (loop[d].pc = "read" => /\ objects[p] # Absent
                              /\ \E x \in sent[p] : loop[d].size = Size[x])'
  BY <1>1, <1>2, <1>3 DEF Knows
<1>6. (loop[d].pc = "insert" =>
          /\ loop[d].buf \in sent[p]
          /\ \A v \in Contents : sent[p] = {v} => loop[d].whole)'
  BY <1>1, <1>2, <1>3, <1>4 DEF Knows
<1>7. (loop[d].pc = "remove" =>
          /\ sent[p] # {}
          /\ \A v \in Contents \ Rejected :
                sent[p] = {v} => <<d, p, v>> \in ingested)'
  BY <1>1, <1>2, <1>3, <1>4 DEF Knows
<1>8. QED
  BY <1>5, <1>6, <1>7 DEF Knows

LEMMA UploadInv ==
    ASSUME Inv, UNCHANGED ing, NEW c \in Conns, NEW p \in Paths,
           NEW s \in Serials, NEW v \in Contents, Upload(c, s, p, v)
    PROVE  Inv'
<1> USE DEF Upload, pool, ing
<1>0. /\ handler'[c] = [pc |-> "queued", serial |-> s, path |-> p, content |-> v,
                        open |-> TRUE]
      /\ handler[c] = Free
      /\ \A e \in Conns : e # c => handler'[e] = handler[e]
      /\ sent'[p] = sent[p] \cup {v}
      /\ \A q \in Paths : q # p => sent'[q] = sent[q]
      /\ sent' \in [Paths -> SUBSET Contents]
  BY DEF Inv, TypeOK, RecvTypeOK
<1>1. TypeOK'
  <2>1. used' \in [Kinds -> Nat]
    BY UseType DEF Inv, TypeOK, Kinds
  <2>2. RecvTypeOK'
    BY <1>0 DEF Inv, TypeOK, RecvTypeOK, Handler, HandlerPCs
  <2>3. QED
    BY <2>1, <2>2 DEF Inv, TypeOK, PoolTypeOK, IngTypeOK
<1>2. HandlersInOrder'
  BY <1>0, BusyHandler DEF Inv, Sound, HandlersInOrder, Free
<1>3. Uploaded' /\ ListedIsStored'
  BY <1>0 DEF Inv, Sound, Uploaded, ListedIsStored
<1>4. PromisedIsSafe'
  <2> SUFFICES ASSUME NEW q \in Paths, Promised(q)', NEW w \in Contents \ Rejected,
                      sent'[q] = {w}
               PROVE  \/ \E d \in Serials : <<d, q, w>> \in ingested
                      \/ objects[q] = w /\ q \in gen /\ q \in master
    BY DEF PromisedIsSafe, Safe
  <2>1. Promised(q)
    BY <1>0 DEF Promised, Free
  <2>2. sent[q] # {}
    BY <2>1, BusyHandler DEF Promised, Inv, Sound, Uploaded, HandlersInOrder, Free
  <2>3. sent[q] = {w}
    BY <1>0, <2>2
  <2>4. QED
    BY <2>1, <2>3 DEF Inv, Sound, PromisedIsSafe, Safe
<1>5. LoopInv'
  BY <1>0, RecvLoopInv DEF Inv
<1>6. QED
  BY <1>1, <1>2, <1>3, <1>4, <1>5 DEF Inv, Sound

LEMMA ServeInv ==
    ASSUME Inv, UNCHANGED ing, NEW c \in Conns,
           TakeHandle(c) \/ Write(c) \/ ListInMaster(c) \/ ListInGen(c)
    PROVE  Inv'
<1> DEFINE p == handler[c].path
<1> DEFINE pc == handler'[c].pc
<1>0. handler[c] # Free
  BY DEF TakeHandle, Write, ListInMaster, ListInGen, Free
<1>1. /\ p \in Paths /\ handler[c].content \in Contents
      /\ handler[c].content \in sent[p]
  BY <1>0, BusyHandler DEF Inv, Sound, HandlersInOrder
<1>2. /\ pc \in HandlerPCs
      /\ handler' \in [Conns -> Handler]
      /\ handler'[c].path = p /\ handler'[c].content = handler[c].content
      /\ \A e \in Conns : e # c => handler'[e] = handler[e]
      /\ UNCHANGED <<acked, sent, bounds, used>>
  BY <1>0, GotoType
     DEF Inv, TypeOK, RecvTypeOK, HandlerPCs, TakeHandle, Write, ListInMaster,
         ListInGen, pool
<1>3. /\ objects' \in [Paths -> Contents \cup {Absent}]
      /\ master \subseteq master' /\ gen \subseteq gen'
      /\ master' \subseteq Paths /\ gen' \subseteq Paths
      /\ objects' = objects \/ objects' = [objects EXCEPT ![p] = handler[c].content]
      /\ \A q \in gen' \ gen : q = p /\ handler[c].pc = "gen"
  BY <1>1 DEF Inv, TypeOK, PoolTypeOK, TakeHandle, Write, ListInMaster,
              ListInGen, pool
<1>4. /\ pc = "write" => handler[c].pc = "queued"
      /\ pc = "master" => objects'[p] = handler[c].content
      /\ pc = "gen" => handler[c].pc = "master" /\ objects' = objects /\ p \in master'
      /\ pc = "reply" => handler[c].pc = "gen" /\ objects' = objects /\ p \in gen'
      /\ pc # "queued"
  BY <1>0, <1>1, GotoType
     DEF Inv, TypeOK, PoolTypeOK, HandlerPCs, TakeHandle, Write, ListInMaster,
         ListInGen, pool
<1>5. ASSUME NEW q \in Paths, objects[q] # Absent
      PROVE  objects'[q] # Absent
  BY AbsentAssumption, <1>1, <1>3, <1>5 DEF Inv, TypeOK, PoolTypeOK
<1>6. TypeOK'
  BY <1>2, <1>3 DEF Inv, TypeOK, PoolTypeOK, RecvTypeOK, IngTypeOK, ing
<1>7. HandlersInOrder'
  <2> SUFFICES ASSUME NEW e \in Conns
               PROVE  /\ handler'[e] # Free => handler'[e].content \in sent[handler'[e].path]
                      /\ handler'[e].pc \in {"master", "gen", "reply"} =>
                            objects'[handler'[e].path] # Absent
                      /\ handler'[e].pc \in {"gen", "reply"} => handler'[e].path \in master'
    BY <1>2 DEF HandlersInOrder
  <2>1. CASE e = c
    <3>1. pc \in {"gen", "reply"} => objects[p] # Absent
      BY <1>4 DEF Inv, Sound, HandlersInOrder
    <3>2. pc \in {"master", "gen", "reply"} => objects'[p] # Absent
      BY AbsentAssumption, <1>1, <1>4, <3>1
    <3>3. pc \in {"gen", "reply"} => p \in master'
      BY <1>3, <1>4 DEF Inv, Sound, HandlersInOrder
    <3>4. QED
      BY <1>1, <1>2, <2>1, <3>2, <3>3
  <2>2. CASE e # c
    <3>1. handler'[e].pc \in {"master", "gen", "reply"} =>
             handler[e].path \in Paths /\ objects[handler[e].path] # Absent
      BY <1>2, <2>2, BusyHandler DEF Inv, Sound, HandlersInOrder, Free
    <3>2. QED
      BY <1>2, <1>3, <1>5, <2>2, <3>1 DEF Inv, Sound, HandlersInOrder
  <2>3. QED
    BY <2>1, <2>2
<1>8. Uploaded'
  <2>1. UNCHANGED <<acked, sent>> /\ Uploaded
    BY <1>2 DEF Inv, Sound
  <2>2. \A q \in Paths : objects'[q] = objects[q] \/ objects'[q] \in sent[q]
    BY <1>1, <1>3 DEF Inv, TypeOK, PoolTypeOK
  <2>3. QED
    BY <2>1, <2>2 DEF Uploaded
<1>9. ListedIsStored'
  <2> SUFFICES ASSUME NEW q \in gen'
               PROVE  q \in master' /\ objects'[q] # Absent
    BY DEF ListedIsStored
  <2>1. q \in gen \/ (q = p /\ handler[c].pc = "gen")
    BY <1>3
  <2>2. q \in Paths /\ q \in master /\ objects[q] # Absent
    BY <1>1, <2>1 DEF Inv, Sound, ListedIsStored, HandlersInOrder, TypeOK, PoolTypeOK
  <2>3. QED
    BY <1>3, <1>5, <2>2
<1>10. PromisedIsSafe'
  <2> SUFFICES ASSUME NEW q \in Paths, Promised(q)', NEW w \in Contents \ Rejected,
                      sent[q] = {w}
               PROVE  \/ \E d \in Serials : <<d, q, w>> \in ingested
                      \/ objects'[q] = w /\ q \in gen' /\ q \in master'
    BY <1>2 DEF PromisedIsSafe, Safe, ing
  <2>1. CASE Promised(q)
    <3>1. \/ \E d \in Serials : <<d, q, w>> \in ingested
          \/ objects[q] = w /\ q \in gen /\ q \in master
      BY <2>1 DEF Inv, Sound, PromisedIsSafe, Safe
    <3>2. objects[q] = w => objects'[q] = w
      BY <1>1, <1>3 DEF Inv, TypeOK, PoolTypeOK
    <3>3. QED
      BY <1>3, <3>1, <3>2
  <2>2. CASE ~Promised(q)
    <3>1. q = p /\ pc = "reply"
      BY <1>2, <2>2 DEF Promised
    <3>2. objects'[p] = objects[p] /\ objects[p] # Absent /\ p \in gen' /\ p \in master'
      BY <1>3, <1>4, <3>1 DEF Inv, Sound, HandlersInOrder
    <3>3. objects[p] = w
      BY <1>1, <3>1, <3>2 DEF Inv, Sound, Uploaded
    <3>4. QED
      BY <3>1, <3>2, <3>3
  <2>3. QED
    BY <2>1, <2>2
<1>11. LoopInv'
  BY <1>2, <1>5, RecvLoopInv DEF Inv, TypeOK, RecvTypeOK
<1>12. QED
  BY <1>6, <1>7, <1>8, <1>9, <1>10, <1>11 DEF Inv, Sound

\* A confirmation is sent or lost, a connection breaks, the receiver dies: no
\* goroutine gets further and the pool is left alone.
Leaves ==
    /\ handler' \in [Conns -> Handler]
    /\ UNCHANGED <<pool, sent, bounds>>
    /\ used' \in [Kinds -> Nat]
    /\ acked' \in [Paths -> Contents \cup {Absent}]
    /\ \A c \in Conns : \/ handler'[c] = Free
                        \/ /\ handler[c] # Free
                           /\ handler'[c].pc = handler[c].pc
                           /\ handler'[c].path = handler[c].path
                           /\ handler'[c].content = handler[c].content
    /\ \A p \in Paths :
          \/ acked'[p] = acked[p]
          \/ \E c \in Conns : /\ handler[c].pc = "reply" /\ handler[c].path = p
                              /\ acked'[p] = handler[c].content

LEMMA LeaveSteps ==
    ASSUME Inv, RecvCrash \/ \E c \in Conns : Reply(c) \/ Break(c)
    PROVE  Leaves
<1>1. CASE RecvCrash
  <2>1. used' \in [Kinds -> Nat]
    BY <1>1, UseType DEF Inv, Kinds, RecvCrash
  <2>2. QED
    BY <1>1, <2>1 DEF RecvCrash, Inv, TypeOK, RecvTypeOK, Handler, Leaves
<1>2. ASSUME NEW c \in Conns, Reply(c)
      PROVE  Leaves
  <2>1. handler[c] # Free
    BY <1>2 DEF Reply, Free
  <2>2. handler' \in [Conns -> Handler]
    BY <1>2 DEF Reply, Inv, TypeOK, RecvTypeOK, Handler
  <2>3. acked' \in [Paths -> Contents \cup {Absent}]
    BY <1>2, <2>1, BusyHandler DEF Reply, Inv, TypeOK, RecvTypeOK
  <2>4. QED
    BY <1>2, <2>1, <2>2, <2>3, BusyHandler
       DEF Reply, Inv, TypeOK, RecvTypeOK, Leaves
<1>3. ASSUME NEW c \in Conns, Break(c)
      PROVE  Leaves
  <2>1. handler[c] # Free
    BY <1>3 DEF Break, Free
  <2>2. [handler[c] EXCEPT !.open = FALSE] \in Handler
    BY <2>1, BusyHandler DEF Handler, Inv
  <2>3. handler' \in [Conns -> Handler]
    BY <1>3, <2>2 DEF Break, Inv, TypeOK, RecvTypeOK
  <2>4. used' \in [Kinds -> Nat]
    BY <1>3, UseType DEF Inv, Kinds, Break
  <2>5. \A e \in Conns : \/ handler'[e] = Free
                         \/ /\ handler[e] # Free
                            /\ handler'[e].pc = handler[e].pc
                            /\ handler'[e].path = handler[e].path
                            /\ handler'[e].content = handler[e].content
    BY <1>3, <2>1, BusyHandler DEF Break, Inv, TypeOK, RecvTypeOK, Handler
  <2>6. QED
    BY <1>3, <2>3, <2>4, <2>5 DEF Break, Inv, TypeOK, RecvTypeOK, Leaves
<1>4. QED
  BY <1>1, <1>2, <1>3

LEMMA LeaveInv ==
    ASSUME Inv, UNCHANGED ing, Leaves
    PROVE  Inv'
<1> USE DEF Leaves, pool
<1>1. TypeOK'
  <2>1. RecvTypeOK'
    BY DEF Inv, TypeOK, RecvTypeOK
  <2>2. IngTypeOK'
    BY DEF Inv, TypeOK, IngTypeOK, ing
  <2>3. QED
    BY <2>1, <2>2 DEF Inv, TypeOK, PoolTypeOK
<1>2. HandlersInOrder'
  <2> SUFFICES ASSUME NEW c \in Conns, handler'[c] # Free
               PROVE  /\ handler'[c].content \in sent[handler'[c].path]
                      /\ handler'[c].pc \in {"master", "gen", "reply"} =>
                            objects[handler'[c].path] # Absent
                      /\ handler'[c].pc \in {"gen", "reply"} =>
                            handler'[c].path \in master
    BY DEF HandlersInOrder, Free
  <2>1. QED
    BY DEF Inv, Sound, HandlersInOrder
<1>3. Uploaded'
  <2>1. \A c \in Conns : handler[c].pc = "reply" =>
           handler[c].content \in sent[handler[c].path]
    BY DEF Inv, Sound, HandlersInOrder, Free
  <2>2. QED
    BY <2>1 DEF Inv, Sound, Uploaded
<1>4. ListedIsStored'
  BY DEF Inv, Sound, ListedIsStored
<1>5. PromisedIsSafe'
  <2> SUFFICES ASSUME NEW p \in Paths, Promised(p)'
               PROVE  Safe(p)'
    BY DEF PromisedIsSafe
  <2>1. Promised(p)
    BY DEF Promised, Free
  <2>2. QED
    BY <2>1 DEF Inv, Sound, PromisedIsSafe, Safe, ing
<1>6. LoopInv'
  BY RecvLoopInv DEF Inv, TypeOK, RecvTypeOK
<1>7. QED
  BY <1>1, <1>2, <1>3, <1>4, <1>5, <1>6 DEF Inv, Sound

LEMMA RecvNextInv ==
    ASSUME Inv, RecvNext, UNCHANGED ing
    PROVE  Inv'
<1>1. ASSUME NEW c \in Conns, Reply(c) \/ Break(c)
      PROVE  Inv'
  BY <1>1, LeaveSteps, LeaveInv
<1>2. CASE RecvCrash
  BY <1>2, LeaveSteps, LeaveInv
<1>3. QED
  BY <1>1, <1>2, UploadInv, ServeInv DEF RecvNext, Serve

-----------------------------------------------------------------------------
(* The ingester. *)

\* A step that leaves the pool and the receiver alone, and takes nothing out of
\* BTrDB, keeps the promises.
LEMMA SoundStays ==
    ASSUME Sound, UNCHANGED <<pool, recv>>, ingested \subseteq ingested'
    PROVE  Sound'
<1> USE DEF pool, recv
<1>1. HandlersInOrder' /\ Uploaded' /\ ListedIsStored'
  BY DEF Sound, HandlersInOrder, Uploaded, ListedIsStored
<1>2. PromisedIsSafe'
  BY DEF Sound, PromisedIsSafe, Promised, Safe
<1>3. QED
  BY <1>1, <1>2 DEF Sound

\* Where no loop but d moves, and d moves to a place where it knows nothing.
LEMMA LoopStays ==
    ASSUME LoopInv, UNCHANGED <<objects, recv>>, ingested \subseteq ingested',
           \A d \in Serials : \/ loop'[d] = loop[d]
                              \/ loop'[d].pc \notin {"read", "insert", "remove"}
    PROVE  LoopInv'
<1> SUFFICES ASSUME NEW d \in Serials, NEW p \in Paths, First(d, p)'
             PROVE  Knows(d, p)'
  BY DEF LoopInv
<1>1. CASE loop'[d] = loop[d]
  <2>1. Knows(d, p)
    BY <1>1 DEF First, LoopInv
  <2>2. QED
    BY <1>1, <2>1 DEF Knows, recv
<1>2. CASE loop'[d].pc \notin {"read", "insert", "remove"}
  BY <1>2 DEF Knows
<1>3. QED
  BY <1>1, <1>2

LEMMA LoopType ==
    ASSUME TypeOK, NEW d \in Serials
    PROVE  loop[d] \in Loop
BY DEF TypeOK, IngTypeOK

\* The end of the program, whatever ended it.
LEMMA ExitInv ==
    ASSUME Inv, Exit, UNCHANGED <<pool, recv, inManifest, ingested, bounds>>,
           used' \in [Kinds -> Nat]
    PROVE  Inv'
<1> USE DEF Exit
<1>1. TypeOK'
  BY DEF Inv, TypeOK, PoolTypeOK, RecvTypeOK, IngTypeOK, Off, LoopPCs, pool, recv
<1>2. LoopInv'
  BY LoopStays DEF Inv, Off, pool
<1>3. QED
  BY <1>1, <1>2, SoundStays DEF Inv

LEMMA SteeringInv ==
    ASSUME Inv, UNCHANGED recv,
           \/ MainLoop \/ HearChange \/ Interrupt \/ IngCrash
           \/ \E d \in Serials : EditManifest(d)
    PROVE  Inv'
<1> USE DEF pool, recv, flags, conf
<1>1. CASE Boot \/ SetFlags \/ Wake \/ HearChange
  <2>0. watch' \in Nat
    BY <1>1 DEF Inv, TypeOK, IngTypeOK, Boot, SetFlags, Wake, HearChange
  <2>1. TypeOK'
    <3>1. IngTypeOK'
      BY <1>1, <2>0 DEF Inv, TypeOK, IngTypeOK, Boot, SetFlags, Wake, HearChange
    <3>2. QED
      BY <1>1, <3>1 DEF Inv, TypeOK, PoolTypeOK, RecvTypeOK, Boot, SetFlags,
                        Wake, HearChange
  <2>2. UNCHANGED <<pool, loop, ingested>>
    BY <1>1 DEF Boot, SetFlags, Wake, HearChange
  <2>3. QED
    BY <2>1, <2>2, SoundStays, LoopStays DEF Inv
<1>2. CASE Interrupt \/ \E d \in Serials : EditManifest(d)
  <2>1. used' \in [Kinds -> Nat]
    BY <1>2, UseType DEF Inv, Kinds, Interrupt, EditManifest
  <2>2. inManifest' \subseteq Serials /\ watch' \in Nat
    BY <1>2 DEF Inv, TypeOK, IngTypeOK, Interrupt, EditManifest
  <2>3. TypeOK'
    BY <1>2, <2>1, <2>2 DEF Inv, TypeOK, PoolTypeOK, RecvTypeOK, IngTypeOK,
                            Interrupt, EditManifest
  <2>4. UNCHANGED <<pool, loop, ingested>>
    BY <1>2 DEF Interrupt, EditManifest
  <2>5. QED
    BY <2>3, <2>4, SoundStays, LoopStays DEF Inv
<1>3. CASE Fetch
  <2>1. TypeOK'
    BY <1>3 DEF Inv, TypeOK, PoolTypeOK, RecvTypeOK, IngTypeOK, Fetch, Off, LoopPCs
  <2>2. LoopInv'
    BY <1>3, LoopStays DEF Inv, Fetch, Off
  <2>3. QED
    BY <1>3, <2>1, <2>2, SoundStays DEF Inv, Fetch
<1>4. CASE Join
  <2>1. CASE terminate
    BY <1>4, <2>1, ExitInv DEF Inv, TypeOK, Join
  <2>2. CASE ~terminate
    <3>1. TypeOK'
      BY <1>4, <2>2 DEF Inv, TypeOK, PoolTypeOK, RecvTypeOK, IngTypeOK, Join
    <3>2. UNCHANGED <<pool, loop, ingested>>
      BY <1>4, <2>2 DEF Join
    <3>3. QED
      BY <3>1, <3>2, SoundStays, LoopStays DEF Inv
  <2>3. QED
    BY <2>1, <2>2
<1>5. CASE IngCrash
  <2>1. used' \in [Kinds -> Nat]
    BY <1>5, UseType DEF Inv, Kinds, IngCrash
  <2>2. QED
    BY <1>5, <2>1, ExitInv DEF IngCrash
<1>6. QED
  BY <1>1, <1>2, <1>3, <1>4, <1>5 DEF MainLoop

\* The places where a loop knows nothing of a file, or keeps what it knows.
LEMMA WalkInv ==
    ASSUME Inv, UNCHANGED recv, NEW d \in Serials,
           Check(d) \/ GetHandle(d) \/ List(d) \/ Pause(d)
    PROVE  Inv'
<1> USE DEF pool, recv, flags, conf
<1>1. /\ loop' = [loop EXCEPT ![d] = loop'[d]]
      /\ loop'[d].pc \notin {"read", "insert", "remove"}
      /\ loop'[d] \in Loop
  <2>1. Listed(d) \subseteq Paths
    BY DEF Listed, Inv, TypeOK, PoolTypeOK
  <2>2. loop[d] \in Loop
    BY LoopType DEF Inv
  <2>3. ASSUME NEW pc \in LoopPCs \ {"read", "insert", "remove"},
               loop' = [loop EXCEPT ![d].pc = pc]
        PROVE  <1>1
    BY <2>2, <2>3 DEF Inv, TypeOK, IngTypeOK, LoopPCs
  <2>4. ASSUME NEW pc \in LoopPCs \ {"read", "insert", "remove"},
               loop' = [loop EXCEPT ![d] = [Off EXCEPT !.pc = pc, !.todo = Listed(d)]]
        PROVE  <1>1
    BY <2>1, <2>4 DEF Inv, TypeOK, IngTypeOK, LoopPCs, Off
  <2>5. QED
    BY <2>3, <2>4 DEF Check, GetHandle, List, Pause, LoopPCs
<1>2. used' \in [Kinds -> Nat]
  BY UseType DEF Inv, TypeOK, Kinds, Check, GetHandle, List, Pause
<1>3. loop' \in [Serials -> Loop]
  BY <1>1 DEF Inv, TypeOK, IngTypeOK
<1>4. TypeOK'
  <2>1. IngTypeOK'
    BY <1>3 DEF Inv, TypeOK, IngTypeOK, Check, GetHandle, List, Pause
  <2>2. QED
    BY <1>2, <2>1 DEF Inv, TypeOK, PoolTypeOK, RecvTypeOK, Check, GetHandle,
                      List, Pause
<1>5. UNCHANGED <<pool, ingested>>
  BY DEF Check, GetHandle, List, Pause
<1>6. LoopInv'
  BY <1>1, <1>5, LoopStays DEF Inv, TypeOK, IngTypeOK
<1>7. QED
  BY <1>4, <1>5, <1>6, SoundStays DEF Inv

LEMMA OffType ==
    ASSUME NEW pc \in LoopPCs
    PROVE  /\ [Off EXCEPT !.pc = pc].pc = pc
           /\ [Off EXCEPT !.pc = pc]
                 \in Loop
BY DEF Off

LEMMA ProceedType ==
    ASSUME TypeOK, NEW d \in Serials, NEW p \in Paths, Proceed(d, p)
    PROVE  /\ loop' = [loop EXCEPT ![d] = loop'[d]]
           /\ loop' \in [Serials -> Loop]
           /\ loop'[d].pc \notin {"read", "insert", "remove"}
BY LoopType DEF Proceed, TypeOK, IngTypeOK, LoopPCs, Off

\* Where only d moves, at the same file, its knowledge is all there is to show.
LEMMA LoopMoves ==
    ASSUME LoopInv, UNCHANGED <<objects, recv>>, ingested \subseteq ingested',
           NEW d \in Serials, loop' = [loop EXCEPT ![d] = loop'[d]],
           loop \in [Serials -> Loop],
           NEW p \in Paths, First(d, p), loop'[d].todo = loop[d].todo,
           Knows(d, p)'
    PROVE  LoopInv'
<1> SUFFICES ASSUME NEW e \in Serials, NEW q \in Paths, First(e, q)'
             PROVE  Knows(e, q)'
  BY DEF LoopInv
<1>1. CASE e = d
  <2>1. q = p
    BY PathsAssumption, <1>1 DEF First
  <2>2. QED
    BY <1>1, <2>1
<1>2. CASE e # d
  <2>1. loop'[e] = loop[e]
    BY <1>2
  <2>2. Knows(e, q)
    BY <2>1 DEF First, LoopInv
  <2>3. QED
    BY <2>1, <2>2 DEF Knows, recv
<1>3. QED
  BY <1>1, <1>2

LEMMA StatInv ==
    ASSUME Inv, UNCHANGED recv, NEW d \in Serials, Stat(d)
    PROVE  Inv'
<1> USE DEF pool, recv, flags, conf
<1>1. PICK p \in Paths :
         /\ First(d, p)
         /\ \/ /\ objects[p] # Absent
               /\ loop' = [loop EXCEPT ![d].pc = "read",
                                       ![d].size = Size[objects[p]]]
               /\ UNCHANGED used
            \/ /\ IF objects[p] = Absent THEN UNCHANGED used ELSE Use("faults")
               /\ Proceed(d, p)
  BY DEF Stat
<1>2. UNCHANGED <<pool, ingested, bounds, recv, flags, conf>>
  BY DEF Stat
<1>3. used' \in [Kinds -> Nat]
  BY <1>1, UseType DEF Inv, TypeOK, Kinds
<1>4. ASSUME loop' \in [Serials -> Loop]
      PROVE  TypeOK'
  BY <1>2, <1>3, <1>4 DEF Inv, TypeOK, PoolTypeOK, RecvTypeOK, IngTypeOK
<1>5. CASE objects[p] # Absent /\ loop' = [loop EXCEPT ![d].pc = "read",
                                                       ![d].size = Size[objects[p]]]
  <2>1. objects[p] \in Contents /\ objects[p] \in sent[p] /\ Size[objects[p]] \in Nat
    BY SizeAssumption, <1>5 DEF Inv, TypeOK, PoolTypeOK, Sound, Uploaded
  <2>2. /\ loop' = [loop EXCEPT ![d] = loop'[d]]
        /\ loop'[d].pc = "read" /\ loop'[d].size = Size[objects[p]]
        /\ loop'[d].todo = loop[d].todo
    BY <1>5, LoopType DEF Inv, TypeOK, IngTypeOK
  <2>3. loop' \in [Serials -> Loop]
    <3>1. [[loop[d] EXCEPT !.pc = "read"] EXCEPT !.size = Size[objects[p]]]
             \in Loop
      BY <2>1, LoopType DEF Inv, LoopPCs
    <3>2. QED
      BY <1>5, <3>1 DEF Inv, TypeOK, IngTypeOK
  <2>4. Knows(d, p)'
    BY AbsentAssumption, <1>2, <2>1, <2>2 DEF Knows
  <2>5. LoopInv'
    BY <1>1, <1>2, <2>2, <2>4, LoopMoves DEF Inv, TypeOK, IngTypeOK
  <2>6. QED
    BY <1>2, <1>4, <2>3, <2>5, SoundStays DEF Inv
<1>6. CASE Proceed(d, p)
  <2>1. LoopInv'
    BY <1>2, <1>6, ProceedType, LoopStays DEF Inv, TypeOK, IngTypeOK
  <2>2. QED
    BY <1>2, <1>4, <1>6, <2>1, ProceedType, SoundStays DEF Inv
<1>7. QED
  BY <1>1, <1>5, <1>6

LEMMA ReadInv ==
    ASSUME Inv, UNCHANGED recv, NEW d \in Serials, Read(d)
    PROVE  Inv'
<1> USE DEF pool, recv, flags, conf
<1> DEFINE v(p) == objects[p]
<1>1. PICK p \in Paths :
         /\ First(d, p)
         /\ \/ Proceed(d, p) /\ UNCHANGED <<conf, flags>>
            \/ /\ loop' = [loop EXCEPT ![d].pc = "insert", ![d].buf = v(p),
                                       ![d].whole = Size[v(p)] = loop[d].size]
               /\ UNCHANGED <<conf, flags>>
            \/ Exit /\ UNCHANGED inManifest
  BY DEF Read
<1>2. UNCHANGED <<pool, ingested, bounds, used, recv>> /\ loop[d].pc = "read"
  BY DEF Read
<1>3. CASE Exit /\ UNCHANGED inManifest
  BY <1>2, <1>3, ExitInv DEF Inv, TypeOK
<1>4. ASSUME UNCHANGED <<conf, flags>>,
             loop' \in [Serials -> Loop]
      PROVE  TypeOK'
  BY <1>2, <1>4 DEF Inv, TypeOK, PoolTypeOK, RecvTypeOK, IngTypeOK
<1>5. CASE Proceed(d, p) /\ UNCHANGED <<conf, flags>>
  <2>1. LoopInv'
    BY <1>2, <1>5, ProceedType, LoopStays DEF Inv, TypeOK, IngTypeOK
  <2>2. QED
    BY <1>2, <1>4, <1>5, <2>1, ProceedType, SoundStays DEF Inv
<1>6. CASE /\ loop' = [loop EXCEPT ![d].pc = "insert", ![d].buf = v(p),
                                   ![d].whole = Size[v(p)] = loop[d].size]
           /\ UNCHANGED <<conf, flags>>
  <2>1. PICK x \in sent[p] : loop[d].size = Size[x]
    BY <1>1, <1>2 DEF Inv, LoopInv, Knows
  <2>2. v(p) \in sent[p] /\ v(p) \in Contents
    BY <1>1, <1>2 DEF Inv, LoopInv, Knows, Sound, Uploaded, TypeOK, PoolTypeOK
  <2>3. /\ loop' = [loop EXCEPT ![d] = loop'[d]]
        /\ loop'[d].pc = "insert" /\ loop'[d].buf = v(p)
        /\ loop'[d].whole = (Size[v(p)] = loop[d].size)
        /\ loop'[d].todo = loop[d].todo
    BY <1>6, LoopType DEF Inv, TypeOK, IngTypeOK
  <2>4. loop' \in [Serials -> Loop]
    <3>1. [[[loop[d] EXCEPT !.pc = "insert"] EXCEPT !.buf = v(p)]
              EXCEPT !.whole = (Size[v(p)] = loop[d].size)]
             \in Loop
      BY <2>2, LoopType DEF Inv, LoopPCs
    <3>2. QED
      BY <1>6, <3>1 DEF Inv, TypeOK, IngTypeOK
  <2>5. Knows(d, p)'
    <3>1. sent' = sent
      BY <1>2
    <3>2. ASSUME NEW w \in Contents, sent[p] = {w}
          PROVE  Size[v(p)] = loop[d].size
      BY <2>1, <2>2, <3>2
    <3>3. QED
      BY <2>2, <2>3, <3>1, <3>2 DEF Knows
  <2>6. LoopInv'
    BY <1>1, <1>2, <2>3, <2>5, LoopMoves DEF Inv, TypeOK, IngTypeOK
  <2>7. QED
    BY <1>2, <1>4, <1>6, <2>4, <2>6, SoundStays DEF Inv
<1>7. QED
  BY <1>1, <1>3, <1>5, <1>6

LEMMA InsertInv ==
    ASSUME Inv, UNCHANGED recv, NEW d \in Serials, Insert(d)
    PROVE  Inv'
<1> USE DEF pool, recv, flags, conf
<1>1. PICK p \in Paths :
         /\ First(d, p)
         /\ ingested' = IF loop[d].whole /\ loop[d].buf \notin Rejected
                        THEN ingested \cup {<<d, p, loop[d].buf>>} ELSE ingested
  BY DEF Insert
<1>2. /\ UNCHANGED <<pool, bounds, used, recv, conf, flags>>
      /\ loop[d].pc = "insert" /\ ingested \subseteq ingested'
      /\ loop' = [loop EXCEPT ![d].pc = "remove"]
  BY <1>1 DEF Insert
<1>3. loop[d].buf \in sent[p] /\ loop[d].buf \in Contents
  BY <1>1, <1>2 DEF Inv, LoopInv, Knows, TypeOK, RecvTypeOK
<1>4. /\ loop' = [loop EXCEPT ![d] = loop'[d]]
      /\ loop'[d].pc = "remove" /\ loop'[d].todo = loop[d].todo
  BY <1>2, LoopType DEF Inv, TypeOK, IngTypeOK
<1>5. loop' \in [Serials -> Loop]
  <2>1. [loop[d] EXCEPT !.pc = "remove"]
           \in Loop
    BY LoopType DEF Inv, LoopPCs
  <2>2. QED
    BY <1>2, <2>1 DEF Inv, TypeOK, IngTypeOK
<1>6. TypeOK'
  <2>1. ingested' \subseteq Serials \X Paths \X Contents
    BY <1>1, <1>3 DEF Inv, TypeOK, IngTypeOK
  <2>2. QED
    BY <1>2, <1>5, <2>1 DEF Inv, TypeOK, PoolTypeOK, RecvTypeOK, IngTypeOK
<1>7. Knows(d, p)'
  <2>1. ASSUME NEW w \in Contents \ Rejected, sent[p] = {w}
        PROVE  <<d, p, w>> \in ingested'
    <3>1. loop[d].whole /\ loop[d].buf = w
      BY <1>1, <1>2, <1>3, <2>1 DEF Inv, LoopInv, Knows
    <3>2. QED
      BY <1>1, <2>1, <3>1
  <2>2. QED
    BY <1>2, <1>3, <1>4, <2>1 DEF Knows
<1>8. LoopInv'
  BY <1>1, <1>2, <1>4, <1>7, LoopMoves DEF Inv, TypeOK, IngTypeOK
<1>9. QED
  BY <1>2, <1>6, <1>8, SoundStays DEF Inv

\* The one step that takes a promise off the list: what it removes is kept.
LEMMA RemoveInv ==
    ASSUME Inv, UNCHANGED recv, NEW d \in Serials, Remove(d)
    PROVE  Inv'
<1> USE DEF pool, recv, flags, conf
<1>1. PICK p \in Paths :
         /\ First(d, p)
         /\ \/ gen' = gen \ {p} /\ UNCHANGED used
            \/ UNCHANGED gen /\ Use("faults")
         /\ IF alive THEN Proceed(d, p)
            ELSE loop' = [loop EXCEPT ![d] = [Off EXCEPT !.pc = "check"]]
  BY DEF Remove
<1>2. UNCHANGED <<objects, master, ingested, bounds, recv, conf, flags>>
      /\ loop[d].pc = "remove"
  BY DEF Remove
<1>3. /\ loop' = [loop EXCEPT ![d] = loop'[d]]
      /\ loop' \in [Serials -> Loop]
      /\ loop'[d].pc \notin {"read", "insert", "remove"}
  <2>1. CASE alive
    BY <1>1, <2>1, ProceedType DEF Inv
  <2>2. CASE ~alive
    <3>1. loop' = [loop EXCEPT ![d] = [Off EXCEPT !.pc = "check"]]
      BY <1>1, <2>2
    <3>2. QED
      BY <3>1, OffType DEF Inv, TypeOK, IngTypeOK, LoopPCs
  <2>3. QED
    BY <2>1, <2>2
<1>4. TypeOK'
  <2>1. used' \in [Kinds -> Nat]
    BY <1>1, UseType DEF Inv, TypeOK, Kinds
  <2>2. QED
    BY <1>1, <1>2, <1>3, <2>1 DEF Inv, TypeOK, PoolTypeOK, RecvTypeOK, IngTypeOK
<1>5. PromisedIsSafe'
  <2> SUFFICES ASSUME NEW q \in Paths, Promised(q), NEW w \in Contents \ Rejected,
                      sent[q] = {w}
               PROVE  \/ \E e \in Serials : <<e, q, w>> \in ingested
                      \/ objects[q] = w /\ q \in gen' /\ q \in master
    BY <1>2 DEF PromisedIsSafe, Promised, Safe
  <2>1. CASE q = p
    BY <1>1, <1>2, <2>1 DEF Inv, LoopInv, Knows
  <2>2. CASE q # p
    <3>1. q \in gen => q \in gen'
      BY <1>1, <2>2
    <3>2. Safe(q)
      BY DEF Inv, Sound, PromisedIsSafe
    <3>3. QED
      BY <3>1, <3>2 DEF Safe
  <2>3. QED
    BY <2>1, <2>2
<1>6. HandlersInOrder' /\ Uploaded' /\ ListedIsStored'
  BY <1>1, <1>2 DEF Inv, Sound, HandlersInOrder, Uploaded, ListedIsStored
<1>7. LoopInv'
  BY <1>2, <1>3, LoopStays DEF Inv, TypeOK, IngTypeOK
<1>8. QED
  BY <1>4, <1>5, <1>6, <1>7 DEF Inv, Sound

LEMMA IngNextInv ==
    ASSUME Inv, IngNext, UNCHANGED recv
    PROVE  Inv'
BY SteeringInv, WalkInv, StatInv, ReadInv, InsertInv, RemoveInv
   DEF IngNext, Process

LEMMA NextInv == Inv /\ [Next]_vars => Inv'
<1> SUFFICES ASSUME Inv, [Next]_vars PROVE Inv'
  OBVIOUS
<1>1. CASE Next
  BY <1>1, RecvNextInv, IngNextInv DEF Next
<1>2. CASE UNCHANGED vars
  <2>1. TypeOK'
    BY <1>2 DEF vars, pool, recv, ing, Inv, TypeOK, PoolTypeOK, RecvTypeOK, IngTypeOK
  <2>2. UNCHANGED <<pool, recv, loop, ingested>>
    BY <1>2 DEF vars, ing
  <2>3. QED
    BY <2>1, <2>2, SoundStays, LoopStays DEF Inv, pool
<1>3. QED
  BY <1>1, <1>2

-----------------------------------------------------------------------------
(* The inductive invariant: the receiver's goroutines have written what they
   go on to list and confirm, and the ingester's loops have inserted what they
   go on to take off the list. *)
THEOREM PipelineInvariant == Spec => []Inv
BY InitInv, NextInv, PTL DEF Spec

(* The variables of the pool, the receiver and the ingester keep their types. *)
THEOREM TypeCorrect == Spec => []TypeOK
<1>1. Inv => TypeOK
  BY DEF Inv
<1>2. QED
  BY <1>1, PipelineInvariant, PTL

(* Whatever is listed for the ingester is stored and in the master list. *)
THEOREM ListIsBacked == Spec => []ListedIsStored
<1>1. Inv => ListedIsStored
  BY DEF Inv, Sound
<1>2. QED
  BY <1>1, PipelineInvariant, PTL

(* A confirmed file with one content that BTrDB takes is in BTrDB, or stored
   and listed for the ingester, in every scenario. *)
THEOREM ConfirmedIsKept == Spec => []AckedIsKept
<1>1. Inv => AckedIsKept
  <2> SUFFICES ASSUME Inv, NEW p \in Paths, acked[p] # Absent,
                      sent[p] = {acked[p]}, acked[p] \notin Rejected
               PROVE  \/ \E d \in Serials : <<d, p, acked[p]>> \in ingested
                      \/ objects[p] = acked[p] /\ p \in gen /\ p \in master
    BY DEF AckedIsKept
  <2>1. acked[p] \in Contents
    BY DEF Inv, TypeOK, RecvTypeOK
  <2>2. QED
    BY <2>1 DEF Inv, Sound, PromisedIsSafe, Promised, Safe
<1>2. QED
  BY <1>1, PipelineInvariant, PTL
==============================================================================
