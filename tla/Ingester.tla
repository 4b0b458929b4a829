------------------------------- MODULE Ingester -------------------------------
(***************************************************************************)
(* tools/ingester: the program that moves the uploaded files of the uPMUs  *)
(* of the manifest into BTrDB.  A goroutine per uPMU lists the names that  *)
(* start with its serial number, reads, parses and inserts each file, and  *)
(* takes its name off the list.  All of them, the goroutine that hears     *)
(* interrupts and the one that watches the manifest share two plain        *)
(* variables with the main loop: alive and terminate.                      *)
(***************************************************************************)
EXTENDS CephPool

CONSTANTS Matches,      \* the names that start with a serial number as spelled
          Size,         \* the length of a content
          Poison,       \* contents that make the parser exit the program
          Rejected,     \* contents of which nothing is inserted
          Limit,        \* how many names are listed at once
          NumIngest     \* NUM_RHANDLES of the ingester

ASSUME MatchesAssumption ==
    /\ Matches \in [Serials -> SUBSET Paths]
    /\ \A p \in Paths : p \in Matches[Serial[p]]
ASSUME SizeAssumption == Size \in [Contents -> Nat]

VARIABLES inManifest,   \* etcd: the uPMUs of the manifest
          watch,        \* what the watch of the manifest has still to assign
          alive, terminate, main, crew,
          loop,         \* the goroutine of a uPMU
          ingested      \* BTrDB: whose streams hold which content of which name

ing == <<inManifest, watch, alive, terminate, main, crew, loop, ingested>>

Off == [pc |-> "off", todo |-> {}, size |-> 0, buf |-> Absent, whole |-> FALSE]

LoopPCs == {"off", "check", "handle", "list", "stat", "read", "insert",
            "remove", "pause", "done"}

Loop == [pc : LoopPCs, todo : SUBSET Paths, size : Nat,
         buf : Contents \cup {Absent}, whole : BOOLEAN]

IngTypeOK ==
    /\ inManifest \subseteq Serials
    /\ watch \in Nat
    /\ alive \in BOOLEAN /\ terminate \in BOOLEAN
    /\ main \in {"down", "flags", "fetch", "run", "sleep"}
    /\ crew \subseteq Serials
    /\ loop \in [Serials -> Loop]
    /\ ingested \subseteq Serials \X Paths \X Contents

IngInit ==
    /\ inManifest = bounds.serials
    /\ watch = 0
    /\ alive = TRUE /\ terminate = FALSE
    /\ main = "down"
    /\ crew = {}
    /\ loop = [d \in Serials |-> Off]
    /\ ingested = {}

\* The whole program ends: a panic, os.Exit, the return of main, the pod.
Exit ==
    /\ main' = "down"
    /\ loop' = [d \in Serials |-> Off]
    /\ crew' = {}
    /\ watch' = 0
    /\ alive' = TRUE /\ terminate' = FALSE

flags == <<alive, terminate>>
conf  == <<inManifest, watch, main, crew>>

-----------------------------------------------------------------------------
(* The main loop and the two goroutines that steer it. *)

Boot ==
    /\ main = "down"
    /\ main' = "flags"
    /\ UNCHANGED <<pool, inManifest, watch, crew, loop, ingested, bounds, used>>
    /\ UNCHANGED flags

SetFlags ==
    /\ main = "flags"
    /\ alive' = TRUE /\ terminate' = TRUE
    /\ main' = "fetch"
    /\ UNCHANGED <<pool, inManifest, watch, crew, loop, ingested>>
    /\ UNCHANGED <<bounds, used>>

\* The manifest is read and a process loop started for each uPMU.
Fetch ==
    /\ main = "fetch"
    /\ crew' = inManifest
    /\ loop' = [d \in Serials |-> IF d \in inManifest
                                  THEN [Off EXCEPT !.pc = "check"] ELSE Off]
    /\ main' = "run"
    /\ UNCHANGED <<pool, inManifest, watch, ingested, bounds, used>>
    /\ UNCHANGED flags

\* wg.Wait returns (with no uPMU, the wait for alive to turn false), and the
\* loop condition is tested.
Join ==
    /\ main = "run"
    /\ IF crew = {} THEN ~alive ELSE \A d \in crew : loop[d].pc = "done"
    /\ IF terminate
       THEN Exit /\ UNCHANGED inManifest
       ELSE /\ main' = "sleep"
            /\ UNCHANGED <<inManifest, watch, crew, loop>> /\ UNCHANGED flags
    /\ UNCHANGED <<pool, ingested, bounds, used>>

\* The 15 seconds before a restart are over.
Wake ==
    /\ main = "sleep"
    /\ main' = "flags"
    /\ UNCHANGED <<pool, inManifest, watch, crew, loop, ingested, bounds, used>>
    /\ UNCHANGED flags

Interrupt ==
    /\ main # "down"
    /\ Use("signals")
    /\ alive' = FALSE
    /\ UNCHANGED <<pool, loop, ingested, terminate, bounds>> /\ UNCHANGED conf

EditManifest(d) ==
    /\ d \in bounds.serials
    /\ Use("edits")
    /\ inManifest' = IF d \in inManifest THEN inManifest \ {d}
                                         ELSE inManifest \cup {d}
    /\ watch' = IF main = "down" THEN watch ELSE watch + 2
    /\ UNCHANGED <<pool, main, crew, loop, ingested, bounds>> /\ UNCHANGED flags

\* Mutant: a change of the manifest leaves the loops running.
HearChangeKeepsAlive ==
    /\ watch > 0
    /\ watch' = watch - 1
    /\ terminate' = FALSE
    /\ UNCHANGED <<pool, inManifest, main, crew, loop, ingested>>
    /\ UNCHANGED <<alive, bounds, used>>

\* The watch delivers a change: one assignment, then the other.
HearChange ==
    /\ watch > 0
    /\ watch' = watch - 1
    /\ IF watch % 2 = 0 THEN terminate' = FALSE /\ UNCHANGED alive
                        ELSE alive' = FALSE /\ UNCHANGED terminate
    /\ UNCHANGED <<pool, inManifest, main, crew, loop, ingested>>
    /\ UNCHANGED <<bounds, used>>

\* A panic anywhere or the end of the pod.
IngCrash ==
    /\ main # "down"
    /\ Use("crashes")
    /\ Exit
    /\ UNCHANGED <<pool, inManifest, ingested, bounds>>

-----------------------------------------------------------------------------
(* process_loop and process, for the uPMU d. *)

Holders == {d \in Serials :
               loop[d].pc \in {"list", "stat", "read", "insert", "remove"}}

\* The first names on the list that start with the serial number, which is
\* taken as the manifest spells it: no name starts with one in upper case.
Listed(d) ==
    LET found == gen \cap Matches[d]
    IN  {p \in found : Cardinality({q \in found : q < p}) < Limit}

First(d, p) == p \in loop[d].todo /\ \A q \in loop[d].todo : p <= q

\* On to the next name, or out of process() if this was the last one.
Proceed(d, p) ==
    loop' = [loop EXCEPT ![d] =
                [Off EXCEPT !.pc = IF loop[d].todo = {p} THEN "check" ELSE "stat",
                            !.todo = loop[d].todo \ {p}]]

Check(d) ==
    /\ loop[d].pc = "check"
    /\ loop' = [loop EXCEPT ![d].pc = IF alive THEN "handle" ELSE "done"]
    /\ UNCHANGED <<pool, ingested, bounds, used, conf, flags>>

GetHandle(d) ==
    /\ loop[d].pc = "handle"
    /\ Cardinality(Holders) < NumIngest
    /\ loop' = [loop EXCEPT ![d].pc = "list"]
    /\ UNCHANGED <<pool, ingested, bounds, used, conf, flags>>

\* GetOmapValues.  On an error the whole program is to stop.
List(d) ==
    /\ loop[d].pc = "list"
    /\ \/ /\ loop' = [loop EXCEPT ![d] =
                        [Off EXCEPT !.pc = IF Listed(d) = {} THEN "pause" ELSE "stat",
                                    !.todo = Listed(d)]]
          /\ UNCHANGED <<alive, used>>
       \/ /\ Use("faults")
          /\ loop' = [loop EXCEPT ![d].pc = "pause"]
          /\ alive' = FALSE
    /\ UNCHANGED <<pool, ingested, bounds, terminate>>
    /\ UNCHANGED conf

\* No documents found: up to 100 seconds of sleep.
Pause(d) ==
    /\ loop[d].pc = "pause"
    /\ loop' = [loop EXCEPT ![d].pc = "check"]
    /\ UNCHANGED <<pool, ingested, bounds, used, conf, flags>>

\* Stat; a file that cannot be looked at is skipped.
Stat(d) ==
    /\ loop[d].pc = "stat"
    /\ \E p \in Paths :
          /\ First(d, p)
          /\ \/ /\ objects[p] # Absent
                /\ loop' = [loop EXCEPT ![d].pc = "read",
                                        ![d].size = Size[objects[p]]]
                /\ UNCHANGED used
             \/ /\ IF objects[p] = Absent THEN UNCHANGED used ELSE Use("faults")
                /\ Proceed(d, p)
    /\ UNCHANGED <<pool, ingested, bounds, conf, flags>>

\* Read as many bytes as Stat said, and parse them.  A read that is shorter
\* than that is skipped; a content that has grown since comes in part.
Read(d) ==
    /\ loop[d].pc = "read"
    /\ \E p \in Paths :
          /\ First(d, p)
          /\ LET v == objects[p] IN
             \/ /\ Size[v] < loop[d].size
                /\ Proceed(d, p)
                /\ UNCHANGED <<conf, flags>>
             \/ /\ Size[v] >= loop[d].size
                /\ v \notin Poison
                /\ loop' = [loop EXCEPT ![d].pc = "insert", ![d].buf = v,
                                        ![d].whole = Size[v] = loop[d].size]
                /\ UNCHANGED <<conf, flags>>
             \/ /\ Size[v] >= loop[d].size
                /\ v \in Poison \/ Size[v] > loop[d].size
                /\ Exit
                /\ UNCHANGED inManifest
    /\ UNCHANGED <<pool, ingested, bounds, used>>

\* The inserts of all streams.  Any error but two panics (IngCrash); BTrDB
\* refusing for lack of resources is a step that does not come.
Insert(d) ==
    /\ loop[d].pc = "insert"
    /\ \E p \in Paths :
          /\ First(d, p)
          /\ ingested' = IF loop[d].whole /\ loop[d].buf \notin Rejected
                         THEN ingested \cup {<<d, p, loop[d].buf>>} ELSE ingested
    /\ loop' = [loop EXCEPT ![d].pc = "remove"]
    /\ UNCHANGED <<pool, bounds, used, conf, flags>>

\* Mutant: all the names that were listed are removed with the first.
RemoveAll(d) ==
    /\ loop[d].pc = "remove"
    /\ \E p \in Paths :
          /\ First(d, p)
          /\ gen' = gen \ loop[d].todo
          /\ IF alive THEN Proceed(d, p)
             ELSE loop' = [loop EXCEPT ![d] = [Off EXCEPT !.pc = "check"]]
    /\ UNCHANGED <<objects, master, ingested, bounds, used, conf, flags>>

\* The name is taken off the list, or is not: the error is dropped.
Remove(d) ==
    /\ loop[d].pc = "remove"
    /\ \E p \in Paths :
          /\ First(d, p)
          /\ \/ gen' = gen \ {p} /\ UNCHANGED used
             \/ UNCHANGED gen /\ Use("faults")
          /\ IF alive THEN Proceed(d, p)
             ELSE loop' = [loop EXCEPT ![d] = [Off EXCEPT !.pc = "check"]]
    /\ UNCHANGED <<objects, master, ingested, bounds, conf, flags>>

Process(d) ==
    Check(d) \/ GetHandle(d) \/ List(d) \/ Pause(d) \/ Stat(d) \/ Read(d)
    \/ Insert(d) \/ Remove(d)

MainLoop == Boot \/ SetFlags \/ Fetch \/ Join \/ Wake

IngNext ==
    \/ MainLoop \/ HearChange \/ Interrupt \/ IngCrash
    \/ \E d \in Serials : EditManifest(d) \/ Process(d)
===============================================================================
