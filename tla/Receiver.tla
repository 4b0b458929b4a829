------------------------------- MODULE Receiver -------------------------------
(***************************************************************************)
(* tools/receiver: uPMUs upload files over TCP connections; the receiver   *)
(* stores a file, enters its name in two lists and then confirms it.  A    *)
(* goroutine serves each connection, and a goroutine whose connection has  *)
(* broken still finishes with the file it has.  Any error of Ceph panics,  *)
(* which ends the process with all its goroutines.                         *)
(*                                                                         *)
(* The uPMU (tools/simulator/upmusim.go) sends one file at a time and      *)
(* waits for its confirmation.  When the connection breaks it uploads      *)
(* again: the same file, or, where the scenario has rewrites, one with     *)
(* other contents under the same name, as a restarted simulator does.      *)
(***************************************************************************)
EXTENDS CephPool

CONSTANTS Conns,        \* slots for connections
          NumHandles    \* NUM_RHANDLES of the receiver

VARIABLES handler,      \* the goroutine of a connection
          acked,        \* the content last confirmed to the uPMU for a name
          sent          \* the contents uploaded under a name so far

recv == <<handler, acked, sent>>

Free == [pc |-> "free", serial |-> Absent, path |-> Absent, content |-> Absent,
         open |-> FALSE]

HandlerPCs == {"queued", "write", "master", "gen", "reply"}

Handler == {Free} \cup [pc : HandlerPCs, serial : Serials, path : Paths,
                        content : Contents, open : BOOLEAN]

RecvTypeOK ==
    /\ handler \in [Conns -> Handler]
    /\ acked \in [Paths -> Contents \cup {Absent}]
    /\ sent \in [Paths -> SUBSET Contents]

RecvInit ==
    /\ handler = [c \in Conns |-> Free]
    /\ acked = [p \in Paths |-> Absent]
    /\ sent = [p \in Paths |-> {}]

Goto(c, pc) == handler' = [handler EXCEPT ![c].pc = pc]

\* rhPool: a goroutine has a handle from before its first write until
\* processMessage returns.
Holding == {c \in Conns : handler[c].pc \in {"write", "master", "gen"}}

Waiting(s) ==
    \E c \in Conns : handler[c].open /\ handler[c].serial = s

-----------------------------------------------------------------------------
\* The uPMU of serial number s, if it waits for nothing, uploads a file, on a
\* new connection or an old one; handlePMUConn has it complete and calls
\* processMessage, which puts s in lower case into the name.
Upload(c, s, p, v) ==
    /\ handler[c] = Free
    /\ s \in bounds.upmus /\ ~Waiting(s)
    /\ Lower[s] = Serial[p]
    /\ p \in bounds.paths /\ v \in bounds.contents
    /\ IF sent[p] \subseteq {v} /\ acked[p] = Absent
       THEN UNCHANGED used
       ELSE Use("rewrites")
    /\ handler' = [handler EXCEPT ![c] =
                      [pc |-> "queued", serial |-> s, path |-> p,
                       content |-> v, open |-> TRUE]]
    /\ sent' = [sent EXCEPT ![p] = @ \cup {v}]
    /\ UNCHANGED <<pool, acked, bounds>>

\* The connection breaks, or the uPMU goes away.
Break(c) ==
    /\ handler[c].open
    /\ Use("breaks")
    /\ handler' = [handler EXCEPT ![c].open = FALSE]
    /\ UNCHANGED <<pool, acked, sent, bounds>>

TakeHandle(c) ==
    /\ handler[c].pc = "queued"
    /\ Cardinality(Holding) < NumHandles
    /\ Goto(c, "write")
    /\ UNCHANGED <<pool, acked, sent, bounds, used>>

\* Mutant: the name is listed for the ingester before the data is written.
WriteListsFirst(c) ==
    /\ handler[c].pc = "write"
    /\ gen' = gen \cup {handler[c].path}
    /\ Goto(c, "master")
    /\ UNCHANGED <<objects, master, acked, sent, bounds, used>>

Write(c) ==
    /\ handler[c].pc = "write"
    /\ objects' = [objects EXCEPT ![handler[c].path] = handler[c].content]
    /\ Goto(c, "master")
    /\ UNCHANGED <<master, gen, acked, sent, bounds, used>>

ListInMaster(c) ==
    /\ handler[c].pc = "master"
    /\ master' = master \cup {handler[c].path}
    /\ Goto(c, "gen")
    /\ UNCHANGED <<objects, gen, acked, sent, bounds, used>>

\* Mutant: the name is listed only if the master list did not have it.
ListOnlyNew(c) ==
    /\ handler[c].pc = "gen"
    /\ Goto(c, "reply")
    /\ UNCHANGED <<pool, acked, sent, bounds, used>>

ListInGen(c) ==
    /\ handler[c].pc = "gen"
    /\ gen' = gen \cup {handler[c].path}
    /\ Goto(c, "reply")
    /\ UNCHANGED <<objects, master, acked, sent, bounds, used>>

\* The confirmation is written to the connection, if that is still open.
Reply(c) ==
    /\ handler[c].pc = "reply"
    /\ handler' = [handler EXCEPT ![c] = Free]
    /\ acked' = IF handler[c].open
                THEN [acked EXCEPT ![handler[c].path] = handler[c].content]
                ELSE acked
    /\ UNCHANGED <<pool, sent, bounds, used>>

\* logger.Panicf, or the end of the pod.  It is back at once.
RecvCrash ==
    /\ \E c \in Conns : handler[c] # Free
    /\ Use("crashes")
    /\ handler' = [c \in Conns |-> Free]
    /\ UNCHANGED <<pool, acked, sent, bounds>>

Serve(c) ==
    TakeHandle(c) \/ Write(c) \/ ListInMaster(c) \/ ListInGen(c) \/ Reply(c)

RecvNext ==
    \/ \E c \in Conns :
          \/ \E s \in Serials, p \in Paths, v \in Contents : Upload(c, s, p, v)
          \/ Break(c)
          \/ Serve(c)
    \/ RecvCrash
===============================================================================
