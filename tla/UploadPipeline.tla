---------------------------- MODULE UploadPipeline ----------------------------
(***************************************************************************)
(* The receiver and the ingester over the pool they share: what becomes of *)
(* a file that a uPMU has uploaded.  They take no lock and no transaction  *)
(* spans two operations of the pool, so their steps interleave freely.     *)
(*                                                                         *)
(* A scenario fixes the paths, contents, uPMUs (by the serial numbers they *)
(* send) and serials of the manifest of a behaviour and how many rewrites, *)
(* broken connections, crashes, interrupts, changes of the manifest and    *)
(* errors of Ceph it has.                                                  *)
(***************************************************************************)
EXTENDS Receiver, Ingester

CONSTANT Scenarios

Kinds == {"rewrites", "breaks", "crashes", "signals", "edits", "faults"}

ASSUME ScenariosAssumption ==
    \A s \in Scenarios :
       /\ s.paths \subseteq Paths /\ s.contents \subseteq Contents
       /\ s.serials \subseteq Serials /\ s.upmus \subseteq Serials
       /\ \A k \in Kinds : s[k] \in Nat

vars == <<pool, bounds, used, recv, ing>>

Init ==
    /\ bounds \in Scenarios
    /\ used = [k \in Kinds |-> 0]
    /\ PoolInit /\ RecvInit /\ IngInit

Next ==
    \/ RecvNext /\ UNCHANGED ing
    \/ IngNext /\ UNCHANGED recv

\* The main loop and the goroutines of the program run whenever they can, and
\* the pod is started again when the program ends.  Goroutines that wait for
\* one handle get it in the order in which they came.  Nothing is assumed of
\* the receiver, the uPMUs, interrupts, errors and changes of the manifest.
Fairness ==
    /\ WF_vars(MainLoop /\ UNCHANGED recv)
    /\ WF_vars(HearChange /\ UNCHANGED recv)
    /\ \A d \in Serials :
          /\ WF_vars(Process(d) /\ UNCHANGED recv)
          /\ SF_vars(GetHandle(d) /\ UNCHANGED recv)

Spec == Init /\ [][Next]_vars /\ Fairness

-----------------------------------------------------------------------------
(* Properties. *)

TypeOK ==
    /\ bounds \in Scenarios
    /\ used \in [Kinds -> Nat]
    /\ PoolTypeOK /\ RecvTypeOK /\ IngTypeOK

\* A name that only the process loop of its own uPMU lists.
Unambiguous(p) == \A d \in Serials : p \in Matches[d] => d = Serial[p]

\* The pool's two lists never run ahead of its data: whatever the ingester is
\* told to process has been stored and is in the master list, at every point
\* of an upload and of the crash of the receiver in it (processMessage).
ListedIsStored == \A p \in gen : p \in master /\ objects[p] # Absent

\* A confirmed file is never lost: unless another file was uploaded under its
\* name, or BTrDB refuses its data, it is either in BTrDB or stored, listed in
\* the master list and still to be processed, whatever crashed meanwhile.
AckedIsKept ==
    \A p \in Paths :
       /\ acked[p] # Absent
       /\ sent[p] = {acked[p]}
       /\ acked[p] \notin Rejected
       => \/ \E d \in Serials : <<d, p, acked[p]>> \in ingested
          \/ objects[p] = acked[p] /\ p \in gen /\ p \in master

\* A confirmed file reaches the streams of its uPMU, as long as the manifest has
\* the serial number in the lower case of the name (one in upper case is listed
\* in vain), the name is its own and nobody uploads what the parser dies of:
\* through crashes, interrupts, errors of Ceph and restarts of the main loop.
EventuallyIngested ==
    \A p \in Paths, v \in Contents \ (Rejected \cup Poison) :
       acked[p] = v /\ sent[p] = {v} /\ Unambiguous(p)
       ~> \/ <<Serial[p], p, v>> \in ingested
          \/ sent[p] # {v}
          \/ Serial[p] \notin inManifest
          \/ \E q \in Paths : sent[q] \cap Poison # {}

\* The process loops are in the end those of the uPMUs of the manifest, however
\* a change falls into the main loop: while it sleeps, between its assignments
\* to the flags or with an interrupt beside it (poison ends the program for
\* ever anew).
ManifestTakesEffect ==
    []<>(\/ main = "run" /\ crew = inManifest
         \/ \E q \in Paths : sent[q] \cap Poison # {})
===============================================================================
