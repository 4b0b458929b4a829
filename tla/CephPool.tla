------------------------------- MODULE CephPool -------------------------------
(***************************************************************************)
(* The part of the Ceph pool that the uPMU receiver and the ingester share: *)
(* the uploaded files, the master list of their names, and the list of the *)
(* names that one generation of the ingester has still to process.  Each   *)
(* operation is atomic in Ceph; nothing is atomic across two of them.      *)
(*                                                                         *)
(* A file name contains the serial number of the uPMU that sent it, in     *)
(* lower case, so names stand for objects, and are numbered in the order   *)
(* of their keys.                                                          *)
(***************************************************************************)
EXTENDS Integers, FiniteSets

CONSTANTS Serials,    \* serial numbers, as uPMUs and the manifest spell them
          Lower,      \* a serial number in lower case
          Paths,      \* object names, as naturals
          Serial,     \* the serial number in a name
          Contents,   \* what a file can hold
          Absent      \* no content

ASSUME PathsAssumption ==
    /\ Paths \subseteq Nat
    /\ Lower \in [Serials -> Serials]
    /\ Serial \in [Paths -> Serials]
    /\ \A p \in Paths : Lower[Serial[p]] = Serial[p]
ASSUME AbsentAssumption == Absent \notin Contents

VARIABLES objects,    \* the file stored under a name, or Absent
          master,     \* omap of meta.master
          gen         \* omap of meta.gen.<generation>

\* The bounds of a behaviour, and how much of each has been used.
VARIABLES bounds, used

pool == <<objects, master, gen>>

PoolTypeOK ==
    /\ objects \in [Paths -> Contents \cup {Absent}]
    /\ master \subseteq Paths
    /\ gen \subseteq Paths

PoolInit ==
    /\ objects = [p \in Paths |-> Absent]
    /\ master = {}
    /\ gen = {}

\* One more of the events that the scenario limits.
Use(kind) ==
    /\ used[kind] < bounds[kind]
    /\ used' = [used EXCEPT ![kind] = @ + 1]
===============================================================================
