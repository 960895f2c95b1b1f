------------------------- MODULE NamespaceOwnership -------------------------
(***************************************************************************)
(* What the preparation of the bwu directories promises, without saying    *)
(* how: every node of the file system is held exclusively by one user or   *)
(* by nobody, a node once held stays with its holder, and a run of a       *)
(* binary succeeds only when its user holds every directory the run needs. *)
(* OwnerOnlyDirs, which models the system calls of paths.rs one by one,    *)
(* implements this specification under the mapping given there.            *)
(***************************************************************************)
CONSTANTS
  Procs,      (* processes of bwu and bwu-agent                            *)
  Users,      (* user ids                                                  *)
  Euid,       (* effective user of each process                            *)
  Nodes,      (* path components that may exist in the file system         *)
  NoUser      (* holder of a node that is not exclusively anybody's        *)

VARIABLES
  holder,     (* holder[n]: the user whose owner-only directory n is       *)
  needs,      (* needs[p]: directories the current run of p must prepare   *)
  status      (* status[p]: "idle", "running", "ok" or "failed"            *)

absVars == <<holder, needs, status>>

Init ==
  /\ holder \in [Nodes -> Users \cup {NoUser}]
  /\ needs  = [p \in Procs |-> {}]
  /\ status = [p \in Procs |-> "idle"]

(* A run begins; whatever an earlier run of p returned is forgotten. *)
Begin(p) ==
  /\ status[p] # "running"
  /\ status' = [status EXCEPT ![p] = "running"]
  /\ \E ns \in SUBSET Nodes : needs' = [needs EXCEPT ![p] = ns]
  /\ UNCHANGED holder

(* A running process makes a node that nobody holds exclusively its user's. *)
Claim(p, n) ==
  /\ status[p] = "running"
  /\ holder[n] = NoUser
  /\ holder' = [holder EXCEPT ![n] = Euid[p]]
  /\ UNCHANGED <<needs, status>>

(* The run reports success, which it may do only as the holder of all it needs. *)
Succeed(p) ==
  /\ status[p] = "running"
  /\ \A n \in needs[p] : holder[n] = Euid[p]
  /\ status' = [status EXCEPT ![p] = "ok"]
  /\ UNCHANGED <<holder, needs>>

(* The run gives up, or the process is killed: what it claimed stays claimed. *)
GiveUp(p, s) ==
  /\ status[p] = "running"
  /\ status' = [status EXCEPT ![p] = s]
  /\ UNCHANGED <<holder, needs>>

Next ==
  \E p \in Procs :
    \/ Begin(p)
    \/ \E n \in Nodes : Claim(p, n)
    \/ Succeed(p)
    \/ \E s \in {"failed", "idle"} : GiveUp(p, s)

Spec == Init /\ [][Next]_absVars

-----------------------------------------------------------------------------

(* After a successful run its user holds all the run needed, until the     *)
(* next run begins, and longer.                                            *)
OkHolds == \A p \in Procs : status[p] = "ok" => \A n \in needs[p] : holder[n] = Euid[p]

(* What a user holds, the user holds for good.                             *)
HeldForGood == [][\A n \in Nodes : holder[n] # NoUser => holder'[n] = holder[n]]_absVars
=============================================================================
