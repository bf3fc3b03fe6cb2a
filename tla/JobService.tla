---------------------------- MODULE JobService ----------------------------
(***************************************************************************)
(* What a Queuer (internal/queue/queue.go) promises to those who push jobs *)
(* and to the one who terminates it: a pushed job is accepted or turned    *)
(* away; an accepted job is run, once; Terminate waits until no accepted   *)
(* job is left, and nothing is accepted afterwards.                        *)
(***************************************************************************)
CONSTANT Jobs

VARIABLES
  status,    (* "new", "refused", "accepted" or "run", for each job        *)
  closed     (* Terminate has waited                                       *)

vars == <<status, closed>>

Init == status = [j \in Jobs |-> "new"] /\ closed = FALSE

Moves(j, from, to) ==
  /\ status[j] = from
  /\ status' = [status EXCEPT ![j] = to]
  /\ UNCHANGED closed

(* Push, and Job() on some worker.                                         *)
Accept(j) == ~closed /\ Moves(j, "new", "accepted")
Refuse(j) == Moves(j, "new", "refused")
Execute(j) == Moves(j, "accepted", "run")

(* Terminate.                                                              *)
Close ==
  /\ ~closed
  /\ \A j \in Jobs : status[j] # "accepted"
  /\ closed' = TRUE
  /\ UNCHANGED status

Next == Close \/ \E j \in Jobs : Accept(j) \/ Refuse(j) \/ Execute(j)

Spec == Init /\ [][Next]_vars
=============================================================================
