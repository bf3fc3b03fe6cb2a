--------------------------- MODULE LastWriteStore ---------------------------
(***************************************************************************)
(* What internal/batch promises to the jobs that hand it records: records  *)
(* are accepted into one line, leave it from the front in batches, and a   *)
(* batch that reaches the table leaves for each object the last record the *)
(* batch holds of it ("last write for a given global_uid wins").  A batch  *)
(* may be lost as a whole; it is never written in part or out of order.    *)
(***************************************************************************)
EXTENDS Naturals, Sequences

CONSTANTS
  UIDs,       (* the global_uids of the objects                            *)
  Record,     (* records; r.uid is the object and r.n the data             *)
  NoRecord    (* an object that has no row                                 *)

VARIABLES
  pending,    (* accepted records, oldest first                            *)
  db          (* the data of each object's row                             *)

vars == <<pending, db>>

Init == pending = <<>> /\ db = [u \in UIDs |-> NoRecord]

(* The position of the last record of object u in the batch.               *)
LastOf(batch, u) ==
  CHOOSE i \in 1..Len(batch) :
    /\ batch[i].uid = u
    /\ \A k \in i + 1..Len(batch) : batch[k].uid # u

(* The rows after the batch is written: last write wins.                   *)
Overwritten(batch) ==
  [u \in UIDs |-> IF \E i \in 1..Len(batch) : batch[i].uid = u
                    THEN batch[LastOf(batch, u)].n ELSE db[u]]

First(k) == SubSeq(pending, 1, k)
Rest(k) == SubSeq(pending, k + 1, Len(pending))

Accept ==
  /\ pending' \in Seq(Record)
  /\ pending' # <<>>
  /\ pending = SubSeq(pending', 1, Len(pending') - 1)
  /\ UNCHANGED db

Commit(k) == db' = Overwritten(First(k)) /\ pending' = Rest(k)

Lose(k) == pending' = Rest(k) /\ UNCHANGED db

Next ==
  \/ Accept
  \/ \E k \in 1..Len(pending) : Commit(k) \/ Lose(k)

Spec == Init /\ [][Next]_vars
=============================================================================
