----------------------------- MODULE RowLog -----------------------------
(***************************************************************************)
(* What the storage servers promise about the writes of a tablet, without  *)
(* saying how: each row is a log that only the primary extends, every      *)
(* replica holds a prefix of the primary's log, and a write is             *)
(* acknowledged only once it is in every replica's copy.                   *)
(***************************************************************************)
EXTENDS Integers, Sequences

CONSTANTS Requests, Rows, N

Replicas == 1 .. N

VARIABLES
  copies,  \* replica -> row -> sequence of requests; replica 1 is the primary
  acked    \* the requests answered OK

logVars == <<copies, acked>>

Holds(s, w, r) == \E i \in 1 .. Len(copies[s][w]) : copies[s][w][i] = r

LogInit ==
  /\ copies = [s \in Replicas |-> [w \in Rows |-> <<>>]]
  /\ acked  = {}

(* The primary puts a new write at the end of its row's log.               *)
Commit(r, w) ==
  /\ \A v \in Rows : ~ Holds(1, v, r)
  /\ copies' = [copies EXCEPT ![1][w] = Append(@, r)]
  /\ UNCHANGED acked

(* A replica takes over the next write of the primary's log.               *)
CatchUp(s, w) ==
  /\ s # 1
  /\ Len(copies[s][w]) < Len(copies[1][w])
  /\ copies' = [copies EXCEPT ![s][w] = Append(@, copies[1][w][Len(@) + 1])]
  /\ UNCHANGED acked

Acknowledge(r) ==
  /\ r \notin acked
  /\ \E w \in Rows : \A s \in Replicas : Holds(s, w, r)
  /\ acked' = acked \cup {r}
  /\ UNCHANGED copies

LogNext ==
  \/ \E r \in Requests, w \in Rows : Commit(r, w)
  \/ \E s \in Replicas, w \in Rows : CatchUp(s, w)
  \/ \E r \in Requests : Acknowledge(r)

LogSpec == LogInit /\ [][LogNext]_logVars

-----------------------------------------------------------------------------
(* What a client may conclude from it.  A copy of a row is a beginning of  *)
(* the primary's; a write has one place in the logs of all rows; and one   *)
(* that is acknowledged is in every copy of its row.                       *)
CopiesArePrefixes ==
  \A s \in Replicas, w \in Rows :
    /\ Len(copies[s][w]) <= Len(copies[1][w])
    /\ \A i \in 1 .. Len(copies[s][w]) : copies[s][w][i] = copies[1][w][i]

CommittedOnce ==
  \A v, w \in Rows : \A i \in 1 .. Len(copies[1][v]), j \in 1 .. Len(copies[1][w]) :
    copies[1][v][i] = copies[1][w][j] => v = w /\ i = j

AckedInEveryCopy ==
  \A r \in acked : \E w \in Rows : \A s \in Replicas : Holds(s, w, r)

LogPromise == CopiesArePrefixes /\ CommittedOnce /\ AckedInEveryCopy

(* A step changes no copy but at its end, and withdraws no acknowledgement.*)
Extends ==
  /\ acked \subseteq acked'
  /\ \A s \in Replicas, w \in Rows :
       /\ Len(copies[s][w]) <= Len(copies'[s][w])
       /\ \A i \in 1 .. Len(copies[s][w]) : copies'[s][w][i] = copies[s][w][i]

NothingTakenBack == [][Extends]_logVars
=============================================================================
