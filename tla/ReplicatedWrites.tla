------------------------ MODULE ReplicatedWrites ------------------------
(***************************************************************************)
(* The write path of the storage servers (src/backend/storage_server.cc)   *)
(* for one tablet whose replica set does not change: a client sends a PUT, *)
(* CPUT or DELETE to any replica, a replica that is not the primary        *)
(* forwards it to the primary, the primary gives it the next sequence      *)
(* number of its row and forwards it to every replica in turn, itself      *)
(* first, and every replica executes the row's requests in the order of    *)
(* their numbers, a thread that is early sleeping on the row's condition   *)
(* variable.  Every RPC is served by a thread of its own, so any number of *)
(* requests are in progress at once.                                       *)
(*                                                                         *)
(* The tablet log written between the wait and the execution is the        *)
(* subject of module TabletLog; the failure of servers is left out here.   *)
(***************************************************************************)
EXTENDS Integers, Sequences

CONSTANTS
  Requests,         \* the client writes that are ever sent
  Rows,             \* rows of the tablet
  Values,           \* values a cell can hold
  Commands,         \* the commands clients issue (records, see CommandType)
  N,                \* number of replicas of the tablet
  OneWriterPerRow,  \* TRUE: clients keep at most one write per row in flight
  Nil               \* no cell, no row, no command

CommandType == [type : {"PUT", "CPUT", "DELETE"}, v1 : Values, v2 : Values]

ASSUME ReplicaAssumption == N \in Nat \ {0}
ASSUME CommandAssumption == Commands \subseteq CommandType
ASSUME WriterAssumption  == OneWriterPerRow \in BOOLEAN
ASSUME NilAssumption     == Nil \notin Rows \cup Values \cup Commands

(* get_ordered_replicas puts the primary first: a server is named by its   *)
(* place in that list.                                                     *)
Servers == 1 .. N
Primary == 1

VARIABLES
  row,                \* request -> the row it writes
  cmd,                \* request -> its command
  num,                \* request -> sequence_number set by the primary, 0 before
  phase,              \* request -> what its current handler is doing
  at,                 \* request -> the server that handler runs on
  sequence_numbers,   \* server -> row -> number executed last
  sequence_max_seen,  \* server -> row -> number the next one is made from
  kv_store,           \* server -> row -> value of the cell
  applied             \* history: server -> row -> requests executed, in order

requestVars == <<row, cmd, num>>
rowVars     == <<sequence_numbers, sequence_max_seen, kv_store, applied>>
vars        == <<requestVars, phase, at, rowVars>>

(* "received": a plain client request in handle_request; the other middle  *)
(* phases are those of the numbered copy the primary sent to server at[r]. *)
Phases == {"idle", "received", "checking", "asleep", "admitted", "executed",
           "acked"}

InFlight(w) == {r \in Requests : row[r] = w /\ phase[r] \notin {"idle", "acked"}}

(* What execute_put, execute_cput and execute_delete do to a cell.         *)
Apply(c, v) ==
  CASE c.type = "PUT"    -> c.v1
    [] c.type = "CPUT"   -> IF v = c.v1 THEN c.v2 ELSE v
    [] c.type = "DELETE" -> Nil

-----------------------------------------------------------------------------
Init ==
  /\ row   = [r \in Requests |-> Nil]
  /\ cmd   = [r \in Requests |-> Nil]
  /\ num   = [r \in Requests |-> 0]
  /\ phase = [r \in Requests |-> "idle"]
  /\ at    = [r \in Requests |-> Primary]
  /\ sequence_numbers  = [s \in Servers |-> [w \in Rows |-> 0]]
  /\ sequence_max_seen = [s \in Servers |-> [w \in Rows |-> 0]]
  /\ kv_store          = [s \in Servers |-> [w \in Rows |-> Nil]]
  /\ applied           = [s \in Servers |-> [w \in Rows |-> <<>>]]

(* A client calls StoragePut, StorageCPut or StorageDelete on any replica. *)
Send(r, s, w, c) ==
  /\ phase[r] = "idle"
  /\ OneWriterPerRow => InFlight(w) = {}
  /\ row'   = [row EXCEPT ![r] = w]
  /\ cmd'   = [cmd EXCEPT ![r] = c]
  /\ at'    = [at EXCEPT ![r] = s]
  /\ phase' = [phase EXCEPT ![r] = "received"]
  /\ UNCHANGED <<num, rowVars>>

(* A replica that is not the primary forwards the request unnumbered.      *)
Relay(r) ==
  /\ phase[r] = "received" /\ at[r] # Primary
  /\ at' = [at EXCEPT ![r] = Primary]
  /\ UNCHANGED <<requestVars, phase, rowVars>>

(* The primary numbers the request under the row lock and makes the first  *)
(* of its forwarding calls, to itself.                                     *)
(* Faults: post- instead of pre-increment; the loop starting at the last   *)
(* replica.                                                                *)
AssignPostIncrement(r) ==
  LET n == sequence_max_seen[Primary][row[r]] IN
  /\ phase[r] = "received" /\ at[r] = Primary
  /\ sequence_max_seen' = [sequence_max_seen EXCEPT ![Primary][row[r]] = n + 1]
  /\ num'   = [num EXCEPT ![r] = n]
  /\ phase' = [phase EXCEPT ![r] = "checking"]
  /\ UNCHANGED <<row, cmd, at, sequence_numbers, kv_store, applied>>

AssignLastFirst(r) ==
  LET n == sequence_max_seen[Primary][row[r]] + 1 IN
  /\ phase[r] = "received" /\ at[r] = Primary
  /\ sequence_max_seen' = [sequence_max_seen EXCEPT ![Primary][row[r]] = n]
  /\ num'   = [num EXCEPT ![r] = n]
  /\ at'    = [at EXCEPT ![r] = N]
  /\ phase' = [phase EXCEPT ![r] = "checking"]
  /\ UNCHANGED <<row, cmd, sequence_numbers, kv_store, applied>>

AssignNumber(r) ==
  LET n == sequence_max_seen[Primary][row[r]] + 1 IN
  /\ phase[r] = "received" /\ at[r] = Primary
  /\ sequence_max_seen' = [sequence_max_seen EXCEPT ![Primary][row[r]] = n]
  /\ num'   = [num EXCEPT ![r] = n]
  /\ phase' = [phase EXCEPT ![r] = "checking"]
  /\ UNCHANGED <<row, cmd, at, sequence_numbers, kv_store, applied>>

(* The numbered copy takes the row lock and tests whether it is its turn;  *)
(* if not it sleeps on the condition variable of the row.                  *)
NotYetTurnOffByOne(s, r) == num[r] > sequence_numbers[s][row[r]] + 2
NotYetTurn(s, r) == num[r] > sequence_numbers[s][row[r]] + 1

CheckTurn(r) ==
  /\ phase[r] = "checking"
  /\ phase' = [phase EXCEPT ![r] =
                 IF NotYetTurn(at[r], r) THEN "asleep" ELSE "admitted"]
  /\ UNCHANGED <<requestVars, at, rowVars>>

(* execute_put, execute_cput, execute_delete: one critical section on the  *)
(* row lock, which records the number, applies the command and wakes every *)
(* thread of this server that sleeps on the row.                           *)
(* Faults: none is woken; one is woken, as notify_one would, here the last *)
(* in the order of numbers.                                                *)
SleepersForgotten(s, w) == {}

LastSleeper(s, w) ==
  {r \in Requests :
     /\ phase[r] = "asleep" /\ at[r] = s /\ row[r] = w
     /\ \A q \in Requests :
          (phase[q] = "asleep" /\ at[q] = s /\ row[q] = w) => num[q] <= num[r]}

Sleepers(s, w) ==
  {r \in Requests : phase[r] = "asleep" /\ at[r] = s /\ row[r] = w}

Execute(r) ==
  LET s == at[r]
      w == row[r]
  IN
  /\ phase[r] = "admitted"
  /\ sequence_numbers'  = [sequence_numbers EXCEPT ![s][w] = num[r]]
  /\ sequence_max_seen' = [sequence_max_seen EXCEPT ![s][w] = num[r]]
  /\ kv_store' = [kv_store EXCEPT ![s][w] = Apply(cmd[r], @)]
  /\ applied'  = [applied EXCEPT ![s][w] = Append(@, r)]
  /\ phase' = [q \in Requests |-> IF q = r THEN "executed"
                                  ELSE IF q \in Sleepers(s, w) THEN "checking"
                                  ELSE phase[q]]
  /\ UNCHANGED <<requestVars, at>>

(* Faults: the loop runs past the last replica; a forwarding call that has *)
(* been executed is made again; OK is answered before the loop is done.    *)
ForwardPastEnd(r) ==
  /\ phase[r] = "executed" /\ at[r] <= N
  /\ at'    = [at EXCEPT ![r] = @ + 1]
  /\ phase' = [phase EXCEPT ![r] = "checking"]
  /\ UNCHANGED <<requestVars, rowVars>>

ForwardAgain(r) ==
  /\ phase[r] = "executed" /\ at[r] < N
  /\ at'    \in {at, [at EXCEPT ![r] = @ + 1]}
  /\ phase' = [phase EXCEPT ![r] = "checking"]
  /\ UNCHANGED <<requestVars, rowVars>>

AcknowledgeEarly(r) ==
  /\ phase[r] = "executed" /\ at[r] \in Servers
  /\ phase' = [phase EXCEPT ![r] = "acked"]
  /\ UNCHANGED <<requestVars, at, rowVars>>

(* The forwarding call returned: the primary's loop calls the next replica *)
(* or, after the last one, answers OK (through the relaying replica).      *)
ForwardNext(r) ==
  /\ phase[r] = "executed" /\ at[r] < N
  /\ at'    = [at EXCEPT ![r] = @ + 1]
  /\ phase' = [phase EXCEPT ![r] = "checking"]
  /\ UNCHANGED <<requestVars, rowVars>>

Acknowledge(r) ==
  /\ phase[r] = "executed" /\ at[r] = N
  /\ phase' = [phase EXCEPT ![r] = "acked"]
  /\ UNCHANGED <<requestVars, at, rowVars>>

(* A step of a server thread on behalf of request r.                       *)
Serve(r) ==
  \/ Relay(r)
  \/ AssignNumber(r)
  \/ CheckTurn(r)
  \/ Execute(r)
  \/ ForwardNext(r)
  \/ Acknowledge(r)

(* Every request sent has been answered: the system rests.                 *)
Quiet == (\A r \in Requests : phase[r] = "acked") /\ UNCHANGED vars

Next ==
  \/ \E r \in Requests, s \in Servers, w \in Rows, c \in Commands : Send(r, s, w, c)
  \/ \E r \in Requests : Serve(r)
  \/ Quiet

Spec == Init /\ [][Next]_vars

(* The operating system runs every ready thread; clients owe nothing.      *)
FairSpec == Spec /\ \A r \in Requests : WF_vars(Serve(r))

-----------------------------------------------------------------------------
TypeOK ==
  /\ row   \in [Requests -> Rows \cup {Nil}]
  /\ cmd   \in [Requests -> Commands \cup {Nil}]
  /\ num   \in [Requests -> Nat]
  /\ phase \in [Requests -> Phases]
  /\ at    \in [Requests -> Servers]
  /\ sequence_numbers  \in [Servers -> [Rows -> Nat]]
  /\ sequence_max_seen \in [Servers -> [Rows -> Nat]]
  /\ kv_store \in [Servers -> [Rows -> Values \cup {Nil}]]
  /\ applied  \in [Servers -> [Rows -> Seq(Requests)]]
  /\ \A r \in Requests : phase[r] # "idle" => row[r] \in Rows /\ cmd[r] \in Commands

(* r has been executed on row w of server s.                               *)
HasApplied(s, w, r)   == \E i \in 1 .. Len(applied[s][w]) : applied[s][w][i] = r

(* Whatever the concurrency, a replica never executes a number before it   *)
(* has executed every smaller number of the row: the wait loop of          *)
(* handle_request (storage_server.cc:1454) leaves no gap behind.           *)
NoGap ==
  \A s \in Servers, w \in Rows : \A i \in 1 .. Len(applied[s][w]) :
    \A n \in 1 .. num[applied[s][w][i]] - 1 :
      \E j \in 1 .. i - 1 : num[applied[s][w][j]] = n

(* The primary forwards to itself first and to the others one by one, so a *)
(* replica never holds a write that a replica before it in the order, the  *)
(* primary above all, has not executed.                                    *)
PrimaryAhead ==
  \A s \in Servers, w \in Rows : \A i \in 1 .. Len(applied[s][w]) :
    \A p \in 1 .. s : HasApplied(p, w, applied[s][w][i])

(* A write the client was told is OK has been executed by every replica.   *)
AckedEverywhere ==
  \A r \in Requests : phase[r] = "acked" =>
    \A s \in Servers : HasApplied(s, row[r], r)

(* Forwarding and waiting never make a replica execute a request twice.    *)
AtMostOnce ==
  \A s \in Servers, w \in Rows : \A i, j \in 1 .. Len(applied[s][w]) :
    applied[s][w][i] = applied[s][w][j] => i = j

(* Two writes of one row never carry the same number, which is what makes  *)
(* the numbers an order at all (storage_server.cc:1502).                   *)
UniqueNumbers ==
  \A q, r \in {p \in Requests : phase[p] \notin {"idle", "received"}} :
    (q # r /\ row[q] = row[r]) => num[q] # num[r]

(* Every replica executes the writes of a row in the primary's order: its  *)
(* history is a prefix of the primary's (storage_server.cc:1453).          *)
SameOrder ==
  \A s \in Servers, w \in Rows :
    /\ Len(applied[s][w]) <= Len(applied[Primary][w])
    /\ \A i \in 1 .. Len(applied[s][w]) : applied[s][w][i] = applied[Primary][w][i]

(* Once no write of a row is in progress, a read of the row returns the    *)
(* same value at whichever replica the client happens to pick.             *)
SettledRowsAgree ==
  \A w \in Rows : InFlight(w) = {} =>
    \A s \in Servers : kv_store[s][w] = kv_store[Primary][w]

(* No thread sleeps on a row although its turn has come: execute_*'s       *)
(* notify_all wakes every sleeper, so none misses its wake-up.             *)
NoMissedWakeup ==
  \A r \in Requests : phase[r] = "asleep" => NotYetTurn(at[r], r)

(* Two writes of the row were given one number.                            *)
NumberReused(w) ==
  \E q, r \in {p \in Requests : phase[p] \notin {"idle", "received"}} :
    q # r /\ row[q] = w /\ row[r] = w /\ num[q] = num[r]

(* However many writes of a row meet in the wait loop, on whatever         *)
(* replicas and in whatever order their threads run and wake, every one of *)
(* them is answered, unless two writes of its row were given one number:   *)
(* then the later of these sets sequence_numbers back, and a copy with a   *)
(* larger number may wait for ever.                                        *)
EveryWriteAnswered ==
  \A r \in Requests :
    phase[r] = "received" ~> (phase[r] = "acked" \/ NumberReused(row[r]))

-----------------------------------------------------------------------------
(* The inductive invariant behind NoGap, PrimaryAhead, AckedEverywhere and *)
(* AtMostOnce, for any concurrency.                                        *)

(* Server s has executed r: the primary's loop has gone past s.            *)
Reached(r, s) ==
  \/ phase[r] = "acked"
  \/ /\ phase[r] \in {"checking", "asleep", "admitted", "executed"}
     /\ s < at[r] \/ (s = at[r] /\ phase[r] = "executed")

(* The row histories hold exactly the requests the loops have gone past.   *)
AppliedIsReached ==
  \A s \in Servers, w \in Rows, r \in Requests :
    HasApplied(s, w, r) <=> (row[r] = w /\ Reached(r, s))

HasNumber(s, w, n) == \E j \in 1 .. Len(applied[s][w]) : num[applied[s][w][j]] = n

(* sequence_numbers holds the number of a request that has been executed.  *)
LastNumberApplied ==
  \A s \in Servers, w \in Rows :
    sequence_numbers[s][w] # 0 => HasNumber(s, w, sequence_numbers[s][w])

(* A copy let through by the wait loop finds all smaller numbers executed. *)
AdmittedReady ==
  \A r \in Requests : phase[r] = "admitted" =>
    \A n \in 1 .. num[r] - 1 : HasNumber(at[r], row[r], n)

(* Every history and every thread agree on how far each write has come,    *)
(* and no thread is past its wait with a smaller number still missing.     *)
WritePathInv ==
  AppliedIsReached /\ AtMostOnce /\ LastNumberApplied /\ AdmittedReady /\ NoGap

-----------------------------------------------------------------------------
(* The inductive invariant behind UniqueNumbers, SameOrder and             *)
(* SettledRowsAgree, when clients keep one write per row in flight.        *)

OneInFlight ==
  \A q, r \in Requests :
    (row[q] = row[r] /\ {phase[q], phase[r]} \cap {"idle", "acked"} = {}) => q = r

(* The write in flight has the number given out last, and none is larger.  *)
NumbersInOrder ==
  \A r \in {p \in Requests : phase[p] \notin {"idle", "received"}} :
    /\ num[r] <= sequence_max_seen[Primary][row[r]]
    /\ phase[r] # "acked" => num[r] = sequence_max_seen[Primary][row[r]]

(* The primary has executed r, server s has not.                           *)
Lacks(s, r) == Reached(r, Primary) /\ ~ Reached(r, s)

(* A replica is behind the primary by the write in flight or not at all.   *)
FollowsPrimary ==
  /\ \A s \in Servers, r \in Requests : Lacks(s, r) =>
       /\ applied[Primary][row[r]] = Append(applied[s][row[r]], r)
       /\ kv_store[Primary][row[r]] = Apply(cmd[r], kv_store[s][row[r]])
  /\ \A s \in Servers, w \in Rows :
       (\A r \in Requests : row[r] = w => ~ Lacks(s, r)) =>
         /\ applied[s][w] = applied[Primary][w]
         /\ kv_store[s][w] = kv_store[Primary][w]

SerialInv == OneInFlight /\ NumbersInOrder /\ UniqueNumbers /\ FollowsPrimary

-----------------------------------------------------------------------------
(* With one writer per row the protocol implements RowLog: what a replica  *)
(* has executed on a row is its copy of the row's log.                     *)
Log == INSTANCE RowLog WITH
         copies <- applied, acked <- {r \in Requests : phase[r] = "acked"}

(* Every step of the write path is a step of the abstract log or stutters. *)
ImplementsRowLog == Log!LogSpec
=============================================================================
