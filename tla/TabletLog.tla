--------------------------- MODULE TabletLog ----------------------------
(***************************************************************************)
(* The disk of one storage server, for one tablet: every command is        *)
(* appended to the tablet's log before it is executed, and when the log    *)
(* would reach MAX_LOG_CMD_COUNT commands the tablet is dumped to a new    *)
(* checkpoint file and the log emptied (append_to_tablet_log).  When the   *)
(* server starts again it loads the newest checkpoint and replays the log. *)
(*                                                                         *)
(* The writes of one row arrive here one at a time, in the order of their  *)
(* numbers (ReplicatedWrites), so there is one thread per row; the threads *)
(* share the log lock, but execute_put, execute_cput and execute_delete    *)
(* run after it has been given up.                                         *)
(***************************************************************************)
EXTENDS Integers, Sequences, FiniteSets, SequencesExt

CONSTANTS
  Rows,               \* rows of the tablet, each with one column
  Values,
  Absent,             \* there is no such column
  Garbled,            \* a value that no client wrote
  Types,              \* the types of commands clients send
  MAX_LOG_CMD_COUNT,
  None,               \* no thread, no command
  Together,           \* bound: rows that are being written at the same time
  MaxWrites,          \* bound: commands in a behaviour
  MaxRestarts         \* bound: crashes and shutdowns in a behaviour

Stored  == Values \cup {Absent, Garbled}
Store   == [Rows -> Stored]
Command == [type : {"PUT", "CPUT", "DELETE"}, row : Rows, value1 : Values, value2 : Values \cup {Garbled}]
Empty   == [r \in Rows |-> Absent]

ASSUME TypesAssumption == Types \subseteq {"PUT", "CPUT", "DELETE"}
ASSUME ValueAssumption == Absent \notin Values \cup {Garbled} /\ None \notin Rows \cup Command
ASSUME CountAssumption ==
  /\ MAX_LOG_CMD_COUNT \in Nat /\ MAX_LOG_CMD_COUNT >= 2
  /\ Together \in Nat /\ MaxWrites \in Nat /\ MaxRestarts \in Nat

VARIABLES
  kv,           \* tablet_to_kv_store
  count,        \* tablet_log_size.first
  logLock,      \* the thread that holds log_locks[tablet], or None
  stage,        \* row -> what the thread that writes the row is doing
  cmd,          \* row -> its command, or None
  todo,         \* rows that create_checkpoint has still to write
  log,          \* the log file
  checkpoints,  \* the checkpoint files, version by version
  writes, restarts   \* so far, for the bounds

vars == <<kv, count, logLock, stage, cmd, todo, log, checkpoints, writes, restarts>>

(* execute_put, execute_cput and execute_delete, without the numbers.      *)
Execution(store, c) ==
  CASE c.type = "PUT"  -> [store EXCEPT ![c.row] = c.value1]
    [] c.type = "CPUT" -> [store EXCEPT ![c.row] = IF @ = c.value1 THEN c.value2 ELSE @]
    [] OTHER           -> [store EXCEPT ![c.row] = Absent]

(* What deserialize_and_process_command makes of a command: the second     *)
(* value of a CPUT is cut out one character early and with the length of   *)
(* the first (LogCodec).                                                   *)
Deserialized(c) == IF c.type = "CPUT" THEN [c EXCEPT !.value2 = Garbled] ELSE c

(* load_log: the commands of a log file, executed one after the other.     *)
Replayed(store, commands) ==
  LET after[n \in 0 .. Len(commands)] ==
        IF n = 0 THEN store ELSE Execution(after[n - 1], Deserialized(commands[n]))
  IN  after[Len(commands)]

(* load_checkpoint and load_log: what a start makes of the files.          *)
Newest    == IF checkpoints = <<>> THEN Empty ELSE Last(checkpoints)
Recovered == Replayed(Newest, log)

Busy == {r \in Rows : stage[r] # "idle"}

-----------------------------------------------------------------------------
Init ==
  /\ kv = Empty
  /\ count = 0
  /\ logLock = None
  /\ stage = [r \in Rows |-> "idle"]
  /\ cmd = [r \in Rows |-> None]
  /\ todo = {}
  /\ log = <<>>
  /\ checkpoints = <<>>
  /\ writes = 0 /\ restarts = 0

(* A numbered command has passed the wait loop of handle_request.          *)
Arrive(r) ==
  /\ stage[r] = "idle"
  /\ Cardinality(Busy) < Together /\ writes < MaxWrites
  /\ \E c \in Command :
       /\ c.type \in Types /\ c.row = r /\ c.value2 # Garbled
       /\ c.type # "CPUT" => c.value2 = c.value1
       /\ cmd' = [cmd EXCEPT ![r] = c]
  /\ stage'  = [stage EXCEPT ![r] = "log"]
  /\ writes' = writes + 1
  /\ UNCHANGED <<kv, count, logLock, todo, log, checkpoints, restarts>>

(* Mutant: the dump leaves out the row of the thread that makes it.        *)
SkipsOwnRow(r) ==
  /\ stage[r] = "log" /\ logLock = None
  /\ logLock' = r
  /\ IF count + 1 = MAX_LOG_CMD_COUNT
     THEN /\ stage' = [stage EXCEPT ![r] = "dump"]
          /\ todo'  = Rows \ {r}
          /\ checkpoints' = Append(checkpoints, Empty)
     ELSE stage' = [stage EXCEPT ![r] = "append"] /\ UNCHANGED <<todo, checkpoints>>
  /\ UNCHANGED <<kv, count, cmd, log, writes, restarts>>

(* append_to_tablet_log takes the lock and looks whether a checkpoint is   *)
(* due, by the number of commands or (full) by the size of the file; the   *)
(* file of the next version is opened.                                     *)
StartLogging(r) ==
  /\ stage[r] = "log" /\ logLock = None
  /\ logLock' = r
  /\ \E full \in BOOLEAN :
       IF count + 1 = MAX_LOG_CMD_COUNT \/ full
       THEN /\ stage' = [stage EXCEPT ![r] = "dump"]
            /\ todo'  = Rows
            /\ checkpoints' = Append(checkpoints, Empty)
       ELSE stage' = [stage EXCEPT ![r] = "append"] /\ UNCHANGED <<todo, checkpoints>>
  /\ UNCHANGED <<kv, count, cmd, log, writes, restarts>>

(* create_checkpoint writes the rows one by one, in no particular order    *)
(* and without their locks.                                                *)
DumpRow(r, x) ==
  /\ stage[r] = "dump" /\ x \in todo
  /\ checkpoints' = [checkpoints EXCEPT ![Len(checkpoints)][x] = kv[x]]
  /\ todo' = todo \ {x}
  /\ UNCHANGED <<kv, count, logLock, stage, cmd, log, writes, restarts>>

(* Mutants: the log is emptied, but tablet_log_size not reset, or reduced. *)
EmptyLogTo(r, newCount) ==
  /\ stage[r] = "dump" /\ todo = {}
  /\ log'   = <<>>
  /\ count' = newCount
  /\ stage' = [stage EXCEPT ![r] = "append"]
  /\ UNCHANGED <<kv, logLock, cmd, todo, checkpoints, writes, restarts>>

KeepsCount(r)    == EmptyLogTo(r, count)
ReducesCount(r)  == EmptyLogTo(r, count - MAX_LOG_CMD_COUNT)

(* The checkpoint is complete: the log is emptied.                         *)
EmptyLog(r) ==
  /\ stage[r] = "dump" /\ todo = {}
  /\ log'   = <<>>
  /\ count' = 0
  /\ stage' = [stage EXCEPT ![r] = "append"]
  /\ UNCHANGED <<kv, logLock, cmd, todo, checkpoints, writes, restarts>>

(* Mutant: the log is opened without ios::app.                             *)
OverwritesLog(r) ==
  /\ stage[r] = "append"
  /\ log'     = <<cmd[r]>>
  /\ count'   = count + 1
  /\ logLock' = None
  /\ stage'   = [stage EXCEPT ![r] = "execute"]
  /\ UNCHANGED <<kv, cmd, todo, checkpoints, writes, restarts>>

AppendToLog(r) ==
  /\ stage[r] = "append"
  /\ log'     = Append(log, cmd[r])
  /\ count'   = count + 1
  /\ logLock' = None
  /\ stage'   = [stage EXCEPT ![r] = "execute"]
  /\ UNCHANGED <<kv, cmd, todo, checkpoints, writes, restarts>>

Execute(r) ==
  /\ stage[r] = "execute"
  /\ kv'    = Execution(kv, cmd[r])
  /\ stage' = [stage EXCEPT ![r] = "idle"]
  /\ cmd'   = [cmd EXCEPT ![r] = None]
  /\ UNCHANGED <<count, logLock, todo, log, checkpoints, writes, restarts>>

(* The process ends at any moment and all servers are started afresh:      *)
(* load_backup_initial reads the files, load_log counts the commands.      *)
Restart ==
  /\ restarts < MaxRestarts
  /\ restarts' = restarts + 1
  /\ kv'      = Recovered
  /\ count'   = Len(log)
  /\ logLock' = None
  /\ stage'   = [r \in Rows |-> "idle"]
  /\ cmd'     = [r \in Rows |-> None]
  /\ todo'    = {}
  /\ UNCHANGED <<log, checkpoints, writes>>

Write(r) ==
  \/ Arrive(r)
  \/ StartLogging(r) \/ (\E x \in Rows : DumpRow(r, x)) \/ EmptyLog(r) \/ AppendToLog(r)
  \/ Execute(r)

(* Every command that was to come has been executed.                       *)
Rest == writes = MaxWrites /\ Busy = {} /\ UNCHANGED vars

Next == (\E r \in Rows : Write(r)) \/ Restart \/ Rest

Spec == Init /\ [][Next]_vars

-----------------------------------------------------------------------------
TypeOK ==
  /\ kv \in Store
  /\ count \in Nat
  /\ logLock \in Rows \cup {None}
  /\ stage \in [Rows -> {"idle", "log", "dump", "append", "execute"}]
  /\ cmd \in [Rows -> Command \cup {None}]
  /\ \A r \in Rows : stage[r] # "idle" => cmd[r] \in Command
  /\ todo \subseteq Rows
  /\ log \in Seq(Command)
  /\ checkpoints \in Seq(Store)
  /\ writes \in Nat /\ restarts \in Nat

(* README.md:34: with no write in progress, what a restart reads from the  *)
(* disk is what the server has stored.                                     *)
PersistsWhenIdle == Busy = {} => Recovered = kv

(* A crash between any two steps, except while a checkpoint is being       *)
(* dumped, brings back every executed command and at most the one that has *)
(* been logged and not executed yet.                                       *)
CrashSafe ==
  (\A r \in Rows : stage[r] # "dump" \/ todo = {}) =>
    \A r \in Rows :
      Recovered[r] = kv[r] \/ (cmd[r] # None /\ Recovered[r] = Execution(kv, cmd[r])[r])

(* The log never reaches MAX_LOG_CMD_COUNT commands: the test for that is  *)
(* an equality, so one command too many and it would never be emptied.     *)
LogShort == Len(log) < MAX_LOG_CMD_COUNT

(* Why: tablet_log_size counts the commands in the file, only the holder   *)
(* of the log lock changes either, and it appends only below the limit.    *)
LockHolder ==
  \A r \in Rows : stage[r] \in {"dump", "append"} <=> logLock = r

LogCounted ==
  /\ count = Len(log)
  /\ count < MAX_LOG_CMD_COUNT
  /\ \A r \in Rows : stage[r] = "append" => count + 1 < MAX_LOG_CMD_COUNT

LogInv == LockHolder /\ LogCounted
=============================================================================
