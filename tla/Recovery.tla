----------------------------- MODULE Recovery -----------------------------
(***************************************************************************)
(* Crash and restart of the storage servers of one tablet                  *)
(* (src/backend/storage_server.cc), with the master that reassigns the     *)
(* primary (src/backend/master_server.cc) and the client writes that go on *)
(* meanwhile.  A restarted server reports itself down, compares the        *)
(* version of its checkpoint and the length of its log with the primary's, *)
(* is pushed the files it is thought to lack, loads them, reports itself   *)
(* up and opens.                                                           *)
(*                                                                         *)
(* Simplifications.  The master handles a report and pushes the table to   *)
(* every server in one step (module MasterServer takes these apart), so    *)
(* all servers that have a table have the same one.  A forwarded write is  *)
(* logged and executed in one step (module TabletLog), and a request and   *)
(* its effect are one step at the server that is called.  What a source    *)
(* pushes goes to the process that asked: a log that is still pushed after *)
(* the push of its checkpoint failed, and meets the next process of a      *)
(* server that restarts within that time, is left out.  Of a log and a     *)
(* checkpoint only what loading them yields is kept: the last write of     *)
(* each row, the length and the version.                                   *)
(***************************************************************************)
EXTENDS Integers, FiniteSets

CONSTANTS
  N,                  \* number of replicas
  Rows,               \* rows of the tablet
  None,               \* no write, no server
  MAX_LOG_CMD_COUNT,  \* the log is emptied before it reaches this length
  MaxWrites,          \* bound: client writes in a behaviour
  MaxInFlight,        \* bound: writes in progress at once
  MaxFaults,          \* bound: crashes, and ends of processes that are repaired
  MaxDown             \* bound: servers that do not serve at the same time

Servers == 1 .. N

(* Client writes in the order in which they are sent; a write is also the  *)
(* value it puts.                                                          *)
Writes == 1 .. MaxWrites

ASSUME ReplicaAssumption == N \in Nat \ {0}
ASSUME NoneAssumption    == None \notin Servers \cup Writes
ASSUME LogAssumption     == MAX_LOG_CMD_COUNT \in Nat \ {0, 1}
ASSUME BoundAssumption ==
  MaxWrites \in Nat /\ MaxInFlight \in Nat /\ MaxFaults \in Nat /\ MaxDown \in Nat

VARIABLES
  primary,        \* the replica whose primary flag is set
  replica_alive,  \* the servers the master believes alive
  halted,         \* the master has died
  boot,           \* server -> where its process is, "off" without one
  source,         \* server -> the primary that synchronises it
  asked,          \* server -> version and length its request carries
  disk,           \* server -> newest checkpoint file and log file
  mem,            \* server -> tablet and counters in memory
  write,          \* write -> where it has got to
  newest,         \* history: row -> its last write if that was answered
  disturbed,      \* history: what interfered with a numbered write
  faults          \* ends of processes so far, for the bound

masterVars  == <<primary, replica_alive, halted>>
syncVars    == <<source, asked>>
historyVars == <<newest, disturbed>>
vars == <<masterVars, boot, syncVars, disk, mem, write, historyVars, faults>>

Boots  == {"off", "started", "sync", "checkpoint", "log", "broken", "load", "up", "open",
           "serving"}
Stages == {"idle", "received", "ordered", "forward", "report", "answered", "failed"}

(* What can come between the comparison of versions and lengths and the    *)
(* agreement of the replicas:                                              *)
(*   "cut"     the primary dies between its calls to the replicas;         *)
(*   "reset"   a table is pushed while a write is at the primary;          *)
(*   "missed"  the primary executes while a replica is being synchronised; *)
(*   "blank"   the primary asked has itself not loaded its files;          *)
(*   "torn"    a server dies with a new checkpoint and its old log;        *)
(*   "late"    a replica opens while the call that forwards it a write it  *)
(*             has been pushed is still to come.                           *)
Disturbances == {"cut", "reset", "missed", "blank", "torn", "late"}

(* version 0: no checkpoint file.                                          *)
DiskType == [version : Nat, kv : [Rows -> Writes \cup {None}],
             length : Nat, last : [Rows -> Writes \cup {None}]]
MemType  == [checkpoint_version : Nat, tablet_log_size : Nat,
             kv : [Rows -> Writes \cup {None}],
             sequence_numbers : [Rows -> Nat], sequence_max_seen : [Rows -> Nat]]

(* A write: its row, the server the client called, the server that handles *)
(* it as primary, its number, the replicas the loop has still to call.     *)
WriteType == [stage : Stages, row : Rows \cup {None}, via : Servers \cup {None},
              at : Servers \cup {None}, num : Nat, todo : SUBSET Servers]

NoWrites == [r \in Rows |-> None]
Zeros    == [r \in Rows |-> 0]
EmptyDisk == [version |-> 0, kv |-> NoWrites, length |-> 0, last |-> NoWrites]
EmptyMem  == [checkpoint_version |-> 0, tablet_log_size |-> 0, kv |-> NoWrites,
              sequence_numbers |-> Zeros, sequence_max_seen |-> Zeros]
IdleWrite == [stage |-> "idle", row |-> None, via |-> None, at |-> None, num |-> 0,
              todo |-> {}]

Finished(stage) == [IdleWrite EXCEPT !.stage = stage]
NoRequest       == [version |-> 0, length |-> 0]

(* A client write is rejected while alive or booting says so.              *)
Accepts(s) == boot[s] = "serving"
Serving    == {s \in Servers : Accepts(s)}
InFlight   == {w \in Writes : write[w].stage \in {"received", "ordered", "forward", "report"}}
Numbered   == {w \in Writes : write[w].stage \in {"ordered", "forward"}}

(* Those the primary has executed, and not all replicas have been called.  *)
Executing  == {w \in Writes : write[w].stage = "forward" /\ write[w].at \notin write[w].todo}

(* What a server has in memory once its files are loaded.                  *)
Loaded == {"up", "open", "serving"}

(* The primary has compared its state with this one, which is not open.    *)
Joining == {"checkpoint", "log", "load", "up", "open"}

(* load_checkpoint, then load_log.                                         *)
Replay(d) == [r \in Rows |-> IF d.last[r] # None THEN d.last[r] ELSE d.kv[r]]

-----------------------------------------------------------------------------
(* The initial start is over and nothing has been written yet; the first   *)
(* replica partition_tablets draws is the primary.                         *)
Init ==
  /\ primary = 1
  /\ replica_alive = Servers
  /\ halted = FALSE
  /\ boot   = [s \in Servers |-> "serving"]
  /\ source = [s \in Servers |-> None]
  /\ asked  = [s \in Servers |-> NoRequest]
  /\ disk   = [s \in Servers |-> EmptyDisk]
  /\ mem    = [s \in Servers |-> EmptyMem]
  /\ write  = [w \in Writes |-> IdleWrite]
  /\ newest = NoWrites
  /\ disturbed = {}
  /\ faults = 0

-----------------------------------------------------------------------------
(* The master.                                                             *)

(* Mutant: a pushed table leaves the numbers as they are.                  *)
KeepsNumbers(m) == m

(* fill_tablets at the servers S that have a process.                      *)
Emptied(m) == [m EXCEPT !.sequence_numbers = Zeros, !.sequence_max_seen = Zeros]

Push(S) ==
  LET pushed == [s \in Servers |-> IF s \in S /\ boot[s] # "off" THEN Emptied(mem[s])
                                   ELSE mem[s]] IN
  /\ mem' = pushed
  /\ disturbed' = disturbed \cup
       (IF Numbered # {} /\ (S = Servers \/ pushed # mem) THEN {"reset"} ELSE {})

(* Mutant: the flag of the dead primary is cleared, and no other is set.   *)
ClearsPrimary(s, from) ==
  IF halted \/ s \notin replica_alive THEN UNCHANGED <<masterVars, mem, disturbed>>
  ELSE /\ replica_alive' = replica_alive \ {s}
       /\ primary' = IF s = primary THEN None ELSE primary
       /\ Push(Servers)
       /\ UNCHANGED halted

(* get_tablets_metadata(s, false), called by server from: primary_down if  *)
(* s was believed alive, and the table to everyone; else to the caller.    *)
(* Without a candidate the master dies of rand() % 0, and later calls to   *)
(* it fail without an effect.                                              *)
ReportDown(s, from) ==
  LET options == replica_alive \ {s} IN
  IF halted THEN UNCHANGED <<masterVars, mem, disturbed>>
  ELSE IF s \notin replica_alive THEN Push({from}) /\ UNCHANGED masterVars
  ELSE /\ replica_alive' = options
       /\ IF s # primary THEN Push(Servers) /\ UNCHANGED <<primary, halted>>
          ELSE IF options # {}
               THEN Push(Servers) /\ primary' \in options /\ UNCHANGED halted
               ELSE halted' = TRUE /\ UNCHANGED <<primary, mem, disturbed>>

(* get_tablets_metadata(s, true): primary_up draws a new primary from all  *)
(* that are believed alive unless s still is the primary.                  *)
ReportUp(s) ==
  IF halted THEN UNCHANGED <<masterVars, mem, disturbed>>
  ELSE /\ replica_alive' = replica_alive \cup {s}
       /\ primary' \in IF primary = s THEN {s} ELSE replica_alive \cup {s}
       /\ Push(Servers)
       /\ UNCHANGED halted

-----------------------------------------------------------------------------
(* Client writes.                                                          *)

(* A client picks any replica; a write in progress at a server that has    *)
(* crashed counts, as the client cannot tell.                              *)
Send(w, r, s) ==
  /\ write[w].stage = "idle" /\ Accepts(s)
  /\ \A v \in 1 .. w - 1 : write[v].stage # "idle"
  /\ Cardinality(InFlight) < MaxInFlight
  /\ write' = [write EXCEPT ![w] = [IdleWrite EXCEPT !.stage = "received", !.row = r,
                                                     !.via = s, !.at = s]]
  /\ UNCHANGED <<masterVars, boot, syncVars, disk, mem, historyVars, faults>>

(* handle_request: the primary goes on to number the write, another server *)
(* relays it to the primary, and finds out if that one does not accept it. *)
Relay(w) ==
  /\ write[w].stage = "received"
  /\ write' = [write EXCEPT ![w].at = primary,
                            ![w].stage = IF Accepts(primary) THEN "ordered" ELSE "report"]
  /\ UNCHANGED <<masterVars, boot, syncVars, disk, mem, historyVars, faults>>

(* The relay pulls new tablet information and tries again.                 *)
Report(w) ==
  /\ write[w].stage = "report"
  /\ ReportDown(write[w].at, write[w].via)
  /\ write' = [write EXCEPT ![w].stage = "received"]
  /\ UNCHANGED <<boot, syncVars, disk, newest, faults>>

AssignNumber(w) ==
  LET p == write[w].at
      r == write[w].row
      n == mem[p].sequence_max_seen[r] + 1
  IN
  /\ write[w].stage = "ordered"
  /\ mem' = [mem EXCEPT ![p].sequence_max_seen[r] = n]
  /\ write' = [write EXCEPT ![w].stage = "forward", ![w].num = n, ![w].todo = Servers]
  /\ UNCHANGED <<masterVars, boot, syncVars, disk, historyVars, faults>>

(* get_ordered_replicas: the primary first, the others in table order.     *)
Target(w) ==
  IF write[w].at \in write[w].todo THEN write[w].at
  ELSE CHOOSE s \in write[w].todo : \A t \in write[w].todo : s <= t

(* handle_checkpointing: this command is preceded by a checkpoint.         *)
Checkpoints(s) == mem[s].tablet_log_size + 1 = MAX_LOG_CMD_COUNT

(* append_to_tablet_log and execute_*.                                     *)
LoggedAt(s, w) ==
  LET r == write[w].row IN
  IF Checkpoints(s)
  THEN [version |-> mem[s].checkpoint_version + 1, kv |-> mem[s].kv,
        length |-> 1, last |-> [NoWrites EXCEPT ![r] = w]]
  ELSE [disk[s] EXCEPT !.length = @ + 1, !.last[r] = w]

ExecutedAt(s, w) ==
  LET r == write[w].row
      n == write[w].num
  IN
  [mem[s] EXCEPT !.checkpoint_version = IF Checkpoints(s) THEN @ + 1 ELSE @,
                 !.tablet_log_size    = IF Checkpoints(s) THEN 1 ELSE @ + 1,
                 !.kv[r] = w, !.sequence_numbers[r] = n, !.sequence_max_seen[r] = n]

(* One call of the primary's loop.  The result of a call that fails is     *)
(* ignored; a copy that is early waits at the replica.                     *)
ForwardFails(w) ==
  /\ write[w].stage = "forward" /\ write[w].todo # {}
  /\ ~ Accepts(Target(w))
  /\ write' = [write EXCEPT ![w].todo = @ \ {Target(w)}]
  /\ UNCHANGED <<masterVars, boot, syncVars, disk, mem, historyVars, faults>>

Execute(w) ==
  LET s == Target(w)
      r == write[w].row
  IN
  /\ write[w].stage = "forward" /\ write[w].todo # {}
  /\ Accepts(s)
  /\ write[w].num <= mem[s].sequence_numbers[r] + 1
  /\ disk' = [disk EXCEPT ![s] = LoggedAt(s, w)]
  /\ mem'  = [mem EXCEPT ![s] = ExecutedAt(s, w)]
  /\ write' = [write EXCEPT ![w].todo = @ \ {s}]
  /\ newest' = [newest EXCEPT ![r] = None]
  /\ disturbed' = disturbed \cup
       (IF s = write[w].at /\ \E t \in Servers : boot[t] \in Joining THEN {"missed"} ELSE {})
  /\ UNCHANGED <<masterVars, boot, syncVars, faults>>

Answer(w) ==
  /\ write[w].stage = "forward" /\ write[w].todo = {}
  /\ write'  = [write EXCEPT ![w] = Finished("answered")]
  /\ newest' = [newest EXCEPT ![write[w].row] = IF write[w].via = None THEN @ ELSE w]
  /\ UNCHANGED <<masterVars, boot, syncVars, disk, mem, disturbed, faults>>

-----------------------------------------------------------------------------
(* Crashes and restarts.                                                   *)

(* What becomes of a write when the process of s ends: its client, its     *)
(* relay or its primary's loop sees a call fail, and a primary whose relay *)
(* has died goes on with the write; the loop goes past a call to s that is *)
(* being made.                                                             *)
AfterEnd(w, s) ==
  LET x == write[w] IN
  IF w \in Numbered /\ x.at = s
  THEN IF x.via \in {s, None} THEN Finished("failed")
       ELSE [x EXCEPT !.stage = "report", !.num = 0, !.todo = {}]
  ELSE IF w \in Numbered
  THEN [x EXCEPT !.via  = IF @ = s THEN None ELSE @,
                 !.todo = IF @ # {} /\ Target(w) = s THEN @ \ {s} ELSE @]
  ELSE IF w \in InFlight /\ x.via = s THEN Finished("failed")
  ELSE x

(* A numbered write that some replicas have executed and others have not.  *)
CutBy(s) ==
  \E w \in Writes : /\ write[w].stage = "forward" /\ write[w].at = s
                    /\ write[w].todo \notin {{}, Servers}

(* A checkpoint has been pushed to s, and the log that goes with it not.   *)
Torn(s) == boot[s] \in {"sync", "checkpoint", "log", "broken"} /\ disk[s].version # asked[s].version

End(s) ==
  /\ boot' = [t \in Servers |->
                IF t = s THEN "off"
                ELSE IF boot[t] \in {"checkpoint", "log"} /\ source[t] = s THEN "broken"
                ELSE boot[t]]
  /\ mem'   = [mem EXCEPT ![s] = EmptyMem]
  /\ write' = [w \in Writes |-> AfterEnd(w, s)]
  /\ disturbed' = disturbed \cup (IF CutBy(s) THEN {"cut"} ELSE {})
                           \cup (IF Torn(s) THEN {"torn"} ELSE {})
  /\ asked'  = [asked EXCEPT ![s] = NoRequest]
  /\ source' = [source EXCEPT ![s] = None]
  /\ UNCHANGED <<masterVars, newest>>

Crash(s) ==
  /\ boot[s] # "off"
  /\ faults < MaxFaults
  /\ Cardinality((Servers \ Serving) \cup {s}) <= MaxDown
  /\ faults' = faults + 1
  /\ End(s)
  /\ UNCHANGED disk

(* A process that cannot reach the master exits.                           *)
Start(s) ==
  /\ boot[s] = "off" /\ ~ halted /\ faults <= MaxFaults
  /\ boot' = [boot EXCEPT ![s] = "started"]
  /\ UNCHANGED <<masterVars, syncVars, disk, mem, write, historyVars, faults>>

(* bootstrap_server has itself declared down; sync_tablet_with_primary     *)
(* then reads the version and the length from disk, once.  If the master   *)
(* has died it never gets a table and rejects everything.                  *)
AnnounceDown(s) ==
  /\ boot[s] = "started" /\ ~ halted
  /\ ReportDown(s, s)
  /\ boot'  = [boot EXCEPT ![s] = IF halted' THEN "started" ELSE "sync"]
  /\ asked' = [asked EXCEPT ![s] = [version |-> disk[s].version, length |-> disk[s].length]]
  /\ UNCHANGED <<source, disk, write, newest, faults>>

(* Mutant: only the versions are compared.                                 *)
NeedsByVersion(s, p) ==
  IF asked[s].version # mem[p].checkpoint_version THEN "checkpoint" ELSE "load"

(* RequestLatestTabletState at the primary: what s will be pushed.         *)
Needs(s, p) ==
  IF asked[s].version # mem[p].checkpoint_version THEN "checkpoint"
  ELSE IF asked[s].length # mem[p].tablet_log_size THEN "log"
  ELSE "load"

RequestLatestTabletState(s) ==
  /\ boot[s] = "sync"
  /\ s = primary \/ boot[primary] # "off"
  /\ boot'   = [boot EXCEPT ![s] = IF s = primary THEN "load" ELSE Needs(s, primary)]
  /\ source' = [source EXCEPT ![s] = primary]
  /\ disturbed' = disturbed \cup (IF boot[primary] \in Loaded THEN {} ELSE {"blank"})
  /\ UNCHANGED <<masterVars, asked, disk, mem, write, newest, faults>>

PrimaryUnreachable(s) ==
  /\ boot[s] = "sync" /\ s # primary /\ boot[primary] = "off"
  /\ ReportDown(primary, s)
  /\ UNCHANGED <<boot, syncVars, disk, write, newest, faults>>

(* The primary died while it was sending.                                  *)
SourceLost(s) ==
  /\ boot[s] = "broken"
  /\ ReportDown(source[s], s)
  /\ boot' = [boot EXCEPT ![s] = "sync"]
  /\ UNCHANGED <<syncVars, disk, write, newest, faults>>

(* Mutant: with the checkpoint, the log is not pushed.                     *)
PushCheckpointAlone(s) ==
  LET v == mem[source[s]].checkpoint_version IN
  /\ boot[s] = "checkpoint" /\ v > 0
  /\ disk' = [disk EXCEPT ![s] =
                IF v < @.version THEN @
                ELSE [@ EXCEPT !.version = v, !.kv = disk[source[s]].kv]]
  /\ boot' = [boot EXCEPT ![s] = "load"]
  /\ UNCHANGED <<masterVars, syncVars, mem, write, historyVars, faults>>

(* PushCheckpointPartition: the file of the source's version, of which s   *)
(* keeps those of higher versions it has.  Without a file to open, the     *)
(* source calls exit(EXIT_FAILURE).                                        *)
PushCheckpoint(s) ==
  LET v == mem[source[s]].checkpoint_version IN
  /\ boot[s] = "checkpoint" /\ v > 0
  /\ disk' = [disk EXCEPT ![s] =
                IF v < @.version THEN @
                ELSE [@ EXCEPT !.version = v, !.kv = disk[source[s]].kv]]
  /\ boot' = [boot EXCEPT ![s] = "log"]
  /\ UNCHANGED <<masterVars, syncVars, mem, write, historyVars, faults>>

NoCheckpointToPush(s) ==
  /\ boot[s] = "checkpoint" /\ mem[source[s]].checkpoint_version = 0
  /\ End(source[s])
  /\ faults' = faults + 1
  /\ UNCHANGED disk

PushLog(s) ==
  /\ boot[s] = "log"
  /\ disk' = [disk EXCEPT ![s].length = disk[source[s]].length,
                          ![s].last   = disk[source[s]].last]
  /\ boot' = [boot EXCEPT ![s] = "load"]
  /\ UNCHANGED <<masterVars, syncVars, mem, write, historyVars, faults>>

(* Mutant: the log alone is loaded.                                        *)
LoadLogOnly(s) ==
  /\ boot[s] = "load"
  /\ mem' = [mem EXCEPT ![s].checkpoint_version = disk[s].version,
                        ![s].tablet_log_size = disk[s].length,
                        ![s].kv = disk[s].last]
  /\ boot'   = [boot EXCEPT ![s] = "up"]
  /\ asked'  = [asked EXCEPT ![s] = NoRequest]
  /\ source' = [source EXCEPT ![s] = None]
  /\ UNCHANGED <<masterVars, disk, write, historyVars, faults>>

(* Mutant: the version of the loaded checkpoint is not noted.              *)
LoadForgetsVersion(s) ==
  /\ boot[s] = "load"
  /\ mem' = [mem EXCEPT ![s].tablet_log_size = disk[s].length,
                        ![s].kv = Replay(disk[s])]
  /\ boot'   = [boot EXCEPT ![s] = "up"]
  /\ asked'  = [asked EXCEPT ![s] = NoRequest]
  /\ source' = [source EXCEPT ![s] = None]
  /\ UNCHANGED <<masterVars, disk, write, historyVars, faults>>

(* load_checkpoint of the highest version on disk, and load_log, which     *)
(* leaves the length counted before if the log is now empty.               *)
Load(s) ==
  /\ boot[s] = "load"
  /\ mem' = [mem EXCEPT ![s].checkpoint_version = disk[s].version,
                        ![s].tablet_log_size =
                           IF disk[s].length = 0 THEN asked[s].length ELSE disk[s].length,
                        ![s].kv = Replay(disk[s])]
  /\ boot'   = [boot EXCEPT ![s] = "up"]
  /\ asked'  = [asked EXCEPT ![s] = NoRequest]
  /\ source' = [source EXCEPT ![s] = None]
  /\ UNCHANGED <<masterVars, disk, write, historyVars, faults>>

AnnounceUp(s) ==
  /\ boot[s] = "up"
  /\ ReportUp(s)
  /\ boot' = [boot EXCEPT ![s] = "open"]
  /\ UNCHANGED <<syncVars, disk, write, newest, faults>>

(* booting = false.                                                        *)
Open(s) ==
  /\ boot[s] = "open"
  /\ boot' = [boot EXCEPT ![s] = "serving"]
  /\ disturbed' = disturbed \cup (IF Executing # {} THEN {"late"} ELSE {})
  /\ UNCHANGED <<masterVars, syncVars, disk, mem, write, newest, faults>>

-----------------------------------------------------------------------------
Serve(w) ==
  \/ Relay(w)
  \/ Report(w)
  \/ AssignNumber(w)
  \/ ForwardFails(w)
  \/ Execute(w)
  \/ Answer(w)

Bootstrap(s) ==
  \/ AnnounceDown(s)
  \/ RequestLatestTabletState(s)
  \/ PrimaryUnreachable(s)
  \/ SourceLost(s)
  \/ PushCheckpoint(s)
  \/ NoCheckpointToPush(s)
  \/ PushLog(s)
  \/ Load(s)
  \/ AnnounceUp(s)
  \/ Open(s)

Next ==
  \/ \E w \in Writes, r \in Rows, s \in Servers : Send(w, r, s)
  \/ \E w \in Writes : Serve(w)
  \/ \E s \in Servers : Crash(s) \/ Start(s) \/ Bootstrap(s)

Spec == Init /\ [][Next]_vars

(* Threads that can run do run; crashes, restarts and clients owe nothing. *)
FairSpec ==
  /\ Spec
  /\ \A w \in Writes : WF_vars(Serve(w))
  /\ \A s \in Servers : WF_vars(Bootstrap(s))

-----------------------------------------------------------------------------
TypeOK ==
  /\ primary \in Servers /\ replica_alive \subseteq Servers /\ halted \in BOOLEAN
  /\ boot   \in [Servers -> Boots]
  /\ source \in [Servers -> Servers \cup {None}]
  /\ asked  \in [Servers -> [version : Nat, length : Nat]]
  /\ disk   \in [Servers -> DiskType]
  /\ mem    \in [Servers -> MemType]
  /\ write  \in [Writes -> WriteType]
  /\ newest \in [Rows -> Writes \cup {None}]
  /\ disturbed \subseteq Disturbances
  /\ faults \in Nat

Undisturbed == disturbed = {}
OnlyCut     == disturbed \subseteq {"cut"}

(* What a crash would leave on the disk of a server that has loaded its    *)
(* files is what it has in memory: its next start, before it is pushed     *)
(* anything, reads back every write it executed (storage_server.cc:598).   *)
DiskHoldsMemory ==
  \A s \in Servers : boot[s] \in Loaded =>
    /\ mem[s].kv = Replay(disk[s])
    /\ mem[s].checkpoint_version = disk[s].version

(* A write that was answered is held by every server that is open, those   *)
(* that were down when it was made included, until the row is written      *)
(* again.                                                                  *)
AnsweredHeld ==
  \A s \in Serving, r \in Rows : newest[r] # None => mem[s].kv[r] = newest[r]

AnsweredHeldUndisturbed == Undisturbed => AnsweredHeld
AnsweredHeldRecovered == OnlyCut => AnsweredHeld

(* Version and length are all that is compared (storage_server.cc:379):    *)
(* while no write is in progress, open servers that agree on them agree on *)
(* every row.                                                              *)
ReplicasAgree ==
  (Undisturbed /\ InFlight = {}) =>
    \A s, t \in Serving :
      /\ mem[s].kv = mem[t].kv
      /\ mem[s].checkpoint_version = mem[t].checkpoint_version
      /\ mem[s].tablet_log_size = mem[t].tablet_log_size

(* A primary asked for a checkpoint has one: synchronising a replica never *)
(* ends the process of the primary (exit(EXIT_FAILURE),                    *)
(* storage_server.cc:465).                                                 *)
SourceHasCheckpoint ==
  Undisturbed => \A s \in Servers :
    boot[s] = "checkpoint" => mem[source[s]].checkpoint_version > 0

(* A client whose server does not die gets its answer although the primary *)
(* of its row does, before, in the middle of or after its calls to the     *)
(* replicas, and although servers restart and are synchronised meanwhile.  *)
(* The claim ends with the master (halted) and with any disturbance other  *)
(* than a cut; after a reset or a missed write a copy may really wait for  *)
(* ever, for a number that no replica will execute.                        *)
CallsAnswered ==
  \A w \in Writes :
    write[w].stage = "received" ~>
      (write[w].stage \in {"answered", "failed"} \/ write[w].via = None
       \/ ~ OnlyCut \/ halted)
=============================================================================
