-------------------------- MODULE RecoveryProofs --------------------------
(***************************************************************************)
(* What is proved of Recovery for any number of replicas, any rows, limit  *)
(* and bounds: its types, and that the disk of a server that has loaded    *)
(* its files always replays to what the server has in memory; and, for one *)
(* write at a time and until one of the disturbances, that the replicas    *)
(* which serve agree, that they hold every answered write, and that a      *)
(* server asked for its checkpoint has one.                                *)
(***************************************************************************)
EXTENDS Recovery, FiniteSetTheorems, WellFoundedInduction, TLAPS

USE ReplicaAssumption, NoneAssumption, LogAssumption, BoundAssumption

(* A write that is under way has a row and a server that handles it.       *)
WritesPlaced ==
  \A w \in Writes : write[w].stage \in {"received", "ordered", "forward", "report"} =>
    write[w].row \in Rows /\ write[w].at \in Servers

(* A server that is being pushed files has a server that pushes them.      *)
SourcesKnown ==
  \A s \in Servers : boot[s] \in {"checkpoint", "log", "broken"} => source[s] \in Servers

RecoveryTypes == TypeOK /\ WritesPlaced /\ SourcesKnown

(* What a report to the master may change.                                 *)
TablePushed ==
  /\ primary' \in Servers /\ replica_alive' \subseteq Servers /\ halted' \in BOOLEAN
  /\ mem' \in [Servers -> MemType] /\ disturbed' \subseteq Disturbances
  /\ \A s \in Servers : /\ mem'[s].kv = mem[s].kv
                        /\ mem'[s].checkpoint_version = mem[s].checkpoint_version

LEMMA EmptyTypes ==
  /\ NoWrites \in [Rows -> Writes \cup {None}]
  /\ EmptyMem \in MemType /\ EmptyDisk \in DiskType
  /\ IdleWrite \in WriteType
  /\ NoRequest \in [version : Nat, length : Nat]
BY DEF NoWrites, Zeros, EmptyMem, MemType, EmptyDisk, DiskType, IdleWrite, WriteType, Stages,
       NoRequest

(* A server leaves a set of servers without leaving the type.              *)
LEMMA WithoutTypes ==
  ASSUME NEW x \in WriteType, NEW s
  PROVE  [x EXCEPT !.todo = x.todo \ {s}] \in WriteType
<1>1. x.todo \ {s} \in SUBSET Servers
  BY DEF WriteType
<1> QED
  BY <1>1 DEF WriteType

LEMMA MovedTypes ==
  ASSUME NEW x \in WriteType, NEW stage \in Stages
  PROVE  [x EXCEPT !.stage = stage] \in WriteType
BY DEF WriteType

LEMMA NumberedTypes ==
  ASSUME NEW x \in WriteType, NEW n \in Nat
  PROVE  [x EXCEPT !.stage = "forward", !.num = n, !.todo = Servers] \in WriteType
BY DEF WriteType, Stages

LEMMA EmptiedTypes ==
  ASSUME NEW d \in MemType
  PROVE  /\ Emptied(d) \in MemType
         /\ Emptied(d).kv = d.kv
         /\ Emptied(d).checkpoint_version = d.checkpoint_version
BY DEF Emptied, MemType, Zeros

LEMMA PushTypes ==
  ASSUME TypeOK, NEW S, Push(S)
  PROVE  /\ mem' \in [Servers -> MemType] /\ disturbed' \subseteq Disturbances
         /\ \A s \in Servers : /\ mem'[s].kv = mem[s].kv
                               /\ mem'[s].checkpoint_version = mem[s].checkpoint_version
<1>1. mem' = [s \in Servers |-> IF s \in S /\ boot[s] # "off" THEN Emptied(mem[s]) ELSE mem[s]]
  BY DEF Push
<1>2. ASSUME NEW s \in Servers
      PROVE /\ mem'[s] \in MemType /\ mem'[s].kv = mem[s].kv
            /\ mem'[s].checkpoint_version = mem[s].checkpoint_version
  <2>1. mem[s] \in MemType
    BY DEF TypeOK
  <2> QED
    BY <1>1, <2>1, EmptiedTypes
<1>3. disturbed' \subseteq Disturbances
  BY DEF Push, TypeOK, Disturbances
<1> QED
  BY <1>1, <1>2, <1>3

LEMMA UnpushedTypes ==
  ASSUME TypeOK, UNCHANGED <<mem, disturbed>>
  PROVE  /\ mem' \in [Servers -> MemType] /\ disturbed' \subseteq Disturbances
         /\ \A s \in Servers : /\ mem'[s].kv = mem[s].kv
                               /\ mem'[s].checkpoint_version = mem[s].checkpoint_version
BY DEF TypeOK

LEMMA ReportDownTypes ==
  ASSUME TypeOK, NEW s, NEW from, ReportDown(s, from)
  PROVE  TablePushed
<1>1. primary' \in Servers /\ replica_alive' \subseteq Servers /\ halted' \in BOOLEAN
  BY DEF ReportDown, TypeOK, masterVars
<1>2. CASE UNCHANGED <<mem, disturbed>>
  BY <1>1, <1>2, UnpushedTypes DEF TablePushed
<1>3. CASE Push(Servers) \/ Push({from})
  BY <1>1, <1>3, PushTypes DEF TablePushed
<1> QED
  BY <1>2, <1>3 DEF ReportDown

LEMMA ReportUpTypes ==
  ASSUME TypeOK, NEW s \in Servers, ReportUp(s)
  PROVE  TablePushed
<1>1. primary' \in Servers /\ replica_alive' \subseteq Servers /\ halted' \in BOOLEAN
  BY DEF ReportUp, TypeOK, masterVars
<1>2. CASE UNCHANGED <<mem, disturbed>>
  BY <1>1, <1>2, UnpushedTypes DEF TablePushed
<1>3. CASE Push(Servers)
  BY <1>1, <1>3, PushTypes DEF TablePushed
<1> QED
  BY <1>2, <1>3 DEF ReportUp

(* The inductive invariant.                                                *)
RecoveryInv == RecoveryTypes /\ DiskHoldsMemory

LEMMA RecoveryInit == Init => RecoveryInv
<1> SUFFICES ASSUME Init PROVE RecoveryInv
  OBVIOUS
<1>1. TypeOK
  <2>1. 1 \in Servers
    BY DEF Servers
  <2> QED
    BY <2>1, EmptyTypes DEF Init, TypeOK, Boots
<1>2. WritesPlaced /\ SourcesKnown
  BY EmptyTypes DEF Init, WritesPlaced, SourcesKnown, IdleWrite
<1>3. DiskHoldsMemory
  BY DEF Init, DiskHoldsMemory, Replay, EmptyDisk, EmptyMem, NoWrites
<1> QED
  BY <1>1, <1>2, <1>3 DEF RecoveryInv, RecoveryTypes

LEMMA SendKeeps ==
  ASSUME RecoveryInv, NEW w \in Writes, NEW r \in Rows, NEW s \in Servers, Send(w, r, s)
  PROVE  RecoveryInv'
<1> USE DEF RecoveryInv, RecoveryTypes
<1>1. write' \in [Writes -> WriteType]
  BY EmptyTypes DEF Send, TypeOK, WriteType, Stages
<1>2. TypeOK'
  BY <1>1 DEF Send, TypeOK, masterVars, syncVars, historyVars
<1>3. WritesPlaced' /\ SourcesKnown'
  BY DEF Send, TypeOK, WriteType, IdleWrite, WritesPlaced, SourcesKnown, syncVars
<1>4. DiskHoldsMemory'
  BY DEF Send, DiskHoldsMemory
<1> QED
  BY <1>2, <1>3, <1>4

(* The numbering of a write and the calls of the loop that fail change     *)
(* nothing DiskHoldsMemory speaks of.                                      *)
LEMMA RelayKeeps ==
  ASSUME RecoveryInv, NEW w \in Writes, Relay(w)
  PROVE  RecoveryInv'
<1> USE DEF RecoveryInv, RecoveryTypes
<1>1. write' \in [Writes -> WriteType]
  BY DEF Relay, TypeOK, WriteType, Stages
<1>2. TypeOK'
  BY <1>1 DEF Relay, TypeOK, masterVars, syncVars, historyVars
<1>3. WritesPlaced' /\ SourcesKnown'
  BY DEF Relay, TypeOK, WriteType, WritesPlaced, SourcesKnown, syncVars
<1>4. DiskHoldsMemory'
  BY DEF Relay, DiskHoldsMemory
<1> QED
  BY <1>2, <1>3, <1>4

LEMMA ReportKeeps ==
  ASSUME RecoveryInv, NEW w \in Writes, Report(w)
  PROVE  RecoveryInv'
<1> USE DEF RecoveryInv, RecoveryTypes
<1>1. TablePushed
  BY ReportDownTypes DEF Report
<1>2. write' \in [Writes -> WriteType]
  <2>1. write' = [write EXCEPT ![w] = [write[w] EXCEPT !.stage = "received"]]
    BY DEF Report
  <2>2. write[w] \in WriteType /\ "received" \in Stages
    BY DEF TypeOK, Stages
  <2>3. [write[w] EXCEPT !.stage = "received"] \in WriteType
    BY <2>2, MovedTypes
  <2> QED
    BY <2>1, <2>3 DEF TypeOK
<1>3. TypeOK'
  BY <1>1, <1>2 DEF Report, TypeOK, TablePushed, syncVars
<1>4. WritesPlaced' /\ SourcesKnown'
  BY DEF Report, TypeOK, WriteType, WritesPlaced, SourcesKnown, syncVars
<1>5. DiskHoldsMemory'
  BY <1>1 DEF Report, DiskHoldsMemory, TablePushed
<1> QED
  BY <1>3, <1>4, <1>5

LEMMA AssignNumberKeeps ==
  ASSUME RecoveryInv, NEW w \in Writes, AssignNumber(w)
  PROVE  RecoveryInv'
<1> USE DEF RecoveryInv, RecoveryTypes
<1> DEFINE p == write[w].at
           r == write[w].row
           n == mem[p].sequence_max_seen[r] + 1
<1>1. p \in Servers /\ r \in Rows
  BY DEF AssignNumber, WritesPlaced
<1>2. mem[p] \in MemType /\ n \in Nat
  BY <1>1 DEF TypeOK, MemType
<1> HIDE DEF p, r, n
<1>3. mem' = [mem EXCEPT ![p].sequence_max_seen[r] = n]
  BY DEF AssignNumber, p, r, n
<1>4. mem' \in [Servers -> MemType]
  BY <1>1, <1>2, <1>3 DEF TypeOK, MemType
<1>5. write' = [write EXCEPT ![w].stage = "forward", ![w].num = n, ![w].todo = Servers]
  BY DEF AssignNumber, p, r, n
<1>6. write' \in [Writes -> WriteType]
  <2>1. write[w] \in WriteType
    BY DEF TypeOK
  <2>2. [write[w] EXCEPT !.stage = "forward", !.num = n, !.todo = Servers] \in WriteType
    BY <1>2, <2>1, NumberedTypes
  <2>3. write' = [write EXCEPT ![w] =
                    [write[w] EXCEPT !.stage = "forward", !.num = n, !.todo = Servers]]
    BY <1>5
  <2> QED
    BY <2>2, <2>3 DEF TypeOK
<1>7. TypeOK'
  BY <1>4, <1>6 DEF AssignNumber, TypeOK, masterVars, syncVars, historyVars
<1>8. WritesPlaced' /\ SourcesKnown'
  BY <1>1, <1>5 DEF AssignNumber, TypeOK, WriteType, WritesPlaced, SourcesKnown, syncVars, p, r
<1>9. DiskHoldsMemory'
  BY <1>3 DEF AssignNumber, DiskHoldsMemory, TypeOK, MemType
<1> QED
  BY <1>7, <1>8, <1>9

LEMMA ForwardFailsKeeps ==
  ASSUME RecoveryInv, NEW w \in Writes, ForwardFails(w)
  PROVE  RecoveryInv'
<1> USE DEF RecoveryInv, RecoveryTypes
<1>1. write' \in [Writes -> WriteType]
  <2>1. write' = [write EXCEPT ![w] =
                    [write[w] EXCEPT !.todo = write[w].todo \ {Target(w)}]]
    BY DEF ForwardFails
  <2>2. write[w] \in WriteType
    BY DEF TypeOK
  <2>3. [write[w] EXCEPT !.todo = write[w].todo \ {Target(w)}] \in WriteType
    BY <2>2, WithoutTypes
  <2> QED
    BY <2>1, <2>3 DEF TypeOK
<1>2. TypeOK'
  BY <1>1 DEF ForwardFails, TypeOK, masterVars, syncVars, historyVars
<1>3. WritesPlaced' /\ SourcesKnown'
  BY DEF ForwardFails, TypeOK, WriteType, WritesPlaced, SourcesKnown, syncVars
<1>4. DiskHoldsMemory'
  BY DEF ForwardFails, DiskHoldsMemory
<1> QED
  BY <1>2, <1>3, <1>4

LEMMA AnswerKeeps ==
  ASSUME RecoveryInv, NEW w \in Writes, Answer(w)
  PROVE  RecoveryInv'
<1> USE DEF RecoveryInv, RecoveryTypes
<1>1. Finished("answered") \in WriteType /\ Finished("answered").stage = "answered"
  BY DEF Finished, IdleWrite, WriteType, Stages
<1>2. write' = [write EXCEPT ![w] = Finished("answered")]
  BY DEF Answer
<1>3. newest' \in [Rows -> Writes \cup {None}]
  BY DEF Answer, TypeOK
<1>4. TypeOK'
  BY <1>1, <1>2, <1>3 DEF Answer, TypeOK, masterVars, syncVars
<1>5. WritesPlaced' /\ SourcesKnown'
  BY <1>1, <1>2 DEF Answer, TypeOK, WritesPlaced, SourcesKnown, syncVars
<1>6. DiskHoldsMemory'
  BY DEF Answer, DiskHoldsMemory
<1> QED
  BY <1>4, <1>5, <1>6

(* A command is executed as it is logged: what a server has in memory      *)
(* afterwards is what its disk replays to, with or without a checkpoint.   *)
LEMMA LongerLogTypes ==
  ASSUME NEW d \in DiskType, NEW r \in Rows, NEW w \in Writes
  PROVE  [d EXCEPT !.length = d.length + 1, !.last[r] = w] \in DiskType
<1>1. d.length \in Nat /\ d.last \in [Rows -> Writes \cup {None}]
  BY DEF DiskType
<1>2. d.length + 1 \in Nat
  BY <1>1
<1>3. [d.last EXCEPT ![r] = w] \in [Rows -> Writes \cup {None}]
  BY <1>1
<1>4. [d EXCEPT !.length = d.length + 1, !.last = [d.last EXCEPT ![r] = w]] \in DiskType
  BY <1>2, <1>3 DEF DiskType
<1> QED
  BY <1>4

LEMMA ChangedTypes ==
  ASSUME NEW d \in MemType, NEW v \in Nat, NEW l \in Nat, NEW r \in Rows, NEW w \in Writes,
         NEW n \in Nat
  PROVE  [d EXCEPT !.checkpoint_version = v, !.tablet_log_size = l, !.kv[r] = w,
                   !.sequence_numbers[r] = n, !.sequence_max_seen[r] = n] \in MemType
<1>1. /\ [d.kv EXCEPT ![r] = w] \in [Rows -> Writes \cup {None}]
      /\ [d.sequence_numbers EXCEPT ![r] = n] \in [Rows -> Nat]
      /\ [d.sequence_max_seen EXCEPT ![r] = n] \in [Rows -> Nat]
  BY DEF MemType
<1>2. [d EXCEPT !.checkpoint_version = v, !.tablet_log_size = l,
                !.kv = [d.kv EXCEPT ![r] = w],
                !.sequence_numbers = [d.sequence_numbers EXCEPT ![r] = n],
                !.sequence_max_seen = [d.sequence_max_seen EXCEPT ![r] = n]] \in MemType
  BY <1>1 DEF MemType
<1> QED
  BY <1>2 DEF MemType

LEMMA LoggedTypes ==
  ASSUME TypeOK, NEW s \in Servers, NEW w \in Writes, write[w].row \in Rows
  PROVE  LoggedAt(s, w) \in DiskType /\ ExecutedAt(s, w) \in MemType
<1> DEFINE r == write[w].row
<1>0. r \in Rows
  OBVIOUS
<1>1. mem[s] \in MemType /\ disk[s] \in DiskType
  BY DEF TypeOK
<1>2. write[w].num \in Nat
  BY DEF TypeOK, WriteType
<1>3. LoggedAt(s, w) \in DiskType
  <2>1. CASE Checkpoints(s)
    <3>1. [NoWrites EXCEPT ![r] = w] \in [Rows -> Writes \cup {None}]
      BY EmptyTypes
    <3>2. LoggedAt(s, w) = [version |-> mem[s].checkpoint_version + 1, kv |-> mem[s].kv,
                            length |-> 1, last |-> [NoWrites EXCEPT ![r] = w]]
      BY <2>1 DEF LoggedAt
    <3> QED
      BY <1>1, <3>1, <3>2 DEF DiskType, MemType
  <2>2. CASE ~ Checkpoints(s)
    <3>1. LoggedAt(s, w) = [disk[s] EXCEPT !.length = disk[s].length + 1, !.last[r] = w]
      BY <2>2 DEF LoggedAt
    <3>2. [disk[s] EXCEPT !.length = disk[s].length + 1, !.last[r] = w] \in DiskType
      BY <1>0, <1>1, LongerLogTypes
    <3> QED
      BY <3>1, <3>2
  <2> QED
    BY <2>1, <2>2
<1>4. ExecutedAt(s, w) \in MemType
  <2> DEFINE v == IF Checkpoints(s) THEN mem[s].checkpoint_version + 1
                  ELSE mem[s].checkpoint_version
             l == IF Checkpoints(s) THEN 1 ELSE mem[s].tablet_log_size + 1
             n == write[w].num
  <2>1. v \in Nat /\ l \in Nat
    BY <1>1 DEF MemType
  <2>2. ExecutedAt(s, w) =
          [mem[s] EXCEPT !.checkpoint_version = v, !.tablet_log_size = l, !.kv[r] = w,
                         !.sequence_numbers[r] = n, !.sequence_max_seen[r] = n]
    BY DEF ExecutedAt
  <2>3. n \in Nat
    BY <1>2
  <2> HIDE DEF v, l, n, r
  <2>4. [mem[s] EXCEPT !.checkpoint_version = v, !.tablet_log_size = l, !.kv[r] = w,
                       !.sequence_numbers[r] = n, !.sequence_max_seen[r] = n] \in MemType
    BY <1>0, <1>1, <2>1, <2>3, ChangedTypes
  <2> QED
    BY <2>2, <2>4
<1> QED
  BY <1>3, <1>4

LEMMA LoggedReplays ==
  ASSUME TypeOK, NEW s \in Servers, NEW w \in Writes, write[w].row \in Rows,
         mem[s].kv = Replay(disk[s]), mem[s].checkpoint_version = disk[s].version
  PROVE  /\ ExecutedAt(s, w).kv = Replay(LoggedAt(s, w))
         /\ ExecutedAt(s, w).checkpoint_version = LoggedAt(s, w).version
<1> DEFINE r == write[w].row
<1>1. mem[s] \in MemType /\ disk[s] \in DiskType /\ w # None
  BY DEF TypeOK
<1>2. ExecutedAt(s, w).kv = [mem[s].kv EXCEPT ![r] = w]
  BY <1>1 DEF ExecutedAt, MemType
<1>3. CASE Checkpoints(s)
  <2>1. LoggedAt(s, w) = [version |-> mem[s].checkpoint_version + 1, kv |-> mem[s].kv,
                          length |-> 1, last |-> [NoWrites EXCEPT ![r] = w]]
    BY <1>3 DEF LoggedAt
  <2>2. ExecutedAt(s, w).checkpoint_version = mem[s].checkpoint_version + 1
    BY <1>1, <1>3 DEF ExecutedAt, MemType
  <2>3. ASSUME NEW q \in Rows
        PROVE [mem[s].kv EXCEPT ![r] = w][q] = Replay(LoggedAt(s, w))[q]
    BY <1>1, <2>1 DEF Replay, NoWrites, MemType
  <2> QED
    BY <1>1, <1>2, <2>1, <2>2, <2>3 DEF Replay, MemType
<1>4. CASE ~ Checkpoints(s)
  <2>1. LoggedAt(s, w) = [disk[s] EXCEPT !.length = disk[s].length + 1, !.last[r] = w]
    BY <1>4 DEF LoggedAt
  <2>2. /\ LoggedAt(s, w).version = disk[s].version /\ LoggedAt(s, w).kv = disk[s].kv
        /\ LoggedAt(s, w).last = [disk[s].last EXCEPT ![r] = w]
    BY <1>1, <2>1 DEF DiskType
  <2>3. ExecutedAt(s, w).checkpoint_version = mem[s].checkpoint_version
    BY <1>1, <1>4 DEF ExecutedAt, MemType
  <2>4. ASSUME NEW q \in Rows
        PROVE [mem[s].kv EXCEPT ![r] = w][q] = Replay(LoggedAt(s, w))[q]
    BY <1>1, <2>2 DEF Replay, MemType, DiskType
  <2> QED
    BY <1>1, <1>2, <2>2, <2>3, <2>4 DEF Replay, MemType
<1> QED
  BY <1>3, <1>4

LEMMA ExecuteKeeps ==
  ASSUME RecoveryInv, NEW w \in Writes, Execute(w)
  PROVE  RecoveryInv'
<1> USE DEF RecoveryInv, RecoveryTypes
<1> DEFINE s == Target(w)
           r == write[w].row
<1>1. write[w] \in WriteType /\ r \in Rows
  BY DEF Execute, WritesPlaced, TypeOK
<1>2. write' \in [Writes -> WriteType]
  <2>1. write' = [write EXCEPT ![w] = [write[w] EXCEPT !.todo = write[w].todo \ {s}]]
    BY DEF Execute
  <2>2. [write[w] EXCEPT !.todo = write[w].todo \ {s}] \in WriteType
    BY <1>1, WithoutTypes
  <2> QED
    BY <2>1, <2>2 DEF TypeOK
<1>3. disk' = [disk EXCEPT ![s] = LoggedAt(s, w)] /\ mem' = [mem EXCEPT ![s] = ExecutedAt(s, w)]
  BY DEF Execute
<1> HIDE DEF s
<1>4. disk' \in [Servers -> DiskType] /\ mem' \in [Servers -> MemType]
  BY <1>1, <1>3, LoggedTypes DEF TypeOK
<1>5. TypeOK'
  BY <1>2, <1>4 DEF Execute, TypeOK, masterVars, syncVars, Disturbances
<1>6. WritesPlaced' /\ SourcesKnown'
  BY DEF Execute, TypeOK, WriteType, WritesPlaced, SourcesKnown, syncVars
<1>7. ASSUME NEW t \in Servers, boot'[t] \in Loaded
      PROVE /\ mem'[t].kv = Replay(disk'[t])
            /\ mem'[t].checkpoint_version = disk'[t].version
  <2>1. mem[t].kv = Replay(disk[t]) /\ mem[t].checkpoint_version = disk[t].version
    BY <1>7 DEF Execute, DiskHoldsMemory
  <2>2. CASE t = s
    <3>1. mem'[t] = ExecutedAt(t, w) /\ disk'[t] = LoggedAt(t, w)
      BY <1>3, <2>2 DEF TypeOK
    <3> QED
      BY <1>1, <2>1, <3>1, LoggedReplays
  <2>3. CASE t # s
    BY <1>3, <2>1, <2>3 DEF TypeOK
  <2> QED
    BY <2>2, <2>3
<1> QED
  BY <1>5, <1>6, <1>7 DEF DiskHoldsMemory

LEMMA AfterEndTypes ==
  ASSUME RecoveryTypes, NEW w \in Writes, NEW s \in Servers
  PROVE  /\ AfterEnd(w, s) \in WriteType
         /\ AfterEnd(w, s).stage \in {"received", "ordered", "forward", "report"} =>
              AfterEnd(w, s).row \in Rows /\ AfterEnd(w, s).at \in Servers
<1> DEFINE x == write[w]
<1>1. x \in WriteType
  BY DEF RecoveryTypes, TypeOK
<1>2. x.stage \in {"received", "ordered", "forward", "report"} => x.row \in Rows /\ x.at \in Servers
  BY DEF RecoveryTypes, WritesPlaced
<1>3. Finished("failed") \in WriteType /\ Finished("failed").stage = "failed"
  BY DEF Finished, IdleWrite, WriteType, Stages
<1>4. CASE AfterEnd(w, s) = Finished("failed") \/ AfterEnd(w, s) = x
  BY <1>1, <1>2, <1>3, <1>4
<1>5. CASE /\ w \in Numbered
           /\ AfterEnd(w, s) = [x EXCEPT !.stage = "report", !.num = 0, !.todo = {}]
  <2>1. x.row \in Rows /\ x.at \in Servers
    BY <1>2, <1>5 DEF Numbered
  <2>2. \A y \in WriteType : [y EXCEPT !.stage = "report", !.num = 0, !.todo = {}] \in WriteType
    BY DEF WriteType, Stages
  <2>3. AfterEnd(w, s).row = x.row /\ AfterEnd(w, s).at = x.at
    BY <1>1, <1>5 DEF WriteType
  <2> QED
    BY <1>1, <1>5, <2>1, <2>2, <2>3
<1>6. CASE /\ w \in Numbered
           /\ AfterEnd(w, s) =
                [x EXCEPT !.via  = IF x.via = s THEN None ELSE x.via,
                          !.todo = IF x.todo # {} /\ Target(w) = s THEN x.todo \ {s} ELSE x.todo]
  BY <1>1, <1>2, <1>6 DEF WriteType, Stages, Numbered
<1> QED
  BY <1>4, <1>5, <1>6 DEF AfterEnd

LEMMA EndKeeps ==
  ASSUME RecoveryInv, NEW s \in Servers, End(s), UNCHANGED disk, faults' \in Nat
  PROVE  RecoveryInv'
<1> USE DEF RecoveryInv, RecoveryTypes
<1>1. boot' = [t \in Servers |->
                IF t = s THEN "off"
                ELSE IF boot[t] \in {"checkpoint", "log"} /\ source[t] = s THEN "broken"
                ELSE boot[t]]
  BY DEF End
<1>2. boot' \in [Servers -> Boots]
  BY <1>1 DEF TypeOK, Boots
<1>3. write' = [w \in Writes |-> AfterEnd(w, s)]
  BY DEF End
<1>4. write' \in [Writes -> WriteType] /\ WritesPlaced'
  BY <1>3, AfterEndTypes DEF WritesPlaced
<1>5. mem' \in [Servers -> MemType] /\ \A t \in Servers \ {s} : mem'[t] = mem[t]
  BY EmptyTypes DEF End, TypeOK
<1>6. /\ asked' \in [Servers -> [version : Nat, length : Nat]]
      /\ source' \in [Servers -> Servers \cup {None}]
      /\ \A t \in Servers \ {s} : source'[t] = source[t]
  BY EmptyTypes DEF End, TypeOK
<1>7. disturbed' \subseteq Disturbances
  BY DEF End, TypeOK, Disturbances
<1>8. TypeOK'
  BY <1>2, <1>4, <1>5, <1>6, <1>7 DEF End, TypeOK, masterVars
<1>9. SourcesKnown'
  BY <1>1, <1>6 DEF SourcesKnown
<1>10. DiskHoldsMemory'
  BY <1>1, <1>5 DEF DiskHoldsMemory, Loaded
<1> QED
  BY <1>4, <1>8, <1>9, <1>10

(* Steps of a restart that change neither memory nor disk nor writes.      *)
LEMMA StartKeeps ==
  ASSUME RecoveryInv, NEW s \in Servers, Start(s) \/ Open(s) \/ RequestLatestTabletState(s)
  PROVE  RecoveryInv'
<1> USE DEF RecoveryInv, RecoveryTypes
<1>1. CASE Start(s)
  <2>1. TypeOK'
    BY <1>1 DEF Start, TypeOK, Boots, masterVars, syncVars, historyVars
  <2>2. WritesPlaced' /\ SourcesKnown'
    BY <1>1 DEF Start, TypeOK, WritesPlaced, SourcesKnown, syncVars
  <2>3. DiskHoldsMemory'
    BY <1>1 DEF Start, TypeOK, DiskHoldsMemory, Loaded
  <2> QED
    BY <2>1, <2>2, <2>3
<1>2. CASE Open(s)
  <2>1. TypeOK'
    BY <1>2 DEF Open, TypeOK, Boots, Disturbances, masterVars, syncVars
  <2>2. WritesPlaced' /\ SourcesKnown'
    BY <1>2 DEF Open, TypeOK, WritesPlaced, SourcesKnown, syncVars
  <2>3. DiskHoldsMemory'
    BY <1>2 DEF Open, TypeOK, DiskHoldsMemory, Loaded
  <2> QED
    BY <2>1, <2>2, <2>3
<1>3. CASE RequestLatestTabletState(s)
  <2>1. Needs(s, primary) \in {"checkpoint", "log", "load"}
    BY DEF Needs
  <2>2. TypeOK'
    BY <1>3, <2>1 DEF RequestLatestTabletState, TypeOK, Boots, Disturbances, masterVars
  <2>3. WritesPlaced' /\ SourcesKnown'
    BY <1>3 DEF RequestLatestTabletState, TypeOK, WritesPlaced, SourcesKnown
  <2>4. DiskHoldsMemory'
    BY <1>3, <2>1 DEF RequestLatestTabletState, TypeOK, DiskHoldsMemory, Loaded
  <2> QED
    BY <2>2, <2>3, <2>4
<1> QED
  BY <1>1, <1>2, <1>3

LEMMA AnnounceKeeps ==
  ASSUME RecoveryInv, NEW s \in Servers,
         AnnounceDown(s) \/ AnnounceUp(s) \/ PrimaryUnreachable(s) \/ SourceLost(s)
  PROVE  RecoveryInv'
<1> USE DEF RecoveryInv, RecoveryTypes
<1>1. TablePushed
  BY ReportDownTypes, ReportUpTypes DEF AnnounceDown, AnnounceUp, PrimaryUnreachable, SourceLost
<1>2. UNCHANGED <<disk, write, newest, faults, source>>
  BY DEF AnnounceDown, AnnounceUp, PrimaryUnreachable, SourceLost, syncVars
<1>3. /\ boot' \in [Servers -> Boots]
      /\ \A t \in Servers :
           \/ boot'[t] = boot[t]
           \/ boot'[t] \in {"started", "sync"}
           \/ boot[t] = "up" /\ boot'[t] = "open"
  BY DEF AnnounceDown, AnnounceUp, PrimaryUnreachable, SourceLost, TypeOK, Boots
<1>4. asked' \in [Servers -> [version : Nat, length : Nat]]
  <2>1. CASE AnnounceDown(s)
    <3>1. disk[s].version \in Nat /\ disk[s].length \in Nat
      BY DEF TypeOK, DiskType
    <3> QED
      BY <2>1, <3>1 DEF AnnounceDown, TypeOK
  <2>2. CASE AnnounceUp(s) \/ PrimaryUnreachable(s) \/ SourceLost(s)
    BY <2>2 DEF AnnounceUp, PrimaryUnreachable, SourceLost, syncVars, TypeOK
  <2> QED
    BY <2>1, <2>2
<1>5. TypeOK'
  BY <1>1, <1>2, <1>3, <1>4 DEF TypeOK, TablePushed
<1>6. WritesPlaced' /\ SourcesKnown'
  BY <1>2, <1>3 DEF WritesPlaced, SourcesKnown
<1>7. DiskHoldsMemory'
  BY <1>1, <1>2, <1>3 DEF DiskHoldsMemory, TablePushed, Loaded
<1> QED
  BY <1>5, <1>6, <1>7

(* The files of a server that has not loaded them may change.              *)
LEMMA PushFilesKeeps ==
  ASSUME RecoveryInv, NEW s \in Servers, PushCheckpoint(s) \/ PushLog(s)
  PROVE  RecoveryInv'
<1> USE DEF RecoveryInv, RecoveryTypes
<1>1. /\ boot[s] \in {"checkpoint", "log"}
      /\ boot' = [boot EXCEPT ![s] = "log"] \/ boot' = [boot EXCEPT ![s] = "load"]
      /\ boot'[s] = "log" => boot[s] = "checkpoint"
  BY DEF PushCheckpoint, PushLog, TypeOK
<1>2. UNCHANGED <<masterVars, syncVars, mem, write, historyVars, faults>>
  BY DEF PushCheckpoint, PushLog
<1>3. source[s] \in Servers
  BY <1>1 DEF SourcesKnown
<1>4. disk[s] \in DiskType /\ disk[source[s]] \in DiskType /\ mem[source[s]] \in MemType
  BY <1>3 DEF TypeOK
<1>5. /\ disk' \in [Servers -> DiskType]
      /\ \A t \in Servers \ {s} : disk'[t] = disk[t]
  <2>1. CASE PushCheckpoint(s)
    <3> DEFINE v == mem[source[s]].checkpoint_version
               kept == IF v < disk[s].version THEN disk[s]
                       ELSE [disk[s] EXCEPT !.version = v, !.kv = disk[source[s]].kv]
    <3>1. disk' = [disk EXCEPT ![s] = kept]
      BY <2>1 DEF PushCheckpoint
    <3>2. kept \in DiskType
      <4>1. v \in Nat /\ disk[source[s]].kv \in [Rows -> Writes \cup {None}]
        BY <1>4 DEF MemType, DiskType
      <4>2. [disk[s] EXCEPT !.version = v, !.kv = disk[source[s]].kv] \in DiskType
        BY <1>4, <4>1 DEF DiskType
      <4> QED
        BY <1>4, <4>2
    <3> QED
      BY <3>1, <3>2 DEF TypeOK
  <2>2. CASE PushLog(s)
    <3> DEFINE d == disk[source[s]]
    <3>1. disk' = [disk EXCEPT ![s] = [disk[s] EXCEPT !.length = d.length, !.last = d.last]]
      BY <2>2 DEF PushLog
    <3>2. [disk[s] EXCEPT !.length = d.length, !.last = d.last] \in DiskType
      BY <1>4 DEF DiskType
    <3> QED
      BY <3>1, <3>2 DEF TypeOK
  <2> QED
    BY <2>1, <2>2
<1>6. TypeOK'
  BY <1>1, <1>2, <1>5 DEF TypeOK, Boots, masterVars, syncVars, historyVars
<1>7. WritesPlaced' /\ SourcesKnown'
  BY <1>1, <1>2, <1>3 DEF TypeOK, WritesPlaced, SourcesKnown, syncVars
<1>8. DiskHoldsMemory'
  BY <1>1, <1>2, <1>5 DEF TypeOK, DiskHoldsMemory, Loaded
<1> QED
  BY <1>6, <1>7, <1>8

LEMMA LoadKeeps ==
  ASSUME RecoveryInv, NEW s \in Servers, Load(s)
  PROVE  RecoveryInv'
<1> USE DEF RecoveryInv, RecoveryTypes
<1> DEFINE l == IF disk[s].length = 0 THEN asked[s].length ELSE disk[s].length
           loaded == [mem[s] EXCEPT !.checkpoint_version = disk[s].version,
                                    !.tablet_log_size = l, !.kv = Replay(disk[s])]
<1>1. mem[s] \in MemType /\ disk[s] \in DiskType /\ l \in Nat
  BY DEF TypeOK, DiskType
<1>2. Replay(disk[s]) \in [Rows -> Writes \cup {None}]
  BY <1>1 DEF Replay, DiskType
<1>3. /\ loaded \in MemType
      /\ loaded.kv = Replay(disk[s]) /\ loaded.checkpoint_version = disk[s].version
  <2>1. disk[s].version \in Nat
    BY <1>1 DEF DiskType
  <2> HIDE DEF l
  <2> QED
    BY <1>1, <1>2, <2>1 DEF MemType
<1>4. mem' = [mem EXCEPT ![s] = loaded]
  BY DEF Load
<1> HIDE DEF loaded
<1>5. mem' \in [Servers -> MemType]
  BY <1>3, <1>4 DEF TypeOK
<1>6. TypeOK'
  BY <1>5, EmptyTypes DEF Load, TypeOK, Boots, masterVars, historyVars
<1>7. WritesPlaced' /\ SourcesKnown'
  BY DEF Load, TypeOK, WritesPlaced, SourcesKnown
<1>8. DiskHoldsMemory'
  BY <1>3, <1>4 DEF Load, TypeOK, DiskHoldsMemory, Loaded
<1> QED
  BY <1>6, <1>7, <1>8

LEMMA RecoveryStep == RecoveryInv /\ [Next]_vars => RecoveryInv'
<1> SUFFICES ASSUME RecoveryInv, [Next]_vars PROVE RecoveryInv'
  OBVIOUS
<1>1. ASSUME NEW w \in Writes, NEW r \in Rows, NEW s \in Servers, Send(w, r, s)
      PROVE RecoveryInv'
  BY <1>1, SendKeeps
<1>2. ASSUME NEW w \in Writes, Serve(w) PROVE RecoveryInv'
  BY <1>2, RelayKeeps, ReportKeeps, AssignNumberKeeps, ForwardFailsKeeps, ExecuteKeeps,
     AnswerKeeps DEF Serve
<1>3. ASSUME NEW s \in Servers, Crash(s) PROVE RecoveryInv'
  <2>1. End(s) /\ UNCHANGED disk /\ faults' \in Nat
    BY <1>3 DEF Crash, RecoveryInv, RecoveryTypes, TypeOK
  <2> QED
    BY <2>1, EndKeeps
<1>4. ASSUME NEW s \in Servers, Start(s) PROVE RecoveryInv'
  BY <1>4, StartKeeps
<1>5. ASSUME NEW s \in Servers, Bootstrap(s) PROVE RecoveryInv'
  <2>1. CASE NoCheckpointToPush(s)
    <3>1. source[s] \in Servers /\ faults' \in Nat
      BY <2>1 DEF NoCheckpointToPush, RecoveryInv, RecoveryTypes, SourcesKnown, TypeOK
    <3>2. End(source[s]) /\ UNCHANGED disk
      BY <2>1 DEF NoCheckpointToPush
    <3> QED
      BY <3>1, <3>2, EndKeeps
  <2>2. CASE AnnounceDown(s) \/ AnnounceUp(s) \/ PrimaryUnreachable(s) \/ SourceLost(s)
    BY <2>2, AnnounceKeeps
  <2>3. CASE RequestLatestTabletState(s) \/ Open(s)
    BY <2>3, StartKeeps
  <2>4. CASE PushCheckpoint(s) \/ PushLog(s)
    BY <2>4, PushFilesKeeps
  <2>5. CASE Load(s)
    BY <2>5, LoadKeeps
  <2> QED
    BY <1>5, <2>1, <2>2, <2>3, <2>4, <2>5 DEF Bootstrap
<1>6. CASE UNCHANGED vars
  BY <1>6 DEF vars, masterVars, syncVars, historyVars, RecoveryInv, RecoveryTypes, TypeOK,
              WritesPlaced, SourcesKnown, DiskHoldsMemory
<1> QED
  BY <1>1, <1>2, <1>3, <1>4, <1>5, <1>6 DEF Next

(* The inductive invariant: besides types and files, that a write under    *)
(* way has a row and a handler and a server that is pushed files a source. *)
THEOREM RecoveryInvariant == Spec => []RecoveryInv
BY RecoveryInit, RecoveryStep, PTL DEF Spec

(* The state stays within its types, whatever servers crash and restart.   *)
THEOREM RecoveryTypeOK == Spec => []TypeOK
<1>1. RecoveryInv => TypeOK
  BY DEF RecoveryInv, RecoveryTypes
<1> QED
  BY <1>1, RecoveryInvariant, PTL

(* append_to_tablet_log before execute_*, create_checkpoint before the log *)
(* is emptied, load_checkpoint before load_log: a crash of a server that   *)
(* has loaded its files loses nothing it has executed.                     *)
THEOREM DiskHoldsMemoryHolds == Spec => []DiskHoldsMemory
<1>1. RecoveryInv => DiskHoldsMemory
  BY DEF RecoveryInv
<1> QED
  BY <1>1, RecoveryInvariant, PTL

-----------------------------------------------------------------------------
(* Agreement of the replicas, while at most one write is in progress and   *)
(* none of the disturbances has occurred.  All is said of the files: a     *)
(* server that has loaded them has their content in memory.                *)

OneWriteAtATime == MaxInFlight = 1

(* A server that has loaded its files, or has the files to load.           *)
Opening == Loaded \cup {"load"}

(* The primary has executed a write that it has still to forward to s.     *)
Behind(s) == \E w \in Executing : s \in write[w].todo /\ boot[s] = "serving"

(* The others have the same files, all that has been executed in them.     *)
Leads(s) == boot[s] \in Opening /\ ~ Behind(s)

Synchronising == {"sync", "checkpoint", "log", "broken"}

(* The files d after the write w of the row r, by handle_checkpointing and *)
(* append_to_tablet_log.                                                   *)
Logged(d, r, w) ==
  IF d.length + 1 = MAX_LOG_CMD_COUNT
  THEN [version |-> d.version + 1, kv |-> Replay(d), length |-> 1,
        last |-> [NoWrites EXCEPT ![r] = w]]
  ELSE [d EXCEPT !.length = @ + 1, !.last[r] = w]

(* The files d are e, or were those of a replica that e has passed.        *)
Before(d, e) ==
  \/ d.version < e.version
  \/ /\ d.version = e.version /\ d.kv = e.kv
     /\ d.length < e.length \/ (d.length = e.length /\ d.last = e.last)

OneAtATime == \A v, w \in InFlight : v = w

AtPrimary == \A w \in Numbered : write[w].at = primary /\ boot[primary] = "serving"

PrimaryFirst ==
  \A w \in Numbered : write[w].stage = "forward" /\ write[w].at \in write[w].todo =>
    write[w].todo = Servers

WritesFit == OneAtATime /\ AtPrimary /\ PrimaryFirst

LogCounted ==
  \A s \in Servers : boot[s] \in Loaded => mem[s].tablet_log_size = disk[s].length

LeadersAgree == \A s, t \in Servers : Leads(s) /\ Leads(t) => disk[s] = disk[t]

LeadersLogged == \A s \in Servers : Leads(s) /\ disk[s].version > 0 => disk[s].length > 0

BehindByOne ==
  \A w \in Writes, s, p \in Servers :
    w \in Executing /\ p = write[w].at /\ s \in write[w].todo /\ boot[s] = "serving" =>
      disk[p] = Logged(disk[s], write[w].row, w)

OthersBefore ==
  \A s, c \in Servers : Leads(c) /\ boot[s] \notin Opening /\ ~ Torn(s) =>
    Before(disk[s], disk[c])

AskedUntorn ==
  \A s \in Servers : boot[s] \in Synchronising /\ ~ Torn(s) =>
    asked[s].version = disk[s].version /\ asked[s].length = disk[s].length

AskedTorn ==
  \A s, c \in Servers : Torn(s) =>
    asked[s].version < disk[s].version /\ (Leads(c) => disk[s].version <= disk[c].version)

SourcesLead ==
  \A s, c \in Servers : boot[s] \in {"checkpoint", "log"} /\ c = source[s] =>
    /\ Leads(c) /\ boot[c] \in Loaded
    /\ boot[s] = "checkpoint" => asked[s].version < disk[c].version
    /\ boot[s] = "log" => disk[s].version = disk[c].version /\ disk[s].kv = disk[c].kv

EmptyLogAsked ==
  \A s \in Servers : boot[s] = "load" /\ disk[s].length = 0 => asked[s].length = 0

FilesFit ==
  /\ LogCounted /\ LeadersAgree /\ LeadersLogged /\ BehindByOne /\ OthersBefore
  /\ AskedUntorn /\ AskedTorn /\ SourcesLead /\ EmptyLogAsked

ExecutingHeld ==
  \A w \in Writes, r \in Rows, p \in Servers :
    w \in Executing /\ r = write[w].row /\ p = write[w].at =>
      newest[r] = None /\ Replay(disk[p])[r] = w

NewestHeld ==
  \A c \in Servers, r \in Rows :
    Leads(c) /\ newest[r] # None => Replay(disk[c])[r] = newest[r]

NewestFit == ExecutingHeld /\ NewestHeld

Agreement == WritesFit /\ FilesFit /\ NewestFit

(* The inductive invariant of the agreement.                               *)
AgreeInv == RecoveryInv /\ (Undisturbed => Agreement)

(* One command more in the files.                                          *)
LEMMA LoggedLater ==
  ASSUME NEW d \in DiskType, NEW r \in Rows, NEW w \in Writes
  PROVE  /\ Logged(d, r, w) \in DiskType
         /\ Logged(d, r, w).length > 0
         /\ Replay(Logged(d, r, w)) = [Replay(d) EXCEPT ![r] = w]
         /\ d.version <= Logged(d, r, w).version
         /\ \A e \in DiskType : Before(e, d) => Before(e, Logged(d, r, w))
<1>1. /\ d.version \in Nat /\ d.length \in Nat /\ w # None
      /\ d.kv \in [Rows -> Writes \cup {None}] /\ d.last \in [Rows -> Writes \cup {None}]
  BY DEF DiskType
<1>2. Replay(d) \in [Rows -> Writes \cup {None}]
  BY <1>1 DEF Replay
<1>3. CASE d.length + 1 = MAX_LOG_CMD_COUNT
  <2> DEFINE l == [NoWrites EXCEPT ![r] = w]
  <2>1. Logged(d, r, w) = [version |-> d.version + 1, kv |-> Replay(d), length |-> 1,
                           last |-> l]
    BY <1>3 DEF Logged
  <2>2. l \in [Rows -> Writes \cup {None}] /\ \A q \in Rows : l[q] = IF q = r THEN w ELSE None
    BY DEF NoWrites
  <2> HIDE DEF l
  <2>3. Logged(d, r, w) \in DiskType
    BY <1>1, <1>2, <2>1, <2>2 DEF DiskType
  <2>4. Replay(Logged(d, r, w)) = [q \in Rows |-> IF l[q] # None THEN l[q] ELSE Replay(d)[q]]
    BY <2>1 DEF Replay
  <2>5. Replay(Logged(d, r, w)) = [Replay(d) EXCEPT ![r] = w]
    BY <1>1, <1>2, <2>2, <2>4
  <2>6. \A e \in DiskType : Before(e, d) => Before(e, Logged(d, r, w))
    BY <1>1, <2>1 DEF Before, DiskType
  <2> QED
    BY <1>1, <2>1, <2>3, <2>5, <2>6
<1>4. CASE d.length + 1 # MAX_LOG_CMD_COUNT
  <2> DEFINE l == [d.last EXCEPT ![r] = w]
             n == d.length + 1
  <2>1. Logged(d, r, w) = [d EXCEPT !.length = n, !.last = l]
    BY <1>4 DEF Logged
  <2>0. n \in Nat /\ n > 0 /\ n = d.length + 1
    BY <1>1
  <2>2. l \in [Rows -> Writes \cup {None}] /\ \A q \in Rows : l[q] = IF q = r THEN w ELSE d.last[q]
    BY <1>1
  <2> HIDE DEF l, n
  <2>3. /\ Logged(d, r, w) \in DiskType
        /\ Logged(d, r, w).version = d.version /\ Logged(d, r, w).kv = d.kv
        /\ Logged(d, r, w).length = n /\ Logged(d, r, w).last = l
    BY <1>1, <2>0, <2>1, <2>2 DEF DiskType
  <2>4. Replay(Logged(d, r, w)) = [q \in Rows |-> IF l[q] # None THEN l[q] ELSE d.kv[q]]
    BY <2>3 DEF Replay
  <2>5. Replay(Logged(d, r, w)) = [Replay(d) EXCEPT ![r] = w]
    <3>1. Replay(d) = [q \in Rows |-> IF d.last[q] # None THEN d.last[q] ELSE d.kv[q]]
      BY DEF Replay
    <3> QED
      BY <1>1, <1>2, <2>2, <2>4, <3>1
  <2>6. \A e \in DiskType : Before(e, d) => Before(e, Logged(d, r, w))
    BY <1>1, <2>0, <2>3 DEF Before, DiskType
  <2> QED
    BY <1>1, <2>0, <2>3, <2>5, <2>6
<1> QED
  BY <1>3, <1>4

LEMMA BeforeItself == ASSUME NEW d PROVE Before(d, d)
BY DEF Before

(* What Execute writes is one command more.                                *)
LEMMA LoggedAtIs ==
  ASSUME RecoveryInv, NEW s \in Servers, NEW w \in Writes, write[w].row \in Rows,
         boot[s] \in Loaded, mem[s].tablet_log_size = disk[s].length
  PROVE  /\ LoggedAt(s, w) = Logged(disk[s], write[w].row, w)
         /\ ExecutedAt(s, w).tablet_log_size = LoggedAt(s, w).length
<1>1. mem[s] \in MemType /\ disk[s] \in DiskType
  BY DEF RecoveryInv, RecoveryTypes, TypeOK
<1>2. mem[s].kv = Replay(disk[s]) /\ mem[s].checkpoint_version = disk[s].version
  BY DEF RecoveryInv, DiskHoldsMemory
<1>3. LoggedAt(s, w) = Logged(disk[s], write[w].row, w)
  BY <1>2 DEF LoggedAt, Logged, Checkpoints
<1>4. ExecutedAt(s, w).tablet_log_size = IF Checkpoints(s) THEN 1 ELSE disk[s].length + 1
  BY <1>1 DEF ExecutedAt, MemType
<1>5. LoggedAt(s, w).length = IF Checkpoints(s) THEN 1 ELSE disk[s].length + 1
  BY <1>1 DEF LoggedAt, DiskType
<1> QED
  BY <1>3, <1>4, <1>5

(* While the primary forwards a write, it leads.                           *)
LEMMA CallerLeads ==
  ASSUME RecoveryInv, WritesFit, NEW w \in Writes, w \in Executing
  PROVE  /\ write[w].at \in Servers /\ write[w].row \in Rows
         /\ w \in InFlight /\ w \in Numbered
         /\ write[w].at = primary /\ boot[write[w].at] = "serving" /\ Leads(write[w].at)
<1>1. write[w].stage = "forward" /\ write[w].at \notin write[w].todo
  BY DEF Executing
<1>2. w \in InFlight /\ w \in Numbered
  BY <1>1 DEF InFlight, Numbered
<1>3. write[w].at \in Servers /\ write[w].row \in Rows
  BY <1>1 DEF RecoveryInv, RecoveryTypes, WritesPlaced
<1>4. write[w].at = primary /\ boot[primary] = "serving"
  BY <1>2 DEF WritesFit, AtPrimary
<1>5. ASSUME NEW v \in Executing PROVE v = w
  BY <1>2 DEF Executing, InFlight, WritesFit, OneAtATime
<1>6. ~ Behind(write[w].at)
  BY <1>1, <1>5 DEF Behind
<1> QED
  BY <1>2, <1>3, <1>4, <1>6 DEF Leads, Opening, Loaded

(* A step in which the files stay: what may become of one server,          *)
Turn(s) ==
  \/ /\ \/ boot'[s] = boot[s]
        \/ boot[s] = "off" /\ boot'[s] = "started"
        \/ boot[s] = "broken" /\ boot'[s] = "sync"
        \/ boot[s] \in {"checkpoint", "log"} /\ boot'[s] = "broken"
        \/ boot[s] = "up" /\ boot'[s] = "open"
        \/ boot[s] = "open" /\ boot'[s] = "serving" /\ Executing = {}
     /\ asked'[s] = asked[s] /\ source'[s] = source[s]
     /\ boot[s] \in Loaded => mem'[s].tablet_log_size = mem[s].tablet_log_size
  \/ /\ boot[s] = "started" /\ boot'[s] \in {"started", "sync"}
     /\ asked'[s] = [version |-> disk[s].version, length |-> disk[s].length]
  \/ /\ boot[s] = "load" /\ boot'[s] = "up"
     /\ mem'[s].tablet_log_size = disk[s].length
  \/ boot'[s] = "off" /\ ~ Torn(s)

(* and of the calls of the primary.                                        *)
CallsGoOn ==
  /\ \A w \in Writes : w \in Executing' =>
       /\ w \in Executing
       /\ write'[w].at = write[w].at /\ write'[w].row = write[w].row
       /\ write'[w].todo \subseteq write[w].todo
  /\ \A w \in Executing, s \in Servers :
       boot[s] = "serving" /\ boot'[s] = "serving" /\ s \in write[w].todo =>
         w \in Executing' /\ s \in write'[w].todo

SourcesStay ==
  \A s, c \in Servers : boot'[s] \in {"checkpoint", "log"} /\ c = source[s] => boot'[c] # "off"

FilesStay == /\ disk' = disk /\ CallsGoOn /\ SourcesStay
             /\ \A s \in Servers : Turn(s)

LEMMA StayLeads ==
  ASSUME FilesStay, NEW s \in Servers
  PROVE  /\ Leads(s)' => Leads(s)
         /\ Leads(s) /\ boot'[s] # "off" => Leads(s)'
         /\ boot'[s] \in Opening => boot[s] \in Opening
         /\ Torn(s)' => Torn(s) /\ asked'[s] = asked[s]
<1>1. boot'[s] \in Opening => boot[s] \in Opening
  BY DEF FilesStay, Turn, Opening, Loaded
<1>2. boot[s] \in Opening /\ boot'[s] # "off" => boot'[s] \in Opening
  BY DEF FilesStay, Turn, Opening, Loaded
<1>3. ASSUME Leads(s)' PROVE Leads(s)
  <2>1. boot[s] \in Opening
    BY <1>1, <1>3 DEF Leads, Opening, Loaded
  <2>2. ASSUME Behind(s) PROVE FALSE
    <3>1. PICK w \in Executing : s \in write[w].todo /\ boot[s] = "serving"
      BY <2>2 DEF Behind
    <3>2. boot'[s] = "serving"
      BY <1>3, <3>1 DEF FilesStay, Turn, Leads, Opening, Loaded
    <3>3. w \in Executing' /\ s \in write'[w].todo
      BY <3>1, <3>2 DEF FilesStay, CallsGoOn
    <3> QED
      BY <1>3, <3>2, <3>3 DEF Leads, Behind
  <2> QED
    BY <2>1, <2>2 DEF Leads
<1>4. ASSUME Leads(s), boot'[s] # "off" PROVE Leads(s)'
  <2>1. ASSUME Behind(s)' PROVE FALSE
    <3>1. PICK w \in Executing' : s \in write'[w].todo /\ boot'[s] = "serving"
      BY <2>1 DEF Behind
    <3>2. w \in Executing /\ s \in write[w].todo
      BY <3>1 DEF FilesStay, CallsGoOn, Executing
    <3>3. boot[s] = "serving"
      BY <3>1, <3>2 DEF FilesStay, Turn
    <3> QED
      BY <1>4, <3>2, <3>3 DEF Leads, Behind
  <2> QED
    BY <1>2, <1>4, <2>1 DEF Leads, Opening, Loaded
<1>5. Torn(s)' => Torn(s) /\ asked'[s] = asked[s]
  <2> SUFFICES ASSUME Torn(s)' PROVE Torn(s) /\ asked'[s] = asked[s]
    OBVIOUS
  <2>1. boot'[s] \in Synchronising /\ disk[s].version # asked'[s].version
    BY DEF Torn, FilesStay, Synchronising
  <2>0. Turn(s)
    BY DEF FilesStay
  <2>2. asked'[s] = asked[s] /\ boot[s] \in Synchronising
    <3>1. CASE boot[s] = "started" /\ boot'[s] \in {"started", "sync"}
               /\ asked'[s] = [version |-> disk[s].version, length |-> disk[s].length]
      BY <2>1, <3>1
    <3> QED
      BY <2>0, <2>1, <3>1 DEF Turn, Synchronising
  <2> QED
    BY <2>1, <2>2 DEF Torn, Synchronising
<1> QED
  BY <1>1, <1>3, <1>4, <1>5

(* A server that ends was a leader, or one command behind them, or before  *)
(* them already.                                                           *)
LEMMA StayBefore ==
  ASSUME RecoveryInv, WritesFit, FilesFit, FilesStay, NEW s \in Servers, NEW c \in Servers,
         Leads(c), boot'[s] \notin Opening, ~ Torn(s)
  PROVE  Before(disk[s], disk[c])
<1>1. CASE boot[s] \notin Opening
  BY <1>1 DEF FilesFit, OthersBefore
<1>2. CASE Leads(s)
  BY <1>2, BeforeItself DEF FilesFit, LeadersAgree
<1>3. CASE Behind(s)
  <2>1. PICK w \in Writes : w \in Executing /\ s \in write[w].todo /\ boot[s] = "serving"
    BY <1>3 DEF Behind, Executing
  <2> DEFINE p == write[w].at
  <2>2. p \in Servers /\ write[w].row \in Rows /\ Leads(p)
    BY <2>1, CallerLeads
  <2>3. disk[p] = Logged(disk[s], write[w].row, w)
    BY <2>1, <2>2 DEF FilesFit, BehindByOne
  <2>4. disk[p] = disk[c]
    BY <2>2 DEF FilesFit, LeadersAgree
  <2>5. disk[s] \in DiskType
    BY DEF RecoveryInv, RecoveryTypes, TypeOK
  <2>6. Before(disk[s], Logged(disk[s], write[w].row, w))
    BY <2>2, <2>5, BeforeItself, LoggedLater
  <2> QED
    BY <2>3, <2>4, <2>6
<1> QED
  BY <1>1, <1>2, <1>3 DEF Leads

LEMMA StayFits ==
  ASSUME RecoveryInv, WritesFit, FilesFit, FilesStay
  PROVE  FilesFit'
<1>1. LogCounted'
  <2> SUFFICES ASSUME NEW s \in Servers, boot'[s] \in Loaded
               PROVE mem'[s].tablet_log_size = disk'[s].length
    BY DEF LogCounted, Loaded
  <2> QED
    BY DEF FilesStay, Turn, FilesFit, LogCounted, Loaded
<1>2. LeadersAgree'
  BY StayLeads DEF LeadersAgree, FilesFit, FilesStay
<1>3. LeadersLogged'
  BY StayLeads DEF LeadersLogged, FilesFit, FilesStay
<1>4. BehindByOne'
  <2> SUFFICES ASSUME NEW w \in Writes, NEW s \in Servers, NEW p \in Servers,
                      w \in Executing', p = write'[w].at, s \in write'[w].todo,
                      boot'[s] = "serving"
               PROVE disk'[p] = Logged(disk'[s], write'[w].row, w)
    BY DEF BehindByOne
  <2>1. /\ w \in Executing /\ p = write[w].at /\ s \in write[w].todo
        /\ write'[w].row = write[w].row
    BY DEF FilesStay, CallsGoOn
  <2>2. boot[s] = "serving"
    BY <2>1 DEF FilesStay, Turn
  <2> QED
    BY <2>1, <2>2 DEF FilesFit, BehindByOne, FilesStay
<1>5. OthersBefore'
  <2> SUFFICES ASSUME NEW s \in Servers, NEW c \in Servers, Leads(c)',
                      boot'[s] \notin Opening, ~ Torn(s)'
               PROVE Before(disk'[s], disk'[c])
    BY DEF OthersBefore, Opening, Loaded
  <2>1. Leads(c)
    BY StayLeads
  <2>2. ~ Torn(s)
    BY DEF FilesStay, Turn, Torn
  <2>3. Before(disk[s], disk[c])
    BY <2>1, <2>2, StayBefore
  <2> QED
    BY <2>3 DEF FilesStay
<1>6. AskedUntorn'
  <2> SUFFICES ASSUME NEW s \in Servers, boot'[s] \in Synchronising, ~ Torn(s)'
               PROVE /\ asked'[s].version = disk'[s].version
                     /\ asked'[s].length = disk'[s].length
    BY DEF AskedUntorn, Synchronising
  <2>1. Turn(s) /\ disk' = disk
    BY DEF FilesStay
  <2>2. CASE boot[s] = "started" /\ boot'[s] \in {"started", "sync"}
             /\ asked'[s] = [version |-> disk[s].version, length |-> disk[s].length]
    BY <2>1, <2>2
  <2>3. CASE asked'[s] = asked[s] /\ boot[s] \in Synchronising
    <3>1. ~ Torn(s)
      BY <2>1, <2>3 DEF Torn, Synchronising
    <3> QED
      BY <2>1, <2>3, <3>1 DEF FilesFit, AskedUntorn
  <2> QED
    BY <2>1, <2>2, <2>3 DEF Turn, Synchronising
<1>7. AskedTorn'
  BY StayLeads DEF AskedTorn, FilesFit, FilesStay
<1>8. SourcesLead'
  <2> SUFFICES ASSUME NEW s \in Servers, NEW c \in Servers,
                      boot'[s] \in {"checkpoint", "log"}, c = source'[s]
               PROVE /\ Leads(c)' /\ boot'[c] \in Loaded
                     /\ boot'[s] = "checkpoint" => asked'[s].version < disk'[c].version
                     /\ boot'[s] = "log" => /\ disk'[s].version = disk'[c].version
                                            /\ disk'[s].kv = disk'[c].kv
    BY DEF SourcesLead, Loaded
  <2>1. boot'[s] = boot[s] /\ asked'[s] = asked[s] /\ c = source[s]
    BY DEF FilesStay, Turn
  <2>2. Leads(c) /\ boot[c] \in Loaded
    BY <2>1 DEF FilesFit, SourcesLead
  <2>3. boot'[c] # "off"
    BY <2>1 DEF FilesStay, SourcesStay
  <2>4. Leads(c)' /\ boot'[c] \in Loaded
    BY <2>2, <2>3, StayLeads DEF FilesStay, Turn, Loaded
  <2> QED
    BY <2>1, <2>4 DEF FilesFit, SourcesLead, FilesStay
<1>9. EmptyLogAsked'
  <2> SUFFICES ASSUME NEW s \in Servers, boot'[s] = "load", disk'[s].length = 0
               PROVE asked'[s].length = 0
    BY DEF EmptyLogAsked
  <2> QED
    BY DEF FilesStay, Turn, FilesFit, EmptyLogAsked
<1> QED
  BY <1>1, <1>2, <1>3, <1>4, <1>5, <1>6, <1>7, <1>8, <1>9 DEF FilesFit

LEMMA StayHeld ==
  ASSUME NewestFit, FilesStay, newest' = newest
  PROVE  NewestFit'
<1>1. ExecutingHeld'
  BY DEF NewestFit, ExecutingHeld, FilesStay, CallsGoOn
<1>2. NewestHeld'
  BY StayLeads DEF NewestFit, NewestHeld, FilesStay
<1> QED
  BY <1>1, <1>2 DEF NewestFit

(* The table is not pushed under a numbered write.                         *)
LEMMA PushSettles ==
  ASSUME RecoveryInv, NEW S, Push(S), Undisturbed'
  PROVE  /\ S = Servers => Numbered = {}
         /\ \A t \in Servers : mem'[t].tablet_log_size = mem[t].tablet_log_size
<1>1. S = Servers => Numbered = {}
  BY DEF Push, Undisturbed
<1>2. ASSUME NEW t \in Servers PROVE mem'[t].tablet_log_size = mem[t].tablet_log_size
  <2>1. mem[t] \in MemType
    BY DEF RecoveryInv, RecoveryTypes, TypeOK
  <2>2. Emptied(mem[t]).tablet_log_size = mem[t].tablet_log_size
    BY <2>1 DEF Emptied, MemType
  <2>3. mem'[t] = IF t \in S /\ boot[t] # "off" THEN Emptied(mem[t]) ELSE mem[t]
    BY DEF Push
  <2> QED
    BY <2>2, <2>3
<1> QED
  BY <1>1, <1>2

LEMMA ReportSettles ==
  ASSUME RecoveryInv, NEW s, NEW from, ReportDown(s, from) \/ ReportUp(s), Undisturbed'
  PROVE  /\ Numbered = {} \/ primary' = primary
         /\ \A t \in Servers : mem'[t].tablet_log_size = mem[t].tablet_log_size
<1>1. CASE UNCHANGED <<primary, mem>>
  BY <1>1
<1>2. CASE Push(Servers)
  BY <1>2, PushSettles
<1>3. CASE Push({from}) /\ UNCHANGED masterVars
  BY <1>3, PushSettles DEF masterVars
<1> QED
  BY <1>1, <1>2, <1>3 DEF ReportDown, ReportUp, masterVars

(* The writes stay, and the primary if it is calling.                      *)
LEMMA WritesStay ==
  ASSUME WritesFit, write' = write, Numbered = {} \/ primary' = primary,
         \A s \in Servers : boot[s] = "serving" => boot'[s] = "serving",
         primary \in Servers
  PROVE  WritesFit' /\ CallsGoOn
<1>1. Numbered' = Numbered /\ InFlight' = InFlight /\ Executing' = Executing
  BY DEF Numbered, InFlight, Executing
<1>2. WritesFit'
  BY <1>1 DEF WritesFit, OneAtATime, AtPrimary, PrimaryFirst
<1>3. CallsGoOn
  BY <1>1 DEF CallsGoOn
<1> QED
  BY <1>2, <1>3

(* One write changes that is not being forwarded before or after.          *)
LEMMA OthersGoOn ==
  ASSUME NEW w \in Writes, \A v \in Writes : v # w => write'[v] = write[v],
         w \notin Executing, w \notin Executing'
  PROVE  CallsGoOn
<1>1. \A v \in Writes : v # w => (v \in Executing' <=> v \in Executing)
  BY DEF Executing
<1> QED
  BY <1>1 DEF CallsGoOn, Executing

LEMMA NobodyInFlight ==
  ASSUME OneWriteAtATime, Cardinality(InFlight) < MaxInFlight
  PROVE  InFlight = {}
<1>1. IsFiniteSet(1 .. MaxWrites)
  BY FS_Interval
<1>2. IsFiniteSet(InFlight)
  BY <1>1, FS_Subset DEF InFlight, Writes
<1>3. Cardinality(InFlight) \in Nat
  BY <1>2, FS_CardinalityType
<1>4. Cardinality(InFlight) = 0
  BY <1>3 DEF OneWriteAtATime
<1> QED
  BY <1>2, <1>4, FS_EmptySet

LEMMA SendFits ==
  ASSUME RecoveryInv, OneWriteAtATime, WritesFit,
         NEW w \in Writes, NEW r \in Rows, NEW s \in Servers, Send(w, r, s)
  PROVE  WritesFit' /\ CallsGoOn
<1>1. InFlight = {}
  BY NobodyInFlight DEF Send
<1>2. write'[w].stage = "received" /\ \A v \in Writes : v # w => write'[v] = write[v]
  BY DEF Send, RecoveryInv, RecoveryTypes, TypeOK, IdleWrite
<1>3. InFlight' \subseteq {w}
  BY <1>1, <1>2 DEF InFlight
<1>4. Numbered' = {} /\ Executing' = {} /\ Executing = {}
  BY <1>1, <1>2, <1>3 DEF Numbered, InFlight, Executing
<1>5. CallsGoOn
  BY <1>4 DEF CallsGoOn
<1> QED
  BY <1>3, <1>4, <1>5 DEF WritesFit, OneAtATime, AtPrimary, PrimaryFirst

LEMMA RelayFits ==
  ASSUME RecoveryInv, WritesFit, NEW w \in Writes, Relay(w)
  PROVE  WritesFit' /\ CallsGoOn
<1>1. write[w] \in WriteType /\ write' \in [Writes -> WriteType]
  BY RelayKeeps DEF RecoveryInv, RecoveryTypes, TypeOK
<1>2. /\ write[w].stage = "received"
      /\ write'[w].stage = "ordered" \/ write'[w].stage = "report"
      /\ write'[w].stage = "ordered" => boot[primary] = "serving"
      /\ write'[w].at = primary
      /\ \A v \in Writes : v # w => write'[v] = write[v]
  BY <1>1 DEF Relay, RecoveryInv, RecoveryTypes, TypeOK, WriteType, Accepts
<1>3. primary' = primary /\ boot' = boot
  BY DEF Relay, masterVars
<1>4. OneAtATime'
  <2>1. InFlight' = InFlight
    BY <1>2 DEF InFlight
  <2> QED
    BY <2>1 DEF WritesFit, OneAtATime
<1>5. AtPrimary'
  BY <1>2, <1>3 DEF WritesFit, AtPrimary, Numbered
<1>6. PrimaryFirst'
  BY <1>2 DEF WritesFit, PrimaryFirst, Numbered
<1>7. CallsGoOn
  <2>1. w \notin Executing /\ w \notin Executing'
    BY <1>2 DEF Executing
  <2> QED
    BY <1>2, <2>1, OthersGoOn
<1> QED
  BY <1>4, <1>5, <1>6, <1>7 DEF WritesFit

LEMMA ReportFits ==
  ASSUME RecoveryInv, WritesFit, NEW w \in Writes, Report(w), Undisturbed'
  PROVE  WritesFit' /\ CallsGoOn
<1>1. /\ write[w].stage = "report" /\ write'[w].stage = "received"
      /\ \A v \in Writes : v # w => write'[v] = write[v]
  BY DEF Report, RecoveryInv, RecoveryTypes, TypeOK, WriteType
<1>2. boot' = boot /\ (Numbered = {} \/ primary' = primary)
  BY ReportSettles DEF Report
<1>3. InFlight' = InFlight /\ Numbered' = Numbered
  BY <1>1 DEF InFlight, Numbered
<1>4. OneAtATime'
  BY <1>3 DEF WritesFit, OneAtATime
<1>5. AtPrimary' /\ PrimaryFirst'
  <2>1. \A v \in Numbered : write'[v] = write[v]
    BY <1>1 DEF Numbered
  <2> QED
    BY <1>2, <1>3, <2>1 DEF WritesFit, AtPrimary, PrimaryFirst
<1>6. CallsGoOn
  <2>1. w \notin Executing /\ w \notin Executing'
    BY <1>1 DEF Executing
  <2> QED
    BY <1>1, <2>1, OthersGoOn
<1> QED
  BY <1>4, <1>5, <1>6 DEF WritesFit

LEMMA AssignNumberFits ==
  ASSUME RecoveryInv, WritesFit, NEW w \in Writes, AssignNumber(w)
  PROVE  /\ WritesFit' /\ CallsGoOn
         /\ \A t \in Servers : mem'[t].tablet_log_size = mem[t].tablet_log_size
<1>1. /\ write[w].stage = "ordered" /\ write'[w].stage = "forward"
      /\ write'[w].at = write[w].at /\ write'[w].todo = Servers
      /\ \A v \in Writes : v # w => write'[v] = write[v]
  BY DEF AssignNumber, RecoveryInv, RecoveryTypes, TypeOK, WriteType
<1>2. primary' = primary /\ boot' = boot
  BY DEF AssignNumber, masterVars
<1>3. InFlight' = InFlight /\ Numbered' = Numbered
  BY <1>1 DEF InFlight, Numbered
<1>4. OneAtATime' /\ AtPrimary' /\ PrimaryFirst'
  <2>1. OneAtATime'
    BY <1>3 DEF WritesFit, OneAtATime
  <2>2. \A v \in Numbered : write'[v].at = write[v].at
    BY <1>1 DEF Numbered
  <2>3. AtPrimary'
    BY <1>2, <1>3, <2>2 DEF WritesFit, AtPrimary
  <2>4. PrimaryFirst'
    BY <1>1, <1>3 DEF WritesFit, PrimaryFirst, Numbered
  <2> QED
    BY <2>1, <2>3, <2>4
<1>5. CallsGoOn
  <2>1. write[w].at \in Servers
    BY <1>1 DEF RecoveryInv, RecoveryTypes, WritesPlaced
  <2>2. w \notin Executing /\ w \notin Executing'
    BY <1>1, <2>1 DEF Executing
  <2> QED
    BY <1>1, <2>2, OthersGoOn
<1>6. ASSUME NEW t \in Servers PROVE mem'[t].tablet_log_size = mem[t].tablet_log_size
  <2> DEFINE p == write[w].at
             r == write[w].row
             n == mem[p].sequence_max_seen[r] + 1
  <2>1. mem' = [mem EXCEPT ![p].sequence_max_seen[r] = n]
    BY DEF AssignNumber
  <2>2. mem \in [Servers -> MemType]
    BY DEF RecoveryInv, RecoveryTypes, TypeOK
  <2> HIDE DEF p, r, n
  <2> QED
    BY <2>1, <2>2 DEF MemType
<1> QED
  BY <1>4, <1>5, <1>6 DEF WritesFit

(* The primary serves while it calls: it is never passed over.             *)
LEMMA ForwardFailsFits ==
  ASSUME RecoveryInv, WritesFit, NEW w \in Writes, ForwardFails(w)
  PROVE  WritesFit' /\ CallsGoOn
<1> DEFINE t == Target(w)
<1>1. /\ write[w].stage = "forward" /\ boot[t] # "serving"
      /\ write' = [write EXCEPT ![w] = [write[w] EXCEPT !.todo = write[w].todo \ {t}]]
  BY DEF ForwardFails, Accepts
<1>2. write[w].at \notin write[w].todo
  BY <1>1 DEF Target, WritesFit, AtPrimary, Numbered
<1> HIDE DEF t
<1>3. /\ write'[w].stage = "forward" /\ write'[w].at = write[w].at
      /\ write'[w].row = write[w].row /\ write'[w].todo = write[w].todo \ {t}
      /\ \A v \in Writes : v # w => write'[v] = write[v]
  BY <1>1 DEF RecoveryInv, RecoveryTypes, TypeOK, WriteType
<1>4. primary' = primary /\ boot' = boot
  BY DEF ForwardFails, masterVars
<1>5. InFlight' = InFlight /\ Numbered' = Numbered /\ Executing' = Executing
  BY <1>1, <1>2, <1>3 DEF InFlight, Numbered, Executing
<1>6. OneAtATime' /\ AtPrimary' /\ PrimaryFirst'
  <2>1. OneAtATime'
    BY <1>5 DEF WritesFit, OneAtATime
  <2>2. \A v \in Numbered : write'[v].at = write[v].at
    BY <1>3 DEF Numbered
  <2>3. AtPrimary'
    BY <1>4, <1>5, <2>2 DEF WritesFit, AtPrimary
  <2>4. PrimaryFirst'
    BY <1>2, <1>3, <1>5 DEF WritesFit, PrimaryFirst, Numbered
  <2> QED
    BY <2>1, <2>3, <2>4
<1>7. CallsGoOn
  BY <1>1, <1>3, <1>5 DEF CallsGoOn
<1> QED
  BY <1>6, <1>7 DEF WritesFit

LEMMA AnswerFits ==
  ASSUME RecoveryInv, WritesFit, NEW w \in Writes, Answer(w)
  PROVE  /\ WritesFit' /\ CallsGoOn
         /\ Executing' = {} /\ w \in Executing
<1>1. write[w].stage = "forward" /\ write[w].todo = {} /\ w \in Executing /\ w \in InFlight
  BY DEF Answer, Executing, InFlight
<1>2. write'[w].stage = "answered" /\ \A v \in Writes : v # w => write'[v] = write[v]
  BY DEF Answer, Finished, IdleWrite, RecoveryInv, RecoveryTypes, TypeOK
<1>3. InFlight' = {} /\ Numbered' = {} /\ Executing' = {}
  BY <1>1, <1>2 DEF InFlight, Numbered, Executing, WritesFit, OneAtATime
<1>4. OneAtATime' /\ AtPrimary' /\ PrimaryFirst'
  BY <1>3 DEF OneAtATime, AtPrimary, PrimaryFirst
<1>5. CallsGoOn
  <2>1. ASSUME NEW v \in Executing PROVE write[v].todo = {}
    <3>1. v = w
      BY <1>1 DEF Executing, InFlight, WritesFit, OneAtATime
    <3> QED
      BY <1>1, <3>1
  <2> QED
    BY <1>3, <2>1 DEF CallsGoOn
<1> QED
  BY <1>1, <1>3, <1>4, <1>5 DEF WritesFit

(* The primary is called first, and only replicas that are to be called.   *)
LEMMA TargetIs ==
  ASSUME NEW w \in Writes, write[w] \in WriteType, write[w].todo # {}
  PROVE  /\ Target(w) \in write[w].todo /\ Target(w) \in Servers
         /\ write[w].at \in write[w].todo => Target(w) = write[w].at
<1> DEFINE T == write[w].todo
<1>1. T \subseteq Servers /\ T \subseteq Nat /\ T # {}
  BY DEF WriteType, Servers
<1> HIDE DEF T
<1>2. PICK m \in T : \A k \in T : <<k, m>> \notin OpToRel(<, Nat)
  BY <1>1, NatLessThanWellFounded, WFMin
<1>3. \A k \in T : m <= k
  <2>1. \A k \in T : ~ (k < m)
    BY <1>1, <1>2 DEF OpToRel
  <2>2. m \in Nat /\ \A k \in T : k \in Nat
    BY <1>1
  <2> QED
    BY <2>1, <2>2
<1>4. \E s \in T : \A t \in T : s <= t
  BY <1>3
<1>5. (CHOOSE s \in T : \A t \in T : s <= t) \in T
  BY <1>4
<1> QED
  BY <1>1, <1>5 DEF Target, T

(* What Execute does at the replica s that is called.                      *)
LEMMA ExecuteIs ==
  ASSUME RecoveryInv, FilesFit, NEW w \in Writes, Execute(w), NEW s, s = Target(w)
  PROVE  /\ s \in Servers /\ s \in write[w].todo /\ write[w].row \in Rows
         /\ w \in Numbered /\ write[w].stage = "forward" /\ boot[s] = "serving"
         /\ write[w].at \in write[w].todo => s = write[w].at
         /\ disk' = [disk EXCEPT ![s] = Logged(disk[s], write[w].row, w)]
         /\ mem'[s].tablet_log_size = disk'[s].length
         /\ \A t \in Servers : t # s => mem'[t] = mem[t]
         /\ write'[w].stage = "forward" /\ write'[w].todo = write[w].todo \ {s}
         /\ write'[w].at = write[w].at /\ write'[w].row = write[w].row
         /\ \A v \in Writes : v # w => write'[v] = write[v]
         /\ newest' = [newest EXCEPT ![write[w].row] = None]
         /\ UNCHANGED <<boot, asked, source, primary>>
<1>1. /\ write[w].stage = "forward" /\ write[w].todo # {} /\ boot[s] = "serving"
      /\ disk' = [disk EXCEPT ![s] = LoggedAt(s, w)]
      /\ mem' = [mem EXCEPT ![s] = ExecutedAt(s, w)]
      /\ write' = [write EXCEPT ![w] = [write[w] EXCEPT !.todo = write[w].todo \ {s}]]
      /\ newest' = [newest EXCEPT ![write[w].row] = None]
      /\ UNCHANGED <<boot, asked, source, primary>>
  BY DEF Execute, Accepts, masterVars, syncVars
<1>2. write[w] \in WriteType /\ write \in [Writes -> WriteType]
  BY DEF RecoveryInv, RecoveryTypes, TypeOK
<1>3. /\ s \in Servers /\ s \in write[w].todo
      /\ write[w].at \in write[w].todo => s = write[w].at
  BY <1>1, <1>2, TargetIs
<1>4. write[w].row \in Rows /\ w \in Numbered
  BY <1>1 DEF RecoveryInv, RecoveryTypes, WritesPlaced, Numbered
<1>5. /\ LoggedAt(s, w) = Logged(disk[s], write[w].row, w)
      /\ ExecutedAt(s, w).tablet_log_size = LoggedAt(s, w).length
  BY <1>1, <1>3, <1>4, LoggedAtIs DEF FilesFit, LogCounted, Loaded
<1>6. disk \in [Servers -> DiskType] /\ mem \in [Servers -> MemType]
  BY DEF RecoveryInv, RecoveryTypes, TypeOK
<1>7. /\ mem'[s] = ExecutedAt(s, w) /\ disk'[s] = LoggedAt(s, w)
      /\ \A t \in Servers : t # s => mem'[t] = mem[t]
  BY <1>1, <1>3, <1>6
<1>8. /\ write'[w].stage = "forward" /\ write'[w].todo = write[w].todo \ {s}
      /\ write'[w].at = write[w].at /\ write'[w].row = write[w].row
      /\ \A v \in Writes : v # w => write'[v] = write[v]
  BY <1>1, <1>2 DEF WriteType
<1> QED
  BY <1>1, <1>3, <1>4, <1>5, <1>7, <1>8

LEMMA ExecuteWritesFit ==
  ASSUME RecoveryInv, WritesFit, FilesFit, NEW w \in Writes, Execute(w)
  PROVE  /\ WritesFit' /\ Executing' = {w}
         /\ \A v \in Executing : v = w
<1>1. PICK s : s = Target(w)
  OBVIOUS
<1>2. /\ w \in InFlight /\ w \in Numbered
      /\ InFlight' = InFlight /\ Numbered' = Numbered
  BY <1>1, ExecuteIs DEF InFlight, Numbered
<1>3. \A v \in InFlight : v = w
  BY <1>2 DEF WritesFit, OneAtATime
<1>4. write'[w].at \notin write'[w].todo
  BY <1>1, ExecuteIs
<1>5. OneAtATime'
  BY <1>2 DEF WritesFit, OneAtATime
<1>6. AtPrimary'
  <2>1. \A v \in Numbered : write'[v].at = write[v].at
    BY <1>1, ExecuteIs DEF Numbered
  <2>2. boot' = boot /\ primary' = primary
    BY <1>1, ExecuteIs
  <2> QED
    BY <1>2, <2>1, <2>2 DEF WritesFit, AtPrimary
<1>7. PrimaryFirst'
  <2>1. \A v \in Numbered : v = w
    BY <1>3 DEF InFlight, Numbered
  <2> QED
    BY <1>2, <1>4, <2>1 DEF PrimaryFirst
<1>8. Executing' = {w}
  <2>1. w \in Executing'
    BY <1>1, <1>4, ExecuteIs DEF Executing
  <2>2. \A v \in Writes : v \in Executing' => v = w
    BY <1>2, <1>3 DEF Executing, InFlight
  <2> QED
    BY <2>1, <2>2 DEF Executing
<1>9. \A v \in Executing : v = w
  BY <1>3 DEF Executing, InFlight
<1> QED
  BY <1>5, <1>6, <1>7, <1>8, <1>9 DEF WritesFit

(* The primary executes: it alone leads, the other servers that serve are  *)
(* behind by this command, and none is joining.                            *)
LEMMA PrimaryExecutesFits ==
  ASSUME RecoveryInv, WritesFit, FilesFit, NewestFit, NEW w \in Writes, Execute(w),
         Undisturbed', write[w].at \in write[w].todo
  PROVE  FilesFit' /\ NewestFit'
<1> DEFINE s == Target(w)
           r == write[w].row
<1>1. /\ s \in Servers /\ r \in Rows /\ boot[s] = "serving" /\ s = write[w].at
      /\ disk' = [disk EXCEPT ![s] = Logged(disk[s], r, w)]
      /\ mem'[s].tablet_log_size = disk'[s].length
      /\ \A t \in Servers : t # s => mem'[t] = mem[t]
      /\ write'[w].todo = Servers \ {s} /\ write'[w].at = s /\ write'[w].row = r
      /\ newest' = [newest EXCEPT ![r] = None]
      /\ UNCHANGED <<boot, asked, source, primary>>
  BY ExecuteIs DEF WritesFit, PrimaryFirst
<1>2. Executing' = {w} /\ Executing = {}
  <2>1. w \notin Executing
    BY DEF Executing
  <2> QED
    BY <2>1, ExecuteWritesFit
<1>3. \A t \in Servers : boot[t] \notin Joining
  BY <1>1 DEF Execute, Undisturbed
<1> HIDE DEF s, r
<1>4. disk \in [Servers -> DiskType] /\ newest \in [Rows -> Writes \cup {None}]
  BY DEF RecoveryInv, RecoveryTypes, TypeOK
<1> DEFINE d == Logged(disk[s], r, w)
<1>5. /\ d \in DiskType /\ d.length > 0 /\ Replay(d) = [Replay(disk[s]) EXCEPT ![r] = w]
      /\ disk[s].version <= d.version
      /\ \A e \in DiskType : Before(e, disk[s]) => Before(e, d)
  BY <1>1, <1>4, LoggedLater
<1>6. disk'[s] = d /\ \A t \in Servers : t # s => disk'[t] = disk[t]
  BY <1>1, <1>4
<1> HIDE DEF d
<1>7. ASSUME NEW t \in Servers
      PROVE /\ boot[t] \in Opening => boot[t] = "serving" /\ Leads(t)
            /\ Leads(t)' <=> t = s
            /\ Torn(t)' <=> Torn(t)
  <2>1. boot[t] \in Opening => boot[t] = "serving"
    BY <1>3 DEF Joining, Opening, Loaded
  <2>2. boot[t] \in Opening => Leads(t)
    BY <1>2 DEF Leads, Behind
  <2>3. Behind(t)' <=> t # s /\ boot[t] = "serving"
    BY <1>1, <1>2 DEF Behind
  <2>4. Leads(t)' <=> t = s
    BY <1>1, <2>1, <2>3 DEF Leads, Opening, Loaded
  <2>5. Torn(t)' <=> Torn(t)
    BY <1>1, <1>6 DEF Torn
  <2> QED
    BY <2>1, <2>2, <2>4, <2>5
<1>8. Leads(s)
  BY <1>1, <1>7 DEF Opening, Loaded
<1>9. LogCounted'
  BY <1>1, <1>6 DEF FilesFit, LogCounted, Loaded
<1>10. LeadersAgree' /\ LeadersLogged'
  BY <1>5, <1>6, <1>7 DEF LeadersAgree, LeadersLogged
<1>11. BehindByOne'
  <2> SUFFICES ASSUME NEW t \in Servers, t # s, boot[t] = "serving"
               PROVE disk'[s] = Logged(disk'[t], r, w)
    BY <1>1, <1>2 DEF BehindByOne
  <2>1. disk[t] = disk[s]
    BY <1>1, <1>7, <1>8 DEF FilesFit, LeadersAgree, Opening, Loaded
  <2> QED
    BY <1>6, <2>1 DEF d
<1>12. OthersBefore'
  <2> SUFFICES ASSUME NEW t \in Servers, boot[t] \notin Opening, ~ Torn(t)
               PROVE Before(disk'[t], disk'[s])
    BY <1>1, <1>7 DEF OthersBefore, Opening, Loaded
  <2>1. Before(disk[t], disk[s])
    BY <1>1, <1>8 DEF FilesFit, OthersBefore
  <2>2. t # s
    BY <1>1 DEF Opening, Loaded
  <2> QED
    BY <1>4, <1>5, <1>6, <2>1, <2>2
<1>13. AskedUntorn'
  <2>1. \A t \in Servers : boot[t] \in Synchronising => disk'[t] = disk[t]
    BY <1>1, <1>6 DEF Synchronising
  <2> QED
    BY <1>1, <1>7, <2>1 DEF FilesFit, AskedUntorn, Synchronising
<1>14. AskedTorn'
  <2> SUFFICES ASSUME NEW t \in Servers, Torn(t)
               PROVE asked[t].version < disk'[t].version /\ disk'[t].version <= disk'[s].version
    BY <1>1, <1>7 DEF AskedTorn
  <2>1. asked[t].version < disk[t].version /\ disk[t].version <= disk[s].version
    BY <1>1, <1>8 DEF FilesFit, AskedTorn
  <2>2. t # s
    BY <1>1 DEF Torn
  <2>3. disk[t].version \in Nat /\ disk[s].version \in Nat /\ d.version \in Nat
    BY <1>1, <1>4, <1>5 DEF DiskType
  <2> QED
    BY <1>5, <1>6, <2>1, <2>2, <2>3
<1>15. SourcesLead' /\ EmptyLogAsked'
  <2>1. \A t \in Servers : boot'[t] \notin {"checkpoint", "log", "load"}
    BY <1>1, <1>3 DEF Joining
  <2> QED
    BY <2>1 DEF SourcesLead, EmptyLogAsked
<1>16. ExecutingHeld'
  <2>1. newest'[r] = None
    BY <1>1, <1>4
  <2>2. Replay(d)[r] = w
    BY <1>1, <1>4, <1>5 DEF Replay
  <2> QED
    BY <1>1, <1>2, <1>6, <2>1, <2>2 DEF ExecutingHeld
<1>17. NewestHeld'
  <2> SUFFICES ASSUME NEW q \in Rows, newest'[q] # None
               PROVE Replay(disk'[s])[q] = newest'[q]
    BY <1>7 DEF NewestHeld
  <2>1. q # r /\ newest'[q] = newest[q]
    BY <1>1, <1>4
  <2>2. Replay(disk[s])[q] = newest[q]
    BY <1>1, <1>8, <2>1 DEF NewestFit, NewestHeld
  <2>3. Replay(d)[q] = Replay(disk[s])[q]
    BY <1>5, <2>1 DEF Replay
  <2> QED
    BY <1>6, <2>1, <2>2, <2>3
<1> QED
  BY <1>9, <1>10, <1>11, <1>12, <1>13, <1>14, <1>15, <1>16, <1>17 DEF FilesFit, NewestFit

(* A replica executes: it leads again, with the files of the primary.      *)
LEMMA ReplicaExecutesFits ==
  ASSUME RecoveryInv, WritesFit, FilesFit, NewestFit, NEW w \in Writes, Execute(w),
         write[w].at \notin write[w].todo
  PROVE  FilesFit' /\ NewestFit'
<1> DEFINE s == Target(w)
           r == write[w].row
           p == write[w].at
<1>1. /\ s \in Servers /\ r \in Rows /\ boot[s] = "serving" /\ s \in write[w].todo
      /\ disk' = [disk EXCEPT ![s] = Logged(disk[s], r, w)]
      /\ mem'[s].tablet_log_size = disk'[s].length
      /\ \A t \in Servers : t # s => mem'[t] = mem[t]
      /\ write'[w].todo = write[w].todo \ {s} /\ write'[w].at = p /\ write'[w].row = r
      /\ newest' = [newest EXCEPT ![r] = None]
      /\ UNCHANGED <<boot, asked, source, primary>>
  BY ExecuteIs
<1>2. w \in Executing
  BY ExecuteIs DEF Executing
<1>3. Executing' = {w} /\ \A v \in Executing : v = w
  BY ExecuteWritesFit
<1>4. p \in Servers /\ Leads(p) /\ p # s
  BY <1>1, <1>2, CallerLeads
<1>5. disk[p] = Logged(disk[s], r, w)
  BY <1>1, <1>2, <1>4 DEF FilesFit, BehindByOne
<1>6. newest[r] = None
  BY <1>1, <1>2, <1>4 DEF NewestFit, ExecutingHeld
<1> HIDE DEF s, r, p
<1>7. newest' = newest
  BY <1>1, <1>6 DEF RecoveryInv, RecoveryTypes, TypeOK
<1>8. disk'[s] = disk[p] /\ \A t \in Servers : t # s => disk'[t] = disk[t]
  BY <1>1, <1>5 DEF RecoveryInv, RecoveryTypes, TypeOK
<1>9. ASSUME NEW t \in Servers
      PROVE /\ Leads(t)' <=> Leads(t) \/ t = s
            /\ Torn(t)' <=> Torn(t)
            /\ boot[t] # "serving" => disk'[t] = disk[t]
            /\ Leads(t)' => disk'[t] = disk[p]
  <2>1. Behind(t) <=> t \in write[w].todo /\ boot[t] = "serving"
    BY <1>2, <1>3 DEF Behind
  <2>2. Behind(t)' <=> t \in write[w].todo \ {s} /\ boot[t] = "serving"
    BY <1>1, <1>3 DEF Behind
  <2>3. Leads(t)' <=> Leads(t) \/ t = s
    BY <1>1, <2>1, <2>2 DEF Leads, Opening, Loaded
  <2>4. boot[t] # "serving" => disk'[t] = disk[t]
    BY <1>1, <1>8
  <2>5. Torn(t)' <=> Torn(t)
    BY <1>1, <2>4 DEF Torn
  <2>6. Leads(t)' => disk'[t] = disk[p]
    BY <1>4, <1>8, <2>3 DEF FilesFit, LeadersAgree
  <2> QED
    BY <2>3, <2>4, <2>5, <2>6
<1>10. LogCounted'
  BY <1>1, <1>8 DEF FilesFit, LogCounted, Loaded
<1>11. LeadersAgree'
  BY <1>9 DEF LeadersAgree
<1>12. LeadersLogged'
  <2>1. disk[p].version > 0 => disk[p].length > 0
    BY <1>4 DEF FilesFit, LeadersLogged
  <2> QED
    BY <1>9, <2>1 DEF LeadersLogged
<1>13. BehindByOne'
  <2> SUFFICES ASSUME NEW t \in Servers, t \in write[w].todo, t # s, boot[t] = "serving"
               PROVE disk'[p] = Logged(disk'[t], r, w)
    BY <1>1, <1>3 DEF BehindByOne
  <2>1. disk[p] = Logged(disk[t], r, w)
    BY <1>2, <1>4 DEF FilesFit, BehindByOne, p, r
  <2> QED
    BY <1>4, <1>8, <2>1
<1>14. OthersBefore'
  <2> SUFFICES ASSUME NEW t \in Servers, NEW c \in Servers, Leads(c)',
                      boot[t] \notin Opening, ~ Torn(t)
               PROVE Before(disk'[t], disk'[c])
    BY <1>1, <1>9 DEF OthersBefore, Opening, Loaded
  <2>1. Before(disk[t], disk[p])
    BY <1>4 DEF FilesFit, OthersBefore
  <2>2. boot[t] # "serving"
    BY DEF Opening, Loaded
  <2> QED
    BY <1>9, <2>1, <2>2
<1>15. AskedUntorn'
  <2>1. \A t \in Servers : boot[t] \in Synchronising => disk'[t] = disk[t]
    BY <1>9 DEF Synchronising
  <2> QED
    BY <1>1, <1>9, <2>1 DEF FilesFit, AskedUntorn, Synchronising
<1>16. AskedTorn'
  <2> SUFFICES ASSUME NEW t \in Servers, NEW c \in Servers, Torn(t)
               PROVE /\ asked[t].version < disk'[t].version
                     /\ Leads(c)' => disk'[t].version <= disk'[c].version
    BY <1>1, <1>9 DEF AskedTorn
  <2>1. disk'[t] = disk[t]
    BY <1>9 DEF Torn
  <2>2. asked[t].version < disk[t].version /\ disk[t].version <= disk[p].version
    BY <1>4 DEF FilesFit, AskedTorn
  <2> QED
    BY <1>9, <2>1, <2>2
<1>17. SourcesLead'
  <2> SUFFICES ASSUME NEW t \in Servers, NEW c \in Servers,
                      boot[t] \in {"checkpoint", "log"}, c = source[t]
               PROVE /\ Leads(c)' /\ boot[c] \in Loaded
                     /\ boot[t] = "checkpoint" => asked[t].version < disk'[c].version
                     /\ boot[t] = "log" => /\ disk'[t].version = disk'[c].version
                                           /\ disk'[t].kv = disk'[c].kv
    BY <1>1 DEF SourcesLead, Loaded
  <2>1. Leads(c) /\ Leads(c)'
    BY <1>9 DEF FilesFit, SourcesLead
  <2>2. disk'[t] = disk[t] /\ disk'[c] = disk[p] /\ disk[c] = disk[p]
    BY <1>4, <1>9, <2>1 DEF FilesFit, LeadersAgree
  <2> QED
    BY <2>1, <2>2 DEF FilesFit, SourcesLead
<1>18. EmptyLogAsked'
  BY <1>1, <1>9 DEF FilesFit, EmptyLogAsked
<1>19. ExecutingHeld'
  <2>1. Replay(disk[p])[r] = w
    BY <1>1, <1>2, <1>4 DEF NewestFit, ExecutingHeld, p, r
  <2> QED
    BY <1>1, <1>3, <1>4, <1>6, <1>7, <1>8, <2>1 DEF ExecutingHeld
<1>20. NewestHeld'
  <2>1. \A q \in Rows : newest[q] # None => Replay(disk[p])[q] = newest[q]
    BY <1>4 DEF NewestFit, NewestHeld
  <2> QED
    BY <1>7, <1>9, <2>1 DEF NewestHeld
<1> QED
  BY <1>10, <1>11, <1>12, <1>13, <1>14, <1>15, <1>16, <1>17, <1>18, <1>19, <1>20
     DEF FilesFit, NewestFit

LEMMA ExecuteFits ==
  ASSUME RecoveryInv, Agreement, NEW w \in Writes, Execute(w), Undisturbed'
  PROVE  Agreement'
BY ExecuteWritesFit, PrimaryExecutesFits, ReplicaExecutesFits DEF Agreement

(* The steps of writes that leave the files alone.                         *)
LEMMA SameServersStay ==
  ASSUME disk' = disk, CallsGoOn, UNCHANGED <<boot, asked, source>>, RecoveryInv, FilesFit,
         \A t \in Servers : mem'[t].tablet_log_size = mem[t].tablet_log_size
  PROVE  FilesStay
<1>1. SourcesStay
  BY DEF SourcesStay, FilesFit, SourcesLead, Loaded
<1> QED
  BY <1>1 DEF FilesStay, Turn

LEMMA WriteStepFits ==
  ASSUME RecoveryInv, OneWriteAtATime, Agreement, Undisturbed',
         NEW w \in Writes, NEW r \in Rows, NEW s \in Servers,
         Send(w, r, s) \/ Relay(w) \/ Report(w) \/ AssignNumber(w) \/ ForwardFails(w)
  PROVE  Agreement'
<1>1. WritesFit' /\ CallsGoOn
  BY SendFits, RelayFits, ReportFits, AssignNumberFits, ForwardFailsFits DEF Agreement
<1>2. UNCHANGED <<boot, asked, source, disk, newest>>
  BY DEF Send, Relay, Report, AssignNumber, ForwardFails, syncVars, historyVars
<1>3. \A t \in Servers : mem'[t].tablet_log_size = mem[t].tablet_log_size
  <2>1. CASE Send(w, r, s) \/ Relay(w) \/ ForwardFails(w)
    BY <2>1 DEF Send, Relay, ForwardFails
  <2>2. CASE Report(w)
    BY <2>2, ReportSettles DEF Report
  <2>3. CASE AssignNumber(w)
    BY <2>3, AssignNumberFits DEF Agreement
  <2> QED
    BY <2>1, <2>2, <2>3
<1>4. FilesStay
  BY <1>1, <1>2, <1>3, SameServersStay DEF Agreement
<1> QED
  BY <1>1, <1>2, <1>4, StayFits, StayHeld DEF Agreement

(* A write that is answered is held by all that lead.                      *)
LEMMA AnswerAgrees ==
  ASSUME RecoveryInv, Agreement, NEW w \in Writes, Answer(w)
  PROVE  Agreement'
<1> DEFINE r == write[w].row
           p == write[w].at
<1>1. WritesFit' /\ CallsGoOn /\ Executing' = {} /\ w \in Executing
  BY AnswerFits DEF Agreement
<1>2. UNCHANGED <<boot, asked, source, disk, mem>>
  BY DEF Answer, syncVars
<1>3. FilesStay
  BY <1>1, <1>2, SameServersStay DEF Agreement
<1>4. p \in Servers /\ r \in Rows /\ Leads(p)
  BY <1>1, CallerLeads DEF Agreement
<1>5. newest[r] = None /\ Replay(disk[p])[r] = w
  BY <1>1, <1>4 DEF Agreement, NewestFit, ExecutingHeld
<1>6. /\ \A q \in Rows : q # r => newest'[q] = newest[q]
      /\ newest'[r] # None => newest'[r] = w
  BY <1>4, <1>5 DEF Answer, RecoveryInv, RecoveryTypes, TypeOK
<1> HIDE DEF r, p
<1>7. ExecutingHeld'
  BY <1>1 DEF ExecutingHeld
<1>8. NewestHeld'
  <2> SUFFICES ASSUME NEW c \in Servers, NEW q \in Rows, Leads(c)', newest'[q] # None
               PROVE Replay(disk'[c])[q] = newest'[q]
    BY DEF NewestHeld
  <2>1. Leads(c)
    BY <1>3, StayLeads
  <2>2. CASE q = r
    BY <1>2, <1>4, <1>5, <1>6, <2>1, <2>2 DEF Agreement, FilesFit, LeadersAgree
  <2>3. CASE q # r
    BY <1>2, <1>6, <2>1, <2>3 DEF Agreement, NewestFit, NewestHeld
  <2> QED
    BY <2>2, <2>3
<1> QED
  BY <1>1, <1>3, <1>7, <1>8, StayFits DEF Agreement, NewestFit

(* What the end of s leaves of a write.                                    *)
LEMMA AfterEndIs ==
  ASSUME RecoveryInv, NEW w \in Writes, NEW s \in Servers, End(s)
  PROVE  /\ w \in InFlight' => w \in InFlight
         /\ w \in Numbered' => w \in Numbered /\ write[w].at # s
         /\ w \in Numbered /\ write[w].at # s =>
              /\ w \in Numbered'
              /\ write'[w].stage = write[w].stage
              /\ write'[w].at = write[w].at /\ write'[w].row = write[w].row
              /\ write'[w].todo = IF write[w].todo # {} /\ Target(w) = s THEN write[w].todo \ {s}
                                  ELSE write[w].todo
<1> DEFINE x == write[w]
<1>1. write'[w] = AfterEnd(w, s)
  BY DEF End
<1>2. x \in WriteType
  BY DEF RecoveryInv, RecoveryTypes, TypeOK
<1>3. Finished("failed").stage = "failed"
  BY DEF Finished, IdleWrite
<1>4. CASE w \in Numbered /\ x.at = s
  <2>1. AfterEnd(w, s) = Finished("failed")
        \/ AfterEnd(w, s) = [x EXCEPT !.stage = "report", !.num = 0, !.todo = {}]
    BY <1>4 DEF AfterEnd
  <2>2. write'[w].stage \in {"failed", "report"} /\ w \in InFlight
    BY <1>1, <1>2, <1>3, <1>4, <2>1 DEF WriteType, Numbered, InFlight
  <2> QED
    BY <1>4, <2>2 DEF Numbered
<1>5. CASE w \in Numbered /\ x.at # s
  <2>1. AfterEnd(w, s) =
          [x EXCEPT !.via  = IF x.via = s THEN None ELSE x.via,
                    !.todo = IF x.todo # {} /\ Target(w) = s THEN x.todo \ {s} ELSE x.todo]
    BY <1>5 DEF AfterEnd
  <2>2. /\ write'[w].stage = x.stage /\ write'[w].at = x.at /\ write'[w].row = x.row
        /\ write'[w].todo = IF x.todo # {} /\ Target(w) = s THEN x.todo \ {s} ELSE x.todo
    BY <1>1, <1>2, <2>1 DEF WriteType
  <2> QED
    BY <1>5, <2>2 DEF Numbered, InFlight
<1>6. CASE w \notin Numbered
  <2>1. AfterEnd(w, s) = x \/ AfterEnd(w, s) = Finished("failed")
    BY <1>6 DEF AfterEnd
  <2> QED
    BY <1>1, <1>3, <1>6, <2>1 DEF Numbered, InFlight
<1> QED
  BY <1>4, <1>5, <1>6

(* The end of a server that cuts no write short and tears no files.        *)
LEMMA EndFits ==
  ASSUME RecoveryInv, Agreement, NEW s \in Servers, End(s), UNCHANGED disk, Undisturbed'
  PROVE  Agreement'
<1>1. ~ CutBy(s) /\ ~ Torn(s)
  BY DEF End, Undisturbed
<1>2. UNCHANGED <<primary, newest>>
  BY DEF End, masterVars
<1>3. /\ boot'[s] = "off"
      /\ \A t \in Servers : t # s =>
           /\ boot'[t] = IF boot[t] \in {"checkpoint", "log"} /\ source[t] = s THEN "broken"
                         ELSE boot[t]
           /\ asked'[t] = asked[t] /\ source'[t] = source[t] /\ mem'[t] = mem[t]
  BY DEF End, RecoveryInv, RecoveryTypes, TypeOK
<1>4. \A w \in Writes : w \in InFlight' => w \in InFlight
  BY AfterEndIs
<1>5. ASSUME NEW w \in Numbered'
      PROVE /\ w \in Writes /\ w \in Numbered /\ write[w].at # s
            /\ write'[w].stage = write[w].stage
            /\ write'[w].at = write[w].at /\ write'[w].row = write[w].row
            /\ write'[w].todo \subseteq write[w].todo
            /\ write[w].stage = "forward" /\ write[w].at \in write[w].todo =>
                 write'[w].todo = Servers
  <2>1. w \in Writes
    BY DEF Numbered
  <2>2. /\ w \in Numbered /\ write[w].at # s
        /\ write'[w].stage = write[w].stage
        /\ write'[w].at = write[w].at /\ write'[w].row = write[w].row
        /\ write'[w].todo = IF write[w].todo # {} /\ Target(w) = s THEN write[w].todo \ {s}
                            ELSE write[w].todo
    BY <2>1, AfterEndIs
  <2>3. ASSUME write[w].stage = "forward", write[w].at \in write[w].todo
        PROVE write'[w].todo = Servers
    <3>1. write[w].todo = Servers
      BY <2>2, <2>3 DEF Agreement, WritesFit, PrimaryFirst
    <3>2. Target(w) = write[w].at
      BY <2>3 DEF Target
    <3> QED
      BY <2>2, <3>1, <3>2
  <2> QED
    BY <2>1, <2>2, <2>3
<1>6. OneAtATime'
  BY <1>4 DEF OneAtATime, InFlight, Agreement, WritesFit
<1>7. AtPrimary'
  <2> SUFFICES ASSUME NEW w \in Numbered'
               PROVE write'[w].at = primary' /\ boot'[primary'] = "serving"
    BY DEF AtPrimary
  <2>1. /\ write'[w].at = write[w].at /\ write[w].at # s /\ write[w].at = primary
        /\ boot[primary] = "serving"
    BY <1>5 DEF Agreement, WritesFit, AtPrimary
  <2>2. primary \in Servers
    BY DEF RecoveryInv, RecoveryTypes, TypeOK
  <2> QED
    BY <1>2, <1>3, <2>1, <2>2
<1>8. PrimaryFirst'
  BY <1>5 DEF PrimaryFirst
<1>9. CallsGoOn
  <2>1. ASSUME NEW w \in Writes, w \in Executing'
        PROVE /\ w \in Executing
              /\ write'[w].at = write[w].at /\ write'[w].row = write[w].row
              /\ write'[w].todo \subseteq write[w].todo
    <3>1. w \in Numbered' /\ write'[w].stage = "forward" /\ write'[w].at \notin write'[w].todo
      BY <2>1 DEF Executing, Numbered
    <3>2. write[w].stage = "forward" /\ write'[w].at \in Servers
      BY <1>5, <3>1 DEF RecoveryInv, RecoveryTypes, WritesPlaced
    <3>3. write[w].at \notin write[w].todo
      BY <1>5, <3>1, <3>2
    <3> QED
      BY <1>5, <3>1, <3>2, <3>3 DEF Executing
  <2>2. ASSUME NEW w \in Executing, NEW t \in Servers,
               boot[t] = "serving", boot'[t] = "serving", t \in write[w].todo
        PROVE w \in Executing' /\ t \in write'[w].todo
    <3>1. /\ w \in Writes /\ w \in Numbered /\ write[w].stage = "forward"
          /\ write[w].at \notin write[w].todo /\ write[w].at \in Servers
      BY CallerLeads DEF Executing, Agreement
    <3>2. write[w].at # s
      BY <1>1, <2>2, <3>1 DEF CutBy
    <3>3. /\ w \in Numbered' /\ write'[w].stage = "forward" /\ write'[w].at = write[w].at
          /\ write'[w].todo = IF write[w].todo # {} /\ Target(w) = s THEN write[w].todo \ {s}
                              ELSE write[w].todo
      BY <3>1, <3>2, AfterEndIs
    <3>4. t # s
      BY <1>3, <2>2
    <3> QED
      BY <2>2, <3>1, <3>3, <3>4 DEF Executing
  <2> QED
    BY <2>1, <2>2 DEF CallsGoOn
<1>10. SourcesStay
  <2> SUFFICES ASSUME NEW t \in Servers, NEW c \in Servers,
                      boot'[t] \in {"checkpoint", "log"}, c = source[t]
               PROVE boot'[c] # "off"
    BY DEF SourcesStay
  <2>1. t # s /\ boot[t] \in {"checkpoint", "log"} /\ c # s
    BY <1>3
  <2>2. boot[c] \in Loaded
    BY <2>1 DEF Agreement, FilesFit, SourcesLead
  <2> QED
    BY <1>3, <2>1, <2>2 DEF Loaded
<1>11. \A t \in Servers : Turn(t)
  BY <1>1, <1>3 DEF Turn
<1>12. FilesStay
  BY <1>9, <1>10, <1>11 DEF FilesStay
<1>13. WritesFit'
  BY <1>6, <1>7, <1>8 DEF WritesFit
<1> QED
  BY <1>2, <1>12, <1>13, StayFits, StayHeld DEF Agreement

(* The steps of a start that leave the files alone.                        *)
LEMMA BootStepFits ==
  ASSUME RecoveryInv, Agreement, Undisturbed', NEW s \in Servers,
         \/ Start(s) \/ AnnounceDown(s) \/ PrimaryUnreachable(s) \/ SourceLost(s)
         \/ Load(s) \/ AnnounceUp(s) \/ Open(s)
  PROVE  Agreement'
<1>1. UNCHANGED <<disk, write, newest>>
  BY DEF Start, AnnounceDown, PrimaryUnreachable, SourceLost, Load, AnnounceUp, Open, historyVars
<1>2. Numbered = {} \/ primary' = primary
  BY ReportSettles DEF Start, AnnounceDown, PrimaryUnreachable, SourceLost, Load, AnnounceUp,
                       Open, masterVars
<1>3. \A t \in Servers : t # s =>
        /\ boot'[t] = boot[t] /\ asked'[t] = asked[t] /\ source'[t] = source[t]
        /\ mem'[t].tablet_log_size = mem[t].tablet_log_size
  <2>1. CASE Start(s) \/ Load(s) \/ Open(s)
    BY <2>1 DEF Start, Load, Open, syncVars, RecoveryInv, RecoveryTypes, TypeOK
  <2>2. CASE AnnounceDown(s) \/ PrimaryUnreachable(s) \/ SourceLost(s) \/ AnnounceUp(s)
    <3>1. \A t \in Servers : mem'[t].tablet_log_size = mem[t].tablet_log_size
      BY <2>2, ReportSettles DEF AnnounceDown, PrimaryUnreachable, SourceLost, AnnounceUp
    <3> QED
      BY <2>2, <3>1 DEF AnnounceDown, PrimaryUnreachable, SourceLost, AnnounceUp, syncVars,
                        RecoveryInv, RecoveryTypes, TypeOK
  <2> QED
    BY <2>1, <2>2
<1>4. Turn(s)
  <2>1. CASE Start(s)
    BY <2>1 DEF Start, Turn, syncVars, RecoveryInv, RecoveryTypes, TypeOK, Loaded
  <2>2. CASE AnnounceDown(s)
    <3>1. CASE halted'
      <4>1. ReportDown(s, s) /\ boot[s] = "started" /\ boot'[s] = "started"
        BY <2>2, <3>1 DEF AnnounceDown, RecoveryInv, RecoveryTypes, TypeOK
      <4>2. asked'[s] = [version |-> disk[s].version, length |-> disk[s].length]
            /\ source'[s] = source[s]
        BY <2>2 DEF AnnounceDown, RecoveryInv, RecoveryTypes, TypeOK
      <4> QED
        BY <4>1, <4>2 DEF Turn
    <3>2. CASE ~ halted'
      BY <2>2, <3>2 DEF AnnounceDown, Turn, RecoveryInv, RecoveryTypes, TypeOK
    <3> QED
      BY <3>1, <3>2
  <2>3. CASE PrimaryUnreachable(s)
    BY <2>3, ReportSettles DEF PrimaryUnreachable, Turn, syncVars
  <2>4. CASE SourceLost(s)
    BY <2>4, ReportSettles DEF SourceLost, Turn, syncVars, RecoveryInv, RecoveryTypes, TypeOK
  <2>5. CASE Load(s)
    <3>1. boot[s] = "load" /\ boot'[s] = "up"
      BY <2>5 DEF Load, RecoveryInv, RecoveryTypes, TypeOK
    <3>2. mem'[s].tablet_log_size = disk[s].length
      <4>1. mem'[s].tablet_log_size = IF disk[s].length = 0 THEN asked[s].length
                                      ELSE disk[s].length
        BY <2>5 DEF Load, RecoveryInv, RecoveryTypes, TypeOK, MemType
      <4> QED
        BY <3>1, <4>1 DEF Agreement, FilesFit, EmptyLogAsked
    <3> QED
      BY <3>1, <3>2 DEF Turn
  <2>6. CASE AnnounceUp(s)
    BY <2>6, ReportSettles DEF AnnounceUp, Turn, syncVars, RecoveryInv, RecoveryTypes, TypeOK
  <2>7. CASE Open(s)
    BY <2>7 DEF Open, Turn, Undisturbed, syncVars, RecoveryInv, RecoveryTypes, TypeOK
  <2> QED
    BY <2>1, <2>2, <2>3, <2>4, <2>5, <2>6, <2>7
<1>5. \A t \in Servers : Turn(t)
  BY <1>3, <1>4 DEF Turn
<1>6. WritesFit' /\ CallsGoOn
  <2>1. \A t \in Servers : boot[t] = "serving" => boot'[t] = "serving"
    BY <1>3 DEF Start, AnnounceDown, PrimaryUnreachable, SourceLost, Load, AnnounceUp, Open
  <2>2. primary \in Servers
    BY DEF RecoveryInv, RecoveryTypes, TypeOK
  <2> QED
    BY <1>1, <1>2, <2>1, <2>2, WritesStay DEF Agreement
<1>7. SourcesStay
  <2> SUFFICES ASSUME NEW t \in Servers, NEW c \in Servers,
                      boot'[t] \in {"checkpoint", "log"}, c = source[t]
               PROVE boot'[c] # "off"
    BY DEF SourcesStay
  <2>1. boot[t] \in {"checkpoint", "log"}
    BY <1>5 DEF Turn
  <2>2. boot[c] \in Loaded
    BY <2>1 DEF Agreement, FilesFit, SourcesLead
  <2>3. boot'[c] = boot[c] \/ c = s
    BY <1>3
  <2> QED
    BY <2>2, <2>3 DEF Start, AnnounceDown, PrimaryUnreachable, SourceLost, Load, AnnounceUp,
                      Open, Loaded, RecoveryInv, RecoveryTypes, TypeOK
<1>8. FilesStay
  BY <1>1, <1>5, <1>6, <1>7 DEF FilesStay
<1> QED
  BY <1>1, <1>6, <1>8, StayFits, StayHeld DEF Agreement

(* One step of a synchronisation of s with p: s is found to need files, or *)
(* is pushed them, or has them.                                            *)
Joins(s, p) ==
  /\ boot[s] \in Synchronising /\ boot'[s] \in {"checkpoint", "log", "load"}
  /\ Leads(p) /\ boot[p] \in Loaded /\ source'[s] = p
  /\ UNCHANGED <<asked, mem, write, newest, primary>>
  /\ \A t \in Servers : t # s =>
       boot'[t] = boot[t] /\ source'[t] = source[t] /\ disk'[t] = disk[t]
  /\ boot'[s] = "checkpoint" => disk'[s] = disk[s] /\ asked[s].version < disk[p].version
  /\ boot'[s] = "log" =>
       /\ disk'[s].version = disk[p].version /\ disk'[s].kv = disk[p].kv
       /\ disk'[s] = disk[s] \/ asked[s].version < disk[p].version
  /\ boot'[s] = "load" =>
       disk'[s] = disk[p] /\ (disk[p].length = 0 => asked[s].length = 0)

LEMMA JoinsFits ==
  ASSUME RecoveryInv, Agreement, NEW s \in Servers, NEW p \in Servers, Joins(s, p)
  PROVE  Agreement'
<1> USE DEF Joins
<1>1. s # p /\ disk'[p] = disk[p] /\ boot'[p] = boot[p]
  BY DEF Synchronising, Loaded
<1>2. Executing' = Executing /\ WritesFit'
  <2>1. \A t \in Servers : boot[t] = "serving" => boot'[t] = "serving"
    BY DEF Synchronising
  <2>2. primary \in Servers
    BY DEF RecoveryInv, RecoveryTypes, TypeOK
  <2>3. WritesFit'
    BY <2>1, <2>2, WritesStay DEF Agreement
  <2> QED
    BY <2>3 DEF Executing
<1>3. ASSUME NEW t \in Servers
      PROVE /\ Leads(t)' <=> Leads(t) \/ (t = s /\ boot'[s] = "load")
            /\ Leads(t)' => disk'[t] = disk[p]
            /\ t # s => (Torn(t)' <=> Torn(t))
  <2>1. Behind(t)' <=> Behind(t)
    BY <1>2 DEF Behind, Synchronising
  <2>2. CASE t = s
    <3>1. ~ Leads(s)
      BY DEF Leads, Synchronising, Opening, Loaded
    <3>2. ~ Behind(s)
      BY DEF Behind, Synchronising
    <3> QED
      BY <2>1, <2>2, <3>1, <3>2 DEF Leads, Opening, Loaded
  <2>3. CASE t # s
    <3>1. Leads(t)' <=> Leads(t)
      BY <2>1, <2>3 DEF Leads, Opening, Loaded
    <3>2. Leads(t) => disk[t] = disk[p]
      BY DEF Agreement, FilesFit, LeadersAgree
    <3> QED
      BY <2>3, <3>1, <3>2 DEF Torn
  <2> QED
    BY <2>2, <2>3
<1>4. LogCounted'
  BY DEF Agreement, FilesFit, LogCounted, Loaded
<1>5. LeadersAgree'
  BY <1>3 DEF LeadersAgree
<1>6. LeadersLogged'
  <2>1. disk[p].version > 0 => disk[p].length > 0
    BY DEF Agreement, FilesFit, LeadersLogged
  <2> QED
    BY <1>3, <2>1 DEF LeadersLogged
<1>7. BehindByOne'
  <2> SUFFICES ASSUME NEW w \in Writes, NEW t \in Servers, NEW q \in Servers,
                      w \in Executing, q = write[w].at, t \in write[w].todo,
                      boot'[t] = "serving"
               PROVE disk'[q] = Logged(disk'[t], write[w].row, w)
    BY <1>2 DEF BehindByOne
  <2>1. t # s /\ boot[t] = "serving"
    OBVIOUS
  <2>2. boot[q] = "serving"
    BY CallerLeads DEF Agreement
  <2>3. q # s
    BY <2>2 DEF Synchronising
  <2>4. disk[q] = Logged(disk[t], write[w].row, w)
    BY <2>1 DEF Agreement, FilesFit, BehindByOne
  <2> QED
    BY <2>1, <2>3, <2>4
<1>8. OthersBefore'
  <2> SUFFICES ASSUME NEW t \in Servers, NEW c \in Servers, Leads(c)',
                      boot'[t] \notin Opening, ~ Torn(t)'
               PROVE Before(disk'[t], disk'[c])
    BY DEF OthersBefore, Opening, Loaded
  <2>1. disk'[c] = disk[p]
    BY <1>3
  <2>2. CASE t # s
    <3>1. Before(disk[t], disk[p])
      BY <1>3, <2>2 DEF Agreement, FilesFit, OthersBefore
    <3> QED
      BY <2>1, <2>2, <3>1
  <2>3. CASE t = s
    <3>1. boot'[s] \in {"checkpoint", "log"} /\ disk'[s].version = asked[s].version
      BY <2>3 DEF Torn, Opening
    <3>2. disk'[s] = disk[s]
      <4>1. disk[p].version \in Nat
        BY DEF RecoveryInv, RecoveryTypes, TypeOK, DiskType
      <4> QED
        BY <3>1, <4>1
    <3>3. ~ Torn(s)
      BY <3>1, <3>2 DEF Torn
    <3>4. boot[s] \notin Opening
      BY DEF Synchronising, Opening, Loaded
    <3>5. Before(disk[s], disk[p])
      BY <3>3, <3>4 DEF Agreement, FilesFit, OthersBefore
    <3> QED
      BY <2>1, <2>3, <3>2, <3>5
  <2> QED
    BY <2>2, <2>3
<1>9. AskedUntorn'
  <2> SUFFICES ASSUME NEW t \in Servers, boot'[t] \in Synchronising, ~ Torn(t)'
               PROVE asked[t].version = disk'[t].version /\ asked[t].length = disk'[t].length
    BY DEF AskedUntorn, Synchronising
  <2>1. CASE t # s
    BY <1>3, <2>1 DEF Agreement, FilesFit, AskedUntorn
  <2>2. CASE t = s
    <3>1. boot'[s] \in {"checkpoint", "log"} /\ disk'[s].version = asked[s].version
      BY <2>2 DEF Torn, Synchronising
    <3>2. disk'[s] = disk[s]
      <4>1. disk[p].version \in Nat
        BY DEF RecoveryInv, RecoveryTypes, TypeOK, DiskType
      <4> QED
        BY <3>1, <4>1
    <3>3. ~ Torn(s)
      BY <3>1, <3>2 DEF Torn
    <3> QED
      BY <2>2, <3>2, <3>3 DEF Agreement, FilesFit, AskedUntorn
  <2> QED
    BY <2>1, <2>2
<1>10. AskedTorn'
  <2> SUFFICES ASSUME NEW t \in Servers, NEW c \in Servers, Torn(t)'
               PROVE /\ asked[t].version < disk'[t].version
                     /\ Leads(c)' => disk'[t].version <= disk'[c].version
    BY DEF AskedTorn
  <2>1. Leads(c)' => disk'[c] = disk[p]
    BY <1>3
  <2>2. CASE t # s
    <3>1. asked[t].version < disk[t].version /\ disk[t].version <= disk[p].version
      BY <1>3, <2>2 DEF Agreement, FilesFit, AskedTorn
    <3> QED
      BY <2>1, <2>2, <3>1
  <2>3. CASE t = s
    <3>1. boot'[s] \in {"checkpoint", "log"} /\ disk'[s].version # asked[s].version
      BY <2>3 DEF Torn
    <3>2. CASE disk'[s] = disk[s]
      <4>1. Torn(s)
        BY <3>1, <3>2 DEF Torn, Synchronising
      <4>2. asked[s].version < disk[s].version /\ disk[s].version <= disk[p].version
        BY <4>1 DEF Agreement, FilesFit, AskedTorn
      <4> QED
        BY <2>1, <2>3, <3>2, <4>2
    <3>3. CASE disk'[s] # disk[s]
      <4>1. disk[p].version \in Nat
        BY DEF RecoveryInv, RecoveryTypes, TypeOK, DiskType
      <4> QED
        BY <2>1, <2>3, <3>1, <3>3, <4>1
    <3> QED
      BY <3>2, <3>3
  <2> QED
    BY <2>2, <2>3
<1>11. SourcesLead'
  <2> SUFFICES ASSUME NEW t \in Servers, NEW c \in Servers,
                      boot'[t] \in {"checkpoint", "log"}, c = source'[t]
               PROVE /\ Leads(c)' /\ boot'[c] \in Loaded
                     /\ boot'[t] = "checkpoint" => asked[t].version < disk'[c].version
                     /\ boot'[t] = "log" => /\ disk'[t].version = disk'[c].version
                                            /\ disk'[t].kv = disk'[c].kv
    BY DEF SourcesLead, Loaded
  <2>1. CASE t = s
    BY <1>1, <1>3, <2>1
  <2>2. CASE t # s
    <3>1. Leads(c) /\ boot[c] \in Loaded
      BY <2>2 DEF Agreement, FilesFit, SourcesLead
    <3>2. c # s
      BY <3>1 DEF Synchronising, Loaded
    <3> QED
      BY <1>3, <2>2, <3>1, <3>2 DEF Agreement, FilesFit, SourcesLead
  <2> QED
    BY <2>1, <2>2
<1>12. EmptyLogAsked'
  BY DEF Agreement, FilesFit, EmptyLogAsked
<1>13. ExecutingHeld'
  <2> SUFFICES ASSUME NEW w \in Writes, NEW r \in Rows, NEW q \in Servers,
                      w \in Executing, r = write[w].row, q = write[w].at
               PROVE newest[r] = None /\ Replay(disk'[q])[r] = w
    BY <1>2 DEF ExecutingHeld
  <2>1. boot[q] = "serving"
    BY CallerLeads DEF Agreement
  <2>2. q # s
    BY <2>1 DEF Synchronising
  <2> QED
    BY <2>2 DEF Agreement, NewestFit, ExecutingHeld
<1>14. NewestHeld'
  BY <1>3 DEF NewestHeld, Agreement, NewestFit
<1> QED
  BY <1>2, <1>4, <1>5, <1>6, <1>7, <1>8, <1>9, <1>10, <1>11, <1>12, <1>13, <1>14
     DEF Agreement, FilesFit, NewestFit

(* How the files of a server that is synchronised compare with those of    *)
(* the primary.                                                            *)
LEMMA ComparedFiles ==
  ASSUME RecoveryInv, Agreement, NEW s \in Servers, NEW p \in Servers,
         boot[s] \in Synchronising, Leads(p)
  PROVE  /\ disk[s] \in DiskType /\ disk[p] \in DiskType
         /\ asked[s].version \in Nat /\ asked[s].length \in Nat
         /\ Torn(s) => /\ asked[s].version < disk[s].version
                       /\ disk[s].version <= disk[p].version
         /\ ~ Torn(s) => /\ asked[s].version = disk[s].version
                         /\ asked[s].length = disk[s].length
                         /\ Before(disk[s], disk[p])
         /\ disk[p].version > 0 => disk[p].length > 0
<1>1. disk[s] \in DiskType /\ disk[p] \in DiskType
      /\ asked[s].version \in Nat /\ asked[s].length \in Nat
  BY DEF RecoveryInv, RecoveryTypes, TypeOK
<1>2. Torn(s) => asked[s].version < disk[s].version /\ disk[s].version <= disk[p].version
  BY DEF Agreement, FilesFit, AskedTorn
<1>3. boot[s] \notin Opening
  BY DEF Synchronising, Opening, Loaded
<1>4. ~ Torn(s) => /\ asked[s].version = disk[s].version
                   /\ asked[s].length = disk[s].length
                   /\ Before(disk[s], disk[p])
  BY <1>3 DEF Agreement, FilesFit, AskedUntorn, OthersBefore
<1>5. disk[p].version > 0 => disk[p].length > 0
  BY DEF Agreement, FilesFit, LeadersLogged
<1> QED
  BY <1>1, <1>2, <1>4, <1>5

LEMMA RequestJoins ==
  ASSUME RecoveryInv, Agreement, Undisturbed', NEW s \in Servers, RequestLatestTabletState(s)
  PROVE  Joins(s, primary)
<1> DEFINE p == primary
<1>1. /\ p \in Servers /\ boot[s] = "sync" /\ boot[p] \in Loaded /\ s # p
      /\ boot' = [boot EXCEPT ![s] = Needs(s, p)]
      /\ source' = [source EXCEPT ![s] = p]
      /\ UNCHANGED <<asked, disk, mem, write, newest, primary>>
  BY DEF RequestLatestTabletState, Undisturbed, Loaded, masterVars, RecoveryInv, RecoveryTypes,
         TypeOK
<1>2. Leads(p)
  <2>1. CASE Executing = {}
    BY <1>1, <2>1 DEF Leads, Behind, Opening
  <2>2. CASE Executing # {}
    <3>1. PICK w \in Writes : w \in Executing
      BY <2>2 DEF Executing
    <3> QED
      BY <3>1, CallerLeads DEF Agreement
  <2> QED
    BY <2>1, <2>2
<1>3. mem[p].checkpoint_version = disk[p].version /\ mem[p].tablet_log_size = disk[p].length
  BY <1>1 DEF RecoveryInv, DiskHoldsMemory, Agreement, FilesFit, LogCounted
<1>4. /\ boot'[s] = Needs(s, p) /\ source'[s] = p
      /\ \A t \in Servers : t # s =>
           boot'[t] = boot[t] /\ source'[t] = source[t] /\ disk'[t] = disk[t]
      /\ disk' = disk
  BY <1>1 DEF RecoveryInv, RecoveryTypes, TypeOK
<1>5. boot[s] \in Synchronising
  BY <1>1 DEF Synchronising
<1>6. /\ disk[s] \in DiskType /\ disk[p] \in DiskType
      /\ asked[s].version \in Nat /\ asked[s].length \in Nat
      /\ Torn(s) => asked[s].version < disk[s].version /\ disk[s].version <= disk[p].version
      /\ ~ Torn(s) => /\ asked[s].version = disk[s].version
                      /\ asked[s].length = disk[s].length
                      /\ Before(disk[s], disk[p])
  BY <1>1, <1>2, <1>5, ComparedFiles
<1> HIDE DEF p
<1>7. /\ disk[s].version \in Nat /\ disk[s].length \in Nat
      /\ disk[p].version \in Nat /\ disk[p].length \in Nat
      /\ disk[s] = [version |-> disk[s].version, kv |-> disk[s].kv,
                    length |-> disk[s].length, last |-> disk[s].last]
      /\ disk[p] = [version |-> disk[p].version, kv |-> disk[p].kv,
                    length |-> disk[p].length, last |-> disk[p].last]
  BY <1>6 DEF DiskType
<1>8. CASE asked[s].version # disk[p].version
  <2>1. Needs(s, p) = "checkpoint"
    BY <1>3, <1>8 DEF Needs
  <2>2. asked[s].version < disk[p].version
    BY <1>6, <1>7, <1>8 DEF Before
  <2> QED
    BY <1>1, <1>2, <1>4, <1>5, <2>1, <2>2 DEF Joins, p
<1>9. CASE asked[s].version = disk[p].version /\ asked[s].length # disk[p].length
  <2>1. Needs(s, p) = "log"
    BY <1>3, <1>9 DEF Needs
  <2>2. disk[s].version = disk[p].version /\ disk[s].kv = disk[p].kv
    BY <1>6, <1>7, <1>9 DEF Before
  <2> QED
    BY <1>1, <1>2, <1>4, <1>5, <2>1, <2>2 DEF Joins, p
<1>10. CASE asked[s].version = disk[p].version /\ asked[s].length = disk[p].length
  <2>1. Needs(s, p) = "load"
    BY <1>3, <1>10 DEF Needs
  <2>2. /\ disk[s].version = disk[p].version /\ disk[s].kv = disk[p].kv
        /\ disk[s].length = disk[p].length /\ disk[s].last = disk[p].last
    BY <1>6, <1>7, <1>10 DEF Before
  <2>3. disk[s] = disk[p]
    BY <1>7, <2>2
  <2> QED
    BY <1>1, <1>2, <1>4, <1>5, <1>10, <2>1, <2>3 DEF Joins, p
<1> QED
  BY <1>8, <1>9, <1>10

LEMMA PushCheckpointJoins ==
  ASSUME RecoveryInv, Agreement, NEW s \in Servers, NEW p \in Servers, p = source[s],
         PushCheckpoint(s)
  PROVE  Joins(s, p)
<1>1. /\ boot[s] = "checkpoint" /\ boot' = [boot EXCEPT ![s] = "log"]
      /\ disk' = [disk EXCEPT ![s] =
                    IF mem[p].checkpoint_version < disk[s].version THEN disk[s]
                    ELSE [disk[s] EXCEPT !.version = mem[p].checkpoint_version,
                                         !.kv = disk[p].kv]]
      /\ UNCHANGED <<source, asked, mem, write, newest, primary>>
  BY DEF PushCheckpoint, masterVars, syncVars, historyVars
<1>2. Leads(p) /\ boot[p] \in Loaded /\ asked[s].version < disk[p].version
  BY <1>1 DEF Agreement, FilesFit, SourcesLead
<1>3. mem[p].checkpoint_version = disk[p].version
  BY <1>2 DEF RecoveryInv, DiskHoldsMemory
<1>4. boot[s] \in Synchronising
  BY <1>1 DEF Synchronising
<1>5. disk[s] \in DiskType /\ disk[p] \in DiskType /\ ~ (disk[p].version < disk[s].version)
  <2>1. /\ disk[s] \in DiskType /\ disk[p] \in DiskType
        /\ Torn(s) => disk[s].version <= disk[p].version
        /\ ~ Torn(s) => asked[s].version = disk[s].version
    BY <1>2, <1>4, ComparedFiles
  <2>2. disk[s].version \in Nat /\ disk[p].version \in Nat
    BY <2>1 DEF DiskType
  <2> QED
    BY <1>2, <2>1, <2>2
<1>6. disk' = [disk EXCEPT ![s] = [disk[s] EXCEPT !.version = disk[p].version, !.kv = disk[p].kv]]
  BY <1>1, <1>3, <1>5
<1>7. /\ disk'[s].version = disk[p].version /\ disk'[s].kv = disk[p].kv
      /\ \A t \in Servers : t # s => disk'[t] = disk[t]
  BY <1>5, <1>6 DEF RecoveryInv, RecoveryTypes, TypeOK, DiskType
<1>8. boot'[s] = "log" /\ \A t \in Servers : t # s => boot'[t] = boot[t]
  BY <1>1 DEF RecoveryInv, RecoveryTypes, TypeOK
<1> QED
  BY <1>1, <1>2, <1>4, <1>7, <1>8 DEF Joins

LEMMA PushLogJoins ==
  ASSUME RecoveryInv, Agreement, NEW s \in Servers, NEW p \in Servers, p = source[s], PushLog(s)
  PROVE  Joins(s, p)
<1>1. /\ boot[s] = "log" /\ boot' = [boot EXCEPT ![s] = "load"]
      /\ disk' = [disk EXCEPT ![s] = [disk[s] EXCEPT !.length = disk[p].length,
                                                     !.last = disk[p].last]]
      /\ UNCHANGED <<source, asked, mem, write, newest, primary>>
  BY DEF PushLog, masterVars, syncVars, historyVars
<1>2. /\ Leads(p) /\ boot[p] \in Loaded
      /\ disk[s].version = disk[p].version /\ disk[s].kv = disk[p].kv
  BY <1>1 DEF Agreement, FilesFit, SourcesLead
<1>3. boot[s] \in Synchronising
  BY <1>1 DEF Synchronising
<1>4. /\ disk[s] \in DiskType /\ disk[p] \in DiskType
      /\ Torn(s) => asked[s].version < disk[s].version
      /\ ~ Torn(s) => asked[s].length = disk[s].length /\ Before(disk[s], disk[p])
      /\ asked[s].version \in Nat
      /\ disk[p].version > 0 => disk[p].length > 0
  BY <1>2, <1>3, ComparedFiles
<1>5. disk'[s] = disk[p] /\ \A t \in Servers : t # s => disk'[t] = disk[t]
  <2>1. \A t \in Servers : t # s => disk'[t] = disk[t]
    BY <1>1 DEF RecoveryInv, RecoveryTypes, TypeOK
  <2>2. disk'[s] = [disk[s] EXCEPT !.length = disk[p].length, !.last = disk[p].last]
    BY <1>1 DEF RecoveryInv, RecoveryTypes, TypeOK
  <2>3. [disk[s] EXCEPT !.length = disk[p].length, !.last = disk[p].last] = disk[p]
    BY <1>2, <1>4 DEF DiskType
  <2> QED
    BY <2>1, <2>2, <2>3
<1>6. disk[p].length = 0 => asked[s].length = 0
  <2> SUFFICES ASSUME disk[p].length = 0 PROVE asked[s].length = 0
    OBVIOUS
  <2>1. disk[p].version \in Nat /\ disk[s].version \in Nat /\ disk[s].length \in Nat
    BY <1>4 DEF DiskType
  <2>2. disk[s].version = 0
    BY <1>2, <1>4, <2>1
  <2>3. ~ Torn(s)
    BY <1>4, <2>2
  <2> QED
    BY <1>2, <1>4, <2>1, <2>3 DEF Before
<1>7. boot'[s] = "load" /\ \A t \in Servers : t # s => boot'[t] = boot[t]
  BY <1>1 DEF RecoveryInv, RecoveryTypes, TypeOK
<1> QED
  BY <1>1, <1>2, <1>3, <1>5, <1>6, <1>7 DEF Joins

LEMMA SynchronisationFits ==
  ASSUME RecoveryInv, Agreement, Undisturbed', NEW s \in Servers,
         RequestLatestTabletState(s) \/ PushCheckpoint(s) \/ PushLog(s)
  PROVE  Agreement'
<1>1. CASE RequestLatestTabletState(s)
  <2>1. primary \in Servers
    BY DEF RecoveryInv, RecoveryTypes, TypeOK
  <2> QED
    BY <1>1, <2>1, RequestJoins, JoinsFits
<1>2. CASE PushCheckpoint(s) \/ PushLog(s)
  <2>1. source[s] \in Servers
    BY <1>2 DEF PushCheckpoint, PushLog, RecoveryInv, RecoveryTypes, SourcesKnown
  <2> QED
    BY <1>2, <2>1, PushCheckpointJoins, PushLogJoins, JoinsFits
<1> QED
  BY <1>1, <1>2

LEMMA AgreeInit == Init => AgreeInv
<1> SUFFICES ASSUME Init PROVE Agreement
  BY RecoveryInit DEF AgreeInv
<1>1. \A w \in Writes : write[w].stage = "idle"
  BY DEF Init, IdleWrite
<1>2. InFlight = {} /\ Numbered = {} /\ Executing = {}
  BY <1>1 DEF InFlight, Numbered, Executing
<1>3. \A s \in Servers : /\ boot[s] = "serving" /\ disk[s] = EmptyDisk
                         /\ mem[s] = EmptyMem /\ ~ Torn(s)
  BY DEF Init, Torn
<1>4. WritesFit
  BY <1>2 DEF WritesFit, OneAtATime, AtPrimary, PrimaryFirst
<1>5. FilesFit
  BY <1>2, <1>3 DEF FilesFit, LogCounted, LeadersAgree, LeadersLogged, BehindByOne,
     OthersBefore, AskedUntorn, AskedTorn, SourcesLead, EmptyLogAsked, EmptyDisk, EmptyMem,
     Opening, Loaded, Synchronising
<1>6. NewestFit
  BY <1>2 DEF Init, NewestFit, ExecutingHeld, NewestHeld, NoWrites
<1> QED
  BY <1>4, <1>5, <1>6 DEF Agreement

LEMMA AgreeStep ==
  ASSUME OneWriteAtATime
  PROVE  AgreeInv /\ [Next]_vars => AgreeInv'
<1> SUFFICES ASSUME AgreeInv, [Next]_vars PROVE AgreeInv'
  OBVIOUS
<1>1. RecoveryInv'
  BY RecoveryStep DEF AgreeInv
<1> SUFFICES ASSUME Undisturbed' PROVE Agreement'
  BY <1>1 DEF AgreeInv
<1>2. Undisturbed
  <2>1. disturbed \subseteq disturbed'
    BY DEF Next, Send, Serve, Relay, Report, AssignNumber, ForwardFails, Execute, Answer, Crash,
           Start, Bootstrap, AnnounceDown, RequestLatestTabletState, PrimaryUnreachable,
           SourceLost, PushCheckpoint, NoCheckpointToPush, PushLog, Load, AnnounceUp, Open, End,
           ReportDown, ReportUp, Push, vars, historyVars
  <2> QED
    BY <2>1 DEF Undisturbed
<1>3. RecoveryInv /\ Agreement
  BY <1>2 DEF AgreeInv
<1>4. ASSUME NEW w \in Writes, NEW r \in Rows, NEW s \in Servers, Send(w, r, s)
      PROVE Agreement'
  BY <1>3, <1>4, WriteStepFits
<1>5. ASSUME NEW w \in Writes, Serve(w) PROVE Agreement'
  <2>1. CASE Relay(w) \/ Report(w) \/ AssignNumber(w) \/ ForwardFails(w)
    <3>1. write[w].row \in Rows /\ write[w].at \in Servers
      BY <1>3, <2>1 DEF Relay, Report, AssignNumber, ForwardFails, RecoveryInv, RecoveryTypes,
                        WritesPlaced
    <3> QED
      BY <1>3, <2>1, <3>1, WriteStepFits
  <2>2. CASE Execute(w)
    BY <1>3, <2>2, ExecuteFits
  <2>3. CASE Answer(w)
    BY <1>3, <2>3, AnswerAgrees
  <2> QED
    BY <1>5, <2>1, <2>2, <2>3 DEF Serve
<1>6. ASSUME NEW s \in Servers, Crash(s) PROVE Agreement'
  <2>1. End(s) /\ UNCHANGED disk
    BY <1>6 DEF Crash
  <2> QED
    BY <1>3, <2>1, EndFits
<1>7. ASSUME NEW s \in Servers, Start(s) PROVE Agreement'
  BY <1>3, <1>7, BootStepFits
<1>8. ASSUME NEW s \in Servers, Bootstrap(s) PROVE Agreement'
  <2>1. CASE NoCheckpointToPush(s)
    <3>1. source[s] \in Servers /\ End(source[s]) /\ UNCHANGED disk
      BY <1>3, <2>1 DEF NoCheckpointToPush, RecoveryInv, RecoveryTypes, SourcesKnown
    <3> QED
      BY <1>3, <3>1, EndFits
  <2>2. CASE \/ AnnounceDown(s) \/ PrimaryUnreachable(s) \/ SourceLost(s)
             \/ Load(s) \/ AnnounceUp(s) \/ Open(s)
    BY <1>3, <2>2, BootStepFits
  <2>3. CASE RequestLatestTabletState(s) \/ PushCheckpoint(s) \/ PushLog(s)
    BY <1>3, <2>3, SynchronisationFits
  <2> QED
    BY <1>8, <2>1, <2>2, <2>3 DEF Bootstrap
<1>9. CASE UNCHANGED vars
  <2>1. UNCHANGED <<primary, boot, source, asked, disk, mem, write, newest>>
    BY <1>9 DEF vars, masterVars, syncVars, historyVars
  <2>2. /\ Numbered = {} \/ primary' = primary
        /\ \A s \in Servers : boot[s] = "serving" => boot'[s] = "serving"
        /\ primary \in Servers
    BY <1>3, <2>1 DEF RecoveryInv, RecoveryTypes, TypeOK
  <2>3. WritesFit' /\ CallsGoOn
    BY <1>3, <2>1, <2>2, WritesStay DEF Agreement
  <2>4. FilesStay
    BY <1>3, <2>1, <2>3, SameServersStay DEF Agreement
  <2> QED
    BY <1>3, <2>1, <2>3, <2>4, StayFits, StayHeld DEF Agreement
<1> QED
  BY <1>4, <1>5, <1>6, <1>7, <1>8, <1>9 DEF Next

(* The files of all servers that have loaded them are equal, but for one   *)
(* command while the primary forwards it, and those of the others are what *)
(* these were earlier; version and length tell how much earlier.           *)
THEOREM AgreementInvariant == OneWriteAtATime => (Spec => []AgreeInv)
<1> SUFFICES ASSUME OneWriteAtATime PROVE Spec => []AgreeInv
  OBVIOUS
<1>1. AgreeInv /\ [Next]_vars => AgreeInv'
  BY AgreeStep
<1> QED
  BY <1>1, AgreeInit, PTL DEF Spec

(* RequestLatestTabletState compares no more than a version and a length:  *)
(* without a disturbance that is enough for servers that are open to agree *)
(* on every row once no write is in progress.                              *)
THEOREM ReplicasAgreeHolds == OneWriteAtATime => (Spec => []ReplicasAgree)
<1> SUFFICES ASSUME OneWriteAtATime PROVE Spec => []ReplicasAgree
  OBVIOUS
<1>1. AgreeInv => ReplicasAgree
  <2> SUFFICES ASSUME AgreeInv, Undisturbed, InFlight = {},
                      NEW s \in Serving, NEW t \in Serving
               PROVE /\ mem[s].kv = mem[t].kv
                     /\ mem[s].checkpoint_version = mem[t].checkpoint_version
                     /\ mem[s].tablet_log_size = mem[t].tablet_log_size
    BY DEF ReplicasAgree
  <2>1. RecoveryInv /\ Agreement
    BY DEF AgreeInv
  <2>2. s \in Servers /\ t \in Servers /\ boot[s] = "serving" /\ boot[t] = "serving"
    BY DEF Serving, Accepts
  <2>3. Executing = {}
    BY DEF Executing, InFlight
  <2>4. Leads(s) /\ Leads(t)
    BY <2>2, <2>3 DEF Leads, Behind, Opening, Loaded
  <2>5. disk[s] = disk[t]
    BY <2>1, <2>2, <2>4 DEF Agreement, FilesFit, LeadersAgree
  <2> QED
    BY <2>1, <2>2, <2>5 DEF RecoveryInv, DiskHoldsMemory, Agreement, FilesFit, LogCounted, Loaded
<1> QED
  BY <1>1, AgreementInvariant, PTL

(* RequestLatestTabletState pushes a checkpoint only to a server with a    *)
(* lower version than the primary's: the primary has the file it opens,    *)
(* and exit(EXIT_FAILURE) is not reached.                                  *)
THEOREM SourceHasCheckpointHolds == OneWriteAtATime => (Spec => []SourceHasCheckpoint)
<1> SUFFICES ASSUME OneWriteAtATime PROVE Spec => []SourceHasCheckpoint
  OBVIOUS
<1>1. AgreeInv => SourceHasCheckpoint
  <2> SUFFICES ASSUME AgreeInv, Undisturbed, NEW s \in Servers, boot[s] = "checkpoint"
               PROVE mem[source[s]].checkpoint_version > 0
    BY DEF SourceHasCheckpoint
  <2>1. RecoveryInv /\ Agreement
    BY DEF AgreeInv
  <2>2. source[s] \in Servers
    BY <2>1 DEF RecoveryInv, RecoveryTypes, SourcesKnown
  <2>3. boot[source[s]] \in Loaded /\ asked[s].version < disk[source[s]].version
    BY <2>1, <2>2 DEF Agreement, FilesFit, SourcesLead
  <2>4. asked[s].version \in Nat /\ disk[source[s]].version \in Nat
    BY <2>1, <2>2 DEF RecoveryInv, RecoveryTypes, TypeOK, DiskType
  <2>5. mem[source[s]].checkpoint_version = disk[source[s]].version
    BY <2>1, <2>2, <2>3 DEF RecoveryInv, DiskHoldsMemory
  <2> QED
    BY <2>3, <2>4, <2>5
<1> QED
  BY <1>1, AgreementInvariant, PTL

(* The write that was last answered for a row is in the memory of every    *)
(* server that is open, whoever crashed and was synchronised since.        *)
THEOREM AnsweredHeldHolds == OneWriteAtATime => (Spec => []AnsweredHeldUndisturbed)
<1> SUFFICES ASSUME OneWriteAtATime PROVE Spec => []AnsweredHeldUndisturbed
  OBVIOUS
<1>1. AgreeInv => AnsweredHeldUndisturbed
  <2> SUFFICES ASSUME AgreeInv, Undisturbed, NEW s \in Serving, NEW r \in Rows,
                      newest[r] # None
               PROVE mem[s].kv[r] = newest[r]
    BY DEF AnsweredHeldUndisturbed, AnsweredHeld
  <2>1. RecoveryInv /\ Agreement
    BY DEF AgreeInv
  <2>2. s \in Servers /\ boot[s] = "serving"
    BY DEF Serving, Accepts
  <2>3. mem[s].kv = Replay(disk[s])
    BY <2>1, <2>2 DEF RecoveryInv, DiskHoldsMemory, Loaded
  <2>4. CASE Leads(s)
    BY <2>1, <2>2, <2>3, <2>4 DEF Agreement, NewestFit, NewestHeld
  <2>5. CASE ~ Leads(s)
    <3>1. PICK w \in Writes : w \in Executing /\ s \in write[w].todo
      BY <2>2, <2>5 DEF Leads, Behind, Opening, Loaded, Executing
    <3>2. PICK q \in Rows, p \in Servers : q = write[w].row /\ p = write[w].at /\ Leads(p)
      BY <2>1, <3>1, CallerLeads DEF Agreement
    <3>3. newest[q] = None
      BY <2>1, <3>1, <3>2 DEF Agreement, NewestFit, ExecutingHeld
    <3>4. Replay(disk[p])[r] = newest[r]
      BY <2>1, <3>2 DEF Agreement, NewestFit, NewestHeld
    <3>5. disk[p] = Logged(disk[s], q, w)
      BY <2>1, <2>2, <3>1, <3>2 DEF Agreement, FilesFit, BehindByOne
    <3>6. Replay(Logged(disk[s], q, w)) = [Replay(disk[s]) EXCEPT ![q] = w]
      BY <2>1, <2>2, LoggedLater DEF RecoveryInv, RecoveryTypes, TypeOK
    <3>7. [Replay(disk[s]) EXCEPT ![q] = w][r] = Replay(disk[s])[r]
      BY <3>3 DEF Replay
    <3> QED
      BY <2>3, <3>4, <3>5, <3>6, <3>7
  <2> QED
    BY <2>4, <2>5
<1> QED
  BY <1>1, AgreementInvariant, PTL
=============================================================================
