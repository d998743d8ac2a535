------------------------ MODULE TabletLogProofs -------------------------
(***************************************************************************)
(* What is proved of TabletLog for any rows, values, limit and number of   *)
(* threads: the types; tablet_log_size counts the commands in the log      *)
(* file, and the log never reaches MAX_LOG_CMD_COUNT commands; and, when   *)
(* one row is written at a time with PUT and DELETE, a restart brings back *)
(* what was stored.  The facts about a replay are proved by induction over *)
(* the log, with a set of numbers for the induction's formula.             *)
(***************************************************************************)
EXTENDS TabletLog, FiniteSetTheorems, SequenceTheorems, WellFoundedInduction, TLAPS

USE TypesAssumption, ValueAssumption, CountAssumption

-----------------------------------------------------------------------------
(* What a replay of a log computes.                                        *)

(* A set of numbers that holds 0 and the successors of its members holds   *)
(* them all.                                                               *)
LEMMA Induction ==
  ASSUME NEW S, 0 \in S, \A n \in Nat : n \in S => n + 1 \in S
  PROVE  \A n \in Nat : n \in S
<1> DEFINE T == Nat \ S
<1> SUFFICES ASSUME T # {} PROVE FALSE
  OBVIOUS
<1>1. IsWellFoundedOn(OpToRel(<, Nat), Nat)
  BY NatLessThanWellFounded
<1>2. PICK m \in T : \A k \in T : <<k, m>> \notin OpToRel(<, Nat)
  <2>1. T \in SUBSET Nat /\ T # {}
    OBVIOUS
  <2> HIDE DEF T
  <2> QED
    BY <1>1, <2>1, WFMin
<1>3. \A k \in T : ~ (k < m)
  BY <1>2 DEF OpToRel
<1>4. m \in Nat /\ m # 0
  OBVIOUS
<1>5. m - 1 \in Nat /\ m - 1 \notin T
  BY <1>3, <1>4
<1> QED
  BY <1>4, <1>5

(* The states of the table during a replay.                                *)
Steps(f, store, commands) ==
  /\ f \in [0 .. Len(commands) -> Store]
  /\ f[0] = store
  /\ \A n \in 1 .. Len(commands) : f[n] = Execution(f[n - 1], Deserialized(commands[n]))

LEMMA ExecutionCases ==
  ASSUME NEW s, NEW c
  PROVE  /\ c.type = "PUT" => Execution(s, c) = [s EXCEPT ![c.row] = c.value1]
         /\ c.type = "CPUT" => Execution(s, c) =
              [s EXCEPT ![c.row] = IF @ = c.value1 THEN c.value2 ELSE @]
         /\ c.type = "DELETE" => Execution(s, c) = [s EXCEPT ![c.row] = Absent]
<1>1. c.type = "PUT" => Execution(s, c) = [s EXCEPT ![c.row] = c.value1]
  BY Zenon DEF Execution
<1>2. ASSUME c.type = "CPUT"
      PROVE  Execution(s, c) = [s EXCEPT ![c.row] = IF @ = c.value1 THEN c.value2 ELSE @]
  <2>1. c.type # "PUT"
    BY <1>2
  <2> QED
    BY <1>2, <2>1, Zenon DEF Execution
<1>3. ASSUME c.type = "DELETE" PROVE Execution(s, c) = [s EXCEPT ![c.row] = Absent]
  <2>1. c.type # "PUT" /\ c.type # "CPUT"
    BY <1>3
  <2> QED
    BY <1>3, <2>1, Zenon DEF Execution
<1> QED
  BY <1>1, <1>2, <1>3

LEMMA ExecutionType ==
  ASSUME NEW s \in Store, NEW c \in Command
  PROVE  Execution(s, c) \in Store /\ Deserialized(c) \in Command
<1>1. Deserialized(c) \in Command
  BY DEF Deserialized, Command
<1>2. CASE c.type = "PUT"
  BY <1>1, <1>2, ExecutionCases DEF Store, Stored, Command
<1>3. CASE c.type = "CPUT"
  BY <1>1, <1>3, ExecutionCases DEF Store, Stored, Command
<1>4. CASE c.type = "DELETE"
  BY <1>1, <1>4, ExecutionCases DEF Store, Stored, Command
<1> QED
  BY <1>2, <1>3, <1>4 DEF Command

LEMMA StepsExist ==
  ASSUME NEW s \in Store, NEW cs \in Seq(Command)
  PROVE  \E f : Steps(f, s, cs)
<1> DEFINE Upto(f, k) ==
      /\ f \in [0 .. k -> Store]
      /\ f[0] = s
      /\ \A n \in 1 .. k : f[n] = Execution(f[n - 1], Deserialized(cs[n]))
    S == {k \in Nat : k <= Len(cs) => \E f : Upto(f, k)}
<1>1. 0 \in S
  <2>1. Upto([n \in 0 .. 0 |-> s], 0)
    OBVIOUS
  <2> QED
    BY <2>1
<1>2. ASSUME NEW k \in Nat, k \in S PROVE k + 1 \in S
  <2> SUFFICES ASSUME k + 1 <= Len(cs) PROVE \E g : Upto(g, k + 1)
    OBVIOUS
  <2>1. PICK f : Upto(f, k)
    BY <1>2
  <2> DEFINE e == Execution(f[k], Deserialized(cs[k + 1]))
      g == [n \in 0 .. k + 1 |-> IF n = k + 1 THEN e ELSE f[n]]
  <2>2. e \in Store
    BY <2>1, ExecutionType
  <2>3. g \in [0 .. k + 1 -> Store] /\ g[0] = s
    <3> HIDE DEF e
    <3> QED
      BY <2>1, <2>2
  <2>4. ASSUME NEW n \in 1 .. k + 1 PROVE g[n] = Execution(g[n - 1], Deserialized(cs[n]))
    <3>1. g[n - 1] = f[n - 1]
      OBVIOUS
    <3>2. CASE n = k + 1
      BY <3>1, <3>2
    <3>3. CASE n # k + 1
      <4>1. n \in 1 .. k /\ g[n] = f[n]
        BY <3>3
      <4> QED
        BY <2>1, <3>1, <4>1
    <3> QED
      BY <3>2, <3>3
  <2> QED
    BY <2>3, <2>4
<1>3. Len(cs) \in S
  <2>1. Len(cs) \in Nat
    OBVIOUS
  <2> HIDE DEF S
  <2> QED
    BY <1>1, <1>2, <2>1, Induction
<1> QED
  BY <1>3 DEF Steps

LEMMA StepsUnique ==
  ASSUME NEW s \in Store, NEW cs \in Seq(Command), NEW f, Steps(f, s, cs)
  PROVE  Replayed(s, cs) = f[Len(cs)]
<1> DEFINE after[n \in 0 .. Len(cs)] ==
      IF n = 0 THEN s ELSE Execution(after[n - 1], Deserialized(cs[n]))
<1>1. Replayed(s, cs) = after[Len(cs)]
  BY DEF Replayed
<1>2. f = [n \in 0 .. Len(cs) |-> IF n = 0 THEN s ELSE Execution(f[n - 1], Deserialized(cs[n]))]
  BY DEF Steps
<1>3. after = [n \in 0 .. Len(cs) |-> IF n = 0 THEN s ELSE Execution(after[n - 1], Deserialized(cs[n]))]
  BY <1>2
<1> HIDE DEF after
<1> DEFINE S == {k \in Nat : k <= Len(cs) => after[k] = f[k]}
<1>4. 0 \in S
  BY <1>3 DEF Steps
<1>5. ASSUME NEW k \in Nat, k \in S PROVE k + 1 \in S
  BY <1>3, <1>5 DEF Steps
<1>6. Len(cs) \in S
  <2>1. Len(cs) \in Nat
    OBVIOUS
  <2> HIDE DEF S
  <2> QED
    BY <1>4, <1>5, <2>1, Induction
<1> QED
  BY <1>1, <1>6

LEMMA StepsOfReplayed ==
  ASSUME NEW s \in Store, NEW cs \in Seq(Command)
  PROVE  \E f : Steps(f, s, cs) /\ Replayed(s, cs) = f[Len(cs)]
BY StepsExist, StepsUnique

LEMMA ReplayedType ==
  ASSUME NEW s \in Store, NEW cs \in Seq(Command)
  PROVE  Replayed(s, cs) \in Store
<1>1. PICK f : Steps(f, s, cs) /\ Replayed(s, cs) = f[Len(cs)]
  BY StepsOfReplayed
<1>2. Len(cs) \in 0 .. Len(cs)
  OBVIOUS
<1> QED
  BY <1>1, <1>2 DEF Steps

LEMMA ReplayedEmpty == ASSUME NEW s \in Store PROVE Replayed(s, <<>>) = s
<1>1. <<>> \in Seq(Command) /\ Len(<<>>) = 0
  OBVIOUS
<1>2. PICK f : Steps(f, s, <<>>) /\ Replayed(s, <<>>) = f[0]
  BY <1>1, StepsOfReplayed
<1> QED
  BY <1>2 DEF Steps

LEMMA ReplayedAppend ==
  ASSUME NEW s \in Store, NEW cs \in Seq(Command), NEW c \in Command
  PROVE  Replayed(s, Append(cs, c)) = Execution(Replayed(s, cs), Deserialized(c))
<1>1. PICK f : Steps(f, s, cs) /\ Replayed(s, cs) = f[Len(cs)]
  BY StepsOfReplayed
<1> DEFINE k == Len(cs)
           ds == Append(cs, c)
           e == Execution(f[k], Deserialized(c))
           g == [n \in 0 .. k + 1 |-> IF n = k + 1 THEN e ELSE f[n]]
<1>2. /\ k \in Nat /\ ds \in Seq(Command) /\ Len(ds) = k + 1
      /\ ds[k + 1] = c /\ \A n \in 1 .. k : ds[n] = cs[n]
  OBVIOUS
<1>3. f \in [0 .. k -> Store] /\ f[k] \in Store /\ e \in Store
  BY <1>1, <1>2, ExecutionType DEF Steps
<1>4. g \in [0 .. k + 1 -> Store] /\ g[0] = s /\ g[k + 1] = e
  <2> HIDE DEF e, k
  <2> QED
    BY <1>1, <1>2, <1>3 DEF Steps, k
<1>5. ASSUME NEW n \in 1 .. k + 1 PROVE g[n] = Execution(g[n - 1], Deserialized(ds[n]))
  <2>1. g[n - 1] = f[n - 1]
    BY <1>2
  <2>2. CASE n = k + 1
    BY <1>2, <2>1, <2>2
  <2>3. CASE n # k + 1
    <3>1. n \in 1 .. k /\ g[n] = f[n] /\ ds[n] = cs[n]
      BY <1>2, <2>3
    <3> HIDE DEF g, ds, e
    <3> QED
      BY <1>1, <2>1, <3>1 DEF Steps
  <2> QED
    BY <2>2, <2>3
<1>6. Steps(g, s, ds)
  <2> HIDE DEF g, ds, e
  <2> QED
    BY <1>2, <1>4, <1>5 DEF Steps
<1>7. Replayed(s, ds) = g[k + 1]
  <2> HIDE DEF g, ds, e
  <2> QED
    BY <1>2, <1>6, StepsUnique
<1> QED
  BY <1>1, <1>4, <1>7

(* Commands that do what they say whatever is stored: a PUT or a DELETE.   *)
Plain(c) == c.type # "CPUT"

LEMMA PlainCommand ==
  ASSUME NEW c \in Command, Plain(c)
  PROVE  c.type \in {"PUT", "DELETE"} /\ Deserialized(c) = c
BY DEF Plain, Command, Deserialized

(* Replays of the same PUTs and DELETEs from two tables agree in every row *)
(* that a command names, and leave the others as they were.                *)
LEMMA ReplaysAgree ==
  ASSUME NEW s \in Store, NEW t \in Store, NEW cs \in Seq(Command),
         \A n \in 1 .. Len(cs) : Plain(cs[n])
  PROVE  \A r \in Rows : \/ Replayed(s, cs)[r] = Replayed(t, cs)[r]
                         \/ Replayed(s, cs)[r] = s[r] /\ Replayed(t, cs)[r] = t[r]
<1>1. PICK f : Steps(f, s, cs) /\ Replayed(s, cs) = f[Len(cs)]
  BY StepsOfReplayed
<1>2. PICK g : Steps(g, t, cs) /\ Replayed(t, cs) = g[Len(cs)]
  BY StepsOfReplayed
<1> DEFINE Agree(k) == \A r \in Rows : f[k][r] = g[k][r] \/ (f[k][r] = s[r] /\ g[k][r] = t[r])
           S == {k \in Nat : k <= Len(cs) => Agree(k)}
<1>3. 0 \in S
  BY <1>1, <1>2 DEF Steps
<1>4. ASSUME NEW k \in Nat, k \in S PROVE k + 1 \in S
  <2> SUFFICES ASSUME k + 1 <= Len(cs) PROVE Agree(k + 1)
    OBVIOUS
  <2>1. k + 1 \in 1 .. Len(cs) /\ (k + 1) - 1 = k /\ Agree(k)
    BY <1>4
  <2> DEFINE c == cs[k + 1]
  <2>2. c \in Command /\ c.type \in {"PUT", "DELETE"} /\ Deserialized(c) = c
    <3>1. c \in Command /\ Plain(c)
      BY <2>1
    <3> HIDE DEF c
    <3> QED
      BY <3>1, PlainCommand
  <2>3. f[k] \in Store /\ g[k] \in Store
    BY <1>1, <1>2, <2>1 DEF Steps
  <2>4. f[k + 1] = Execution(f[k], c) /\ g[k + 1] = Execution(g[k], c)
    <3>1. f[k + 1] = Execution(f[k], Deserialized(c)) /\ g[k + 1] = Execution(g[k], Deserialized(c))
      <4> HIDE DEF c
      <4> QED
      BY <1>1, <1>2, <2>1 DEF Steps, c
    <3> QED
      BY <2>2, <3>1
  <2> HIDE DEF c
  <2>5. \E v : f[k + 1] = [f[k] EXCEPT ![c.row] = v] /\ g[k + 1] = [g[k] EXCEPT ![c.row] = v]
    <3>1. CASE c.type = "PUT"
      <4>1. f[k + 1] = [f[k] EXCEPT ![c.row] = c.value1] /\ g[k + 1] = [g[k] EXCEPT ![c.row] = c.value1]
        BY <2>4, <3>1, ExecutionCases
      <4> QED
        BY <4>1
    <3>2. CASE c.type = "DELETE"
      <4>1. f[k + 1] = [f[k] EXCEPT ![c.row] = Absent] /\ g[k + 1] = [g[k] EXCEPT ![c.row] = Absent]
        BY <2>4, <3>2, ExecutionCases
      <4> QED
        BY <4>1
    <3> QED
      BY <2>2, <3>1, <3>2
  <2>6. PICK v : f[k + 1] = [f[k] EXCEPT ![c.row] = v] /\ g[k + 1] = [g[k] EXCEPT ![c.row] = v]
    BY <2>5
  <2> QED
    BY <2>1, <2>3, <2>6 DEF Store
<1>5. Len(cs) \in S
  <2>1. Len(cs) \in Nat
    OBVIOUS
  <2> HIDE DEF S
  <2> QED
    BY <1>3, <1>4, <2>1, Induction
<1> QED
  BY <1>1, <1>2, <1>5

(* So a log that has been replayed may be replayed again.                  *)
LEMMA ReplayedTwice ==
  ASSUME NEW s \in Store, NEW cs \in Seq(Command),
         \A n \in 1 .. Len(cs) : Plain(cs[n])
  PROVE  Replayed(Replayed(s, cs), cs) = Replayed(s, cs)
<1> DEFINE t == Replayed(s, cs)
           u == Replayed(t, cs)
<1>1. t \in Store
  BY ReplayedType
<1>2. u \in Store
  <2> HIDE DEF t
  <2> QED
    BY <1>1, ReplayedType
<1>3. \A r \in Rows : t[r] = u[r] \/ (t[r] = s[r] /\ u[r] = t[r])
  <2> HIDE DEF t
  <2> QED
    BY <1>1, ReplaysAgree DEF t
<1> HIDE DEF t, u
<1>4. u = t
  BY <1>1, <1>2, <1>3 DEF Store
<1> QED
  BY <1>4 DEF t, u

-----------------------------------------------------------------------------
(* The count of the log.                                                   *)

(* The part of TypeOK that the count of the log depends on.                *)
LogTypes ==
  /\ count \in Nat
  /\ logLock \in Rows \cup {None}
  /\ stage \in [Rows -> {"idle", "log", "dump", "append", "execute"}]
  /\ cmd \in [Rows -> Command \cup {None}]
  /\ \A r \in Rows : stage[r] # "idle" => cmd[r] \in Command
  /\ log \in Seq(Command)

LEMMA LogTypesOfTypeOK == TypeOK => LogTypes
BY DEF TypeOK, LogTypes

LEMMA LogInit == Init => LogTypes /\ LogInv
<1> SUFFICES ASSUME Init PROVE LogTypes /\ LogInv
  OBVIOUS
<1>1. LogTypes
  BY DEF Init, LogTypes
<1>2. LockHolder
  BY DEF Init, LockHolder
<1>3. count = Len(log) /\ count < MAX_LOG_CMD_COUNT
  BY DEF Init
<1>4. LogCounted
  BY <1>3 DEF Init, LogCounted
<1> QED
  BY <1>1, <1>2, <1>4 DEF LogInv

LEMMA LogWrite ==
  ASSUME LogTypes, LogInv, NEW r \in Rows, Write(r)
  PROVE  LogTypes' /\ LogInv'
<1> USE DEF LogInv
<1>1. CASE Arrive(r)
  <2>1. LogTypes'
    BY <1>1 DEF Arrive, LogTypes
  <2>2. LockHolder' /\ LogCounted'
    BY <1>1 DEF Arrive, LogTypes, LockHolder, LogCounted
  <2> QED
    BY <2>1, <2>2
<1>2. CASE StartLogging(r)
  <2>1. LogTypes'
    BY <1>2 DEF StartLogging, LogTypes
  <2>2. LockHolder'
    BY <1>2 DEF StartLogging, LogTypes, LockHolder
  <2>3. LogCounted'
    BY <1>2 DEF StartLogging, LogTypes, LogCounted
  <2> QED
    BY <2>1, <2>2, <2>3
<1>3. ASSUME NEW x \in Rows, DumpRow(r, x) PROVE LogTypes' /\ LogInv'
  BY <1>3 DEF DumpRow, LogTypes, LockHolder, LogCounted
<1>4. CASE EmptyLog(r)
  <2>1. log' = <<>> /\ Len(log') = 0 /\ count' = 0
    BY <1>4 DEF EmptyLog
  <2>2. LogTypes' /\ LockHolder'
    BY <1>4 DEF EmptyLog, LogTypes, LockHolder
  <2>3. LogCounted'
    BY <2>1 DEF LogCounted
  <2> QED
    BY <2>2, <2>3
<1>5. CASE AppendToLog(r)
  <2>1. cmd[r] \in Command /\ log \in Seq(Command)
    BY <1>5 DEF AppendToLog, LogTypes
  <2>2. log' \in Seq(Command) /\ Len(log') = Len(log) + 1
    BY <1>5, <2>1 DEF AppendToLog
  <2>3. LogTypes'
    BY <1>5, <2>2 DEF AppendToLog, LogTypes
  <2>4. LockHolder'
    BY <1>5 DEF AppendToLog, LogTypes, LockHolder
  <2>5. ASSUME NEW q \in Rows PROVE stage'[q] # "append"
    <3>1. logLock = r
      BY <1>5 DEF AppendToLog, LockHolder
    <3> QED
      BY <1>5, <3>1 DEF AppendToLog, LockHolder, LogTypes
  <2>6. LogCounted'
    BY <1>5, <2>2, <2>5 DEF AppendToLog, LogCounted, LogTypes
  <2> QED
    BY <2>3, <2>4, <2>6
<1>6. CASE Execute(r)
  <2>1. LogTypes'
    BY <1>6 DEF Execute, LogTypes
  <2>2. LockHolder' /\ LogCounted'
    BY <1>6 DEF Execute, LogTypes, LockHolder, LogCounted
  <2> QED
    BY <2>1, <2>2
<1> QED
  BY <1>1, <1>2, <1>3, <1>4, <1>5, <1>6 DEF Write

LEMMA LogStep == LogTypes /\ LogInv /\ [Next]_vars => LogTypes' /\ LogInv'
<1> SUFFICES ASSUME LogTypes, LogInv, [Next]_vars PROVE LogTypes' /\ LogInv'
  OBVIOUS
<1>1. CASE Restart
  <2>1. Len(log) \in Nat /\ count' = Len(log') /\ log' = log
    BY <1>1 DEF Restart, LogTypes
  <2>2. LogTypes'
    BY <1>1, <2>1 DEF Restart, LogTypes
  <2>3. LockHolder'
    BY <1>1 DEF Restart, LockHolder
  <2>4. LogCounted'
    BY <1>1, <2>1 DEF Restart, LogCounted, LogInv
  <2> QED
    BY <2>2, <2>3, <2>4 DEF LogInv
<1>2. CASE UNCHANGED vars
  BY <1>2 DEF vars, LogTypes, LogInv, LockHolder, LogCounted
<1> QED
  BY <1>1, <1>2, LogWrite DEF Next, Rest

(* The inductive invariant: the holder of the log lock is the only thread  *)
(* that dumps or appends, and tablet_log_size is the length of the log.    *)
THEOREM LogInvariant == Spec => []LogInv
<1>1. Spec => [](LogTypes /\ LogInv)
  BY LogInit, LogStep, PTL DEF Spec
<1> QED
  BY <1>1, PTL

(* The equality test of handle_checkpointing cannot be overrun: the log    *)
(* stays shorter than MAX_LOG_CMD_COUNT, whatever the threads and crashes. *)
THEOREM LogShortHolds == Spec => []LogShort
<1>1. LogInv => LogShort
  BY DEF LogInv, LogCounted, LogShort
<1> QED
  BY <1>1, LogInvariant, PTL

-----------------------------------------------------------------------------
(* The types, for every instance.                                          *)

LEMMA RecoveredType == TypeOK => Newest \in Store /\ Recovered \in Store
<1> SUFFICES ASSUME TypeOK PROVE Newest \in Store /\ Recovered \in Store
  OBVIOUS
<1>1. Empty \in Store
  BY DEF Empty, Store, Stored
<1>2. Newest \in Store
  <2>1. CASE checkpoints = <<>>
    BY <1>1, <2>1 DEF Newest
  <2>2. CASE checkpoints # <<>>
    <3>1. Len(checkpoints) \in 1 .. Len(checkpoints)
      BY <2>2 DEF TypeOK
    <3> QED
      BY <2>2, <3>1 DEF TypeOK, Newest, Last
  <2> QED
    BY <2>1, <2>2
<1> QED
  BY <1>2, ReplayedType DEF TypeOK, Recovered

(* What create_checkpoint makes of the files when it writes a row.         *)
LEMMA DumpedRow ==
  ASSUME NEW files \in Seq(Store), NEW x \in Rows, NEW v \in Stored,
         NEW written, written = [files EXCEPT ![Len(files)][x] = v]
  PROVE  /\ written \in Seq(Store)
         /\ files # <<>> => written # <<>> /\ Last(written) = [Last(files) EXCEPT ![x] = v]
<1> DEFINE k == Len(files)
<1>1. CASE files = <<>>
  <2>1. written = files
    BY <1>1
  <2> QED
    BY <1>1, <2>1
<1>2. CASE files # <<>>
  <2>1. k \in 1 .. Len(files) /\ files[k] \in Store
    BY <1>2
  <2> DEFINE e == [files[k] EXCEPT ![x] = v]
  <2>2. e \in Store
    BY <2>1 DEF Store
  <2>3. written = [files EXCEPT ![k] = e]
    OBVIOUS
  <2>4. written \in Seq(Store) /\ Len(written) = Len(files) /\ written[k] = e
    <3> HIDE DEF e
    <3>1. [files EXCEPT ![k] = e] \in Seq(Store) /\ Len([files EXCEPT ![k] = e]) = Len(files)
      BY <2>1, <2>2, ExceptSeq
    <3>2. [files EXCEPT ![k] = e][k] = e
      BY <2>1
    <3> QED
      BY <2>3, <3>1, <3>2
  <2>5. written # <<>> /\ Last(written) = e /\ Last(files) = files[k]
    BY <2>1, <2>4 DEF Last
  <2> QED
    BY <1>2, <2>4, <2>5
<1> QED
  BY <1>1, <1>2

LEMMA TypeStep == TypeOK /\ [Next]_vars => TypeOK'
<1> SUFFICES ASSUME TypeOK, [Next]_vars PROVE TypeOK'
  OBVIOUS
<1>1. ASSUME NEW r \in Rows, Arrive(r) PROVE TypeOK'
  BY <1>1 DEF TypeOK, Arrive
<1>2. ASSUME NEW r \in Rows, StartLogging(r) PROVE TypeOK'
  <2>1. Empty \in Store
    BY DEF Empty, Store, Stored
  <2>2. checkpoints' \in Seq(Store)
    <3>1. checkpoints' = checkpoints \/ checkpoints' = Append(checkpoints, Empty)
      BY <1>2 DEF StartLogging
    <3>2. checkpoints \in Seq(Store)
      BY DEF TypeOK
    <3> QED
      BY <2>1, <3>1, <3>2
  <2>3. todo' \subseteq Rows /\ stage' \in [Rows -> {"idle", "log", "dump", "append", "execute"}]
    BY <1>2 DEF TypeOK, StartLogging
  <2>4. \A q \in Rows : stage'[q] # "idle" => cmd'[q] \in Command
    BY <1>2 DEF TypeOK, StartLogging
  <2> QED
    BY <1>2, <2>2, <2>3, <2>4 DEF TypeOK, StartLogging
<1>3. ASSUME NEW r \in Rows, NEW x \in Rows, DumpRow(r, x) PROVE TypeOK'
  <2>1. checkpoints \in Seq(Store) /\ kv[x] \in Stored
    BY DEF TypeOK, Store
  <2>2. checkpoints' \in Seq(Store)
    BY <1>3, <2>1, DumpedRow DEF DumpRow
  <2> QED
    BY <1>3, <2>2 DEF TypeOK, DumpRow
<1>4. ASSUME NEW r \in Rows, EmptyLog(r) PROVE TypeOK'
  BY <1>4 DEF TypeOK, EmptyLog
<1>5. ASSUME NEW r \in Rows, AppendToLog(r) PROVE TypeOK'
  <2>1. log' \in Seq(Command)
    BY <1>5 DEF TypeOK, AppendToLog
  <2> QED
    BY <1>5, <2>1 DEF TypeOK, AppendToLog
<1>6. ASSUME NEW r \in Rows, Execute(r) PROVE TypeOK'
  <2>1. kv' \in Store
    BY <1>6, ExecutionType DEF TypeOK, Execute
  <2> QED
    BY <1>6, <2>1 DEF TypeOK, Execute
<1>7. CASE Restart
  <2>1. kv' \in Store
    BY <1>7, RecoveredType DEF Restart
  <2>2. count' \in Nat
    BY <1>7 DEF Restart, TypeOK
  <2> QED
    BY <1>7, <2>1, <2>2 DEF TypeOK, Restart
<1>8. CASE UNCHANGED vars
  BY <1>8 DEF TypeOK, vars
<1> QED
  BY <1>1, <1>2, <1>3, <1>4, <1>5, <1>6, <1>7, <1>8 DEF Next, Write, Rest

(* The table, the files and the commands are well-formed, for any types of *)
(* commands and any number of threads.                                     *)
THEOREM TypeCorrect == Spec => []TypeOK
<1>1. Init => TypeOK
  BY DEF Init, TypeOK, Empty, Store, Stored
<1> QED
  BY <1>1, TypeStep, PTL DEF Spec

-----------------------------------------------------------------------------
(* Durability, when one row is written at a time with PUT and DELETE.      *)

OneRowAtATime == Together = 1 /\ "CPUT" \notin Types

OneBusy == \A p, q \in Rows : stage[p] # "idle" /\ stage[q] # "idle" => p = q

PlainCommands ==
  /\ \A n \in 1 .. Len(log) : Plain(log[n])
  /\ \A r \in Rows : stage[r] # "idle" => cmd[r].row = r /\ Plain(cmd[r])

(* While a checkpoint is dumped, what has been dumped is what is stored,   *)
(* and the log that will be emptied has been carried out.                  *)
Dumping ==
  \A r \in Rows : stage[r] = "dump" =>
    /\ checkpoints # <<>>
    /\ \A x \in Rows \ todo : Last(checkpoints)[x] = kv[x]
    /\ Replayed(kv, log) = kv

(* Otherwise the files hold what is stored, with the logged command.       *)
OnDisk ==
  /\ \A r \in Rows : stage[r] = "execute" => Recovered = Execution(kv, cmd[r])
  /\ (\A r \in Rows : stage[r] \notin {"dump", "execute"}) => Recovered = kv

DiskInv == OneBusy /\ PlainCommands /\ Dumping /\ OnDisk

LEMMA SameFiles ==
  ASSUME UNCHANGED <<checkpoints, log>>
  PROVE  Recovered' = Recovered
BY DEF Recovered, Newest

LEMMA PlainLog ==
  ASSUME TypeOK, DiskInv
  PROVE  Replayed(Recovered, log) = Recovered
<1>1. log \in Seq(Command) /\ Newest \in Store
  BY RecoveredType DEF TypeOK
<1>2. \A n \in 1 .. Len(log) : Plain(log[n])
  BY DEF DiskInv, PlainCommands
<1> QED
  BY <1>1, <1>2, ReplayedTwice DEF Recovered

LEMMA ArriveDisk ==
  ASSUME TypeOK, OneRowAtATime, DiskInv, NEW r \in Rows, Arrive(r)
  PROVE  DiskInv'
<1>1. \A q \in Rows : stage[q] = "idle"
  <2> SUFFICES ASSUME NEW q \in Rows, stage[q] # "idle" PROVE FALSE
    OBVIOUS
  <2>1. Busy = {q}
    BY DEF Busy, DiskInv, OneBusy
  <2>2. Cardinality(Busy) = 1
    BY <2>1, FS_Singleton
  <2> QED
    BY <2>2 DEF Arrive, OneRowAtATime
<1>2. PICK c \in Command : c.type \in Types /\ c.row = r /\ cmd' = [cmd EXCEPT ![r] = c]
  BY DEF Arrive
<1>3. /\ stage' = [stage EXCEPT ![r] = "log"]
      /\ kv' = kv /\ log' = log /\ checkpoints' = checkpoints
  BY DEF Arrive
<1>4. \A q \in Rows : stage'[q] = IF q = r THEN "log" ELSE "idle"
  BY <1>1, <1>3 DEF TypeOK
<1>5. OneBusy'
  BY <1>4 DEF OneBusy
<1>6. PlainCommands'
  BY <1>2, <1>3, <1>4 DEF TypeOK, DiskInv, PlainCommands, Plain, OneRowAtATime
<1>7. Dumping'
  BY <1>4 DEF Dumping
<1>8. OnDisk'
  <2>1. Recovered = kv
    BY <1>1 DEF DiskInv, OnDisk
  <2>2. Recovered' = kv'
    BY <1>3, <2>1, SameFiles
  <2> QED
    BY <1>4, <2>2 DEF OnDisk
<1> QED
  BY <1>5, <1>6, <1>7, <1>8 DEF DiskInv

(* The steps of the thread that writes.                                    *)
LEMMA OnlyBusy ==
  ASSUME DiskInv, NEW r \in Rows, stage[r] # "idle"
  PROVE  \A q \in Rows \ {r} : stage[q] = "idle"
BY DEF DiskInv, OneBusy

LEMMA StartLoggingDisk ==
  ASSUME TypeOK, DiskInv, NEW r \in Rows, StartLogging(r)
  PROVE  DiskInv'
<1>1. stage[r] = "log" /\ \A q \in Rows \ {r} : stage[q] = "idle"
  BY OnlyBusy DEF StartLogging
<1>2. kv' = kv /\ cmd' = cmd /\ log' = log
  BY DEF StartLogging
<1>3. Recovered = kv
  BY <1>1 DEF DiskInv, OnDisk
<1>4. \/ stage' = [stage EXCEPT ![r] = "dump"] /\ todo' = Rows /\ checkpoints' = Append(checkpoints, Empty)
      \/ stage' = [stage EXCEPT ![r] = "append"] /\ checkpoints' = checkpoints
  BY DEF StartLogging
<1>5. \A q \in Rows \ {r} : stage'[q] = "idle"
  BY <1>1, <1>4 DEF TypeOK
<1>6. OneBusy'
  BY <1>5 DEF OneBusy
<1>7. PlainCommands'
  BY <1>1, <1>2, <1>5 DEF DiskInv, PlainCommands
<1>8. CASE stage'[r] = "dump"
  <2>1. todo' = Rows /\ checkpoints' = Append(checkpoints, Empty)
    BY <1>4, <1>8 DEF TypeOK
  <2>2. checkpoints' # <<>>
    BY <2>1 DEF TypeOK
  <2>3. Replayed(kv, log) = kv
    BY <1>3, PlainLog
  <2>4. Dumping'
    BY <1>2, <1>5, <2>1, <2>2, <2>3 DEF Dumping
  <2>5. OnDisk'
    BY <1>5, <1>8 DEF OnDisk
  <2> QED
    BY <1>6, <1>7, <2>4, <2>5 DEF DiskInv
<1>9. CASE stage'[r] # "dump"
  <2>1. stage'[r] = "append" /\ checkpoints' = checkpoints
    BY <1>4, <1>9 DEF TypeOK
  <2>2. Recovered' = kv'
    BY <1>2, <1>3, <2>1, SameFiles
  <2>3. Dumping'
    BY <1>5, <2>1 DEF Dumping
  <2>4. OnDisk'
    BY <1>5, <2>1, <2>2 DEF OnDisk
  <2> QED
    BY <1>6, <1>7, <2>3, <2>4 DEF DiskInv
<1> QED
  BY <1>8, <1>9

LEMMA DumpRowDisk ==
  ASSUME TypeOK, DiskInv, NEW r \in Rows, NEW x \in Rows, DumpRow(r, x)
  PROVE  DiskInv'
<1>1. stage[r] = "dump" /\ \A q \in Rows \ {r} : stage[q] = "idle"
  BY OnlyBusy DEF DumpRow
<1>2. kv' = kv /\ stage' = stage /\ cmd' = cmd /\ log' = log /\ todo' = todo \ {x}
  BY DEF DumpRow
<1>3. /\ checkpoints # <<>> /\ Replayed(kv, log) = kv
      /\ \A y \in Rows \ todo : Last(checkpoints)[y] = kv[y]
  BY <1>1 DEF DiskInv, Dumping
<1>4. checkpoints' # <<>> /\ Last(checkpoints') = [Last(checkpoints) EXCEPT ![x] = kv[x]]
  <2>1. checkpoints \in Seq(Store) /\ kv[x] \in Stored
    BY DEF TypeOK, Store
  <2>2. checkpoints' = [checkpoints EXCEPT ![Len(checkpoints)][x] = kv[x]]
    BY DEF DumpRow
  <2> QED
    BY <1>3, <2>1, <2>2, DumpedRow
<1>5. Last(checkpoints) \in Store
  BY <1>3, RecoveredType DEF Newest
<1>6. \A y \in Rows \ todo' : Last(checkpoints')[y] = kv[y]
  BY <1>2, <1>3, <1>4, <1>5 DEF Store
<1>7. Dumping'
  <2> SUFFICES checkpoints' # <<>> /\ (\A y \in Rows \ todo' : Last(checkpoints')[y] = kv'[y])
               /\ Replayed(kv', log') = kv'
    BY DEF Dumping
  <2> QED
    BY <1>2, <1>3, <1>4, <1>6
<1>8. OneBusy' /\ PlainCommands'
  BY <1>2 DEF DiskInv, OneBusy, PlainCommands
<1>9. OnDisk'
  BY <1>1, <1>2 DEF OnDisk
<1> QED
  BY <1>7, <1>8, <1>9 DEF DiskInv

(* The complete checkpoint holds what the emptied log said.                *)
LEMMA EmptyLogDisk ==
  ASSUME TypeOK, DiskInv, NEW r \in Rows, EmptyLog(r)
  PROVE  DiskInv'
<1>1. stage[r] = "dump" /\ \A q \in Rows \ {r} : stage[q] = "idle"
  BY OnlyBusy DEF EmptyLog
<1>2. /\ kv' = kv /\ cmd' = cmd /\ log' = <<>> /\ checkpoints' = checkpoints /\ todo = {}
      /\ stage' = [stage EXCEPT ![r] = "append"]
  BY DEF EmptyLog
<1>3. \A q \in Rows : stage'[q] = IF q = r THEN "append" ELSE "idle"
  BY <1>1, <1>2 DEF TypeOK
<1>4. checkpoints # <<>> /\ Last(checkpoints) = kv
  <2>1. checkpoints # <<>> /\ \A y \in Rows : Last(checkpoints)[y] = kv[y]
    BY <1>1, <1>2 DEF DiskInv, Dumping
  <2>2. Last(checkpoints) \in Store /\ kv \in Store
    BY <2>1, RecoveredType DEF Newest, TypeOK
  <2> QED
    BY <2>1, <2>2 DEF Store
<1>5. Recovered' = kv'
  <2>1. Recovered' = Replayed(Last(checkpoints), <<>>)
    BY <1>2, <1>4 DEF Recovered, Newest
  <2> QED
    BY <1>2, <1>4, <2>1, ReplayedEmpty DEF TypeOK
<1>6. OneBusy'
  BY <1>3 DEF OneBusy
<1>7. PlainCommands'
  BY <1>1, <1>2, <1>3 DEF DiskInv, PlainCommands
<1>8. Dumping' /\ OnDisk'
  BY <1>3, <1>5 DEF Dumping, OnDisk
<1> QED
  BY <1>6, <1>7, <1>8 DEF DiskInv

LEMMA AppendToLogDisk ==
  ASSUME TypeOK, DiskInv, NEW r \in Rows, AppendToLog(r)
  PROVE  DiskInv'
<1>1. stage[r] = "append" /\ \A q \in Rows \ {r} : stage[q] = "idle"
  BY OnlyBusy DEF AppendToLog
<1>2. /\ kv' = kv /\ cmd' = cmd /\ log' = Append(log, cmd[r]) /\ checkpoints' = checkpoints
      /\ stage' = [stage EXCEPT ![r] = "execute"]
  BY DEF AppendToLog
<1>3. \A q \in Rows : stage'[q] = IF q = r THEN "execute" ELSE "idle"
  BY <1>1, <1>2 DEF TypeOK
<1>4. cmd[r] \in Command /\ Plain(cmd[r]) /\ Deserialized(cmd[r]) = cmd[r]
  BY <1>1, PlainCommand DEF TypeOK, DiskInv, PlainCommands
<1>5. Recovered = kv
  BY <1>1 DEF DiskInv, OnDisk
<1>6. Recovered' = Execution(kv, cmd[r])
  <2>1. Recovered' = Replayed(Newest, Append(log, cmd[r]))
    BY <1>2 DEF Recovered, Newest
  <2>2. Newest \in Store /\ log \in Seq(Command)
    BY RecoveredType DEF TypeOK
  <2>3. Recovered' = Execution(Replayed(Newest, log), cmd[r])
    BY <1>4, <2>1, <2>2, ReplayedAppend
  <2> QED
    BY <1>5, <2>3 DEF Recovered
<1>7. OneBusy' /\ Dumping'
  BY <1>3 DEF OneBusy, Dumping
<1>8. PlainCommands'
  <2>1. log \in Seq(Command) /\ \A n \in 1 .. Len(log) : Plain(log[n])
    BY DEF TypeOK, DiskInv, PlainCommands
  <2>2. \A n \in 1 .. Len(log') : Plain(log'[n])
    BY <1>2, <1>4, <2>1
  <2> QED
    BY <1>1, <1>2, <1>3, <2>2 DEF DiskInv, PlainCommands
<1>9. OnDisk'
  BY <1>2, <1>3, <1>6 DEF OnDisk
<1> QED
  BY <1>7, <1>8, <1>9 DEF DiskInv

LEMMA ExecuteDisk ==
  ASSUME TypeOK, DiskInv, NEW r \in Rows, Execute(r)
  PROVE  DiskInv'
<1>1. stage[r] = "execute" /\ \A q \in Rows \ {r} : stage[q] = "idle"
  BY OnlyBusy DEF Execute
<1>2. /\ kv' = Execution(kv, cmd[r]) /\ log' = log /\ checkpoints' = checkpoints
      /\ stage' = [stage EXCEPT ![r] = "idle"]
  BY DEF Execute
<1>3. \A q \in Rows : stage'[q] = "idle"
  BY <1>1, <1>2 DEF TypeOK
<1>4. Recovered' = kv'
  <2>1. Recovered = Execution(kv, cmd[r])
    BY <1>1 DEF DiskInv, OnDisk
  <2> QED
    BY <1>2, <2>1, SameFiles
<1>5. OneBusy' /\ Dumping' /\ OnDisk'
  BY <1>3, <1>4 DEF OneBusy, Dumping, OnDisk
<1>6. PlainCommands'
  BY <1>2, <1>3 DEF DiskInv, PlainCommands
<1> QED
  BY <1>5, <1>6 DEF DiskInv

(* A restart stores what the files say, a partial checkpoint or not.       *)
LEMMA RestartDisk ==
  ASSUME DiskInv, Restart
  PROVE  DiskInv'
<1>1. \A q \in Rows : stage'[q] = "idle"
  BY DEF Restart
<1>2. Recovered' = kv'
  BY SameFiles DEF Restart
<1>3. OneBusy' /\ Dumping' /\ OnDisk'
  BY <1>1, <1>2 DEF OneBusy, Dumping, OnDisk
<1>4. PlainCommands'
  BY <1>1 DEF Restart, DiskInv, PlainCommands
<1> QED
  BY <1>3, <1>4 DEF DiskInv

LEMMA DiskInit == Init => DiskInv
<1> SUFFICES ASSUME Init PROVE DiskInv
  OBVIOUS
<1>1. \A q \in Rows : stage[q] = "idle"
  BY DEF Init
<1>2. Empty \in Store
  BY DEF Empty, Store, Stored
<1>3. Recovered = kv
  BY <1>2, ReplayedEmpty DEF Init, Recovered, Newest
<1>4. Len(log) = 0
  BY DEF Init
<1> QED
  BY <1>1, <1>3, <1>4 DEF DiskInv, OneBusy, PlainCommands, Dumping, OnDisk

LEMMA DiskStep ==
  OneRowAtATime => (TypeOK /\ DiskInv /\ [Next]_vars => DiskInv')
<1> SUFFICES ASSUME OneRowAtATime, TypeOK, DiskInv, [Next]_vars PROVE DiskInv'
  OBVIOUS
<1>1. ASSUME NEW r \in Rows, Write(r) PROVE DiskInv'
  BY <1>1, ArriveDisk, StartLoggingDisk, DumpRowDisk, EmptyLogDisk, AppendToLogDisk, ExecuteDisk
  DEF Write
<1>2. CASE UNCHANGED vars
  <2>1. Recovered' = Recovered
    BY <1>2, SameFiles DEF vars
  <2> QED
    BY <1>2, <2>1 DEF vars, DiskInv, OneBusy, PlainCommands, Dumping, OnDisk
<1> QED
  BY <1>1, <1>2, RestartDisk DEF Next, Rest

(* The inductive invariant: the files hold what is stored and at most the  *)
(* command that has been logged and not executed, except while the rows    *)
(* are dumped; then the log says nothing that is not stored.               *)
THEOREM DiskInvariant == OneRowAtATime => (Spec => []DiskInv)
<1> SUFFICES ASSUME OneRowAtATime PROVE Spec => []DiskInv
  OBVIOUS
<1>1. TypeOK /\ DiskInv /\ [Next]_vars => DiskInv'
  BY DiskStep
<1> QED
  BY DiskInit, <1>1, TypeCorrect, PTL DEF Spec

(* README.md:34, with one row written at a time and no CPUT: whatever has  *)
(* been answered is what a restart reads from the files.                   *)
THEOREM PersistsWhenIdleHolds == OneRowAtATime => (Spec => []PersistsWhenIdle)
<1>1. DiskInv => PersistsWhenIdle
  BY DEF DiskInv, OnDisk, PersistsWhenIdle, Busy
<1> QED
  BY <1>1, DiskInvariant, PTL

LEMMA CrashSafeOfDisk == ASSUME TypeOK, DiskInv PROVE CrashSafe
<1> SUFFICES ASSUME \A r \in Rows : stage[r] # "dump" \/ todo = {}, NEW r \in Rows
             PROVE  \/ Recovered[r] = kv[r]
                    \/ cmd[r] # None /\ Recovered[r] = Execution(kv, cmd[r])[r]
  BY DEF CrashSafe
<1>1. CASE \E q \in Rows : stage[q] = "execute"
  <2>1. PICK q \in Rows : stage[q] = "execute"
    BY <1>1
  <2>2. Recovered = Execution(kv, cmd[q]) /\ cmd[q] \in Command /\ cmd[q].row = q
    BY <2>1 DEF DiskInv, OnDisk, PlainCommands, TypeOK
  <2>3. CASE r = q
    BY <2>2, <2>3
  <2>4. CASE r # q
    <3>1. cmd[q].type \in {"PUT", "DELETE"}
      BY <2>1, PlainCommand DEF DiskInv, PlainCommands, TypeOK
    <3>2. Execution(kv, cmd[q])[r] = kv[r]
      BY <2>2, <2>4, <3>1, ExecutionCases DEF TypeOK, Store
    <3> QED
      BY <2>2, <3>2
  <2> QED
    BY <2>3, <2>4
<1>2. CASE \E q \in Rows : stage[q] = "dump"
  <2>1. PICK q \in Rows : stage[q] = "dump"
    BY <1>2
  <2>2. /\ checkpoints # <<>> /\ Replayed(kv, log) = kv
        /\ \A y \in Rows : Last(checkpoints)[y] = kv[y]
    BY <2>1 DEF DiskInv, Dumping
  <2>3. Last(checkpoints) = kv
    <3>1. Last(checkpoints) \in Store /\ kv \in Store
      BY <2>2, RecoveredType DEF Newest, TypeOK
    <3> QED
      BY <2>2, <3>1 DEF Store
  <2>4. Recovered = kv
    BY <2>2, <2>3 DEF Recovered, Newest
  <2> QED
    BY <2>4
<1>3. CASE \A q \in Rows : stage[q] \notin {"dump", "execute"}
  BY <1>3 DEF DiskInv, OnDisk
<1> QED
  BY <1>1, <1>2, <1>3

(* A crash outside the dump of the rows loses no executed command.         *)
THEOREM CrashSafeHolds == OneRowAtATime => (Spec => []CrashSafe)
BY CrashSafeOfDisk, DiskInvariant, TypeCorrect, PTL
=============================================================================
