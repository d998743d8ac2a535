----------------------- MODULE MasterServerProofs -----------------------
(***************************************************************************)
(* What is proved of MasterServer for every set of servers, tablets and    *)
(* calls: the variables keep their types, and TableInv is inductive, so a  *)
(* tablet has exactly one primary whenever no thread is reassigning and no *)
(* storage server is ever pushed a table from inside a reassignment; and,  *)
(* once the calls are over, a tablet's primary is alive and every server   *)
(* that is ready has the master's table.                                   *)
(***************************************************************************)
EXTENDS MasterServer, TLAPS

USE ReplicaAssumption, NoneAssumption, BoundAssumption

(* The definitions that say what a variable group is.                      *)
USE DEF vars, masterVars, lockVars, serverVars

-----------------------------------------------------------------------------
(* What the master draws its choices from.                                 *)
LEMMA Choices ==
  /\ \A s : TabletsOf(s) \subseteq Tablets
  /\ \A t \in Tablets : ReplicasOf[t] \subseteq Servers
  /\ \A t \in Tablets : \A s : DownOptions(t, s) \subseteq ReplicasOf[t]
  /\ \A t \in Tablets : UpOptions(t) \subseteq ReplicasOf[t]
BY DEF TabletsOf, DownOptions, UpOptions

LEMMA IdleType == IdleCall \in CallType /\ IdleCall.stage = "idle"
BY DEF IdleCall, CallType, Stages

LEMMA NewCallType ==
  ASSUME NEW k \in {"plain", "up", "down"}, NEW about \in Servers \cup {None},
         NEW from \in Servers, NEW wakes \in Servers \cup {None}
  PROVE  /\ NewCall(k, about, from, wakes) \in CallType
         /\ NewCall(k, about, from, wakes).stage = "begin"
         /\ NewCall(k, about, from, wakes).kind = k
         /\ NewCall(k, about, from, wakes).about = about
         /\ NewCall(k, about, from, wakes).from = from
BY DEF NewCall, CallType, Stages

(* The part of TypeOK that is about calls.                                 *)
CallOK(r) == /\ r \in CallType
             /\ r.stage # "idle" => r.from \in Servers /\ (r.kind # "plain" => r.about \in Servers)

LEMMA CallsTyped == TypeOK <=>
  /\ primary \in [Tablets -> SUBSET Servers]
  /\ replica_alive \in [Servers -> BOOLEAN]
  /\ replica_initial_startup \in [Servers -> BOOLEAN]
  /\ writer \in Calls \cup {None} /\ readers \subseteq Calls
  /\ call \in [Calls -> CallType] /\ \A c \in Calls : CallOK(call[c])
  /\ terminated \in BOOLEAN
  /\ up \in [Servers -> BOOLEAN]
  /\ boot \in [Servers -> {"off", "ask", "first", "firstWait", "again", "againWait",
                           "sync", "upWait", "ready", "killed"}]
  /\ booting \in [Servers -> BOOLEAN]
  /\ view \in [Servers -> [Tablets -> SUBSET Servers]]
  /\ crashes \in Nat
BY DEF TypeOK, CallOK

(* A step that changes one call.                                           *)
LEMMA OneCallChanges ==
  ASSUME call \in [Calls -> CallType], \A d \in Calls : CallOK(call[d]),
         NEW c \in Calls, NEW r, CallOK(r), call' = [call EXCEPT ![c] = r]
  PROVE  call' \in [Calls -> CallType] /\ \A d \in Calls : CallOK(call'[d])
BY DEF CallOK

(* The ways the thread of a call moves on.                                 *)
LEMMA Moves ==
  ASSUME call \in [Calls -> CallType], \A d \in Calls : CallOK(call[d]),
         NEW c \in Calls, call[c].stage # "idle",
         NEW stage \in Stages, NEW todo \in SUBSET Tablets, NEW to \in SUBSET Servers,
         \/ call' = [call EXCEPT ![c].stage = stage]
         \/ call' = [call EXCEPT ![c].stage = stage, ![c].to = to]
         \/ call' = [call EXCEPT ![c].todo = todo, ![c].stage = stage]
         \/ call' = [call EXCEPT ![c].todo = todo]
         \/ call' = [call EXCEPT ![c].to = to]
  PROVE  call' \in [Calls -> CallType] /\ \A d \in Calls : CallOK(call'[d])
<1> DEFINE r == call'[c]
<1>1. \A d \in Calls \ {c} : call'[d] = call[d]
  OBVIOUS
<1>2. /\ call[c] \in CallType
      /\ call[c].from \in Servers
      /\ call[c].kind # "plain" => call[c].about \in Servers
  BY DEF CallOK
<1>3. call'[c] \in CallType
  BY <1>2 DEF CallType
<1>4. call'[c].from = call[c].from /\ call'[c].kind = call[c].kind /\ call'[c].about = call[c].about
  BY <1>2 DEF CallType
<1>5. CallOK(call'[c])
  BY <1>2, <1>3, <1>4 DEF CallOK
<1>6. call' = [d \in Calls |-> call'[d]]
  OBVIOUS
<1> QED
  BY <1>1, <1>3, <1>5, <1>6

LEMMA Goes ==
  ASSUME call \in [Calls -> CallType], \A d \in Calls : CallOK(call[d]),
         NEW c \in Calls, call[c].stage # "idle", NEW stage \in Stages, NEW to \in SUBSET Servers,
         GoTo(c, stage) \/ SendTo(c, to)
  PROVE  call' \in [Calls -> CallType] /\ \A d \in Calls : CallOK(call'[d])
<1>1. CASE GoTo(c, stage)
  BY <1>1, Moves DEF GoTo
<1>2. CASE SendTo(c, to)
  <2>1. "send" \in Stages
    BY DEF Stages
  <2> QED
    BY <1>2, <2>1, Moves DEF SendTo
<1> QED
  BY <1>1, <1>2

-----------------------------------------------------------------------------
(* Every variable keeps its type, whatever the threads of the master and   *)
(* the storage servers do (master_server.cc:275-388).                      *)
LEMMA TypeInit == Init => TypeOK
<1> SUFFICES ASSUME Init PROVE TypeOK
  OBVIOUS
<1>1. \A c \in Calls : call[c] = IdleCall
  BY DEF Init
<1>2. primary \in [Tablets -> SUBSET Servers]
  BY DEF Init
<1> QED
  BY <1>1, <1>2, IdleType DEF Init, TypeOK

LEMMA TypeServers ==
  ASSUME TypeOK, NEW s \in Servers,
         Start(s) \/ IsInitialStorageServerStartup(s) \/ KillServer(s) \/ ReviveServer(s)
  PROVE  TypeOK'
<1>1. CASE Start(s)
  BY <1>1 DEF Start, TypeOK
<1>2. CASE IsInitialStorageServerStartup(s)
  BY <1>2 DEF IsInitialStorageServerStartup, TypeOK
<1>3. CASE KillServer(s)
  BY <1>3 DEF KillServer, TypeOK
<1>4. CASE ReviveServer(s)
  BY <1>4 DEF ReviveServer, TypeOK
<1> QED
  BY <1>1, <1>2, <1>3, <1>4

LEMMA TypeCrash == ASSUME TypeOK, NEW s \in Servers, Crash(s) PROVE TypeOK'
<1>1. ASSUME NEW c \in Calls PROVE CallOK(call'[c])
  <2>1. CallOK(call[c])
    BY DEF TypeOK, CallOK
  <2>2. CallOK([call[c] EXCEPT !.wakes = None])
    BY <2>1 DEF CallOK, CallType
  <2> QED
    BY <2>1, <2>2 DEF Crash
<1>2. call' \in [Calls -> CallType]
  BY <1>1 DEF Crash, CallOK
<1> QED
  BY <1>1, <1>2 DEF Crash, TypeOK, CallOK

LEMMA TypeNewCall ==
  ASSUME TypeOK, NEW s \in Servers, NEW p \in Servers, NEW c \in Calls,
         BootCall(s, c) \/ Report(s, p, c)
  PROVE  TypeOK'
<1> USE CallsTyped
<1>1. \E k \in {"plain", "up", "down"}, about \in Servers \cup {None}, wakes \in Servers \cup {None} :
        /\ call' = [call EXCEPT ![c] = NewCall(k, about, s, wakes)]
        /\ k # "plain" => about \in Servers
  BY DEF BootCall, Report
<1>2. PICK k \in {"plain", "up", "down"}, about \in Servers \cup {None}, wakes \in Servers \cup {None} :
        /\ call' = [call EXCEPT ![c] = NewCall(k, about, s, wakes)]
        /\ k # "plain" => about \in Servers
  BY <1>1
<1>3. CallOK(NewCall(k, about, s, wakes))
  <2> DEFINE r == NewCall(k, about, s, wakes)
  <2>1. r \in CallType /\ r.stage = "begin" /\ r.kind = k /\ r.about = about /\ r.from = s
    BY NewCallType
  <2> QED
    BY <1>2, <2>1 DEF CallOK
<1>4. call' \in [Calls -> CallType] /\ \A d \in Calls : CallOK(call'[d])
  BY <1>2, <1>3, OneCallChanges
<1>5. boot' \in [Servers -> {"off", "ask", "first", "firstWait", "again", "againWait",
                             "sync", "upWait", "ready", "killed"}]
  BY DEF BootCall, Report, TypeOK
<1> QED
  BY <1>4, <1>5 DEF BootCall, Report, TypeOK, CallOK

(* A step of a thread changes its own call, the flags and the table.       *)
LEMMA TypeServe == ASSUME TypeOK, NEW c \in Calls, Serve(c) PROVE TypeOK'
<1> USE CallsTyped
<1>0. call[c].stage \in Stages /\ CallOK(call[c])
  BY DEF CallType, CallOK
<1>1. CASE GetTabletsForServer(c)
  <2>1. call[c].stage # "idle" /\ call[c].from \in Servers
    BY <1>1, <1>0 DEF GetTabletsForServer, At, CallOK
  <2>2. call' \in [Calls -> CallType] /\ \A d \in Calls : CallOK(call'[d])
    <3>1. \/ GoTo(c, "upCheck") \/ GoTo(c, "downCheck") \/ SendTo(c, {call[c].from})
      BY <1>1 DEF GetTabletsForServer
    <3>2. {"upCheck", "downCheck"} \subseteq Stages
      BY DEF Stages
    <3>3. {call[c].from} \in SUBSET Servers
      BY <2>1
    <3>4. CASE SendTo(c, {call[c].from})
      BY <2>1, <3>3, <3>4, <3>2, Goes
    <3> QED
      BY <2>1, <3>1, <3>2, <3>3, <3>4, Goes
  <2> QED
    BY <1>1, <2>2 DEF GetTabletsForServer, TypeOK, CallOK
<1>2. CASE DownCheck(c) \/ UpCheck(c)
  <2>1. call' \in [Calls -> CallType] /\ \A d \in Calls : CallOK(call'[d])
    <3>1. GoTo(c, "downSet") \/ GoTo(c, "upLock") \/ SendTo(c, Servers)
      BY <1>2 DEF DownCheck, UpCheck
    <3>2. {"downSet", "upLock"} \subseteq Stages
      BY DEF Stages
    <3>3. call[c].stage # "idle"
      BY <1>2 DEF DownCheck, UpCheck, At
    <3> QED
      BY <3>1, <3>2, <3>3, Goes
  <2> QED
    BY <1>2, <2>1 DEF DownCheck, UpCheck, TypeOK, CallOK
<1>3. CASE DownSet(c)
  <2>1. call' \in [Calls -> CallType] /\ \A d \in Calls : CallOK(call'[d])
    BY <1>3, Goes DEF DownSet, At, Stages
  <2> QED
    BY <1>3, <2>1 DEF DownSet, TypeOK, CallOK
<1>4. CASE LockExclusive(c)
  <2>1. call' \in [Calls -> CallType] /\ \A d \in Calls : CallOK(call'[d])
    <3> DEFINE next == IF call[c].stage = "downLock" THEN "downAssign" ELSE "upAssign"
               todo == TabletsOf(call[c].about)
    <3>1. next \in Stages /\ todo \in SUBSET Tablets /\ call[c].stage # "idle"
      BY <1>4, Choices DEF Stages, LockExclusive, At
    <3>2. call' = [call EXCEPT ![c].todo = todo, ![c].stage = next]
      BY <1>4, <1>0 DEF LockExclusive, CallType
    <3> HIDE DEF next, todo
    <3> QED
      BY <3>1, <3>2, Moves
  <2> QED
    BY <1>4, <2>1 DEF LockExclusive, TypeOK, CallOK
<1>5. ASSUME NEW t \in Tablets, DownAssign(c, t) \/ UpSet(c, t) PROVE TypeOK'
  <2>1. call' \in [Calls -> CallType] /\ \A d \in Calls : CallOK(call'[d])
    <3> DEFINE todo == call[c].todo \ {t}
    <3>1. call' = [call EXCEPT ![c].todo = todo] /\ call[c].stage # "idle"
      BY <1>5, <1>0 DEF DownAssign, UpSet, At, CallType
    <3>2. todo \in SUBSET Tablets
      BY <1>0 DEF CallOK, CallType
    <3> HIDE DEF todo
    <3> QED
      BY <1>0, <3>1, <3>2, Moves
  <2>2. primary' \in [Tablets -> SUBSET Servers]
    <3>1. primary \in [Tablets -> SUBSET Servers] /\ primary[t] \in SUBSET Servers
      OBVIOUS
    <3>2. \/ UNCHANGED primary
          \/ \E s \in Servers : \E d : primary' = [primary EXCEPT ![t] = (@ \ {d}) \cup {s}]
          \/ \E s \in Servers : primary' = [primary EXCEPT ![t] = {s}]
      BY <1>5, Choices DEF DownAssign, UpSet
    <3>3. ASSUME NEW s \in Servers, NEW d PROVE
            [primary EXCEPT ![t] = (@ \ {d}) \cup {s}] \in [Tablets -> SUBSET Servers]
      <4> DEFINE flags == (primary[t] \ {d}) \cup {s}
      <4>1. flags \in SUBSET Servers
        BY <3>1
      <4> QED
        BY <3>1, <4>1
    <3>4. ASSUME NEW s \in Servers PROVE
            [primary EXCEPT ![t] = {s}] \in [Tablets -> SUBSET Servers]
      BY <3>1
    <3>5. ASSUME NEW s \in Servers, NEW d, primary' = [primary EXCEPT ![t] = (@ \ {d}) \cup {s}]
          PROVE  primary' \in [Tablets -> SUBSET Servers]
      BY <3>3, <3>5
    <3>6. ASSUME NEW s \in Servers, primary' = [primary EXCEPT ![t] = {s}]
          PROVE  primary' \in [Tablets -> SUBSET Servers]
      BY <3>4, <3>6
    <3>7. UNCHANGED primary => primary' \in [Tablets -> SUBSET Servers]
      BY <3>1
    <3> QED
      BY <3>2, <3>5, <3>6, <3>7
  <2> QED
    BY <1>5, <2>1, <2>2 DEF DownAssign, UpSet, TypeOK, CallOK
<1>6. ASSUME NEW t \in Tablets, UpClear(c, t) PROVE TypeOK'
  BY <1>6 DEF UpClear, TypeOK, CallOK
<1>7. CASE Unlock(c)
  <2>1. call' \in [Calls -> CallType] /\ \A d \in Calls : CallOK(call'[d])
    BY <1>7, <1>0, Goes DEF Unlock, At
  <2> QED
    BY <1>7, <2>1 DEF Unlock, TypeOK, CallOK
<1>8. CASE LockShared(c) \/ UnlockShared(c)
  <2>1. call' \in [Calls -> CallType] /\ \A d \in Calls : CallOK(call'[d])
    BY <1>8, Goes DEF LockShared, UnlockShared, At, Stages
  <2> QED
    BY <1>8, <2>1 DEF LockShared, UnlockShared, TypeOK, CallOK
<1>9. ASSUME NEW s \in Servers, Push(c, s) PROVE TypeOK'
  <2>1. call' \in [Calls -> CallType] /\ \A d \in Calls : CallOK(call'[d])
    <3> DEFINE to == call[c].to \ {s}
    <3>1. call' = [call EXCEPT ![c].to = to] /\ call[c].stage # "idle"
      BY <1>9, <1>0 DEF Push, At, CallType
    <3>2. to \in SUBSET Servers
      BY <1>0 DEF CallOK, CallType
    <3> HIDE DEF to
    <3> QED
      BY <1>0, <3>1, <3>2, Moves
  <2>2. Table(s) \in [Tablets -> SUBSET Servers]
    BY DEF Table, TypeOK
  <2>3. view' \in [Servers -> [Tablets -> SUBSET Servers]]
    BY <1>9, <2>2 DEF Push, TypeOK
  <2> QED
    BY <1>9, <2>1, <2>3 DEF Push, TypeOK, CallOK
<1>10. CASE Return(c)
  <2>1. CallOK(IdleCall)
    BY IdleType DEF CallOK
  <2>2. call' \in [Calls -> CallType] /\ \A d \in Calls : CallOK(call'[d])
    BY <1>10, <2>1, OneCallChanges DEF Return
  <2>3. boot' \in [Servers -> {"off", "ask", "first", "firstWait", "again", "againWait",
                               "sync", "upWait", "ready", "killed"}]
    BY <1>10 DEF Return, AfterReturn, TypeOK
  <2>4. booting' \in [Servers -> BOOLEAN]
    BY <1>10 DEF Return, TypeOK
  <2> QED
    BY <1>10, <2>2, <2>3, <2>4 DEF Return, TypeOK, CallOK
<1> QED
  BY <1>1, <1>2, <1>3, <1>4, <1>5, <1>6, <1>7, <1>8, <1>9, <1>10 DEF Serve

LEMMA TypeStep == TypeOK /\ [Next]_vars => TypeOK'
<1> SUFFICES ASSUME TypeOK, [Next]_vars PROVE TypeOK'
  OBVIOUS
<1>1. CASE Environment
  BY <1>1, TypeServers, TypeCrash, TypeNewCall DEF Environment
<1>2. ASSUME NEW c \in Calls, Serve(c) PROVE TypeOK'
  BY <1>2, TypeServe
<1>3. CASE UNCHANGED vars
  BY <1>3 DEF TypeOK
<1> QED
  BY <1>1, <1>2, <1>3 DEF Next, Rest

THEOREM MasterTypeCorrect == Spec => []TypeOK
<1> QED
  BY TypeInit, TypeStep, PTL DEF Spec

-----------------------------------------------------------------------------
(* One primary per tablet, in the master and in every pushed table.        *)
LEMMA TableInit == Init => TableInv
<1> SUFFICES ASSUME Init PROVE TableInv
  OBVIOUS
<1>1. \A c \in Calls : call[c].stage = "idle"
  BY IdleType DEF Init
<1>2. LockHeld /\ ReadersExcludeWriter
  BY <1>1 DEF Init, LockHeld, ReadersExcludeWriter
<1>3. \A t \in Tablets : OnePrimary(t, primary[t])
  BY DEF Init, OnePrimary
<1>4. ViewHasOnePrimary
  BY Choices DEF Init, ViewHasOnePrimary
<1> QED
  BY <1>2, <1>3, <1>4 DEF TableInv, PrimaryOrReassigned

Holding == {"downAssign", "upAssign", "pushing"}

(* A thread that holds no lock before or after its step disturbs nothing.  *)
LEMMA NotHolding ==
  ASSUME TableInv, NEW c \in Calls, \A d \in Calls \ {c} : call'[d] = call[d],
         call[c].stage \notin Holding, call'[c].stage \notin Holding,
         UNCHANGED <<primary, terminated, writer, readers, view>>
  PROVE  TableInv'
<1>1. LockHeld' /\ ReadersExcludeWriter'
  BY DEF TableInv, LockHeld, ReadersExcludeWriter, Holding
<1>2. ViewHasOnePrimary'
  BY DEF TableInv, ViewHasOnePrimary, OnePrimary
<1>3. ASSUME NEW t \in Tablets, BeingReassigned(t) PROVE BeingReassigned(t)'
  BY <1>3 DEF BeingReassigned, Holding
<1>4. PrimaryOrReassigned'
  BY <1>3 DEF TableInv, PrimaryOrReassigned, OnePrimary
<1> QED
  BY <1>1, <1>2, <1>4 DEF TableInv

(* Nor does a step that leaves the calls, the locks and the flags alone.   *)
LEMMA SameCalls ==
  ASSUME TableInv, \A d \in Calls : call'[d].stage = call[d].stage /\ call'[d].todo = call[d].todo,
         UNCHANGED <<primary, terminated, writer, readers>>, ViewHasOnePrimary'
  PROVE  TableInv'
<1>1. LockHeld' /\ ReadersExcludeWriter'
  BY DEF TableInv, LockHeld, ReadersExcludeWriter
<1>2. ASSUME NEW t \in Tablets, BeingReassigned(t) PROVE BeingReassigned(t)'
  BY <1>2 DEF BeingReassigned
<1>3. PrimaryOrReassigned'
  BY <1>2 DEF TableInv, PrimaryOrReassigned, OnePrimary
<1> QED
  BY <1>1, <1>3 DEF TableInv

LEMMA SameView == ASSUME ViewHasOnePrimary, UNCHANGED view PROVE ViewHasOnePrimary'
BY DEF ViewHasOnePrimary, OnePrimary

LEMMA TableEnvironment ==
  ASSUME TypeOK, TableInv, Environment PROVE TableInv'
<1>1. ASSUME NEW s \in Servers, Start(s) PROVE TableInv'
  <2>1. \A u \in Servers, t \in Tablets : view'[u][t] = IF u = s THEN {} ELSE view[u][t]
    BY <1>1 DEF Start, TypeOK
  <2>2. ViewHasOnePrimary'
    BY <2>1, Choices DEF TableInv, ViewHasOnePrimary, OnePrimary
  <2> QED
    BY <1>1, <2>2, SameCalls DEF Start
<1>2. ASSUME NEW s \in Servers,
             IsInitialStorageServerStartup(s) \/ KillServer(s) \/ ReviveServer(s)
      PROVE  TableInv'
  BY <1>2, SameCalls, SameView
  DEF IsInitialStorageServerStartup, KillServer, ReviveServer, TableInv
<1>3. ASSUME NEW s \in Servers, Crash(s) PROVE TableInv'
  <2>1. \A d \in Calls : call'[d].stage = call[d].stage /\ call'[d].todo = call[d].todo
    BY <1>3 DEF Crash, TypeOK, CallType
  <2> QED
    BY <1>3, <2>1, SameCalls, SameView DEF Crash, TableInv
<1>4. ASSUME NEW s \in Servers, NEW p \in Servers, NEW c \in Calls, BootCall(s, c) \/ Report(s, p, c)
      PROVE  TableInv'
  <2>1. call[c].stage = "idle" /\ call'[c].stage = "begin" /\ \A d \in Calls \ {c} : call'[d] = call[d]
    BY <1>4 DEF BootCall, Report, At, NewCall, TypeOK
  <2>2. UNCHANGED <<primary, terminated, writer, readers, view>>
    BY <1>4 DEF BootCall, Report
  <2> QED
    BY <2>1, <2>2, NotHolding DEF Holding
<1> QED
  BY <1>1, <1>2, <1>3, <1>4 DEF Environment

LEMMA TableServe ==
  ASSUME TypeOK, TableInv, NEW c \in Calls, Serve(c) PROVE TableInv'
<1>0. call \in [Calls -> CallType] /\ call[c] \in CallType
  BY DEF TypeOK
<1>lock. /\ call[c].stage \in {"downAssign", "upAssign"} <=> writer = c
         /\ call[c].stage = "pushing" <=> c \in readers
  BY DEF TableInv, LockHeld
<1>some. c # None
  OBVIOUS
<1>free. call[c].stage \in {"send", "pushing"} /\ (call[c].stage = "send" => writer = None) => writer = None
  BY <1>lock, <1>some DEF TableInv, ReadersExcludeWriter, TypeOK
<1>1. CASE GetTabletsForServer(c) \/ DownCheck(c) \/ DownSet(c)
           \/ UpCheck(c) \/ Return(c)
  <2>1. call[c].stage \notin Holding
    BY <1>1 DEF GetTabletsForServer, DownCheck, DownSet, UpCheck, Return, At, Holding
  <2>2. call'[c].stage \notin Holding /\ \A d \in Calls \ {c} : call'[d] = call[d]
    BY <1>0, <1>1, IdleType
    DEF GetTabletsForServer, DownCheck, DownSet, UpCheck, Return,
        GoTo, SendTo, Holding, CallType
  <2>3. UNCHANGED <<primary, terminated, writer, readers, view>>
    BY <1>1 DEF GetTabletsForServer, DownCheck, DownSet, UpCheck, Return
  <2> QED
    BY <2>1, <2>2, <2>3, NotHolding
<1>2. CASE LockExclusive(c)
  <2>1. /\ call'[c].stage \in {"downAssign", "upAssign"} /\ writer' = c
        /\ writer = None /\ readers = {} /\ readers' = readers
        /\ \A d \in Calls \ {c} : call'[d] = call[d]
    BY <1>0, <1>2 DEF LockExclusive, At, CallType
  <2>2. LockHeld' /\ ReadersExcludeWriter'
    BY <2>1 DEF TableInv, LockHeld, ReadersExcludeWriter
  <2>3. \A t \in Tablets : ~ BeingReassigned(t)
    BY <2>1 DEF BeingReassigned
  <2>4. PrimaryOrReassigned'
    BY <1>2, <2>3 DEF LockExclusive, TableInv, PrimaryOrReassigned, OnePrimary
  <2> QED
    BY <1>2, <2>2, <2>4, SameView DEF LockExclusive, TableInv
<1>3. ASSUME NEW t \in Tablets, DownAssign(c, t) \/ UpSet(c, t) \/ UpClear(c, t) PROVE TableInv'
  <2>1. /\ writer = c /\ writer' = c /\ call[c].stage \in {"downAssign", "upAssign"}
        /\ readers' = readers /\ view' = view
    <3>1. call[c].stage \in {"downAssign", "upAssign"}
      BY <1>3 DEF DownAssign, UpSet, UpClear, At
    <3> QED
      BY <1>3, <1>lock, <3>1 DEF DownAssign, UpSet, UpClear
  <2>2. /\ call'[c].stage = call[c].stage
        /\ call'[c].todo = IF UpClear(c, t) THEN call[c].todo ELSE call[c].todo \ {t}
        /\ \A d \in Calls \ {c} : call'[d] = call[d]
    <3>1. CASE UpClear(c, t)
      BY <3>1 DEF UpClear
    <3>2. CASE call' = [call EXCEPT ![c].todo = @ \ {t}] /\ ~ UpClear(c, t)
      BY <1>0, <3>2 DEF CallType
    <3>3. (DownAssign(c, t) \/ UpSet(c, t)) => ~ UpClear(c, t)
      BY DEF DownAssign, UpSet, UpClear, At
    <3> QED
      BY <1>3, <3>1, <3>2, <3>3 DEF DownAssign, UpSet
  <2>3. LockHeld' /\ ReadersExcludeWriter'
    BY <2>1, <2>2 DEF TableInv, LockHeld, ReadersExcludeWriter
  <2>4. ASSUME ~ terminated', NEW u \in Tablets
        PROVE  OnePrimary(u, primary'[u]) \/ BeingReassigned(u)'
    <3>1. OnePrimary(u, primary[u]) \/ BeingReassigned(u)
      BY <1>3, <2>4 DEF TableInv, PrimaryOrReassigned, DownAssign, UpSet, UpClear, At
    <3>2. CASE u # t
      <4>1. primary'[u] = primary[u]
        BY <1>3, <3>2 DEF DownAssign, UpSet, UpClear, TypeOK
      <4>2. BeingReassigned(u) => BeingReassigned(u)'
        BY <2>1, <2>2, <3>2, <4>1 DEF BeingReassigned
      <4> QED
        BY <3>1, <4>1, <4>2
    <3>3. CASE u = t /\ UpClear(c, t)
      BY <2>1, <2>2, <3>3 DEF UpClear, At, BeingReassigned, TypeOK
    <3>4. CASE u = t /\ UpSet(c, t)
      BY <2>4, <3>4, Choices DEF UpSet, OnePrimary, TypeOK
    <3>5. CASE u = t /\ DownAssign(c, t)
      <4>1. OnePrimary(t, primary[t])
        BY <2>1, <3>1, <3>5 DEF BeingReassigned, DownAssign, At
      <4>2. \/ primary'[t] = primary[t]
            \/ \E s \in ReplicasOf[t] : primary'[t] = (primary[t] \ {call[c].about}) \cup {s} /\ call[c].about \in primary[t]
        BY <2>4, <3>5, Choices DEF DownAssign, TypeOK
      <4>3. OnePrimary(t, primary'[t])
        BY <4>1, <4>2 DEF OnePrimary
      <4> QED
        BY <3>5, <4>3
    <3> QED
      BY <1>3, <3>2, <3>3, <3>4, <3>5
  <2>5. PrimaryOrReassigned'
    BY <2>4 DEF PrimaryOrReassigned
  <2> QED
    BY <2>1, <2>3, <2>5, SameView DEF TableInv
<1>4. CASE Unlock(c)
  <2>1. /\ writer = c /\ writer' = None /\ readers' = readers /\ call'[c].stage = "send"
        /\ call[c].todo = {} /\ \A d \in Calls \ {c} : call'[d] = call[d]
    <3>1. call' = [call EXCEPT ![c].stage = "send", ![c].to = Servers]
      BY <1>4 DEF Unlock, SendTo
    <3>2. call'[c].stage = "send" /\ \A d \in Calls \ {c} : call'[d] = call[d]
      BY <1>0, <3>1 DEF CallType
    <3>3. call[c].stage \in {"downAssign", "upAssign"}
      BY <1>4 DEF Unlock, At
    <3> QED
      BY <1>4, <1>lock, <3>2, <3>3 DEF Unlock
  <2>2. LockHeld' /\ ReadersExcludeWriter'
    BY <2>1 DEF TableInv, LockHeld, ReadersExcludeWriter
  <2>3. \A t \in Tablets : ~ BeingReassigned(t)
    BY <2>1 DEF BeingReassigned
  <2>4. PrimaryOrReassigned'
    BY <1>4, <2>3 DEF Unlock, TableInv, PrimaryOrReassigned, OnePrimary
  <2> QED
    BY <1>4, <2>2, <2>4, SameView DEF Unlock, TableInv
<1>5. CASE LockShared(c) \/ UnlockShared(c)
  <2>1. /\ writer = None /\ writer' = None
        /\ LockShared(c) => call'[c].stage = "pushing" /\ readers' = readers \cup {c}
        /\ UnlockShared(c) => call'[c].stage = "done" /\ readers' = readers \ {c}
        /\ \A d \in Calls \ {c} : call'[d] = call[d]
    <3>1. call[c].stage \in {"send", "pushing"} /\ (call[c].stage = "send" => writer = None) /\ writer' = writer
      BY <1>5 DEF LockShared, UnlockShared, At
    <3>2. CASE LockShared(c)
      <4>1. readers' = readers \cup {c} /\ call' = [call EXCEPT ![c].stage = "pushing"] /\ ~ UnlockShared(c)
        BY <3>2 DEF LockShared, UnlockShared, GoTo, At
      <4>2. call'[c].stage = "pushing" /\ \A d \in Calls \ {c} : call'[d] = call[d]
        BY <1>0, <4>1 DEF CallType
      <4> QED
        BY <3>1, <1>free, <4>1, <4>2
    <3>3. CASE UnlockShared(c)
      <4>1. readers' = readers \ {c} /\ call' = [call EXCEPT ![c].stage = "done"] /\ ~ LockShared(c)
        BY <3>3 DEF LockShared, UnlockShared, GoTo, At
      <4>2. call'[c].stage = "done" /\ \A d \in Calls \ {c} : call'[d] = call[d]
        BY <1>0, <4>1 DEF CallType
      <4> QED
        BY <3>1, <1>free, <4>1, <4>2
    <3> QED
      BY <1>5, <3>2, <3>3
  <2>2. LockHeld'
    BY <1>5, <2>1 DEF TableInv, LockHeld
  <2>3. ReadersExcludeWriter'
    BY <2>1 DEF ReadersExcludeWriter
  <2>4. \A t \in Tablets : ~ BeingReassigned(t)
    BY <2>1 DEF BeingReassigned
  <2>5. PrimaryOrReassigned'
    BY <1>5, <2>4 DEF LockShared, UnlockShared, TableInv, PrimaryOrReassigned, OnePrimary
  <2> QED
    BY <1>5, <2>2, <2>3, <2>5, SameView DEF LockShared, UnlockShared, TableInv
<1>6. ASSUME NEW s \in Servers, Push(c, s) PROVE TableInv'
  <2>1. writer = None /\ ~ terminated
    BY <1>6, <1>free DEF Push, At
  <2>2. \A t \in Tablets : OnePrimary(t, primary[t])
    BY <2>1 DEF TableInv, PrimaryOrReassigned, BeingReassigned
  <2>3. \A t \in TabletsOf(s) : OnePrimary(t, Table(s)[t])
    BY <2>2, Choices DEF Table
  <2>4. \A u \in Servers : view'[u] = view[u] \/ (u = s /\ view'[u] = Table(s))
    BY <1>6 DEF Push, TypeOK
  <2>5. ViewHasOnePrimary'
    BY <2>3, <2>4 DEF TableInv, ViewHasOnePrimary, OnePrimary
  <2>6. \A d \in Calls : call'[d].stage = call[d].stage /\ call'[d].todo = call[d].todo
    BY <1>0, <1>6 DEF Push, CallType
  <2> QED
    BY <1>6, <2>5, <2>6, SameCalls DEF Push
<1> QED
  BY <1>1, <1>2, <1>3, <1>4, <1>5, <1>6 DEF Serve

LEMMA TableStep == TypeOK /\ TableInv /\ [Next]_vars => TableInv'
<1> SUFFICES ASSUME TypeOK, TableInv, [Next]_vars PROVE TableInv'
  OBVIOUS
<1>1. CASE UNCHANGED vars
  BY <1>1, SameCalls, SameView DEF TableInv
<1> QED
  BY <1>1, TableEnvironment, TableServe DEF Next, Rest

(* The inductive invariant holds of every behaviour.                       *)
THEOREM TableInvariant == Spec => []TableInv
<1> QED
  BY MasterTypeCorrect, TableInit, TableStep, PTL DEF Spec

(* Whenever tablet_lock is free for readers, every tablet has exactly one  *)
(* primary among its replicas (primary_up and primary_down).               *)
THEOREM SinglePrimaryHolds == Spec => []SinglePrimary
<1>1. TableInv => SinglePrimary
  BY DEF TableInv, PrimaryOrReassigned, SinglePrimary, BeingReassigned
<1> QED
  BY <1>1, TableInvariant, PTL

(* A table pushed to a storage server names exactly one primary per tablet *)
(* (send_storage_tablet_metadata, fill_tablets).                           *)
THEOREM ViewHasOnePrimaryHolds == Spec => []ViewHasOnePrimary
<1>1. TableInv => ViewHasOnePrimary
  BY DEF TableInv
<1> QED
  BY <1>1, TableInvariant, PTL

-----------------------------------------------------------------------------
(* A primary that the master believes dead is one that a call is about to  *)
(* replace: primary_down has cleared its replica_alive and waits for       *)
(* tablet_lock, or its loop has not come to this tablet yet.  Before the   *)
(* first start of a server nobody has said that it is dead.                *)
Demotes(r, s, t) ==
  r.about = s /\ (r.stage = "downLock" \/ (r.stage = "downAssign" /\ t \in r.todo))

AliveOrDemoted ==
  ~ terminated =>
    \A t \in Tablets : \A s \in primary[t] :
      replica_alive[s] \/ replica_initial_startup[s] \/ \E c \in Calls : Demotes(call[c], s, t)

LEMMA AliveInit == Init => AliveOrDemoted
<1> SUFFICES ASSUME Init, NEW t \in Tablets, NEW s \in primary[t] PROVE replica_initial_startup[s]
  BY DEF AliveOrDemoted
<1>1. s \in Servers
  BY DEF Init
<1> QED
  BY <1>1 DEF Init

(* A step of call c that keeps what c still has to demote.                 *)
LEMMA StillDemoted ==
  ASSUME AliveOrDemoted, ~ terminated, NEW c \in Calls, \A d \in Calls \ {c} : call'[d] = call[d],
         NEW t \in Tablets, NEW s \in primary[t], ~ replica_alive[s], ~ replica_initial_startup[s],
         Demotes(call[c], s, t) => Demotes(call'[c], s, t)
  PROVE  \E d \in Calls : Demotes(call'[d], s, t)
BY DEF AliveOrDemoted

LEMMA AliveEnvironment == ASSUME TypeOK, AliveOrDemoted, Environment PROVE AliveOrDemoted'
<1> SUFFICES ASSUME ~ terminated', NEW t \in Tablets, NEW s \in primary'[t],
                    ~ replica_alive'[s], ~ replica_initial_startup'[s]
             PROVE  \E d \in Calls : Demotes(call'[d], s, t)
  BY DEF AliveOrDemoted
<1>1. primary' = primary /\ ~ terminated
  BY DEF Environment, Start, IsInitialStorageServerStartup, Crash, KillServer, ReviveServer,
         BootCall, Report
<1>2. s \in primary[t] /\ s \in Servers
  BY <1>1 DEF TypeOK
<1>3. ~ replica_alive[s] /\ ~ replica_initial_startup[s]
  <2>1. CASE \E u \in Servers : IsInitialStorageServerStartup(u)
    BY <1>2, <2>1 DEF IsInitialStorageServerStartup, TypeOK
  <2>2. CASE UNCHANGED <<replica_alive, replica_initial_startup>>
    BY <2>2
  <2> QED
    BY <2>1, <2>2 DEF Environment, Start, Crash, KillServer, ReviveServer, BootCall, Report
<1>4. PICK d \in Calls : Demotes(call[d], s, t)
  BY <1>1, <1>2, <1>3 DEF AliveOrDemoted
<1>5. \/ call'[d] = call[d]
      \/ call'[d] = [call[d] EXCEPT !.wakes = None]
  <2>1. call[d].stage # "idle"
    BY <1>4 DEF Demotes
  <2> QED
    BY <2>1, SMTT(30) DEF Environment, Start, IsInitialStorageServerStartup, Crash, KillServer, ReviveServer,
                BootCall, Report, At, TypeOK
<1>6. /\ call'[d].about = call[d].about /\ call'[d].stage = call[d].stage
      /\ call'[d].todo = call[d].todo
  BY <1>5 DEF TypeOK, CallType
<1> QED
  BY <1>4, <1>6 DEF Demotes

LEMMA AliveServe ==
  ASSUME TypeOK, TableInv, AliveOrDemoted, NEW c \in Calls, Serve(c) PROVE AliveOrDemoted'
<1> SUFFICES ASSUME ~ terminated', NEW t \in Tablets, NEW s \in primary'[t],
                    ~ replica_alive'[s], ~ replica_initial_startup'[s]
             PROVE  \E d \in Calls : Demotes(call'[d], s, t)
  BY DEF AliveOrDemoted
<1>0. call \in [Calls -> CallType] /\ call[c] \in CallType
  BY DEF TypeOK
<1>1. ~ terminated /\ ~ replica_initial_startup[s]
  BY DEF Serve, GetTabletsForServer, DownCheck, DownSet, LockExclusive, DownAssign, UpClear, UpSet,
         UpCheck, Unlock, LockShared, Push, UnlockShared, Return, At
<1>2. \A d \in Calls \ {c} : call'[d] = call[d]
  BY DEF Serve, GetTabletsForServer, DownCheck, DownSet, LockExclusive, DownAssign, UpClear, UpSet,
         UpCheck, Unlock, LockShared, Push, UnlockShared, Return, GoTo, SendTo, TypeOK
<1>3. CASE GetTabletsForServer(c) \/ DownCheck(c) \/ UpCheck(c) \/ Unlock(c)
           \/ LockShared(c) \/ (\E u \in Servers : Push(c, u)) \/ UnlockShared(c) \/ Return(c)
  <2>1. primary' = primary
    BY <1>3 DEF GetTabletsForServer, DownCheck, UpCheck, Unlock, LockShared, Push, UnlockShared, Return
  <2>2. ~ Demotes(call[c], s, t)
    BY <1>3 DEF GetTabletsForServer, DownCheck, UpCheck, Unlock, LockShared, Push, UnlockShared, Return,
                At, Demotes
  <2>3. ~ replica_alive[s]
    <3>1. s \in Servers
      BY <2>1 DEF TypeOK
    <3>2. CASE GetTabletsForServer(c)
      BY <3>1, <3>2 DEF GetTabletsForServer, TypeOK
    <3>3. CASE UNCHANGED replica_alive
      BY <3>3
    <3> QED
      BY <1>3, <3>2, <3>3 DEF DownCheck, UpCheck, Unlock, LockShared, Push, UnlockShared, Return
  <2> QED
    BY <1>1, <1>2, <2>1, <2>2, <2>3, StillDemoted
<1>4. CASE DownSet(c)
  <2>1. primary' = primary /\ s \in Servers
    BY <1>4 DEF DownSet, TypeOK
  <2>2. CASE s = call[c].about
    <3>1. call'[c].stage = "downLock" /\ call'[c].about = call[c].about
      BY <1>0, <1>4 DEF DownSet, GoTo, CallType
    <3> QED
      BY <2>2, <3>1 DEF Demotes
  <2>3. CASE s # call[c].about
    <3>1. ~ replica_alive[s]
      BY <1>4, <2>1, <2>3 DEF DownSet, TypeOK
    <3>2. ~ Demotes(call[c], s, t)
      BY <2>3 DEF Demotes
    <3> QED
      BY <1>1, <1>2, <2>1, <3>1, <3>2, StillDemoted
  <2> QED
    BY <2>2, <2>3
<1>5. CASE LockExclusive(c)
  <2>1. primary' = primary /\ replica_alive' = replica_alive
    BY <1>5 DEF LockExclusive
  <2>2. t \in TabletsOf(s)
    <3>1. OnePrimary(t, primary[t]) \/ primary[t] = {}
      BY <1>1 DEF TableInv, PrimaryOrReassigned, BeingReassigned
    <3> QED
      BY <2>1, <3>1 DEF OnePrimary, TabletsOf
  <2>3. Demotes(call[c], s, t) => Demotes(call'[c], s, t)
    BY <1>0, <1>5, <2>2 DEF LockExclusive, At, Demotes, CallType
  <2> QED
    BY <1>1, <1>2, <2>1, <2>3, StillDemoted
<1>6. ASSUME NEW u \in Tablets, DownAssign(c, u) PROVE \E d \in Calls : Demotes(call'[d], s, t)
  <2>1. replica_alive' = replica_alive
    BY <1>6 DEF DownAssign
  <2>2. CASE t # u
    <3>1. primary'[t] = primary[t]
      BY <1>6, <2>2 DEF DownAssign, TypeOK
    <3>2. Demotes(call[c], s, t) => Demotes(call'[c], s, t)
      BY <1>0, <1>6, <2>2 DEF DownAssign, Demotes, CallType
    <3> QED
      BY <1>1, <1>2, <2>1, <3>1, <3>2, StillDemoted
  <2>3. CASE t = u
    <3>1. s \in primary[t] /\ s # call[c].about
      BY <1>6, <2>1, <2>3 DEF DownAssign, DownOptions, TypeOK
    <3>2. ~ Demotes(call[c], s, t)
      BY <3>1 DEF Demotes
    <3> QED
      BY <1>1, <1>2, <2>1, <3>1, <3>2, StillDemoted
  <2> QED
    BY <2>2, <2>3
<1>7. ASSUME NEW u \in Tablets, UpClear(c, u) \/ UpSet(c, u) PROVE \E d \in Calls : Demotes(call'[d], s, t)
  <2>1. replica_alive' = replica_alive
    BY <1>7 DEF UpClear, UpSet
  <2>2. t # u /\ s \in primary[t]
    BY <1>7, <2>1 DEF UpClear, UpSet, UpOptions, TypeOK
  <2>3. ~ Demotes(call[c], s, t)
    BY <1>7 DEF UpClear, UpSet, At, Demotes
  <2> QED
    BY <1>1, <1>2, <2>1, <2>2, <2>3, StillDemoted
<1> QED
  BY <1>3, <1>4, <1>5, <1>6, <1>7 DEF Serve

LEMMA AliveStep == TypeOK /\ TableInv /\ AliveOrDemoted /\ [Next]_vars => AliveOrDemoted'
<1> SUFFICES ASSUME TypeOK, TableInv, AliveOrDemoted, [Next]_vars PROVE AliveOrDemoted'
  OBVIOUS
<1>1. CASE UNCHANGED vars
  BY <1>1 DEF AliveOrDemoted, Demotes
<1> QED
  BY <1>1, AliveEnvironment, AliveServe DEF Next, Rest

(* Once no call is in progress, no tablet of a running system has a        *)
(* primary that the master believes dead (primary_down).                   *)
THEOREM SettledPrimariesAliveHolds == Spec => []SettledPrimariesAlive
<1>1. TypeOK /\ AliveOrDemoted => SettledPrimariesAlive
  BY DEF TypeOK, AliveOrDemoted, Demotes, SettledPrimariesAlive, InUse
<1> QED
  BY <1>1, MasterTypeCorrect, TableInvariant, AliveInit, AliveStep, PTL DEF Spec

-----------------------------------------------------------------------------
(* A serving storage server has the current table, or a call in progress   *)
(* will still push it the table: one that is reassigning pushes to every   *)
(* server once it is done, and one about to push has its recipients.       *)
Covers(r, s) ==
  r.stage \in {"downAssign", "upAssign"} \/ (r.stage \in {"send", "pushing"} /\ s \in r.to)

Known(s) == \A t \in TabletsOf(s) : view[s][t] = primary[t]

Fresh(s) == Known(s) \/ \E c \in Calls : Covers(call[c], s)

(* A server starts to serve when the call returns that its bootstrap waits *)
(* for.  That call is the only one, is of the kind that boot tells, and    *)
(* has pushed the table by then unless it is a primary_down.               *)
KindFor(state, kind) ==
  \/ state = "firstWait" /\ kind = "plain"
  \/ state = "againWait" /\ kind = "down"
  \/ state = "upWait"    /\ kind = "up"

UpWhenRunning == \A s \in Servers : boot[s] \notin {"off", "killed"} => up[s]

WakesOK(r, s) == r.wakes = s => r.from = s /\ KindFor(boot[s], r.kind)
WakesWaiting  == \A c \in Calls : \A s \in Servers : WakesOK(call[c], s)

OneWaker == \A c, d \in Calls : call[c].wakes \in Servers /\ call[c].wakes = call[d].wakes => c = d

KindOK(r) == /\ r.stage \in {"upCheck", "upLock", "upAssign"} => r.kind = "up"
             /\ r.stage \in {"downCheck", "downSet", "downLock", "downAssign"} => r.kind = "down"
KindOfStage == \A c \in Calls : KindOK(call[c])

WillKnow ==
  \A c \in Calls : \A s \in Servers : call[c].wakes = s /\ call[c].kind # "down" =>
    call[c].stage \in {"begin", "upCheck", "upLock"} \/ Fresh(s)

ReadyFresh == \A s \in Servers : boot[s] = "ready" => Fresh(s)

ViewInv == UpWhenRunning /\ WakesWaiting /\ OneWaker /\ KindOfStage /\ WillKnow /\ ReadyFresh

LEMMA ViewInit == Init => ViewInv
<1> SUFFICES ASSUME Init PROVE ViewInv
  OBVIOUS
<1>1. \A c \in Calls : call[c].stage = "idle" /\ call[c].wakes = None
  BY DEF Init, IdleCall
<1>2. \A s \in Servers : boot[s] = "off"
  BY DEF Init
<1> QED
  BY <1>1, <1>2 DEF ViewInv, UpWhenRunning, WakesWaiting, WakesOK, OneWaker, KindOfStage, KindOK,
                    WillKnow, ReadyFresh

(* What is pushed to a server stays current, or is on its way again, while *)
(* its own table is not replaced.                                          *)
LEMMA FreshKept ==
  ASSUME NEW s \in Servers, Fresh(s), primary' = primary, view'[s] = view[s],
         \A d \in Calls : Covers(call[d], s) => Covers(call'[d], s)
  PROVE  Fresh(s)'
BY DEF Fresh, Known

LEMMA FreshCovered ==
  ASSUME NEW s \in Servers, NEW c \in Calls, Covers(call'[c], s) PROVE Fresh(s)'
BY DEF Fresh

(* The steps of the thread of a call, all but its last.                    *)
LEMMA ServeMoves ==
  ASSUME TypeOK, KindOfStage, NEW c \in Calls, Serve(c), ~ Return(c)
  PROVE  /\ boot' = boot /\ up' = up
         /\ \A d \in Calls \ {c} : call'[d] = call[d]
         /\ call'[c].wakes = call[c].wakes /\ call'[c].kind = call[c].kind
         /\ call'[c].from = call[c].from
         /\ KindOK(call'[c])
<1>0. call \in [Calls -> CallType] /\ call[c] \in CallType /\ KindOK(call[c])
  BY DEF TypeOK, KindOfStage
<1>1. boot' = boot /\ up' = up
  BY DEF Serve, GetTabletsForServer, DownCheck, DownSet, LockExclusive, DownAssign, UpClear, UpSet,
         UpCheck, Unlock, LockShared, Push, UnlockShared
<1>2. \A d \in Calls \ {c} : call'[d] = call[d]
  BY DEF Serve, GetTabletsForServer, DownCheck, DownSet, LockExclusive, DownAssign, UpClear, UpSet,
         UpCheck, Unlock, LockShared, Push, UnlockShared, GoTo, SendTo, TypeOK
<1>3. /\ call'[c].wakes = call[c].wakes /\ call'[c].kind = call[c].kind
      /\ call'[c].from = call[c].from
  BY <1>0 DEF Serve, GetTabletsForServer, DownCheck, DownSet, LockExclusive, DownAssign, UpClear, UpSet,
         UpCheck, Unlock, LockShared, Push, UnlockShared, GoTo, SendTo, CallType
<1>4. KindOK(call'[c])
  <2>1. CASE GetTabletsForServer(c) \/ DownCheck(c) \/ DownSet(c) \/ UpCheck(c)
    BY <1>0, <2>1 DEF GetTabletsForServer, DownCheck, DownSet, UpCheck, At, GoTo, SendTo, CallType, KindOK
  <2>2. CASE LockExclusive(c) \/ Unlock(c) \/ LockShared(c) \/ UnlockShared(c)
    BY <1>0, <2>2 DEF LockExclusive, Unlock, LockShared, UnlockShared, At, GoTo, SendTo, CallType, KindOK
  <2>3. ASSUME NEW t \in Tablets, DownAssign(c, t) \/ UpClear(c, t) \/ UpSet(c, t) PROVE KindOK(call'[c])
    BY <1>0, <2>3 DEF DownAssign, UpClear, UpSet, CallType, KindOK
  <2>4. ASSUME NEW s \in Servers, Push(c, s) PROVE KindOK(call'[c])
    BY <1>0, <2>4 DEF Push, CallType, KindOK
  <2> QED
    BY <2>1, <2>2, <2>3, <2>4 DEF Serve
<1> QED
  BY <1>1, <1>2, <1>3, <1>4

(* None of them leaves a server that answers with an old table that no     *)
(* call will replace, ...                                                  *)
LEMMA ServeFresh ==
  ASSUME TypeOK, NEW c \in Calls, Serve(c), NEW s \in Servers, up[s], Fresh(s)
  PROVE  Fresh(s)'
<1>0. call \in [Calls -> CallType] /\ call[c] \in CallType
  BY DEF TypeOK
<1>1. \A d \in Calls \ {c} : call'[d] = call[d]
  BY DEF Serve, GetTabletsForServer, DownCheck, DownSet, LockExclusive, DownAssign, UpClear, UpSet,
         UpCheck, Unlock, LockShared, Push, UnlockShared, Return, GoTo, SendTo, TypeOK
<1>2. CASE GetTabletsForServer(c) \/ DownCheck(c) \/ DownSet(c) \/ UpCheck(c) \/ Return(c)
           \/ LockShared(c) \/ UnlockShared(c)
  <2>1. primary' = primary /\ view' = view
    BY <1>2 DEF GetTabletsForServer, DownCheck, DownSet, UpCheck, Return, LockShared, UnlockShared
  <2>2. Covers(call[c], s) => Covers(call'[c], s)
    <3>1. CASE LockShared(c)
      BY <1>0, <3>1 DEF LockShared, At, GoTo, CallType, Covers
    <3>2. CASE ~ LockShared(c)
      <4>1. ~ Covers(call[c], s)
        BY <1>2, <3>2
        DEF GetTabletsForServer, DownCheck, DownSet, UpCheck, Return, UnlockShared, At, Covers
      <4> QED
        BY <4>1
    <3> QED
      BY <3>1, <3>2
  <2> QED
    BY <1>1, <2>1, <2>2, FreshKept
<1>3. CASE LockExclusive(c) \/ Unlock(c) \/ \E t \in Tablets : DownAssign(c, t) \/ UpClear(c, t) \/ UpSet(c, t)
  <2>1. Covers(call'[c], s)
    BY <1>0, <1>3 DEF LockExclusive, Unlock, DownAssign, UpClear, UpSet, At, SendTo, CallType, Covers
  <2> QED
    BY <2>1, FreshCovered
<1>4. ASSUME NEW u \in Servers, Push(c, u) PROVE Fresh(s)'
  <2>1. CASE u = s
    <3>1. view'[s] = Table(s) /\ primary' = primary
      BY <1>4, <2>1 DEF Push, TypeOK
    <3>2. Known(s)'
      BY <3>1, Choices DEF Known, Table
    <3> QED
      BY <3>2 DEF Fresh
  <2>2. CASE u # s
    <3>1. view'[s] = view[s] /\ primary' = primary
      BY <1>4, <2>2 DEF Push, TypeOK
    <3>2. Covers(call[c], s) => Covers(call'[c], s)
      BY <1>0, <1>4, <2>2 DEF Push, CallType, Covers
    <3> QED
      BY <1>1, <3>1, <3>2, FreshKept
  <2> QED
    BY <2>1, <2>2
<1> QED
  BY <1>2, <1>3, <1>4 DEF Serve

(* ... and the call that a bootstrap waits for comes to push to it.        *)
LEMMA ServeComes ==
  ASSUME TypeOK, KindOfStage, NEW c \in Calls, Serve(c), ~ Return(c), NEW s \in Servers,
         call[c].from = s, call[c].kind # "down", call[c].stage \in {"begin", "upCheck", "upLock"}
  PROVE  call'[c].stage \in {"begin", "upCheck", "upLock"} \/ Covers(call'[c], s)
<1>0. call \in [Calls -> CallType] /\ call[c] \in CallType
  BY DEF TypeOK
<1>1. GetTabletsForServer(c) \/ UpCheck(c) \/ LockExclusive(c)
  BY DEF Serve, DownCheck, DownSet, DownAssign, UpClear, UpSet, Unlock, LockShared, Push,
         UnlockShared, At
<1>2. CASE GetTabletsForServer(c)
  BY <1>0, <1>2 DEF GetTabletsForServer, GoTo, SendTo, CallType, Covers
<1>3. CASE UpCheck(c)
  BY <1>0, <1>3 DEF UpCheck, GoTo, SendTo, CallType, Covers
<1>4. CASE LockExclusive(c)
  BY <1>0, <1>4 DEF LockExclusive, At, CallType, Covers
<1> QED
  BY <1>1, <1>2, <1>3, <1>4

LEMMA ViewServe ==
  ASSUME TypeOK, ViewInv, NEW c \in Calls, Serve(c), ~ Return(c) PROVE ViewInv'
<1> USE DEF ViewInv
<1>1. /\ boot' = boot /\ up' = up
      /\ \A d \in Calls \ {c} : call'[d] = call[d]
      /\ call'[c].wakes = call[c].wakes /\ call'[c].kind = call[c].kind
      /\ call'[c].from = call[c].from
      /\ KindOK(call'[c])
  BY ServeMoves
<1>2. UpWhenRunning' /\ WakesWaiting' /\ OneWaker' /\ KindOfStage'
  BY <1>1 DEF UpWhenRunning, WakesWaiting, WakesOK, OneWaker, KindOfStage
<1>3. ReadyFresh'
  BY <1>1, ServeFresh DEF ReadyFresh, UpWhenRunning
<1>4. ASSUME NEW d \in Calls, NEW s \in Servers, call'[d].wakes = s, call'[d].kind # "down"
      PROVE  call'[d].stage \in {"begin", "upCheck", "upLock"} \/ Fresh(s)'
  <2>1. call[d].wakes = s /\ call[d].kind # "down"
    BY <1>1, <1>4
  <2>2. call[d].from = s /\ boot[s] \in {"firstWait", "upWait"}
    BY <2>1 DEF WakesWaiting, WakesOK, KindFor
  <2>3. up[s]
    BY <2>2 DEF UpWhenRunning
  <2>4. CASE Fresh(s)
    BY <2>3, <2>4, ServeFresh
  <2>5. CASE ~ Fresh(s)
    <3>1. call[d].stage \in {"begin", "upCheck", "upLock"}
      BY <2>1, <2>5 DEF WillKnow
    <3>2. CASE d = c
      BY <2>1, <2>2, <3>1, <3>2, ServeComes, FreshCovered
    <3>3. CASE d # c
      BY <1>1, <3>1, <3>3
    <3> QED
      BY <3>2, <3>3
  <2> QED
    BY <2>4, <2>5
<1>5. WillKnow'
  BY <1>4 DEF WillKnow
<1> QED
  BY <1>2, <1>3, <1>5

LEMMA ViewReturn ==
  ASSUME TypeOK, ViewInv, NEW c \in Calls, Return(c) PROVE ViewInv'
<1> USE DEF ViewInv
<1>1. /\ call[c].stage = "done" /\ call'[c].stage = "idle" /\ call'[c].wakes = None
      /\ \A d \in Calls \ {c} : call'[d] = call[d]
      /\ \A s \in Servers : boot'[s] = IF s = call[c].wakes THEN AfterReturn(boot[s]) ELSE boot[s]
      /\ up' = up
  BY DEF Return, At, IdleCall, TypeOK
<1>2. \A s \in Servers : s = call[c].wakes => \A d \in Calls \ {c} : call[d].wakes # s
  BY DEF OneWaker
<1>3. \A s \in Servers : up[s] /\ Fresh(s) => Fresh(s)'
  BY ServeFresh DEF Serve
<1>4. UpWhenRunning'
  BY <1>1 DEF UpWhenRunning, WakesWaiting, WakesOK, KindFor, AfterReturn
<1>5. WakesWaiting'
  BY <1>1, <1>2 DEF WakesWaiting, WakesOK
<1>6. OneWaker' /\ KindOfStage'
  BY <1>1 DEF OneWaker, KindOfStage, KindOK
<1>7. WillKnow'
  <2> SUFFICES ASSUME NEW d \in Calls, NEW s \in Servers, call'[d].wakes = s, call'[d].kind # "down"
               PROVE  call'[d].stage \in {"begin", "upCheck", "upLock"} \/ Fresh(s)'
    BY DEF WillKnow
  <2>1. d # c /\ call'[d] = call[d]
    BY <1>1
  <2>2. up[s]
    BY <2>1 DEF WakesWaiting, WakesOK, KindFor, UpWhenRunning
  <2> QED
    BY <1>3, <2>1, <2>2 DEF WillKnow
<1>8. ReadyFresh'
  <2> SUFFICES ASSUME NEW s \in Servers, boot'[s] = "ready" PROVE Fresh(s)'
    BY DEF ReadyFresh
  <2>1. CASE s = call[c].wakes
    <3>1. KindFor(boot[s], call[c].kind)
      BY <2>1 DEF WakesWaiting, WakesOK
    <3>2. call[c].kind # "down" /\ up[s]
      BY <1>1, <2>1, <3>1 DEF AfterReturn, KindFor, UpWhenRunning
    <3>3. Fresh(s)
      BY <1>1, <2>1, <3>2 DEF WillKnow
    <3> QED
      BY <1>3, <3>2, <3>3
  <2>2. CASE s # call[c].wakes
    BY <1>1, <1>3, <2>2 DEF ReadyFresh, UpWhenRunning
  <2> QED
    BY <2>1, <2>2
<1> QED
  BY <1>4, <1>5, <1>6, <1>7, <1>8

(* The storage servers: each step changes the bootstrap of one, and a call *)
(* begins only for a server that no call will wake.                        *)
LEMMA ViewServers ==
  ASSUME TypeOK, ViewInv, NEW s \in Servers,
         Start(s) \/ IsInitialStorageServerStartup(s) \/ Crash(s) \/ KillServer(s) \/ ReviveServer(s)
  PROVE  ViewInv'
<1> USE DEF ViewInv
<1>1. /\ \A u \in Servers \ {s} : boot'[u] = boot[u] /\ up'[u] = up[u] /\ view'[u] = view[u]
      /\ boot'[s] \in {"ask", "first", "again", "off", "killed"}
      /\ boot'[s] \notin {"off", "killed"} => up'[s]
      /\ primary' = primary
  BY DEF Start, IsInitialStorageServerStartup, Crash, KillServer, ReviveServer, TypeOK, UpWhenRunning
<1>2. \A d \in Calls :
        /\ call'[d].stage = call[d].stage /\ call'[d].to = call[d].to
        /\ call'[d].kind = call[d].kind /\ call'[d].from = call[d].from
        /\ call'[d].wakes = call[d].wakes \/ call'[d].wakes = None
        /\ call'[d].wakes # s
  <2>1. CASE Crash(s)
    BY <2>1 DEF Crash, TypeOK, CallType
  <2>2. CASE ~ Crash(s)
    <3>1. call' = call
      BY <2>2 DEF Start, IsInitialStorageServerStartup, KillServer, ReviveServer
    <3>2. boot[s] \in {"off", "ask", "ready", "killed"}
      BY <2>2 DEF Start, IsInitialStorageServerStartup, KillServer, ReviveServer
    <3>3. \A d \in Calls : call[d].wakes # s
      BY <3>2 DEF WakesWaiting, WakesOK, KindFor
    <3> QED
      BY <3>1, <3>3
  <2> QED
    BY <2>1, <2>2
<1>3. \A u \in Servers \ {s} : Fresh(u) => Fresh(u)'
  BY <1>1, <1>2, FreshKept DEF Covers
<1>4. UpWhenRunning'
  BY <1>1 DEF UpWhenRunning
<1>5. WakesWaiting' /\ OneWaker' /\ KindOfStage'
  BY <1>1, <1>2 DEF WakesWaiting, WakesOK, OneWaker, KindOfStage, KindOK
<1>6. WillKnow'
  BY <1>2, <1>3 DEF WillKnow
<1>7. ReadyFresh'
  BY <1>1, <1>3 DEF ReadyFresh
<1> QED
  BY <1>4, <1>5, <1>6, <1>7

LEMMA ViewNewCall ==
  ASSUME TypeOK, ViewInv, NEW s \in Servers, NEW p \in Servers, NEW c \in Calls,
         BootCall(s, c) \/ Report(s, p, c)
  PROVE  ViewInv'
<1> USE DEF ViewInv
<1>1. /\ call[c].stage = "idle" /\ call'[c].stage = "begin" /\ call'[c].from = s
      /\ \A d \in Calls \ {c} : call'[d] = call[d]
      /\ UNCHANGED <<primary, view, up>>
      /\ \A u \in Servers \ {s} : boot'[u] = boot[u]
  BY DEF BootCall, Report, At, NewCall, TypeOK
<1>2. \/ /\ call'[c].wakes = s /\ KindFor(boot'[s], call'[c].kind)
         /\ boot[s] \in {"first", "again", "sync"}
         /\ boot'[s] \in {"firstWait", "againWait", "upWait"}
      \/ call'[c].wakes = None /\ boot' = boot
  BY DEF BootCall, Report, NewCall, TypeOK, KindFor
<1>3. boot[s] \in {"first", "again", "sync"} => \A d \in Calls : call[d].wakes # s
  BY DEF WakesWaiting, WakesOK, KindFor
<1>4. \A u \in Servers : Fresh(u) => Fresh(u)'
  BY <1>1, FreshKept DEF Covers
<1>5. UpWhenRunning'
  BY <1>1, <1>2 DEF UpWhenRunning
<1>6. WakesWaiting'
  <2> SUFFICES ASSUME NEW d \in Calls, NEW u \in Servers, call'[d].wakes = u
               PROVE  call'[d].from = u /\ KindFor(boot'[u], call'[d].kind)
    BY DEF WakesWaiting, WakesOK
  <2>1. CASE d = c
    BY <1>1, <1>2, <2>1
  <2>2. CASE d # c
    <3>1. call[d].wakes = u /\ call'[d] = call[d]
      BY <1>1, <2>2
    <3>2. boot'[u] = boot[u]
      BY <1>1, <1>2, <1>3, <3>1
    <3> QED
      BY <3>1, <3>2 DEF WakesWaiting, WakesOK
  <2> QED
    BY <2>1, <2>2
<1>7. OneWaker'
  BY <1>1, <1>2, <1>3 DEF OneWaker
<1>8. KindOfStage'
  BY <1>1 DEF KindOfStage, KindOK
<1>9. WillKnow'
  BY <1>1, <1>4 DEF WillKnow
<1>10. ReadyFresh'
  BY <1>1, <1>2, <1>4 DEF ReadyFresh
<1> QED
  BY <1>5, <1>6, <1>7, <1>8, <1>9, <1>10

LEMMA ViewStep == TypeOK /\ ViewInv /\ [Next]_vars => ViewInv'
<1> SUFFICES ASSUME TypeOK, ViewInv, [Next]_vars PROVE ViewInv'
  OBVIOUS
<1>1. CASE UNCHANGED vars
  BY <1>1 DEF ViewInv, UpWhenRunning, WakesWaiting, WakesOK, OneWaker, KindOfStage, WillKnow,
              ReadyFresh, Fresh, Known
<1>2. CASE Environment
  BY <1>2, ViewServers, ViewNewCall DEF Environment
<1> QED
  BY <1>1, <1>2, ViewServe, ViewReturn DEF Next, Rest

(* Once no call is in progress every serving storage server knows the      *)
(* current primaries (send_storage_tablet_metadata, bootstrap_server).     *)
THEOREM SettledViewsAgreeHolds == Spec => []SettledViewsAgree
<1>1. ViewInv => SettledViewsAgree
  BY DEF ViewInv, ReadyFresh, Fresh, Known, Covers, SettledViewsAgree, Serving
<1> QED
  BY <1>1, MasterTypeCorrect, ViewInit, ViewStep, PTL DEF Spec
=============================================================================
