-------------------------- MODULE MasterServer --------------------------
(***************************************************************************)
(* The master (src/backend/master_server.cc): which replica of each tablet *)
(* is the primary, which storage servers it believes alive, and the        *)
(* GetTabletsForServer calls that change both and push the tablet table to *)
(* the servers.  Every call has its own thread; tablet_lock protects the   *)
(* primary flags but replica_alive is read and written without a lock, so  *)
(* the threads are cut at each of its uses.                                *)
(*                                                                         *)
(* The storage servers appear as far as the master sees them: they start,  *)
(* ask whether this is the initial start, go through the calls of          *)
(* bootstrap_server, crash, and report a primary whose RPCs fail.          *)
(***************************************************************************)
EXTENDS Integers, FiniteSets

CONSTANTS
  Servers,      \* replica_addresses
  Tablets,      \* indices of the tablets vector
  ReplicasOf,   \* tablet -> the servers partition_tablets drew for it
  Calls,        \* threads of the master that serve GetTabletsForServer
  None,         \* no thread, no server
  MaxCrashes,   \* bound: crashes of storage servers in a behaviour
  MaxDown       \* bound: servers that are not serving at the same time

ASSUME ReplicaAssumption ==
  ReplicasOf \in [Tablets -> SUBSET Servers] /\ \A t \in Tablets : ReplicasOf[t] # {}
ASSUME NoneAssumption  == None \notin Servers \cup Calls
ASSUME BoundAssumption == MaxCrashes \in Nat /\ MaxDown \in Nat

VARIABLES
  primary,                  \* tablet -> replicas whose primary flag is set
  replica_alive,            \* server -> what the master believes
  replica_initial_startup,  \* server -> it has never asked before
  writer,                   \* call holding tablet_lock exclusively
  readers,                  \* calls holding tablet_lock shared
  call,                     \* call -> what its thread is doing
  terminated,               \* the master died of rand() % 0
  up,                       \* server -> its process answers RPCs
  boot,                     \* server -> where bootstrap_server is
  booting,                  \* server -> it rejects client writes
  view,                     \* server -> tablet -> primary flags pushed to it
  crashes                   \* crashes so far, for the bound

masterVars == <<primary, replica_alive, replica_initial_startup, terminated>>
lockVars   == <<writer, readers>>
serverVars == <<up, boot, booting, view, crashes>>
vars       == <<masterVars, lockVars, call, serverVars>>

(* lookup_replica: the tablets a server holds a replica of.                *)
TabletsOf(s) == {t \in Tablets : s \in ReplicasOf[t]}

Stages == {"idle", "begin", "down", "downCheck", "downSet", "downLock", "downAssign",
           "upCheck", "upLock", "upAssign", "send", "pushing", "done"}

(* A call: its kind, the server it is about, the server that made it, the  *)
(* server whose bootstrap waits for it, the tablets still to be looked at  *)
(* and the recipients still to be pushed to.                               *)
CallType == [stage : Stages, kind : {"plain", "up", "down"},
             about : Servers \cup {None}, from : Servers \cup {None},
             wakes : Servers \cup {None},
             todo : SUBSET Tablets, to : SUBSET Servers]

IdleCall == [stage |-> "idle", kind |-> "plain", about |-> None, from |-> None,
             wakes |-> None, todo |-> {}, to |-> {}]

NewCall(k, about, from, wakes) ==
  [stage |-> "begin", kind |-> k, about |-> about, from |-> from,
   wakes |-> wakes, todo |-> {}, to |-> {}]

At(c, stage) == call[c].stage = stage /\ ~ terminated

Serving == {s \in Servers : boot[s] = "ready"}

Accepts(s) == up[s] /\ ~ booting[s]

(* The initial start of every storage server is over: only then are the    *)
(* frontends started (README.md:30), so only then are there client writes. *)
InUse ==
  \A s \in Servers : ~ replica_initial_startup[s] /\ boot[s] \notin {"first", "firstWait"}

-----------------------------------------------------------------------------
(* partition_tablets makes one replica of every tablet its primary; no     *)
(* server is alive before its first IsInitialStorageServerStartup.         *)
Init ==
  /\ primary \in [Tablets -> {{s} : s \in Servers}]
  /\ \A t \in Tablets : primary[t] \subseteq ReplicasOf[t]
  /\ replica_alive           = [s \in Servers |-> FALSE]
  /\ replica_initial_startup = [s \in Servers |-> TRUE]
  /\ writer = None /\ readers = {}
  /\ call = [c \in Calls |-> IdleCall]
  /\ terminated = FALSE
  /\ up   = [s \in Servers |-> FALSE]
  /\ boot = [s \in Servers |-> "off"]
  /\ booting = [s \in Servers |-> TRUE]
  /\ view = [s \in Servers |-> [t \in Tablets |-> {}]]
  /\ crashes = 0

-----------------------------------------------------------------------------
(* The storage servers.                                                    *)

(* A storage server process starts, with an empty tablet table.            *)
Start(s) ==
  /\ boot[s] = "off"
  /\ up'   = [up EXCEPT ![s] = TRUE]
  /\ boot' = [boot EXCEPT ![s] = "ask"]
  /\ booting' = [booting EXCEPT ![s] = TRUE]
  /\ view' = [view EXCEPT ![s] = [t \in Tablets |-> {}]]
  /\ UNCHANGED <<masterVars, lockVars, call, crashes>>

(* The first time a server asks, the master takes it to be alive.          *)
IsInitialStorageServerStartup(s) ==
  /\ boot[s] = "ask" /\ ~ terminated
  /\ replica_alive' = [replica_alive EXCEPT ![s] = @ \/ replica_initial_startup[s]]
  /\ boot' = [boot EXCEPT ![s] =
                IF replica_initial_startup[s] THEN "first" ELSE "again"]
  /\ replica_initial_startup' = [replica_initial_startup EXCEPT ![s] = FALSE]
  /\ UNCHANGED <<primary, terminated, lockVars, call, up, booting, view, crashes>>

(* bootstrap_server: get_tablets_metadata("", true) on the initial start,  *)
(* else primary_down(me), synchronise, primary_up(me).                     *)
BootCall(s, c) ==
  /\ At(c, "idle")
  /\ \/ /\ boot[s] = "first"
        /\ call' = [call EXCEPT ![c] = NewCall("plain", None, s, s)]
        /\ boot' = [boot EXCEPT ![s] = "firstWait"]
     \/ /\ boot[s] = "again"
        /\ call' = [call EXCEPT ![c] = NewCall("down", s, s, s)]
        /\ boot' = [boot EXCEPT ![s] = "againWait"]
     \/ /\ boot[s] = "sync"
        /\ call' = [call EXCEPT ![c] = NewCall("up", s, s, s)]
        /\ boot' = [boot EXCEPT ![s] = "upWait"]
  /\ UNCHANGED <<masterVars, lockVars, up, booting, view, crashes>>

AfterReturn(stage) ==
  IF stage = "againWait" THEN "sync" ELSE "ready"

(* Faults are considered once the system is in use.  A process dies (calls *)
(* it made run on in the master), or KillServer makes a running one refuse *)
(* every RPC until ReviveServer, which goes through bootstrap_server with  *)
(* the tables it had and does not set booting again.                       *)
MayFail(s) ==
  /\ up[s] /\ InUse
  /\ crashes < MaxCrashes
  /\ Cardinality(Servers \ (Serving \ {s})) <= MaxDown

Crash(s) ==
  /\ MayFail(s)
  /\ crashes' = crashes + 1
  /\ up'   = [up EXCEPT ![s] = FALSE]
  /\ boot' = [boot EXCEPT ![s] = "off"]
  /\ call' = [c \in Calls |-> IF call[c].wakes = s
                              THEN [call[c] EXCEPT !.wakes = None] ELSE call[c]]
  /\ UNCHANGED <<masterVars, lockVars, booting, view>>

KillServer(s) ==
  /\ MayFail(s) /\ boot[s] = "ready"
  /\ crashes' = crashes + 1
  /\ up'   = [up EXCEPT ![s] = FALSE]
  /\ boot' = [boot EXCEPT ![s] = "killed"]
  /\ UNCHANGED <<masterVars, lockVars, call, booting, view>>

ReviveServer(s) ==
  /\ boot[s] = "killed"
  /\ up'   = [up EXCEPT ![s] = TRUE]
  /\ boot' = [boot EXCEPT ![s] = "ask"]
  /\ UNCHANGED <<masterVars, lockVars, call, booting, view, crashes>>

(* A server finds that an RPC to the server it takes for a primary fails   *)
(* and tells the master: handle_request forwarding a client write (which a *)
(* booting server rejects; a killed server still has threads that forward) *)
(* or sync_tablet_with_primary asking for state.                           *)
Report(s, p, c) ==
  /\ At(c, "idle") /\ InUse
  /\ p # s /\ \E t \in TabletsOf(s) : p \in view[s][t]
  /\ \/ ~ booting[s] /\ boot[s] # "off" /\ ~ Accepts(p)
     \/ boot[s] = "sync" /\ ~ up[p]
  /\ call' = [call EXCEPT ![c] = NewCall("down", p, s, None)]
  /\ UNCHANGED <<masterVars, lockVars, serverVars>>

-----------------------------------------------------------------------------
(* GetTabletsForServer.                                                    *)

GoTo(c, stage)       == call' = [call EXCEPT ![c].stage = stage]
SendTo(c, recipients) ==
  call' = [call EXCEPT ![c].stage = "send", ![c].to = recipients]

(* Mutant: the table goes to the server the call is about, not to the one  *)
(* that asked.                                                             *)
PushesToSubject(c) ==
  /\ At(c, "begin")
  /\ SendTo(c, {call[c].about})
  /\ UNCHANGED <<masterVars, lockVars, serverVars>>

GetTabletsForServer(c) ==
  /\ At(c, "begin")
  /\ \/ call[c].kind = "plain" /\ SendTo(c, {call[c].from}) /\ UNCHANGED replica_alive
     \/ /\ call[c].kind = "up"
        /\ replica_alive' = [replica_alive EXCEPT ![call[c].about] = TRUE]
        /\ GoTo(c, "upCheck")
     \/ /\ call[c].kind = "down"
        /\ IF replica_alive[call[c].about]
           THEN GoTo(c, "downCheck")
           ELSE SendTo(c, {call[c].from})
        /\ UNCHANGED replica_alive
  /\ UNCHANGED <<primary, replica_initial_startup, terminated, lockVars, serverVars>>

(* primary_down looks again, without a lock, and returns if the server is  *)
(* marked dead by now.                                                     *)
DownCheck(c) ==
  /\ At(c, "downCheck")
  /\ IF replica_alive[call[c].about]
     THEN GoTo(c, "downSet")
     ELSE SendTo(c, Servers)
  /\ UNCHANGED <<masterVars, lockVars, serverVars>>

DownSet(c) ==
  /\ At(c, "downSet")
  /\ replica_alive' = [replica_alive EXCEPT ![call[c].about] = FALSE]
  /\ GoTo(c, "downLock")
  /\ UNCHANGED <<primary, replica_initial_startup, terminated, lockVars, serverVars>>

(* tablet_lock taken exclusively, by primary_down and by primary_up.       *)
LockExclusive(c) ==
  /\ At(c, "downLock") \/ At(c, "upLock")
  /\ writer = None /\ readers = {}
  /\ writer' = c
  /\ call' = [call EXCEPT ![c].todo = TabletsOf(call[c].about),
                          ![c].stage = IF @ = "downLock" THEN "downAssign" ELSE "upAssign"]
  /\ UNCHANGED <<masterVars, readers, serverVars>>

(* One tablet of the loop of primary_down: a live replica replaces the     *)
(* dead primary; without one, rand() % 0 ends the process.                 *)
DownOptions(t, dead) == {s \in ReplicasOf[t] \ {dead} : replica_alive[s]}

(* Mutants: the flag of the dead primary stays set; the loop is left after *)
(* the first tablet.                                                       *)
DeadStaysPrimary(c, t) ==
  /\ At(c, "downAssign") /\ t \in call[c].todo
  /\ IF call[c].about \notin primary[t] THEN UNCHANGED primary
     ELSE \E s \in DownOptions(t, call[c].about) :
            primary' = [primary EXCEPT ![t] = @ \cup {s}]
  /\ call' = [call EXCEPT ![c].todo = @ \ {t}]
  /\ UNCHANGED <<replica_alive, replica_initial_startup, terminated, lockVars, serverVars>>

FirstTabletOnly(c, t) ==
  LET dead == call[c].about IN
  /\ At(c, "downAssign") /\ t \in call[c].todo
  /\ IF dead \notin primary[t] THEN UNCHANGED primary
     ELSE \E s \in DownOptions(t, dead) :
            primary' = [primary EXCEPT ![t] = (@ \ {dead}) \cup {s}]
  /\ call' = [call EXCEPT ![c].todo = {}]
  /\ UNCHANGED <<replica_alive, replica_initial_startup, terminated, lockVars, serverVars>>

DownAssign(c, t) ==
  LET dead == call[c].about IN
  /\ At(c, "downAssign") /\ t \in call[c].todo
  /\ IF dead \notin primary[t] THEN UNCHANGED <<primary, terminated>>
     ELSE IF DownOptions(t, dead) = {} THEN terminated' = TRUE /\ UNCHANGED primary
     ELSE /\ \E s \in DownOptions(t, dead) :
               primary' = [primary EXCEPT ![t] = (@ \ {dead}) \cup {s}]
          /\ UNCHANGED terminated
  /\ call' = [call EXCEPT ![c].todo = @ \ {t}]
  /\ UNCHANGED <<replica_alive, replica_initial_startup, lockVars, serverVars>>

(* primary_up returns at once when the server is still a primary.          *)
UpCheck(c) ==
  /\ At(c, "upCheck") /\ writer = None
  /\ IF \E t \in TabletsOf(call[c].about) : call[c].about \in primary[t]
     THEN SendTo(c, Servers)
     ELSE GoTo(c, "upLock")
  /\ UNCHANGED <<masterVars, lockVars, serverVars>>

(* One tablet of its loop: all flags are cleared, then any live replica    *)
(* becomes the primary.                                                    *)
UpOptions(t) == {s \in ReplicasOf[t] : replica_alive[s]}

UpClear(c, t) ==
  /\ At(c, "upAssign") /\ t \in call[c].todo /\ primary[t] # {}
  /\ primary' = [primary EXCEPT ![t] = {}]
  /\ UNCHANGED <<replica_alive, replica_initial_startup, terminated, lockVars, call, serverVars>>

UpSet(c, t) ==
  /\ At(c, "upAssign") /\ t \in call[c].todo /\ primary[t] = {}
  /\ IF UpOptions(t) = {}
     THEN terminated' = TRUE /\ UNCHANGED primary
     ELSE /\ \E s \in UpOptions(t) : primary' = [primary EXCEPT ![t] = {s}]
          /\ UNCHANGED terminated
  /\ call' = [call EXCEPT ![c].todo = @ \ {t}]
  /\ UNCHANGED <<replica_alive, replica_initial_startup, lockVars, serverVars>>

(* Mutant: after a reassignment only the caller gets the new table.        *)
TellsCallerOnly(c) ==
  /\ At(c, "downAssign") \/ At(c, "upAssign")
  /\ call[c].todo = {}
  /\ writer' = None
  /\ SendTo(c, {call[c].from})
  /\ UNCHANGED <<masterVars, readers, serverVars>>

Unlock(c) ==
  /\ At(c, "downAssign") \/ At(c, "upAssign")
  /\ call[c].todo = {}
  /\ writer' = None
  /\ SendTo(c, Servers)
  /\ UNCHANGED <<masterVars, readers, serverVars>>

(* Mutant: the table is pushed without taking the lock.                    *)
NoSharedLock(c) ==
  /\ At(c, "send")
  /\ readers' = readers \cup {c}
  /\ GoTo(c, "pushing")
  /\ UNCHANGED <<masterVars, writer, serverVars>>

(* send_storage_tablet_metadata holds the lock shared over all its pushes. *)
LockShared(c) ==
  /\ At(c, "send") /\ writer = None
  /\ readers' = readers \cup {c}
  /\ GoTo(c, "pushing")
  /\ UNCHANGED <<masterVars, writer, serverVars>>

Table(s) == [t \in Tablets |-> IF t \in TabletsOf(s) THEN primary[t] ELSE {}]

(* PushStorageTablets: a server that is down misses the push.              *)
Push(c, s) ==
  /\ At(c, "pushing") /\ s \in call[c].to
  /\ call' = [call EXCEPT ![c].to = @ \ {s}]
  /\ view' = IF up[s] THEN [view EXCEPT ![s] = Table(s)] ELSE view
  /\ UNCHANGED <<masterVars, lockVars, up, boot, booting, crashes>>

UnlockShared(c) ==
  /\ At(c, "pushing") /\ call[c].to = {}
  /\ readers' = readers \ {c}
  /\ GoTo(c, "done")
  /\ UNCHANGED <<masterVars, writer, serverVars>>

(* The answer reaches the caller; a bootstrap that waited for it goes on.  *)
Return(c) ==
  /\ At(c, "done")
  /\ call' = [call EXCEPT ![c] = IdleCall]
  /\ boot' = [s \in Servers |-> IF s = call[c].wakes THEN AfterReturn(boot[s]) ELSE boot[s]]
  /\ booting' = [s \in Servers |-> booting[s] /\ ~ (s = call[c].wakes /\ boot'[s] = "ready")]
  /\ UNCHANGED <<masterVars, lockVars, up, view, crashes>>

(* A step of the thread of call c.                                         *)
Serve(c) ==
  \/ GetTabletsForServer(c)
  \/ DownCheck(c) \/ DownSet(c)
  \/ LockExclusive(c)
  \/ \E t \in Tablets : DownAssign(c, t) \/ UpClear(c, t) \/ UpSet(c, t)
  \/ UpCheck(c)
  \/ Unlock(c)
  \/ LockShared(c)
  \/ \E s \in Servers : Push(c, s)
  \/ UnlockShared(c)
  \/ Return(c)

Environment ==
  \/ \E s \in Servers : Start(s) \/ IsInitialStorageServerStartup(s)
                       \/ Crash(s) \/ KillServer(s) \/ ReviveServer(s)
  \/ \E s \in Servers, c \in Calls : BootCall(s, c)
  \/ \E s, p \in Servers, c \in Calls : Report(s, p, c)

(* Without its master the system goes nowhere; and it may have nothing to  *)
(* do, with every server serving and no crash left.                        *)
Rest ==
  /\ terminated \/ (Serving = Servers /\ \A c \in Calls : call[c].stage = "idle")
  /\ UNCHANGED vars

Next == Environment \/ (\E c \in Calls : Serve(c)) \/ Rest

Spec == Init /\ [][Next]_vars

-----------------------------------------------------------------------------
TypeOK ==
  /\ primary \in [Tablets -> SUBSET Servers]
  /\ replica_alive \in [Servers -> BOOLEAN]
  /\ replica_initial_startup \in [Servers -> BOOLEAN]
  /\ writer \in Calls \cup {None} /\ readers \subseteq Calls
  /\ call \in [Calls -> CallType]
  /\ \A c \in Calls : call[c].stage # "idle" =>
       call[c].from \in Servers /\ (call[c].kind # "plain" => call[c].about \in Servers)
  /\ terminated \in BOOLEAN
  /\ up \in [Servers -> BOOLEAN]
  /\ boot \in [Servers -> {"off", "ask", "first", "firstWait", "again", "againWait",
                           "sync", "upWait", "ready", "killed"}]
  /\ booting \in [Servers -> BOOLEAN]
  /\ view \in [Servers -> [Tablets -> SUBSET Servers]]
  /\ crashes \in Nat

OnePrimary(t, flags) == \E s \in ReplicasOf[t] : flags = {s}

(* Whatever calls are in progress, whenever no thread holds tablet_lock    *)
(* exclusively every tablet has exactly one primary, one of its replicas.  *)
SinglePrimary ==
  (writer = None /\ ~ terminated) => \A t \in Tablets : OnePrimary(t, primary[t])

(* The table of a storage server is empty or names one primary per tablet: *)
(* no push shows the inside of a reassignment.                             *)
ViewHasOnePrimary ==
  \A s \in Servers : \/ \A t \in TabletsOf(s) : view[s][t] = {}
                     \/ \A t \in TabletsOf(s) : OnePrimary(t, view[s][t])

(* Why both hold, as an inductive invariant: the stage of a call says      *)
(* which lock it has, readers exclude the writer, and a tablet without a   *)
(* primary is one that primary_up has cleared and not yet set.             *)
LockHeld ==
  \A c \in Calls :
    /\ call[c].stage \in {"downAssign", "upAssign"} <=> writer = c
    /\ call[c].stage = "pushing" <=> c \in readers

ReadersExcludeWriter == writer # None => readers = {}

BeingReassigned(t) ==
  /\ primary[t] = {}
  /\ \E c \in Calls : writer = c /\ call[c].stage = "upAssign" /\ t \in call[c].todo

PrimaryOrReassigned ==
  ~ terminated => \A t \in Tablets : OnePrimary(t, primary[t]) \/ BeingReassigned(t)

TableInv ==
  LockHeld /\ ReadersExcludeWriter /\ PrimaryOrReassigned /\ ViewHasOnePrimary

(* Once no call is in progress every serving storage server knows the      *)
(* current primaries, however calls and crashes were interleaved.          *)
SettledViewsAgree ==
  (~ terminated /\ \A c \in Calls : call[c].stage = "idle") =>
    \A s \in Serving : \A t \in TabletsOf(s) : view[s][t] = primary[t]

(* Once the system is in use and no call is in progress, no tablet has *)
(* a primary the master believes dead.                                     *)
SettledPrimariesAlive ==
  (~ terminated /\ InUse /\ \A c \in Calls : call[c].stage = "idle") =>
    \A t \in Tablets : \A s \in primary[t] : replica_alive[s]
=============================================================================
