# Verification of the distributed workspace

This directory specifies the backend of the repository in TLA+: how client
writes are numbered and replicated, how they reach the disk and come back from
it, how the master chooses primaries, and how a server that has crashed catches
up with the others. On top of it, it specifies how the frontend keeps the users'
mail and files, and beside it the mail servers that share files instead. The
modules are checked with TLC on small instances; the central invariants are
proved with TLAPS for every number of servers, rows and threads.

## The system

| Component | Source | State it keeps | Operations |
|---|---|---|---|
| Storage server, write path | `src/backend/storage_server.cc` | per row: the value of every column (`tablet_to_kv_store`), the number executed last (`sequence_numbers`), the number given out last (`sequence_max_seen`), a lock and a condition variable | `StoragePut`, `StorageCPut`, `StorageDelete` (`handle_request`, `forward_request`, `execute_*`) |
| Storage server, disk | same | per tablet: log file, checkpoint files, `tablet_log_size`, `checkpoint_version`, `log_locks` | `append_to_tablet_log`, `handle_checkpointing`, `create_checkpoint`, `load_checkpoint`, `load_log` |
| Storage server, recovery | same | `alive`, `booting`, `tablets` | `KillServer`, `ReviveServer`, `bootstrap_server`, `sync_tablet_with_primary`, `RequestLatestTabletState`, `PushLog`, `PushCheckpointPartition`, `PushStorageTablets` |
| Master | `src/backend/master_server.cc` | `tablets` with a primary flag per replica, `replica_alive`, `replica_initial_startup`, `tablet_lock` | `GetTabletsForServer` (`primary_up`, `primary_down`), `IsInitialStorageServerStartup`, `KillStorageServer`, `ReviveStorageServer`, `GetTabletsForUser` |
| Backend client | `src/frontend/backend_interface.hpp` | `address_cache` | `send_put_request`, `send_get_request`, `send_cput_request`, `send_delete_request`, each tried up to 50 times |
| Account service | `src/frontend/account_service.hpp` | row `<user>_acc`; first columns of `<user>_files` and `<user>_mbox` | `signup` (`check_user_exists`, `register_new_user`), `login` |
| File system service | `src/frontend/filesystem_service.hpp` | row `<user>_files`: per id a content column (a directory's is the list of its ids), a name and metadata | `upload`, `add_folder`, `move_file`, `delete_file`, `rename`, `star`, `download`, `navigate`; `update_recents`, `get_id_from_path` inside them |
| Webmail service | `src/frontend/webmail_service.hpp` | row `<user>_mbox`: a column per mail and a list of ids | send, reply, forward, delete, inbox |
| Admin service | `src/frontend/admin_service.hpp` | none | asks the master to kill, revive and report |
| Frontend server, load balancer | `src/frontend/main_server.cc`, `BaseServer.hpp`, `FrontendLoadBalancer.cpp` | list of connections and threads; live frontends | accept, worker, clean up; redirect |
| SMTP server, mail queue | `src/frontend/webmail/` | a session's state; the queue file | `HELO` ... `QUIT`; `read_mqueue`, `send_emails`, `fill_mqueue` |
| Legacy mail servers | `src/backend/EmailServices/` | a file per mailbox and the queue, with a mutex in each server and `flock` between them; a POP3 session's copy of its box | SMTP: deliver a mail to the files of its recipients; POP3: `USER` ... `QUIT` with `DELE`, `RSET` |

How they interact. A frontend calls the backend client, which asks the master
for the replicas of a row and calls one of them at random. A replica that is not
the primary of the row relays a write to the primary; the primary numbers it and
sends it to all replicas in turn, itself first, and answers when the last call
has returned. Each replica handles each of these calls in a thread of its own:
the thread waits on the row's condition variable until it is the number's turn,
writes the command to the tablet's log, and executes it. When a relay fails, the
replica tells the master that the primary is down; the master chooses another
one and pushes the new table to all servers. A server that starts asks the
master whether it starts for the first time; if not, it has its tablets taken
over, synchronises with the primaries, and reports itself up.

What is hard about it:

* every RPC is a thread, and the threads of a row meet in the wait loop in any
  order, on every replica in another one;
* the wait loop, the log and the execution use three different locks and are
  not one critical section;
* the master decides about live replicas by a table it reads and writes without
  a lock, from reports that may be late;
* the frontend services read and write back without transactions; the only
  conditional write answers OK whether it wrote or not;
* a server that restarts decides what it lacks by two numbers, and is pushed
  files by a server that may crash itself, while writes go on and the master
  reassigns primaries and has all numbers reset;
* a request on the files is up to a dozen calls, each of which may fail, be
  executed twice, or be executed although the frontend has given up;
* the mail servers guard one file with two kinds of lock, and write it after one
  of them is given up.

What makes each component correct:

* write path: no replica skips or repeats a number, all replicas execute the
  writes of a row in the primary's order, an OK means that all replicas have
  executed the write, every write is answered, and no thread sleeps for ever;
* disk: a restart brings back what was executed, the log stays bounded, every
  logged command is read back as it was written;
* master: one primary per tablet, in its own table and in every table it
  pushes; the servers end up with its table, and no primary is one it believes
  dead. That it goes on running is not among its promises: a late report can
  leave it without a candidate although servers live, and it then ends itself;
* recovery: a server that comes back holds what the primary holds, a start ends
  no other server, and clients of a server that lives get their answers;
* clients: a write that is answered OK has happened, once; a change of a list
  or directory loses no other change, and whatever calls fail an entry is in one
  directory and a listed file or folder is complete enough to be used;
* mail files: an answered mail stays until it is deleted or, in the queue, sent; a
  session's numbers go on naming the same mails; deliveries end.

## Modules

| Module | Models | Kind |
|---|---|---|
| `ReplicatedWrites` | the write path of one tablet on all its replicas | detailed, with threads |
| `RowLog` | what the write path promises: one sequence of writes per row that every replica executes in order | abstract |
| `TabletLog` | log, checkpoints and restart of one tablet on one server | detailed, with threads and crashes |
| `LogCodec` | the text of the log and the loop that reads it | algorithm |
| `MasterServer` | the master's calls and what the servers do between them | detailed, with threads and crashes |
| `Mailbox` | the rows of the users' mail and the requests that change them | detailed, with threads and failing calls |
| `SmtpSession` | SMTP sessions that send through `Mailbox`; composes both kinds of server | detailed |
| `Recovery` | crash and restart of the servers of one tablet; composes the write path, the disk and the master, each in coarser steps than in its own module | detailed, with crashes |
| `FileSystem` | the row of a user's files, the requests that change it, and the registration that creates it | detailed, with threads and failing calls |
| `MailFiles` | the legacy SMTP and POP3 servers and `send_mqueue` on the same files | detailed, with threads and locks |
| `MC...` | constants for TLC | instances |
| `...Proofs` | theorems | proofs |

Mutated versions of actions (marked `Mutant` in a comment) stand before the
actions they change. No specification uses them: they document which mistake in
the code each property would notice.

### ReplicatedWrites and RowLog

One tablet with replicas `1..N` in the order of `get_ordered_replicas`, of which
1 is the primary, without failures. A request is a client's write; its `phase`
says whether it is being relayed, numbered, forwarded or answered, and its `at`
which replica it has reached. `num` is the sequence number in the message.
`sequence_numbers` and `sequence_max_seen` are the maps of the code, `kv_store`
the values, and `applied` is a history of what each replica has executed for
each row. A thread that finds `num > sequence_numbers + 1` falls asleep on the
row's condition variable; `Execute` wakes all sleepers of the row
(`notify_all`), which then look again. Taking a number is one action because the
code does it under the row's lock, and so is `Execute`; everything between is
interleaved.

`RowLog` has a set of answered writes and one log per row; a write is appended,
executed by replicas in log order and answered when all have. The refinement
maps the log of a row to the primary's history. What a client may conclude from
the abstract log is stated with it (`LogPromise`, `NothingTakenBack`).

### TabletLog and LogCodec

One thread per row, since the wait loop lets the writes of a row through one at
a time. `StartLogging` takes the log lock and decides about a checkpoint;
`DumpRow` writes the rows one by one without their locks, as `create_checkpoint`
does; `EmptyLog`, `AppendToLog` (which releases the lock) and `Execute` follow.
The limit on the size of the log file appears as a free choice (`full`).
`Restart` ends the process between any two steps and loads the newest checkpoint
and the log. A CPUT comes back from the log with a second value nobody wrote
(`Garbled`): `LogCodec` has the arithmetic of the offsets that makes it so.

`LogCodec` is at the level of characters, because its property is about them: a
header of tokens, values of blanks and newlines. Commands are appended to the file
one by one; after the restart the loop of `load_log` runs a line at a time, with its
local variables and the place in the file that `std::getline` has reached.

### MasterServer

Every call of `GetTabletsForServer` is a record with a stage; `replica_alive` is
read and written in steps of their own because no lock protects it, and
`tablet_lock` is the pair `writer`, `readers`. `primary_down` replaces a dead
primary by a live replica, `primary_up` clears the flags of a tablet and then
sets one. `terminated` is the process ended by `rand() % 0`. The servers start,
ask whether it is for the first time, go through the calls of
`bootstrap_server`, crash, are killed and revived, and report a primary whose
RPCs fail. `view` is the table a server was pushed last. Faults begin when every
server has started for the first time: the README of the repository starts the
frontends only then.

### Mailbox and SmtpSession

A request is a thread with a `job`: what `send_email_action`, `store_email` or
`delete_email` has in its local variables, and the stage it is at. Each call to
the storage is a step: put the mail's column, read the list of ids, `CPUT` the
list, erase the column. `columns` and `ids` are the rows; a stranger's row has
columns (mail can be put there) but no list. The storage is taken to be what
`RowLog` promises. `LoseAnswer` executes a call without an answer, so that the
client makes it again; `GiveUp` is the 50th failure. Replies and forwards differ
from a new mail by a read and by their text, so `send_email` stands for all.
`delete_email` takes any id that was ever given out, listed in this box or not, as
the code does. A mail to a foreign domain is sent or not (`MailOutside`); that the
write to a connection that failed may end the whole frontend is left out. `erased`
(mails whose column a delete has removed), `contended` and `told` are histories for
the properties. Recipients may occur twice, as in the code; ids are taken to be
distinct.

`SmtpSession` adds `session_state` for the threads that serve SMTP and composes
its commands with the requests of the web: both run the steps of `Mailbox`.

### Recovery

`boot` is where a server's process is: `bootstrap_server` reports the server down
(`AnnounceDown`), `sync_tablet_with_primary` reads the version of its newest
checkpoint and the length of its log, once, and asks the primary
(`RequestLatestTabletState`), which pushes nothing, the log, or the checkpoint
and the log; `Load`, `AnnounceUp` and `Open` follow. `disk` and `mem` hold what the
files would yield and what is in memory: of a file only the last write of each
row matters, the number of commands and the version. A client write goes through
relay, number, the loop of calls and the answer; a failed relay reports the
primary (`Report`) and is repeated.

`ReportDown` and `ReportUp` are the master's calls with their pushes in one step;
`Push` sets the numbers of all servers to 0 as `fill_tablets` does. `Crash` ends a
process at any point, a server without a checkpoint to push ends itself
(`NoCheckpointToPush`), and `AfterEnd` says what becomes of the writes that
clients, relays and loops had at the dead server. A source whose push of the
checkpoint fails goes on to push the log; that this may reach the next process of
the server, if it has been started by then, is left out. `halted` is the master after
`rand() % 0`.

The code does not survive everything. `disturbed` notes six things that can
happen to a numbered write or a synchronisation, and the properties say what
holds without them:

| Noted | What | Without the excuse |
|---|---|---|
| `cut` | the primary dies between its calls to the replicas | `recovery_lost` |
| `reset` | a table is pushed while a write is at the primary | its number is reused, or a copy waits for ever |
| `missed` | the primary executes while a replica is being synchronised (a TODO in the code) | the replica lacks the write |
| `blank` | the primary asked has itself not loaded its files | the replica gets nothing, or the primary exits |
| `torn` | a server dies with a checkpoint it was pushed and its old log, before or after the rest was asked for (`Torn`) | old commands are replayed over new values |
| `late` | a replica opens while a primary still has to forward it a write it was pushed with the files, which only happens when the master has died and halts nobody | it executes the write twice |

Each was found to be needed: without it TLC has a counterexample. For `late`, and for
a `torn` server that dies while it is synchronised a second time, it takes three
faults, one more than the run has: the proof of the agreement met them, and TLC
then confirmed them. None of the six is a guard: the steps happen, only the claims
end there.

### FileSystem

A request is a thread with a `job`: the path it is walking, the directory it has
got to, the list it has read, and the PUTs it has still to make (`todo`, in the
order of the code). `Walk` looks up one component of a path, `ReadParent`,
`ReadOld`, `ReadNew` and `ReadRecents` are the GETs, and a PUT is answered,
executed without an answer and so made again (`LoseAnswer`), or given up for good,
executed or not (`GiveUp`). What the code makes of a failed GET is part of that: a
call of `update_recents` is not missed, a name that cannot be read is passed over in
the look for a conflict (`OverlookName`), a password that cannot be read is taken
for none, and a download throws an exception that ends the frontend with all its
requests (`Terminates`), as it does for a folder or for a file that is still being
uploaded. The three directories every user has are `root`, `trash` and
`recents`; moves of the trash are allowed, as in the code. `home`, `via_recents` and
`stale` are histories: the directory an answered PUT put an entry in, entries that
went through Recents, and directories written from a list that was no longer the
stored one.

The columns of a name, the metadata and the content of an entry are independent;
`Registered` and `Unregistered` are the two states of a user's row. Two
registrations of one name are among the requests.

### MailFiles

A delivery takes the mutex of a recipient's file, `flock`, writes into the buffer
of its `FILE`, unlocks, and only then closes the file, which writes the buffer
(`CloseFile`); the next recipient follows, and the answer comes after the last. A
POP3 session takes both locks without waiting; `Authenticate` with one of them
forgets the descriptor, and a `flock` it has is then `Leaked`. `QUIT` moves the mails
that stay to the front of the file by the offsets read at `PASS`. `send_mqueue` reads
the queue under the lock and takes the mails one by one. `connect_to_server` returns
the socket at the first address for which `connect` fails. If the first address
accepts and there is a second one, `connect` fails on the socket in use, and the
connected socket is returned: the mail is sent (`SendEmail`) or, after an answer that
is not as expected, is not (`LeaveUnsent`). If the only address accepts, or none is
found, the mail is not sent either. If the first one refuses, the socket is not
connected, and writing to it ends the process (`BreakDown`), with nothing written
back and nothing cut off. In the end the run empties the file before it has the lock
and writes the unsent mails back from the beginning, over what was appended meanwhile
(`Overwritten`).

Left out: the text of a mail is used as a format of `fprintf`, so one with a `%` is not
written as it came; and the POP3 server would take `USER .mqueue` for a mailbox.

`late` notes mails that were written while another process had read the file to
write it back. These are lost in the code, and the properties except them.

## Runs

| Run | Instance | Shows |
|---|---|---|
| `writes_concurrent` | 3 replicas, 1 row, 4 concurrent writes, fair | no gap, no repetition, primary ahead, OK means everywhere, no missed wakeup; every write is answered, unless its row has reused a number |
| `writes_serial` | 3 replicas, 2 rows, 3 writes, one write per row at a time, all three types | unique numbers, same order and same values everywhere; `RowLog` is implemented |
| `writes_order` | up to 4 concurrent writes of one row | violation, see below |
| `log_durable` | 2 rows, 2 values, limit 3, 5 writes, 2 restarts anywhere | what a restart brings back; the log stays short |
| `log_concurrent` | two rows at once | violation, see below |
| `codec` | all logs of up to 2 commands, values of up to 2 blanks or newlines | every command is found again with its type and first value, whatever blanks and newlines values hold |
| `master_two` | 3 servers, 2 tablets with different replicas, 2 calls at once, 1 fault | one primary in the master and in every view; views agree when calls are over |
| `recovery` | 3 replicas, 2 rows, limit 2, 2 writes, 2 crashes, 2 servers down at once, fair | disk and memory agree; open servers hold what was answered and agree; no start ends a primary; calls are answered until a disturbance other than `cut` |
| `recovery_lost` | 2 replicas, 1 row, 2 writes, 1 crash | violation, see below |
| `mail_boxes` | 1 user, 1 stranger, 1 web thread, 1 SMTP session, 2 mails, 5 recipient lists, 1 failing call | a list is changed only for the mail of the request; listed mails are stored; undisturbed boxes are complete; DATA needs an envelope |
| `files` | 1 user, registered or not, 3 requests of any kind by 2 threads, 2 new ids, a folder, 4 paths, 1 call that goes wrong or 1 end of a frontend | an entry is in one directory, and in the one it was put in; Recents and folders are usable |
| `mail_files` | 1 mailbox and the queue, 2 mails, 2 SMTP threads, 2 POP3 threads, 1 `send_mqueue`, fair | sessions see their mails; answered mails stay until deleted or sent, those a run cannot send included; deliveries end |

The bounds. Three replicas are the code's `number_of_replicas`. Rows share the
tablet's log but not their numbers, so the runs of the disk, of `Recovery` and
`writes_serial` have two of them; in the write path rows do not meet, and
`writes_concurrent` has four copies of one row meet at each wait loop, without
symmetry, since it checks liveness. Five writes are one more than the limit of the
log allows twice over, so that checkpoints of a checkpointed state happen; the limit
itself is 3 in place of 5 (2 in `recovery`), which changes how often, not what,
happens. Two calls at once are what the code's comment expects ("multiple threads
will likely get here at the same time"). The faults of `master_two` are enough for a
server to go down and come back while a report about it is late.

In `recovery` two crashes are enough for a server to fall while it starts, for its
source to fall while it pushes, and for two servers to start at once; with a limit
of 2 the second write makes a checkpoint, so all three answers of
`RequestLatestTabletState` occur. One write is in flight at a time; two in flight
are the subject of the runs of the write path, and what goes wrong there would drown
the rest. The run does not go on behind a disturbance other than `cut` (`Followed`).
All its properties but `TypeOK` and `DiskHoldsMemory` claim nothing of such
behaviours, `CallsAnswered` included, which excuses exactly what the constraint cuts
(`OnlyCut`) and the end of the master, which the run reaches; and the theorems about
`TypeOK` and `DiskHoldsMemory` have no such restriction. The theorems about the
agreement hold for any number of faults and servers down. How much `CallsAnswered`
excuses was checked once without the constraint, with 2 servers, 1 row, 3 writes and
2 faults (405,792 states): calls were left without an answer only behind `reset` and
`missed` and when the master had halted.

The mail runs need two threads and two mails for one list to change under a request;
one failing call reaches every partial failure, since the call that fails for good
may have been executed or not; one recipient per SMTP mail is enough because lists
of two come from the web thread. `files` has 603,201 states with three requests: one
that makes an entry and two that meet over it; the same instance was checked once
with four requests. `mail_files` has two of each kind of thread that can meet itself
at a lock, and mails to the queue alone or to box and queue, which need both.
Symmetry is used over the writes, the rows, the mails, the calls, the ids and the
threads, and only in runs without liveness.

Fairness. `writes_concurrent` assumes weak fairness of every thread of the write
path (a runnable thread runs, a call in progress returns): the threads are the
operating system's, the wait loop holds no lock while it sleeps, and the row lock is
held for a few statements. `EveryWriteAnswered` excuses a row that has reused a
number (`NumberReused`), since the code does hang then: with five writes on one
server, of two with one number the later sets `sequence_numbers` back, and the
thread that waits for the next number waits for ever. `recovery` assumes the same of
the threads of a write and of a server that starts; nobody is obliged to crash or to
be started again. `mail_files` assumes it of a delivery, of the end of a session and
of the writing back of the queue, each of which waits for locks only. Clients need
not send, and a POP3 client may leave its session open for ever: `DeliveriesEnd`
says so.

Deadlock is checked in every run but the two of `Recovery`; `Rest` lets a system
stutter that has nothing left to do. In `Recovery` the system may really stop: when
the master is dead, or a copy waits for a number that was reset.

### Violations

Each of these runs ends in a counterexample, and PROJECT.json quotes the line of
the repository it contradicts.

* `writes_order`: the execute functions store the executed number in
  `sequence_max_seen`, which lowers it when a larger number is in use already; a
  number is then given out twice, and replicas execute the two writes in
  different orders.
* `log_concurrent`: a command that is in the log but not executed yet is lost
  when a thread of another row makes a checkpoint.
* `recovery_lost`: a primary that crashes between its own execution and the first
  call to a replica comes back with a log as long as the new primary's, is taken
  for up to date, and serves without a write that was answered.

The passing runs say under which conditions they do not happen: one write in
flight per row, one row at a time, no primary cut off in its loop.

Other things the code does that no line of the repository contradicts are
excused by name in the property they concern, and described there and under the
hazards of PROJECT.json: a checkpoint that was cut short, mails that were late, a number
that was used again and leaves a thread waiting, a
leaked lock, directories written from old lists, a delete through Recents, the
end of the master when no candidate is left, a second value of a CPUT cut out of
the log with the size of the first.

## Proofs

Eight modules, each named for the one it is about, prove for all values of the
constants, from the named assumptions in the modules, every safety property of a
passing run. Some theorems have a hypothesis, which is the condition under which
the code has the property; the run has it in its constants, and TLC finds
counterexamples without it:

| Hypothesis | Where | Without it |
|---|---|---|
| `OneWriterPerRow`: clients keep one write per row in flight | `UniqueNumbers` and what follows from it, the refinement | `writes_order` |
| `OneRowAtATime`: one thread writes to the tablet, no CPUT | durability | `log_concurrent`; `Garbled` |
| `OneWriteAtATime`: one client write is in flight | agreement after a recovery | a row holds a write that is not answered yet; and even with one write per row, replicas log the writes of two rows in different orders (see below) |
| `OneRunAtATime`: `send_mqueue` is not started while it runs | `AnsweredMailKept` | two runs write the queue back over each other |

* `WritePathInvariant`. `NoGap` is not inductive: that a replica does not skip a
  number depends on the thread having been admitted by the wait loop, and that
  `sequence_numbers` is a number actually executed. `WritePathInv` adds these,
  and that the histories hold exactly the requests whose forwarding loop has
  passed the replica. `NoGapHolds`, `AtMostOnceHolds`, `AckedEverywhereHolds` and
  `PrimaryAheadHolds` follow, under any concurrency: they do not depend on
  numbers being unique. `NoMissedWakeupHolds` is inductive with the types.
* `SerialInvariant`. For one writer per row, the write in flight has the number given
  out last (`NumbersInOrder`), and a replica lacks that write or nothing
  (`FollowsPrimary`, about histories and values at once). `UniqueNumbersHolds`,
  `SameOrderHolds` and `SettledRowsAgreeHolds` follow.
* `WritesImplementRowLog`. The refinement, step by step, under the same hypothesis:
  the primary's execution appends to the abstract log, a replica's copies its next
  entry, which `FollowsPrimary` says is the one forwarded, and an answer
  acknowledges an entry all copies have; every other step stutters.
* `WritesKeepPromise`. What the refinement is worth: the abstract log is proved to keep
  `LogPromise` (a copy is a beginning of the primary's, a write has one place in the
  logs of all rows, an acknowledged one is in every copy) and `NothingTakenBack` (no
  step changes a copy but at its end), and the write path does so by implementing it.
* `TableInvariant`. `SinglePrimary` is not inductive because `primary_up` leaves a
  tablet without primary between two statements. `TableInv` says that only the
  holder of the exclusive lock can be there, for a tablet still on its list; that
  the stages of the calls hold the locks they claim; and that readers exclude the
  writer. So no push sees it: `ViewHasOnePrimaryHolds`, `SinglePrimaryHolds`.
* `SettledPrimariesAliveHolds` needs `AliveOrDemoted`: a primary that is believed dead
  is one for which a `primary_down` waits or whose loop has not come to the tablet.
* `SettledViewsAgreeHolds` needs `ViewInv`: a ready server has the current table or a
  call will push it (`ReadyFresh`). A server becomes ready when the call returns
  that its start waits for, so the invariant says which call that is, that it is the
  only one (`OneWaker`), and that by then it has pushed the table (`WillKnow`).
* `LogInvariant`. That the log stays below the limit needs `tablet_log_size` to be
  its length, which needs the log lock to cover both; `LogShortHolds` follows.
* `DiskInvariant`. What a restart brings back is a fold of the log over the newest
  checkpoint. Lemmas about the fold (its last step, a replay that begins with other
  values, a replay of what was replayed already) are proved by induction over the
  length of the log, with the set of lengths for which they hold. With them the
  invariant has three cases: a logged command is in the files before it is executed;
  a checkpoint that is being dumped holds what is stored in the rows done, and the
  old log replayed over it changes nothing; otherwise the files hold what is
  stored. `PersistsWhenIdleHolds` follows, and `CrashSafeHolds`.
* `CodecInvariant`. That `load_log` reads back what was written is a statement about a
  text of any length, and the proof needs no induction over it: the log has cuts, the
  places where one command ends and the next begins. Appending a command adds one
  (`CutsGrow`), and `load_log` is always at the end of a line between two cuts, with
  `chars_rem` the distance to the next (`AtLineEnd`). A line that starts at a cut ends
  behind the number and the blank, since neither is a newline (`NewlineAfter`); one that
  starts elsewhere ends at the cut at the latest (`NewlineInside`); and the lines joined
  again are what stood in the file (`JoinedLines`). `RoundTrip` is the arithmetic of the
  offsets: a serialized command comes back as it was, a CPUT with type and first value.
  `ReadsBackHolds` follows.
* `MailboxInvariant`. `ListedWasStored` is not inductive: the thread that is about
  to write a list must have put the mail first, and what it writes must be what
  it has read with one entry more or less. `Consistent` says so of every job, and
  `StoreStep` says what a call may do to the rows, answered or not; a step of one
  thread then leaves the others consistent because a mail once put stays put or is
  noted as erased. `OnlyOwnEntryHolds` follows from what a CPUT compares. The
  removal of an id is the least index that holds it, which exists by the
  well-foundedness of strict inclusion on finite sets. `DataHasEnvelope` is needed
  for the types: the sender of a mail must be a name when it is sent.
  `SettledBoxesCompleteHolds` needs `BoxOK`: a box that is not contended has one
  request at most, that one has read the list as it is, and a mail that is stored
  and not listed is the one it is about to list or to erase.
* `RecoveryInvariant`. `DiskHoldsMemory` is about one server and would hold of each
  alone, but its steps read the state of others: that a server which executes a
  write has an entry for its row needs `WritesPlaced`, and that one which is pushed
  files has a server to push them needs `SourcesKnown`. `RecoveryInv` is these with
  the types. A push of a table touches only the numbers (`TablePushed`), so a
  report by any other server leaves the relation alone; a crash empties the memory
  of a server that is then not loaded; `DiskHoldsMemoryHolds` follows for any number
  of crashes, restarts and concurrent writes, disturbed or not.
* `AgreementInvariant`. Until a disturbance, all servers that have loaded or are about
  to have equal files (`LeadersAgree`), except one that the primary has still to
  call: its files are the primary's without the last command (`BehindByOne`). The
  files of any other server are those of a replica at an earlier time (`Before`),
  unless it is torn. A server that synchronises has asked with the version and
  length it has on disk (`AskedUntorn`), so the answer it gets, from a source that
  leads (`SourcesLead`), is the part it lacks. `NewestFit` relates these files to the
  last answered write of a row. `ReplicasAgreeHolds`, `SourceHasCheckpointHolds` and
  `AnsweredHeldHolds` follow with `DiskHoldsMemory`.
* `FilesInvariant`. `FoldersCanBeEntered` and `RecentsComplete` are about rows that a
  request changes in several calls. `Sound` says of each request what its pending
  PUTs may contain: a PUT that makes a folder of an id finds its list stored or has
  the PUT of the list before it (`Backed`); a list written back lacks at most the
  request's own entry (`PutSound`); an upload still has to make the PUTs its entry
  lacks, so that it is complete when it reaches `update_recents` (`Owned`). `OneOwner`
  says that no two requests add the same id. Rows only grow in what these facts
  speak of (`Grows`), so a PUT of one request leaves the others sound
  (`SoundGrows`), answered or not, and so does the end of any set of requests
  (`TerminatesKeeps`). `AnsweredPlacedHolds`, `RecentsCompleteHolds` and
  `FoldersCanBeEnteredHolds` follow.
* `PlacedOnceHolds`. A request that is about to add an entry to a list must know that
  no directory has it. As long as no list was written from an old one, an entry that
  a request still `Bears` is in no directory (`BorneNowhere`) and borne by no other
  (`BorneOnce`): an upload has drawn the id and shown it to nobody, a move has taken
  the entry out where it was, and of two moves only one can find it there. What a
  request's pending PUTs may contain is again said per operation (`PutsPlaced`).
* `SessionInvariant`. A POP3 session's mails are the first of its file, and what
  follows them came while it was open (`FirstMails`); this needs the mutex to belong
  to one session (`BoxOwned`). `SessionsSeeTheirMailsHolds` follows.
* `KeptInvariant`. A mail that an answered delivery wrote is in its file, was deleted
  or sent, is carried by the run of `send_mqueue` that took it, or was late; a delivery
  that still goes on has left its mail where it has been (`WrittenKept`). As long as a
  run tries to send, the file holds all that it carries (`QueueRead`), so a run that
  breaks down loses nothing; once it has emptied the file it carries the unsent mails
  alone, and the others are sent. `AnsweredMailKeptHolds` follows.
* The types: `TypeCorrect` (twice), `MasterTypeCorrect`, `MailTypeCorrect`,
  `RecoveryTypeOK` and `FilesTypeOK`; of `MailFiles` a stronger one is in `SessionInv`.

The hypothesis of the agreement cannot be weakened to one write per row: the code does
not keep it then. With two replicas, a limit of 3, four writes to two rows, no two of
one row in flight at once, and one crash, TLC finds undisturbed replicas that hold
different values when all is quiet. The primary logs `x` before its checkpoint and `y`
behind it, the other replica `y` before and `x` behind: versions and lengths agree. The
other replica goes down and misses one write; when it is back, only its length differs
(`storage_server.cc:379`), so it is pushed the log alone. It keeps its own checkpoint,
which lacks `x`, and has lost the log that held it.

Only model-checked: liveness (`EveryWriteAnswered`, `CallsAnswered`, `DeliveriesEnd`),
which is out of reach of the provers.

## Not modelled

* `KillServer` and `ReviveServer` inside a storage server (the master's view of them
  is in `MasterServer`): a revived server loads its tablets while it answers writes
  on the same unordered maps without a lock, so the outcome is undefined.
* Master and recovery at the grain of `MasterServer` and `ReplicatedWrites` at once:
  `Recovery` pushes tables and executes a logged write in one step.
* A checkpoint file that was cut short by a crash: nothing in the code notices.
* The choice of a replica by the backend client and its `address_cache`, which is
  filled without a lock; logging in, `navigate` and `get_inbox`, which only read.
* The dialogue with foreign mail servers, SMTP clients that leave without QUIT,
  the end of the legacy servers by SIGINT, and the echo server.
* Email ids that are drawn twice: the generator is not locked (`utils.hpp:153`).
* Reads of other state (`StorageGet`, `GetTabletsForUser`, `GetKVStoreState`,
  `PulseCheck`, `GetStorageServerStatuses`) and the admin service that asks for
  them: no state of their own. The HTTP server and the load balancer keep a list of
  connections and of frontends and no state that a request depends on.
* The data races on `locks`, `cvs`, `tablets` and the key-value maps, which are
  unordered maps that threads extend while others read them: a rehash during an
  iteration is undefined and may end the process. The modules treat each access
  to an entry as atomic.
* The text of checkpoint files; HTTP, JSON and MIME. `json.hpp`, more than two
  thirds of the lines of the implementation, is a vendored library.
* Superseded servers (`backend/old`), samples, generated code, user interface and
  test clients.

## Plan

1. Done: `ReplicatedWrites`, `RowLog`, `MasterServer`, `TabletLog`, `LogCodec`,
   `Mailbox`, `SmtpSession`; then `Recovery`, `FileSystem` with the registration,
   `MailFiles`.
2. Done: the inductive invariants of all state machines, the refinement of `RowLog`,
   and from them every safety property of the passing runs.
3. Dropped: agreement in `Recovery` for one write per row in place of one in all, which
   was planned and is false (end of Proofs).
4. Further models, if the code grows towards them: the connection threads of
   `BaseServer`, a revive that holds a lock.
