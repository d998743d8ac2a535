----------------------------- MODULE MailFiles -----------------------------
(***************************************************************************)
(* The mail servers of src/backend/EmailServices: an SMTP server           *)
(* (smtpserver.hpp), a POP3 server (pop3server.hpp) and the program        *)
(* send_mqueue.  They are processes of their own that share the files of   *)
(* one directory, a mailbox per user and the queue mqueue of mails to      *)
(* other domains.  A file is guarded by a mutex in each server and by      *)
(* flock between the processes.                                            *)
(*                                                                         *)
(* Simplifications.  A file is the sequence of its mails.  A mail fits     *)
(* into the buffer of its FILE, so fprintf leaves it there and fclose      *)
(* writes it.  The text of a mail is the format of fprintf, in the server  *)
(* and in send_mqueue: a mail here has no % in it.  The dialogue before    *)
(* the text of a mail is that of SmtpSession.  Servers do not crash.  A    *)
(* session opens a mailbox; USER .mqueue, which the POP3 server would take *)
(* for one although the mails of the queue begin with other lines, is left *)
(* out.                                                                    *)
(***************************************************************************)
EXTENDS Naturals, Sequences, FiniteSets, SequencesExt

CONSTANTS
  Boxes,        \* mailboxes
  Queue,        \* the file mqueue
  Mails,        \* mails that clients send
  Recipients,   \* the files the recipients of a mail are written to
  SmtpThreads, PopThreads, Senders,
  None,         \* no thread
  Leaked,       \* holder of a flock whose descriptor nobody will close
  Torn          \* what is left of a mail that was partly overwritten

Files == Boxes \cup {Queue}
Holders == SmtpThreads \cup PopThreads \cup {None, Leaked}

ASSUME FileAssumption == Queue \notin Boxes /\ Recipients \subseteq Seq(Files) \ {<<>>}
ASSUME ThreadAssumption ==
  SmtpThreads \cap PopThreads = {} /\ {None, Leaked} \cap (SmtpThreads \cup PopThreads) = {}
ASSUME MailAssumption == Torn \notin Mails

VARIABLES
  file,      \* file -> its mails
  flock,     \* file -> the thread whose descriptor has it locked
  mutex,     \* file -> the thread of the SMTP server that has file_locks
  box_lock,  \* mailbox -> the thread of the POP3 server that has file_locks
  smtp,      \* thread -> the mail it delivers
  pop,       \* thread -> its session
  sender,    \* run of send_mqueue -> where it is, the mails it has still
             \* to try and those it could not send
  posted,    \* mails whose text has been received
  answered,  \* history: <<mail, file>> of mails answered 250 OK
  removed,   \* history: <<mail, file>> a session deleted on request
  sent,      \* history: mails a foreign server has taken from send_mqueue
  late       \* history: <<mail, file>> written while another process had
             \* read the file to write it back

locks   == <<flock, mutex, box_lock>>
history == <<posted, answered, removed, sent, late>>
vars    == <<file, locks, smtp, pop, sender, history>>

NoDelivery == [stage |-> "idle", mail |-> None, to |-> <<>>, todo |-> <<>>]
NoSession  == [stage |-> "idle", box |-> None, owns |-> FALSE,
               mailbox_state |-> <<>>, transactions |-> {}]
NoRun      == [stage |-> "idle", emails |-> <<>>, unsent |-> <<>>]

Init ==
  /\ file = [f \in Files |-> <<>>]
  /\ flock = [f \in Files |-> None] /\ mutex = [f \in Files |-> None]
  /\ box_lock = [b \in Boxes |-> None]
  /\ smtp = [t \in SmtpThreads |-> NoDelivery]
  /\ pop = [p \in PopThreads |-> NoSession]
  /\ sender = [s \in Senders |-> NoRun]
  /\ posted = {} /\ answered = {} /\ removed = {} /\ sent = {} /\ late = {}

-----------------------------------------------------------------------------
(* SMTP: write_email_to_files, from the line "." to the answer.            *)
Target(t) == Head(smtp[t].todo)

Receive(t, m, to) ==
  /\ smtp[t].stage = "idle" /\ m \notin posted
  /\ posted' = posted \cup {m}
  /\ smtp' = [smtp EXCEPT ![t] = [stage |-> "lock", mail |-> m, to |-> to, todo |-> to]]
  /\ UNCHANGED <<file, locks, pop, sender, answered, removed, sent, late>>

LockThread(t) ==
  /\ smtp[t].stage = "lock" /\ mutex[Target(t)] = None
  /\ mutex' = [mutex EXCEPT ![Target(t)] = t]
  /\ smtp'  = [smtp EXCEPT ![t].stage = "flock"]
  /\ UNCHANGED <<file, flock, box_lock, pop, sender, history>>

(* fopen with mode "a" and flock, which blocks.                            *)
LockFile(t) ==
  /\ smtp[t].stage = "flock" /\ flock[Target(t)] = None
  /\ flock' = [flock EXCEPT ![Target(t)] = t]
  /\ smtp'  = [smtp EXCEPT ![t].stage = "write"]
  /\ UNCHANGED <<file, mutex, box_lock, pop, sender, history>>

(* fprintf, and flock with LOCK_UN.                                        *)
UnlockFile(t) ==
  /\ smtp[t].stage = "write"
  /\ flock' = [flock EXCEPT ![Target(t)] = None]
  /\ smtp'  = [smtp EXCEPT ![t].stage = "close"]
  /\ UNCHANGED <<file, mutex, box_lock, pop, sender, history>>

(* Another process has read the file f and will write it back.             *)
BeingRewritten(f) ==
  \/ \E p \in PopThreads : pop[p].stage = "open" /\ pop[p].box = f
  \/ f = Queue /\ \E s \in Senders : sender[s].stage # "idle"

(* Mutant: the mutex of a file is not given up if another file follows.    *)
CloseFileHolds(t) ==
  LET x == smtp[t]
      f == Target(t)
  IN
  /\ x.stage = "close"
  /\ file' = [file EXCEPT ![f] = Append(@, x.mail)]
  /\ late' = IF BeingRewritten(f) THEN late \cup {<<x.mail, f>>} ELSE late
  /\ IF Len(x.todo) > 1
     THEN /\ smtp' = [smtp EXCEPT ![t].stage = "lock", ![t].todo = Tail(@)]
          /\ UNCHANGED <<answered, mutex>>
     ELSE /\ smtp' = [smtp EXCEPT ![t] = NoDelivery]
          /\ answered' = answered \cup {<<x.mail, x.to[k]>> : k \in DOMAIN x.to}
          /\ mutex' = [mutex EXCEPT ![f] = None]
  /\ UNCHANGED <<flock, box_lock, pop, sender, posted, removed, sent>>

(* fclose appends, and the lock_guard gives up the mutex; the last file is *)
(* followed by the answer.                                                 *)
CloseFile(t) ==
  LET x == smtp[t]
      f == Target(t)
  IN
  /\ x.stage = "close"
  /\ file' = [file EXCEPT ![f] = Append(@, x.mail)]
  /\ late' = IF BeingRewritten(f) THEN late \cup {<<x.mail, f>>} ELSE late
  /\ mutex' = [mutex EXCEPT ![f] = None]
  /\ IF Len(x.todo) > 1
     THEN /\ smtp' = [smtp EXCEPT ![t].stage = "lock", ![t].todo = Tail(@)]
          /\ UNCHANGED answered
     ELSE /\ smtp' = [smtp EXCEPT ![t] = NoDelivery]
          /\ answered' = answered \cup {<<x.mail, x.to[k]>> : k \in DOMAIN x.to}
  /\ UNCHANGED <<flock, box_lock, pop, sender, posted, removed, sent>>

-----------------------------------------------------------------------------
(* POP3: USER and PASS, the commands of a session, QUIT.                   *)
PASS(p, b) ==
  /\ pop[p].stage = "idle"
  /\ pop' = [pop EXCEPT ![p] = [NoSession EXCEPT !.stage = "locking", !.box = b,
                                                 !.owns = (box_lock[b] = None)]]
  /\ box_lock' = IF box_lock[b] = None THEN [box_lock EXCEPT ![b] = p] ELSE box_lock
  /\ UNCHANGED <<file, flock, mutex, smtp, sender, history>>

(* Mutant: whether the locks were acquired is not checked.                 *)
AuthenticateAnyway(p) ==
  LET b == pop[p].box IN
  /\ pop[p].stage = "locking"
  /\ flock' = IF flock[b] = None THEN [flock EXCEPT ![b] = p] ELSE flock
  /\ pop' = [pop EXCEPT ![p].stage = "open", ![p].mailbox_state = file[b]]
  /\ UNCHANGED <<box_lock, file, mutex, smtp, sender, history>>

(* flock with LOCK_NB: with both locks the mailbox is read; otherwise the  *)
(* descriptor is forgotten, and a lock it may have stays.                  *)
Authenticate(p) ==
  LET b == pop[p].box
      locked == flock[b] = None
  IN
  /\ pop[p].stage = "locking"
  /\ IF locked /\ pop[p].owns
     THEN /\ flock' = [flock EXCEPT ![b] = p]
          /\ pop' = [pop EXCEPT ![p].stage = "open", ![p].mailbox_state = file[b]]
          /\ UNCHANGED box_lock
     ELSE /\ flock' = IF locked THEN [flock EXCEPT ![b] = Leaked] ELSE flock
          /\ box_lock' = IF pop[p].owns THEN [box_lock EXCEPT ![b] = None] ELSE box_lock
          /\ pop' = [pop EXCEPT ![p] = NoSession]
  /\ UNCHANGED <<file, mutex, smtp, sender, history>>

Numbers(p) == DOMAIN pop[p].mailbox_state

DELE(p, i) ==
  /\ pop[p].stage = "open" /\ i \in Numbers(p) \ pop[p].transactions
  /\ pop' = [pop EXCEPT ![p].transactions = @ \cup {i}]
  /\ UNCHANGED <<file, locks, smtp, sender, history>>

RSET(p) ==
  /\ pop[p].stage = "open"
  /\ pop' = [pop EXCEPT ![p].transactions = {}]
  /\ UNCHANGED <<file, locks, smtp, sender, history>>

(* update copies the mails that stay to the front, one by one, by the      *)
(* offsets it read first, and cuts the file after them; what others append *)
(* meanwhile is cut off too.                                               *)
Kept(p) ==
  LET copied[n \in 0 .. Len(pop[p].mailbox_state)] ==
        IF n = 0 THEN <<>>
        ELSE IF n \in pop[p].transactions THEN copied[n - 1]
        ELSE Append(copied[n - 1], file[pop[p].box][n])
  IN  copied[Len(pop[p].mailbox_state)]

QUIT(p) ==
  LET b == pop[p].box IN
  /\ pop[p].stage = "open"
  /\ file' = IF pop[p].transactions = {} THEN file ELSE [file EXCEPT ![b] = Kept(p)]
  /\ removed' = removed \cup {<<pop[p].mailbox_state[i], b>> : i \in pop[p].transactions}
  /\ pop' = [pop EXCEPT ![p].stage = "unlock"]
  /\ UNCHANGED <<locks, smtp, sender, posted, answered, sent, late>>

(* worker_func unlocks and closes the file.  The mutex is in a local       *)
(* variable, which goes when the function returns.                         *)
UnlockBox(p) ==
  /\ pop[p].stage = "unlock"
  /\ flock' = [flock EXCEPT ![pop[p].box] = None]
  /\ pop' = [pop EXCEPT ![p].stage = "return"]
  /\ UNCHANGED <<file, mutex, box_lock, smtp, sender, history>>

Return(p) ==
  /\ pop[p].stage = "return"
  /\ box_lock' = [box_lock EXCEPT ![pop[p].box] = None]
  /\ pop' = [pop EXCEPT ![p] = NoSession]
  /\ UNCHANGED <<file, flock, mutex, smtp, sender, history>>

-----------------------------------------------------------------------------
(* send_mqueue.                                                            *)

(* The file is read under the lock.  A text that is no mail ends the run.  *)
read_mqueue(s) ==
  /\ sender[s].stage = "idle" /\ flock[Queue] = None
  /\ Torn \notin ToSet(file[Queue])
  /\ sender' = [sender EXCEPT ![s] = [NoRun EXCEPT !.stage = "send", !.emails = file[Queue]]]
  /\ UNCHANGED <<file, locks, smtp, pop, history>>

Trying(s) == sender[s].stage = "send" /\ sender[s].emails # <<>>

(* The loop of send_emails.  connect_to_server returns a connected socket  *)
(* when the first address of a domain accepts and there is a second one,   *)
(* for which connect fails on the socket in use (EISCONN).  Then the mail  *)
(* is sent if every answer is as expected, and taken off the unsent ones.  *)
SendEmail(s) ==
  /\ Trying(s)
  /\ sent' = sent \cup {Head(sender[s].emails)}
  /\ sender' = [sender EXCEPT ![s].emails = Tail(@)]
  /\ UNCHANGED <<file, locks, smtp, pop, posted, answered, removed, late>>

(* Mutant: a mail is not noted as unsent before its server is looked up.   *)
ForgetsUnsent(s) ==
  /\ Trying(s)
  /\ sender' = [sender EXCEPT ![s].emails = Tail(@)]
  /\ UNCHANGED <<file, locks, smtp, pop, history>>

(* No address is found, the only one accepts (connect_to_server gives -1), *)
(* or an answer is not as expected: the mail stays unsent.                 *)
LeaveUnsent(s) ==
  /\ Trying(s)
  /\ sender' = [sender EXCEPT ![s].emails = Tail(@),
                              ![s].unsent = Append(@, Head(sender[s].emails))]
  /\ UNCHANGED <<file, locks, smtp, pop, history>>

(* The first address refuses: connect_to_server returns a socket that is   *)
(* not connected, and writing to it ends the process.                      *)
BreakDown(s) ==
  /\ Trying(s)
  /\ sender' = [sender EXCEPT ![s] = NoRun]
  /\ UNCHANGED <<file, locks, smtp, pop, history>>

(* fill_mqueue: fopen with mode "w+" empties the file before the lock.     *)
Truncate(s) ==
  /\ sender[s].stage = "send" /\ sender[s].emails = <<>>
  /\ file' = [file EXCEPT ![Queue] = <<>>]
  /\ sender' = [sender EXCEPT ![s].stage = "fill"]
  /\ UNCHANGED <<locks, smtp, pop, history>>

(* The lock, which blocks; the unsent mails go to the buffer of the FILE.  *)
Fill(s) ==
  /\ sender[s].stage = "fill" /\ flock[Queue] = None
  /\ sender' = [sender EXCEPT ![s].stage = "close"]
  /\ UNCHANGED <<file, locks, smtp, pop, history>>

(* fclose writes from the beginning of the file, over what has been        *)
(* appended since: of that there remain the mails after some point, and    *)
(* the rest of the mail in which the new text ends.                        *)
Overwritten(new, old) ==
  IF new = <<>> THEN {old} ELSE IF old = <<>> THEN {new}
  ELSE {new \o rest : rest \in UNION {{SubSeq(old, k + 1, Len(old)),
                                       <<Torn>> \o SubSeq(old, k + 1, Len(old))}
                                      : k \in 1 .. Len(old)}}

CloseQueue(s) ==
  /\ sender[s].stage = "close"
  /\ \E text \in Overwritten(sender[s].unsent, file[Queue]) :
       file' = [file EXCEPT ![Queue] = text]
  /\ sender' = [sender EXCEPT ![s] = NoRun]
  /\ UNCHANGED <<locks, smtp, pop, history>>

-----------------------------------------------------------------------------
Deliver(t) == LockThread(t) \/ LockFile(t) \/ UnlockFile(t) \/ CloseFile(t)
Finish(p)  == Authenticate(p) \/ UnlockBox(p) \/ Return(p)
Fills(s)   == Fill(s) \/ CloseQueue(s)

Next ==
  \/ \E t \in SmtpThreads : \/ \E m \in Mails, to \in Recipients : Receive(t, m, to)
                            \/ Deliver(t)
  \/ \E p \in PopThreads : \/ \E b \in Boxes : PASS(p, b)
                           \/ \E i \in Numbers(p) : DELE(p, i)
                           \/ RSET(p) \/ QUIT(p) \/ Finish(p)
  \/ \E s \in Senders : \/ read_mqueue(s)
                         \/ SendEmail(s) \/ LeaveUnsent(s) \/ BreakDown(s)
                         \/ Truncate(s) \/ Fills(s)

Spec == Init /\ [][Next]_vars

(* Threads that are not blocked run.  Clients, and the network send_mqueue *)
(* waits for, owe nothing.                                                 *)
FairSpec ==
  /\ Spec
  /\ \A t \in SmtpThreads : WF_vars(Deliver(t))
  /\ \A p \in PopThreads : WF_vars(Finish(p))
  /\ \A s \in Senders : WF_vars(Fills(s))

-----------------------------------------------------------------------------
(* While a session is open its mailbox begins with the mails it has read:  *)
(* the numbers it hands out, and the offsets it keeps (pop3server.hpp:237),*)
(* go on naming the same mails, whatever is delivered and whoever tries to *)
(* open the box.                                                           *)
SessionsSeeTheirMails ==
  \A p \in PopThreads : pop[p].stage = "open" =>
    IsPrefix(pop[p].mailbox_state, file[pop[p].box])

(* A run of send_mqueue has it in memory.                                  *)
Carries(s, m) == m \in ToSet(sender[s].emails) \cup ToSet(sender[s].unsent)

Held(m, f) ==
  \/ m \in ToSet(file[f])
  \/ <<m, f>> \in removed
  \/ f = Queue /\ (m \in sent \/ \E s \in Senders : Carries(s, m))

(* A mail answered 250 OK is in the files of all its recipients until, in  *)
(* a mailbox, a session deletes it at its client's request or, in the      *)
(* queue, a foreign server takes it; in between a run of send_mqueue may   *)
(* hold it, which ends without the mail lost however its tries go.         *)
(* Not so a mail written into a file that another process had read to      *)
(* write it back: the buffer is flushed after flock is given up            *)
(* (smtpserver.hpp:259), and send_mqueue has no lock while it sends.       *)
AnsweredMailKept == \A x \in answered \ late : Held(x[1], x[2])

KeptLocked(f) == flock[f] = Leaked \/ \E p \in PopThreads : flock[f] = p

(* Deliveries end: no order of the locks of the two servers and            *)
(* send_mqueue makes threads wait for each other.  Only a session that its *)
(* client leaves open on the file of a recipient keeps a delivery waiting, *)
(* or a lock of it that was leaked when PASS found the mutex taken and the *)
(* file unlocked (pop3server.hpp:419).                                     *)
DeliveriesEnd ==
  \A t \in SmtpThreads :
    smtp[t].stage # "idle" ~>
      (smtp[t].stage = "idle" \/ \E f \in ToSet(smtp[t].to) : KeptLocked(f))
=============================================================================
