---------------------------- MODULE Mailbox ----------------------------
(***************************************************************************)
(* The mail of the users (src/frontend/webmail_service.hpp) as rows of the *)
(* storage: for each user a list of received and one of sent mails, and a  *)
(* column per mail.  Every request is served by a thread of its own, and a *)
(* request is a sequence of calls to the storage: lists are read, changed  *)
(* and written back with CPUT, whose answer does not say whether it wrote. *)
(*                                                                         *)
(* A row of the storage is taken to be what RowLog promises: calls on it   *)
(* take effect one after the other.  A call may be executed without an     *)
(* answer, and is then made again, or fail for good                        *)
(* (src/frontend/backend_interface.hpp).                                   *)
(***************************************************************************)
EXTENDS Naturals, Sequences, SequencesExt

CONSTANTS
  Users,      \* users that have signed up
  Strangers,  \* names at localhost that have not
  Outside,    \* an address of another domain
  Mails,      \* email ids (get_unique_id), the bound on mails sent
  Threads,    \* threads that serve requests
  Recipients, \* the recipient lists of requests
  MaxFaults   \* bound: calls to the storage that go wrong

Names == Users \cup Strangers

ASSUME NamesAssumption == Outside \notin Names
ASSUME RecipientsAssumption ==
  \A r \in Recipients : r \in Seq(Names \cup {Outside})
ASSUME FaultsAssumption == MaxFaults \in Nat

(* A box of a name: the columns "r_..." or "s_..." of row <name>_mbox and, *)
(* for a user, the list received_ids or sent_ids.                          *)
Boxes == Names \X {"received", "sent"}
HasList(b) == b[1] \in Users

VARIABLES
  columns,    \* box -> mails that have a column
  ids,        \* box -> received_ids or sent_ids, empty if there is none
  job,        \* thread -> the request it serves
  used,       \* email ids that have been given out
  faults,     \* calls that went wrong, for the bound
  erased,     \* history: box -> mails that had a column a request has deleted
  contended,  \* history: boxes two requests have worked on at the same time
  told        \* history: <<box, mail>> for which store_email returned true

store   == <<columns, ids>>
history == <<erased, contended, told>>
vars    == <<store, job, used, faults, history>>

Idle == [stage |-> "idle"]

Stages == {"deliver", "put", "read", "cput", "erase"}

JobType ==
  [stage : Stages, op : {"send", "delete"}, email_id : Mails, from : Names,
   recipients : Seq(Names \cup {Outside}), send_success : BOOLEAN,
   box : Boxes, old_ids : Seq(Mails), new_ids : Seq(Mails)]

At(t, stage) == job[t].stage = stage

(* Threads that are between their first and last call on box b.            *)
WorkingOn(b) ==
  {t \in Threads : job[t].stage \in Stages \ {"deliver"} /\ job[t].box = b}

Enter(b) == contended' = IF WorkingOn(b) = {} THEN contended ELSE contended \cup {b}

-----------------------------------------------------------------------------
(* register_new_user has put two empty lists for every user.               *)
Init ==
  /\ columns = [b \in Boxes |-> {}]
  /\ ids = [b \in Boxes |-> <<>>]
  /\ job = [t \in Threads |-> Idle]
  /\ used = {} /\ faults = 0
  /\ erased = [b \in Boxes |-> {}] /\ contended = {} /\ told = {}

(* send_email; reply_email and forward_email, which read a mail of the     *)
(* sender first, go on in the same way.                                    *)
send_email(t, from, recipients) ==
  /\ job[t] = Idle
  /\ \E m \in Mails \ used :
       /\ used' = used \cup {m}
       /\ job' = [job EXCEPT ![t] =
                    [stage |-> "deliver", op |-> "send", email_id |-> m, from |-> from,
                     recipients |-> recipients, send_success |-> FALSE,
                     box |-> <<from, "sent">>, old_ids |-> <<>>, new_ids |-> <<>>]]
  /\ UNCHANGED <<store, faults, history>>

(* delete_email, for any id that has been given out: the box may not have  *)
(* the mail yet, never get it, or have lost it since the page was loaded.  *)
(* That the id belongs to the list the request names (sent_inbox) is up to *)
(* the page.                                                               *)
delete_email(t, b, m) ==
  /\ job[t] = Idle
  /\ HasList(b) /\ m \in used
  /\ job' = [job EXCEPT ![t] =
               [stage |-> "read", op |-> "delete", email_id |-> m, from |-> b[1],
                recipients |-> <<>>, send_success |-> FALSE,
                box |-> b, old_ids |-> <<>>, new_ids |-> <<>>]]
  /\ Enter(b)
  /\ UNCHANGED <<store, used, faults, erased, told>>

GoTo(t, stage) == job' = [job EXCEPT ![t].stage = stage]
Done(t)        == job' = [job EXCEPT ![t] = Idle]

(* The loop of send_email_action over the recipients: an address of        *)
(* another domain is mailed to, which may fail; for one at localhost       *)
(* store_email begins.  After the loop the sender's copy is stored if any  *)
(* recipient was reached.  A frontend that writes to a socket that was     *)
(* never connected (webmail_service.hpp:560) ends by SIGPIPE with all its  *)
(* requests: that, like any end of a frontend, is left out.                *)
MailOutside(t) ==
  /\ At(t, "deliver") /\ job[t].recipients # <<>> /\ Head(job[t].recipients) = Outside
  /\ \E reached \in BOOLEAN :
       job' = [job EXCEPT ![t].recipients = Tail(@),
                          ![t].send_success = @ \/ reached]
  /\ UNCHANGED <<store, used, faults, history>>

StoreIn(t, b) ==
  /\ job' = [job EXCEPT ![t].stage = "put", ![t].box = b]
  /\ Enter(b)
  /\ UNCHANGED <<store, used, faults, erased, told>>

(* Mutant: an address of another domain is taken for one at localhost.     *)
TakesAnyDomain(t) ==
  /\ At(t, "deliver") /\ job[t].recipients # <<>>
  /\ StoreIn(t, <<Head(job[t].recipients), "received">>)

NextRecipient(t) ==
  /\ At(t, "deliver") /\ job[t].recipients # <<>> /\ Head(job[t].recipients) # Outside
  /\ StoreIn(t, <<Head(job[t].recipients), "received">>)

SenderCopy(t) ==
  /\ At(t, "deliver") /\ job[t].recipients = <<>> /\ job[t].send_success
  /\ StoreIn(t, <<job[t].from, "sent">>)

NobodyReached(t) ==
  /\ At(t, "deliver") /\ job[t].recipients = <<>> /\ ~ job[t].send_success
  /\ Done(t)
  /\ UNCHANGED <<store, used, faults, history>>

(* store_email returns: with the sender's copy the request is over.        *)
StoreReturns(t, ok) ==
  /\ job' = IF job[t].box[2] = "sent"
            THEN [job EXCEPT ![t] = Idle]
            ELSE [job EXCEPT ![t].stage = "deliver", ![t].recipients = Tail(@),
                             ![t].send_success = @ \/ ok]
  /\ told' = IF ok THEN told \cup {<<job[t].box, job[t].email_id>>} ELSE told

-----------------------------------------------------------------------------
(* What the storage executes for the call a thread is making.              *)
PutEffect(t) ==
  /\ columns' = [columns EXCEPT ![job[t].box] = @ \cup {job[t].email_id}]
  /\ UNCHANGED <<ids, erased>>

(* Mutant: the list is written whatever it is by now.                      *)
PutListEffect(t) ==
  /\ ids' = [ids EXCEPT ![job[t].box] = job[t].new_ids]
  /\ UNCHANGED <<columns, erased>>

(* CPUT compares and writes in one step.                                   *)
CPutEffect(t) ==
  /\ ids' = [ids EXCEPT ![job[t].box] = IF @ = job[t].old_ids THEN job[t].new_ids ELSE @]
  /\ UNCHANGED <<columns, erased>>

EraseEffect(t) ==
  /\ columns' = [columns EXCEPT ![job[t].box] = @ \ {job[t].email_id}]
  /\ erased'  = [erased EXCEPT ![job[t].box] = @ \cup (columns[job[t].box] \cap {job[t].email_id})]
  /\ UNCHANGED ids

(* The calls of store_email and delete_email, answered.                    *)
PutMail(t) ==
  /\ At(t, "put") /\ PutEffect(t)
  /\ GoTo(t, "read")
  /\ UNCHANGED <<used, faults, contended, told>>

(* The list is read; without a list store_email returns false.             *)
ReadIds(t) ==
  LET b == job[t].box IN
  /\ At(t, "read")
  /\ IF HasList(b)
     THEN /\ job' = [job EXCEPT ![t].stage = "cput", ![t].old_ids = ids[b],
                                ![t].new_ids = IF job[t].op = "send"
                                               THEN Append(ids[b], job[t].email_id)
                                               ELSE RemoveFirst(ids[b], job[t].email_id)]
          /\ UNCHANGED told
     ELSE StoreReturns(t, FALSE)
  /\ UNCHANGED <<store, used, faults, erased, contended>>

(* Mutant: the thread of a delete is done when the list is written.        *)
LeavesColumn(t) ==
  /\ At(t, "cput") /\ CPutEffect(t)
  /\ IF job[t].op = "send" THEN StoreReturns(t, TRUE) ELSE Done(t) /\ UNCHANGED told
  /\ UNCHANGED <<used, faults, contended>>

CPutIds(t) ==
  /\ At(t, "cput") /\ CPutEffect(t)
  /\ IF job[t].op = "send"
     THEN StoreReturns(t, TRUE)
     ELSE GoTo(t, "erase") /\ UNCHANGED told
  /\ UNCHANGED <<used, faults, contended>>

EraseMail(t) ==
  /\ At(t, "erase") /\ EraseEffect(t)
  /\ Done(t)
  /\ UNCHANGED <<used, faults, contended, told>>

(* The storage executes the call, but the answer does not arrive.          *)
Unanswered(t) ==
  \/ At(t, "put") /\ PutEffect(t)
  \/ At(t, "cput") /\ CPutEffect(t)
  \/ At(t, "erase") /\ EraseEffect(t)

(* A call that is not answered is made again.                              *)
LoseAnswer(t) ==
  /\ faults < MaxFaults /\ faults' = faults + 1
  /\ Unanswered(t)
  /\ UNCHANGED <<job, used, contended, told>>

(* Mutant: store_email goes on although the mail could not be put.         *)
IgnoresFailedPut(t) ==
  /\ faults < MaxFaults /\ faults' = faults + 1
  /\ At(t, "put") /\ GoTo(t, "read") /\ UNCHANGED told
  /\ UNCHANGED <<store, used, erased, contended>>

(* All tries of a call fail, one of which the storage may have executed.   *)
(* store_email takes a list it could not read for one that need not be     *)
(* changed and returns true.                                               *)
GiveUp(t) ==
  /\ faults < MaxFaults /\ faults' = faults + 1
  /\ \/ At(t, "put") /\ StoreReturns(t, FALSE)
     \/ At(t, "read") /\ job[t].op = "send" /\ StoreReturns(t, TRUE)
     \/ At(t, "cput") /\ job[t].op = "send" /\ StoreReturns(t, FALSE)
     \/ /\ At(t, "read") \/ At(t, "cput") \/ At(t, "erase")
        /\ job[t].op = "delete"
        /\ Done(t) /\ UNCHANGED told
  /\ Unanswered(t) \/ UNCHANGED <<store, erased>>
  /\ UNCHANGED <<used, contended>>

(* A step of a thread in its request.                                      *)
Serve(t) ==
  \/ MailOutside(t) \/ NextRecipient(t) \/ SenderCopy(t) \/ NobodyReached(t)
  \/ PutMail(t) \/ ReadIds(t) \/ CPutIds(t) \/ EraseMail(t)
  \/ LoseAnswer(t) \/ GiveUp(t)

-----------------------------------------------------------------------------
MailTypeOK ==
  /\ columns \in [Boxes -> SUBSET Mails]
  /\ ids \in [Boxes -> Seq(Mails)]
  /\ \A b \in Boxes : ~ HasList(b) => ids[b] = <<>>
  /\ job \in [Threads -> JobType \cup {Idle}]
  /\ used \subseteq Mails
  /\ faults \in 0 .. MaxFaults
  /\ erased \in [Boxes -> SUBSET Mails]
  /\ contended \subseteq Boxes
  /\ told \subseteq Boxes \X Mails

(* Whatever requests and failures are interleaved, a list is changed only  *)
(* by the request of the mail that appears or disappears: CPUT protects    *)
(* the entries other requests have made since the list was read            *)
(* (webmail_service.hpp:410).                                              *)
OnlyOwnEntry ==
  [][\A b \in Boxes : ids'[b] # ids[b] =>
       \E t \in WorkingOn(b) :
         \/ job[t].op = "send"   /\ ids'[b] = Append(ids[b], job[t].email_id)
         \/ job[t].op = "delete" /\ ids'[b] = RemoveFirst(ids[b], job[t].email_id)]_vars

(* A mail is stored before it is listed, so a listed mail can be shown     *)
(* unless a request has deleted it (webmail_service.hpp:391).              *)
ListedWasStored ==
  \A b \in Boxes : ToSet(ids[b]) \subseteq columns[b] \cup erased[b]

(* As long as no call has gone wrong, a box that two requests never worked *)
(* on at once keeps no mail that cannot be shown, and lists every mail for *)
(* which store_email has returned true until a request deletes it          *)
(* (webmail_service.hpp:159, :397).                                        *)
SettledBoxesComplete ==
  \A b \in Boxes : (faults = 0 /\ HasList(b) /\ b \notin contended) =>
    /\ WorkingOn(b) = {} => columns[b] \subseteq ToSet(ids[b])
    /\ \A m \in Mails : <<b, m>> \in told =>
         \/ m \in ToSet(ids[b]) \cup erased[b]
         \/ \E t \in WorkingOn(b) : job[t].op = "delete" /\ job[t].email_id = m
=============================================================================
