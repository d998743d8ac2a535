--------------------------- MODULE MailboxProofs ---------------------------
(***************************************************************************)
(* What is proved of Mailbox and SmtpSession for any users, mails, threads *)
(* and failing calls: types, that a listed mail was stored, that a list is *)
(* changed only for the mail of the request that changes it, that no text  *)
(* is read for a mail without sender or recipient, and that a box which    *)
(* was left to one request at a time lists exactly its mails.              *)
(***************************************************************************)
EXTENDS SmtpSession, FiniteSetTheorems, SequenceTheorems,
        WellFoundedInduction, TLAPS

USE NamesAssumption, RecipientsAssumption, FaultsAssumption,
    ConnectionsAssumption, SenderAssumption, MaxRecipientsAssumption

-----------------------------------------------------------------------------
(* remove_id gives a list of some of the ids.                              *)
LEMMA MinOfIndices ==
  ASSUME NEW n \in Nat, NEW S, S \subseteq 1 .. n, S # {}
  PROVE  Min(S) \in S
<1> DEFINE T == {1 .. i : i \in S}
<1>1. IsWellFoundedOn(StrictSubsetOrdering(1 .. n), SUBSET (1 .. n))
  <2>1. IsFiniteSet(1 .. n)
    BY FS_Interval
  <2>2. FiniteSubsetsOf(1 .. n) = SUBSET (1 .. n)
    BY <2>1, FS_FiniteSubsetsOfFinite
  <2> QED
    BY ONLY <2>2, FS_StrictSubsetOrderingWellFounded
<1>2. T \subseteq SUBSET (1 .. n) /\ T # {}
  <2>1. ASSUME NEW i \in S PROVE 1 .. i \subseteq 1 .. n
    OBVIOUS
  <2>2. T \subseteq SUBSET (1 .. n)
    BY ONLY <2>1, Zenon
  <2> QED
    BY ONLY <2>2, S # {}
<1>3. PICK X \in T : \A Y \in T : ~ (<<Y, X>> \in StrictSubsetOrdering(1 .. n))
  BY ONLY <1>1, <1>2, WFMin
<1>4. PICK x \in S : X = 1 .. x
  OBVIOUS
<1>5. ASSUME NEW y \in S, y < x PROVE FALSE
  <2>1. 1 .. y \in T /\ 1 .. y \in SUBSET (1 .. n) /\ X \in SUBSET (1 .. n)
    BY <1>2
  <2>2. 1 .. y \subseteq X /\ 1 .. y # X
    BY <1>4, <1>5
  <2> HIDE DEF T
  <2> QED
    BY <1>3, <2>1, <2>2 DEF StrictSubsetOrdering
<1>6. \A y \in S : x =< y
  BY <1>5
<1> QED
  BY <1>6 DEF Min

LEMMA RemoveFirstOfSeq ==
  ASSUME NEW S, NEW s \in Seq(S), NEW e
  PROVE  /\ RemoveFirst(s, e) \in Seq(S)
         /\ ToSet(RemoveFirst(s, e)) \subseteq ToSet(s)
         /\ ToSet(s) \subseteq ToSet(RemoveFirst(s, e)) \cup {e}
<1> DEFINE I == {i \in 1 .. Len(s) : s[i] = e}
           k == Min(I)
<1>1. CASE I = {}
  BY <1>1 DEF RemoveFirst
<1>2. CASE I # {}
  <2>1. k \in 1 .. Len(s) /\ s[k] = e
    <3>0. k \in I => k \in 1 .. Len(s) /\ s[k] = e
      OBVIOUS
    <3>1. I \subseteq 1 .. Len(s) /\ Len(s) \in Nat
      OBVIOUS
    <3> HIDE DEF I
    <3> QED
      BY <1>2, <3>0, <3>1, MinOfIndices
  <2>2. RemoveFirst(s, e) = SubSeq(s, 1, k - 1) \o SubSeq(s, k + 1, Len(s))
    BY <1>2 DEF RemoveFirst, RemoveAt, SelectInSeq
  <2> HIDE DEF k
  <2>3. RemoveFirst(s, e) \in Seq(S)
    BY <2>1, <2>2
  <2>4. /\ Len(RemoveFirst(s, e)) = Len(s) - 1
        /\ \A i \in 1 .. Len(s) - 1 :
             RemoveFirst(s, e)[i] = IF i < k THEN s[i] ELSE s[i + 1]
    <3>1. SubSeq(s, 1, k - 1) \in Seq(S) /\ SubSeq(s, k + 1, Len(s)) \in Seq(S)
      BY <2>1
    <3>2. /\ Len(SubSeq(s, 1, k - 1)) = k - 1
          /\ \A i \in 1 .. k - 1 : SubSeq(s, 1, k - 1)[i] = s[i]
      BY <2>1
    <3>3. /\ Len(SubSeq(s, k + 1, Len(s))) = Len(s) - k
          /\ \A i \in 1 .. Len(s) - k : SubSeq(s, k + 1, Len(s))[i] = s[k + i]
      BY <2>1
    <3> DEFINE a == SubSeq(s, 1, k - 1)
               b == SubSeq(s, k + 1, Len(s))
    <3> HIDE DEF a, b
    <3>4. /\ Len(a \o b) = Len(a) + Len(b)
          /\ \A i \in 1 .. Len(a) + Len(b) :
               (a \o b)[i] = IF i <= Len(a) THEN a[i] ELSE b[i - Len(a)]
      BY ONLY <3>1, ConcatProperties DEF a, b
    <3>5. Len(a \o b) = Len(s) - 1
      <4>1. Len(a) = k - 1 /\ Len(b) = Len(s) - k
        BY <3>2, <3>3 DEF a, b
      <4>2. Len(a \o b) = (k - 1) + (Len(s) - k)
        BY <3>4, <4>1
      <4> QED
        BY <2>1, <4>2
    <3>6. ASSUME NEW i \in 1 .. Len(s) - 1
          PROVE  (a \o b)[i] = IF i < k THEN s[i] ELSE s[i + 1]
      <4>1. Len(a) = k - 1 /\ Len(b) = Len(s) - k
        BY <3>2, <3>3 DEF a, b
      <4>2. CASE i < k
        BY <2>1, <3>2, <3>4, <4>1, <4>2 DEF a
      <4>3. CASE ~ (i < k)
        <5>1. (a \o b)[i] = b[i - (k - 1)]
          BY <2>1, <3>4, <4>1, <4>3
        <5>2. i - (k - 1) \in 1 .. Len(s) - k /\ k + (i - (k - 1)) = i + 1
          BY <2>1, <4>3
        <5> QED
          BY <4>3, <5>1, <5>2, <3>3 DEF b
      <4> QED
        BY <4>2, <4>3
    <3>7. RemoveFirst(s, e) = a \o b
      BY <2>2 DEF a, b
    <3> QED
      BY <2>1, <3>5, <3>6, <3>7
  <2> DEFINE r == RemoveFirst(s, e)
             n == Len(s)
  <2>n. n \in Nat /\ DOMAIN s = 1 .. n
    OBVIOUS
  <2>d. DOMAIN r = 1 .. n - 1
    <3>1. DOMAIN r = 1 .. Len(r)
      BY <2>3
    <3> QED
      BY <2>4, <3>1
  <2> HIDE DEF r, n
  <2>5. ASSUME NEW i \in 1 .. n - 1 PROVE \E j \in 1 .. n : r[i] = s[j]
    <3>1. i \in 1 .. n /\ i + 1 \in 1 .. n
      BY <2>n
    <3> QED
      BY <2>4, <3>1 DEF r, n
  <2>6. ASSUME NEW j \in 1 .. n, s[j] # e PROVE \E i \in 1 .. n - 1 : r[i] = s[j]
    <3>1. k \in 1 .. n /\ j # k
      BY <2>1, <2>6 DEF n
    <3>2. CASE j < k
      <4>1. j \in 1 .. n - 1
        BY <2>n, <3>1, <3>2
      <4> QED
        BY <2>4, <3>2, <4>1 DEF r, n
    <3>3. CASE ~ (j < k)
      <4>1. j - 1 \in 1 .. n - 1 /\ (j - 1) + 1 = j /\ ~ (j - 1 < k)
        BY <2>n, <3>1, <3>3
      <4>2. r[j - 1] = s[j]
        BY <2>4, <4>1 DEF r, n
      <4> QED
        BY <4>1, <4>2
    <3> QED
      BY <3>2, <3>3
  <2>7. ToSet(r) \subseteq ToSet(s) /\ ToSet(s) \subseteq ToSet(r) \cup {e}
    BY <2>n, <2>d, <2>5, <2>6 DEF ToSet
  <2> QED
    BY <2>3, <2>7 DEF r
<1> QED
  BY <1>1, <1>2

-----------------------------------------------------------------------------
(* The strengthening: what the local variables of a request tell about the *)
(* rows.  That a listed mail is stored needs the thread that is about to   *)
(* list it to have put it.                                                 *)
Consistent(t) ==
  /\ At(t, "deliver") \/ At(t, "put") => job[t].op = "send"
  /\ job[t].stage \in Stages /\ job[t].op = "delete" => HasList(job[t].box)
  /\ /\ At(t, "put") \/ At(t, "read") \/ At(t, "cput")
     /\ job[t].op = "send" /\ job[t].box[2] = "received"
     => job[t].recipients # <<>>
  /\ (At(t, "read") \/ At(t, "cput")) /\ job[t].op = "send"
     => job[t].email_id \in columns[job[t].box] \cup erased[job[t].box]
  /\ At(t, "cput") =>
       /\ HasList(job[t].box)
       /\ job[t].new_ids = IF job[t].op = "send"
                           THEN Append(job[t].old_ids, job[t].email_id)
                           ELSE RemoveFirst(job[t].old_ids, job[t].email_id)

MailInv == MailTypeOK /\ ListedWasStored /\ (\A t \in Threads : Consistent(t))

(* What a call to the storage may do to the rows: mails that were stored   *)
(* once stay stored or are noted as erased.                                *)
StoreStep ==
  /\ columns' \in [Boxes -> SUBSET Mails]
  /\ ids' \in [Boxes -> Seq(Mails)]
  /\ erased' \in [Boxes -> SUBSET Mails]
  /\ \A b \in Boxes : ~ HasList(b) => ids'[b] = <<>>
  /\ \A b \in Boxes : columns[b] \cup erased[b] \subseteq columns'[b] \cup erased'[b]
  /\ \A b \in Boxes : ToSet(ids'[b]) \subseteq columns'[b] \cup erased'[b]

LEMMA BusyJob ==
  ASSUME MailTypeOK, NEW t \in Threads, job[t].stage \in Stages
  PROVE  job[t] \in JobType
BY DEF MailTypeOK, Idle, Stages

LEMMA NoEffect ==
  ASSUME MailInv, UNCHANGED <<store, erased>>
  PROVE  StoreStep
BY DEF MailInv, MailTypeOK, ListedWasStored, StoreStep, store

LEMMA PutEffectOK ==
  ASSUME MailInv, NEW t \in Threads, At(t, "put"), PutEffect(t)
  PROVE  StoreStep /\ job[t].email_id \in columns'[job[t].box]
<1>1. job[t] \in JobType
  BY BusyJob DEF MailInv, At, Stages
<1>2. job[t].box \in Boxes /\ job[t].email_id \in Mails
  BY <1>1 DEF JobType
<1> QED
  BY <1>2 DEF MailInv, MailTypeOK, ListedWasStored, StoreStep, PutEffect

LEMMA AppendedSet ==
  ASSUME NEW S, NEW s \in Seq(S), NEW e \in S
  PROVE  ToSet(Append(s, e)) = ToSet(s) \cup {e}
<1>1. /\ Len(Append(s, e)) = Len(s) + 1
      /\ \A i \in 1 .. Len(s) : Append(s, e)[i] = s[i]
      /\ Append(s, e)[Len(s) + 1] = e
  BY AppendProperties
<1>2. DOMAIN s = 1 .. Len(s) /\ DOMAIN Append(s, e) = 1 .. Len(s) + 1
  BY <1>1
<1> QED
  BY <1>1, <1>2 DEF ToSet

LEMMA CPutEffectOK ==
  ASSUME MailInv, NEW t \in Threads, At(t, "cput"), CPutEffect(t)
  PROVE  StoreStep
<1> DEFINE b == job[t].box
           e == job[t].email_id
<1>1. job[t] \in JobType
  BY BusyJob DEF MailInv, At, Stages
<1>2. b \in Boxes /\ e \in Mails /\ ids[b] \in Seq(Mails)
  BY <1>1 DEF JobType, MailInv, MailTypeOK
<1>3. HasList(b) /\ columns' = columns /\ erased' = erased
  BY DEF MailInv, Consistent, CPutEffect
<1>4. /\ ids'[b] \in Seq(Mails)
      /\ ToSet(ids'[b]) \subseteq columns[b] \cup erased[b]
  <2>1. ids'[b] = IF ids[b] = job[t].old_ids THEN job[t].new_ids ELSE ids[b]
    BY <1>2 DEF CPutEffect, MailInv, MailTypeOK
  <2>2. ToSet(ids[b]) \subseteq columns[b] \cup erased[b]
    BY <1>2 DEF MailInv, ListedWasStored
  <2>3. CASE ids[b] # job[t].old_ids
    BY <1>2, <2>1, <2>2, <2>3
  <2>4. CASE ids[b] = job[t].old_ids /\ job[t].op = "send"
    <3>1. ids'[b] = Append(ids[b], e)
      BY <2>1, <2>4 DEF MailInv, Consistent
    <3>2. e \in columns[b] \cup erased[b]
      BY <2>4 DEF MailInv, Consistent
    <3>3. ToSet(Append(ids[b], e)) = ToSet(ids[b]) \cup {e}
      BY <1>2, AppendedSet
    <3> QED
      BY <1>2, <2>2, <3>1, <3>2, <3>3
  <2>5. CASE ids[b] = job[t].old_ids /\ job[t].op # "send"
    <3>1. ids'[b] = RemoveFirst(ids[b], e)
      BY <2>1, <2>5 DEF MailInv, Consistent
    <3> QED
      BY <1>2, <2>2, <3>1, RemoveFirstOfSeq
  <2> QED
    BY <2>3, <2>4, <2>5
<1>5. ids' = [ids EXCEPT ![b] = ids'[b]]
  BY <1>2 DEF CPutEffect, MailInv, MailTypeOK
<1> HIDE DEF b, e
<1> QED
  BY <1>2, <1>3, <1>4, <1>5 DEF MailInv, MailTypeOK, ListedWasStored, StoreStep

LEMMA EraseEffectOK ==
  ASSUME MailInv, NEW t \in Threads, At(t, "erase"), EraseEffect(t)
  PROVE  StoreStep
<1>1. job[t] \in JobType
  BY BusyJob DEF MailInv, At, Stages
<1>2. job[t].box \in Boxes /\ job[t].email_id \in Mails
  BY <1>1 DEF JobType
<1> QED
  BY <1>2 DEF MailInv, MailTypeOK, ListedWasStored, StoreStep, EraseEffect

LEMMA UnansweredOK ==
  ASSUME MailInv, NEW t \in Threads, Unanswered(t)
  PROVE  StoreStep
BY PutEffectOK, CPutEffectOK, EraseEffectOK DEF Unanswered

(* A step of one thread keeps the invariant if the thread's own record is  *)
(* right and the rows are changed by a call to the storage or not at all.  *)
LEMMA ThreadStep ==
  ASSUME MailInv, NEW t \in Threads, StoreStep,
         job' = [job EXCEPT ![t] = job'[t]], job'[t] \in JobType \cup {Idle},
         Consistent(t)',
         used' \subseteq Mails, faults' \in 0 .. MaxFaults,
         contended' \subseteq Boxes, told' \subseteq Boxes \X Mails
  PROVE  MailInv'
<1>1. MailTypeOK'
  BY DEF MailInv, MailTypeOK, StoreStep
<1>2. ListedWasStored'
  BY DEF ListedWasStored, StoreStep
<1>3. ASSUME NEW u \in Threads, u # t PROVE Consistent(u)'
  <2>1. job'[u] = job[u]
    BY <1>3 DEF MailInv, MailTypeOK
  <2>2. job[u] \in JobType \/ job[u] = Idle
    BY DEF MailInv, MailTypeOK
  <2>3. Consistent(u)
    BY DEF MailInv
  <2>4. CASE job[u] = Idle
    BY <2>1, <2>4 DEF Consistent, At, Idle, Stages
  <2>5. CASE job[u] \in JobType
    <3>1. job[u].box \in Boxes
      BY <2>5 DEF JobType
    <3>2. columns[job[u].box] \cup erased[job[u].box]
            \subseteq columns'[job[u].box] \cup erased'[job[u].box]
      BY <3>1 DEF StoreStep
    <3> QED
      BY <2>1, <2>3, <3>2 DEF Consistent, At, HasList
  <2> QED
    BY <2>2, <2>4, <2>5
<1> QED
  BY <1>1, <1>2, <1>3 DEF MailInv

-----------------------------------------------------------------------------
(* The steps of a thread, one lemma for each kind.                         *)
LEMMA Untouched ==
  ASSUME MailInv
  PROVE  /\ used \subseteq Mails /\ faults \in 0 .. MaxFaults
         /\ contended \subseteq Boxes /\ told \subseteq Boxes \X Mails
         /\ job \in [Threads -> JobType \cup {Idle}]
BY DEF MailInv, MailTypeOK

LEMMA SendStep ==
  ASSUME MailInv, NEW t \in Threads, NEW from \in Names,
         NEW recipients \in Seq(Names \cup {Outside}), send_email(t, from, recipients)
  PROVE  MailInv'
<1>1. PICK m \in Mails :
        /\ used' = used \cup {m}
        /\ job' = [job EXCEPT ![t] =
              [stage |-> "deliver", op |-> "send", email_id |-> m, from |-> from,
               recipients |-> recipients, send_success |-> FALSE,
               box |-> <<from, "sent">>, old_ids |-> <<>>, new_ids |-> <<>>]]
  BY DEF send_email
<1>2. UNCHANGED <<store, faults, history>>
  BY DEF send_email
<1>3. job' = [job EXCEPT ![t] = job'[t]] /\ job'[t] \in JobType
  BY <1>1, Untouched DEF JobType, Stages, Boxes
<1>4. Consistent(t)'
  BY <1>1, Untouched DEF Consistent, At
<1>5. StoreStep
  BY <1>2, NoEffect DEF history
<1> QED
  BY <1>1, <1>2, <1>3, <1>4, <1>5, Untouched, ThreadStep DEF history

LEMMA DeleteStep ==
  ASSUME MailInv, NEW t \in Threads, NEW b \in Boxes, NEW m \in Mails,
         delete_email(t, b, m)
  PROVE  MailInv'
<1>1. job' = [job EXCEPT ![t] =
            [stage |-> "read", op |-> "delete", email_id |-> m, from |-> b[1],
             recipients |-> <<>>, send_success |-> FALSE,
             box |-> b, old_ids |-> <<>>, new_ids |-> <<>>]]
  BY DEF delete_email
<1>2. /\ HasList(b) /\ contended' \subseteq Boxes
      /\ UNCHANGED <<store, used, faults, erased, told>>
  BY Untouched DEF delete_email, Enter
<1>3. job' = [job EXCEPT ![t] = job'[t]] /\ job'[t] \in JobType
  BY <1>1, Untouched DEF JobType, Stages, Boxes
<1>4. Consistent(t)'
  BY <1>1, <1>2, Untouched DEF Consistent, At, HasList
<1>5. StoreStep
  BY <1>2, NoEffect
<1> QED
  BY <1>2, <1>3, <1>4, <1>5, Untouched, ThreadStep

(* The steps of the loop over the recipients.                              *)
LEMMA DeliverStep ==
  ASSUME MailInv, NEW t \in Threads,
         MailOutside(t) \/ NextRecipient(t) \/ SenderCopy(t) \/ NobodyReached(t)
  PROVE  MailInv'
<1>1. At(t, "deliver") /\ job[t] \in JobType /\ job[t].op = "send"
  <2>1. At(t, "deliver")
    BY DEF MailOutside, NextRecipient, SenderCopy, NobodyReached
  <2> QED
    BY <2>1, BusyJob DEF MailInv, Consistent, At, Stages
<1>2. /\ job[t].recipients \in Seq(Names \cup {Outside})
      /\ job[t].from \in Names
  BY <1>1 DEF JobType
<1>3. StoreStep
  BY NoEffect DEF MailOutside, NextRecipient, SenderCopy, NobodyReached, StoreIn, history
<1>4. used' = used /\ faults' = faults /\ told' = told
  BY DEF MailOutside, NextRecipient, SenderCopy, NobodyReached, StoreIn, history
<1>5. CASE MailOutside(t)
  <2>1. PICK reached \in BOOLEAN :
          job' = [job EXCEPT ![t].recipients = Tail(@), ![t].send_success = @ \/ reached]
    BY <1>5 DEF MailOutside
  <2>2. job'[t] \in JobType /\ job' = [job EXCEPT ![t] = job'[t]]
    <3>1. job'[t] = [job[t] EXCEPT !.recipients = Tail(job[t].recipients),
                                   !.send_success = job[t].send_success \/ reached]
      BY <2>1, Untouched, Zenon
    <3>2. Tail(job[t].recipients) \in Seq(Names \cup {Outside})
      BY <1>2, <1>5 DEF MailOutside
    <3>3. (job[t].send_success \/ reached) \in BOOLEAN
      OBVIOUS
    <3> QED
      BY <1>1, <2>1, <3>1, <3>2, <3>3, Untouched, Zenon DEF JobType
  <2>3. Consistent(t)'
    BY <1>1, <2>1, Untouched DEF Consistent, At
  <2>4. contended' = contended
    BY <1>5 DEF MailOutside, history
  <2> QED
    BY <1>3, <1>4, <2>2, <2>3, <2>4, Untouched, ThreadStep
<1>6. ASSUME NEW b \in Boxes, StoreIn(t, b),
             b[2] = "received" => job[t].recipients # <<>>
      PROVE  MailInv'
  <2>1. job' = [job EXCEPT ![t].stage = "put", ![t].box = b]
    BY <1>6 DEF StoreIn
  <2>2. job'[t] \in JobType /\ job' = [job EXCEPT ![t] = job'[t]]
    BY <1>1, <1>6, <2>1, Untouched DEF JobType, Stages
  <2>3. Consistent(t)'
    BY <1>1, <1>6, <2>1, Untouched DEF Consistent, At
  <2>4. contended' \subseteq Boxes
    BY <1>6, Untouched DEF StoreIn, Enter
  <2> QED
    BY <1>3, <1>4, <2>2, <2>3, <2>4, Untouched, ThreadStep
<1>7. CASE NextRecipient(t)
  <2>1. Head(job[t].recipients) \in Names /\ job[t].recipients # <<>>
    BY <1>2, <1>7 DEF NextRecipient
  <2>2. <<Head(job[t].recipients), "received">> \in Boxes
    BY <2>1 DEF Boxes
  <2> QED
    BY <1>6, <1>7, <2>1, <2>2 DEF NextRecipient
<1>8. CASE SenderCopy(t)
  <2>1. <<job[t].from, "sent">> \in Boxes
    BY <1>2 DEF Boxes
  <2> QED
    BY <1>6, <1>8, <2>1 DEF SenderCopy
<1>9. CASE NobodyReached(t)
  <2>1. job' = [job EXCEPT ![t] = Idle] /\ contended' = contended
    BY <1>9 DEF NobodyReached, Done, history
  <2>2. job'[t] \in JobType \cup {Idle} /\ job' = [job EXCEPT ![t] = job'[t]]
    BY <2>1, Untouched
  <2>3. Consistent(t)'
    BY <2>1, Untouched DEF Consistent, At, Idle, Stages
  <2> QED
    BY <1>3, <1>4, <2>1, <2>2, <2>3, Untouched, ThreadStep
<1> QED
  BY <1>5, <1>7, <1>8, <1>9

(* What the return of store_email makes of the thread's record.            *)
LEMMA StoreReturned ==
  ASSUME MailInv, NEW t \in Threads, NEW ok \in BOOLEAN, StoreReturns(t, ok),
         At(t, "put") \/ At(t, "read") \/ At(t, "cput"), job[t].op = "send"
  PROVE  /\ job'[t] \in JobType \cup {Idle}
         /\ job' = [job EXCEPT ![t] = job'[t]]
         /\ Consistent(t)'
         /\ told' \subseteq Boxes \X Mails
<1>1. job[t] \in JobType
  BY BusyJob DEF MailInv, At, Stages
<1>2. /\ job[t].box \in Boxes /\ job[t].email_id \in Mails
      /\ job[t].send_success \in BOOLEAN
      /\ job[t].recipients \in Seq(Names \cup {Outside})
  BY <1>1 DEF JobType
<1>3. told' \subseteq Boxes \X Mails
  BY <1>2, Untouched DEF StoreReturns
<1>4. CASE job[t].box[2] = "sent"
  <2>1. job' = [job EXCEPT ![t] = Idle]
    BY <1>4 DEF StoreReturns
  <2> QED
    BY <1>3, <2>1, Untouched DEF Consistent, At, Idle, Stages
<1>5. CASE job[t].box[2] # "sent"
  <2> DEFINE j == [job[t] EXCEPT !.stage = "deliver", !.recipients = Tail(job[t].recipients),
                                 !.send_success = job[t].send_success \/ ok]
  <2>1. job' = [job EXCEPT ![t] = j]
    BY <1>5, Untouched, Zenon DEF StoreReturns
  <2>2. job[t].box[2] = "received" /\ job[t].recipients # <<>>
    BY <1>2, <1>5 DEF Boxes, MailInv, Consistent
  <2>3. Tail(job[t].recipients) \in Seq(Names \cup {Outside})
    BY <1>2, <2>2
  <2>4. (job[t].send_success \/ ok) \in BOOLEAN /\ "deliver" \in Stages
    BY DEF Stages
  <2>5. j \in JobType
    BY <1>1, <2>3, <2>4, Zenon DEF JobType
  <2>6. job'[t] = j
    BY <2>1, Untouched
  <2>7. j.stage = "deliver" /\ j.op = "send"
    BY <1>1 DEF JobType
  <2> HIDE DEF j
  <2>8. job' = [job EXCEPT ![t] = job'[t]]
    BY <2>1, <2>6, Zenon
  <2>9. Consistent(t)'
    BY <2>6, <2>7 DEF Consistent, At
  <2> QED
    BY <1>3, <2>5, <2>6, <2>8, <2>9
<1> QED
  BY <1>4, <1>5

(* The calls to the storage that are answered.                             *)
LEMMA CallStep ==
  ASSUME MailInv, NEW t \in Threads,
         PutMail(t) \/ ReadIds(t) \/ CPutIds(t) \/ EraseMail(t)
  PROVE  MailInv'
<1>1. job[t] \in JobType
  <2>1. job[t].stage \in Stages
    BY DEF PutMail, ReadIds, CPutIds, EraseMail, At, Stages
  <2> QED
    BY <2>1, BusyJob DEF MailInv
<1>2. job[t].box \in Boxes /\ job[t].email_id \in Mails /\ job[t].op \in {"send", "delete"}
  BY <1>1 DEF JobType
<1>3. used' = used /\ faults' = faults /\ contended' = contended
  BY DEF PutMail, ReadIds, CPutIds, EraseMail
<1>4. CASE PutMail(t)
  <2>1. /\ StoreStep
        /\ job[t].email_id \in columns'[job[t].box]
    BY <1>4, PutEffectOK DEF PutMail
  <2>2. job' = [job EXCEPT ![t].stage = "read"] /\ told' = told
    BY <1>4 DEF PutMail, GoTo
  <2>3. job'[t] \in JobType /\ job' = [job EXCEPT ![t] = job'[t]]
    BY <1>1, <2>2, Untouched DEF JobType, Stages
  <2>4. Consistent(t)
    BY DEF MailInv
  <2>5. Consistent(t)'
    BY <1>1, <1>4, <2>1, <2>2, <2>4, Untouched DEF Consistent, At, PutMail, Stages
  <2> QED
    BY <1>3, <2>1, <2>2, <2>3, <2>5, Untouched, ThreadStep
<1>5. CASE ReadIds(t)
  <2>1. StoreStep /\ UNCHANGED <<columns, erased>>
    BY <1>5, NoEffect DEF ReadIds, store
  <2>2. Consistent(t)
    BY DEF MailInv
  <2>3. CASE HasList(job[t].box)
    <3> DEFINE old == ids[job[t].box]
               new == IF job[t].op = "send" THEN Append(old, job[t].email_id)
                                            ELSE RemoveFirst(old, job[t].email_id)
               j == [job[t] EXCEPT !.stage = "cput", !.old_ids = old, !.new_ids = new]
    <3>1. job' = [job EXCEPT ![t] = j] /\ told' = told
      BY <1>5, <2>3, Untouched, Zenon DEF ReadIds
    <3>2. old \in Seq(Mails)
      BY <1>2 DEF MailInv, MailTypeOK
    <3>3. new \in Seq(Mails)
      BY <1>2, <3>2, RemoveFirstOfSeq
    <3>4. /\ j.stage = "cput" /\ j.op = job[t].op /\ j.box = job[t].box
          /\ j.email_id = job[t].email_id /\ j.recipients = job[t].recipients
          /\ j.old_ids = old /\ j.new_ids = new
      BY <1>1 DEF JobType
    <3>5. j \in JobType
      BY <1>1, <3>2, <3>3 DEF JobType, Stages
    <3>6. job'[t] = j
      BY <3>1, Untouched
    <3> HIDE DEF j
    <3>7. job' = [job EXCEPT ![t] = job'[t]]
      BY <3>1, <3>6
    <3>8. Consistent(t)'
      BY <1>5, <2>1, <2>2, <2>3, <3>4, <3>6 DEF Consistent, At, ReadIds, Stages, HasList
    <3> QED
      BY <1>3, <2>1, <3>1, <3>5, <3>6, <3>7, <3>8, Untouched, ThreadStep
  <2>4. CASE ~ HasList(job[t].box)
    <3>1. StoreReturns(t, FALSE)
      BY <1>5, <2>4 DEF ReadIds
    <3>2. job[t].op = "send" /\ At(t, "read")
      BY <1>2, <1>5, <2>2, <2>4 DEF Consistent, ReadIds, At, Stages
    <3> QED
      BY <1>3, <2>1, <3>1, <3>2, StoreReturned, Untouched, ThreadStep
  <2> QED
    BY <2>3, <2>4
<1>6. CASE CPutIds(t)
  <2>1. StoreStep /\ At(t, "cput")
    BY <1>6, CPutEffectOK DEF CPutIds
  <2>2. CASE job[t].op = "send"
    <3>1. StoreReturns(t, TRUE)
      BY <1>6, <2>2 DEF CPutIds
    <3> QED
      BY <1>3, <2>1, <2>2, <3>1, StoreReturned, Untouched, ThreadStep
  <2>3. CASE job[t].op # "send"
    <3>1. job' = [job EXCEPT ![t].stage = "erase"] /\ told' = told
      BY <1>6, <2>3 DEF CPutIds, GoTo
    <3>2. job'[t] \in JobType /\ job' = [job EXCEPT ![t] = job'[t]]
      BY <1>1, <3>1, Untouched DEF JobType, Stages
    <3>3. Consistent(t)
      BY DEF MailInv
    <3>4. Consistent(t)'
      BY <1>1, <2>1, <3>1, <3>3, Untouched DEF Consistent, At, Stages, HasList
    <3> QED
      BY <1>3, <2>1, <3>1, <3>2, <3>4, Untouched, ThreadStep
  <2> QED
    BY <2>2, <2>3
<1>7. CASE EraseMail(t)
  <2>1. StoreStep
    BY <1>7, EraseEffectOK DEF EraseMail
  <2>2. job' = [job EXCEPT ![t] = Idle] /\ told' = told
    BY <1>7 DEF EraseMail, Done
  <2>3. job'[t] \in JobType \cup {Idle} /\ job' = [job EXCEPT ![t] = job'[t]]
    BY <2>2, Untouched
  <2>4. Consistent(t)'
    BY <2>2, Untouched DEF Consistent, At, Idle, Stages
  <2> QED
    BY <1>3, <2>1, <2>2, <2>3, <2>4, Untouched, ThreadStep
<1> QED
  BY <1>4, <1>5, <1>6, <1>7

(* The calls that go wrong.                                                *)
LEMMA FaultStep ==
  ASSUME MailInv, NEW t \in Threads, LoseAnswer(t) \/ GiveUp(t)
  PROVE  MailInv'
<1>1. StoreStep /\ faults' \in 0 .. MaxFaults /\ used' = used /\ contended' = contended
  <2>1. Unanswered(t) \/ UNCHANGED <<store, erased>>
    BY DEF LoseAnswer, GiveUp
  <2>2. StoreStep
    BY <2>1, NoEffect, UnansweredOK
  <2>3. faults < MaxFaults /\ faults' = faults + 1
    BY DEF LoseAnswer, GiveUp
  <2>4. used' = used /\ contended' = contended
    BY DEF LoseAnswer, GiveUp
  <2> QED
    BY <2>2, <2>3, <2>4, Untouched
<1>2. CASE LoseAnswer(t)
  <2>1. job' = job /\ told' = told
    BY <1>2 DEF LoseAnswer
  <2>2. job' = [job EXCEPT ![t] = job'[t]] /\ job'[t] \in JobType \cup {Idle}
    BY <2>1, Untouched
  <2>3. Consistent(t)
    BY DEF MailInv
  <2>4. job[t] \in JobType /\ job[t].stage \in Stages
    BY <1>2, BusyJob DEF LoseAnswer, Unanswered, At, Stages, MailInv
  <2>5. columns[job[t].box] \cup erased[job[t].box]
          \subseteq columns'[job[t].box] \cup erased'[job[t].box]
    BY <1>1, <2>4 DEF StoreStep, JobType
  <2>6. Consistent(t)'
    BY <2>1, <2>3, <2>5 DEF Consistent, At, HasList
  <2> QED
    BY <1>1, <2>1, <2>2, <2>6, Untouched, ThreadStep
<1>3. CASE GiveUp(t)
  <2>1. ASSUME NEW ok \in BOOLEAN, StoreReturns(t, ok), job[t].op = "send",
               At(t, "put") \/ At(t, "read") \/ At(t, "cput")
        PROVE  MailInv'
    BY <1>1, <2>1, StoreReturned, Untouched, ThreadStep
  <2>2. ASSUME Done(t), told' = told PROVE MailInv'
    <3>1. job' = [job EXCEPT ![t] = Idle]
      BY <2>2 DEF Done
    <3>2. job'[t] \in JobType \cup {Idle} /\ job' = [job EXCEPT ![t] = job'[t]]
      BY <3>1, Untouched
    <3>3. Consistent(t)'
      BY <3>1, Untouched DEF Consistent, At, Idle, Stages
    <3> QED
      BY <1>1, <2>2, <3>2, <3>3, Untouched, ThreadStep
  <2>3. At(t, "put") => job[t].op = "send"
    BY DEF MailInv, Consistent
  <2> QED
    BY <1>3, <2>1, <2>2, <2>3 DEF GiveUp
<1> QED
  BY <1>2, <1>3

-----------------------------------------------------------------------------
(* The sessions.  That the sender of a mail is a name when it is sent      *)
(* needs DataHasEnvelope.                                                  *)
SessionInv ==
  /\ MailInv
  /\ session \in [Connections -> SessionType]
  /\ DataHasEnvelope

LEMMA SessionStart == SInit => SessionInv
<1> SUFFICES ASSUME SInit PROVE SessionInv
  OBVIOUS
<1>1. MailTypeOK
  BY DEF SInit, Init, MailTypeOK
<1>2. ListedWasStored
  BY DEF SInit, Init, ListedWasStored, ToSet
<1>3. \A t \in Threads : Consistent(t)
  BY DEF SInit, Init, Consistent, At, Idle, Stages
<1>4. session \in [Connections -> SessionType]
  BY DEF SInit, NewSession, SessionType
<1>5. DataHasEnvelope
  BY DEF SInit, NewSession, DataHasEnvelope
<1> QED
  BY <1>1, <1>2, <1>3, <1>4, <1>5 DEF MailInv, SessionInv

LEMMA MailUnchanged ==
  ASSUME MailInv, UNCHANGED vars
  PROVE  MailInv'
<1>1. MailTypeOK'
  BY DEF vars, store, history, MailInv, MailTypeOK
<1>2. ListedWasStored'
  BY DEF vars, store, history, MailInv, ListedWasStored
<1>3. \A t \in Threads : Consistent(t)'
  BY DEF vars, store, history, MailInv, Consistent, At, HasList
<1> QED
  BY <1>1, <1>2, <1>3 DEF MailInv

LEMMA ResetType ==
  ASSUME NEW s \in SessionType
  PROVE  Reset(s) \in SessionType
<1>1. [s EXCEPT !.sender = NoSender] \in SessionType
  BY DEF SessionType
<1>2. ASSUME NEW r \in SessionType PROVE [r EXCEPT !.recipients = <<>>] \in SessionType
  <2>1. <<>> \in Seq(Names \cup {Outside})
    OBVIOUS
  <2> DEFINE none == <<>>
  <2> HIDE DEF none
  <2>2. none \in Seq(Names \cup {Outside})
    BY <2>1 DEF none
  <2>3. [r EXCEPT !.recipients = none] \in SessionType
    BY <2>2 DEF SessionType
  <2> QED
    BY <2>3 DEF none
<1> QED
  BY <1>1, <1>2, Zenon DEF Reset

Enveloped(s) == s.received_hello /\ s.sender # NoSender /\ s.recipients # <<>>

LEMMA SessionChange ==
  ASSUME SessionInv, NEW c \in Connections, NEW s \in SessionType,
         s.reading_email_data => Enveloped(s), session' = [session EXCEPT ![c] = s]
  PROVE  session' \in [Connections -> SessionType] /\ DataHasEnvelope'
BY DEF SessionInv, DataHasEnvelope, Enveloped

LEMMA CommandStep ==
  ASSUME SessionInv, NEW c \in Connections, Command(c)
  PROVE  SessionInv'
<1>1. session[c] \in SessionType /\ session \in [Connections -> SessionType]
  BY DEF SessionInv
<1>2. CASE EndOfData(c)
  <2>1. /\ session[c].sender \in Names
        /\ session[c].recipients \in Seq(Names \cup {Outside})
    BY <1>1, <1>2 DEF SessionInv, DataHasEnvelope, SessionType, EndOfData
  <2>2. MailInv'
    BY <1>2, <2>1, SendStep DEF EndOfData, SessionInv
  <2>3. session' = [session EXCEPT ![c] = [Reset(session[c]) EXCEPT !.reading_email_data = FALSE]]
    BY <1>2 DEF EndOfData
  <2>4. Reset(session[c]) \in SessionType
    BY <1>1, ResetType
  <2>5. /\ [Reset(session[c]) EXCEPT !.reading_email_data = FALSE] \in SessionType
        /\ ~ [Reset(session[c]) EXCEPT !.reading_email_data = FALSE].reading_email_data
    BY <2>4 DEF SessionType
  <2>6. session' \in [Connections -> SessionType] /\ DataHasEnvelope'
    BY <1>1, <2>3, <2>5, SessionChange
  <2> QED
    BY <2>2, <2>6 DEF SessionInv
<1>3. CASE ~ EndOfData(c)
  <2>1. MailInv'
    BY <1>3, MailUnchanged
    DEF SessionInv, Command, Helo, MailFrom, RcptTo, Data, Rset, Quit
  <2>2. CASE Helo(c) \/ Data(c) \/ Rset(c) \/ Quit(c)
    <3>1. ASSUME NEW s \in SessionType, session' = [session EXCEPT ![c] = s],
                 s.reading_email_data => Enveloped(s)
          PROVE  SessionInv'
      BY <2>1, <3>1, SessionChange DEF SessionInv
    <3>2. ~ session[c].reading_email_data
      BY <2>2 DEF Helo, Data, Rset, Quit, Greeted, Awaits
    <3>3. CASE Helo(c)
      <4>1. [session[c] EXCEPT !.received_hello = TRUE] \in SessionType
        BY <1>1 DEF SessionType
      <4>2. ~ [session[c] EXCEPT !.received_hello = TRUE].reading_email_data
        BY <1>1, <3>2 DEF SessionType
      <4> QED
        BY <3>1, <3>3, <4>1, <4>2 DEF Helo
    <3>4. CASE Data(c)
      <4>1. [session[c] EXCEPT !.reading_email_data = TRUE] \in SessionType
        BY <1>1 DEF SessionType
      <4>2. Enveloped([session[c] EXCEPT !.reading_email_data = TRUE])
        BY <1>1, <3>4 DEF SessionType, Enveloped, Data, Greeted
      <4> QED
        BY <3>1, <3>4, <4>1, <4>2 DEF Data
    <3>5. CASE Rset(c)
      <4>1. Reset(session[c]) \in SessionType
        BY <1>1, ResetType
      <4>2. ~ Reset(session[c]).reading_email_data
        BY <1>1, <3>2 DEF Reset, SessionType
      <4> QED
        BY <3>1, <3>5, <4>1, <4>2 DEF Rset
    <3>6. CASE Quit(c)
      <4>1. NewSession \in SessionType /\ ~ NewSession.reading_email_data
        BY DEF NewSession, SessionType
      <4> QED
        BY <3>1, <3>6, <4>1 DEF Quit
    <3> QED
      BY <2>2, <3>3, <3>4, <3>5, <3>6
  <2>3. ASSUME NEW name \in Names, MailFrom(c, name) PROVE SessionInv'
    <3>1. session' \in [Connections -> SessionType] /\ DataHasEnvelope'
      BY <1>1, <2>3
      DEF SessionInv, DataHasEnvelope, MailFrom, SessionType, Greeted, Awaits
    <3> QED
      BY <2>1, <3>1 DEF SessionInv
  <2>4. ASSUME NEW address \in Names \cup {Outside}, RcptTo(c, address)
        PROVE  SessionInv'
    <3>1. session' \in [Connections -> SessionType]
      <4>1. Append(session[c].recipients, address) \in Seq(Names \cup {Outside})
        BY <1>1 DEF SessionType
      <4>2. [session[c] EXCEPT !.recipients = Append(session[c].recipients, address)]
              \in SessionType
        BY <1>1, <4>1 DEF SessionType
      <4>3. session' = [session EXCEPT ![c] =
               [session[c] EXCEPT !.recipients = Append(session[c].recipients, address)]]
        BY <1>1, <2>4, Zenon DEF RcptTo
      <4> QED
        BY <1>1, <4>2, <4>3
    <3>2. DataHasEnvelope'
      BY <1>1, <2>4
      DEF SessionInv, DataHasEnvelope, RcptTo, SessionType, Greeted, Awaits
    <3> QED
      BY <2>1, <3>1, <3>2 DEF SessionInv
  <2> QED
    BY <1>3, <2>2, <2>3, <2>4 DEF Command
<1> QED
  BY <1>2, <1>3

LEMMA SessionNext ==
  ASSUME SessionInv, [Next]_<<vars, session>>
  PROVE  SessionInv'
<1>1. ASSUME MailInv', session' = session PROVE SessionInv'
  BY <1>1 DEF SessionInv, DataHasEnvelope
<1>2. ASSUME NEW c \in Connections, Command(c) PROVE SessionInv'
  BY <1>2, CommandStep
<1>3. ASSUME NEW t \in Threads \ Connections, Request(t) PROVE SessionInv'
  <2>1. CASE \E from \in Users, r \in Recipients : send_email(t, from, r)
    BY <1>1, <1>3, <2>1, SendStep DEF Request, Names, SessionInv
  <2>2. CASE \E b \in Boxes, m \in Mails : delete_email(t, b, m)
    BY <1>1, <1>3, <2>2, DeleteStep DEF Request, SessionInv
  <2> QED
    BY <1>3, <2>1, <2>2 DEF Request
<1>4. ASSUME NEW t \in Threads, Serve(t), UNCHANGED session PROVE SessionInv'
  BY <1>1, <1>4, DeliverStep, CallStep, FaultStep DEF Serve, SessionInv
<1>5. CASE UNCHANGED <<vars, session>>
  BY <1>1, <1>5, MailUnchanged DEF SessionInv
<1> QED
  BY <1>2, <1>3, <1>4, <1>5 DEF Next, Rest

(* The strengthened invariant of the mail rows and the sessions holds      *)
(* whatever requests, sessions and failing calls are interleaved.          *)
THEOREM MailboxInvariant == Spec => []SessionInv
<1>1. SInit => SessionInv
  BY SessionStart
<1>2. SessionInv /\ [Next]_<<vars, session>> => SessionInv'
  BY SessionNext
<1> QED
  BY <1>1, <1>2, PTL DEF Spec

(* The rows, the requests and the sessions have their types.               *)
THEOREM MailTypeCorrect == Spec => []SessionTypeOK
<1>1. SessionInv => SessionTypeOK
  BY DEF SessionInv, SessionTypeOK, MailInv
<1> QED
  BY <1>1, MailboxInvariant, PTL

(* A listed mail was stored (webmail_service.hpp:391), for any number of   *)
(* requests and failing calls.                                             *)
THEOREM ListedWasStoredHolds == Spec => []ListedWasStored
<1>1. SessionInv => ListedWasStored
  BY DEF SessionInv, MailInv
<1> QED
  BY <1>1, MailboxInvariant, PTL

(* A mail whose text is being read has a sender and a recipient            *)
(* (smtpserver.hpp:456).                                                   *)
THEOREM DataHasEnvelopeHolds == Spec => []DataHasEnvelope
<1>1. SessionInv => DataHasEnvelope
  BY DEF SessionInv
<1> QED
  BY <1>1, MailboxInvariant, PTL

-----------------------------------------------------------------------------
(* Only a CPUT changes a list, and it writes what the request has read     *)
(* with one entry more or less.                                            *)
LEMMA ListStep ==
  ASSUME SessionInv, [Next]_<<vars, session>>, NEW b \in Boxes, ids'[b] # ids[b]
  PROVE  \E t \in WorkingOn(b) :
           \/ job[t].op = "send"   /\ ids'[b] = Append(ids[b], job[t].email_id)
           \/ job[t].op = "delete" /\ ids'[b] = RemoveFirst(ids[b], job[t].email_id)
<1>1. PICK t \in Threads : At(t, "cput") /\ CPutEffect(t)
  <2>1. \E t \in Threads : Serve(t)
    BY DEF Next, Rest, Command, Helo, MailFrom, RcptTo, Data, EndOfData, Rset, Quit,
           Request, send_email, delete_email, vars, store
  <2> QED
    BY <2>1
    DEF Serve, MailOutside, NextRecipient, SenderCopy, NobodyReached, StoreIn,
        PutMail, ReadIds, CPutIds, EraseMail, LoseAnswer, GiveUp, Unanswered,
        PutEffect, EraseEffect, store
<1>2. job[t] \in JobType /\ Consistent(t) /\ ids \in [Boxes -> Seq(Mails)]
  BY <1>1, BusyJob DEF SessionInv, MailInv, MailTypeOK, At, Stages
<1>3. job[t].box = b /\ ids[b] = job[t].old_ids /\ ids'[b] = job[t].new_ids
  BY <1>1, <1>2 DEF CPutEffect
<1>4. t \in WorkingOn(b)
  BY <1>1, <1>3 DEF WorkingOn, At, Stages
<1>5. job[t].op \in {"send", "delete"}
  BY <1>2 DEF JobType
<1> QED
  BY <1>1, <1>2, <1>3, <1>4, <1>5 DEF Consistent

(* Whatever is interleaved, a list is changed only by the request of the   *)
(* mail that appears or disappears (webmail_service.hpp:410).              *)
THEOREM OnlyOwnEntryHolds == Spec => OnlyOwnEntry
<1>1. SessionInv /\ [Next]_<<vars, session>> =>
        [\A b \in Boxes : ids'[b] # ids[b] =>
           \E t \in WorkingOn(b) :
             \/ job[t].op = "send"   /\ ids'[b] = Append(ids[b], job[t].email_id)
             \/ job[t].op = "delete" /\ ids'[b] = RemoveFirst(ids[b], job[t].email_id)]_vars
  BY ListStep
<1> QED
  BY <1>1, MailboxInvariant, PTL DEF Spec, OnlyOwnEntry

-----------------------------------------------------------------------------
(* Boxes that two requests never worked on at once, while no call has gone *)
(* wrong: one request has the box to itself, so the list is still the one  *)
(* it has read, a mail that is stored and not listed is the one it is      *)
(* about to list or to erase, and one it is about to erase is stored.      *)
Unlisted(t) ==
  \/ job[t].op = "send"   /\ job[t].stage \in {"read", "cput"}
  \/ job[t].op = "delete" /\ job[t].stage = "erase"

BoxOK(b) == HasList(b) /\ b \notin contended =>
  /\ \A t, u \in WorkingOn(b) : t = u
  /\ \A t \in WorkingOn(b) : At(t, "cput") => job[t].old_ids = ids[b]
  /\ \A m \in columns[b] :
       m \in ToSet(ids[b]) \/ \E t \in WorkingOn(b) : job[t].email_id = m /\ Unlisted(t)
  /\ \A m \in Mails : <<b, m>> \in told =>
       \/ m \in ToSet(ids[b]) \cup erased[b]
       \/ /\ m \in columns[b]
          /\ \E t \in WorkingOn(b) : job[t].op = "delete" /\ job[t].email_id = m

BoxInv == faults = 0 => \A b \in Boxes : BoxOK(b)

LEMMA BoxStart == SInit => BoxInv
<1> SUFFICES ASSUME SInit, NEW b \in Boxes PROVE BoxOK(b)
  BY DEF BoxInv
<1>1. WorkingOn(b) = {}
  BY DEF SInit, Init, WorkingOn, Idle, Stages
<1> QED
  BY <1>1 DEF SInit, Init, BoxOK

(* A step of a thread that does not work on the box.                       *)
LEMMA OtherBox ==
  ASSUME NEW b \in Boxes, BoxOK(b), NEW t \in Threads,
         \A u \in Threads \ {t} : job'[u] = job[u],
         t \notin WorkingOn(b), t \notin WorkingOn(b)',
         ids'[b] = ids[b], columns'[b] = columns[b], erased'[b] = erased[b],
         contended \subseteq contended',
         \A m \in Mails : <<b, m>> \in told' => <<b, m>> \in told
  PROVE  BoxOK(b)'
<1>1. \A u \in Threads : u \in WorkingOn(b)' <=> u \in WorkingOn(b)
  BY DEF WorkingOn
<1>2. \A u \in WorkingOn(b) : u \in Threads /\ job'[u] = job[u]
  BY DEF WorkingOn
<1>3. WorkingOn(b)' = WorkingOn(b)
  BY <1>1 DEF WorkingOn
<1> SUFFICES ASSUME HasList(b), b \notin contended' PROVE
      /\ \A u, v \in WorkingOn(b) : u = v
      /\ \A u \in WorkingOn(b) : At(u, "cput")' => job'[u].old_ids = ids'[b]
      /\ \A m \in columns'[b] :
           m \in ToSet(ids'[b]) \/ \E u \in WorkingOn(b) : job'[u].email_id = m /\ Unlisted(u)'
      /\ \A m \in Mails : <<b, m>> \in told' =>
           \/ m \in ToSet(ids'[b]) \cup erased'[b]
           \/ /\ m \in columns'[b]
              /\ \E u \in WorkingOn(b) : job'[u].op = "delete" /\ job'[u].email_id = m
  BY <1>3 DEF BoxOK, HasList
<1>4. b \notin contended
  OBVIOUS
<1> QED
  BY <1>2, <1>4 DEF BoxOK, At, Unlisted

(* A request comes to work on a box, alone or the box is contended.        *)
LEMMA EnterBox ==
  ASSUME NEW b \in Boxes, BoxOK(b), NEW t \in Threads,
         \A u \in Threads \ {t} : job'[u] = job[u],
         job'[t].stage # "cput", Enter(b),
         ids'[b] = ids[b], columns'[b] = columns[b], erased'[b] = erased[b], told' = told
  PROVE  BoxOK(b)'
<1> SUFFICES ASSUME HasList(b), b \notin contended' PROVE BoxOK(b)'
  BY DEF BoxOK, HasList
<1>1. WorkingOn(b) = {} /\ b \notin contended
  BY DEF Enter
<1>2. \A u \in WorkingOn(b)' : u = t
  BY <1>1 DEF WorkingOn
<1>3. /\ \A m \in columns[b] : m \in ToSet(ids[b])
      /\ \A m \in Mails : <<b, m>> \in told => m \in ToSet(ids[b]) \cup erased[b]
  BY <1>1 DEF BoxOK
<1> QED
  BY <1>2, <1>3 DEF BoxOK, At

(* What a request that has a box to itself knows of it.                    *)
LEMMA AloneIn ==
  ASSUME NEW b \in Boxes, BoxOK(b), HasList(b), b \notin contended, NEW t \in WorkingOn(b)
  PROVE  /\ \A u \in WorkingOn(b) : u = t
         /\ At(t, "cput") => job[t].old_ids = ids[b]
         /\ \A m \in columns[b] : m \in ToSet(ids[b]) \/ (job[t].email_id = m /\ Unlisted(t))
         /\ \A m \in Mails : <<b, m>> \in told =>
              \/ m \in ToSet(ids[b]) \cup erased[b]
              \/ m \in columns[b] /\ job[t].op = "delete" /\ job[t].email_id = m
BY DEF BoxOK

(* The step of a request on the box that it works on.                      *)
LEMMA OwnBox ==
  ASSUME NEW b \in Boxes, BoxOK(b), NEW t \in Threads, t \in WorkingOn(b),
         \A u \in Threads \ {t} : job'[u] = job[u], contended' = contended,
         HasList(b) /\ b \notin contended =>
           /\ (t \in WorkingOn(b)' /\ At(t, "cput")') => job'[t].old_ids = ids'[b]
           /\ \A m \in columns'[b] : m \in ToSet(ids'[b])
                \/ (t \in WorkingOn(b)' /\ job'[t].email_id = m /\ Unlisted(t)')
           /\ \A m \in Mails : <<b, m>> \in told' =>
                \/ m \in ToSet(ids'[b]) \cup erased'[b]
                \/ /\ m \in columns'[b] /\ t \in WorkingOn(b)'
                   /\ job'[t].op = "delete" /\ job'[t].email_id = m
  PROVE  BoxOK(b)'
<1> SUFFICES ASSUME HasList(b), b \notin contended PROVE BoxOK(b)'
  BY DEF BoxOK, HasList
<1>1. \A u \in WorkingOn(b) : u = t
  BY AloneIn
<1>2. \A u \in WorkingOn(b)' : u = t
  BY <1>1 DEF WorkingOn
<1> QED
  BY <1>2 DEF BoxOK

(* A call to the storage on the box of the request, in which the thread    *)
(* keeps its request, or ends its work on the box.                         *)
LEMMA WorkersHere ==
  ASSUME MailInv, NEW t \in Threads, job[t].stage \in Stages \ {"deliver"}
  PROVE  /\ job[t] \in JobType /\ job[t].box \in Boxes /\ job[t].email_id \in Mails
         /\ job[t].op \in {"send", "delete"}
         /\ t \in WorkingOn(job[t].box)
         /\ \A b \in Boxes : b # job[t].box => t \notin WorkingOn(b)
         /\ Consistent(t) /\ ids[job[t].box] \in Seq(Mails)
<1>1. job[t] \in JobType /\ Consistent(t)
  BY BusyJob DEF MailInv
<1> QED
  BY <1>1 DEF JobType, WorkingOn, MailInv, MailTypeOK

LEMMA BoxesEntered ==
  ASSUME MailInv, \A b \in Boxes : BoxOK(b), NEW t \in Threads,
         \/ \E from \in Names, r \in Seq(Names \cup {Outside}) : send_email(t, from, r)
         \/ \E b \in Boxes, m \in Mails : delete_email(t, b, m)
         \/ MailOutside(t) \/ NextRecipient(t) \/ SenderCopy(t) \/ NobodyReached(t)
  PROVE  \A b \in Boxes : BoxOK(b)'
<1> TAKE b \in Boxes
<1>0. job \in [Threads -> JobType \cup {Idle}]
  BY DEF MailInv, MailTypeOK
<1>1. job[t] = Idle \/ At(t, "deliver")
  BY DEF send_email, delete_email, MailOutside, NextRecipient, SenderCopy, NobodyReached
<1>2. t \notin WorkingOn(b)
  BY <1>1 DEF WorkingOn, At, Idle, Stages
<1>3. /\ \A u \in Threads \ {t} : job'[u] = job[u]
      /\ ids' = ids /\ columns' = columns /\ erased' = erased /\ told' = told
  BY <1>0 DEF send_email, delete_email, MailOutside, NextRecipient, SenderCopy, NobodyReached,
              StoreIn, Done, store, history
<1>4. \/ contended' = contended /\ (job'[t] = Idle \/ job'[t].stage = "deliver")
      \/ \E a \in Boxes : job'[t].box = a /\ job'[t].stage \in {"put", "read"} /\ Enter(a)
  <2>1. CASE \E from \in Names, r \in Seq(Names \cup {Outside}) : send_email(t, from, r)
    BY <1>0, <2>1 DEF send_email, history
  <2>2. CASE \E a \in Boxes, m \in Mails : delete_email(t, a, m)
    BY <1>0, <2>2 DEF delete_email
  <2>3. CASE MailOutside(t) \/ NobodyReached(t)
    <3>1. job[t] \in JobType /\ job[t].stage = "deliver"
      BY <2>3, BusyJob DEF MailInv, At, MailOutside, NobodyReached, Stages
    <3> QED
      BY <1>0, <2>3, <3>1 DEF MailOutside, NobodyReached, Done, JobType, history
  <2>4. CASE NextRecipient(t) \/ SenderCopy(t)
    <3>1. job[t] \in JobType /\ job[t].recipients \in Seq(Names \cup {Outside}) /\ job[t].from \in Names
      <4>1. job[t] \in JobType
        BY <2>4, BusyJob DEF MailInv, At, NextRecipient, SenderCopy, Stages
      <4> QED
        BY <4>1 DEF JobType
    <3>2. PICK a \in Boxes : StoreIn(t, a)
      <4>1. NextRecipient(t) => <<Head(job[t].recipients), "received">> \in Boxes
        <5>1. NextRecipient(t) => Head(job[t].recipients) \in Names
          BY <3>1 DEF NextRecipient
        <5> QED
          BY <5>1 DEF Boxes
      <4>2. <<job[t].from, "sent">> \in Boxes
        BY <3>1 DEF Boxes
      <4> QED
        BY <2>4, <4>1, <4>2 DEF NextRecipient, SenderCopy
    <3> QED
      BY <1>0, <3>1, <3>2 DEF StoreIn, JobType
  <2> QED
    BY <2>1, <2>2, <2>3, <2>4
<1>5. CASE contended' = contended /\ (job'[t] = Idle \/ job'[t].stage = "deliver")
  <2>1. t \notin WorkingOn(b)'
    BY <1>5 DEF WorkingOn, Idle, Stages
  <2> QED
    BY <1>2, <1>3, <1>5, <2>1, OtherBox
<1>6. ASSUME NEW a \in Boxes, job'[t].box = a, job'[t].stage \in {"put", "read"}, Enter(a)
      PROVE  BoxOK(b)'
  <2>1. CASE a = b
    BY <1>3, <1>6, <2>1, EnterBox
  <2>2. CASE a # b
    <3>1. t \notin WorkingOn(b)'
      BY <1>6, <2>2 DEF WorkingOn
    <3>2. contended \subseteq contended'
      BY <1>6 DEF Enter
    <3> QED
      BY <1>2, <1>3, <3>1, <3>2, OtherBox
  <2> QED
    BY <2>1, <2>2
<1> QED
  BY <1>4, <1>5, <1>6

LEMMA BoxesCalled ==
  ASSUME MailInv, \A b \in Boxes : BoxOK(b), NEW t \in Threads,
         PutMail(t) \/ ReadIds(t) \/ CPutIds(t) \/ EraseMail(t)
  PROVE  \A b \in Boxes : BoxOK(b)'
<1>0. job \in [Threads -> JobType \cup {Idle}] /\ columns \in [Boxes -> SUBSET Mails]
      /\ ids \in [Boxes -> Seq(Mails)] /\ erased \in [Boxes -> SUBSET Mails]
  BY DEF MailInv, MailTypeOK
<1>1. job[t].stage \in {"put", "read", "cput", "erase"}
  BY DEF PutMail, ReadIds, CPutIds, EraseMail, At
<1>p. PICK a \in Boxes, e \in Mails : a = job[t].box /\ e = job[t].email_id
  BY <1>1, WorkersHere DEF Stages
<1>2. /\ job[t] \in JobType /\ job[t].op \in {"send", "delete"}
      /\ t \in WorkingOn(a) /\ (\A b \in Boxes : b # a => t \notin WorkingOn(b))
      /\ Consistent(t) /\ ids[a] \in Seq(Mails)
  BY <1>1, <1>p, WorkersHere DEF Stages
<1>3. /\ \A u \in Threads \ {t} : job'[u] = job[u]
      /\ contended' = contended
  BY <1>0 DEF PutMail, ReadIds, CPutIds, EraseMail, GoTo, Done, StoreReturns
<1>4. ASSUME NEW b \in Boxes, b # a
      PROVE  /\ ids'[b] = ids[b] /\ columns'[b] = columns[b] /\ erased'[b] = erased[b]
             /\ \A m \in Mails : <<b, m>> \in told' => <<b, m>> \in told
             /\ t \notin WorkingOn(b)'
  <2>1. ids'[b] = ids[b] /\ columns'[b] = columns[b] /\ erased'[b] = erased[b]
    BY <1>0, <1>p, <1>4 DEF PutMail, ReadIds, CPutIds, EraseMail, PutEffect, CPutEffect, EraseEffect, store
  <2>2. \A m \in Mails : <<b, m>> \in told' => <<b, m>> \in told
    BY <1>p, <1>4 DEF PutMail, ReadIds, CPutIds, EraseMail, StoreReturns
  <2>3. job'[t] = Idle \/ job'[t].stage = "deliver" \/ job'[t].box = a
    BY <1>0, <1>p, <1>2 DEF PutMail, ReadIds, CPutIds, EraseMail, GoTo, Done, StoreReturns, JobType
  <2>4. t \notin WorkingOn(b)'
    BY <1>4, <2>3 DEF WorkingOn, Idle, Stages
  <2> QED
    BY <2>1, <2>2, <2>4
<1>5. ASSUME NEW b \in Boxes, b # a PROVE BoxOK(b)'
  BY <1>p, <1>2, <1>3, <1>4, <1>5, OtherBox
<1>6. BoxOK(a)'
  <2>alone. HasList(a) /\ a \notin contended =>
        /\ \A u \in WorkingOn(a) : u = t
        /\ At(t, "cput") => job[t].old_ids = ids[a]
        /\ \A m \in columns[a] : m \in ToSet(ids[a]) \/ (e = m /\ Unlisted(t))
        /\ \A m \in Mails : <<a, m>> \in told =>
             \/ m \in ToSet(ids[a]) \cup erased[a]
             \/ m \in columns[a] /\ job[t].op = "delete" /\ e = m
    BY <1>p, <1>2, AloneIn
  <2> SUFFICES ASSUME HasList(a), a \notin contended PROVE
           /\ (t \in WorkingOn(a)' /\ At(t, "cput")') => job'[t].old_ids = ids'[a]
           /\ \A m \in columns'[a] : m \in ToSet(ids'[a])
                \/ (t \in WorkingOn(a)' /\ job'[t].email_id = m /\ Unlisted(t)')
           /\ \A m \in Mails : <<a, m>> \in told' =>
                \/ m \in ToSet(ids'[a]) \cup erased'[a]
                \/ /\ m \in columns'[a] /\ t \in WorkingOn(a)'
                   /\ job'[t].op = "delete" /\ job'[t].email_id = m
    BY <1>p, <1>2, <1>3, OwnBox
  <2>1. CASE PutMail(t)
    <3>1. /\ columns'[a] = columns[a] \cup {e} /\ ids' = ids /\ erased' = erased /\ told' = told
          /\ job[t].op = "send" /\ ~ Unlisted(t)
      BY <1>0, <1>p, <1>2, <2>1 DEF PutMail, PutEffect, Consistent, At, Unlisted
    <3>2. /\ job'[t].stage = "read" /\ job'[t].box = a /\ job'[t].email_id = e
          /\ job'[t].op = "send"
      BY <1>0, <1>p, <1>2, <2>1, <3>1 DEF PutMail, GoTo, JobType
    <3>3. t \in WorkingOn(a)' /\ Unlisted(t)'
      BY <3>2 DEF WorkingOn, Stages, Unlisted
    <3> QED
      BY <2>alone, <3>1, <3>2, <3>3 DEF At
  <2>2. CASE ReadIds(t)
    <3>1. UNCHANGED <<ids, columns, erased, told>>
      BY <1>p, <2>2 DEF ReadIds, store
    <3>2. /\ job'[t].stage = "cput" /\ job'[t].box = a /\ job'[t].email_id = e
          /\ job'[t].op = job[t].op /\ job'[t].old_ids = ids[a]
      <4> DEFINE new == IF job[t].op = "send" THEN Append(ids[a], job[t].email_id)
                                              ELSE RemoveFirst(ids[a], job[t].email_id)
                 j == [job[t] EXCEPT !.stage = "cput", !.old_ids = ids[a], !.new_ids = new]
      <4>1. job' = [job EXCEPT ![t] = j]
        BY <1>p, <2>2, Zenon DEF ReadIds
      <4>2. job'[t] = j
        BY <1>0, <4>1
      <4> HIDE DEF new
      <4> QED
        BY <1>p, <1>2, <4>2 DEF JobType
    <3>3. t \in WorkingOn(a)' /\ (Unlisted(t) => Unlisted(t)')
      BY <2>2, <3>2 DEF WorkingOn, Stages, Unlisted, ReadIds, At
    <3> QED
      BY <2>alone, <3>1, <3>2, <3>3
  <2>3. CASE CPutIds(t)
    <3>1. /\ ids'[a] = job[t].new_ids /\ columns' = columns /\ erased' = erased
          /\ job[t].stage = "cput"
      BY <1>0, <1>p, <1>2, <2>3, <2>alone DEF CPutIds, CPutEffect, At
    <3>2. CASE job[t].op = "send"
      <4>1. ids'[a] = Append(ids[a], e)
        BY <1>p, <1>2, <2>alone, <2>3, <3>1, <3>2 DEF Consistent, CPutIds
      <4>2. ToSet(ids'[a]) = ToSet(ids[a]) \cup {e}
        BY <1>p, <1>2, <4>1, AppendedSet
      <4>3. StoreReturns(t, TRUE)
        BY <2>3, <3>2 DEF CPutIds
      <4>4. told' \subseteq told \cup {<<a, e>>}
        BY <1>p, <4>3 DEF StoreReturns
      <4>5. job'[t].stage \in {"idle", "deliver"}
        BY <1>0, <1>p, <1>2, <4>3 DEF StoreReturns, Idle, JobType
      <4>6. t \notin WorkingOn(a)'
        BY <4>5 DEF WorkingOn, Stages
      <4> QED
        BY <2>alone, <3>1, <3>2, <4>2, <4>4, <4>6
    <3>3. CASE job[t].op = "delete"
      <4>1. ids'[a] = RemoveFirst(ids[a], e)
        BY <1>p, <1>2, <2>alone, <2>3, <3>1, <3>3 DEF Consistent, CPutIds
      <4>2. ToSet(ids[a]) \subseteq ToSet(ids'[a]) \cup {e}
        BY <1>p, <1>2, <4>1, RemoveFirstOfSeq
      <4>3. /\ job'[t].stage = "erase" /\ job'[t].box = a /\ job'[t].email_id = e
            /\ job'[t].op = "delete" /\ told' = told
        BY <1>0, <1>p, <1>2, <2>3, <3>3 DEF CPutIds, GoTo, JobType
      <4>4. t \in WorkingOn(a)' /\ Unlisted(t)'
        BY <4>3 DEF WorkingOn, Stages, Unlisted
      <4>5. ToSet(ids[a]) \subseteq columns[a] \cup erased[a]
        BY DEF MailInv, ListedWasStored
      <4> QED
        BY <2>alone, <3>1, <4>2, <4>3, <4>4, <4>5 DEF At
    <3> QED
      BY <1>p, <1>2, <3>2, <3>3
  <2>4. CASE EraseMail(t)
    <3>1. /\ columns'[a] = columns[a] \ {e} /\ ids' = ids
          /\ erased'[a] = erased[a] \cup (columns[a] \cap {e})
          /\ told' = told /\ job'[t] = Idle
      BY <1>0, <1>p, <1>2, <2>4 DEF EraseMail, EraseEffect, Done
    <3>2. t \notin WorkingOn(a)'
      BY <3>1 DEF WorkingOn, Idle, Stages
    <3> QED
      BY <2>alone, <3>1, <3>2
  <2> QED
    BY <2>1, <2>2, <2>3, <2>4
<1> QED
  BY <1>5, <1>6

LEMMA BoxStep ==
  ASSUME SessionInv, BoxInv, [Next]_<<vars, session>> PROVE BoxInv'
<1>0. faults \in Nat /\ MailInv
  BY DEF SessionInv, MailInv, MailTypeOK
<1> SUFFICES ASSUME faults' = 0 PROVE \A b \in Boxes : BoxOK(b)'
  BY DEF BoxInv
<1>1. ASSUME UNCHANGED vars, faults = 0 PROVE \A b \in Boxes : BoxOK(b)'
  <2>1. \A b \in Boxes : BoxOK(b)
    BY <1>1 DEF BoxInv
  <2> QED
    BY <1>1, <2>1 DEF vars, store, history, BoxOK, WorkingOn, At, Unlisted, HasList
<1>2. ASSUME NEW t \in Threads, Serve(t) PROVE \A b \in Boxes : BoxOK(b)'
  <2>1. ~ LoseAnswer(t) /\ ~ GiveUp(t)
    <3>1. LoseAnswer(t) \/ GiveUp(t) => faults' = faults + 1
      BY DEF LoseAnswer, GiveUp
    <3> QED
      BY <1>0, <3>1
  <2>2. faults = 0
    BY <1>2, <2>1 DEF Serve, MailOutside, NextRecipient, SenderCopy, NobodyReached, StoreIn,
                      PutMail, ReadIds, CPutIds, EraseMail
  <2> QED
    BY <1>0, <1>2, <2>1, <2>2, BoxesEntered, BoxesCalled DEF Serve, BoxInv
<1>3. ASSUME NEW t \in Threads \ Connections, Request(t) PROVE \A b \in Boxes : BoxOK(b)'
  <2>1. \/ \E from \in Names, r \in Seq(Names \cup {Outside}) : send_email(t, from, r)
        \/ \E b \in Boxes, m \in Mails : delete_email(t, b, m)
    BY <1>3 DEF Request, Names
  <2>2. faults = 0
    BY <1>3 DEF Request, send_email, delete_email
  <2> QED
    BY <1>0, <2>1, <2>2, BoxesEntered DEF BoxInv
<1>4. ASSUME NEW c \in Connections, Command(c) PROVE \A b \in Boxes : BoxOK(b)'
  <2>1. CASE EndOfData(c)
    <3>1. /\ session[c].sender \in Names
          /\ session[c].recipients \in Seq(Names \cup {Outside})
      BY <2>1 DEF SessionInv, DataHasEnvelope, SessionType, EndOfData
    <3>2. \E from \in Names, r \in Seq(Names \cup {Outside}) : send_email(c, from, r)
      BY <2>1, <3>1 DEF EndOfData
    <3>3. faults = 0
      BY <2>1 DEF EndOfData, send_email
    <3> QED
      BY <1>0, <3>2, <3>3, BoxesEntered DEF BoxInv
  <2>2. CASE ~ EndOfData(c)
    <3>1. UNCHANGED vars
      BY <1>4, <2>2 DEF Command, Helo, MailFrom, RcptTo, Data, Rset, Quit
    <3> QED
      BY <1>1, <3>1 DEF vars
  <2> QED
    BY <2>1, <2>2
<1>5. CASE UNCHANGED <<vars, session>>
  BY <1>1, <1>5 DEF vars
<1> QED
  BY <1>2, <1>3, <1>4, <1>5 DEF Next, Rest

(* As long as no call has gone wrong, a box that two requests never worked *)
(* on at once keeps no mail that cannot be shown, and lists every mail for *)
(* which store_email has returned true until a request deletes it          *)
(* (webmail_service.hpp:159, :397).                                        *)
THEOREM SettledBoxesCompleteHolds == Spec => []SettledBoxesComplete
<1>1. BoxInv => SettledBoxesComplete
  BY DEF BoxInv, BoxOK, SettledBoxesComplete
<1> QED
  BY <1>1, MailboxInvariant, BoxStart, BoxStep, PTL DEF Spec
=============================================================================
