-------------------------- MODULE MailFilesProofs --------------------------
(***************************************************************************)
(* What is proved of MailFiles for any mailboxes, mails, recipients and    *)
(* threads: an open POP3 session goes on seeing its mails; and, if         *)
(* send_mqueue is run once at a time, an answered mail is kept until it is *)
(* deleted on request or sent on, unless it was written while another      *)
(* process was about to write the file back.                               *)
(***************************************************************************)
EXTENDS MailFiles, SequenceTheorems, WellFoundedInduction, TLAPS

USE FileAssumption, ThreadAssumption, MailAssumption

Texts == Seq(Mails \cup {Torn})

DeliveryType ==
  [stage : {"idle", "lock", "flock", "write", "close"}, mail : Mails \cup {None},
   to : Seq(Files), todo : Seq(Files)]

SessionType ==
  [stage : {"idle", "locking", "open", "unlock", "return"}, box : Boxes \cup {None},
   owns : BOOLEAN, mailbox_state : Texts, transactions : SUBSET Nat]

RunType == [stage : {"idle", "send", "fill", "close"}, emails : Texts, unsent : Texts]

MailTypes ==
  /\ file \in [Files -> Texts]
  /\ box_lock \in [Boxes -> PopThreads \cup {None}]
  /\ smtp \in [SmtpThreads -> DeliveryType]
  /\ pop \in [PopThreads -> SessionType]
  /\ sender \in [Senders -> RunType]

(* The recipients a delivery has still to write to are the last ones.      *)
LastOf(todo, to) ==
  /\ todo # <<>> /\ Len(todo) <= Len(to)
  /\ \A k \in 1 .. Len(todo) : todo[k] = to[(Len(to) - Len(todo)) + k]

ToDo ==
  \A t \in SmtpThreads : smtp[t].stage # "idle" =>
    smtp[t].mail \in Mails /\ LastOf(smtp[t].todo, smtp[t].to)

(* The mutex of a mailbox belongs to one session, from PASS to the end.    *)
BoxOwned ==
  \A p \in PopThreads :
    /\ pop[p].stage # "idle" => pop[p].box \in Boxes
    /\ pop[p].stage \in {"open", "unlock", "return"} => pop[p].owns
    /\ pop[p].stage # "idle" /\ pop[p].owns => box_lock[pop[p].box] = p

(* A session's mails are the first of its box; what follows them was       *)
(* written while it was open.                                              *)
FirstMails ==
  \A p \in PopThreads : pop[p].stage = "open" =>
    LET mails == pop[p].mailbox_state
        text  == file[pop[p].box]
    IN  /\ Len(mails) <= Len(text)
        /\ \A i \in 1 .. Len(mails) : text[i] = mails[i]
        /\ \A i \in Len(mails) + 1 .. Len(text) : <<text[i], pop[p].box>> \in late

SessionInv == MailTypes /\ ToDo /\ BoxOwned /\ FirstMails

(* send_mqueue is not started while it runs.                               *)
OneRunAtATime == \A r, s \in Senders : r = s

(* What the queue holds while send_mqueue runs, the run carries, or it has *)
(* been sent, or was written meanwhile; until the queue is emptied all that*)
(* the run carries is there; from then on that is the unsent mails.        *)
QueueRead ==
  \A s \in Senders :
    /\ sender[s].stage # "idle" =>
         \A m \in ToSet(file[Queue]) : Carries(s, m) \/ m \in sent \/ <<m, Queue>> \in late
    /\ sender[s].stage = "send" => \A m : Carries(s, m) => m \in ToSet(file[Queue])
    /\ sender[s].stage # "send" => sender[s].emails = <<>>
    /\ sender[s].stage = "idle" => sender[s].unsent = <<>>

Safe(m, f) == <<m, f>> \in late \/ Held(m, f)

(* Where a delivery has been, its mail is kept.                            *)
WrittenKept ==
  \A t \in SmtpThreads : smtp[t].stage # "idle" =>
    \A k \in 1 .. Len(smtp[t].to) - Len(smtp[t].todo) : Safe(smtp[t].mail, smtp[t].to[k])

AnsweredSafe == \A x \in answered : x \in Mails \X Files /\ Safe(x[1], x[2])

KeptInv == QueueRead /\ WrittenKept /\ AnsweredSafe

-----------------------------------------------------------------------------
(* What update leaves of a mailbox.                                        *)

LEMMA Induction ==
  ASSUME NEW S, 0 \in S, \A n \in Nat : n \in S => n + 1 \in S
  PROVE  \A n \in Nat : n \in S
<1> DEFINE T == Nat \ S
<1> SUFFICES ASSUME T # {} PROVE FALSE
  OBVIOUS
<1>1. IsWellFoundedOn(OpToRel(<, Nat), Nat)
  BY NatLessThanWellFounded
<1>2. PICK m \in T : \A k \in T : <<k, m>> \notin OpToRel(<, Nat)
  <2>1. T \in SUBSET Nat /\ T # {}
    OBVIOUS
  <2> HIDE DEF T
  <2> QED
    BY <1>1, <2>1, WFMin
<1>3. \A k \in T : ~ (k < m)
  BY <1>2 DEF OpToRel
<1>4. m \in Nat /\ m # 0
  OBVIOUS
<1>5. m - 1 \in Nat /\ m - 1 \notin T
  BY <1>3, <1>4
<1> QED
  BY <1>4, <1>5

LEMMA AppendedText ==
  ASSUME NEW text \in Texts, NEW m \in Mails \cup {Torn}
  PROVE  /\ Append(text, m) \in Texts
         /\ Len(Append(text, m)) = Len(text) + 1 /\ Len(text) \in Nat
         /\ Append(text, m)[Len(text) + 1] = m
         /\ \A i \in 1 .. Len(text) : Append(text, m)[i] = text[i]
         /\ ToSet(Append(text, m)) = ToSet(text) \cup {m}
<1>1. /\ Append(text, m) \in Texts /\ Len(Append(text, m)) = Len(text) + 1 /\ Len(text) \in Nat
      /\ DOMAIN Append(text, m) = 1 .. Len(text) + 1 /\ DOMAIN text = 1 .. Len(text)
  BY DEF Texts
<1>2. Append(text, m)[Len(text) + 1] = m /\ \A i \in 1 .. Len(text) : Append(text, m)[i] = text[i]
  BY DEF Texts
<1>3. ToSet(Append(text, m)) = ToSet(text) \cup {m}
  BY <1>1, <1>2 DEF ToSet
<1> QED
  BY <1>1, <1>2, <1>3

(* The copies that the loop of update has made after each message.         *)
Copies(copied, text, deleted, n) ==
  copied = [i \in 0 .. n |-> IF i = 0 THEN <<>>
                             ELSE IF i \in deleted THEN copied[i - 1]
                             ELSE Append(copied[i - 1], text[i])]

LEMMA CopiesExist ==
  ASSUME NEW text, NEW deleted, NEW n \in Nat
  PROVE  \E copied : Copies(copied, text, deleted, n)
<1> DEFINE S == {j \in Nat : \E copied : Copies(copied, text, deleted, j)}
<1>1. 0 \in S
  <2> DEFINE copied == [i \in 0 .. 0 |-> <<>>]
  <2>1. copied = [i \in 0 .. 0 |-> IF i = 0 THEN <<>>
                                   ELSE IF i \in deleted THEN copied[i - 1]
                                   ELSE Append(copied[i - 1], text[i])]
    OBVIOUS
  <2> HIDE DEF copied
  <2> QED
    BY <2>1 DEF Copies
<1>2. ASSUME NEW j \in Nat, j \in S PROVE j + 1 \in S
  <2>1. PICK f : Copies(f, text, deleted, j)
    BY <1>2
  <2> DEFINE g == [i \in 0 .. j + 1 |->
                     IF i # j + 1 THEN f[i]
                     ELSE IF i \in deleted THEN f[j] ELSE Append(f[j], text[i])]
  <2>2. \A i \in 0 .. j + 1 : g[i] = IF i = 0 THEN <<>>
                                     ELSE IF i \in deleted THEN g[i - 1]
                                     ELSE Append(g[i - 1], text[i])
    <3> SUFFICES ASSUME NEW i \in 0 .. j + 1
                 PROVE  g[i] = IF i = 0 THEN <<>>
                               ELSE IF i \in deleted THEN g[i - 1]
                               ELSE Append(g[i - 1], text[i])
      OBVIOUS
    <3>1. CASE i = j + 1
      BY <3>1
    <3>2. CASE i # j + 1
      <4>1. i \in 0 .. j /\ g[i] = f[i] /\ (i # 0 => g[i - 1] = f[i - 1])
        BY <3>2
      <4> HIDE DEF g
      <4> QED
        BY <2>1, <4>1 DEF Copies
    <3> QED
      BY <3>1, <3>2
  <2>3. Copies(g, text, deleted, j + 1)
    BY <2>2 DEF Copies
  <2> HIDE DEF g
  <2> QED
    BY <2>3
<1>3. n \in S
  <2> HIDE DEF S
  <2> QED
    BY <1>1, <1>2, Induction
<1> QED
  BY <1>3

LEMMA CopiesHold ==
  ASSUME NEW n \in Nat, NEW text \in Texts, n <= Len(text), NEW deleted,
         NEW f, Copies(f, text, deleted, n)
  PROVE  f[n] \in Texts /\ \A i \in 1 .. n \ deleted : text[i] \in ToSet(f[n])
<1> DEFINE Good(j) == f[j] \in Texts /\ \A i \in 1 .. j \ deleted : text[i] \in ToSet(f[j])
           S == {j \in Nat : j <= n => Good(j)}
<1>1. 0 \in S
  BY DEF Copies, Texts
<1>2. ASSUME NEW j \in Nat, j \in S PROVE j + 1 \in S
  <2> SUFFICES ASSUME j + 1 <= n PROVE Good(j + 1)
    OBVIOUS
  <2>1. j \in 0 .. n /\ j + 1 \in 0 .. n /\ j + 1 # 0 /\ (j + 1) - 1 = j /\ Good(j)
    BY <1>2
  <2>2. f[j + 1] = IF j + 1 \in deleted THEN f[j] ELSE Append(f[j], text[j + 1])
    BY <2>1 DEF Copies
  <2>3. text[j + 1] \in Mails \cup {Torn}
    BY <2>1 DEF Texts
  <2>4. CASE j + 1 \in deleted
    BY <2>1, <2>2, <2>4
  <2>5. CASE j + 1 \notin deleted
    <3> DEFINE a == f[j]
               e == text[j + 1]
    <3>1. a \in Texts /\ e \in Mails \cup {Torn} /\ f[j + 1] = Append(a, e)
      BY <2>1, <2>2, <2>3, <2>5
    <3>2. \A i \in 1 .. j \ deleted : text[i] \in ToSet(a)
      BY <2>1
    <3> HIDE DEF a
    <3>3. Append(a, e) \in Texts /\ ToSet(Append(a, e)) = ToSet(a) \cup {e}
      <4> HIDE DEF e
      <4> QED
        BY <3>1, AppendedText
    <3> QED
      BY <3>1, <3>2, <3>3
  <2> QED
    BY <2>4, <2>5
<1>3. n \in S
  <2> HIDE DEF S
  <2> QED
    BY <1>1, <1>2, Induction
<1> QED
  BY <1>3

(* Kept is a sequence of mails, and holds all that are not deleted.        *)
LEMMA KeptHolds ==
  ASSUME NEW p \in PopThreads, pop[p].mailbox_state \in Texts,
         file[pop[p].box] \in Texts,
         Len(pop[p].mailbox_state) <= Len(file[pop[p].box])
  PROVE  /\ Kept(p) \in Texts
         /\ \A i \in 1 .. Len(pop[p].mailbox_state) \ pop[p].transactions :
              file[pop[p].box][i] \in ToSet(Kept(p))
<1> DEFINE n == Len(pop[p].mailbox_state)
           text == file[pop[p].box]
           deleted == pop[p].transactions
           copied[i \in 0 .. n] ==
             IF i = 0 THEN <<>>
             ELSE IF i \in deleted THEN copied[i - 1]
             ELSE Append(copied[i - 1], text[i])
<1>1. n \in Nat
  BY DEF Texts
<1>2. PICK f : Copies(f, text, deleted, n)
  BY <1>1, CopiesExist
<1>3. Copies(copied, text, deleted, n)
  BY <1>2 DEF Copies
<1>4. Kept(p) = copied[n]
  BY DEF Kept
<1> HIDE DEF copied
<1> QED
  BY <1>1, <1>3, <1>4, CopiesHold

-----------------------------------------------------------------------------
(* An open session sees its mails.                                         *)

LEMMA SessionInit == Init => SessionInv
<1> SUFFICES ASSUME Init PROVE SessionInv
  OBVIOUS
<1>1. MailTypes
  BY DEF Init, MailTypes, Texts, DeliveryType, SessionType, RunType, NoDelivery, NoSession, NoRun
<1>2. ToDo /\ BoxOwned /\ FirstMails
  BY DEF Init, ToDo, BoxOwned, FirstMails, NoDelivery, NoSession
<1> QED
  BY <1>1, <1>2 DEF SessionInv

(* A step that leaves the sessions, the files and late alone.              *)
LEMMA SameSessions ==
  ASSUME BoxOwned, FirstMails, UNCHANGED <<pop, box_lock, file, late>>
  PROVE  BoxOwned' /\ FirstMails'
BY DEF BoxOwned, FirstMails

LEMMA SessionReceive ==
  ASSUME SessionInv, NEW t \in SmtpThreads, NEW m \in Mails, NEW to \in Recipients, Receive(t, m, to)
  PROVE  SessionInv'
<1>1. to \in Seq(Files) /\ to # <<>>
  BY FileAssumption
<1>2. smtp' = [smtp EXCEPT ![t] = [stage |-> "lock", mail |-> m, to |-> to, todo |-> to]]
  BY DEF Receive
<1>3. MailTypes'
  BY <1>1, <1>2 DEF Receive, SessionInv, MailTypes, DeliveryType, locks
<1>4. ToDo'
  <2>1. LastOf(to, to)
    <3> DEFINE n == Len(to)
    <3>1. n \in Nat
      BY <1>1
    <3> HIDE DEF n
    <3>2. \A k \in 1 .. n : (n - n) + k = k
      BY <3>1
    <3> QED
      BY <1>1, <3>1, <3>2 DEF LastOf, n
  <2>2. smtp'[t].mail = m /\ smtp'[t].to = to /\ smtp'[t].todo = to
        /\ \A u \in SmtpThreads \ {t} : smtp'[u] = smtp[u]
    BY <1>2 DEF SessionInv, MailTypes
  <2> QED
    BY <2>1, <2>2 DEF SessionInv, ToDo
<1>5. BoxOwned' /\ FirstMails'
  BY SameSessions DEF SessionInv, Receive, locks
<1> QED
  BY <1>3, <1>4, <1>5 DEF SessionInv

LEMMA SessionLocks ==
  ASSUME SessionInv, NEW t \in SmtpThreads, LockThread(t) \/ LockFile(t) \/ UnlockFile(t)
  PROVE  SessionInv'
<1>1. /\ smtp[t].stage # "idle"
      /\ \E stage \in {"flock", "write", "close"} : smtp' = [smtp EXCEPT ![t].stage = stage]
      /\ UNCHANGED <<file, box_lock, pop, sender, late>>
  BY DEF LockThread, LockFile, UnlockFile, history
<1>2. PICK stage \in {"flock", "write", "close"} : smtp' = [smtp EXCEPT ![t].stage = stage]
  BY <1>1
<1>3. MailTypes'
  BY <1>1, <1>2, ZenonT(30) DEF SessionInv, MailTypes, DeliveryType
<1>4. ToDo'
  BY <1>1, <1>2 DEF SessionInv, MailTypes, DeliveryType, ToDo
<1>5. BoxOwned' /\ FirstMails'
  BY <1>1, SameSessions DEF SessionInv
<1> QED
  BY <1>3, <1>4, <1>5 DEF SessionInv

(* What CloseFile does to a file.                                          *)
LEMMA FileAppended ==
  ASSUME SessionInv, NEW t \in SmtpThreads, CloseFile(t)
  PROVE  /\ Target(t) \in Files /\ smtp[t].mail \in Mails /\ smtp[t].todo # <<>>
         /\ file' = [file EXCEPT ![Target(t)] = Append(@, smtp[t].mail)]
         /\ file' \in [Files -> Texts]
         /\ \A f \in Files \ {Target(t)} : file'[f] = file[f]
         /\ file'[Target(t)] = Append(file[Target(t)], smtp[t].mail)
         /\ ToSet(file'[Target(t)]) = ToSet(file[Target(t)]) \cup {smtp[t].mail}
         /\ BeingRewritten(Target(t)) => <<smtp[t].mail, Target(t)>> \in late'
         /\ late \subseteq late'
<1>1. smtp[t].stage = "close" /\ smtp[t] \in DeliveryType
  BY DEF CloseFile, SessionInv, MailTypes
<1>2. smtp[t].mail \in Mails /\ smtp[t].todo # <<>> /\ smtp[t].todo \in Seq(Files)
  BY <1>1 DEF SessionInv, ToDo, LastOf, DeliveryType
<1>3. Target(t) \in Files
  BY <1>2 DEF Target
<1>4. file' = [file EXCEPT ![Target(t)] = Append(@, smtp[t].mail)]
  BY DEF CloseFile
<1>5. /\ Append(file[Target(t)], smtp[t].mail) \in Texts
      /\ ToSet(Append(file[Target(t)], smtp[t].mail)) = ToSet(file[Target(t)]) \cup {smtp[t].mail}
  <2> DEFINE m == smtp[t].mail
             text == file[Target(t)]
  <2>1. m \in Mails \cup {Torn} /\ text \in Texts
    BY <1>2, <1>3 DEF SessionInv, MailTypes
  <2> HIDE DEF m, text
  <2>2. Append(text, m) \in Texts /\ ToSet(Append(text, m)) = ToSet(text) \cup {m}
    BY <2>1, AppendedText
  <2> QED
    BY <2>2 DEF m, text
<1>6. /\ file' \in [Files -> Texts]
      /\ \A f \in Files \ {Target(t)} : file'[f] = file[f]
      /\ file'[Target(t)] = Append(file[Target(t)], smtp[t].mail)
  BY <1>3, <1>4, <1>5 DEF SessionInv, MailTypes
<1>7. /\ BeingRewritten(Target(t)) => <<smtp[t].mail, Target(t)>> \in late'
      /\ late \subseteq late'
  BY DEF CloseFile
<1> QED
  BY <1>2, <1>3, <1>4, <1>5, <1>6, <1>7

LEMMA RestIsLast ==
  ASSUME NEW to \in Seq(Files), NEW todo \in Seq(Files), NEW rest \in Seq(Files),
         LastOf(todo, to), rest # <<>>, Len(rest) = Len(todo) - 1,
         \A k \in 1 .. Len(rest) : rest[k] = todo[k + 1]
  PROVE  LastOf(rest, to)
<1> DEFINE m == Len(to)
           n == Len(todo)
           r == Len(rest)
<1>1. m \in Nat /\ n \in Nat /\ r \in Nat /\ r = n - 1 /\ n <= m
  BY DEF LastOf
<1> HIDE DEF m, n, r
<1>2. r <= m /\ \A k \in 1 .. r : k + 1 \in 1 .. n /\ (m - n) + (k + 1) = (m - r) + k
  BY <1>1
<1>3. \A k \in 1 .. n : todo[k] = to[(m - n) + k]
  BY DEF LastOf, m, n
<1>4. \A k \in 1 .. r : rest[k] = to[(m - r) + k]
  <2> SUFFICES ASSUME NEW k \in 1 .. r PROVE rest[k] = to[(m - r) + k]
    OBVIOUS
  <2>1. rest[k] = todo[k + 1]
    BY DEF r
  <2>2. k + 1 \in 1 .. n /\ (m - n) + (k + 1) = (m - r) + k
    BY <1>2
  <2>3. todo[k + 1] = to[(m - n) + (k + 1)]
    BY <1>3, <2>2
  <2> QED
    BY <2>1, <2>2, <2>3
<1> QED
  BY <1>2, <1>4 DEF LastOf, m, n, r

LEMMA SessionClose ==
  ASSUME SessionInv, NEW t \in SmtpThreads, CloseFile(t)
  PROVE  SessionInv'
<1>1. /\ Target(t) \in Files /\ smtp[t].mail \in Mails /\ smtp[t].todo # <<>>
      /\ file' \in [Files -> Texts]
      /\ \A f \in Files \ {Target(t)} : file'[f] = file[f]
      /\ file'[Target(t)] = Append(file[Target(t)], smtp[t].mail)
      /\ BeingRewritten(Target(t)) => <<smtp[t].mail, Target(t)>> \in late'
      /\ late \subseteq late'
  BY FileAppended
<1>2. /\ smtp[t].stage = "close" /\ smtp \in [SmtpThreads -> DeliveryType]
      /\ pop' = pop /\ box_lock' = box_lock /\ sender' = sender
      /\ \/ /\ Len(smtp[t].todo) > 1
            /\ smtp' = [smtp EXCEPT ![t].stage = "lock", ![t].todo = Tail(@)]
         \/ smtp' = [smtp EXCEPT ![t] = NoDelivery]
  BY DEF CloseFile, SessionInv, MailTypes
<1>3. ASSUME Len(smtp[t].todo) > 1, smtp' = [smtp EXCEPT ![t].stage = "lock", ![t].todo = Tail(@)]
      PROVE  MailTypes' /\ ToDo'
  <2> DEFINE todo == smtp[t].todo
             rest == Tail(todo)
  <2>1. todo \in Seq(Files) /\ Len(todo) > 1
    BY <1>2, <1>3 DEF DeliveryType
  <2>2. /\ rest \in Seq(Files) /\ rest # <<>> /\ Len(rest) = Len(todo) - 1
        /\ \A k \in 1 .. Len(rest) : rest[k] = todo[k + 1]
    <3> HIDE DEF todo
    <3> QED
      BY <2>1
  <2>3. smtp'[t].todo = rest /\ smtp'[t].to = smtp[t].to /\ smtp'[t].mail = smtp[t].mail
    BY <1>2, <1>3 DEF DeliveryType
  <2>4. smtp' \in [SmtpThreads -> DeliveryType] /\ \A u \in SmtpThreads \ {t} : smtp'[u] = smtp[u]
    <3> HIDE DEF rest
    <3> QED
      BY <1>2, <1>3, <2>2 DEF DeliveryType
  <2>5. LastOf(rest, smtp[t].to)
    <3>1. LastOf(todo, smtp[t].to) /\ smtp[t].to \in Seq(Files)
      BY <1>2 DEF SessionInv, ToDo, DeliveryType
    <3> HIDE DEF rest, todo
    <3> QED
      BY <2>1, <2>2, <3>1, RestIsLast
  <2>7. ToDo'
    <3> HIDE DEF rest, todo
    <3> QED
      BY <1>1, <2>3, <2>4, <2>5 DEF SessionInv, ToDo
  <2>8. MailTypes'
    BY <1>1, <1>2, <2>4 DEF SessionInv, MailTypes
  <2> QED
    BY <2>7, <2>8
<1>4. ASSUME smtp' = [smtp EXCEPT ![t] = NoDelivery]
      PROVE  MailTypes' /\ ToDo'
  <2>1. NoDelivery \in DeliveryType /\ NoDelivery.stage = "idle"
    BY DEF NoDelivery, DeliveryType
  <2> QED
    BY <1>1, <1>2, <1>4, <2>1 DEF SessionInv, MailTypes, ToDo
<1>5. BoxOwned'
  BY <1>2 DEF SessionInv, BoxOwned
<1>6. FirstMails'
  <2> SUFFICES ASSUME NEW p \in PopThreads, pop[p].stage = "open"
               PROVE  LET mails == pop[p].mailbox_state
                          text  == file'[pop[p].box]
                      IN  /\ Len(mails) <= Len(text)
                          /\ \A i \in 1 .. Len(mails) : text[i] = mails[i]
                          /\ \A i \in Len(mails) + 1 .. Len(text) : <<text[i], pop[p].box>> \in late'
    BY <1>2 DEF FirstMails
  <2> DEFINE mails == pop[p].mailbox_state
             b == pop[p].box
             text == file[b]
  <2>1. mails \in Texts /\ b \in Boxes /\ text \in Texts
    BY DEF SessionInv, MailTypes, SessionType, BoxOwned, Files
  <2>2. /\ Len(mails) <= Len(text)
        /\ \A i \in 1 .. Len(mails) : text[i] = mails[i]
        /\ \A i \in Len(mails) + 1 .. Len(text) : <<text[i], b>> \in late
    BY DEF SessionInv, FirstMails
  <2>3. CASE b # Target(t)
    <3>1. file'[b] = text
      BY <1>1, <2>1, <2>3 DEF Files
    <3> HIDE DEF text, mails, b
    <3> QED
      BY <1>1, <2>2, <3>1 DEF mails, b
  <2>4. CASE b = Target(t)
    <3> DEFINE m == smtp[t].mail
    <3>1. file'[b] = Append(text, m) /\ m \in Mails
      BY <1>1, <2>4
    <3>2. <<m, b>> \in late'
      BY <1>1, <2>4 DEF BeingRewritten
    <3> HIDE DEF text, mails, b, m
    <3>3. /\ Len(file'[b]) = Len(text) + 1 /\ Len(text) \in Nat /\ Len(mails) \in Nat
          /\ file'[b][Len(text) + 1] = m /\ \A i \in 1 .. Len(text) : file'[b][i] = text[i]
      <4>1. Len(mails) \in Nat
        BY <2>1 DEF Texts
      <4> QED
        BY <2>1, <3>1, <4>1, AppendedText
    <3>4. Len(mails) <= Len(file'[b]) /\ \A i \in 1 .. Len(mails) : file'[b][i] = mails[i]
      BY <2>2, <3>3
    <3>5. \A i \in Len(mails) + 1 .. Len(file'[b]) : <<file'[b][i], b>> \in late'
      BY <1>1, <2>2, <3>2, <3>3
    <3> QED
      BY <3>4, <3>5 DEF mails, b
  <2> QED
    BY <2>3, <2>4
<1> QED
  BY <1>2, <1>3, <1>4, <1>5, <1>6 DEF SessionInv

(* What a session that is not open changes.                                *)
LEMMA SessionPASS ==
  ASSUME SessionInv, NEW p \in PopThreads, NEW b \in Boxes, PASS(p, b)
  PROVE  SessionInv'
<1> DEFINE session == [NoSession EXCEPT !.stage = "locking", !.box = b, !.owns = (box_lock[b] = None)]
<1>1. /\ session \in SessionType /\ session.stage = "locking" /\ session.box = b
      /\ session.owns <=> box_lock[b] = None
  <2> DEFINE locking(owns) == [stage |-> "locking", box |-> b, owns |-> owns,
                               mailbox_state |-> <<>>, transactions |-> {}]
  <2>1. <<>> \in Texts
    BY DEF Texts
  <2>2. CASE box_lock[b] = None
    <3>1. session = [NoSession EXCEPT !.stage = "locking", !.box = b, !.owns = TRUE]
      BY <2>2
    <3> HIDE DEF session
    <3>2. session = locking(TRUE)
      BY <3>1 DEF NoSession
    <3> QED
      BY <2>1, <2>2, <3>2 DEF SessionType
  <2>3. CASE box_lock[b] # None
    <3>1. session = [NoSession EXCEPT !.stage = "locking", !.box = b, !.owns = FALSE]
      BY <2>3
    <3> HIDE DEF session
    <3>2. session = locking(FALSE)
      BY <3>1 DEF NoSession
    <3> QED
      BY <2>1, <2>3, <3>2 DEF SessionType
  <2> QED
    BY <2>2, <2>3
<1>2. pop' = [pop EXCEPT ![p] = session]
  BY DEF PASS
<1> HIDE DEF session
<1>3. /\ pop[p].stage = "idle" /\ UNCHANGED <<file, smtp, sender, late>>
      /\ box_lock' = IF box_lock[b] = None THEN [box_lock EXCEPT ![b] = p] ELSE box_lock
  BY DEF PASS, history
<1>4. MailTypes' /\ ToDo'
  BY <1>1, <1>2, <1>3 DEF SessionInv, MailTypes, ToDo
<1>5. pop'[p] = session /\ \A q \in PopThreads \ {p} : pop'[q] = pop[q]
  BY <1>2 DEF SessionInv, MailTypes
<1>6. BoxOwned'
  <2>1. \A c \in Boxes : box_lock'[c] = box_lock[c] \/ box_lock[c] = None
    BY <1>3 DEF SessionInv, MailTypes
  <2>2. session.owns => box_lock'[b] = p
    BY <1>1, <1>3 DEF SessionInv, MailTypes
  <2>3. \A q \in PopThreads : q # None
    OBVIOUS
  <2> QED
    BY <1>1, <1>5, <2>1, <2>2, <2>3 DEF SessionInv, BoxOwned
<1>7. FirstMails'
  BY <1>1, <1>3, <1>5 DEF SessionInv, FirstMails
<1> QED
  BY <1>4, <1>6, <1>7 DEF SessionInv

LEMMA SessionAuthenticate ==
  ASSUME SessionInv, NEW p \in PopThreads, Authenticate(p)
  PROVE  SessionInv'
<1> DEFINE b == pop[p].box
<1>1. /\ pop[p].stage = "locking" /\ pop[p] \in SessionType /\ b \in Boxes
      /\ UNCHANGED <<file, smtp, sender, late>>
  BY DEF Authenticate, history, SessionInv, MailTypes, BoxOwned
<1>2. file[b] \in Texts
  BY <1>1 DEF SessionInv, MailTypes, Files
<1>3. CASE pop[p].owns /\ flock[b] = None
  <2>1. /\ pop' = [pop EXCEPT ![p].stage = "open", ![p].mailbox_state = file[b]]
        /\ box_lock' = box_lock
    BY <1>3 DEF Authenticate
  <2>2. /\ pop'[p].stage = "open" /\ pop'[p].mailbox_state = file[b] /\ pop'[p].box = b /\ pop'[p].owns
        /\ \A q \in PopThreads \ {p} : pop'[q] = pop[q]
    BY <1>3, <2>1 DEF SessionInv, MailTypes, SessionType
  <2>3. MailTypes' /\ ToDo'
    <3>1. pop' \in [PopThreads -> SessionType]
      BY <1>2, <2>1, ZenonT(30) DEF SessionInv, MailTypes, SessionType
    <3> QED
      BY <1>1, <2>1, <3>1 DEF SessionInv, MailTypes, ToDo
  <2>4. BoxOwned'
    <3>1. box_lock[b] = p
      BY <1>1, <1>3 DEF SessionInv, BoxOwned
    <3>2. /\ pop'[p].box \in Boxes /\ box_lock'[pop'[p].box] = p
      BY <1>1, <2>1, <2>2, <3>1
    <3> QED
      BY <2>1, <2>2, <3>2, ZenonT(30) DEF SessionInv, BoxOwned
  <2>5. FirstMails'
    <3>1. Len(file[b]) \in Nat
      BY <1>2 DEF Texts
    <3> QED
      BY <1>1, <2>2, <3>1 DEF SessionInv, FirstMails
  <2> QED
    BY <2>3, <2>4, <2>5 DEF SessionInv
<1>4. CASE ~ (pop[p].owns /\ flock[b] = None)
  <2>1. /\ pop' = [pop EXCEPT ![p] = NoSession]
        /\ box_lock' = IF pop[p].owns THEN [box_lock EXCEPT ![b] = None] ELSE box_lock
    BY <1>4 DEF Authenticate
  <2>2. NoSession \in SessionType /\ NoSession.stage = "idle"
    BY DEF NoSession, SessionType, Texts
  <2>3. pop'[p] = NoSession /\ \A q \in PopThreads \ {p} : pop'[q] = pop[q]
    BY <2>1 DEF SessionInv, MailTypes
  <2>4. MailTypes' /\ ToDo'
    BY <1>1, <2>1, <2>2 DEF SessionInv, MailTypes, ToDo
  <2>5. BoxOwned'
    <3>1. ASSUME NEW q \in PopThreads \ {p}, pop[q].stage # "idle", pop[q].owns
          PROVE  box_lock'[pop[q].box] = q
      <4>1. box_lock[pop[q].box] = q /\ pop[q].box \in Boxes
        BY <3>1 DEF SessionInv, BoxOwned
      <4>2. pop[p].owns => box_lock[b] = p
        BY <1>1 DEF SessionInv, BoxOwned
      <4> QED
        BY <2>1, <4>1, <4>2 DEF SessionInv, MailTypes
    <3> QED
      BY <2>2, <2>3, <3>1 DEF SessionInv, BoxOwned
  <2>6. FirstMails'
    BY <1>1, <2>2, <2>3 DEF SessionInv, FirstMails
  <2> QED
    BY <2>4, <2>5, <2>6 DEF SessionInv
<1> QED
  BY <1>3, <1>4

LEMMA SessionCommand ==
  ASSUME SessionInv, NEW p \in PopThreads, (\E i \in Numbers(p) : DELE(p, i)) \/ RSET(p) \/ UnlockBox(p)
  PROVE  SessionInv'
<1>1. /\ pop[p].stage # "idle" /\ UNCHANGED <<file, box_lock, smtp, sender, late>>
      /\ \/ \E deleted \in SUBSET Nat :
              pop[p].stage = "open" /\ pop' = [pop EXCEPT ![p].transactions = deleted]
         \/ pop[p].stage = "unlock" /\ pop' = [pop EXCEPT ![p].stage = "return"]
  <2>1. ASSUME NEW i \in Numbers(p), DELE(p, i)
        PROVE  \E deleted \in SUBSET Nat : pop' = [pop EXCEPT ![p].transactions = deleted]
    <3>1. pop[p].transactions \cup {i} \in SUBSET Nat
      BY DEF Numbers, SessionInv, MailTypes, SessionType, Texts
    <3> QED
      BY <2>1, <3>1 DEF DELE
  <2>2. CASE RSET(p)
    BY <2>2 DEF RSET, locks, history
  <2>3. CASE UnlockBox(p)
    BY <2>3 DEF UnlockBox, history
  <2> QED
    BY <2>1, <2>2, <2>3 DEF DELE, locks, history
<1>2. /\ pop' \in [PopThreads -> SessionType] /\ \A q \in PopThreads \ {p} : pop'[q] = pop[q]
      /\ pop'[p].box = pop[p].box /\ pop'[p].owns = pop[p].owns
      /\ pop'[p].mailbox_state = pop[p].mailbox_state
      /\ \/ pop'[p].stage = pop[p].stage
         \/ pop[p].stage = "unlock" /\ pop'[p].stage = "return"
  BY <1>1 DEF SessionInv, MailTypes, SessionType
<1>3. MailTypes' /\ ToDo'
  BY <1>1, <1>2 DEF SessionInv, MailTypes, ToDo
<1>4. BoxOwned'
  BY <1>1, <1>2 DEF SessionInv, BoxOwned
<1>5. FirstMails'
  BY <1>1, <1>2 DEF SessionInv, FirstMails
<1> QED
  BY <1>3, <1>4, <1>5 DEF SessionInv

(* QUIT writes the box that it alone has open.                             *)
LEMMA SessionQUIT ==
  ASSUME SessionInv, NEW p \in PopThreads, QUIT(p)
  PROVE  SessionInv'
<1> DEFINE b == pop[p].box
<1>1. /\ pop[p].stage = "open" /\ b \in Boxes /\ pop[p].owns /\ box_lock[b] = p
      /\ UNCHANGED <<box_lock, smtp, sender, late>>
      /\ pop' = [pop EXCEPT ![p].stage = "unlock"]
  BY DEF QUIT, locks, SessionInv, BoxOwned
<1>2. /\ pop' \in [PopThreads -> SessionType] /\ \A q \in PopThreads \ {p} : pop'[q] = pop[q]
      /\ pop'[p].box = b /\ pop'[p].owns /\ pop'[p].stage = "unlock"
  BY <1>1 DEF SessionInv, MailTypes, SessionType
<1>3. file' \in [Files -> Texts] /\ \A f \in Files \ {b} : file'[f] = file[f]
  <2>1. Kept(p) \in Texts
    <3>1. pop[p].mailbox_state \in Texts /\ file[b] \in Texts
      BY <1>1 DEF SessionInv, MailTypes, SessionType, Files
    <3>2. Len(pop[p].mailbox_state) <= Len(file[b])
      BY <1>1 DEF SessionInv, FirstMails
    <3> QED
      BY <3>1, <3>2, KeptHolds
  <2> QED
    BY <2>1 DEF QUIT, SessionInv, MailTypes
<1>4. MailTypes' /\ ToDo'
  BY <1>1, <1>2, <1>3 DEF SessionInv, MailTypes, ToDo
<1>5. BoxOwned'
  BY <1>1, <1>2 DEF SessionInv, BoxOwned
<1>6. FirstMails'
  <2>1. ASSUME NEW q \in PopThreads, pop'[q].stage = "open"
        PROVE  q # p /\ pop[q].box \in Files \ {b}
    <3>1. q # p /\ pop[q].stage = "open"
      BY <1>2, <2>1
    <3>2. pop[q].box \in Boxes /\ box_lock[pop[q].box] = q
      BY <3>1 DEF SessionInv, BoxOwned
    <3> QED
      BY <1>1, <3>1, <3>2 DEF Files
  <2> QED
    BY <1>1, <1>2, <1>3, <2>1 DEF SessionInv, FirstMails
<1> QED
  BY <1>4, <1>5, <1>6 DEF SessionInv

LEMMA SessionReturn ==
  ASSUME SessionInv, NEW p \in PopThreads, Return(p)
  PROVE  SessionInv'
<1> DEFINE b == pop[p].box
<1>1. /\ pop[p].stage = "return" /\ b \in Boxes /\ box_lock[b] = p
      /\ UNCHANGED <<file, smtp, sender, late>>
      /\ pop' = [pop EXCEPT ![p] = NoSession] /\ box_lock' = [box_lock EXCEPT ![b] = None]
  BY DEF Return, history, SessionInv, BoxOwned
<1>2. NoSession \in SessionType /\ NoSession.stage = "idle"
  BY DEF NoSession, SessionType, Texts
<1>3. pop'[p] = NoSession /\ \A q \in PopThreads \ {p} : pop'[q] = pop[q]
  BY <1>1 DEF SessionInv, MailTypes
<1>4. MailTypes' /\ ToDo'
  BY <1>1, <1>2 DEF SessionInv, MailTypes, ToDo
<1>5. BoxOwned'
  <2>1. ASSUME NEW q \in PopThreads \ {p}, pop[q].stage # "idle", pop[q].owns
        PROVE  box_lock'[pop[q].box] = q
    <3>1. box_lock[pop[q].box] = q /\ pop[q].box \in Boxes
      BY <2>1 DEF SessionInv, BoxOwned
    <3> QED
      BY <1>1, <3>1 DEF SessionInv, MailTypes
  <2> QED
    BY <1>2, <1>3, <2>1 DEF SessionInv, BoxOwned
<1>6. FirstMails'
  BY <1>1, <1>2, <1>3 DEF SessionInv, FirstMails
<1> QED
  BY <1>4, <1>5, <1>6 DEF SessionInv

(* The queue is no mailbox, so send_mqueue touches no session.             *)
LEMMA OverwrittenType ==
  ASSUME NEW new \in Texts, NEW old \in Texts, NEW text \in Overwritten(new, old)
  PROVE  /\ text \in Texts
         /\ ToSet(new) \subseteq ToSet(text)
<1>1. (text = old /\ new = <<>>) \/ text = new \/ \E rest \in Texts : text = new \o rest
  <2>1. ASSUME new # <<>>, old # <<>>,
               NEW k \in 1 .. Len(old),
               text = new \o SubSeq(old, k + 1, Len(old))
               \/ text = new \o (<<Torn>> \o SubSeq(old, k + 1, Len(old)))
        PROVE  \E rest \in Texts : text = new \o rest
    <3> DEFINE tail == SubSeq(old, k + 1, Len(old))
    <3>1. tail \in Texts
      BY DEF Texts
    <3>2. <<Torn>> \o tail \in Texts
      <4> HIDE DEF tail
      <4>1. <<Torn>> \in Texts
        BY DEF Texts
      <4> QED
        BY <3>1, <4>1 DEF Texts
    <3> HIDE DEF tail
    <3> QED
      BY <2>1, <3>1, <3>2 DEF tail
  <2> QED
    BY <2>1 DEF Overwritten
<1>2. ASSUME NEW rest \in Texts, text = new \o rest
      PROVE  text \in Texts /\ ToSet(new) \subseteq ToSet(text)
  <2>1. /\ text \in Texts /\ DOMAIN text = 1 .. Len(new) + Len(rest)
        /\ Len(new) \in Nat /\ Len(rest) \in Nat /\ DOMAIN new = 1 .. Len(new)
        /\ \A i \in 1 .. Len(new) : text[i] = new[i]
    BY <1>2 DEF Texts
  <2> QED
    BY <2>1 DEF ToSet
<1>3. new = <<>> => ToSet(new) = {}
  BY DEF ToSet
<1> QED
  BY <1>1, <1>2, <1>3

(* One round of send_emails: the mail leaves those to be tried.            *)
LEMMA TriedText ==
  ASSUME NEW text \in Texts, text # <<>>
  PROVE  /\ Tail(text) \in Texts /\ Head(text) \in Mails \cup {Torn}
         /\ ToSet(text) = {Head(text)} \cup ToSet(Tail(text))
<1>1. /\ Tail(text) \in Texts /\ Head(text) = text[1] /\ Len(text) \in Nat \ {0}
      /\ DOMAIN text = 1 .. Len(text) /\ DOMAIN Tail(text) = 1 .. Len(text) - 1
      /\ \A i \in 1 .. Len(text) - 1 : Tail(text)[i] = text[i + 1]
  BY DEF Texts
<1>2. text[1] \in Mails \cup {Torn}
  BY <1>1 DEF Texts
<1>3. ASSUME NEW m \in ToSet(text) PROVE m \in {text[1]} \cup ToSet(Tail(text))
  <2>1. PICK i \in 1 .. Len(text) : m = text[i]
    BY <1>1 DEF ToSet
  <2>2. CASE i = 1
    BY <2>1, <2>2
  <2>3. CASE i # 1
    <3>1. i - 1 \in 1 .. Len(text) - 1 /\ (i - 1) + 1 = i
      BY <1>1, <2>3
    <3>2. Tail(text)[i - 1] = m
      BY <1>1, <2>1, <3>1
    <3> QED
      BY <1>1, <3>1, <3>2 DEF ToSet
  <2> QED
    BY <2>2, <2>3
<1>4. ASSUME NEW m \in ToSet(Tail(text)) PROVE m \in ToSet(text)
  <2>1. PICK i \in 1 .. Len(text) - 1 : m = Tail(text)[i]
    BY <1>1 DEF ToSet
  <2>2. m = text[i + 1] /\ i + 1 \in 1 .. Len(text)
    BY <1>1, <2>1
  <2> QED
    BY <1>1, <2>2 DEF ToSet
<1>5. text[1] \in ToSet(text)
  BY <1>1 DEF ToSet
<1> QED
  BY <1>1, <1>2, <1>3, <1>4, <1>5

SenderStepOf(s) ==
  \/ read_mqueue(s) \/ SendEmail(s) \/ LeaveUnsent(s) \/ BreakDown(s)
  \/ Truncate(s) \/ Fill(s) \/ CloseQueue(s)

(* A step of one run changes no other run, no mailbox and no thread.       *)
LEMMA SenderStepOther ==
  ASSUME SessionInv, NEW s \in Senders, SenderStepOf(s)
  PROVE  /\ UNCHANGED <<locks, smtp, pop, posted, answered, removed, late>>
         /\ \A r \in Senders \ {s} : sender'[r] = sender[r]
         /\ sent \subseteq sent'
BY DEF SenderStepOf, read_mqueue, SendEmail, LeaveUnsent, BreakDown, Truncate, Fill, CloseQueue,
       history, SessionInv, MailTypes

(* The rounds of send_emails: what was carried is carried on or sent.      *)
LEMMA TryingStep ==
  ASSUME SessionInv, NEW s \in Senders, SendEmail(s) \/ LeaveUnsent(s)
  PROVE  /\ sender' \in [Senders -> RunType] /\ file' = file
         /\ sender[s].stage = "send" /\ sender'[s].stage = "send"
         /\ \A m : Carries(s, m) =>
              m \in ToSet(sender'[s].emails) \cup ToSet(sender'[s].unsent) \/ m \in sent'
         /\ \A m : m \in ToSet(sender'[s].emails) \cup ToSet(sender'[s].unsent) => Carries(s, m)
<1> DEFINE emails == sender[s].emails
           unsent == sender[s].unsent
<1>1. /\ sender[s].stage = "send" /\ emails # <<>> /\ file' = file
      /\ sender \in [Senders -> RunType] /\ emails \in Texts /\ unsent \in Texts
  BY DEF SendEmail, LeaveUnsent, Trying, SessionInv, MailTypes, RunType
<1> HIDE DEF emails, unsent
<1>2. /\ Tail(emails) \in Texts /\ Head(emails) \in Mails \cup {Torn}
      /\ ToSet(emails) = {Head(emails)} \cup ToSet(Tail(emails))
  BY <1>1, TriedText
<1>3. /\ Append(unsent, Head(emails)) \in Texts
      /\ ToSet(Append(unsent, Head(emails))) = ToSet(unsent) \cup {Head(emails)}
  BY <1>1, <1>2, AppendedText
<1>4. CASE SendEmail(s)
  <2>1. sent' = sent \cup {Head(emails)} /\ sender' = [sender EXCEPT ![s].emails = Tail(emails)]
    BY <1>4 DEF SendEmail, emails
  <2>2. /\ sender' \in [Senders -> RunType] /\ sender'[s].stage = "send"
        /\ sender'[s].emails = Tail(emails) /\ sender'[s].unsent = unsent
    BY <1>1, <1>2, <2>1 DEF RunType, unsent
  <2> QED
    BY <1>1, <1>2, <2>1, <2>2 DEF Carries, emails, unsent
<1>5. CASE LeaveUnsent(s)
  <2>1. sender' = [sender EXCEPT ![s].emails = Tail(emails), ![s].unsent = Append(unsent, Head(emails))]
    BY <1>5 DEF LeaveUnsent, emails, unsent
  <2>2. /\ sender' \in [Senders -> RunType] /\ sender'[s].stage = "send"
        /\ sender'[s].emails = Tail(emails) /\ sender'[s].unsent = Append(unsent, Head(emails))
    BY <1>1, <1>2, <1>3, <2>1 DEF RunType
  <2> QED
    BY <1>1, <1>2, <1>3, <2>2 DEF Carries, emails, unsent
<1> QED
  BY <1>4, <1>5

LEMMA SessionSender ==
  ASSUME SessionInv, NEW s \in Senders, SenderStepOf(s)
  PROVE  SessionInv'
<1>1. /\ UNCHANGED <<pop, box_lock, smtp, late>>
      /\ file' = file \/ file' = [file EXCEPT ![Queue] = <<>>]
         \/ \E text \in Overwritten(sender[s].unsent, file[Queue]) : file' = [file EXCEPT ![Queue] = text]
  BY SenderStepOther
  DEF SenderStepOf, read_mqueue, SendEmail, LeaveUnsent, BreakDown, Truncate, Fill, CloseQueue, locks
<1>2. sender[s].unsent \in Texts /\ file[Queue] \in Texts /\ <<>> \in Texts
  BY DEF SessionInv, MailTypes, RunType, Files, Texts
<1>3. file' \in [Files -> Texts] /\ \A f \in Files \ {Queue} : file'[f] = file[f]
  BY <1>1, <1>2, OverwrittenType DEF SessionInv, MailTypes
<1>4. sender' \in [Senders -> RunType]
  <2>1. CASE SendEmail(s) \/ LeaveUnsent(s)
    BY <2>1, TryingStep
  <2>2. CASE read_mqueue(s) \/ BreakDown(s) \/ CloseQueue(s)
    <3>1. \E run \in RunType : sender' = [sender EXCEPT ![s] = run]
      <4>1. NoRun \in RunType /\ [NoRun EXCEPT !.stage = "send", !.emails = file[Queue]] \in RunType
        BY <1>2 DEF RunType, NoRun
      <4> QED
        BY <2>2, <4>1 DEF read_mqueue, BreakDown, CloseQueue
    <3> QED
      BY <3>1 DEF SessionInv, MailTypes
  <2>3. CASE Truncate(s) \/ Fill(s)
    <3>1. \E at \in {"fill", "close"} : sender' = [sender EXCEPT ![s].stage = at]
      BY <2>3 DEF Truncate, Fill
    <3> QED
      BY <3>1 DEF SessionInv, MailTypes, RunType
  <2> QED
    BY <2>1, <2>2, <2>3 DEF SenderStepOf
<1>5. MailTypes' /\ ToDo' /\ BoxOwned'
  BY <1>1, <1>3, <1>4 DEF SessionInv, MailTypes, ToDo, BoxOwned
<1>6. FirstMails'
  <2>1. \A p \in PopThreads : pop[p].stage = "open" => pop[p].box \in Files \ {Queue}
    BY FileAssumption DEF SessionInv, BoxOwned, Files
  <2> QED
    BY <1>1, <1>3, <2>1 DEF SessionInv, FirstMails
<1> QED
  BY <1>5, <1>6 DEF SessionInv

LEMMA SessionStep == SessionInv /\ [Next]_vars => SessionInv'
<1> SUFFICES ASSUME SessionInv, [Next]_vars PROVE SessionInv'
  OBVIOUS
<1>1. ASSUME NEW t \in SmtpThreads, (\E m \in Mails, to \in Recipients : Receive(t, m, to)) \/ Deliver(t)
      PROVE  SessionInv'
  BY <1>1, SessionReceive, SessionLocks, SessionClose DEF Deliver
<1>2. ASSUME NEW p \in PopThreads,
             \/ \E b \in Boxes : PASS(p, b)
             \/ \E i \in Numbers(p) : DELE(p, i)
             \/ RSET(p) \/ QUIT(p) \/ Finish(p)
      PROVE  SessionInv'
  BY <1>2, SessionPASS, SessionAuthenticate, SessionCommand, SessionQUIT, SessionReturn DEF Finish
<1>3. ASSUME NEW s \in Senders, SenderStepOf(s)
      PROVE  SessionInv'
  BY <1>3, SessionSender
<1>4. CASE UNCHANGED vars
  BY <1>4 DEF vars, locks, history, SessionInv, MailTypes, ToDo, BoxOwned, FirstMails
<1> QED
  BY <1>1, <1>2, <1>3, <1>4 DEF Next, Fills, SenderStepOf

(* The inductive invariant: the mutex of a mailbox belongs to one session, *)
(* whose mails are the first of the box until it ends.                     *)
THEOREM SessionInvariant == Spec => []SessionInv
BY SessionInit, SessionStep, PTL DEF Spec

(* The numbers and offsets of an open session go on naming the mails it    *)
(* has read, whatever is delivered and whoever tries to open the box.      *)
THEOREM SessionsSeeTheirMailsHolds == Spec => []SessionsSeeTheirMails
<1>1. ASSUME SessionInv PROVE SessionsSeeTheirMails
  <2> SUFFICES ASSUME NEW p \in PopThreads, pop[p].stage = "open"
               PROVE  IsPrefix(pop[p].mailbox_state, file[pop[p].box])
    BY DEF SessionsSeeTheirMails
  <2> DEFINE mails == pop[p].mailbox_state
             text == file[pop[p].box]
  <2>1. mails \in Texts /\ text \in Texts
    BY <1>1 DEF SessionInv, MailTypes, SessionType, BoxOwned, Files
  <2>2. Len(mails) <= Len(text) /\ \A i \in 1 .. Len(mails) : text[i] = mails[i]
    BY <1>1 DEF SessionInv, FirstMails
  <2> HIDE DEF mails, text
  <2>3. SubSeq(mails, 1, Len(mails)) = SubSeq(text, 1, Len(mails))
    BY <2>1, <2>2 DEF Texts
  <2>4. IsPrefix(mails, text)
    BY <2>2, <2>3 DEF IsPrefix
  <2> QED
    BY <2>4 DEF mails, text
<1> QED
  BY <1>1, SessionInvariant, PTL

-----------------------------------------------------------------------------
(* An answered mail is kept.                                               *)

LEMMA SafeClose ==
  ASSUME SessionInv, NEW t \in SmtpThreads, CloseFile(t), NEW m, NEW f \in Files, Safe(m, f)
  PROVE  Safe(m, f)'
<1>1. ToSet(file[f]) \subseteq ToSet(file'[f])
  <2>1. CASE f = Target(t)
    BY <2>1, FileAppended
  <2>2. CASE f # Target(t)
    BY <2>2, FileAppended
  <2> QED
    BY <2>1, <2>2
<1>2. late \subseteq late' /\ UNCHANGED <<removed, sent, sender>>
  BY FileAppended DEF CloseFile
<1> QED
  BY <1>1, <1>2 DEF Safe, Held, Carries

LEMMA SafeQUIT ==
  ASSUME SessionInv, NEW p \in PopThreads, QUIT(p), NEW m, NEW f \in Files, Safe(m, f)
  PROVE  Safe(m, f)'
<1> DEFINE b == pop[p].box
           mails == pop[p].mailbox_state
           text == file[b]
           deleted == pop[p].transactions
<1>1. /\ pop[p].stage = "open" /\ b \in Boxes /\ mails \in Texts /\ text \in Texts
      /\ UNCHANGED <<sender, sent, late>>
      /\ removed' = removed \cup {<<mails[i], b>> : i \in deleted}
  BY DEF QUIT, SessionInv, MailTypes, SessionType, BoxOwned, Files
<1>2. /\ Len(mails) <= Len(text) /\ \A i \in 1 .. Len(mails) : text[i] = mails[i]
      /\ \A i \in Len(mails) + 1 .. Len(text) : <<text[i], b>> \in late
  BY <1>1 DEF SessionInv, FirstMails
<1>3. CASE file' = file
  BY <1>1, <1>3 DEF Safe, Held, Carries
<1>4. CASE file' # file
  <2>1. file' = [file EXCEPT ![b] = Kept(p)]
    BY <1>4 DEF QUIT
  <2>2. file'[b] = Kept(p) /\ (f # b => file'[f] = file[f])
    BY <1>1, <2>1 DEF SessionInv, MailTypes, Files
  <2>3. \A i \in 1 .. Len(mails) \ deleted : text[i] \in ToSet(Kept(p))
    BY <1>1, <1>2, KeptHolds
  <2> HIDE DEF mails, text, deleted, b
  <2>4. ASSUME NEW i \in 1 .. Len(text)
        PROVE  <<text[i], b>> \in late' \/ <<text[i], b>> \in removed' \/ text[i] \in ToSet(file'[b])
    <3>0. Len(mails) \in Nat /\ Len(text) \in Nat
      BY <1>1 DEF Texts
    <3>1. CASE i \in 1 .. Len(mails) /\ i \notin deleted
      BY <2>2, <2>3, <3>1
    <3>2. CASE i \in 1 .. Len(mails) /\ i \in deleted
      BY <1>1, <1>2, <3>2
    <3>3. CASE i \notin 1 .. Len(mails)
      <4>1. i \in Len(mails) + 1 .. Len(text)
        BY <3>0, <3>3
      <4> QED
        BY <1>1, <1>2, <4>1
    <3> QED
      BY <3>1, <3>2, <3>3
  <2>5. CASE f = b
    <3>1. file[f] = text /\ DOMAIN text = 1 .. Len(text)
      BY <1>1, <2>5 DEF text, Texts
    <3>2. m \in ToSet(file[f]) => \E i \in 1 .. Len(text) : m = text[i]
      BY <3>1 DEF ToSet
    <3>3. m \in ToSet(file[f]) => Safe(m, f)'
      BY <2>4, <2>5, <3>2 DEF Safe, Held, Carries
    <3> QED
      BY <1>1, <3>3 DEF Safe, Held, Carries
  <2>6. CASE f # b
    BY <1>1, <2>2, <2>6 DEF Safe, Held, Carries
  <2> QED
    BY <2>5, <2>6
<1> QED
  BY <1>3, <1>4

LEMMA SafeSender ==
  ASSUME SessionInv, QueueRead, NEW s \in Senders, SenderStepOf(s),
         NEW m, NEW f \in Files, Safe(m, f)
  PROVE  Safe(m, f)'
<1> DEFINE Carried == ToSet(sender'[s].emails) \cup ToSet(sender'[s].unsent)
<1>0. UNCHANGED <<late, removed>> /\ sent \subseteq sent' /\ \A r \in Senders \ {s} : sender'[r] = sender[r]
  BY SenderStepOther
<1>s. /\ sender \in [Senders -> RunType] /\ file \in [Files -> Texts] /\ Queue \in Files
      /\ sender[s].stage # "idle" =>
           \A x \in ToSet(file[Queue]) : Carries(s, x) \/ x \in sent \/ <<x, Queue>> \in late
      /\ sender[s].stage = "send" => \A x : Carries(s, x) => x \in ToSet(file[Queue])
      /\ sender[s].stage # "send" => sender[s].emails = <<>>
      /\ sender[s].stage = "idle" => sender[s].unsent = <<>>
      /\ ToSet(<<>>) = {}
  BY DEF SessionInv, MailTypes, Files, QueueRead, ToSet
<1>o. \/ <<m, f>> \in late \cup removed
      \/ f = Queue /\ m \in sent
      \/ f = Queue /\ \E r \in Senders \ {s} : Carries(r, m)
      \/ m \in ToSet(file[f])
      \/ f = Queue /\ Carries(s, m)
  BY DEF Safe, Held
<1>d. ASSUME \/ <<m, f>> \in late' \cup removed'
             \/ f = Queue /\ m \in sent'
             \/ f = Queue /\ \E r \in Senders \ {s} : Carries(r, m)
             \/ m \in ToSet(file'[f])
             \/ f = Queue /\ m \in Carried
      PROVE  Safe(m, f)'
  BY <1>0, <1>d DEF Safe, Held, Carries
<1> SUFFICES ASSUME \/ m \in ToSet(file[f])
                    \/ f = Queue /\ Carries(s, m),
                    <<m, f>> \notin late, ~ (f = Queue /\ m \in sent)
             PROVE  \/ m \in ToSet(file'[f])
                    \/ f = Queue /\ (m \in Carried \/ m \in sent')
  BY <1>0, <1>o, <1>d
<1>1. CASE read_mqueue(s)
  <2>1. ~ Carries(s, m) /\ file' = file
    BY <1>s, <1>1 DEF read_mqueue, Carries
  <2> QED
    BY <2>1
<1>2. CASE SendEmail(s) \/ LeaveUnsent(s)
  BY <1>2, TryingStep
<1>3. CASE BreakDown(s)
  <2>1. sender[s].stage = "send" /\ file' = file
    BY <1>3 DEF BreakDown, Trying
  <2> QED
    BY <1>s, <2>1
<1>4. CASE Truncate(s)
  <2>1. /\ sender[s].stage = "send"
        /\ sender'[s].emails = sender[s].emails /\ sender'[s].unsent = sender[s].unsent
        /\ file' = [file EXCEPT ![Queue] = <<>>]
    BY <1>4, <1>s DEF Truncate, RunType
  <2>2. CASE f = Queue
    BY <1>s, <2>1, <2>2 DEF Carries
  <2>3. CASE f # Queue
    BY <1>s, <2>1, <2>3
  <2> QED
    BY <2>2, <2>3
<1>5. CASE Fill(s)
  <2>1. /\ file' = file
        /\ sender'[s].emails = sender[s].emails /\ sender'[s].unsent = sender[s].unsent
    BY <1>5, <1>s DEF Fill, RunType
  <2> QED
    BY <2>1 DEF Carries
<1>6. CASE CloseQueue(s)
  <2>1. PICK text \in Overwritten(sender[s].unsent, file[Queue]) : file' = [file EXCEPT ![Queue] = text]
    BY <1>6 DEF CloseQueue
  <2>2. ToSet(sender[s].unsent) \subseteq ToSet(text)
    BY <1>s, OverwrittenType DEF RunType
  <2>3. sender[s].stage = "close"
    BY <1>6 DEF CloseQueue
  <2>4. Carries(s, m) => m \in ToSet(text)
    BY <1>s, <2>2, <2>3 DEF Carries
  <2>5. CASE f = Queue
    BY <1>s, <2>1, <2>3, <2>4, <2>5
  <2>6. CASE f # Queue
    BY <1>s, <2>1, <2>6
  <2> QED
    BY <2>5, <2>6
<1> QED
  BY <1>1, <1>2, <1>3, <1>4, <1>5, <1>6 DEF SenderStepOf

(* The steps that touch no file and no run of send_mqueue.                 *)
LEMMA SafeOther ==
  ASSUME UNCHANGED <<file, removed, sent, late, sender>>, NEW m, NEW f, Safe(m, f)
  PROVE  Safe(m, f)'
BY DEF Safe, Held, Carries

SessionStepOf(p) ==
  (\E b \in Boxes : PASS(p, b)) \/ (\E i \in Numbers(p) : DELE(p, i)) \/ RSET(p) \/ Finish(p)

LEMMA SessionStepOther ==
  ASSUME NEW p \in PopThreads, SessionStepOf(p)
  PROVE  UNCHANGED <<file, sender, smtp, removed, sent, late, answered>>
BY DEF SessionStepOf, PASS, DELE, RSET, Finish, Authenticate, UnlockBox, Return, locks, history

DeliveryStepOf(t) ==
  \/ \E m \in Mails, to \in Recipients : Receive(t, m, to)
  \/ LockThread(t) \/ LockFile(t) \/ UnlockFile(t)

LEMMA DeliveryStepOther ==
  ASSUME NEW t \in SmtpThreads, DeliveryStepOf(t)
  PROVE  UNCHANGED <<file, sender, removed, sent, late, answered>>
BY DEF DeliveryStepOf, Receive, LockThread, LockFile, UnlockFile, locks, history

LEMMA NextSteps ==
  ASSUME [Next]_vars
  PROVE  \/ \E t \in SmtpThreads : DeliveryStepOf(t) \/ CloseFile(t)
         \/ \E p \in PopThreads : SessionStepOf(p) \/ QUIT(p)
         \/ \E s \in Senders : SenderStepOf(s)
         \/ UNCHANGED vars
BY DEF Next, Deliver, Fills, DeliveryStepOf, SessionStepOf, SenderStepOf

LEMMA SafeStep ==
  ASSUME SessionInv, QueueRead, [Next]_vars, NEW m, NEW f \in Files, Safe(m, f)
  PROVE  Safe(m, f)'
<1>1. ASSUME NEW t \in SmtpThreads, DeliveryStepOf(t) PROVE Safe(m, f)'
  BY <1>1, DeliveryStepOther, SafeOther
<1>2. ASSUME NEW t \in SmtpThreads, CloseFile(t) PROVE Safe(m, f)'
  BY <1>2, SafeClose
<1>3. ASSUME NEW p \in PopThreads, SessionStepOf(p) PROVE Safe(m, f)'
  BY <1>3, SessionStepOther, SafeOther
<1>4. ASSUME NEW p \in PopThreads, QUIT(p) PROVE Safe(m, f)'
  BY <1>4, SafeQUIT
<1>5. ASSUME NEW s \in Senders, SenderStepOf(s) PROVE Safe(m, f)'
  BY <1>5, SafeSender
<1>6. CASE UNCHANGED vars
  BY <1>6, SafeOther DEF vars, history
<1> QED
  BY <1>1, <1>2, <1>3, <1>4, <1>5, <1>6, NextSteps

LEMMA QueueReadOther ==
  ASSUME QueueRead, UNCHANGED <<sender, sent, late>>, file'[Queue] = file[Queue]
  PROVE  QueueRead'
BY DEF QueueRead, Carries

LEMMA QueueReadStep ==
  ASSUME OneRunAtATime, SessionInv, QueueRead, [Next]_vars
  PROVE  QueueRead'
<1>0. /\ Queue \in Files /\ Queue \notin Boxes /\ file \in [Files -> Texts]
      /\ sender \in [Senders -> RunType]
  BY FileAssumption DEF Files, SessionInv, MailTypes
<1>1. ASSUME NEW t \in SmtpThreads, DeliveryStepOf(t) PROVE QueueRead'
  BY <1>1, DeliveryStepOther, QueueReadOther
<1>2. ASSUME NEW t \in SmtpThreads, CloseFile(t) PROVE QueueRead'
  <2>1. sender' = sender /\ sent' = sent /\ late \subseteq late'
    BY <1>2, FileAppended DEF CloseFile
  <2>2. CASE Target(t) # Queue
    <3>1. file'[Queue] = file[Queue]
      BY <1>0, <1>2, <2>2, FileAppended
    <3> QED
      BY <2>1, <3>1 DEF QueueRead, Carries
  <2>3. CASE Target(t) = Queue
    <3> DEFINE m == smtp[t].mail
    <3>2. ToSet(file'[Queue]) = ToSet(file[Queue]) \cup {m}
      BY <1>2, <2>3, FileAppended
    <3>3. (\E s \in Senders : sender[s].stage # "idle") => <<m, Queue>> \in late'
      BY <1>2, <2>3, FileAppended DEF BeingRewritten
    <3> HIDE DEF m
    <3> QED
      BY <2>1, <3>2, <3>3 DEF QueueRead, Carries
  <2> QED
    BY <2>2, <2>3
<1>3. ASSUME NEW p \in PopThreads, SessionStepOf(p) PROVE QueueRead'
  BY <1>3, SessionStepOther, QueueReadOther
<1>4. ASSUME NEW p \in PopThreads, QUIT(p) PROVE QueueRead'
  <2>1. pop[p].box \in Boxes
    BY <1>4 DEF QUIT, SessionInv, BoxOwned
  <2>2. file'[Queue] = file[Queue] /\ UNCHANGED <<sender, sent, late>>
    BY <1>0, <1>4, <2>1 DEF QUIT
  <2> QED
    BY <2>2, QueueReadOther
<1>5. ASSUME NEW s \in Senders, SenderStepOf(s) PROVE QueueRead'
  <2>1. late' = late /\ sent \subseteq sent' /\ \A r \in Senders : r = s
    BY <1>5, SenderStepOther DEF OneRunAtATime
  <2> DEFINE Carried == ToSet(sender'[s].emails) \cup ToSet(sender'[s].unsent)
  <2>2. /\ sender[s].stage # "idle" =>
             \A m \in ToSet(file[Queue]) : Carries(s, m) \/ m \in sent \/ <<m, Queue>> \in late
        /\ sender[s].stage = "send" => \A m : Carries(s, m) => m \in ToSet(file[Queue])
        /\ sender[s].stage # "send" => sender[s].emails = <<>>
        /\ sender[s].stage = "idle" => sender[s].unsent = <<>>
        /\ ToSet(<<>>) = {}
    BY DEF QueueRead, ToSet
  <2> SUFFICES /\ sender'[s].stage # "idle" =>
                    \A m \in ToSet(file'[Queue]) : m \in Carried \/ m \in sent' \/ <<m, Queue>> \in late
               /\ sender'[s].stage = "send" => \A m : m \in Carried => m \in ToSet(file'[Queue])
               /\ sender'[s].stage # "send" => sender'[s].emails = <<>>
               /\ sender'[s].stage = "idle" => sender'[s].unsent = <<>>
    BY <2>1 DEF QueueRead, Carries
  <2>3. CASE read_mqueue(s)
    <3>1. /\ file' = file /\ sender'[s].stage = "send"
          /\ sender'[s].emails = file[Queue] /\ sender'[s].unsent = <<>>
      BY <1>0, <2>3 DEF read_mqueue, NoRun
    <3> QED
      BY <2>2, <3>1
  <2>4. CASE SendEmail(s) \/ LeaveUnsent(s)
    <3>1. /\ file' = file /\ sender[s].stage = "send" /\ sender'[s].stage = "send"
          /\ \A m : Carries(s, m) => m \in Carried \/ m \in sent'
          /\ \A m : m \in Carried => Carries(s, m)
      BY <2>4, TryingStep
    <3> HIDE DEF Carried
    <3> QED
      BY <2>1, <2>2, <3>1
  <2>5. CASE BreakDown(s) \/ CloseQueue(s)
    BY <1>0, <2>5 DEF BreakDown, CloseQueue, NoRun
  <2>6. CASE Truncate(s)
    <3>1. /\ sender'[s].stage = "fill" /\ file'[Queue] = <<>> /\ sender'[s].emails = <<>>
      BY <1>0, <2>6 DEF Truncate, RunType
    <3> QED
      BY <2>2, <3>1
  <2>7. CASE Fill(s)
    <3>1. /\ file' = file /\ sender[s].stage = "fill" /\ sender'[s].stage = "close"
          /\ sender'[s].emails = sender[s].emails /\ sender'[s].unsent = sender[s].unsent
      BY <1>0, <2>7 DEF Fill, RunType
    <3> QED
      BY <2>1, <2>2, <3>1 DEF Carries
  <2> QED
    BY <1>5, <2>3, <2>4, <2>5, <2>6, <2>7 DEF SenderStepOf
<1>6. CASE UNCHANGED vars
  BY <1>6, QueueReadOther DEF vars, history
<1> QED
  BY <1>1, <1>2, <1>3, <1>4, <1>5, <1>6, NextSteps

(* A delivery that goes on as it was has written where it had written.     *)
LEMMA WrittenSame ==
  ASSUME SessionInv, QueueRead, WrittenKept, [Next]_vars,
         NEW t \in SmtpThreads, smtp[t].stage # "idle",
         NEW k \in 1 .. Len(smtp[t].to) - Len(smtp[t].todo)
  PROVE  \E m \in Mails, f \in Files : smtp[t].mail = m /\ smtp[t].to[k] = f /\ Safe(m, f)'
<1>1. smtp[t].mail \in Mails /\ smtp[t].to \in Seq(Files) /\ smtp[t].todo \in Seq(Files)
  BY DEF SessionInv, MailTypes, DeliveryType, ToDo
<1>2. k \in 1 .. Len(smtp[t].to)
  <2> DEFINE a == Len(smtp[t].to)
             b == Len(smtp[t].todo)
  <2>1. a \in Nat /\ b \in Nat /\ k \in 1 .. a - b
    BY <1>1
  <2> HIDE DEF a, b
  <2>2. k \in 1 .. a
    BY <2>1
  <2> QED
    BY <2>2 DEF a
<1>3. smtp[t].to[k] \in Files
  BY <1>1, <1>2
<1>4. Safe(smtp[t].mail, smtp[t].to[k])
  BY DEF WrittenKept
<1>5. PICK m \in Mails, f \in Files : smtp[t].mail = m /\ smtp[t].to[k] = f /\ Safe(m, f)
  BY <1>1, <1>3, <1>4
<1> QED
  BY <1>5, SafeStep

(* The mail is in the file that was just closed.                           *)
LEMMA JustWritten ==
  ASSUME SessionInv, NEW t \in SmtpThreads, CloseFile(t)
  PROVE  \E m \in Mails, f \in Files : smtp[t].mail = m /\ Target(t) = f /\ Safe(m, f)'
<1>1. PICK m \in Mails, f \in Files : smtp[t].mail = m /\ Target(t) = f
  BY FileAppended
<1>2. m \in ToSet(file'[f])
  <2>1. ToSet(file'[Target(t)]) = ToSet(file[Target(t)]) \cup {smtp[t].mail}
    BY FileAppended
  <2> QED
    BY <1>1, <2>1
<1> QED
  BY <1>1, <1>2 DEF Safe, Held

SafeAfter(m, f) ==
  \/ <<m, f>> \in late'
  \/ m \in ToSet(file'[f])
  \/ <<m, f>> \in removed'
  \/ f = Queue /\ (m \in sent' \/ \E s \in Senders :
                      m \in ToSet(sender'[s].emails) \cup ToSet(sender'[s].unsent))

LEMMA SafeNext == ASSUME NEW m, NEW f PROVE Safe(m, f)' <=> SafeAfter(m, f)
BY DEF Safe, Held, SafeAfter, Carries

LEMMA WrittenSafeAfter ==
  ASSUME SessionInv, QueueRead, WrittenKept, [Next]_vars, NEW t \in SmtpThreads, smtp[t].stage # "idle"
  PROVE  /\ \A k \in 1 .. Len(smtp[t].to) - Len(smtp[t].todo) : SafeAfter(smtp[t].mail, smtp[t].to[k])
         /\ CloseFile(t) => SafeAfter(smtp[t].mail, Target(t))
BY WrittenSame, JustWritten, SafeNext

LEMMA WrittenKeptStep ==
  ASSUME SessionInv, QueueRead, WrittenKept, [Next]_vars, SessionInv'
  PROVE  WrittenKept'
<1>0. /\ smtp \in [SmtpThreads -> DeliveryType]
      /\ \A t \in SmtpThreads : smtp[t].to \in Seq(Files) /\ smtp[t].todo \in Seq(Files)
  BY DEF SessionInv, MailTypes, DeliveryType
<1>1. SUFFICES ASSUME NEW t \in SmtpThreads, smtp'[t].stage # "idle",
                      NEW k \in 1 .. Len(smtp'[t].to) - Len(smtp'[t].todo)
               PROVE  SafeAfter(smtp'[t].mail, smtp'[t].to[k])
  BY DEF WrittenKept, Safe, Held, SafeAfter, Carries
<1>2. CASE smtp'[t].stage # "idle" /\ smtp[t].stage # "idle" /\ smtp'[t].mail = smtp[t].mail
           /\ smtp'[t].to = smtp[t].to /\ smtp'[t].todo = smtp[t].todo
  BY <1>1, <1>2, WrittenSafeAfter
<1>3. ASSUME NEW m \in Mails, NEW to \in Recipients, Receive(t, m, to)
      PROVE  SafeAfter(smtp'[t].mail, smtp'[t].to[k])
  <2>1. smtp'[t].to = to /\ smtp'[t].todo = to /\ to \in Seq(Files)
    BY <1>0, <1>3, FileAssumption DEF Receive
  <2> DEFINE n == Len(to)
  <2>2. n \in Nat /\ k \in 1 .. n - n
    BY <1>1, <2>1
  <2> HIDE DEF n
  <2>3. FALSE
    BY <2>2
  <2> QED
    BY <2>3
<1>4. CASE CloseFile(t)
  <2> DEFINE to == smtp[t].to
             todo == smtp[t].todo
             rest == Tail(todo)
  <2>1. /\ Len(todo) > 1 /\ smtp[t].stage # "idle"
        /\ smtp' = [smtp EXCEPT ![t].stage = "lock", ![t].todo = rest]
    BY <1>0, <1>1, <1>4 DEF CloseFile, NoDelivery
  <2>2. /\ smtp'[t].to = to /\ smtp'[t].todo = rest /\ smtp'[t].mail = smtp[t].mail
        /\ to \in Seq(Files) /\ todo \in Seq(Files)
    BY <1>0, <2>1 DEF DeliveryType
  <2>3. LastOf(todo, to)
    BY <2>1 DEF SessionInv, ToDo
  <2> HIDE DEF to, todo, rest
  <2>4. Len(rest) = Len(todo) - 1 /\ Len(todo) \in Nat /\ Len(to) \in Nat /\ Len(todo) <= Len(to)
    BY <2>1, <2>2, <2>3 DEF LastOf, rest
  <2>5. k \in 1 .. Len(to) - Len(rest)
    BY <1>1, <2>2
  <2> DEFINE a == Len(to)
             b == Len(todo)
             c == Len(rest)
  <2>6. k \in 1 .. a - b \/ k = (a - b) + 1
    <3>1. a \in Nat /\ b \in Nat /\ c = b - 1 /\ k \in 1 .. a - c
      BY <2>4, <2>5
    <3> HIDE DEF a, b, c
    <3> QED
      BY <3>1
  <2>7. CASE k \in 1 .. a - b
    BY <1>4, <2>1, <2>2, <2>7, WrittenSafeAfter DEF to, todo
  <2>8. CASE k = (a - b) + 1
    <3>1. todo[1] = to[k]
      BY <2>1, <2>3, <2>4, <2>8, SMTT(30) DEF LastOf
    <3>2. Target(t) = to[k]
      BY <2>1, <2>2, <3>1 DEF Target, todo
    <3> QED
      BY <1>4, <2>1, <2>2, <3>2, WrittenSafeAfter
  <2> QED
    BY <2>6, <2>7, <2>8
<1>5. ASSUME NEW u \in SmtpThreads, u # t, DeliveryStepOf(u) \/ CloseFile(u) PROVE smtp'[t] = smtp[t]
  BY <1>0, <1>5 DEF DeliveryStepOf, Receive, LockThread, LockFile, UnlockFile, CloseFile
<1>6. CASE LockThread(t) \/ LockFile(t) \/ UnlockFile(t)
  <2>1. /\ smtp[t].stage # "idle"
        /\ \E stage \in {"flock", "write", "close"} : smtp' = [smtp EXCEPT ![t].stage = stage]
    BY <1>6 DEF LockThread, LockFile, UnlockFile
  <2> QED
    BY <1>0, <1>1, <1>2, <2>1 DEF DeliveryType
<1>7. ASSUME NEW p \in PopThreads, SessionStepOf(p) \/ QUIT(p) PROVE smtp' = smtp
  BY <1>7, SessionStepOther DEF QUIT
<1>8. ASSUME NEW s \in Senders, SenderStepOf(s) PROVE smtp' = smtp
  BY <1>8, SenderStepOther
<1>9. CASE smtp'[t] = smtp[t]
  BY <1>1, <1>2, <1>9
<1> QED
  BY <1>3, <1>4, <1>5, <1>6, <1>7, <1>8, <1>9, NextSteps DEF DeliveryStepOf, vars

LEMMA AnsweredSafeStep ==
  ASSUME SessionInv, QueueRead, WrittenKept, AnsweredSafe, [Next]_vars
  PROVE  AnsweredSafe'
<1>1. ASSUME NEW x \in answered PROVE x \in Mails \X Files /\ SafeAfter(x[1], x[2])
  <2>1. PICK m \in Mails, f \in Files : x = <<m, f>> /\ Safe(m, f)
    BY DEF AnsweredSafe
  <2>2. SafeAfter(m, f)
    BY <2>1, SafeStep, SafeNext
  <2> QED
    BY <2>1, <2>2
<1>2. SUFFICES \A x \in answered' \ answered : x \in Mails \X Files /\ SafeAfter(x[1], x[2])
  BY <1>1 DEF AnsweredSafe, Safe, Held, SafeAfter, Carries
<1>3. ASSUME NEW t \in SmtpThreads, CloseFile(t), NEW x \in answered' \ answered
      PROVE  x \in Mails \X Files /\ SafeAfter(x[1], x[2])
  <2> DEFINE to == smtp[t].to
             todo == smtp[t].todo
             m == smtp[t].mail
  <2>1. ~ (Len(todo) > 1) /\ answered' = answered \cup {<<m, to[k]>> : k \in DOMAIN to}
    BY <1>3 DEF CloseFile
  <2>2. /\ smtp[t].stage # "idle" /\ to \in Seq(Files) /\ todo \in Seq(Files) /\ m \in Mails
        /\ LastOf(todo, to)
    BY <1>3 DEF CloseFile, SessionInv, MailTypes, DeliveryType, ToDo
  <2> HIDE DEF to, todo, m
  <2>3. PICK k \in 1 .. Len(to) : x = <<m, to[k]>>
    BY <1>3, <2>1, <2>2
  <2>4. Len(todo) = 1 /\ Len(to) \in Nat
    <3> DEFINE n == Len(todo)
    <3>1. n \in Nat /\ n # 0 /\ ~ (n > 1) /\ Len(to) \in Nat
      BY <2>1, <2>2 DEF LastOf
    <3> HIDE DEF n
    <3>2. n = 1
      BY <3>1
    <3> QED
      BY <3>1, <3>2 DEF n
  <2>5. to[k] \in Files
    BY <2>2
  <2>6. SafeAfter(m, to[k])
    <3>1. CASE k \in 1 .. Len(to) - Len(todo)
      BY <1>3, <2>2, <3>1, WrittenSafeAfter DEF to, todo, m
    <3>2. CASE k = Len(to)
      <4>1. todo[1] = to[k]
        BY <2>2, <2>4, <3>2 DEF LastOf
      <4>2. Target(t) = to[k]
        BY <2>2, <4>1 DEF Target, todo
      <4> QED
        BY <1>3, <2>2, <4>2, WrittenSafeAfter DEF m
    <3> QED
      BY <2>4, <3>1, <3>2
  <2> QED
    BY <2>2, <2>3, <2>5, <2>6
<1>4. (\A t \in SmtpThreads : ~ CloseFile(t)) => answered' = answered
  BY NextSteps, DeliveryStepOther, SessionStepOther, SenderStepOther DEF QUIT, vars, history
<1> QED
  BY <1>3, <1>4

(* The inductive invariant: what a delivery has written, and what has been *)
(* answered, is in the file, or has been sent, or is with the one run of   *)
(* send_mqueue that will send it or write it back.                         *)
THEOREM KeptInvariant == OneRunAtATime => (Spec => []KeptInv)
<1> SUFFICES ASSUME OneRunAtATime PROVE Spec => []KeptInv
  OBVIOUS
<1>1. Init => KeptInv
  BY DEF Init, KeptInv, QueueRead, WrittenKept, AnsweredSafe, NoRun, NoDelivery
<1>2. SessionInv /\ SessionInv' /\ KeptInv /\ [Next]_vars => KeptInv'
  BY QueueReadStep, WrittenKeptStep, AnsweredSafeStep DEF KeptInv
<1> QED
  BY <1>1, <1>2, SessionInvariant, PTL DEF Spec

(* A mail answered 250 OK stays in the files of all its recipients until a *)
(* session deletes it or a foreign server has taken it, and while it is in *)
(* no file a run of send_mqueue holds it; not so a mail written into a     *)
(* file that another process had read to write it back.                    *)
THEOREM AnsweredMailKeptHolds == OneRunAtATime => (Spec => []AnsweredMailKept)
<1>1. KeptInv => AnsweredMailKept
  <2> SUFFICES ASSUME AnsweredSafe, NEW x \in answered \ late PROVE Held(x[1], x[2])
    BY DEF KeptInv, AnsweredMailKept
  <2>1. x = <<x[1], x[2]>> /\ Safe(x[1], x[2])
    BY DEF AnsweredSafe
  <2> QED
    BY <2>1 DEF Safe
<1> QED
  BY <1>1, KeptInvariant, PTL
=============================================================================
