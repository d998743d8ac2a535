-------------------------- MODULE SmtpSession --------------------------
(***************************************************************************)
(* The SMTP server (src/frontend/webmail/smtpserver.hpp) beside the web    *)
(* mail: a thread per connection takes the commands of the client one by   *)
(* one and, at the end of the data, sends the mail as a web request would, *)
(* through the same rows.                                                  *)
(***************************************************************************)
EXTENDS Mailbox

CONSTANTS
  Connections,    \* the threads that serve an SMTP client, the rest serve HTTP
  NoSender,       \* no sender yet
  MaxRecipients   \* bound: recipients of a mail

ASSUME ConnectionsAssumption == Connections \subseteq Threads
ASSUME SenderAssumption == NoSender \notin Names
ASSUME MaxRecipientsAssumption == MaxRecipients \in Nat

VARIABLE
  session  \* connection -> session_state

(* The sender is stored in the row of its name whatever its domain.        *)
NewSession == [received_hello |-> FALSE, sender |-> NoSender, recipients |-> <<>>,
               reading_email_data |-> FALSE]

SessionType ==
  [received_hello : BOOLEAN, sender : Names \cup {NoSender},
   recipients : Seq(Names \cup {Outside}), reading_email_data : BOOLEAN]

SInit == Init /\ session = [c \in Connections |-> NewSession]

(* The thread waits for a command: it serves one after the other.          *)
Awaits(c)   == job[c] = Idle /\ ~ session[c].reading_email_data
Greeted(c)  == Awaits(c) /\ session[c].received_hello
Reset(s)    == [s EXCEPT !.sender = NoSender, !.recipients = <<>>]

(* HELO is taken note of even when it is answered as out of sequence.      *)
Helo(c) ==
  /\ Awaits(c)
  /\ session' = [session EXCEPT ![c].received_hello = TRUE]
  /\ UNCHANGED vars

(* MAIL FROM replaces the sender and keeps the recipients.                 *)
MailFrom(c, name) ==
  /\ Greeted(c)
  /\ session' = [session EXCEPT ![c].sender = name]
  /\ UNCHANGED vars

RcptTo(c, address) ==
  /\ Greeted(c)
  /\ Len(session[c].recipients) < MaxRecipients
  /\ session' = [session EXCEPT ![c].recipients = Append(@, address)]
  /\ UNCHANGED vars

(* Mutant: DATA is accepted without recipients.                            *)
DataWithoutRecipients(c) ==
  /\ Greeted(c)
  /\ session[c].sender # NoSender
  /\ session' = [session EXCEPT ![c].reading_email_data = TRUE]
  /\ UNCHANGED vars

Data(c) ==
  /\ Greeted(c)
  /\ session[c].sender # NoSender /\ session[c].recipients # <<>>
  /\ session' = [session EXCEPT ![c].reading_email_data = TRUE]
  /\ UNCHANGED vars

(* The line that ends the data: the mail is sent and the state reset; OK   *)
(* is answered whether or not send_email succeeds.                         *)
EndOfData(c) ==
  /\ job[c] = Idle /\ session[c].reading_email_data
  /\ send_email(c, session[c].sender, session[c].recipients)
  /\ session' = [session EXCEPT ![c] =
                   [Reset(@) EXCEPT !.reading_email_data = FALSE]]

Rset(c) ==
  /\ Greeted(c)
  /\ session' = [session EXCEPT ![c] = Reset(@)]
  /\ UNCHANGED vars

(* QUIT ends the connection; another client gets the thread.               *)
Quit(c) ==
  /\ Awaits(c)
  /\ session' = [session EXCEPT ![c] = NewSession]
  /\ UNCHANGED vars

Command(c) ==
  \/ Helo(c) \/ Data(c) \/ EndOfData(c) \/ Rset(c) \/ Quit(c)
  \/ \E name \in Names : MailFrom(c, name)
  \/ \E address \in Names \cup {Outside} : RcptTo(c, address)

(* What the threads that serve HTTP may begin.                             *)
Request(t) ==
  /\ \/ \E from \in Users, r \in Recipients : send_email(t, from, r)
     \/ \E b \in Boxes, m \in Mails : delete_email(t, b, m)
  /\ UNCHANGED session

(* Every mail of the bound has been sent.                                  *)
Rest == used = Mails /\ UNCHANGED <<vars, session>>

Next ==
  \/ \E c \in Connections : Command(c)
  \/ \E t \in Threads \ Connections : Request(t)
  \/ \E t \in Threads : Serve(t) /\ UNCHANGED session
  \/ Rest

Spec == SInit /\ [][Next]_<<vars, session>>

-----------------------------------------------------------------------------
SessionTypeOK == MailTypeOK /\ session \in [Connections -> SessionType]

(* Whatever the order of the commands, a mail whose text is being read has *)
(* a sender and a recipient, and the client has said HELO                  *)
(* (smtpserver.hpp:456).                                                   *)
DataHasEnvelope ==
  \A c \in Connections : session[c].reading_email_data =>
    session[c].received_hello /\ session[c].sender # NoSender
      /\ session[c].recipients # <<>>
=============================================================================
