---------------------------- MODULE MCMail ----------------------------
(* Instances of SmtpSession, and so of Mailbox, for TLC.                   *)
EXTENDS SmtpSession, TLC

CONSTANTS u, x, out

(* A user, one who is not, an address of another domain, a name given      *)
(* twice.                                                                  *)
MCRecipients == {<<u>>, <<u, u>>, <<x, u>>, <<out>>, <<out, u>>}

MailSymmetry == Permutations(Mails)
=============================================================================
