---------------------------- MODULE MCMailFiles ----------------------------
(* Instances of MailFiles for TLC.                                         *)
EXTENDS MailFiles

CONSTANTS box

MCRecipients == {<<Queue>>, <<box, Queue>>}
=============================================================================
