CONSTANTS
  box = box
  Boxes = {box}
  Queue = mqueue
  Mails = {m1, m2}
  Recipients <- MCRecipients
  SmtpThreads = {t1, t2}
  PopThreads = {p1, p2}
  Senders = {s1}
  None = None
  Leaked = Leaked
  Torn = Torn
SPECIFICATION FairSpec
INVARIANTS
  SessionsSeeTheirMails
  AnsweredMailKept
PROPERTIES
  DeliveriesEnd
