CONSTANTS
  u = u
  x = x
  out = out
  Users = {u}
  Strangers = {x}
  Outside = out
  Mails = {m1, m2}
  Threads = {h1, c1}
  Connections = {c1}
  NoSender = NoSender
  MaxRecipients = 1
  Recipients <- MCRecipients
  MaxFaults = 1
SYMMETRY MailSymmetry
SPECIFICATION Spec
INVARIANTS
  SessionTypeOK
  ListedWasStored
  SettledBoxesComplete
  DataHasEnvelope
PROPERTIES
  OnlyOwnEntry
