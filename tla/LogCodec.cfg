CONSTANTS
  Chars = {SP, NL}
  BLANK = SP
  NEWLINE = NL
  Types = {"PUT", "CPUT", "DELETE"}
  MaxLength = 2
  MaxCommands = 2
SPECIFICATION Spec
INVARIANTS
  ReadsBack
