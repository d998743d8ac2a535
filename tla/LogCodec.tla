---------------------------- MODULE LogCodec ----------------------------
(***************************************************************************)
(* The text of a log file, and the loop of load_log that reads it back.    *)
(* A command is written as its length, a blank, its text and a newline;    *)
(* the values in it may hold blanks and newlines, so load_log joins lines  *)
(* until the announced number of characters is there.                      *)
(*                                                                         *)
(* A text is a sequence of characters.  Numbers, types, rows and columns   *)
(* are one character each here: they hold neither blank nor newline, and   *)
(* the code measures their lengths wherever it uses them.                  *)
(***************************************************************************)
EXTENDS Integers, Sequences, FiniteSets, SequencesExt

CONSTANTS
  Chars,        \* characters of values, BLANK and NEWLINE among them
  BLANK, NEWLINE,
  Types,        \* types of the commands in the log
  MaxLength,    \* bound: length of a value
  MaxCommands   \* bound: commands in the log

(* What is one character here and a token of several in the code.          *)
Tokens == Nat \cup {"seq", "PUT", "CPUT", "DELETE", "row", "col", "S"}

ASSUME CharAssumption  == /\ {BLANK, NEWLINE} \subseteq Chars /\ BLANK # NEWLINE
                          /\ NEWLINE \notin Tokens
ASSUME BoundAssumption == MaxLength \in Nat /\ MaxCommands \in Nat

VARIABLES
  sent,          \* the commands that were logged
  log_file,      \* the text of the log file
  infile,        \* how many of its characters load_log has read
  is_first_cmd, chars_rem, command,   \* the other locals of load_log
  processed,     \* the commands executed so far
  stage          \* "logging", then "loading" after a restart, then "done"

vars == <<sent, log_file, infile, is_first_cmd, chars_rem, command, processed, stage>>

Values  == BoundedSeq(Chars, MaxLength)
Command == UNION {
  [type : {"PUT"} \cap Types,    value1 : Values, value2 : {<<>>}],
  [type : {"CPUT"} \cap Types,   value1 : Values, value2 : Values],
  [type : {"DELETE"} \cap Types, value1 : {<<>>}, value2 : {<<>>}]}

(* Tokens followed by blanks.                                              *)
Header(tokens) == [i \in 1..(2 * Len(tokens)) |-> IF i % 2 = 1 THEN tokens[(i + 1) \div 2] ELSE BLANK]

serialize_command(c) ==
  CASE c.type = "PUT"  -> Header(<<"seq", "PUT", "row", "col", "S", Len(c.value1)>>) \o c.value1
    [] c.type = "CPUT" -> Header(<<"seq", "CPUT", "row", "col", "S", Len(c.value1), Len(c.value2)>>)
                            \o c.value1 \o <<BLANK>> \o c.value2
    [] OTHER           -> Header(<<"seq", "DELETE", "row">>) \o <<"col">>

(* std::string::substr, which counts from 0 and stops at the end.          *)
substr(s, pos, n) ==
  SubSeq(s, pos + 1, IF pos + n < Len(s) THEN pos + n ELSE Len(s))

(* Mutant: the blank after the last token is forgotten.                    *)
CutsOneEarly(text) ==
  [type |-> text[3],
   value1 |-> IF text[3] = "DELETE" THEN <<>>
              ELSE substr(text, 6 + 5 + (IF text[3] = "CPUT" THEN 2 ELSE 0), text[11]),
   value2 |-> <<>>]

(* The sizes are the sixth and seventh tokens.  The values of a CPUT start *)
(* after seven tokens and seven blanks; the blank between them is not      *)
(* counted, and v2_size is read from v1_size_str.                          *)
deserialize_command(text) ==
  LET type == text[3]  v1_size == text[11] IN
  CASE type = "PUT"  -> [type |-> type, value1 |-> substr(text, 6 + 6, v1_size), value2 |-> <<>>]
    [] type = "CPUT" -> [type |-> type, value1 |-> substr(text, 7 + 7, v1_size),
                         value2 |-> substr(text, 7 + v1_size + 7, v1_size)]
    [] OTHER         -> [type |-> type, value1 |-> <<>>, value2 |-> <<>>]

(* What append_to_tablet_log writes for a command, std::endl included.     *)
Logged(c) == <<Len(serialize_command(c)), BLANK>> \o serialize_command(c) \o <<NEWLINE>>

-----------------------------------------------------------------------------
Init ==
  /\ sent = <<>> /\ log_file = <<>>
  /\ infile = 0 /\ is_first_cmd = TRUE /\ chars_rem = 0 /\ command = <<>>
  /\ processed = <<>>
  /\ stage = "logging"

append_to_tablet_log(c) ==
  /\ stage = "logging" /\ Len(sent) < MaxCommands
  /\ sent' = Append(sent, c)
  /\ log_file' = log_file \o Logged(c)
  /\ UNCHANGED <<infile, is_first_cmd, chars_rem, command, processed, stage>>

(* After a restart.  load_log returns at once when the file is empty.      *)
load_log ==
  /\ stage = "logging"
  /\ stage' = IF log_file = <<>> THEN "done" ELSE "loading"
  /\ UNCHANGED <<sent, log_file, infile, is_first_cmd, chars_rem, command, processed>>

(* std::getline: what is left of the file ends in a newline.               *)
Unread    == {n \in DOMAIN log_file : n > infile /\ log_file[n] = NEWLINE}
EndOfLine == Min(Unread)
Line      == SubSeq(log_file, infile + 1, EndOfLine - 1)

GetLine == stage = "loading" /\ Unread # {} /\ infile' = EndOfLine

(* A line that starts a command: the one before it is complete.            *)
StartCommand ==
  /\ GetLine /\ chars_rem <= 0
  /\ processed' = IF is_first_cmd THEN processed
                  ELSE Append(processed, deserialize_command(command))
  /\ is_first_cmd' = FALSE
  /\ command' = Tail(Tail(Line))
  /\ chars_rem' = Head(Line) - Len(Tail(Tail(Line)))
  /\ UNCHANGED <<sent, log_file, stage>>

(* A line inside a command.                                                *)
ContinueCommand ==
  /\ GetLine /\ chars_rem > 0
  /\ command'   = command \o <<NEWLINE>> \o Line
  /\ chars_rem' = chars_rem - (1 + Len(Line))
  /\ UNCHANGED <<sent, log_file, is_first_cmd, processed, stage>>

(* The last command.                                                       *)
Finish ==
  /\ stage = "loading" /\ Unread = {}
  /\ processed' = Append(processed, deserialize_command(command))
  /\ stage' = "done"
  /\ UNCHANGED <<sent, log_file, infile, is_first_cmd, chars_rem, command>>

Rest == stage = "done" /\ UNCHANGED vars

Next ==
  \/ \E c \in Command : append_to_tablet_log(c)
  \/ load_log \/ StartCommand \/ ContinueCommand \/ Finish \/ Rest

Spec == Init /\ [][Next]_vars

-----------------------------------------------------------------------------
(* Every logged command is executed once, in order, with its type and its  *)
(* first value, and a PUT or DELETE unchanged, whatever blanks and         *)
(* newlines its values hold.                                               *)
ReadsBack ==
  stage = "done" =>
    /\ Len(processed) = Len(sent)
    /\ \A i \in DOMAIN sent : /\ processed[i].type = sent[i].type
                              /\ processed[i].value1 = sent[i].value1
                              /\ sent[i].type # "CPUT" => processed[i] = sent[i]
=============================================================================
