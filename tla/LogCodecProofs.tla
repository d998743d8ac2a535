-------------------------- MODULE LogCodecProofs --------------------------
(***************************************************************************)
(* What is proved of LogCodec for any characters, values and length of the *)
(* log: load_log finds where every command begins and ends, whatever       *)
(* blanks and newlines the values hold, and executes each command once,    *)
(* in order, with its type and first value.                                *)
(*                                                                         *)
(* The argument needs no induction over the text: the log has cuts, places *)
(* where one command ends and the next begins, which grow with it as it is *)
(* written, and the loop is always at the end of a line between two cuts.  *)
(***************************************************************************)
EXTENDS LogCodec, SequenceTheorems, WellFoundedInduction, FiniteSetTheorems, TLAPS

USE CharAssumption, BoundAssumption

Texts == Seq(Chars \cup Tokens)

LEMMA TextLen ==
  ASSUME NEW s \in Texts
  PROVE  Len(s) \in Nat /\ \A i \in 1 .. Len(s) : s[i] \in Chars \cup Tokens
BY LenProperties, ElementOfSeq DEF Texts

LEMMA TextConcat ==
  ASSUME NEW s \in Texts, NEW t \in Texts
  PROVE  /\ s \o t \in Texts /\ Len(s \o t) = Len(s) + Len(t)
         /\ Len(s) \in Nat /\ Len(t) \in Nat
         /\ \A i \in 1 .. Len(s) : (s \o t)[i] = s[i]
         /\ \A i \in 1 .. Len(t) : (s \o t)[Len(s) + i] = t[i]
<1>1. Len(s) \in Nat /\ Len(t) \in Nat
  BY TextLen
<1>2. /\ s \o t \in Texts /\ Len(s \o t) = Len(s) + Len(t)
      /\ \A i \in 1 .. Len(s) + Len(t) : (s \o t)[i] = IF i <= Len(s) THEN s[i] ELSE t[i - Len(s)]
  BY ConcatProperties DEF Texts
<1>3. ASSUME NEW i \in 1 .. Len(s) PROVE (s \o t)[i] = s[i]
  BY <1>1, <1>2
<1>4. ASSUME NEW i \in 1 .. Len(t) PROVE (s \o t)[Len(s) + i] = t[i]
  <2>1. Len(s) + i \in 1 .. Len(s) + Len(t) /\ ~ (Len(s) + i <= Len(s)) /\ (Len(s) + i) - Len(s) = i
    BY <1>1
  <2> QED
    BY <1>2, <2>1
<1> QED
  BY <1>1, <1>2, <1>3, <1>4

LEMMA TextAssociative ==
  \A s, t, u \in Texts : (s \o t) \o u = s \o (t \o u)
BY ConcatAssociative DEF Texts

(* A character of a text stays where it is when the text grows.            *)
LEMMA TextPrefix ==
  ASSUME NEW s \in Texts, NEW t \in Texts, NEW i \in 1 .. Len(s)
  PROVE  /\ s \o t \in Texts /\ Len(s \o t) \in Nat
         /\ (s \o t)[i] = s[i] /\ i \in 1 .. Len(s \o t)
<1>1. /\ s \o t \in Texts /\ Len(s \o t) = Len(s) + Len(t)
      /\ Len(s) \in Nat /\ Len(t) \in Nat /\ (s \o t)[i] = s[i]
  BY TextConcat
<1> QED
  BY ONLY <1>1, i \in 1 .. Len(s)

-----------------------------------------------------------------------------
(* The text of a command.                                                  *)

PutHeader(n)     == Header(<<"seq", "PUT", "row", "col", "S", n>>)
CPutHeader(n, m) == Header(<<"seq", "CPUT", "row", "col", "S", n, m>>)
DeleteHeader     == Header(<<"seq", "DELETE", "row">>)

LEMMA SerializedAs ==
  ASSUME NEW c
  PROVE  /\ c.type = "PUT"  => serialize_command(c) = PutHeader(Len(c.value1)) \o c.value1
         /\ c.type = "CPUT" => serialize_command(c) =
              ((CPutHeader(Len(c.value1), Len(c.value2)) \o c.value1) \o <<BLANK>>) \o c.value2
         /\ c.type = "DELETE" => serialize_command(c) = DeleteHeader \o <<"col">>
<1>1. ASSUME c.type = "PUT"
      PROVE  serialize_command(c) = PutHeader(Len(c.value1)) \o c.value1
  BY <1>1, Zenon DEF serialize_command, PutHeader
<1>2. ASSUME c.type = "CPUT"
      PROVE  serialize_command(c) =
               ((CPutHeader(Len(c.value1), Len(c.value2)) \o c.value1) \o <<BLANK>>) \o c.value2
  BY <1>2, Zenon DEF serialize_command, CPutHeader
<1>3. ASSUME c.type = "DELETE"
      PROVE  serialize_command(c) = DeleteHeader \o <<"col">>
  BY <1>3, Zenon DEF serialize_command, DeleteHeader
<1> QED
  BY <1>1, <1>2, <1>3

LEMMA DeserializedAs ==
  ASSUME NEW text
  PROVE  /\ text[3] = "PUT"  => deserialize_command(text) =
              [type |-> "PUT", value1 |-> substr(text, 12, text[11]), value2 |-> <<>>]
         /\ text[3] = "CPUT" => deserialize_command(text) =
              [type |-> "CPUT", value1 |-> substr(text, 14, text[11]),
               value2 |-> substr(text, 7 + text[11] + 7, text[11])]
         /\ text[3] = "DELETE" => deserialize_command(text) =
              [type |-> "DELETE", value1 |-> <<>>, value2 |-> <<>>]
<1>0. 6 + 6 = 12 /\ 7 + 7 = 14
  OBVIOUS
<1>1. ASSUME text[3] = "PUT"
      PROVE  deserialize_command(text) =
               [type |-> "PUT", value1 |-> substr(text, 6 + 6, text[11]), value2 |-> <<>>]
  BY <1>1, Zenon DEF deserialize_command
<1>2. ASSUME text[3] = "CPUT"
      PROVE  deserialize_command(text) =
               [type |-> "CPUT", value1 |-> substr(text, 7 + 7, text[11]),
                value2 |-> substr(text, 7 + text[11] + 7, text[11])]
  BY <1>2, Zenon DEF deserialize_command
<1>3. ASSUME text[3] = "DELETE"
      PROVE  deserialize_command(text) = [type |-> "DELETE", value1 |-> <<>>, value2 |-> <<>>]
  BY <1>3, Zenon DEF deserialize_command
<1> QED
  BY <1>0, <1>1, <1>2, <1>3, Zenon

LEMMA HeaderTexts ==
  ASSUME NEW k \in Nat, NEW tokens \in Seq(Tokens), Len(tokens) = k
  PROVE  Header(tokens) \in Texts /\ Len(Header(tokens)) = 2 * k
<1> DEFINE h == Header(tokens)
<1>1. ASSUME NEW i \in 1 .. 2 * k
      PROVE  (IF i % 2 = 1 THEN tokens[(i + 1) \div 2] ELSE BLANK) \in Chars \cup Tokens
  <2>1. CASE i % 2 = 1
    <3>1. (i + 1) \div 2 \in 1 .. k
      BY <2>1
    <3> QED
      BY <2>1, <3>1, ElementOfSeq
  <2> QED
    BY <2>1
<1>2. h = [i \in 1 .. 2 * k |-> IF i % 2 = 1 THEN tokens[(i + 1) \div 2] ELSE BLANK]
  BY DEF Header
<1>3. h \in [1 .. 2 * k -> Chars \cup Tokens]
  BY <1>1, <1>2
<1>4. 2 * k \in Nat
  OBVIOUS
<1> HIDE DEF h
<1>5. h \in Texts /\ Len(h) = 2 * k
  BY <1>3, <1>4 DEF Texts
<1> QED
  BY <1>5 DEF h

LEMMA Headers ==
  ASSUME NEW n \in Nat, NEW m \in Nat
  PROVE  /\ PutHeader(n) \in Texts /\ Len(PutHeader(n)) = 12
         /\ PutHeader(n)[3] = "PUT" /\ PutHeader(n)[11] = n
         /\ CPutHeader(n, m) \in Texts /\ Len(CPutHeader(n, m)) = 14
         /\ CPutHeader(n, m)[3] = "CPUT" /\ CPutHeader(n, m)[11] = n
         /\ DeleteHeader \in Texts /\ Len(DeleteHeader) = 6 /\ DeleteHeader[3] = "DELETE"
<1>1. \A t \in Seq(Tokens) : Header(t) \in Texts /\ Len(Header(t)) = 2 * Len(t)
  BY HeaderTexts, LenProperties
<1>2. PutHeader(n) \in Texts /\ Len(PutHeader(n)) = 12
  <2> DEFINE t == <<"seq", "PUT", "row", "col", "S", n>>
  <2>1. t \in Seq(Tokens) /\ Len(t) = 6
    BY DEF Tokens
  <2> HIDE DEF t
  <2>2. Header(t) \in Texts /\ Len(Header(t)) = 2 * 6
    BY <1>1, <2>1, Zenon
  <2> QED
    BY <2>2 DEF PutHeader, t
<1>3. CPutHeader(n, m) \in Texts /\ Len(CPutHeader(n, m)) = 14
  <2> DEFINE t == <<"seq", "CPUT", "row", "col", "S", n, m>>
  <2>1. t \in Seq(Tokens) /\ Len(t) = 7
    BY DEF Tokens
  <2> HIDE DEF t
  <2>2. Header(t) \in Texts /\ Len(Header(t)) = 2 * 7
    BY <1>1, <2>1, Zenon
  <2> QED
    BY <2>2 DEF CPutHeader, t
<1>4. DeleteHeader \in Texts /\ Len(DeleteHeader) = 6
  <2> DEFINE t == <<"seq", "DELETE", "row">>
  <2>1. t \in Seq(Tokens) /\ Len(t) = 3
    BY DEF Tokens
  <2> HIDE DEF t
  <2>2. Header(t) \in Texts /\ Len(Header(t)) = 2 * 3
    BY <1>1, <2>1, Zenon
  <2> QED
    BY <2>2 DEF DeleteHeader, t
<1>5. PutHeader(n)[3] = "PUT" /\ PutHeader(n)[11] = n
  BY DEF PutHeader, Header
<1>6. CPutHeader(n, m)[3] = "CPUT" /\ CPutHeader(n, m)[11] = n
  BY DEF CPutHeader, Header
<1>7. DeleteHeader[3] = "DELETE"
  BY DEF DeleteHeader, Header
<1> QED
  BY <1>2, <1>3, <1>4, <1>5, <1>6, <1>7

(* substr cuts out a part that is known to be there.                       *)
LEMMA SubstrOfConcat ==
  ASSUME NEW s \in Texts, NEW t \in Texts, NEW n, n = Len(t)
  PROVE  substr(s \o t, Len(s), n) = t
<1>1. /\ s \o t \in Texts /\ Len(s \o t) = Len(s) + n /\ Len(s) \in Nat /\ n \in Nat
      /\ \A i \in 1 .. Len(s) + n : (s \o t)[i] = IF i <= Len(s) THEN s[i] ELSE t[i - Len(s)]
  BY ConcatProperties, LenProperties DEF Texts
<1> DEFINE u == SubSeq(s \o t, Len(s) + 1, Len(s) + n)
<1>2. substr(s \o t, Len(s), n) = u
  BY <1>1 DEF substr
<1>3. \A i \in Len(s) + 1 .. Len(s) + n : (s \o t)[i] \in Chars \cup Tokens
  BY <1>1, ElementOfSeq DEF Texts
<1>4. /\ u \in Texts /\ Len(u) = n
      /\ \A i \in 1 .. n : u[i] = (s \o t)[Len(s) + i]
  <2>1. Len(s) + 1 \in Int /\ Len(s) + n \in Int
    BY <1>1
  <2>2. /\ u \in Texts
        /\ Len(u) = IF Len(s) + 1 <= Len(s) + n THEN Len(s) + n - (Len(s) + 1) + 1 ELSE 0
        /\ \A i \in 1 .. Len(s) + n - (Len(s) + 1) + 1 : u[i] = (s \o t)[Len(s) + 1 + i - 1]
    BY <1>3, <2>1, SubSeqProperties DEF Texts
  <2> QED
    BY <1>1, <2>2
<1>5. \A i \in 1 .. n : u[i] = t[i]
  BY <1>1, <1>4
<1> HIDE DEF u
<1>6. u = t
  BY <1>4, <1>5, SeqEqual DEF Texts
<1> QED
  BY <1>2, <1>6

(* A shorter text in front of another is found in the same way.            *)
LEMMA SubstrBefore ==
  ASSUME NEW s \in Texts, NEW t \in Texts, NEW r \in Texts, NEW n, n = Len(t)
  PROVE  substr((s \o t) \o r, Len(s), n) = t
<1> DEFINE a == s \o t
           b == a \o r
<1>1. a \in Texts /\ Len(a) = Len(s) + n /\ Len(s) \in Nat /\ n \in Nat /\ Len(r) \in Nat
  BY ConcatProperties, LenProperties DEF Texts
<1>2. /\ b \in Texts /\ Len(b) = Len(a) + Len(r)
      /\ \A i \in 1 .. Len(a) + Len(r) : b[i] = IF i <= Len(a) THEN a[i] ELSE r[i - Len(a)]
  BY <1>1, ConcatProperties DEF Texts
<1>3. substr(b, Len(s), n) = SubSeq(b, Len(s) + 1, Len(s) + n)
  BY <1>1, <1>2 DEF substr
<1>4. substr(a, Len(s), n) = SubSeq(a, Len(s) + 1, Len(s) + n)
  BY <1>1 DEF substr
<1>5. SubSeq(b, Len(s) + 1, Len(s) + n) = SubSeq(a, Len(s) + 1, Len(s) + n)
  <2>1. CASE n = 0
    BY <1>1, <2>1, SubSeqEmpty
  <2>2. CASE n > 0
    <3>1. Len(s) + 1 \in 1 .. Len(a) /\ Len(s) + n \in 1 .. Len(a)
      BY <1>1, <2>2
    <3> QED
      BY <1>1, <3>1, SubSeqOfConcat1 DEF Texts
  <2> QED
    BY <1>1, <2>1, <2>2
<1> QED
  BY <1>3, <1>4, <1>5, SubstrOfConcat

-----------------------------------------------------------------------------
(* A value is a text, and what is logged of a command is one that ends in  *)
(* a newline.                                                              *)
LEMMA CommandTypes ==
  ASSUME NEW c \in Command
  PROVE  /\ c.value1 \in Texts /\ c.value2 \in Texts
         /\ c.type \in {"PUT", "CPUT", "DELETE"}
         /\ c = [type |-> c.type, value1 |-> c.value1, value2 |-> c.value2]
         /\ c.type = "PUT" => c.value2 = <<>>
         /\ c.type = "DELETE" => c.value1 = <<>> /\ c.value2 = <<>>
<1>1. Values \subseteq Texts /\ <<>> \in Texts
  BY DEF Values, Texts, BoundedSeq, SeqOf
<1> HIDE DEF Values, Texts
<1> QED
  BY <1>1 DEF Command

LEMMA Serialized ==
  ASSUME NEW c \in Command
  PROVE  /\ serialize_command(c) \in Texts /\ Len(serialize_command(c)) \in Nat
         /\ serialize_command(c)[3] = c.type
<1> DEFINE n == Len(c.value1)
           m == Len(c.value2)
<1>1. n \in Nat /\ m \in Nat /\ <<BLANK>> \in Texts /\ <<"col">> \in Texts
  BY CommandTypes, LenProperties DEF Texts, Tokens
<1>2. c.value1 \in Texts /\ c.value2 \in Texts
  BY CommandTypes
<1> HIDE DEF n, m
<1>3. CASE c.type = "PUT"
  <2> DEFINE h == PutHeader(n)
  <2>1. serialize_command(c) = h \o c.value1
    BY <1>3, SerializedAs DEF n
  <2>2. h \in Texts /\ Len(h) = 12 /\ h[3] = "PUT"
    BY <1>1, Headers
  <2> HIDE DEF h
  <2>3. 3 \in 1 .. Len(h)
    BY ONLY <2>2
  <2>4. h \o c.value1 \in Texts /\ Len(h \o c.value1) \in Nat /\ (h \o c.value1)[3] = h[3]
    BY ONLY <1>2, <2>2, <2>3, TextPrefix, Zenon
  <2> QED
    BY ONLY <1>3, <2>1, <2>2, <2>4, Zenon
<1>4. CASE c.type = "CPUT"
  <2> DEFINE h == CPutHeader(n, m)
             a == h \o c.value1
             b == a \o <<BLANK>>
  <2>1. serialize_command(c) = b \o c.value2
    BY <1>4, SerializedAs DEF n, m
  <2>2. h \in Texts /\ Len(h) = 14 /\ h[3] = "CPUT"
    BY <1>1, Headers
  <2> HIDE DEF h
  <2>3. 3 \in 1 .. Len(h)
    BY ONLY <2>2
  <2>4. a \in Texts /\ a[3] = h[3] /\ 3 \in 1 .. Len(a)
    BY ONLY <1>2, <2>2, <2>3, TextPrefix, Zenon
  <2> HIDE DEF a
  <2>5. b \in Texts /\ b[3] = a[3] /\ 3 \in 1 .. Len(b)
    BY ONLY <1>1, <2>4, TextPrefix, Zenon
  <2> HIDE DEF b
  <2>6. b \o c.value2 \in Texts /\ Len(b \o c.value2) \in Nat /\ (b \o c.value2)[3] = b[3]
    BY ONLY <1>2, <2>5, TextPrefix, Zenon
  <2> QED
    BY ONLY <1>4, <2>1, <2>2, <2>4, <2>5, <2>6, Zenon
<1>5. CASE c.type = "DELETE"
  <2> DEFINE h == DeleteHeader
  <2>1. serialize_command(c) = h \o <<"col">>
    BY <1>5, SerializedAs
  <2>2. h \in Texts /\ Len(h) = 6 /\ h[3] = "DELETE"
    BY <1>1, Headers
  <2> HIDE DEF h
  <2>3. 3 \in 1 .. Len(h)
    BY ONLY <2>2
  <2>4. h \o <<"col">> \in Texts /\ Len(h \o <<"col">>) \in Nat /\ (h \o <<"col">>)[3] = h[3]
    BY ONLY <1>1, <2>2, <2>3, TextPrefix, Zenon
  <2> QED
    BY ONLY <1>5, <2>1, <2>2, <2>4, Zenon
<1> QED
  BY <1>3, <1>4, <1>5, CommandTypes

(* What comes back of a command: a PUT or DELETE as it was, a CPUT with    *)
(* its type and first value.                                               *)
Same(d, c) == /\ d.type = c.type /\ d.value1 = c.value1
              /\ c.type # "CPUT" => d = c

LEMMA RoundTrip ==
  ASSUME NEW c \in Command
  PROVE  Same(deserialize_command(serialize_command(c)), c)
<1> DEFINE n == Len(c.value1)
           m == Len(c.value2)
           text == serialize_command(c)
<1>1. n \in Nat /\ m \in Nat /\ <<BLANK>> \in Texts
  BY CommandTypes, LenProperties DEF Texts
<1>2. c.value1 \in Texts /\ c.value2 \in Texts
  BY CommandTypes
<1>3. text[3] = c.type
  BY Serialized
<1> HIDE DEF n, m, text
<1>4. CASE c.type = "PUT"
  <2> DEFINE h == PutHeader(n)
  <2>1. text = h \o c.value1
    BY <1>4, SerializedAs DEF n, text
  <2>2. h \in Texts /\ Len(h) = 12 /\ h[11] = n
    BY <1>1, Headers
  <2> HIDE DEF h
  <2>3. 11 \in 1 .. Len(h)
    BY ONLY <2>2
  <2>4. text[11] = h[11]
    BY ONLY <1>2, <2>1, <2>2, <2>3, TextPrefix, Zenon
  <2>5. substr(h \o c.value1, Len(h), n) = c.value1
    BY ONLY <1>2, <2>2, SubstrOfConcat DEF n
  <2>6. substr(text, 12, text[11]) = c.value1
    BY ONLY <2>1, <2>2, <2>4, <2>5, Zenon
  <2>7. deserialize_command(text) = [type |-> "PUT", value1 |-> c.value1, value2 |-> <<>>]
    BY ONLY <1>3, <1>4, <2>6, DeserializedAs, Zenon
  <2>8. c = [type |-> "PUT", value1 |-> c.value1, value2 |-> <<>>]
    BY <1>4, CommandTypes, Zenon
  <2>9. deserialize_command(text) = c
    BY ONLY <2>7, <2>8, Zenon
  <2> QED
    BY <2>9 DEF Same, text
<1>5. CASE c.type = "CPUT"
  <2> DEFINE h == CPutHeader(n, m)
             a == h \o c.value1
             rest == <<BLANK>> \o c.value2
  <2>1. text = (a \o <<BLANK>>) \o c.value2
    BY <1>5, SerializedAs DEF n, m, text
  <2>2. h \in Texts /\ Len(h) = 14 /\ h[11] = n
    BY <1>1, Headers
  <2> HIDE DEF h
  <2>3. 11 \in 1 .. Len(h)
    BY ONLY <2>2
  <2>4. a \in Texts /\ a[11] = h[11] /\ 11 \in 1 .. Len(a)
    BY ONLY <1>2, <2>2, <2>3, TextPrefix, Zenon
  <2>5. rest \in Texts
    BY ONLY <1>1, <1>2, TextConcat
  <2> HIDE DEF rest
  <2>6. text = a \o rest
    <3> DEFINE sp == <<BLANK>>
    <3>1. text = (a \o sp) \o c.value2 /\ sp \in Texts
      BY <1>1, <2>1
    <3> HIDE DEF a, sp
    <3>2. (a \o sp) \o c.value2 = a \o (sp \o c.value2)
      BY ONLY <1>2, <2>4, <3>1, TextAssociative, Zenon
    <3> QED
      BY ONLY <3>1, <3>2 DEF rest, sp
  <2>7. text[11] = a[11]
    <3> HIDE DEF a
    <3> QED
      BY ONLY <2>4, <2>5, <2>6, TextPrefix, Zenon
  <2>8. substr((h \o c.value1) \o rest, Len(h), n) = c.value1
    <3>1. n = Len(c.value1)
      BY DEF n
    <3>2. \A x, y, z \in Texts : substr((x \o y) \o z, Len(x), Len(y)) = y
      BY SubstrBefore
    <3>3. substr((h \o c.value1) \o rest, Len(h), Len(c.value1)) = c.value1
      BY ONLY <1>2, <2>2, <2>5, <3>2, Zenon
    <3> QED
      BY ONLY <3>1, <3>3, Zenon
  <2>9. substr(text, 14, text[11]) = c.value1
    BY ONLY <2>2, <2>4, <2>6, <2>7, <2>8, Zenon
  <2>10. deserialize_command(text) =
           [type |-> "CPUT", value1 |-> substr(text, 14, text[11]),
            value2 |-> substr(text, 7 + text[11] + 7, text[11])]
    BY ONLY <1>3, <1>5, DeserializedAs, Zenon
  <2>11. /\ deserialize_command(text).type = "CPUT"
         /\ deserialize_command(text).value1 = c.value1
    BY ONLY <2>9, <2>10
  <2> QED
    BY ONLY <1>5, <2>11 DEF Same, text
<1>6. CASE c.type = "DELETE"
  <2>1. deserialize_command(text) = [type |-> "DELETE", value1 |-> <<>>, value2 |-> <<>>]
    BY ONLY <1>3, <1>6, DeserializedAs, Zenon
  <2>2. c = [type |-> "DELETE", value1 |-> <<>>, value2 |-> <<>>] /\ c.value1 = <<>>
    BY <1>6, CommandTypes, Zenon
  <2>3. deserialize_command(text) = c
    BY ONLY <2>1, <2>2, Zenon
  <2> QED
    BY <2>3 DEF Same, text
<1> QED
  BY <1>4, <1>5, <1>6, CommandTypes

(* A logged command begins with a number and a blank and ends in a newline.*)
LEMMA LoggedText ==
  ASSUME NEW c \in Command, NEW t, t = serialize_command(c)
  PROVE  /\ t \in Texts /\ Len(t) \in Nat
         /\ Logged(c) \in Texts /\ Len(Logged(c)) = Len(t) + 3
         /\ Logged(c)[1] = Len(t) /\ Logged(c)[2] = BLANK
         /\ \A i \in 1 .. Len(t) : Logged(c)[i + 2] = t[i]
         /\ Logged(c)[Len(t) + 3] = NEWLINE
<1> DEFINE h == <<Len(t), BLANK>>
           a == h \o t
           e == <<NEWLINE>>
<1>1. t \in Texts /\ Len(t) \in Nat
  BY Serialized
<1>2. h \in Texts /\ Len(h) = 2 /\ h[1] = Len(t) /\ h[2] = BLANK
  BY <1>1 DEF Texts, Tokens
<1>3. e \in Texts /\ Len(e) = 1 /\ e[1] = NEWLINE
  BY DEF Texts
<1>4. Logged(c) = a \o e
  BY DEF Logged
<1> HIDE DEF h, e
<1>5. /\ a \in Texts /\ Len(a) = Len(h) + Len(t)
      /\ \A i \in 1 .. Len(h) : a[i] = h[i]
      /\ \A i \in 1 .. Len(t) : a[Len(h) + i] = t[i]
  BY ONLY <1>1, <1>2, TextConcat, Zenon
<1> HIDE DEF a
<1>6. /\ a \o e \in Texts /\ Len(a \o e) = Len(a) + Len(e)
      /\ \A i \in 1 .. Len(a) : (a \o e)[i] = a[i]
      /\ \A i \in 1 .. Len(e) : (a \o e)[Len(a) + i] = e[i]
  BY ONLY <1>3, <1>5, TextConcat, Zenon
<1> DEFINE u == a \o e
<1>7. u \in Texts /\ Logged(c) = u
  BY <1>4, <1>6
<1> HIDE DEF u
<1>8. Len(a) = Len(t) + 2 /\ Len(u) = Len(t) + 3
  BY ONLY <1>1, <1>2, <1>3, <1>5, <1>6 DEF u
<1>9. u[1] = Len(t) /\ u[2] = BLANK
  <2>1. 1 \in 1 .. Len(h) /\ 2 \in 1 .. Len(h) /\ 1 \in 1 .. Len(a) /\ 2 \in 1 .. Len(a)
    BY ONLY <1>1, <1>2, <1>8
  <2>2. a[1] = h[1] /\ a[2] = h[2] /\ u[1] = a[1] /\ u[2] = a[2]
    BY ONLY <1>5, <1>6, <2>1, Zenon DEF u
  <2> QED
    BY ONLY <1>2, <2>2, Zenon
<1>10. u[Len(t) + 3] = NEWLINE
  <2>1. 1 \in 1 .. Len(e) /\ Len(a) + 1 = Len(t) + 3
    BY ONLY <1>1, <1>3, <1>8
  <2>2. u[Len(a) + 1] = e[1]
    BY ONLY <1>6, <2>1, Zenon DEF u
  <2> QED
    BY ONLY <1>3, <2>1, <2>2, Zenon
<1>11. ASSUME NEW i \in 1 .. Len(t) PROVE u[i + 2] = t[i]
  <2>1. Len(h) + i = i + 2 /\ i + 2 \in 1 .. Len(a)
    BY ONLY <1>1, <1>2, <1>8, i \in 1 .. Len(t)
  <2>2. u[i + 2] = a[i + 2]
    BY ONLY <1>6, <2>1, Zenon DEF u
  <2>3. a[Len(h) + i] = t[i]
    BY ONLY <1>5, i \in 1 .. Len(t), Zenon
  <2> QED
    BY ONLY <2>1, <2>2, <2>3, Zenon
<1> QED
  BY ONLY <1>1, <1>7, <1>8, <1>9, <1>10, <1>11, Zenon

-----------------------------------------------------------------------------
(* Lines of a text.                                                        *)

LEMMA NextLine ==
  ASSUME NEW f \in Texts, NEW i \in Nat, NEW U,
         U = {n \in DOMAIN f : n > i /\ f[n] = NEWLINE}, U # {}
  PROVE  /\ Min(U) \in i + 1 .. Len(f) /\ f[Min(U)] = NEWLINE
         /\ \A n \in U : Min(U) <= n
<1>1. DOMAIN f = 1 .. Len(f) /\ Len(f) \in Nat
  BY LenProperties DEF Texts
<1>2. U \subseteq 1 .. Len(f)
  BY <1>1
<1> DEFINE T == {1 .. j : j \in U}
<1>3. IsWellFoundedOn(StrictSubsetOrdering(1 .. Len(f)), SUBSET (1 .. Len(f)))
  <2>1. IsFiniteSet(1 .. Len(f))
    BY ONLY <1>1, FS_Interval
  <2>2. FiniteSubsetsOf(1 .. Len(f)) = SUBSET (1 .. Len(f))
    BY ONLY <2>1, FS_FiniteSubsetsOfFinite
  <2> QED
    BY ONLY <2>2, FS_StrictSubsetOrderingWellFounded
<1>4. T \subseteq SUBSET (1 .. Len(f)) /\ T # {}
  <2>1. ASSUME NEW j \in U PROVE 1 .. j \subseteq 1 .. Len(f)
    BY ONLY <1>1, <1>2, <2>1
  <2>2. T \subseteq SUBSET (1 .. Len(f))
    BY ONLY <2>1, Zenon
  <2> QED
    BY ONLY <2>2, U # {}
<1>5. PICK X \in T : \A Y \in T : ~ (<<Y, X>> \in StrictSubsetOrdering(1 .. Len(f)))
  BY ONLY <1>3, <1>4, WFMin
<1>6. PICK x \in U : X = 1 .. x
  BY ONLY <1>5
<1>7. ASSUME NEW y \in U, y < x PROVE FALSE
  <2>1. 1 .. y \in T /\ 1 .. y \in SUBSET (1 .. Len(f)) /\ X \in SUBSET (1 .. Len(f))
    BY ONLY <1>4, <1>5, y \in U
  <2>2. 1 .. y \subseteq X /\ 1 .. y # X
    BY ONLY <1>1, <1>2, <1>6, <1>7
  <2> HIDE DEF T
  <2> QED
    BY ONLY <1>5, <2>1, <2>2 DEF StrictSubsetOrdering
<1>8. \A y \in U : x <= y
  BY ONLY <1>1, <1>2, <1>7, x \in U
<1>9. Min(U) \in U /\ \A y \in U : Min(U) <= y
  BY ONLY <1>8, x \in U DEF Min
<1> QED
  BY <1>1, <1>9

(* The line that begins a command, without the number and the blank.       *)
LEMMA FirstLine ==
  ASSUME NEW f \in Texts, NEW i \in Nat, NEW n \in i + 3 .. Len(f),
         NEW line, line = SubSeq(f, i + 1, n - 1)
  PROVE  /\ Head(line) = f[i + 1]
         /\ Tail(Tail(line)) = SubSeq(f, i + 3, n - 1)
         /\ Len(Tail(Tail(line))) = n - i - 3
<1>1. Len(f) \in Nat
  BY TextLen
<1>2. /\ i + 1 \in 1 .. Len(f) /\ n - 1 \in i + 1 .. Len(f) /\ i + 1 + 1 = i + 2
      /\ i + 2 \in 1 .. Len(f) /\ n - 1 \in i + 2 .. Len(f) /\ i + 2 + 1 = i + 3
      /\ i + 3 \in Int /\ n - 1 \in Int
  BY ONLY <1>1, i \in Nat, n \in i + 3 .. Len(f)
<1>3. Head(line) = f[i + 1] /\ Tail(line) = SubSeq(f, i + 2, n - 1)
  BY <1>2, HeadTailOfSubSeq DEF Texts
<1>4. Tail(Tail(line)) = SubSeq(f, i + 3, n - 1)
  BY <1>2, <1>3, HeadTailOfSubSeq DEF Texts
<1>5. \A j \in i + 3 .. n - 1 : f[j] \in Chars \cup Tokens
  BY <1>1, TextLen
<1>6. Len(SubSeq(f, i + 3, n - 1)) = IF i + 3 <= n - 1 THEN n - 1 - (i + 3) + 1 ELSE 0
  BY ONLY <1>2, <1>5, SubSeqProperties
<1>7. Len(SubSeq(f, i + 3, n - 1)) = n - i - 3
  BY ONLY <1>1, <1>6, i \in Nat, n \in i + 3 .. Len(f)
<1> QED
  BY ONLY <1>3, <1>4, <1>7

(* A line joined to the text before it.                                    *)
LEMMA JoinedLines ==
  ASSUME NEW f \in Texts, NEW a \in Nat, a > 0, NEW m \in a .. Len(f), NEW n \in m + 1 .. Len(f)
  PROVE  /\ (SubSeq(f, a, m - 1) \o <<f[m]>>) \o SubSeq(f, m + 1, n - 1) = SubSeq(f, a, n - 1)
         /\ Len(SubSeq(f, m + 1, n - 1)) = n - 1 - m
<1>1. Len(f) \in Nat
  BY TextLen
<1>2. /\ a \in 1 .. Len(f) /\ a \in 1 .. Len(f) + 1 /\ m \in a - 1 .. Len(f)
      /\ n - 1 \in m .. Len(f) /\ m + 1 \in Int /\ n - 1 \in Int
  BY ONLY <1>1, a \in Nat, a > 0, m \in a .. Len(f), n \in m + 1 .. Len(f)
<1>3. SubSeq(f, a, m) = SubSeq(f, a, m - 1) \o <<f[m]>>
  BY <1>2, SubSeqRecursiveSecond DEF Texts
<1>4. SubSeq(f, a, m) \o SubSeq(f, m + 1, n - 1) = SubSeq(f, a, n - 1)
  BY <1>2, ConcatAdjacentSubSeq DEF Texts
<1>5. \A j \in m + 1 .. n - 1 : f[j] \in Chars \cup Tokens
  BY <1>1, TextLen
<1>6. Len(SubSeq(f, m + 1, n - 1)) = IF m + 1 <= n - 1 THEN n - 1 - (m + 1) + 1 ELSE 0
  BY ONLY <1>2, <1>5, SubSeqProperties
<1>7. Len(SubSeq(f, m + 1, n - 1)) = n - 1 - m
  BY ONLY <1>1, <1>2, <1>6, m \in a .. Len(f), a \in Nat, n \in m + 1 .. Len(f)
<1> QED
  BY ONLY <1>3, <1>4, <1>7

-----------------------------------------------------------------------------
(* Between the places x and y of the text f the command t is logged.       *)
Between(x, y, t, f) ==
  /\ y = x + Len(t) + 3
  /\ f[x + 1] = Len(t) /\ f[x + 2] = BLANK /\ f[y] = NEWLINE
  /\ \A i \in 1 .. Len(t) : f[x + (i + 2)] = t[i]

(* Cuts: p[k] is the place in f where the k-th of the commands s ends.     *)
IsCut(p, s, f) ==
  /\ p \in [0 .. Len(s) -> 0 .. Len(f)]
  /\ p[0] = 0 /\ p[Len(s)] = Len(f)
  /\ \A k \in 1 .. Len(s) : Between(p[k - 1], p[k], serialize_command(s[k]), f)

LEMMA CutsOfEmpty == IsCut([k \in 0 .. 0 |-> 0], <<>>, <<>>)
BY DEF IsCut

(* Between two cuts stand a number, a blank, a command and a newline.      *)
LEMMA BetweenCuts ==
  ASSUME NEW s \in Seq(Command), NEW f \in Texts, NEW p, IsCut(p, s, f), NEW k \in 1 .. Len(s)
  PROVE  LET t == serialize_command(s[k]) IN
         /\ t \in Texts /\ Len(t) \in Nat /\ Len(f) \in Nat
         /\ p[k - 1] \in Nat /\ p[k] = p[k - 1] + Len(t) + 3 /\ p[k] \in 1 .. Len(f)
         /\ f[p[k - 1] + 1] = Len(t) /\ f[p[k - 1] + 2] = BLANK /\ f[p[k]] = NEWLINE
         /\ SubSeq(f, p[k - 1] + 3, p[k] - 1) = t
<1> DEFINE t == serialize_command(s[k])
<1>1. Len(f) \in Nat /\ Len(s) \in Nat /\ s[k] \in Command
  BY TextLen, LenProperties, ElementOfSeq
<1>2. t \in Texts /\ Len(t) \in Nat
  BY <1>1, Serialized
<1>3. k - 1 \in 0 .. Len(s) /\ k \in 0 .. Len(s)
  BY <1>1
<1>4. Between(p[k - 1], p[k], t, f) /\ p \in [0 .. Len(s) -> 0 .. Len(f)]
  BY DEF IsCut
<1> DEFINE x == p[k - 1]
           y == p[k]
           n == Len(t)
<1>5. /\ x \in 0 .. Len(f) /\ y \in 0 .. Len(f) /\ n \in Nat
      /\ y = x + n + 3 /\ f[x + 1] = n /\ f[x + 2] = BLANK /\ f[y] = NEWLINE
      /\ \A i \in 1 .. n : f[x + (i + 2)] = t[i]
  <2>1. p[k - 1] \in 0 .. Len(f) /\ p[k] \in 0 .. Len(f)
    BY ONLY <1>3, <1>4
  <2> QED
    BY ONLY <1>2, <1>4, <2>1, Zenon DEF Between
<1> HIDE DEF t, x, y, n
<1>6. /\ x \in Nat /\ y \in 1 .. Len(f) /\ x + 3 \in Int /\ y - 1 \in Int
      /\ (y - 1) - (x + 3) + 1 = n
  BY ONLY <1>1, <1>5
<1> DEFINE a == x + 3
           b == y - 1
<1>7. \A j \in a .. b : f[j] \in Chars \cup Tokens
  BY <1>1, <1>6, TextLen
<1> HIDE DEF a, b
<1>8. /\ SubSeq(f, a, b) \in Texts
      /\ Len(SubSeq(f, a, b)) = IF a <= b THEN b - a + 1 ELSE 0
      /\ \A i \in 1 .. b - a + 1 : SubSeq(f, a, b)[i] = f[a + i - 1]
  <2>1. a \in Int /\ b \in Int
    BY ONLY <1>6 DEF a, b
  <2> QED
    BY ONLY <1>7, <2>1, SubSeqProperties DEF Texts
<1> DEFINE u == SubSeq(f, a, b)
<1> HIDE DEF u
<1>9. Len(u) = n
  BY ONLY <1>5, <1>6, <1>8 DEF a, b, u
<1>10. ASSUME NEW i \in 1 .. Len(u) PROVE u[i] = t[i]
  <2>1. i \in 1 .. n /\ b - a + 1 = n
    BY ONLY <1>6, <1>9, i \in 1 .. Len(u) DEF a, b
  <2>2. a + i - 1 = x + (i + 2)
    BY ONLY <1>5, <1>6, <2>1 DEF a
  <2>3. u[i] = f[a + i - 1]
    BY ONLY <1>8, <2>1, Zenon DEF u
  <2>4. f[x + (i + 2)] = t[i]
    BY ONLY <1>5, <2>1, Zenon
  <2> QED
    BY ONLY <2>2, <2>3, <2>4, Zenon
<1>11. u = t
  BY ONLY <1>2, <1>8, <1>9, <1>10, SeqEqual DEF Texts, u, n
<1> QED
  BY ONLY <1>1, <1>2, <1>5, <1>6, <1>11, Zenon DEF u, t, a, b, x, y, n

LEMMA BetweenKept ==
  ASSUME NEW f \in Texts, NEW g \in Texts, NEW t \in Texts,
         NEW x \in Nat, NEW y \in 1 .. Len(f), Between(x, y, t, f)
  PROVE  Between(x, y, t, f \o g)
<1>1. Len(f) \in Nat /\ Len(t) \in Nat /\ \A i \in 1 .. Len(f) : (f \o g)[i] = f[i]
  BY TextLen, TextConcat
<1>2. y = x + Len(t) + 3
  BY DEF Between
<1>3. x + 1 \in 1 .. Len(f) /\ x + 2 \in 1 .. Len(f)
  BY ONLY <1>1, <1>2, x \in Nat, y \in 1 .. Len(f)
<1>4. ASSUME NEW i \in 1 .. Len(t) PROVE x + (i + 2) \in 1 .. Len(f)
  BY ONLY <1>1, <1>2, x \in Nat, y \in 1 .. Len(f), i \in 1 .. Len(t)
<1> QED
  BY ONLY <1>1, <1>3, <1>4, y \in 1 .. Len(f), Between(x, y, t, f), Zenon DEF Between

LEMMA BetweenNew ==
  ASSUME NEW f \in Texts, NEW c \in Command, NEW t, t = serialize_command(c),
         NEW g, g = f \o Logged(c)
  PROVE  /\ g \in Texts /\ Len(g) = Len(f) + Len(t) + 3 /\ Len(t) \in Nat /\ g # <<>>
         /\ Between(Len(f), Len(g), t, g)
<1>1. /\ Len(t) \in Nat
      /\ Logged(c) \in Texts /\ Len(Logged(c)) = Len(t) + 3
      /\ Logged(c)[1] = Len(t) /\ Logged(c)[2] = BLANK
      /\ \A i \in 1 .. Len(t) : Logged(c)[i + 2] = t[i]
      /\ Logged(c)[Len(t) + 3] = NEWLINE
  BY LoggedText
<1> DEFINE l == Logged(c)
<1> HIDE DEF l
<1>2. /\ g \in Texts /\ Len(g) = Len(f) + Len(l) /\ Len(f) \in Nat
      /\ \A i \in 1 .. Len(l) : g[Len(f) + i] = l[i]
  BY <1>1, TextConcat DEF l
<1>3. Len(l) = Len(t) + 3
  BY <1>1 DEF l
<1>4. Len(g) = Len(f) + (Len(t) + 3) /\ Len(g) = Len(f) + Len(t) + 3
  BY ONLY <1>1, <1>2, <1>3
<1>5. 1 \in 1 .. Len(l) /\ 2 \in 1 .. Len(l) /\ Len(t) + 3 \in 1 .. Len(l)
  BY ONLY <1>1, <1>3
<1>6. ASSUME NEW i \in 1 .. Len(t) PROVE i + 2 \in 1 .. Len(l)
  BY ONLY <1>1, <1>3, i \in 1 .. Len(t)
<1>7. g[Len(f) + 1] = Len(t) /\ g[Len(f) + 2] = BLANK
  BY ONLY <1>1, <1>2, <1>5, Zenon DEF l
<1>8. g[Len(f) + (Len(t) + 3)] = NEWLINE
  BY ONLY <1>1, <1>2, <1>5, Zenon DEF l
<1>9. ASSUME NEW i \in 1 .. Len(t) PROVE g[Len(f) + (i + 2)] = t[i]
  BY ONLY <1>1, <1>2, <1>6, i \in 1 .. Len(t), Zenon DEF l
<1>10. g # <<>>
  BY ONLY <1>1, <1>2, <1>4
<1> QED
  BY ONLY <1>1, <1>2, <1>4, <1>7, <1>8, <1>9, <1>10, Zenon DEF Between

(* The cuts of the log and one more are the cuts of the longer log.        *)
LEMMA CutsGrow ==
  ASSUME NEW s \in Seq(Command), NEW f \in Texts, NEW p, IsCut(p, s, f), NEW c \in Command
  PROVE  \E q : IsCut(q, Append(s, c), f \o Logged(c))
<1> DEFINE t == serialize_command(c)
           g == f \o Logged(c)
           r == Append(s, c)
           n == Len(s)
           q == [j \in 0 .. n + 1 |-> IF j <= n THEN p[j] ELSE Len(g)]
<1>1. /\ g \in Texts /\ Len(g) = Len(f) + Len(t) + 3 /\ Len(t) \in Nat
      /\ Between(Len(f), Len(g), t, g)
  BY BetweenNew
<1>2. /\ r \in Seq(Command) /\ Len(r) = n + 1 /\ n \in Nat /\ Len(f) \in Nat
      /\ (\A k \in 1 .. n : r[k] = s[k]) /\ r[n + 1] = c
  BY AppendProperties, LenProperties, TextLen
<1>3. /\ p \in [0 .. n -> 0 .. Len(f)] /\ p[0] = 0 /\ p[n] = Len(f)
      /\ \A k \in 1 .. n : Between(p[k - 1], p[k], serialize_command(s[k]), f)
  BY DEF IsCut
<1> HIDE DEF t, g, r, n
<1>4. /\ \A j \in 0 .. n : q[j] = p[j]
      /\ q[n + 1] = Len(g) /\ DOMAIN q = 0 .. n + 1
      /\ \A j \in 0 .. n + 1 : q[j] \in 0 .. Len(g)
  <2>1. n \in 0 .. n + 1 /\ n + 1 \in 0 .. n + 1 /\ ~ (n + 1 <= n) /\ 0 .. Len(f) \subseteq 0 .. Len(g)
        /\ Len(g) \in 0 .. Len(g)
    BY ONLY <1>1, <1>2
  <2>2. \A j \in 0 .. n : q[j] = p[j]
    BY ONLY <1>2
  <2>3. q[n + 1] = Len(g) /\ DOMAIN q = 0 .. n + 1
    BY ONLY <2>1
  <2>4. ASSUME NEW j \in 0 .. n + 1 PROVE q[j] \in 0 .. Len(g)
    <3>1. j \in 0 .. n \/ j = n + 1
      BY ONLY <1>2, j \in 0 .. n + 1
    <3>2. CASE j \in 0 .. n
      <4>1. p[j] \in 0 .. Len(f)
        BY ONLY <1>3, <3>2
      <4> HIDE DEF q
      <4> QED
        BY ONLY <2>1, <2>2, <3>2, <4>1, Zenon
    <3> HIDE DEF q
    <3> QED
      BY ONLY <2>1, <2>3, <3>1, <3>2, Zenon
  <2> QED
    BY ONLY <2>2, <2>3, <2>4
<1>5. q \in [0 .. n + 1 -> 0 .. Len(g)]
  BY ONLY <1>4
<1> HIDE DEF q
<1>6. q[0] = 0 /\ q[n] = Len(f)
  BY ONLY <1>2, <1>3, <1>4
<1>7. ASSUME NEW k \in 1 .. n + 1
      PROVE  Between(q[k - 1], q[k], serialize_command(r[k]), g)
  <2>1. CASE k = n + 1
    <3>1. k - 1 = n
      BY ONLY <1>2, <2>1
    <3> QED
      BY ONLY <1>1, <1>2, <1>4, <1>6, <2>1, <3>1, Zenon DEF t
  <2>2. CASE k \in 1 .. n
    <3>1. k - 1 \in 0 .. n /\ k \in 0 .. n
      BY ONLY <1>2, <2>2
    <3>2. q[k - 1] = p[k - 1] /\ q[k] = p[k] /\ r[k] = s[k]
      BY ONLY <1>2, <1>4, <2>2, <3>1, Zenon
    <3>3. /\ p[k - 1] \in Nat /\ p[k] \in 1 .. Len(f) /\ serialize_command(s[k]) \in Texts
      BY <2>2, BetweenCuts DEF n
    <3>4. Between(p[k - 1], p[k], serialize_command(s[k]), f)
      BY ONLY <1>3, <2>2, Zenon
    <3>5. Logged(c) \in Texts
      BY LoggedText
    <3>6. Between(p[k - 1], p[k], serialize_command(s[k]), g)
      BY <3>3, <3>4, <3>5, BetweenKept DEF g
    <3> QED
      BY ONLY <3>2, <3>6, Zenon
  <2> QED
    BY ONLY <1>2, <2>1, <2>2, k \in 1 .. n + 1
<1>8. IsCut(q, r, g)
  BY ONLY <1>2, <1>4, <1>5, <1>6, <1>7, Zenon DEF IsCut
<1> QED
  BY <1>8 DEF r, g

-----------------------------------------------------------------------------
(* Where the next newline stands, for a loop that has read to place i.     *)

(* Inside the k-th command there is one not after its end.                 *)
LEMMA NewlineInside ==
  ASSUME NEW s \in Seq(Command), NEW f \in Texts, NEW p, IsCut(p, s, f),
         NEW k \in 1 .. Len(s), NEW i \in Nat, i < p[k],
         NEW U, U = {n \in DOMAIN f : n > i /\ f[n] = NEWLINE}
  PROVE  p[k] \in U /\ Min(U) \in i + 1 .. p[k] /\ f[Min(U)] = NEWLINE
<1>1. p[k] \in 1 .. Len(f) /\ f[p[k]] = NEWLINE /\ Len(f) \in Nat /\ DOMAIN f = 1 .. Len(f)
  BY BetweenCuts, LenProperties DEF Texts
<1>2. p[k] \in U
  BY <1>1
<1>3. /\ Min(U) \in i + 1 .. Len(f) /\ f[Min(U)] = NEWLINE
      /\ \A n \in U : Min(U) <= n
  BY <1>2, NextLine
<1> QED
  BY <1>1, <1>2, <1>3

(* After the last command there is none, and after another one it stands   *)
(* behind the number and the blank of the next.                            *)
LEMMA NewlineAfter ==
  ASSUME NEW s \in Seq(Command), NEW f \in Texts, NEW p, IsCut(p, s, f),
         NEW k \in 0 .. Len(s), NEW U, U = {n \in DOMAIN f : n > p[k] /\ f[n] = NEWLINE}
  PROVE  /\ p[k] \in Nat
         /\ U = {} => k = Len(s)
         /\ U # {} => /\ k + 1 \in 1 .. Len(s)
                      /\ Min(U) \in p[k] + 3 .. p[k + 1] /\ f[Min(U)] = NEWLINE
<1>1. Len(f) \in Nat /\ DOMAIN f = 1 .. Len(f) /\ Len(s) \in Nat
  BY LenProperties DEF Texts
<1>2. p[k] \in 0 .. Len(f) /\ p[Len(s)] = Len(f)
  BY DEF IsCut
<1>3. CASE k = Len(s)
  BY <1>1, <1>2, <1>3
<1>4. CASE k + 1 \in 1 .. Len(s)
  <2> DEFINE x == p[k]
             y == p[k + 1]
             t == serialize_command(s[k + 1])
  <2>1. (k + 1) - 1 = k
    BY <1>1
  <2>2. /\ Len(t) \in Nat /\ y = x + Len(t) + 3 /\ y \in 1 .. Len(f)
        /\ f[x + 1] = Len(t) /\ f[x + 2] = BLANK
    <3>1. \A j \in 1 .. Len(s) : LET u == serialize_command(s[j]) IN
            /\ Len(u) \in Nat /\ p[j] = p[j - 1] + Len(u) + 3 /\ p[j] \in 1 .. Len(f)
            /\ f[p[j - 1] + 1] = Len(u) /\ f[p[j - 1] + 2] = BLANK
      BY BetweenCuts
    <3> QED
      BY ONLY <1>4, <2>1, <3>1, Zenon
  <2>3. x \in Nat
    BY <1>1, <1>2
  <2> HIDE DEF x, y, t
  <2>4. x < y
    BY ONLY <2>2, <2>3
  <2>5. U # {} /\ Min(U) \in x + 1 .. y /\ f[Min(U)] = NEWLINE
    <3>1. \A j \in 1 .. Len(s) : x < p[j] => p[j] \in U /\ Min(U) \in x + 1 .. p[j] /\ f[Min(U)] = NEWLINE
      BY <2>3, NewlineInside DEF x
    <3> QED
      BY ONLY <1>4, <2>4, <3>1, Zenon DEF y
  <2>6. Min(U) # x + 1 /\ Min(U) # x + 2
    <3>1. Len(t) # NEWLINE /\ BLANK # NEWLINE
      BY <2>2 DEF Tokens
    <3> QED
      BY ONLY <2>2, <2>5, <3>1, Zenon
  <2>7. Min(U) \in x + 3 .. y
    BY ONLY <2>2, <2>3, <2>5, <2>6
  <2> QED
    BY ONLY <1>4, <2>3, <2>5, <2>7, Zenon DEF x, y
<1> QED
  BY <1>1, <1>3, <1>4

-----------------------------------------------------------------------------
(* The invariant.                                                          *)

Results == {deserialize_command(serialize_command(c)) : c \in Command}

(* q holds what was executed for the first k commands of s.                *)
Executed(q, s, k) ==
  /\ q \in Seq(Results) /\ Len(q) = k
  /\ \A i \in 1 .. k : q[i] = deserialize_command(serialize_command(s[i]))

LEMMA ExecutesNext ==
  ASSUME NEW s \in Seq(Command), NEW k \in 1 .. Len(s), NEW q, Executed(q, s, k - 1),
         NEW text, text = serialize_command(s[k])
  PROVE  Executed(Append(q, deserialize_command(text)), s, k)
<1> DEFINE d == deserialize_command(text)
<1>1. s[k] \in Command /\ Len(s) \in Nat
  BY ElementOfSeq, LenProperties
<1>2. d \in Results
  BY <1>1 DEF Results
<1>3. d = deserialize_command(serialize_command(s[k]))
  OBVIOUS
<1> HIDE DEF d
<1>4. /\ q \in Seq(Results) /\ Len(q) = k - 1
      /\ \A i \in 1 .. k - 1 : q[i] = deserialize_command(serialize_command(s[i]))
  BY DEF Executed
<1>5. /\ Append(q, d) \in Seq(Results) /\ Len(Append(q, d)) = Len(q) + 1
      /\ \A i \in 1 .. Len(q) : Append(q, d)[i] = q[i]
      /\ Append(q, d)[Len(q) + 1] = d
  BY ONLY <1>2, <1>4, AppendProperties
<1>6. Len(q) + 1 = k
  BY ONLY <1>1, <1>4, k \in 1 .. Len(s)
<1>7. ASSUME NEW i \in 1 .. k
      PROVE  Append(q, d)[i] = deserialize_command(serialize_command(s[i]))
  <2>1. CASE i = k
    BY ONLY <1>3, <1>5, <1>6, <2>1, Zenon
  <2>2. CASE i \in 1 .. k - 1
    <3>1. i \in 1 .. Len(q)
      BY ONLY <1>4, <2>2
    <3> QED
      BY ONLY <1>4, <1>5, <2>2, <3>1, Zenon
  <2>3. i = k \/ i \in 1 .. k - 1
    BY ONLY <1>1, k \in 1 .. Len(s), i \in 1 .. k
  <2> QED
    BY ONLY <2>1, <2>2, <2>3, Zenon
<1> QED
  BY ONLY <1>5, <1>6, <1>7, Zenon DEF Executed, d

(* load_log stands behind a line of the k-th command.                      *)
AtLineEnd(p, k) ==
  IF k = 0 THEN is_first_cmd = TRUE /\ infile = 0 /\ chars_rem = 0 /\ Executed(processed, sent, 0)
  ELSE /\ is_first_cmd = FALSE
       /\ infile \in p[k - 1] + 3 .. p[k] /\ log_file[infile] = NEWLINE
       /\ command = SubSeq(log_file, p[k - 1] + 3, infile - 1)
       /\ chars_rem = p[k] - infile
       /\ Executed(processed, sent, k - 1)

LogTypes == /\ sent \in Seq(Command) /\ log_file \in Texts
            /\ stage \in {"logging", "loading", "done"}

Loading(p) == log_file # <<>> /\ \E k \in 0 .. Len(sent) : AtLineEnd(p, k)

CodecInv ==
  /\ LogTypes
  /\ \E p : /\ IsCut(p, sent, log_file)
            /\ stage = "logging" => AtLineEnd(p, 0)
            /\ stage = "loading" => Loading(p)
  /\ stage = "done" => Executed(processed, sent, Len(sent))

LEMMA CodecInit == Init => CodecInv
<1> SUFFICES ASSUME Init PROVE CodecInv
  OBVIOUS
<1>1. LogTypes
  BY EmptySeq DEF Init, LogTypes, Texts
<1>2. Executed(processed, sent, 0)
  BY EmptySeq DEF Init, Executed
<1>3. \A p : AtLineEnd(p, 0)
  BY ONLY <1>2, Init, Zenon DEF AtLineEnd, Init
<1>4. IsCut([k \in 0 .. 0 |-> 0], sent, log_file)
  BY CutsOfEmpty DEF Init
<1>5. stage = "logging"
  BY DEF Init
<1> HIDE DEF LogTypes
<1> QED
  BY ONLY <1>1, <1>3, <1>4, <1>5 DEF CodecInv

LEMMA CodecAppend ==
  ASSUME CodecInv, NEW c \in Command, append_to_tablet_log(c)
  PROVE  CodecInv'
<1>1. PICK p : IsCut(p, sent, log_file) /\ AtLineEnd(p, 0)
  BY Zenon DEF CodecInv, append_to_tablet_log
<1>2. PICK q : IsCut(q, Append(sent, c), log_file \o Logged(c))
  BY <1>1, CutsGrow DEF CodecInv, LogTypes
<1>3. IsCut(q, sent', log_file')
  BY <1>2 DEF append_to_tablet_log
<1>4. AtLineEnd(q, 0)'
  <2>1. is_first_cmd = TRUE /\ infile = 0 /\ chars_rem = 0 /\ Executed(processed, sent, 0)
    BY ONLY <1>1, Zenon DEF AtLineEnd
  <2>2. Executed(processed, sent', 0)
    BY ONLY <2>1 DEF Executed
  <2>3. UNCHANGED <<infile, is_first_cmd, chars_rem, command, processed>>
    BY DEF append_to_tablet_log
  <2> QED
    BY ONLY <2>1, <2>2, <2>3, Zenon DEF AtLineEnd
<1>5. LogTypes'
  <2>1. log_file' \in Texts
    BY BetweenNew DEF CodecInv, LogTypes, append_to_tablet_log
  <2>2. sent' \in Seq(Command)
    BY AppendProperties DEF CodecInv, LogTypes, append_to_tablet_log
  <2> QED
    BY <2>1, <2>2 DEF CodecInv, LogTypes, append_to_tablet_log
<1>6. stage' = "logging"
  BY DEF append_to_tablet_log
<1> HIDE DEF LogTypes
<1> QED
  BY ONLY <1>3, <1>4, <1>5, <1>6 DEF CodecInv

LEMMA CodecLoadLog ==
  ASSUME CodecInv, load_log
  PROVE  CodecInv'
<1>1. LogTypes /\ stage = "logging" /\ stage' = (IF log_file = <<>> THEN "done" ELSE "loading")
  BY Zenon DEF CodecInv, load_log
<1>2. UNCHANGED <<sent, log_file, infile, is_first_cmd, chars_rem, command, processed>>
  BY DEF load_log
<1>3. PICK p : IsCut(p, sent, log_file) /\ AtLineEnd(p, 0)
  BY <1>1, Zenon DEF CodecInv
<1>4. Len(sent) \in Nat /\ Len(log_file) \in Nat
  BY <1>1, LenProperties DEF LogTypes, Texts
<1>5. LogTypes'
  BY ONLY <1>1, <1>2 DEF LogTypes
<1>6. IsCut(p, sent, log_file)' /\ AtLineEnd(p, 0)'
  BY ONLY <1>2, <1>3, Zenon DEF AtLineEnd
<1>7. CASE log_file = <<>>
  <2>1. Len(sent) = 0
    <3>1. ASSUME Len(sent) \in 1 .. Len(sent) PROVE FALSE
      <4>1. p[Len(sent)] \in 1 .. Len(log_file)
        BY <1>1, <1>3, <3>1, BetweenCuts DEF LogTypes
      <4> QED
        BY ONLY <1>7, <4>1
    <3> QED
      BY ONLY <1>4, <3>1
  <2>2. Executed(processed, sent, Len(sent))
    BY ONLY <1>3, <2>1, Zenon DEF AtLineEnd
  <2>3. stage' = "done" /\ Executed(processed', sent', Len(sent'))
    BY ONLY <1>1, <1>2, <1>7, <2>2, Zenon
  <2> HIDE DEF LogTypes
  <2> QED
    BY ONLY <1>5, <1>6, <2>3 DEF CodecInv
<1>8. CASE log_file # <<>>
  <2>1. stage' = "loading" /\ log_file' # <<>>
    BY ONLY <1>1, <1>2, <1>8
  <2>2. 0 \in 0 .. Len(sent')
    BY ONLY <1>2, <1>4
  <2>3. Loading(p)'
    BY ONLY <1>6, <2>1, <2>2, Zenon DEF Loading
  <2> HIDE DEF LogTypes
  <2> QED
    BY ONLY <1>5, <1>6, <2>1, <2>3 DEF CodecInv
<1> QED
  BY <1>7, <1>8

(* What a step of the loop may use.                                        *)
LEMMA LoopState ==
  ASSUME CodecInv, stage = "loading"
  PROVE  /\ LogTypes /\ log_file # <<>> /\ Len(sent) \in Nat /\ Len(log_file) \in Nat
         /\ \E p, k : k \in 0 .. Len(sent) /\ IsCut(p, sent, log_file) /\ AtLineEnd(p, k)
<1>1. LogTypes /\ \E p : IsCut(p, sent, log_file) /\ Loading(p)
  BY Zenon DEF CodecInv
<1>2. Len(sent) \in Nat /\ Len(log_file) \in Nat
  BY <1>1, LenProperties DEF LogTypes, Texts
<1> QED
  BY ONLY <1>1, <1>2, Zenon DEF Loading

(* A command is complete when nothing of it remains to be read.            *)
LEMMA CommandComplete ==
  ASSUME LogTypes, NEW p, IsCut(p, sent, log_file), NEW k \in 0 .. Len(sent), AtLineEnd(p, k),
         k = 0 \/ infile = p[k]
  PROVE  /\ infile = p[k]
         /\ k # 0 => /\ k \in 1 .. Len(sent) /\ is_first_cmd = FALSE
                     /\ Executed(Append(processed, deserialize_command(command)), sent, k)
         /\ k = 0 => is_first_cmd = TRUE /\ Executed(processed, sent, 0)
<1>1. CASE k = 0
  <2>1. infile = 0 /\ is_first_cmd = TRUE /\ Executed(processed, sent, 0)
    BY ONLY <1>1, AtLineEnd(p, k), Zenon DEF AtLineEnd
  <2>2. p[0] = 0
    BY DEF IsCut
  <2> QED
    BY ONLY <1>1, <2>1, <2>2, Zenon
<1>2. CASE k # 0
  <2>1. k \in 1 .. Len(sent) /\ infile = p[k]
    BY <1>2, LenProperties DEF LogTypes
  <2>2. /\ is_first_cmd = FALSE /\ command = SubSeq(log_file, p[k - 1] + 3, infile - 1)
        /\ Executed(processed, sent, k - 1)
    BY ONLY <1>2, AtLineEnd(p, k), Zenon DEF AtLineEnd
  <2>3. command = serialize_command(sent[k])
    BY <2>1, <2>2, BetweenCuts DEF LogTypes
  <2>4. Executed(Append(processed, deserialize_command(command)), sent, k)
    BY <2>1, <2>2, <2>3, ExecutesNext DEF LogTypes
  <2> QED
    BY ONLY <1>2, <2>1, <2>2, <2>4, Zenon
<1> QED
  BY <1>1, <1>2

LEMMA CodecStart ==
  ASSUME CodecInv, StartCommand
  PROVE  CodecInv'
<1>1. /\ stage = "loading" /\ Unread # {} /\ infile' = EndOfLine /\ chars_rem <= 0
      /\ processed' = (IF is_first_cmd THEN processed
                        ELSE Append(processed, deserialize_command(command)))
      /\ is_first_cmd' = FALSE
      /\ command' = Tail(Tail(Line)) /\ chars_rem' = Head(Line) - Len(Tail(Tail(Line)))
      /\ sent' = sent /\ log_file' = log_file /\ stage' = stage
  BY DEF StartCommand, GetLine
<1>2. PICK p, k : k \in 0 .. Len(sent) /\ IsCut(p, sent, log_file) /\ AtLineEnd(p, k)
  BY <1>1, LoopState
<1>3. LogTypes /\ log_file # <<>> /\ Len(sent) \in Nat /\ Len(log_file) \in Nat
  BY <1>1, LoopState
<1>4. k = 0 \/ infile = p[k]
  <2>1. ASSUME k # 0 PROVE infile = p[k]
    <3>1. infile \in p[k - 1] + 3 .. p[k] /\ chars_rem = p[k] - infile
      BY ONLY <1>2, <2>1, Zenon DEF AtLineEnd
    <3>2. k \in 1 .. Len(sent)
      BY ONLY <1>2, <1>3, <2>1
    <3>3. p[k] \in 1 .. Len(log_file) /\ p[k - 1] \in Nat
      BY <1>2, <1>3, <3>2, BetweenCuts DEF LogTypes
    <3> QED
      BY ONLY <1>1, <1>3, <3>1, <3>3
  <2> QED
    BY ONLY <2>1
<1>5. /\ infile = p[k]
      /\ k # 0 => /\ k \in 1 .. Len(sent) /\ is_first_cmd = FALSE
                  /\ Executed(Append(processed, deserialize_command(command)), sent, k)
      /\ k = 0 => is_first_cmd = TRUE /\ Executed(processed, sent, 0)
  BY <1>2, <1>3, <1>4, CommandComplete
<1>6. Executed(processed', sent', k)
  BY ONLY <1>1, <1>5, Zenon
<1> DEFINE x == p[k]
           y == p[k + 1]
           n == EndOfLine
           t == serialize_command(sent[k + 1])
<1>7. /\ x \in Nat /\ k + 1 \in 1 .. Len(sent) /\ n \in x + 3 .. y /\ log_file[n] = NEWLINE
  <2>1. Unread = {j \in DOMAIN log_file : j > p[k] /\ log_file[j] = NEWLINE}
    BY ONLY <1>5 DEF Unread
  <2>2. sent \in Seq(Command) /\ log_file \in Texts
    BY <1>3 DEF LogTypes
  <2> QED
    BY <1>1, <1>2, <2>1, <2>2, NewlineAfter DEF EndOfLine
<1>8. (k + 1) - 1 = k /\ k + 1 # 0 /\ k + 1 \in 0 .. Len(sent)
  BY ONLY <1>2, <1>3, <1>7
<1>9. y = x + Len(t) + 3 /\ Len(t) \in Nat /\ y \in 1 .. Len(log_file) /\ log_file[x + 1] = Len(t)
  <2>1. \A j \in 1 .. Len(sent) : LET u == serialize_command(sent[j]) IN
          /\ p[j] = p[j - 1] + Len(u) + 3 /\ Len(u) \in Nat
          /\ p[j] \in 1 .. Len(log_file) /\ log_file[p[j - 1] + 1] = Len(u)
    BY <1>2, <1>3, BetweenCuts DEF LogTypes
  <2> QED
    BY ONLY <1>7, <1>8, <2>1, Zenon
<1> HIDE DEF x, y, n, t
<1>10. Line = SubSeq(log_file, x + 1, n - 1)
  BY ONLY <1>5, Zenon DEF Line, x, n
<1>11. /\ Head(Line) = Len(t) /\ Tail(Tail(Line)) = SubSeq(log_file, x + 3, n - 1)
       /\ Len(Tail(Tail(Line))) = n - x - 3
  <2>1. n \in x + 3 .. Len(log_file)
    BY ONLY <1>3, <1>7, <1>9
  <2> QED
    <3>1. log_file \in Texts
      BY ONLY <1>3 DEF LogTypes
    <3>2. \A i \in Nat : \A j \in i + 3 .. Len(log_file) : LET l == SubSeq(log_file, i + 1, j - 1) IN
            /\ Head(l) = log_file[i + 1] /\ Tail(Tail(l)) = SubSeq(log_file, i + 3, j - 1)
            /\ Len(Tail(Tail(l))) = j - i - 3
      BY ONLY <3>1, FirstLine
    <3> QED
      BY ONLY <1>7, <1>9, <1>10, <2>1, <3>2, Zenon
<1>12. chars_rem' = y - n
  <2>1. chars_rem' = Len(t) - (n - x - 3)
    BY ONLY <1>1, <1>11
  <2>2. n \in Int
    BY ONLY <1>7, <1>9
  <2> QED
    BY ONLY <1>7, <1>9, <2>1, <2>2
<1>13. AtLineEnd(p, k + 1)'
  BY ONLY <1>1, <1>6, <1>7, <1>8, <1>11, <1>12, Zenon DEF AtLineEnd, x, y, n
<1>14. Loading(p)'
  BY ONLY <1>1, <1>3, <1>8, <1>13, Zenon DEF Loading
<1>15. LogTypes' /\ IsCut(p, sent, log_file)' /\ stage' = "loading"
  BY ONLY <1>1, <1>2, <1>3 DEF LogTypes
<1> HIDE DEF LogTypes
<1> QED
  BY ONLY <1>14, <1>15 DEF CodecInv

LEMMA CodecContinue ==
  ASSUME CodecInv, ContinueCommand
  PROVE  CodecInv'
<1>1. /\ stage = "loading" /\ Unread # {} /\ infile' = EndOfLine /\ chars_rem > 0
      /\ command' = command \o <<NEWLINE>> \o Line
      /\ chars_rem' = chars_rem - (1 + Len(Line))
      /\ sent' = sent /\ log_file' = log_file /\ stage' = stage
      /\ is_first_cmd' = is_first_cmd /\ processed' = processed
  BY DEF ContinueCommand, GetLine
<1>2. PICK p, k : k \in 0 .. Len(sent) /\ IsCut(p, sent, log_file) /\ AtLineEnd(p, k)
  BY <1>1, LoopState
<1>3. LogTypes /\ log_file # <<>> /\ Len(sent) \in Nat /\ Len(log_file) \in Nat
  BY <1>1, LoopState
<1>4. k # 0
  <2>1. k = 0 => chars_rem = 0
    BY ONLY <1>2, Zenon DEF AtLineEnd
  <2> QED
    BY ONLY <1>1, <2>1
<1>5. k \in 1 .. Len(sent)
  BY ONLY <1>2, <1>3, <1>4
<1> DEFINE x == p[k - 1]
           y == p[k]
           m == infile
           n == EndOfLine
<1>6. /\ is_first_cmd = FALSE /\ m \in x + 3 .. y /\ log_file[m] = NEWLINE
      /\ command = SubSeq(log_file, x + 3, m - 1)
      /\ chars_rem = y - m /\ Executed(processed, sent, k - 1)
  BY ONLY <1>2, <1>4, Zenon DEF AtLineEnd
<1>7. x \in Nat /\ y \in 1 .. Len(log_file)
  BY <1>2, <1>3, <1>5, BetweenCuts DEF LogTypes
<1> HIDE DEF x, y
<1>8. m \in Nat /\ m < y
  BY ONLY <1>1, <1>3, <1>6, <1>7
<1>9. n \in m + 1 .. y /\ log_file[n] = NEWLINE
  <2>1. Unread = {j \in DOMAIN log_file : j > m /\ log_file[j] = NEWLINE}
    BY DEF Unread
  <2>2. sent \in Seq(Command) /\ log_file \in Texts
    BY <1>3 DEF LogTypes
  <2> QED
    BY <1>2, <1>5, <1>8, <2>1, <2>2, NewlineInside DEF EndOfLine, y
<1> HIDE DEF n
<1>10. Line = SubSeq(log_file, m + 1, n - 1)
  BY ONLY DEF Line, n
<1> HIDE DEF m
<1>11. /\ (SubSeq(log_file, x + 3, m - 1) \o <<log_file[m]>>) \o Line = SubSeq(log_file, x + 3, n - 1)
       /\ Len(Line) = n - 1 - m
  <2>1. /\ x + 3 \in Nat /\ x + 3 > 0 /\ m \in x + 3 .. Len(log_file)
        /\ n \in m + 1 .. Len(log_file)
    BY ONLY <1>3, <1>6, <1>7, <1>8, <1>9
  <2>2. log_file \in Texts
    BY <1>3 DEF LogTypes
  <2> QED
    BY <1>10, <2>1, <2>2, JoinedLines
<1>12. command' = SubSeq(log_file, x + 3, n - 1)
  BY ONLY <1>1, <1>6, <1>11, Zenon
<1>13. chars_rem' = y - n /\ n \in x + 3 .. y
  BY ONLY <1>1, <1>3, <1>6, <1>7, <1>8, <1>9, <1>11
<1>14. AtLineEnd(p, k)'
  BY ONLY <1>1, <1>4, <1>6, <1>9, <1>12, <1>13, Zenon DEF AtLineEnd, x, y, n
<1>15. Loading(p)'
  BY ONLY <1>1, <1>2, <1>3, <1>14, Zenon DEF Loading
<1>16. LogTypes' /\ IsCut(p, sent, log_file)' /\ stage' = "loading"
  BY ONLY <1>1, <1>2, <1>3 DEF LogTypes
<1> HIDE DEF LogTypes
<1> QED
  BY ONLY <1>15, <1>16 DEF CodecInv

LEMMA CodecFinish ==
  ASSUME CodecInv, Finish
  PROVE  CodecInv'
<1>1. /\ stage = "loading" /\ Unread = {}
      /\ processed' = Append(processed, deserialize_command(command)) /\ stage' = "done"
      /\ sent' = sent /\ log_file' = log_file
  BY DEF Finish
<1>2. PICK p, k : k \in 0 .. Len(sent) /\ IsCut(p, sent, log_file) /\ AtLineEnd(p, k)
  BY <1>1, LoopState
<1>3. LogTypes /\ log_file # <<>> /\ Len(sent) \in Nat /\ Len(log_file) \in Nat
  BY <1>1, LoopState
<1>4. k = 0 \/ infile = p[k]
  <2>1. ASSUME k # 0, infile # p[k] PROVE FALSE
    <3>1. infile \in p[k - 1] + 3 .. p[k]
      BY ONLY <1>2, <2>1, Zenon DEF AtLineEnd
    <3>2. k \in 1 .. Len(sent)
      BY ONLY <1>2, <1>3, <2>1
    <3>3. p[k] \in 1 .. Len(log_file) /\ p[k - 1] \in Nat
      BY <1>2, <1>3, <3>2, BetweenCuts DEF LogTypes
    <3>4. infile \in Nat /\ infile < p[k]
      BY ONLY <1>3, <2>1, <3>1, <3>3
    <3> QED
      <4>1. Unread = {j \in DOMAIN log_file : j > infile /\ log_file[j] = NEWLINE}
        BY DEF Unread
      <4>2. sent \in Seq(Command) /\ log_file \in Texts
        BY <1>3 DEF LogTypes
      <4> DEFINE place == infile
                 U == Unread
      <4> HIDE DEF place, U
      <4>3. IsCut(p, sent, log_file) /\ place \in Nat /\ place < p[k]
        BY ONLY <1>2, <3>4 DEF place
      <4>4. U = {j \in DOMAIN log_file : j > place /\ log_file[j] = NEWLINE}
        BY ONLY <4>1 DEF place, U
      <4>5. p[k] \in U
        BY <3>2, <4>2, <4>3, <4>4, NewlineInside
      <4> QED
        BY ONLY <1>1, <4>5 DEF U
  <2> QED
    BY ONLY <2>1
<1>5. /\ infile = p[k]
      /\ k # 0 => Executed(Append(processed, deserialize_command(command)), sent, k)
  BY <1>2, <1>3, <1>4, CommandComplete
<1>6. k = Len(sent)
  <2>1. Unread = {j \in DOMAIN log_file : j > p[k] /\ log_file[j] = NEWLINE}
    BY ONLY <1>5 DEF Unread
  <2>2. sent \in Seq(Command) /\ log_file \in Texts
    BY <1>3 DEF LogTypes
  <2>3. Unread = {} => k = Len(sent)
    BY ONLY <1>2, <2>1, <2>2, NewlineAfter, Zenon
  <2> QED
    BY ONLY <1>1, <2>3
<1>7. k # 0
  <2>1. ASSUME k = 0 PROVE FALSE
    <3>1. p[0] = 0 /\ p[Len(sent)] = Len(log_file)
      BY <1>2 DEF IsCut
    <3>2. Len(log_file) = 0
      BY ONLY <1>6, <2>1, <3>1
    <3>3. log_file = <<>>
      BY <1>3, <3>2, EmptySeq, SeqEqual DEF LogTypes, Texts
    <3> QED
      BY <1>3, <3>3
  <2> QED
    BY <2>1
<1>8. Executed(processed', sent', Len(sent'))
  BY ONLY <1>1, <1>5, <1>6, <1>7, Zenon
<1>9. LogTypes' /\ IsCut(p, sent, log_file)'
  BY ONLY <1>1, <1>2, <1>3 DEF LogTypes
<1> HIDE DEF LogTypes
<1> QED
  BY ONLY <1>1, <1>8, <1>9 DEF CodecInv

LEMMA CodecStep == CodecInv /\ [Next]_vars => CodecInv'
<1> SUFFICES ASSUME CodecInv, [Next]_vars PROVE CodecInv'
  OBVIOUS
<1>1. ASSUME NEW c \in Command, append_to_tablet_log(c) PROVE CodecInv'
  BY <1>1, CodecAppend
<1>2. CASE load_log
  BY <1>2, CodecLoadLog
<1>3. CASE StartCommand
  BY <1>3, CodecStart
<1>4. CASE ContinueCommand
  BY <1>4, CodecContinue
<1>5. CASE Finish
  BY <1>5, CodecFinish
<1>6. CASE UNCHANGED vars
  <2>1. UNCHANGED <<sent, log_file, infile, is_first_cmd, chars_rem, command, processed, stage>>
    BY <1>6 DEF vars
  <2>2. \A p, k : AtLineEnd(p, k) <=> AtLineEnd(p, k)'
    BY ONLY <2>1, Zenon DEF AtLineEnd
  <2> QED
    BY ONLY <2>1, <2>2, CodecInv, Zenon DEF CodecInv, LogTypes, Loading
<1> QED
  BY <1>1, <1>2, <1>3, <1>4, <1>5, <1>6 DEF Next, Rest

(* The log has cuts, and load_log stands between two of them, at the end   *)
(* of a line, with the commands before executed.                           *)
THEOREM CodecInvariant == Spec => []CodecInv
BY CodecInit, CodecStep, PTL DEF Spec

(* load_log executes the logged commands, each once and in order, with     *)
(* type and first value, whatever blanks and newlines the values hold.     *)
THEOREM ReadsBackHolds == Spec => []ReadsBack
<1>1. CodecInv => ReadsBack
  <2> SUFFICES ASSUME CodecInv, stage = "done" PROVE ReadsBack
    BY DEF ReadsBack
  <2>1. sent \in Seq(Command) /\ Executed(processed, sent, Len(sent))
    BY DEF CodecInv, LogTypes
  <2>2. DOMAIN sent = 1 .. Len(sent) /\ Len(processed) = Len(sent)
    BY <2>1, LenProperties DEF Executed
  <2>3. ASSUME NEW i \in DOMAIN sent PROVE Same(processed[i], sent[i])
    <3>1. sent[i] \in Command
      BY <2>1, <2>2, ElementOfSeq
    <3>2. processed[i] = deserialize_command(serialize_command(sent[i]))
      BY <2>1, <2>2 DEF Executed
    <3> QED
      BY ONLY <3>1, <3>2, RoundTrip, Zenon
  <2> QED
    BY ONLY <2>2, <2>3 DEF ReadsBack, Same
<1> QED
  BY <1>1, CodecInvariant, PTL
=============================================================================
