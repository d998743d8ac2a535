--------------------- MODULE ReplicatedWritesProofs ---------------------
(***************************************************************************)
(* Proofs about module ReplicatedWrites, for every number of replicas, of  *)
(* requests and of rows and every set of commands.                         *)
(***************************************************************************)
EXTENDS ReplicatedWrites, TLAPS

-----------------------------------------------------------------------------
(* Every variable keeps its type, and a request past "idle" has a row and  *)
(* a command.                                                              *)
THEOREM TypeCorrect == Spec => []TypeOK
<1> USE ReplicaAssumption, CommandAssumption
<1>1. Init => TypeOK
  BY DEF Init, TypeOK, Servers, Primary, Phases
<1>2. TypeOK /\ [Next]_vars => TypeOK'
  <2> SUFFICES ASSUME TypeOK, [Next]_vars PROVE TypeOK'
    OBVIOUS
  <2> USE DEF requestVars, rowVars
  <2>1. ASSUME NEW r \in Requests, NEW s \in Servers, NEW w \in Rows,
               NEW c \in Commands, Send(r, s, w, c)
        PROVE  TypeOK'
    BY <2>1 DEF Send, TypeOK, Phases
  <2>2. ASSUME NEW r \in Requests, Relay(r) PROVE TypeOK'
    <3>1. Primary \in Servers
      BY DEF Servers, Primary
    <3> QED
      BY <2>2, <3>1 DEF Relay, TypeOK
  <2>3. ASSUME NEW r \in Requests, AssignNumber(r) PROVE TypeOK'
    <3>1. sequence_max_seen[Primary][row[r]] + 1 \in Nat
      BY <2>3 DEF AssignNumber, TypeOK, Servers, Primary
    <3>2. sequence_max_seen' \in [Servers -> [Rows -> Nat]]
      BY <3>1, <2>3 DEF AssignNumber, TypeOK, Servers, Primary
    <3> QED
      BY <2>3, <3>1, <3>2 DEF AssignNumber, TypeOK, Phases
  <2>4. ASSUME NEW r \in Requests, CheckTurn(r) PROVE TypeOK'
    BY <2>4 DEF CheckTurn, TypeOK, Phases
  <2>5. ASSUME NEW r \in Requests, Execute(r) PROVE TypeOK'
    <3> DEFINE s == at[r]  w == row[r]
    <3>1. s \in Servers /\ w \in Rows /\ cmd[r] \in Commands /\ num[r] \in Nat
      BY <2>5 DEF Execute, TypeOK
    <3>2. sequence_numbers' \in [Servers -> [Rows -> Nat]]
          /\ sequence_max_seen' \in [Servers -> [Rows -> Nat]]
      BY <2>5, <3>1 DEF Execute, TypeOK
    <3>3. Apply(cmd[r], kv_store[s][w]) \in Values \cup {Nil}
      BY <3>1 DEF Apply, CommandType, TypeOK
    <3>4. kv_store' \in [Servers -> [Rows -> Values \cup {Nil}]]
      BY <2>5, <3>1, <3>3 DEF Execute, TypeOK
    <3>5. Append(applied[s][w], r) \in Seq(Requests)
      BY <3>1 DEF TypeOK
    <3>6. applied' \in [Servers -> [Rows -> Seq(Requests)]]
      BY <2>5, <3>1, <3>5 DEF Execute, TypeOK
    <3>7. phase' \in [Requests -> Phases]
      BY <2>5 DEF Execute, TypeOK, Phases
    <3>8. \A q \in Requests : phase'[q] # "idle" => phase[q] # "idle"
      BY <2>5 DEF Execute, Sleepers, TypeOK
    <3> QED
      BY <2>5, <3>2, <3>4, <3>6, <3>7, <3>8 DEF Execute, TypeOK
  <2>6. ASSUME NEW r \in Requests, ForwardNext(r) PROVE TypeOK'
    <3>1. at[r] + 1 \in Servers
      BY <2>6 DEF ForwardNext, TypeOK, Servers
    <3> QED
      BY <2>6, <3>1 DEF ForwardNext, TypeOK, Phases
  <2>7. ASSUME NEW r \in Requests, Acknowledge(r) PROVE TypeOK'
    BY <2>7 DEF Acknowledge, TypeOK, Phases
  <2>8. CASE UNCHANGED vars
    BY <2>8 DEF vars, TypeOK
  <2> QED
    BY <2>1, <2>2, <2>3, <2>4, <2>5, <2>6, <2>7, <2>8 DEF Next, Serve, Quiet
<1> QED
  BY <1>1, <1>2, PTL DEF Spec

-----------------------------------------------------------------------------
(* The only step that changes a history is Execute, which adds its request *)
(* at the end of one of them.                                              *)
LEMMA OnlyExecuteApplies ==
  ASSUME TypeOK, [Next]_vars
  PROVE  \/ UNCHANGED <<applied, sequence_numbers>>
         \/ \E r \in Requests : Execute(r)
BY DEF Next, Serve, Quiet, vars, requestVars, rowVars, Send, Relay,
       AssignNumber, CheckTurn, ForwardNext, Acknowledge

(* What Execute does to the histories.                                     *)
LEMMA ExecuteAppends ==
  ASSUME TypeOK, NEW r \in Requests, Execute(r)
  PROVE  /\ at[r] \in Servers /\ row[r] \in Rows
         /\ \A s \in Servers, w \in Rows :
              IF s = at[r] /\ w = row[r]
              THEN /\ Len(applied'[s][w]) = Len(applied[s][w]) + 1
                   /\ applied'[s][w][Len(applied[s][w]) + 1] = r
                   /\ \A i \in 1 .. Len(applied[s][w]) :
                        applied'[s][w][i] = applied[s][w][i]
              ELSE applied'[s][w] = applied[s][w]
<1>1. at[r] \in Servers /\ row[r] \in Rows
  BY DEF Execute, TypeOK
<1>2. applied[at[r]][row[r]] \in Seq(Requests)
  BY <1>1 DEF TypeOK
<1>3. applied' = [applied EXCEPT ![at[r]][row[r]] = Append(@, r)]
  BY DEF Execute
<1>4. ASSUME NEW s \in Servers, NEW w \in Rows
      PROVE  applied'[s][w] = IF s = at[r] /\ w = row[r]
                              THEN Append(applied[s][w], r) ELSE applied[s][w]
  BY <1>1, <1>3 DEF TypeOK
<1>5. LET q == applied[at[r]][row[r]] IN
      /\ Len(Append(q, r)) = Len(q) + 1
      /\ Append(q, r)[Len(q) + 1] = r
      /\ \A i \in 1 .. Len(q) : Append(q, r)[i] = q[i]
  BY <1>2
<1> QED
  BY <1>1, <1>4, <1>5, ZenonT(30)

(* A request keeps its row and, once it is numbered, its number.           *)
LEMMA NumberKept ==
  ASSUME TypeOK, [Next]_vars, NEW r \in Requests,
         phase[r] \notin {"idle", "received"}
  PROVE  num'[r] = num[r] /\ row'[r] = row[r]
BY DEF TypeOK, Next, Serve, Quiet, vars, requestVars, rowVars, Send, Relay,
       AssignNumber, CheckTurn, Execute, ForwardNext, Acknowledge

(* What Execute does to a test of membership in a history.                 *)
LEMMA ExecuteHasApplied ==
  ASSUME TypeOK, NEW r \in Requests, Execute(r),
         NEW s \in Servers, NEW w \in Rows, NEW q
  PROVE  HasApplied(s, w, q)' <=>
           (HasApplied(s, w, q) \/ (q = r /\ s = at[r] /\ w = row[r]))
<1>1. Len(applied[s][w]) \in Nat
  BY DEF TypeOK
<1>2. CASE s = at[r] /\ w = row[r]
  <2>1. /\ Len(applied'[s][w]) = Len(applied[s][w]) + 1
        /\ applied'[s][w][Len(applied[s][w]) + 1] = r
        /\ \A i \in 1 .. Len(applied[s][w]) : applied'[s][w][i] = applied[s][w][i]
    BY <1>2, ExecuteAppends
  <2>2. ASSUME HasApplied(s, w, q) PROVE HasApplied(s, w, q)'
    BY <1>1, <2>1, <2>2 DEF HasApplied
  <2>3. ASSUME q = r PROVE HasApplied(s, w, q)'
    BY <1>1, <2>1, <2>3 DEF HasApplied
  <2>4. ASSUME HasApplied(s, w, q)' PROVE HasApplied(s, w, q) \/ q = r
    <3>1. PICK i \in 1 .. Len(applied'[s][w]) : applied'[s][w][i] = q
      BY <2>4 DEF HasApplied
    <3>2. CASE i = Len(applied[s][w]) + 1
      BY <3>1, <3>2, <2>1
    <3>3. CASE i \in 1 .. Len(applied[s][w])
      BY <3>1, <3>3, <2>1 DEF HasApplied
    <3> QED
      BY <1>1, <2>1, <3>2, <3>3
  <2> QED
    BY <1>2, <2>2, <2>3, <2>4
<1>3. CASE ~ (s = at[r] /\ w = row[r])
  BY <1>3, ExecuteAppends DEF HasApplied
<1> QED
  BY <1>2, <1>3

(* The histories and the loops stay together over a step.                  *)
LEMMA AppliedIsReachedStep ==
  ASSUME TypeOK, AppliedIsReached, [Next]_vars
  PROVE  AppliedIsReached'
<1> SUFFICES ASSUME NEW s \in Servers, NEW w \in Rows, NEW q \in Requests
             PROVE  HasApplied(s, w, q)' <=> (row[q] = w /\ Reached(q, s))'
  BY DEF AppliedIsReached
<1>0. HasApplied(s, w, q) <=> (row[q] = w /\ Reached(q, s))
  BY DEF AppliedIsReached
<1>t. s \in Int /\ at[q] \in Int /\ at[q] <= N /\ s <= N /\ 1 <= s
  BY ReplicaAssumption DEF TypeOK, Servers
<1> USE DEF requestVars, rowVars
<1>1. ASSUME NEW r \in Requests, NEW v \in Servers, NEW u \in Rows,
             NEW c \in Commands, Send(r, v, u, c)
      PROVE  HasApplied(s, w, q)' <=> (row[q] = w /\ Reached(q, s))'
  BY <1>0, <1>1 DEF Send, HasApplied, Reached, TypeOK
<1>2. ASSUME NEW r \in Requests, Relay(r)
      PROVE  HasApplied(s, w, q)' <=> (row[q] = w /\ Reached(q, s))'
  BY <1>0, <1>2 DEF Relay, HasApplied, Reached, TypeOK
<1>3. ASSUME NEW r \in Requests, AssignNumber(r)
      PROVE  HasApplied(s, w, q)' <=> (row[q] = w /\ Reached(q, s))'
  <2>1. row' = row /\ at' = at /\ applied' = applied /\ at[r] = 1
    BY <1>3 DEF AssignNumber, Primary
  <2>2. HasApplied(s, w, q)' <=> HasApplied(s, w, q)
    BY <2>1 DEF HasApplied
  <2>3. CASE q = r
    <3>1. phase[q] = "received" /\ phase'[q] = "checking"
      BY <1>3, <2>3 DEF AssignNumber, TypeOK
    <3> QED
      BY <1>0, <1>t, <2>1, <2>2, <2>3, <3>1 DEF Reached
  <2>4. CASE q # r
    <3>1. phase'[q] = phase[q]
      BY <1>3, <2>4 DEF AssignNumber, TypeOK
    <3> QED
      BY <1>0, <2>1, <2>2, <3>1 DEF Reached
  <2> QED
    BY <2>3, <2>4
<1>4. ASSUME NEW r \in Requests, CheckTurn(r)
      PROVE  HasApplied(s, w, q)' <=> (row[q] = w /\ Reached(q, s))'
  BY <1>0, <1>4 DEF CheckTurn, HasApplied, Reached, TypeOK
<1>5. ASSUME NEW r \in Requests, Execute(r)
      PROVE  HasApplied(s, w, q)' <=> (row[q] = w /\ Reached(q, s))'
  <2>1. HasApplied(s, w, q)' <=>
          (HasApplied(s, w, q) \/ (q = r /\ s = at[r] /\ w = row[r]))
    BY <1>5, ExecuteHasApplied
  <2>2. row' = row /\ at' = at
    BY <1>5 DEF Execute
  <2>3. CASE q = r
    <3>1. phase[q] = "admitted" /\ phase'[q] = "executed"
      BY <1>5, <2>3 DEF Execute
    <3> QED
      BY <1>0, <2>1, <2>2, <2>3, <3>1, <1>t DEF Reached
  <2>4. CASE q # r
    <3>1. phase'[q] = phase[q] \/ (phase[q] = "asleep" /\ phase'[q] = "checking")
      BY <1>5, <2>4 DEF Execute, Sleepers
    <3> QED
      BY <1>0, <2>1, <2>2, <2>4, <3>1 DEF Reached
  <2> QED
    BY <2>3, <2>4
<1>6. ASSUME NEW r \in Requests, ForwardNext(r)
      PROVE  HasApplied(s, w, q)' <=> (row[q] = w /\ Reached(q, s))'
  BY <1>0, <1>6, <1>t DEF ForwardNext, HasApplied, Reached, TypeOK
<1>7. ASSUME NEW r \in Requests, Acknowledge(r)
      PROVE  HasApplied(s, w, q)' <=> (row[q] = w /\ Reached(q, s))'
  BY <1>0, <1>7, <1>t DEF Acknowledge, HasApplied, Reached, TypeOK
<1>8. CASE UNCHANGED vars
  BY <1>0, <1>8 DEF vars, HasApplied, Reached
<1> QED
  BY <1>1, <1>2, <1>3, <1>4, <1>5, <1>6, <1>7, <1>8 DEF Next, Serve, Quiet

LEMMA AtMostOnceStep ==
  ASSUME TypeOK, AppliedIsReached, AtMostOnce, [Next]_vars
  PROVE  AtMostOnce'
<1>1. CASE UNCHANGED <<applied, sequence_numbers>>
  BY <1>1 DEF AtMostOnce
<1>2. ASSUME NEW r \in Requests, Execute(r)
      PROVE  AtMostOnce'
  <2> SUFFICES ASSUME NEW s \in Servers, NEW w \in Rows,
                      NEW i \in 1 .. Len(applied'[s][w]),
                      NEW j \in 1 .. Len(applied'[s][w]),
                      applied'[s][w][i] = applied'[s][w][j]
               PROVE  i = j
    BY DEF AtMostOnce
  <2>0. Len(applied[s][w]) \in Nat
    BY DEF TypeOK
  <2>1. CASE s = at[r] /\ w = row[r]
    <3>1. /\ Len(applied'[s][w]) = Len(applied[s][w]) + 1
          /\ applied'[s][w][Len(applied[s][w]) + 1] = r
          /\ \A k \in 1 .. Len(applied[s][w]) : applied'[s][w][k] = applied[s][w][k]
      BY <1>2, <2>1, ExecuteAppends
    <3>2. ~ Reached(r, s)
      BY <1>2, <2>1 DEF Execute, Reached, TypeOK, Servers
    <3>3. \A k \in 1 .. Len(applied[s][w]) : applied[s][w][k] # r
      BY <3>2 DEF AppliedIsReached, HasApplied
    <3>4. \A k, m \in 1 .. Len(applied[s][w]) :
            applied[s][w][k] = applied[s][w][m] => k = m
      BY DEF AtMostOnce
    <3> DEFINE old == 1 .. Len(applied[s][w])
    <3>5. CASE i \in old /\ j \in old
      BY <3>1, <3>4, <3>5
    <3>6. CASE i \notin old
      <4>1. i = Len(applied[s][w]) + 1
        BY <2>0, <3>1, <3>6
      <4>2. j \notin old
        BY <3>1, <3>3, <4>1
      <4> QED
        BY <2>0, <3>1, <4>1, <4>2
    <3>7. CASE j \notin old
      <4>1. j = Len(applied[s][w]) + 1
        BY <2>0, <3>1, <3>7
      <4>2. i \notin old
        BY <3>1, <3>3, <4>1
      <4> QED
        BY <2>0, <3>1, <4>1, <4>2
    <3> QED
      BY <3>5, <3>6, <3>7
  <2>2. CASE ~ (s = at[r] /\ w = row[r])
    BY <1>2, <2>2, ExecuteAppends DEF AtMostOnce
  <2> QED
    BY <2>1, <2>2
<1> QED
  BY <1>1, <1>2, OnlyExecuteApplies

(* A number once executed stays executed: histories only grow and the      *)
(* numbers of the requests in them do not change.                          *)
LEMMA HasNumberKept ==
  ASSUME TypeOK, AppliedIsReached, [Next]_vars,
         NEW s \in Servers, NEW w \in Rows
  PROVE  \A n : HasNumber(s, w, n) =>
           \E j \in 1 .. Len(applied'[s][w]) : num'[applied'[s][w][j]] = n
<1> SUFFICES ASSUME NEW n, HasNumber(s, w, n)
             PROVE  \E j \in 1 .. Len(applied'[s][w]) : num'[applied'[s][w][j]] = n
  OBVIOUS
<1>1. PICK j \in 1 .. Len(applied[s][w]) : num[applied[s][w][j]] = n
  BY DEF HasNumber
<1> DEFINE q == applied[s][w][j]
<1>2. q \in Requests
  BY DEF TypeOK
<1>3. phase[q] \notin {"idle", "received"}
  BY <1>2 DEF AppliedIsReached, HasApplied, Reached
<1>4. num'[q] = n
  BY <1>1, <1>2, <1>3, NumberKept
<1>5. j \in 1 .. Len(applied'[s][w]) /\ applied'[s][w][j] = q
  <2>1. CASE UNCHANGED <<applied, sequence_numbers>>
    BY <2>1
  <2>2. ASSUME NEW r \in Requests, Execute(r)
        PROVE  j \in 1 .. Len(applied'[s][w]) /\ applied'[s][w][j] = q
    <3>1. Len(applied[s][w]) \in Nat
      BY DEF TypeOK
    <3> QED
      BY <2>2, <3>1, ExecuteAppends
  <2> QED
    BY <2>1, <2>2, OnlyExecuteApplies
<1> QED
  BY <1>4, <1>5

LEMMA LastNumberStep ==
  ASSUME TypeOK, AppliedIsReached, LastNumberApplied, [Next]_vars
  PROVE  LastNumberApplied'
<1> SUFFICES ASSUME NEW s \in Servers, NEW w \in Rows,
                    sequence_numbers'[s][w] # 0
             PROVE  \E j \in 1 .. Len(applied'[s][w]) :
                      num'[applied'[s][w][j]] = sequence_numbers'[s][w]
  BY DEF LastNumberApplied, HasNumber
<1>1. CASE sequence_numbers'[s][w] = sequence_numbers[s][w]
  BY <1>1, HasNumberKept DEF LastNumberApplied
<1>2. ASSUME NEW r \in Requests, Execute(r),
             sequence_numbers'[s][w] # sequence_numbers[s][w]
      PROVE  \E j \in 1 .. Len(applied'[s][w]) :
                      num'[applied'[s][w][j]] = sequence_numbers'[s][w]
  <2>1. s = at[r] /\ w = row[r] /\ sequence_numbers'[s][w] = num[r] /\ num' = num
    BY <1>2 DEF Execute, TypeOK, requestVars
  <2>2. /\ Len(applied'[s][w]) = Len(applied[s][w]) + 1
        /\ applied'[s][w][Len(applied[s][w]) + 1] = r
    BY <1>2, <2>1, ExecuteAppends
  <2>3. Len(applied[s][w]) + 1 \in 1 .. Len(applied'[s][w])
    BY <2>2 DEF TypeOK
  <2> QED
    BY <2>1, <2>2, <2>3
<1> QED
  BY <1>1, <1>2, OnlyExecuteApplies

LEMMA AdmittedReadyStep ==
  ASSUME TypeOK, AppliedIsReached, LastNumberApplied, AdmittedReady, NoGap,
         [Next]_vars
  PROVE  AdmittedReady'
<1> SUFFICES ASSUME NEW r \in Requests, phase'[r] = "admitted",
                    NEW n \in 1 .. num'[r] - 1
             PROVE  \E j \in 1 .. Len(applied'[at'[r]][row'[r]]) :
                      num'[applied'[at'[r]][row'[r]][j]] = n
  BY DEF AdmittedReady, HasNumber
<1>1. phase[r] = "admitted" \/ CheckTurn(r)
  BY DEF Next, Serve, Quiet, vars, Send, Relay, AssignNumber, CheckTurn,
         Execute, ForwardNext, Acknowledge, TypeOK
<1>2. phase[r] \in {"admitted", "checking"}
  BY <1>1 DEF CheckTurn
<1>3. num'[r] = num[r] /\ row'[r] = row[r] /\ at'[r] = at[r]
  <2>1. num'[r] = num[r] /\ row'[r] = row[r]
    BY <1>2, NumberKept
  <2>2. at'[r] = at[r]
    BY <1>2 DEF Next, Serve, Quiet, vars, requestVars, Send, Relay, AssignNumber,
                CheckTurn, Execute, ForwardNext, Acknowledge, TypeOK
  <2> QED
    BY <2>1, <2>2
<1>4. at[r] \in Servers /\ row[r] \in Rows /\ num[r] \in Nat
  BY <1>2 DEF TypeOK
<1>5. HasNumber(at[r], row[r], n)
  <2>1. CASE phase[r] = "admitted"
    BY <2>1, <1>3 DEF AdmittedReady
  <2>2. CASE CheckTurn(r)
    <3> DEFINE last == sequence_numbers[at[r]][row[r]]
    <3>1. last \in Nat /\ num[r] <= last + 1
      BY <2>2, <1>4 DEF CheckTurn, NotYetTurn, TypeOK
    <3>2. last # 0 /\ n \in 1 .. last
      BY <3>1, <1>3, <1>4
    <3>3. HasNumber(at[r], row[r], last)
      BY <3>2, <1>4 DEF LastNumberApplied
    <3>4. PICK i \in 1 .. Len(applied[at[r]][row[r]]) :
                 num[applied[at[r]][row[r]][i]] = last
      BY <3>3 DEF HasNumber
    <3>5. CASE n = last
      BY <3>3, <3>5
    <3>6. CASE n \in 1 .. last - 1
      <4>1. PICK j \in 1 .. i - 1 : num[applied[at[r]][row[r]][j]] = n
        BY <3>4, <3>6, <1>4 DEF NoGap
      <4>2. j \in 1 .. Len(applied[at[r]][row[r]])
        BY <3>4, <4>1, <1>4 DEF TypeOK
      <4> QED
        BY <4>1, <4>2 DEF HasNumber
    <3> QED
      BY <3>1, <3>2, <3>5, <3>6
  <2> QED
    BY <1>1, <2>1, <2>2
<1> QED
  BY <1>3, <1>4, <1>5, HasNumberKept

LEMMA NoGapStep ==
  ASSUME TypeOK, AppliedIsReached, AdmittedReady, NoGap, [Next]_vars
  PROVE  NoGap'
<1> SUFFICES ASSUME NEW s \in Servers, NEW w \in Rows,
                    NEW i \in 1 .. Len(applied'[s][w]),
                    NEW n \in 1 .. num'[applied'[s][w][i]] - 1
             PROVE  \E j \in 1 .. i - 1 : num'[applied'[s][w][j]] = n
  BY DEF NoGap
<1>0. Len(applied[s][w]) \in Nat
  BY DEF TypeOK
<1>1. \A k \in 1 .. Len(applied[s][w]) :
        /\ num'[applied[s][w][k]] = num[applied[s][w][k]]
        /\ applied[s][w][k] \in Requests
  <2> TAKE k \in 1 .. Len(applied[s][w])
  <2>1. applied[s][w][k] \in Requests
    BY DEF TypeOK
  <2>2. phase[applied[s][w][k]] \notin {"idle", "received"}
    BY <2>1 DEF AppliedIsReached, HasApplied, Reached
  <2> QED
    BY <2>1, <2>2, NumberKept
<1>2. ASSUME i \in 1 .. Len(applied[s][w]),
             \A k \in 1 .. i : applied'[s][w][k] = applied[s][w][k]
      PROVE  \E j \in 1 .. i - 1 : num'[applied'[s][w][j]] = n
  <2>1. n \in 1 .. num[applied[s][w][i]] - 1
    BY <1>1, <1>2
  <2>2. PICK j \in 1 .. i - 1 : num[applied[s][w][j]] = n
    BY <1>2, <2>1 DEF NoGap
  <2>3. j \in 1 .. Len(applied[s][w]) /\ j \in 1 .. i
    BY <1>0, <1>2
  <2> QED
    BY <1>1, <1>2, <2>2, <2>3
<1>3. CASE UNCHANGED <<applied, sequence_numbers>>
  BY <1>2, <1>3
<1>4. ASSUME NEW r \in Requests, Execute(r)
      PROVE  \E j \in 1 .. i - 1 : num'[applied'[s][w][j]] = n
  <2>1. CASE s = at[r] /\ w = row[r]
    <3>1. /\ Len(applied'[s][w]) = Len(applied[s][w]) + 1
          /\ applied'[s][w][Len(applied[s][w]) + 1] = r
          /\ \A k \in 1 .. Len(applied[s][w]) : applied'[s][w][k] = applied[s][w][k]
      BY <1>4, <2>1, ExecuteAppends
    <3>2. CASE i \in 1 .. Len(applied[s][w])
      BY <1>0, <1>2, <3>1, <3>2
    <3>3. CASE i = Len(applied[s][w]) + 1
      <4>1. n \in 1 .. num[r] - 1 /\ phase[r] = "admitted"
        BY <1>4, <3>1, <3>3 DEF Execute, requestVars
      <4>2. PICK j \in 1 .. Len(applied[s][w]) : num[applied[s][w][j]] = n
        BY <2>1, <4>1 DEF AdmittedReady, HasNumber
      <4>3. j \in 1 .. i - 1
        BY <1>0, <3>3
      <4> QED
        BY <1>1, <3>1, <4>2, <4>3
    <3> QED
      BY <1>0, <3>1, <3>2, <3>3, SMTT(30)
  <2>2. CASE ~ (s = at[r] /\ w = row[r])
    BY <1>2, <1>4, <2>2, ExecuteAppends
  <2> QED
    BY <2>1, <2>2
<1> QED
  BY <1>3, <1>4, OnlyExecuteApplies

-----------------------------------------------------------------------------
(* The inductive invariant of the write path.                              *)
THEOREM WritePathInvariant == Spec => []WritePathInv
<1>1. Init => WritePathInv
  BY DEF Init, WritePathInv, AppliedIsReached, AtMostOnce, LastNumberApplied,
         AdmittedReady, NoGap, HasApplied, Reached
<1>2. TypeOK /\ WritePathInv /\ [Next]_vars => WritePathInv'
  BY AppliedIsReachedStep, AtMostOnceStep, LastNumberStep, AdmittedReadyStep,
     NoGapStep DEF WritePathInv
<1> QED
  BY <1>1, <1>2, TypeCorrect, PTL DEF Spec

(* No replica ever executes a number with a smaller one of the row still   *)
(* missing, however many writes are in progress.                           *)
THEOREM NoGapHolds == Spec => []NoGap
<1>1. WritePathInv => NoGap
  BY DEF WritePathInv
<1> QED
  BY <1>1, WritePathInvariant, PTL

(* No replica executes a request twice.                                    *)
THEOREM AtMostOnceHolds == Spec => []AtMostOnce
<1>1. WritePathInv => AtMostOnce
  BY DEF WritePathInv
<1> QED
  BY <1>1, WritePathInvariant, PTL

(* Every write answered OK is in the history of every replica.             *)
THEOREM AckedEverywhereHolds == Spec => []AckedEverywhere
<1>1. TypeOK /\ WritePathInv => AckedEverywhere
  BY DEF TypeOK, WritePathInv, AppliedIsReached, Reached, AckedEverywhere
<1> QED
  BY <1>1, TypeCorrect, WritePathInvariant, PTL

(* No replica holds a write that a replica before it in forwarding order,  *)
(* in particular the primary, has not executed.                            *)
THEOREM PrimaryAheadHolds == Spec => []PrimaryAhead
<1>1. TypeOK /\ WritePathInv => PrimaryAhead
  <2> SUFFICES ASSUME TypeOK, WritePathInv, NEW s \in Servers, NEW w \in Rows,
                      NEW i \in 1 .. Len(applied[s][w]), NEW p \in 1 .. s
               PROVE  HasApplied(p, w, applied[s][w][i])
    BY DEF PrimaryAhead
  <2> DEFINE r == applied[s][w][i]
  <2>1. r \in Requests /\ p \in Servers
    BY ReplicaAssumption, SMTT(30) DEF TypeOK, Servers
  <2>2. row[r] = w /\ Reached(r, s)
    BY <2>1 DEF WritePathInv, AppliedIsReached, HasApplied
  <2>3. Reached(r, p)
    BY <2>1, <2>2 DEF Reached, TypeOK, Servers
  <2> QED
    BY <2>1, <2>2, <2>3 DEF WritePathInv, AppliedIsReached
<1> QED
  BY <1>1, TypeCorrect, WritePathInvariant, PTL

-----------------------------------------------------------------------------
(* No thread sleeps although its turn has come: the only step that moves   *)
(* sequence_numbers wakes every sleeper of that row on that server.        *)
THEOREM NoMissedWakeupHolds == Spec => []NoMissedWakeup
<1>1. Init => NoMissedWakeup
  BY DEF Init, NoMissedWakeup
<1>2. TypeOK /\ NoMissedWakeup /\ [Next]_vars => NoMissedWakeup'
  <2> SUFFICES ASSUME TypeOK, NoMissedWakeup, [Next]_vars,
                      NEW q \in Requests, phase'[q] = "asleep"
               PROVE  num'[q] > sequence_numbers'[at'[q]][row'[q]] + 1
    BY DEF NoMissedWakeup, NotYetTurn
  <2>1. phase[q] = "asleep" \/ CheckTurn(q)
    BY DEF Next, Serve, Quiet, vars, Send, Relay, AssignNumber, CheckTurn,
           Execute, ForwardNext, Acknowledge, TypeOK
  <2>2. CASE CheckTurn(q)
    BY <2>2 DEF CheckTurn, NotYetTurn, requestVars, rowVars, TypeOK
  <2>3. CASE phase[q] = "asleep"
    <3>1. num'[q] = num[q] /\ row'[q] = row[q]
      BY <2>3, NumberKept
    <3>2. at'[q] = at[q]
      BY <2>3 DEF Next, Serve, Quiet, vars, requestVars, Send, Relay,
                  AssignNumber, CheckTurn, Execute, ForwardNext, Acknowledge, TypeOK
    <3>3. at[q] \in Servers /\ row[q] \in Rows
      BY <2>3 DEF TypeOK
    <3>4. num[q] > sequence_numbers[at[q]][row[q]] + 1
      BY <2>3 DEF NoMissedWakeup, NotYetTurn
    <3>5. CASE UNCHANGED <<applied, sequence_numbers>>
      BY <3>1, <3>2, <3>4, <3>5
    <3>6. ASSUME NEW r \in Requests, Execute(r)
          PROVE  sequence_numbers'[at[q]][row[q]] = sequence_numbers[at[q]][row[q]]
      <4>1. q \notin Sleepers(at[r], row[r])
        BY <2>3, <3>6 DEF Execute
      <4>2. at[q] # at[r] \/ row[q] # row[r]
        BY <2>3, <4>1 DEF Sleepers
      <4> QED
        BY <3>3, <3>6, <4>2 DEF Execute, TypeOK
    <3> QED
      BY <3>1, <3>2, <3>4, <3>5, <3>6, OnlyExecuteApplies
  <2> QED
    BY <2>1, <2>2, <2>3
<1> QED
  BY <1>1, <1>2, TypeCorrect, PTL DEF Spec

-----------------------------------------------------------------------------
(* What holds if clients keep at most one write per row in flight.         *)

LEMMA OneInFlightStep ==
  ASSUME OneWriterPerRow, TypeOK, OneInFlight, [Next]_vars
  PROVE  OneInFlight'
<1> SUFFICES ASSUME NEW p \in Requests, NEW q \in Requests, row'[p] = row'[q],
                    phase'[p] \notin {"idle", "acked"},
                    phase'[q] \notin {"idle", "acked"}
             PROVE  p = q
  BY DEF OneInFlight
<1>1. ASSUME NEW r \in Requests, NEW s \in Servers, NEW w \in Rows,
             NEW c \in Commands, Send(r, s, w, c)
      PROVE  p = q
  <2>1. \A x \in Requests : /\ x # r => row'[x] = row[x] /\ phase'[x] = phase[x]
                            /\ row'[r] = w
    BY <1>1 DEF Send, TypeOK
  <2>2. \A x \in Requests : row[x] = w => phase[x] \in {"idle", "acked"}
    BY <1>1 DEF Send, InFlight
  <2> QED
    BY <2>1, <2>2 DEF OneInFlight
<1>2. ASSUME NEW r \in Requests, Serve(r)
      PROVE  p = q
  <2>1. row' = row
    BY <1>2 DEF Serve, Relay, AssignNumber, CheckTurn, Execute, ForwardNext,
                Acknowledge, requestVars
  <2>2. \A x \in Requests : phase'[x] \notin {"idle", "acked"} =>
                              phase[x] \notin {"idle", "acked"}
    BY <1>2 DEF Serve, Relay, AssignNumber, CheckTurn, Execute, ForwardNext,
                Acknowledge, Sleepers, TypeOK
  <2> QED
    BY <2>1, <2>2 DEF OneInFlight
<1>3. CASE UNCHANGED vars
  BY <1>3 DEF vars, requestVars, OneInFlight
<1> QED
  BY <1>1, <1>2, <1>3 DEF Next, Quiet

(* Which steps number a request, and which touch the primary's maximum.    *)
LEMMA NumbersStep ==
  ASSUME TypeOK, OneInFlight, NumbersInOrder, UniqueNumbers, [Next]_vars
  PROVE  NumbersInOrder' /\ UniqueNumbers'
<1> DEFINE Numbered(r) == phase[r] \notin {"idle", "received"}
           max(w) == sequence_max_seen[Primary][w]
<1>p. Primary \in Servers
  BY ReplicaAssumption DEF Primary, Servers
<1>1. ASSUME \A q \in Requests : Numbered(q)' => Numbered(q),
             \A q \in Requests : phase'[q] # "acked" => phase[q] # "acked",
             \A w \in Rows : max(w)' = max(w)
      PROVE  NumbersInOrder' /\ UniqueNumbers'
  <2>1. \A q \in Requests : Numbered(q)' =>
          /\ Numbered(q) /\ num'[q] = num[q] /\ row'[q] = row[q]
          /\ row[q] \in Rows
    BY <1>1, NumberKept DEF TypeOK
  <2>2. UniqueNumbers'
    BY <2>1 DEF UniqueNumbers
  <2>3. NumbersInOrder'
    BY <1>1, <2>1 DEF NumbersInOrder
  <2> QED
    BY <2>2, <2>3
<1>2. ASSUME NEW r \in Requests, NEW s \in Servers, NEW w \in Rows,
             NEW c \in Commands, Send(r, s, w, c)
      PROVE  NumbersInOrder' /\ UniqueNumbers'
  <2>1. \A q \in Requests : phase'[q] = IF q = r THEN "received" ELSE phase[q]
    BY <1>2 DEF Send, TypeOK
  <2>2. sequence_max_seen' = sequence_max_seen
    BY <1>2 DEF Send, rowVars
  <2>3. phase[r] = "idle"
    BY <1>2 DEF Send
  <2> QED
    BY <1>1, <2>1, <2>2, <2>3
<1>3. ASSUME NEW r \in Requests, AssignNumber(r)
      PROVE  NumbersInOrder' /\ UniqueNumbers'
  <2> DEFINE w == row[r]
  <2>1. w \in Rows /\ phase[r] = "received" /\ row' = row
    BY <1>3 DEF AssignNumber, TypeOK
  <2>2. max(w) \in Nat
    BY <1>p, <2>1 DEF TypeOK
  <2>3. \A u \in Rows : max(u)' = IF u = w THEN max(u) + 1 ELSE max(u)
    BY <1>3, <1>p, <2>1 DEF AssignNumber, TypeOK
  <2>4. num'[r] = max(w) + 1 /\ phase'[r] = "checking"
    BY <1>3 DEF AssignNumber, TypeOK
  <2>5. ASSUME NEW q \in Requests, q # r, Numbered(q)'
        PROVE  Numbered(q) /\ num'[q] = num[q] /\ phase'[q] = phase[q] /\ row[q] \in Rows
    BY <1>3, <2>5 DEF AssignNumber, TypeOK
  <2>6. ASSUME NEW q \in Requests, q # r, Numbered(q)', row[q] = w
        PROVE  phase[q] = "acked" /\ num[q] < num'[r]
    <3>1. phase[q] = "acked"
      BY <2>1, <2>5, <2>6 DEF OneInFlight
    <3>2. num[q] <= max(w) /\ num[q] \in Nat
      BY <2>5, <2>6 DEF NumbersInOrder, TypeOK
    <3> QED
      BY <2>2, <2>4, <3>1, <3>2
  <2>7. UniqueNumbers'
    <3> SUFFICES ASSUME NEW p \in Requests, NEW q \in Requests, Numbered(p)',
                        Numbered(q)', p # q, row[p] = row[q]
                 PROVE  num'[p] # num'[q]
      BY <2>1 DEF UniqueNumbers
    <3>1. CASE p = r
      BY <2>2, <2>4, <2>5, <2>6, <3>1 DEF TypeOK
    <3>2. CASE q = r
      BY <2>2, <2>4, <2>5, <2>6, <3>2 DEF TypeOK
    <3>3. CASE p # r /\ q # r
      BY <2>5, <3>3 DEF UniqueNumbers
    <3> QED
      BY <3>1, <3>2, <3>3
  <2>8. NumbersInOrder'
    <3> SUFFICES ASSUME NEW q \in Requests, Numbered(q)'
                 PROVE  /\ num'[q] <= max(row[q])'
                        /\ phase'[q] # "acked" => num'[q] = max(row[q])'
      BY <2>1 DEF NumbersInOrder
    <3>1. CASE q = r
      BY <2>1, <2>2, <2>3, <2>4, <3>1
    <3>2. CASE q # r /\ row[q] = w
      BY <2>1, <2>2, <2>3, <2>4, <2>5, <2>6, <3>2 DEF TypeOK
    <3>3. CASE q # r /\ row[q] # w
      BY <2>1, <2>3, <2>5, <3>3 DEF NumbersInOrder
    <3> QED
      BY <3>1, <3>2, <3>3
  <2> QED
    BY <2>7, <2>8
<1>4. ASSUME NEW r \in Requests, Execute(r)
      PROVE  NumbersInOrder' /\ UniqueNumbers'
  <2>1. at[r] \in Servers /\ row[r] \in Rows /\ num[r] \in Nat /\ phase[r] = "admitted"
    BY <1>4 DEF Execute, TypeOK
  <2>2. num[r] = max(row[r])
    BY <2>1 DEF NumbersInOrder
  <2>3. \A w \in Rows : max(w)' = max(w)
    BY <1>4, <1>p, <2>1, <2>2 DEF Execute, TypeOK
  <2>4. \A q \in Requests : /\ Numbered(q)' => Numbered(q)
                            /\ phase'[q] # "acked" => phase[q] # "acked"
    BY <1>4 DEF Execute, Sleepers, TypeOK
  <2> QED
    BY <1>1, <2>3, <2>4
<1>5. ASSUME NEW r \in Requests,
             Relay(r) \/ CheckTurn(r) \/ ForwardNext(r) \/ Acknowledge(r)
      PROVE  NumbersInOrder' /\ UniqueNumbers'
  <2>1. sequence_max_seen' = sequence_max_seen
    BY <1>5 DEF Relay, CheckTurn, ForwardNext, Acknowledge, rowVars
  <2>2. \A q \in Requests : /\ Numbered(q)' => Numbered(q)
                            /\ phase'[q] # "acked" => phase[q] # "acked"
    BY <1>5 DEF Relay, CheckTurn, ForwardNext, Acknowledge, TypeOK
  <2> QED
    BY <1>1, <2>1, <2>2
<1>6. CASE UNCHANGED vars
  BY <1>1, <1>6 DEF vars, rowVars
<1> QED
  BY <1>2, <1>3, <1>4, <1>5, <1>6 DEF Next, Serve, Quiet

(* A step that executes nothing leaves the replicas as far as they were.   *)
LEMMA FollowsPrimaryIdle ==
  ASSUME TypeOK, FollowsPrimary, UNCHANGED <<applied, kv_store>>,
         \A r \in Requests : Reached(r, Primary) => row'[r] = row[r] /\ cmd'[r] = cmd[r],
         \A s \in Servers, r \in Requests : Reached(r, s)' <=> Reached(r, s)
  PROVE  FollowsPrimary'
<1>p. Primary \in Servers
  BY ReplicaAssumption DEF Primary, Servers
<1>1. \A s \in Servers, r \in Requests : Lacks(s, r)' <=> Lacks(s, r)
  BY <1>p DEF Lacks
<1>2. \A s \in Servers, r \in Requests :
        Lacks(s, r) => row'[r] = row[r] /\ cmd'[r] = cmd[r]
  BY DEF Lacks
<1>3. ASSUME NEW s \in Servers, NEW r \in Requests, Lacks(s, r)'
      PROVE  /\ applied'[Primary][row'[r]] = Append(applied'[s][row'[r]], r)
             /\ kv_store'[Primary][row'[r]] = Apply(cmd'[r], kv_store'[s][row'[r]])
  BY <1>1, <1>2, <1>3, SMTT(30) DEF FollowsPrimary
<1>4. ASSUME NEW s \in Servers, NEW w \in Rows,
             \A r \in Requests : row'[r] = w => ~ Lacks(s, r)'
      PROVE  applied'[s][w] = applied'[Primary][w] /\ kv_store'[s][w] = kv_store'[Primary][w]
  <2>1. \A r \in Requests : row[r] = w => ~ Lacks(s, r)
    BY <1>1, <1>2, <1>4
  <2> QED
    BY <2>1 DEF FollowsPrimary
<1> QED
  BY <1>3, <1>4 DEF FollowsPrimary

(* Execute on the primary puts every other replica one write behind, on    *)
(* another replica it closes the gap.                                      *)
LEMMA FollowsPrimaryExecute ==
  ASSUME TypeOK, OneInFlight, FollowsPrimary, NEW r \in Requests, Execute(r)
  PROVE  FollowsPrimary'
<1> DEFINE a == at[r]  w == row[r]
<1>p. Primary \in Servers
  BY ReplicaAssumption DEF Primary, Servers
<1>1. a \in Servers /\ w \in Rows /\ phase[r] = "admitted" /\ phase'[r] = "executed"
  BY DEF Execute, TypeOK
<1>2. row' = row /\ cmd' = cmd /\ at' = at
  BY DEF Execute, requestVars
<1>3. \A s \in Servers, v \in Rows :
        /\ applied'[s][v] = IF s = a /\ v = w THEN Append(applied[s][v], r)
                                              ELSE applied[s][v]
        /\ kv_store'[s][v] = IF s = a /\ v = w THEN Apply(cmd[r], kv_store[s][v])
                                               ELSE kv_store[s][v]
  BY <1>1 DEF Execute, TypeOK
<1>4. \A q \in Requests : q # r =>
        phase'[q] = phase[q] \/ (phase[q] = "asleep" /\ phase'[q] = "checking")
  BY DEF Execute, Sleepers
<1>5. \A s \in Servers, q \in Requests : q # r => (Reached(q, s)' <=> Reached(q, s))
  BY <1>2, <1>4 DEF Reached
<1>6. \A s \in Servers : /\ Reached(r, s) <=> s < a
                         /\ Reached(r, s)' <=> s <= a
  BY <1>1, <1>2, ReplicaAssumption DEF Reached, Servers
<1>7. \A s \in Servers, q \in Requests : (row[q] = w /\ q # r) => ~ Lacks(s, q)
  <2> SUFFICES ASSUME NEW s \in Servers, NEW q \in Requests, row[q] = w, q # r
               PROVE  ~ Lacks(s, q)
    OBVIOUS
  <2>1. phase[q] \in {"idle", "acked"}
    BY <1>1 DEF OneInFlight
  <2> QED
    BY <2>1 DEF Lacks, Reached
<1>8. \A s \in Servers, q \in Requests : q # r => (Lacks(s, q)' <=> Lacks(s, q))
  BY <1>5, <1>p DEF Lacks
<1>9. \A s \in Servers : Lacks(s, r)' <=> s > a
  BY <1>6, <1>p, <1>1, ReplicaAssumption DEF Lacks, Primary, Servers
<1>10. \A s \in Servers : Lacks(s, r) <=> (a # Primary /\ s >= a)
  BY <1>6, <1>p, <1>1, ReplicaAssumption DEF Lacks, Primary, Servers
(* What the replicas hold of row w before the step.                        *)
<1>11. \A s \in Servers :
         IF a # Primary /\ s >= a
         THEN /\ applied[Primary][w] = Append(applied[s][w], r)
              /\ kv_store[Primary][w] = Apply(cmd[r], kv_store[s][w])
         ELSE applied[s][w] = applied[Primary][w] /\ kv_store[s][w] = kv_store[Primary][w]
  <2> TAKE s \in Servers
  <2>1. CASE Lacks(s, r)
    BY <2>1, <1>10 DEF FollowsPrimary
  <2>2. CASE ~ Lacks(s, r)
    <3>1. \A q \in Requests : row[q] = w => ~ Lacks(s, q)
      BY <2>2, <1>7
    <3>2. applied[s][w] = applied[Primary][w] /\ kv_store[s][w] = kv_store[Primary][w]
      BY <3>1, <1>1 DEF FollowsPrimary
    <3> QED
      BY <2>2, <3>2, <1>10
  <2> QED
    BY <2>1, <2>2
<1>12. ASSUME NEW s \in Servers, NEW q \in Requests, Lacks(s, q)'
       PROVE  /\ applied'[Primary][row'[q]] = Append(applied'[s][row'[q]], q)
              /\ kv_store'[Primary][row'[q]] = Apply(cmd'[q], kv_store'[s][row'[q]])
  <2>1. CASE q = r
    <3>1. s > a /\ s # a
      BY <1>9, <1>12, <2>1, <1>1 DEF Servers
    <3>2. s >= a
      BY <3>1, <1>1 DEF Servers
    <3>3. CASE a = Primary
      <4>1. applied[s][w] = applied[Primary][w] /\ kv_store[s][w] = kv_store[Primary][w]
        BY <1>11, <3>3
      <4> QED
        <5>1. /\ applied'[Primary][w] = Append(applied[Primary][w], r)
              /\ kv_store'[Primary][w] = Apply(cmd[r], kv_store[Primary][w])
          BY <1>1, <1>3, <3>3
        <5>2. applied'[s][w] = applied[s][w] /\ kv_store'[s][w] = kv_store[s][w]
          BY <1>1, <1>3, <3>1
        <5> QED
          BY <1>2, <2>1, <4>1, <5>1, <5>2
    <3>4. CASE a # Primary
      <4>1. /\ applied[Primary][w] = Append(applied[s][w], r)
            /\ kv_store[Primary][w] = Apply(cmd[r], kv_store[s][w])
        BY <1>11, <3>2, <3>4
      <4> QED
        BY <1>1, <1>2, <1>3, <1>p, <2>1, <3>1, <3>4, <4>1
    <3> QED
      BY <3>3, <3>4
  <2>2. CASE q # r
    <3>1. Lacks(s, q) /\ row[q] # w
      BY <1>7, <1>8, <1>12, <2>2
    <3>2. row[q] \in Rows
      BY <3>1 DEF Lacks, Reached, TypeOK
    <3>3. /\ applied[Primary][row[q]] = Append(applied[s][row[q]], q)
          /\ kv_store[Primary][row[q]] = Apply(cmd[q], kv_store[s][row[q]])
      BY <3>1 DEF FollowsPrimary
    <3> QED
      BY <1>2, <1>3, <1>p, <3>1, <3>2, <3>3
  <2> QED
    BY <2>1, <2>2
<1>13. ASSUME NEW s \in Servers, NEW v \in Rows,
              \A q \in Requests : row'[q] = v => ~ Lacks(s, q)'
       PROVE  applied'[s][v] = applied'[Primary][v] /\ kv_store'[s][v] = kv_store'[Primary][v]
  <2>1. CASE v = w
    <3>1. s <= a
      BY <1>9, <1>13, <1>2, <2>1, <1>1 DEF Servers
    <3>2. CASE s = a
      <4>1. CASE a = Primary
        BY <3>2, <4>1
      <4>2. CASE a # Primary
        <5>1. a >= a
          BY <1>1, ReplicaAssumption DEF Servers
        <5>2. /\ applied[Primary][w] = Append(applied[a][w], r)
              /\ kv_store[Primary][w] = Apply(cmd[r], kv_store[a][w])
          BY <1>1, <1>11, <4>2, <5>1
        <5> QED
          BY <1>1, <1>3, <1>p, <2>1, <3>2, <4>2, <5>2
      <4> QED
        BY <4>1, <4>2
    <3>3. CASE s # a
      <4>1. s < a /\ a # Primary /\ ~ s >= a
        BY <3>1, <3>3, <1>1 DEF Servers, Primary
      <4> QED
        BY <1>1, <1>3, <1>11, <1>p, <2>1, <4>1, <3>3
    <3> QED
      BY <3>2, <3>3
  <2>2. CASE v # w
    <3>1. \A q \in Requests : row[q] = v => ~ Lacks(s, q)
      BY <1>2, <1>8, <1>13, <2>2
    <3>2. applied[s][v] = applied[Primary][v] /\ kv_store[s][v] = kv_store[Primary][v]
      BY <3>1 DEF FollowsPrimary
    <3> QED
      BY <1>3, <1>p, <2>2, <3>2
  <2> QED
    BY <2>1, <2>2
<1> QED
  BY <1>12, <1>13 DEF FollowsPrimary

LEMMA FollowsPrimaryStep ==
  ASSUME TypeOK, OneInFlight, FollowsPrimary, [Next]_vars
  PROVE  FollowsPrimary'
<1> USE DEF requestVars, rowVars
<1>n. N \in Nat /\ Primary \in Servers /\ \A s \in Servers : s \in Int /\ 1 <= s /\ s <= N
  BY ReplicaAssumption DEF Servers, Primary
<1>1. ASSUME NEW r \in Requests, NEW s \in Servers, NEW w \in Rows,
             NEW c \in Commands, Send(r, s, w, c)
      PROVE  FollowsPrimary'
  <2>1. \A q \in Requests : q # r => row'[q] = row[q] /\ cmd'[q] = cmd[q]
                                  /\ phase'[q] = phase[q] /\ at'[q] = at[q]
    BY <1>1 DEF Send, TypeOK
  <2>2. phase[r] = "idle" /\ phase'[r] = "received"
    BY <1>1 DEF Send, TypeOK
  <2>3. \A v \in Servers, q \in Requests : Reached(q, v)' <=> Reached(q, v)
    BY <2>1, <2>2 DEF Reached
  <2>4. ~ Reached(r, Primary)
    BY <2>2 DEF Reached
  <2> QED
    BY <1>1, <2>1, <2>3, <2>4, FollowsPrimaryIdle DEF Send
<1>2. ASSUME NEW r \in Requests, Relay(r) \/ CheckTurn(r)
      PROVE  FollowsPrimary'
  <2>1. \A v \in Servers, q \in Requests : Reached(q, v)' <=> Reached(q, v)
    BY <1>2 DEF Relay, CheckTurn, Reached, TypeOK
  <2> QED
    BY <1>2, <2>1, FollowsPrimaryIdle DEF Relay, CheckTurn
<1>3. ASSUME NEW r \in Requests, AssignNumber(r)
      PROVE  FollowsPrimary'
  <2>1. phase[r] = "received" /\ phase'[r] = "checking" /\ at' = at /\ at[r] = 1
    BY <1>3 DEF AssignNumber, TypeOK, Primary
  <2>2. \A q \in Requests : q # r => phase'[q] = phase[q]
    BY <1>3 DEF AssignNumber, TypeOK
  <2>3. \A v \in Servers, q \in Requests : Reached(q, v)' <=> Reached(q, v)
    BY <1>n, <2>1, <2>2 DEF Reached
  <2> QED
    BY <1>3, <2>3, FollowsPrimaryIdle DEF AssignNumber
<1>4. ASSUME NEW r \in Requests, Execute(r)
      PROVE  FollowsPrimary'
  BY <1>4, FollowsPrimaryExecute
<1>5. ASSUME NEW r \in Requests, ForwardNext(r) \/ Acknowledge(r)
      PROVE  FollowsPrimary'
  <2>1. \A v \in Servers, q \in Requests : Reached(q, v)' <=> Reached(q, v)
    <3> TAKE v \in Servers, q \in Requests
    <3>1. at[q] \in Int /\ at[q] <= N
      BY <1>n DEF TypeOK
    <3> QED
      BY <1>5, <1>n, <3>1 DEF ForwardNext, Acknowledge, Reached, TypeOK
  <2> QED
    BY <1>5, <2>1, FollowsPrimaryIdle DEF ForwardNext, Acknowledge
<1>6. CASE UNCHANGED vars
  <2>1. \A v \in Servers, q \in Requests : Reached(q, v)' <=> Reached(q, v)
    BY <1>6 DEF vars, Reached
  <2> QED
    BY <1>6, <2>1, FollowsPrimaryIdle DEF vars
<1> QED
  BY <1>1, <1>2, <1>3, <1>4, <1>5, <1>6 DEF Next, Serve, Quiet

(* With one writer per row, no two writes of a row share a number, and a   *)
(* replica lacks at most the write in flight, which follows what it holds. *)
THEOREM SerialInvariant == OneWriterPerRow => (Spec => []SerialInv)
<1> SUFFICES ASSUME OneWriterPerRow PROVE Spec => []SerialInv
  OBVIOUS
<1>1. Init => SerialInv
  <2> SUFFICES ASSUME Init PROVE SerialInv
    OBVIOUS
  <2>1. \A s \in Servers, r \in Requests : ~ Lacks(s, r)
    BY DEF Init, Lacks, Reached
  <2>2. Primary \in Servers
    BY ReplicaAssumption DEF Primary, Servers
  <2>3. FollowsPrimary
    BY <2>1, <2>2 DEF Init, FollowsPrimary
  <2> QED
    BY <2>3 DEF Init, SerialInv, OneInFlight, NumbersInOrder, UniqueNumbers
<1>2. TypeOK /\ SerialInv /\ [Next]_vars => SerialInv'
  BY OneInFlightStep, NumbersStep, FollowsPrimaryStep DEF SerialInv
<1> QED
  BY <1>1, <1>2, TypeCorrect, PTL DEF Spec

(* The primary never gives a number out twice to writes of one row.        *)
THEOREM UniqueNumbersHolds == OneWriterPerRow => (Spec => []UniqueNumbers)
<1>1. SerialInv => UniqueNumbers
  BY DEF SerialInv
<1> QED
  BY <1>1, SerialInvariant, PTL

(* A replica executes the writes of a row in the primary's order.          *)
THEOREM SameOrderHolds == OneWriterPerRow => (Spec => []SameOrder)
<1>1. TypeOK /\ SerialInv => SameOrder
  <2> SUFFICES ASSUME TypeOK, FollowsPrimary, NEW s \in Servers, NEW w \in Rows
               PROVE  /\ Len(applied[s][w]) <= Len(applied[Primary][w])
                      /\ \A i \in 1 .. Len(applied[s][w]) :
                           applied[s][w][i] = applied[Primary][w][i]
    BY DEF SerialInv, SameOrder
  <2>1. applied[s][w] \in Seq(Requests)
    BY DEF TypeOK
  <2>2. CASE \A r \in Requests : row[r] = w => ~ Lacks(s, r)
    <3>1. applied[s][w] = applied[Primary][w]
      BY <2>2 DEF FollowsPrimary
    <3> QED
      BY <2>1, <3>1
  <2>3. ASSUME NEW r \in Requests, row[r] = w, Lacks(s, r)
        PROVE  /\ Len(applied[s][w]) <= Len(applied[Primary][w])
               /\ \A i \in 1 .. Len(applied[s][w]) :
                    applied[s][w][i] = applied[Primary][w][i]
    <3>1. applied[Primary][w] = Append(applied[s][w], r)
      BY <2>3 DEF FollowsPrimary
    <3> QED
      BY <2>1, <3>1
  <2> QED
    BY <2>2, <2>3
<1> QED
  BY <1>1, SerialInvariant, TypeCorrect, PTL

(* When no write of a row is in progress all replicas hold the same value. *)
THEOREM SettledRowsAgreeHolds == OneWriterPerRow => (Spec => []SettledRowsAgree)
<1>1. TypeOK /\ SerialInv => SettledRowsAgree
  <2> SUFFICES ASSUME FollowsPrimary, NEW w \in Rows, InFlight(w) = {},
                      NEW s \in Servers
               PROVE  kv_store[s][w] = kv_store[Primary][w]
    BY DEF SerialInv, SettledRowsAgree
  <2>1. \A r \in Requests : row[r] = w => ~ Lacks(s, r)
    BY DEF InFlight, Lacks, Reached
  <2> QED
    BY <2>1 DEF FollowsPrimary
<1> QED
  BY <1>1, SerialInvariant, TypeCorrect, PTL

-----------------------------------------------------------------------------
(* The refinement of RowLog, step by step.                                 *)

LEMMA HoldsIsHasApplied ==
  ASSUME NEW s \in Servers, NEW w \in Rows, NEW r
  PROVE  Log!Holds(s, w, r) <=> HasApplied(s, w, r)
BY DEF Log!Holds, HasApplied

(* Execute on the primary extends the row's log by a new write.            *)
LEMMA ExecuteCommits ==
  ASSUME TypeOK, AppliedIsReached, NEW r \in Requests, Execute(r), at[r] = Primary
  PROVE  Log!Commit(r, row[r])
<1>1. row[r] \in Rows /\ phase[r] = "admitted" /\ Primary \in Servers
  BY ReplicaAssumption DEF Execute, TypeOK, Primary, Servers
<1>2. ~ Reached(r, Primary)
  BY <1>1 DEF Reached, Primary
<1>3. \A v \in Rows : ~ Log!Holds(1, v, r)
  BY <1>1, <1>2, HoldsIsHasApplied DEF AppliedIsReached, Primary
<1>4. applied' = [applied EXCEPT ![1][row[r]] = Append(@, r)]
  BY DEF Execute, Primary
<1>5. {q \in Requests : phase'[q] = "acked"} = {q \in Requests : phase[q] = "acked"}
  BY <1>1 DEF Execute, Sleepers
<1> QED
  BY <1>3, <1>4, <1>5 DEF Log!Commit

(* Execute elsewhere takes over the next write of the primary's log.       *)
LEMMA ExecuteCatchesUp ==
  ASSUME TypeOK, FollowsPrimary, NEW r \in Requests, Execute(r), at[r] # Primary
  PROVE  Log!CatchUp(at[r], row[r])
<1> DEFINE s == at[r]  w == row[r]
<1>1. s \in Servers /\ w \in Rows /\ phase[r] = "admitted"
  BY DEF Execute, TypeOK
<1>2. Lacks(s, r)
  BY <1>1, ReplicaAssumption DEF Lacks, Reached, Servers, Primary
<1>3. applied[Primary][w] = Append(applied[s][w], r)
  BY <1>1, <1>2 DEF FollowsPrimary
<1>4. applied[s][w] \in Seq(Requests)
  BY <1>1 DEF TypeOK
<1>5. /\ Len(applied[s][w]) < Len(applied[1][w])
      /\ applied[1][w][Len(applied[s][w]) + 1] = r
  BY <1>3, <1>4 DEF Primary
<1>6. applied' = [applied EXCEPT ![s][w] = Append(@, r)]
  BY DEF Execute
<1>7. applied' = [applied EXCEPT ![s][w] = Append(@, applied[1][w][Len(@) + 1])]
  BY <1>5, <1>6
<1>8. {q \in Requests : phase'[q] = "acked"} = {q \in Requests : phase[q] = "acked"}
  BY <1>1 DEF Execute, Sleepers
<1> QED
  BY <1>5, <1>7, <1>8 DEF Log!CatchUp, Primary

(* An answer is given only to a write that every replica has.              *)
LEMMA AcknowledgeAcknowledges ==
  ASSUME TypeOK, AppliedIsReached, NEW r \in Requests, Acknowledge(r)
  PROVE  Log!Acknowledge(r)
<1>1. row[r] \in Rows /\ phase[r] = "executed" /\ at[r] = N
  BY DEF Acknowledge, TypeOK
<1>2. \A s \in Servers : Reached(r, s)
  BY <1>1, ReplicaAssumption DEF Reached, Servers
<1>3. \A s \in Servers : Log!Holds(s, row[r], r)
  BY <1>1, <1>2, HoldsIsHasApplied DEF AppliedIsReached
<1>4. \A s \in Log!Replicas : Log!Holds(s, row[r], r)
  BY <1>3 DEF Log!Replicas, Servers
<1>5. {q \in Requests : phase'[q] = "acked"}
        = {q \in Requests : phase[q] = "acked"} \cup {r}
  BY DEF Acknowledge, TypeOK
<1>6. r \notin {q \in Requests : phase[q] = "acked"} /\ applied' = applied
  BY <1>1 DEF Acknowledge, rowVars
<1> QED
  BY <1>1, <1>4, <1>5, <1>6 DEF Log!Acknowledge

(* With one writer per row, a replica's history of a row is its copy of    *)
(* one log, which only the primary extends and nobody changes behind.      *)
THEOREM WritesImplementRowLog == OneWriterPerRow => (Spec => ImplementsRowLog)
<1> SUFFICES ASSUME OneWriterPerRow PROVE Spec => Log!LogSpec
  BY DEF ImplementsRowLog
<1>1. Init => Log!LogInit
  BY DEF Init, Log!LogInit, Log!Replicas, Servers
<1>2. TypeOK /\ WritePathInv /\ SerialInv /\ [Next]_vars => [Log!LogNext]_Log!logVars
  <2> SUFFICES ASSUME TypeOK, AppliedIsReached, FollowsPrimary, [Next]_vars
               PROVE  Log!LogNext \/ UNCHANGED Log!logVars
    BY DEF WritePathInv, SerialInv
  <2>1. ASSUME applied' = applied, \A q \in Requests : phase'[q] = "acked" <=> phase[q] = "acked"
        PROVE  UNCHANGED Log!logVars
    BY <2>1 DEF Log!logVars
  <2>2. ASSUME NEW r \in Requests, Execute(r) PROVE Log!LogNext
    <3>1. row[r] \in Rows /\ at[r] \in Log!Replicas
      BY <2>2 DEF Execute, TypeOK, Log!Replicas, Servers
    <3> QED
      BY <2>2, <3>1, ExecuteCommits, ExecuteCatchesUp DEF Log!LogNext
  <2>3. ASSUME NEW r \in Requests, Acknowledge(r) PROVE Log!LogNext
    BY <2>3, AcknowledgeAcknowledges DEF Log!LogNext
  <2>4. ASSUME NEW r \in Requests, NEW s \in Servers, NEW w \in Rows,
               NEW c \in Commands, Send(r, s, w, c)
        PROVE  UNCHANGED Log!logVars
    BY <2>1, <2>4 DEF Send, TypeOK, rowVars
  <2>5. ASSUME NEW r \in Requests,
               Relay(r) \/ AssignNumber(r) \/ CheckTurn(r) \/ ForwardNext(r)
        PROVE  UNCHANGED Log!logVars
    BY <2>1, <2>5 DEF Relay, AssignNumber, CheckTurn, ForwardNext, TypeOK, rowVars
  <2>6. CASE UNCHANGED vars
    BY <2>1, <2>6 DEF vars, rowVars
  <2> QED
    BY <2>2, <2>3, <2>4, <2>5, <2>6 DEF Next, Serve, Quiet
<1> QED
  BY <1>1, <1>2, TypeCorrect, WritePathInvariant, SerialInvariant, PTL
     DEF Spec, Log!LogSpec

-----------------------------------------------------------------------------
(* What RowLog promises, and with it the write path.                       *)

LEMMA CopyExtended ==
  ASSUME NEW c \in [Servers -> [Rows -> Seq(Requests)]], NEW s0 \in Servers, NEW w0 \in Rows,
         NEW e \in Requests, NEW d, d = [c EXCEPT ![s0][w0] = Append(@, e)]
  PROVE  /\ d \in [Servers -> [Rows -> Seq(Requests)]]
         /\ \A s \in Servers, w \in Rows : s # s0 \/ w # w0 => d[s][w] = c[s][w]
         /\ Len(d[s0][w0]) = Len(c[s0][w0]) + 1 /\ d[s0][w0][Len(c[s0][w0]) + 1] = e
         /\ \A i \in 1 .. Len(c[s0][w0]) : d[s0][w0][i] = c[s0][w0][i]
         /\ \A s \in Servers, w \in Rows :
              /\ Len(c[s][w]) \in Nat /\ Len(d[s][w]) \in Nat /\ Len(c[s][w]) <= Len(d[s][w])
              /\ \A i \in 1 .. Len(c[s][w]) : d[s][w][i] = c[s][w][i]
<1>1. d \in [Servers -> [Rows -> Seq(Requests)]]
  OBVIOUS
<1>2. \A s \in Servers, w \in Rows : s # s0 \/ w # w0 => d[s][w] = c[s][w]
  OBVIOUS
<1>3. d[s0][w0] = Append(c[s0][w0], e) /\ c[s0][w0] \in Seq(Requests)
  OBVIOUS
<1>4. /\ Len(d[s0][w0]) = Len(c[s0][w0]) + 1 /\ d[s0][w0][Len(c[s0][w0]) + 1] = e
      /\ \A i \in 1 .. Len(c[s0][w0]) : d[s0][w0][i] = c[s0][w0][i]
  BY ONLY <1>3, e \in Requests
<1>5. ASSUME NEW s \in Servers, NEW w \in Rows
      PROVE  /\ Len(c[s][w]) \in Nat /\ Len(d[s][w]) \in Nat /\ Len(c[s][w]) <= Len(d[s][w])
             /\ \A i \in 1 .. Len(c[s][w]) : d[s][w][i] = c[s][w][i]
  <2>1. Len(c[s][w]) \in Nat /\ Len(d[s][w]) \in Nat
    BY <1>1
  <2>2. CASE s = s0 /\ w = w0
    BY ONLY <1>4, <2>1, <2>2
  <2>3. CASE s # s0 \/ w # w0
    BY ONLY <1>2, <2>1, <2>3, s \in Servers, w \in Rows
  <2> QED
    BY <2>1, <2>2, <2>3
<1> QED
  BY <1>1, <1>2, <1>4, <1>5

Copies == applied \in [Servers -> [Rows -> Seq(Requests)]]

(* What a step of RowLog does, for the three parts of the promise.         *)
LogStep ==
  /\ {r \in Requests : phase[r] = "acked"} \subseteq {r \in Requests : phase'[r] = "acked"}
  /\ \A s \in Servers, w \in Rows :
       /\ Len(applied[s][w]) \in Nat /\ Len(applied'[s][w]) \in Nat
       /\ Len(applied[s][w]) <= Len(applied'[s][w])
       /\ \A i \in 1 .. Len(applied[s][w]) : applied'[s][w][i] = applied[s][w][i]

LEMMA LogCommit ==
  ASSUME Copies, Log!LogPromise, NEW r \in Requests, NEW w \in Rows, Log!Commit(r, w)
  PROVE  Copies' /\ LogStep /\ Log!LogPromise'
<1> USE DEF Log!Replicas, Servers
<1>1. /\ applied' = [applied EXCEPT ![1][w] = Append(@, r)]
      /\ {q \in Requests : phase'[q] = "acked"} = {q \in Requests : phase[q] = "acked"}
      /\ 1 \in Servers
  BY ReplicaAssumption DEF Log!Commit
<1> DEFINE n == Len(applied[1][w])
<1>2. /\ Copies'
      /\ \A s \in Servers, v \in Rows : s # 1 \/ v # w => applied'[s][v] = applied[s][v]
      /\ Len(applied'[1][w]) = n + 1 /\ applied'[1][w][n + 1] = r
      /\ \A i \in 1 .. n : applied'[1][w][i] = applied[1][w][i]
      /\ \A s \in Servers, v \in Rows :
           /\ Len(applied[s][v]) \in Nat /\ Len(applied'[s][v]) \in Nat
           /\ Len(applied[s][v]) <= Len(applied'[s][v])
           /\ \A i \in 1 .. Len(applied[s][v]) : applied'[s][v][i] = applied[s][v][i]
  BY ONLY <1>1, Copies, CopyExtended, r \in Requests, w \in Rows DEF Copies
<1>3. LogStep
  BY ONLY <1>1, <1>2 DEF LogStep
<1>4. Log!CopiesArePrefixes'
  <2> SUFFICES ASSUME NEW s \in Servers, NEW v \in Rows
               PROVE  /\ Len(applied'[s][v]) <= Len(applied'[1][v])
                      /\ \A i \in 1 .. Len(applied'[s][v]) : applied'[s][v][i] = applied'[1][v][i]
    BY DEF Log!CopiesArePrefixes
  <2>1. CASE s = 1
    BY <1>1, <1>2, <2>1
  <2>2. CASE s # 1
    <3>1. applied'[s][v] = applied[s][v]
      BY <1>2, <2>2
    <3>2. /\ Len(applied[s][v]) <= Len(applied[1][v])
          /\ \A i \in 1 .. Len(applied[s][v]) : applied[s][v][i] = applied[1][v][i]
      BY DEF Log!LogPromise, Log!CopiesArePrefixes
    <3>3. /\ Len(applied[s][v]) \in Nat /\ Len(applied[1][v]) \in Nat /\ Len(applied'[1][v]) \in Nat
          /\ Len(applied[1][v]) <= Len(applied'[1][v])
          /\ \A i \in 1 .. Len(applied[1][v]) : applied'[1][v][i] = applied[1][v][i]
      BY <1>1, <1>2
    <3> DEFINE k == Len(applied[s][v])
               m == Len(applied[1][v])
    <3> HIDE DEF k, m
    <3>4. k <= Len(applied'[1][v]) /\ \A i \in 1 .. k : i \in 1 .. m
      BY ONLY <3>2, <3>3 DEF k, m
    <3>5. \A i \in 1 .. k : applied[s][v][i] = applied'[1][v][i]
      BY ONLY <3>2, <3>3, <3>4, Zenon DEF k, m
    <3> QED
      BY ONLY <3>1, <3>4, <3>5, Zenon DEF k
  <2> QED
    BY <2>1, <2>2
<1>5. Log!CommittedOnce'
  <2> SUFFICES ASSUME NEW u \in Rows, NEW v \in Rows,
                      NEW i \in 1 .. Len(applied'[1][u]), NEW j \in 1 .. Len(applied'[1][v]),
                      applied'[1][u][i] = applied'[1][v][j]
               PROVE  u = v /\ i = j
    BY DEF Log!CommittedOnce
  <2>1. ASSUME NEW x \in Rows, NEW k \in 1 .. Len(applied'[1][x])
        PROVE  \/ k \in 1 .. Len(applied[1][x]) /\ applied'[1][x][k] = applied[1][x][k]
               \/ x = w /\ k = n + 1 /\ applied'[1][x][k] = r
    <3>1. CASE x = w
      <4>1. n \in Nat
        BY <1>1, <1>2
      <4> QED
        BY ONLY <1>2, <2>1, <3>1, <4>1
    <3>2. CASE x # w
      BY <1>1, <1>2, <2>1, <3>2
    <3> QED
      BY <3>1, <3>2
  <2>2. ASSUME NEW x \in Rows, NEW k \in 1 .. Len(applied[1][x]) PROVE applied[1][x][k] # r
    BY <2>2 DEF Log!Commit, Log!Holds
  <2>3. \A x, y \in Rows : \A k \in 1 .. Len(applied[1][x]), l \in 1 .. Len(applied[1][y]) :
          applied[1][x][k] = applied[1][y][l] => x = y /\ k = l
    BY DEF Log!LogPromise, Log!CommittedOnce
  <2>4. \/ i \in 1 .. Len(applied[1][u]) /\ applied'[1][u][i] = applied[1][u][i]
        \/ u = w /\ i = n + 1 /\ applied'[1][u][i] = r
    BY <2>1
  <2>5. \/ j \in 1 .. Len(applied[1][v]) /\ applied'[1][v][j] = applied[1][v][j]
        \/ v = w /\ j = n + 1 /\ applied'[1][v][j] = r
    BY <2>1
  <2>6. applied'[1][u][i] = applied'[1][v][j]
    OBVIOUS
  <2>7. CASE i \in 1 .. Len(applied[1][u]) /\ applied'[1][u][i] = applied[1][u][i]
    <3>1. applied[1][u][i] # r
      BY <2>2, <2>7
    <3>2. j \in 1 .. Len(applied[1][v]) /\ applied'[1][v][j] = applied[1][v][j]
      BY ONLY <2>5, <2>6, <2>7, <3>1, Zenon
    <3>3. applied[1][u][i] = applied[1][v][j]
      BY ONLY <2>6, <2>7, <3>2, Zenon
    <3> QED
      BY ONLY <2>3, <2>7, <3>2, <3>3, u \in Rows, v \in Rows, Zenon
  <2>8. CASE u = w /\ i = n + 1 /\ applied'[1][u][i] = r
    <3>1. ASSUME j \in 1 .. Len(applied[1][v]), applied'[1][v][j] = applied[1][v][j] PROVE FALSE
      BY ONLY <2>2, <2>6, <2>8, <3>1, v \in Rows, Zenon
    <3> QED
      BY ONLY <2>5, <2>8, <3>1, Zenon
  <2> QED
    BY ONLY <2>4, <2>7, <2>8, Zenon
<1>6. Log!AckedInEveryCopy'
  BY <1>1, <1>3 DEF LogStep, Log!LogPromise, Log!AckedInEveryCopy, Log!Holds
<1> QED
  BY <1>2, <1>3, <1>4, <1>5, <1>6 DEF Log!LogPromise

LEMMA CommittedOnceKept ==
  ASSUME Log!CommittedOnce, \A v \in Rows : applied'[1][v] = applied[1][v]
  PROVE  Log!CommittedOnce'
<1> SUFFICES ASSUME NEW u \in Rows, NEW v \in Rows,
                    NEW i \in 1 .. Len(applied[1][u]), NEW j \in 1 .. Len(applied[1][v]),
                    applied[1][u][i] = applied[1][v][j]
             PROVE  u = v /\ i = j
  BY DEF Log!CommittedOnce
<1> QED
  BY DEF Log!CommittedOnce

LEMMA SameCopiesKept ==
  ASSUME Log!CopiesArePrefixes, Log!CommittedOnce, applied' = applied
  PROVE  Log!CopiesArePrefixes' /\ Log!CommittedOnce'
<1>1. Log!CommittedOnce'
  BY CommittedOnceKept
<1>2. Log!CopiesArePrefixes'
  BY DEF Log!CopiesArePrefixes
<1> QED
  BY <1>1, <1>2

LEMMA LogCatchUp ==
  ASSUME Copies, Log!LogPromise, NEW s \in Servers, NEW w \in Rows, Log!CatchUp(s, w)
  PROVE  Copies' /\ LogStep /\ Log!LogPromise'
<1> DEFINE n == Len(applied[s][w])
           e == applied[1][w][n + 1]
<1>1. /\ s # 1 /\ n < Len(applied[1][w]) /\ 1 \in Servers
      /\ applied' = [applied EXCEPT ![s][w] = Append(@, e)]
      /\ {q \in Requests : phase'[q] = "acked"} = {q \in Requests : phase[q] = "acked"}
  BY ReplicaAssumption DEF Log!CatchUp, Servers
<1>2. n \in Nat /\ Len(applied[1][w]) \in Nat /\ e \in Requests
  <2>1. applied[s][w] \in Seq(Requests) /\ applied[1][w] \in Seq(Requests)
    BY <1>1 DEF Copies
  <2> QED
    BY ONLY <1>1, <2>1
<1> HIDE DEF e
<1>3. /\ Copies'
      /\ \A t \in Servers, v \in Rows : t # s \/ v # w => applied'[t][v] = applied[t][v]
      /\ Len(applied'[s][w]) = n + 1 /\ applied'[s][w][n + 1] = e
      /\ \A i \in 1 .. n : applied'[s][w][i] = applied[s][w][i]
      /\ \A t \in Servers, v \in Rows :
           /\ Len(applied[t][v]) \in Nat /\ Len(applied'[t][v]) \in Nat
           /\ Len(applied[t][v]) <= Len(applied'[t][v])
           /\ \A i \in 1 .. Len(applied[t][v]) : applied'[t][v][i] = applied[t][v][i]
  BY ONLY <1>1, <1>2, Copies, CopyExtended, s \in Servers, w \in Rows DEF Copies
<1>4. LogStep
  BY ONLY <1>1, <1>3 DEF LogStep
<1>5. \A v \in Rows : applied'[1][v] = applied[1][v]
  BY <1>1, <1>3
<1>6. Log!CopiesArePrefixes'
  <2> SUFFICES ASSUME NEW t \in Servers, NEW v \in Rows
               PROVE  /\ Len(applied'[t][v]) <= Len(applied[1][v])
                      /\ \A i \in 1 .. Len(applied'[t][v]) : applied'[t][v][i] = applied[1][v][i]
    BY <1>5 DEF Log!CopiesArePrefixes, Log!Replicas, Servers
  <2>1. /\ Len(applied[t][v]) <= Len(applied[1][v])
        /\ \A i \in 1 .. Len(applied[t][v]) : applied[t][v][i] = applied[1][v][i]
    BY DEF Log!LogPromise, Log!CopiesArePrefixes, Log!Replicas, Servers
  <2>2. CASE t = s /\ v = w
    <3>1. \A i \in 1 .. n + 1 : i \in 1 .. n \/ i = n + 1
      BY ONLY <1>2
    <3>2. n + 1 <= Len(applied[1][w])
      BY ONLY <1>1, <1>2
    <3>3. ASSUME NEW i \in 1 .. n + 1 PROVE applied'[s][w][i] = applied[1][w][i]
      <4>1. CASE i \in 1 .. n
        BY ONLY <1>3, <2>1, <2>2, <4>1, Zenon
      <4>2. CASE i = n + 1
        BY ONLY <1>3, <4>2, Zenon DEF e
      <4> QED
        BY ONLY <3>1, <4>1, <4>2, i \in 1 .. n + 1, Zenon
    <3> QED
      BY ONLY <1>3, <2>2, <3>2, <3>3, Zenon
  <2>3. CASE t # s \/ v # w
    BY ONLY <1>3, <2>1, <2>3, t \in Servers, v \in Rows, Zenon
  <2> QED
    BY <2>2, <2>3
<1>7. Log!CommittedOnce'
  BY <1>5, CommittedOnceKept DEF Log!LogPromise
<1>8. Log!AckedInEveryCopy'
  BY <1>1, <1>4 DEF LogStep, Log!LogPromise, Log!AckedInEveryCopy, Log!Holds, Log!Replicas, Servers
<1> QED
  BY <1>3, <1>4, <1>6, <1>7, <1>8 DEF Log!LogPromise

LEMMA LogAcknowledge ==
  ASSUME Copies, Log!LogPromise, NEW r \in Requests, Log!Acknowledge(r)
  PROVE  Copies' /\ LogStep /\ Log!LogPromise'
<1> DEFINE acked == {q \in Requests : phase[q] = "acked"}
<1>1. /\ acked' = acked \cup {r} /\ applied' = applied
      /\ \E w \in Rows : \A s \in Log!Replicas : Log!Holds(s, w, r)
  BY Zenon DEF Log!Acknowledge
<1>2. LogStep
  <2>1. \A s \in Servers, w \in Rows : Len(applied[s][w]) \in Nat
    BY DEF Copies
  <2> QED
    BY ONLY <1>1, <2>1 DEF LogStep
<1>3. Log!AckedInEveryCopy'
  <2>1. \A q \in acked : \E w \in Rows : \A s \in Log!Replicas : Log!Holds(s, w, q)
    BY Zenon DEF Log!LogPromise, Log!AckedInEveryCopy
  <2>2. \A s, w, q : Log!Holds(s, w, q)' <=> Log!Holds(s, w, q)
    BY ONLY <1>1 DEF Log!Holds
  <2>3. \A q \in acked' : \E w \in Rows : \A s \in Log!Replicas : Log!Holds(s, w, q)
    BY ONLY <1>1, <2>1
  <2>4. \A q \in acked' : \E w \in Rows : \A s \in Log!Replicas : Log!Holds(s, w, q)'
    BY ONLY <2>2, <2>3, Zenon
  <2> QED
    BY ONLY <2>4 DEF Log!AckedInEveryCopy
<1>4. Log!CopiesArePrefixes' /\ Log!CommittedOnce'
  BY <1>1, SameCopiesKept DEF Log!LogPromise
<1>5. Copies'
  BY ONLY <1>1, Copies DEF Copies
<1> QED
  BY <1>2, <1>3, <1>4, <1>5 DEF Log!LogPromise

LEMMA LogStepKeeps ==
  ASSUME Copies, Log!LogPromise, Log!LogNext \/ UNCHANGED Log!logVars
  PROVE  Copies' /\ Log!LogPromise' /\ (LogStep \/ UNCHANGED Log!logVars)
<1>1. ASSUME NEW r \in Requests, NEW w \in Rows, Log!Commit(r, w)
      PROVE  Copies' /\ LogStep /\ Log!LogPromise'
  BY <1>1, LogCommit
<1>2. ASSUME NEW s \in Servers, NEW w \in Rows, Log!CatchUp(s, w)
      PROVE  Copies' /\ LogStep /\ Log!LogPromise'
  BY <1>2, LogCatchUp
<1>3. ASSUME NEW r \in Requests, Log!Acknowledge(r)
      PROVE  Copies' /\ LogStep /\ Log!LogPromise'
  BY <1>3, LogAcknowledge
<1>4. CASE UNCHANGED Log!logVars
  <2>1. /\ applied' = applied
        /\ {r \in Requests : phase'[r] = "acked"} = {r \in Requests : phase[r] = "acked"}
    BY <1>4, Zenon DEF Log!logVars
  <2>2. Log!CopiesArePrefixes' /\ Log!CommittedOnce'
    BY <2>1, SameCopiesKept DEF Log!LogPromise
  <2>3. Log!AckedInEveryCopy'
    BY <2>1 DEF Log!LogPromise, Log!AckedInEveryCopy, Log!Holds
  <2>4. Copies'
    BY ONLY <2>1, Copies DEF Copies
  <2> QED
    BY <1>4, <2>2, <2>3, <2>4 DEF Log!LogPromise
<1> QED
  BY <1>1, <1>2, <1>3, <1>4 DEF Log!LogNext, Log!Replicas, Servers

(* The abstract log: copies are beginnings of the primary's, a write has   *)
(* one place, an acknowledged one is everywhere, nothing is taken back.    *)
THEOREM LogKeepsPromise == Log!LogSpec => []Log!LogPromise /\ Log!NothingTakenBack
<1>1. Log!LogInit => Copies /\ Log!LogPromise
  <2> SUFFICES ASSUME Log!LogInit PROVE Copies /\ Log!LogPromise
    OBVIOUS
  <2>1. /\ applied = [s \in Servers |-> [w \in Rows |-> <<>>]]
        /\ {r \in Requests : phase[r] = "acked"} = {} /\ 1 \in Servers
    BY ReplicaAssumption DEF Log!LogInit, Log!Replicas, Servers
  <2>2. \A s \in Servers, w \in Rows : applied[s][w] = <<>>
    BY <2>1
  <2>3. Log!CopiesArePrefixes
    BY <2>1, <2>2 DEF Log!CopiesArePrefixes, Log!Replicas, Servers
  <2>4. Log!CommittedOnce
    BY <2>1, <2>2 DEF Log!CommittedOnce
  <2>5. Log!AckedInEveryCopy
    BY <2>1 DEF Log!AckedInEveryCopy
  <2>6. Copies
    BY <2>1 DEF Copies
  <2> QED
    BY <2>3, <2>4, <2>5, <2>6 DEF Log!LogPromise
<1>2. /\ Copies /\ Log!LogPromise /\ [Log!LogNext]_Log!logVars => (Copies /\ Log!LogPromise)'
      /\ Copies /\ Log!LogPromise /\ [Log!LogNext]_Log!logVars => [LogStep]_Log!logVars
  BY LogStepKeeps
<1>3. [LogStep]_Log!logVars => [Log!Extends]_Log!logVars
  BY DEF LogStep, Log!Extends, Log!Replicas, Servers
<1> QED
  BY <1>1, <1>2, <1>3, PTL DEF Log!LogSpec, Log!NothingTakenBack

(* So with one writer per row the replicas keep that promise: an answered  *)
(* write is at one place of one order that all of them share, and stays.   *)
THEOREM WritesKeepPromise ==
  OneWriterPerRow => (Spec => []Log!LogPromise /\ Log!NothingTakenBack)
<1> SUFFICES ASSUME OneWriterPerRow PROVE Spec => []Log!LogPromise /\ Log!NothingTakenBack
  OBVIOUS
<1>1. Spec => Log!LogSpec
  BY WritesImplementRowLog DEF ImplementsRowLog
<1> QED
  BY <1>1, LogKeepsPromise
=============================================================================
