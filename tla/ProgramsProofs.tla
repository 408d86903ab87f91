----------------------------- MODULE ProgramsProofs -----------------------------
(***************************************************************************)
(* Theorems of the programs of MCTools, for every value of its constants,  *)
(* but of the enrollment service, whose limiter is only model-checked.     *)
(* Each rests on an inductive invariant that stands in the module of its   *)
(* program (OperatorInv of Operator, and so on); the lemmas of a program   *)
(* say what its variables are called, and ToolsInv puts them together.     *)
(***************************************************************************)
EXTENDS MCTools, SequenceTheorems, TLAPS

-----------------------------------------------------------------------------
(* The operator service: its state is v1 to v7.                             *)

operatorVars == <<v1, v2, v3, v4, v5, v6, v7>>

LEMMA OperatorInit == Operators!Init => Operators!OperatorInv
  <1> DEFINE request == v1
             late == v3
             open == v4
             audit == v5
             effects == v7
  <1> SUFFICES ASSUME Operators!Init PROVE Operators!OperatorInv
    OBVIOUS
  <1>1. /\ request = [r \in Requests |-> [at |-> "idle", ask |-> Operators!NoAsk, answer |-> "none"]]
        /\ late = {} /\ effects = {} /\ open = <<>> /\ audit = <<>>
    BY DEF Operators!Init
  <1>2. \A r \in Requests : request[r] = [at |-> "idle", ask |-> Operators!NoAsk, answer |-> "none"]
    BY <1>1
  <1>3. request \in [Requests -> [at : Operators!Steps, ask : Operators!Asks \cup {Operators!NoAsk},
                                  answer : Operators!Answers]]
    BY <1>1 DEF Operators!Steps, Operators!Answers
  <1>4. \A r \in Requests : Operators!RequestInv(r)
    BY <1>1, <1>2 DEF Operators!RequestInv
  <1>5. open \in Seq(Operators!Rows) /\ audit \in Seq(Operators!Rows)
    BY <1>1
  <1>6. 1..Len(open) = {} /\ 1..Len(audit) = {}
    BY <1>1
  <1> QED
    BY <1>1, <1>2, <1>3, <1>4, <1>5, <1>6 DEF Operators!OperatorInv

\* A request that a step does not touch stays as it was.
LEMMA OtherRequest ==
  ASSUME NEW x, Operators!RequestInv(x), v1'[x] = v1[x],
         x \in v7' <=> x \in v7, x \in v3' <=> x \in v3
  PROVE  Operators!RequestInv(x)'
  BY DEF Operators!RequestInv, Operators!Ask, Operators!Allowed, Operators!HasScope

\* A row stays true while its request stays, or moves on from its commit.
LEMMA SameRow ==
  ASSUME NEW row, Operators!RowInv(row), v1'[row.request] = v1[row.request], v7 \subseteq v7'
  PROVE  Operators!RowInv(row)'
  BY DEF Operators!RowInv, Operators!Row

\* A step of one request before its row is written.
LEMMA EarlyStep ==
  ASSUME Operators!OperatorInv, NEW r \in Requests, NEW new \in
           [at : Operators!Steps, ask : Operators!Asks \cup {Operators!NoAsk},
            answer : Operators!Answers],
         v1' = [v1 EXCEPT ![r] = new], v4' = v4, v5' = v5,
         v3 \subseteq v3', v3' \subseteq v3 \cup {r}, v7 \subseteq v7', v7' \subseteq v7 \cup {r},
         v1[r].at \notin {"commit", "done"}, new.at # "commit",
         new.at = "done" => new.answer \notin Operators!Recorded,
         Operators!RequestInv(r)'
  PROVE  Operators!OperatorInv'
  <1> DEFINE request == v1
             late == v3
             open == v4
             audit == v5
             effects == v7
  <1>1. \A x \in Requests \ {r} : request'[x] = request[x]
    BY DEF Operators!OperatorInv
  <1>2. request'[r] = new
    BY DEF Operators!OperatorInv
  <1>3. \A x \in Requests : Operators!RequestInv(x)'
    <2> SUFFICES ASSUME NEW x \in Requests, x # r PROVE Operators!RequestInv(x)'
      OBVIOUS
    <2>1. Operators!RequestInv(x)
      BY DEF Operators!OperatorInv
    <2> QED
      BY <1>1, <2>1, OtherRequest
  <1>4. ASSUME NEW row \in Operators!Rows, Operators!RowInv(row) PROVE Operators!RowInv(row)'
    <2>1. row.request \in Requests /\ row.request # r
      BY <1>4 DEF Operators!Rows, Operators!RowInv
    <2> QED
      BY <1>1, <1>4, <2>1, SameRow
  <1>5. /\ \A i \in 1..Len(open) : open[i] \in Operators!Rows /\ Operators!RowInv(open[i])
        /\ \A i \in 1..Len(audit) : audit[i] \in Operators!Rows /\ Operators!RowInv(audit[i])
    BY DEF Operators!OperatorInv
  <1>6. /\ \A i \in 1..Len(open') : Operators!RowInv(open[i])'
        /\ \A i \in 1..Len(audit') : Operators!RowInv(audit[i])'
    <2>1. ASSUME NEW i \in 1..Len(open') PROVE Operators!RowInv(open[i])'
      <3> PICK row : row = open[i]
        OBVIOUS
      <3>1. Operators!RowInv(row)'
        BY <1>4, <1>5
      <3> QED
        BY <3>1 DEF Operators!RowInv, Operators!Row, Operators!Ask
    <2>2. ASSUME NEW i \in 1..Len(audit') PROVE Operators!RowInv(audit[i])'
      <3> PICK row : row = audit[i]
        OBVIOUS
      <3>1. Operators!RowInv(row)'
        BY <1>4, <1>5
      <3> QED
        BY <3>1 DEF Operators!RowInv, Operators!Row, Operators!Ask
    <2> QED
      BY <2>1, <2>2
  <1>7. request' \in [Requests -> [at : Operators!Steps, ask : Operators!Asks \cup {Operators!NoAsk},
                                   answer : Operators!Answers]]
    BY DEF Operators!OperatorInv
  <1>8. /\ \A x \in Requests : request'[x].at = "commit" =>
             \/ \E i \in 1..Len(open) : open[i].request = x
             \/ \E i \in 1..Len(audit) : audit[i].request = x
        /\ \A x \in Requests : request'[x].at = "done" /\ request'[x].answer \in Operators!Recorded =>
             \E i \in 1..Len(audit) : audit[i].request = x
    BY <1>1, <1>2 DEF Operators!OperatorInv
  <1> QED
    BY <1>3, <1>6, <1>7, <1>8 DEF Operators!OperatorInv

\* The steps of a request up to its INSERT.
LEMMA ArriveStep ==
  ASSUME Operators!OperatorInv, NEW r \in Requests, Operators!Arrive(r)
  PROVE  Operators!OperatorInv'
  <1>1. PICK ask \in Operators!Asks : v1' = [v1 EXCEPT ![r].at = "arrived", ![r].ask = ask]
    BY DEF Operators!Arrive
  <1> DEFINE new == [v1[r] EXCEPT !.at = "arrived", !.ask = ask]
  <1>2. v1[r] \in [at : Operators!Steps, ask : Operators!Asks \cup {Operators!NoAsk},
                   answer : Operators!Answers]
    BY DEF Operators!OperatorInv
  <1>3. v1' = [v1 EXCEPT ![r] = new]
    BY <1>1, <1>2 DEF Operators!OperatorInv
  <1>4. /\ new.at = "arrived" /\ new.answer = v1[r].answer /\ v1'[r] = new
        /\ new \in [at : Operators!Steps, ask : Operators!Asks \cup {Operators!NoAsk},
                    answer : Operators!Answers]
    BY <1>2, <1>3 DEF Operators!OperatorInv, Operators!Steps
  <1>5. v1[r].at = "idle" /\ v3' = v3 /\ v4' = v4 /\ v5' = v5 /\ v7' = v7
    BY DEF Operators!Arrive
  <1>6. v1[r].answer = "none" /\ r \notin v7 \cup v3
    BY <1>5 DEF Operators!OperatorInv, Operators!RequestInv
  <1> HIDE DEF new
  <1>7. Operators!RequestInv(r)'
    BY <1>4, <1>5, <1>6 DEF Operators!RequestInv
  <1> QED
    BY <1>3, <1>4, <1>5, <1>7, EarlyStep

LEMMA DispatchStep ==
  ASSUME Operators!OperatorInv, NEW r \in Requests, Operators!Dispatch(r)
  PROVE  Operators!OperatorInv'
  <1>1. /\ v1[r] \in [at : Operators!Steps, ask : Operators!Asks \cup {Operators!NoAsk},
                      answer : Operators!Answers]
        /\ v1[r].at = "arrived" /\ v3' = v3 /\ v4' = v4 /\ v5' = v5 /\ v7' = v7
    BY DEF Operators!OperatorInv, Operators!Dispatch
  <1>2. v1[r].answer = "none" /\ r \notin v7 \cup v3
    BY <1>1 DEF Operators!OperatorInv, Operators!RequestInv
  <1>3. ASSUME NEW answer \in {"unauthorized", "denied", "unknown"}, Operators!Answer(r, answer)
        PROVE  Operators!OperatorInv'
    <2> DEFINE new == [v1[r] EXCEPT !.at = "done", !.answer = answer]
    <2>1. v1' = [v1 EXCEPT ![r] = new]
      BY <1>1, <1>3 DEF Operators!Answer, Operators!OperatorInv
    <2>2. /\ new.at = "done" /\ new.answer = answer /\ v1'[r] = new
          /\ new \in [at : Operators!Steps, ask : Operators!Asks \cup {Operators!NoAsk},
                      answer : Operators!Answers]
      BY <1>1, <2>1 DEF Operators!OperatorInv, Operators!Steps, Operators!Answers
    <2> HIDE DEF new
    <2>3. Operators!RequestInv(r)'
      BY <1>1, <1>2, <2>2 DEF Operators!RequestInv
    <2>4. answer \notin Operators!Recorded
      BY DEF Operators!Recorded
    <2> QED
      BY <1>1, <2>1, <2>2, <2>3, <2>4, EarlyStep
  <1>4. ASSUME NEW step \in {"run", "forward"}, Operators!Goes(r, step),
               Operators!Ask(r).by # Operators!NoIdentity,
               step = "run" => /\ Operators!Ask(r).action \in Operators!Lifecycle
                               /\ Operators!HasScope(r, "lifecycle")
                               /\ Operators!Ask(r).target # Operators!Unknown,
               step = "forward" => Operators!Ask(r).action \in Operators!Control
        PROVE  Operators!OperatorInv'
    <2> DEFINE new == [v1[r] EXCEPT !.at = step]
    <2>1. v1' = [v1 EXCEPT ![r] = new]
      BY <1>1, <1>4 DEF Operators!Goes, Operators!OperatorInv
    <2>2. /\ new.at = step /\ new.answer = "none" /\ v1'[r] = new /\ new.ask = v1[r].ask
          /\ new \in [at : Operators!Steps, ask : Operators!Asks \cup {Operators!NoAsk},
                      answer : Operators!Answers]
      BY <1>1, <1>2, <2>1 DEF Operators!OperatorInv, Operators!Steps, Operators!Answers
    <2> HIDE DEF new
    <2>3. step = "run" => v1[r].ask.target \in Services
      BY <1>1, <1>4 DEF Operators!Ask, Operators!Asks, Operators!NoAsk
    <2>4. Operators!RequestInv(r)'
      BY <1>1, <1>2, <1>4, <2>2, <2>3 DEF Operators!RequestInv, Operators!Ask, Operators!Allowed, Operators!HasScope
    <2> QED
      BY <1>1, <2>1, <2>2, <2>4, EarlyStep
  <1> QED
    BY <1>3, <1>4 DEF Operators!Dispatch

LEMMA RunStep ==
  ASSUME Operators!OperatorInv, NEW r \in Requests, Operators!Run(r)
  PROVE  Operators!OperatorInv'
  <1>1. /\ v1[r] \in [at : Operators!Steps, ask : Operators!Asks \cup {Operators!NoAsk},
                      answer : Operators!Answers]
        /\ v1[r].at = "run" /\ v4' = v4 /\ v5' = v5
    BY DEF Operators!OperatorInv, Operators!Run
  <1>2. Operators!RequestInv(r)
    BY DEF Operators!OperatorInv
  <1>3. PICK answer \in Operators!Recorded :
          /\ v1' = [v1 EXCEPT ![r].at = "insert", ![r].answer = answer]
          /\ v3 \subseteq v3' /\ v3' \subseteq v3 \cup {r} /\ v7 \subseteq v7' /\ v7' \subseteq v7 \cup {r}
          /\ answer = "succeeded" => r \in v7'
    BY DEF Operators!Run, Operators!Recorded
  <1> DEFINE new == [v1[r] EXCEPT !.at = "insert", !.answer = answer]
  <1>4. v1' = [v1 EXCEPT ![r] = new]
    BY <1>1, <1>3 DEF Operators!OperatorInv
  <1>5. /\ new.at = "insert" /\ new.answer = answer /\ v1'[r] = new /\ new.ask = v1[r].ask
        /\ new \in [at : Operators!Steps, ask : Operators!Asks \cup {Operators!NoAsk},
                    answer : Operators!Answers]
    BY <1>1, <1>4 DEF Operators!OperatorInv, Operators!Steps, Operators!Answers, Operators!Recorded
  <1> HIDE DEF new
  <1>6. Operators!RequestInv(r)'
    BY <1>1, <1>2, <1>3, <1>5
       DEF Operators!RequestInv, Operators!Ask, Operators!Allowed, Operators!HasScope, Operators!Recorded
  <1> QED
    BY <1>1, <1>3, <1>4, <1>5, <1>6, EarlyStep

LEMMA ForwardStep ==
  ASSUME Operators!OperatorInv, NEW r \in Requests, Operators!Forward(r)
  PROVE  Operators!OperatorInv'
  <1>1. /\ v1[r] \in [at : Operators!Steps, ask : Operators!Asks \cup {Operators!NoAsk},
                      answer : Operators!Answers]
        /\ v1[r].at = "forward" /\ v3' = v3 /\ v4' = v4 /\ v5' = v5
    BY DEF Operators!OperatorInv, Operators!Forward
  <1>2. Operators!RequestInv(r)
    BY DEF Operators!OperatorInv
  <1>3. PICK answer \in {"accepted", "rejected"} :
          /\ v1' = [v1 EXCEPT ![r].at = "done", ![r].answer = answer]
          /\ v7 \subseteq v7' /\ v7' \subseteq v7 \cup {r}
          /\ r \in v7' => r \in v7 \/ Operators!HasScope(r, "control")
    BY DEF Operators!Forward, Operators!Answer
  <1> DEFINE new == [v1[r] EXCEPT !.at = "done", !.answer = answer]
  <1>4. v1' = [v1 EXCEPT ![r] = new]
    BY <1>1, <1>3 DEF Operators!OperatorInv
  <1>5. /\ new.at = "done" /\ new.answer = answer /\ v1'[r] = new /\ new.ask = v1[r].ask
        /\ new \in [at : Operators!Steps, ask : Operators!Asks \cup {Operators!NoAsk},
                    answer : Operators!Answers]
    BY <1>1, <1>4 DEF Operators!OperatorInv, Operators!Steps, Operators!Answers
  <1> HIDE DEF new
  <1>6. Operators!RequestInv(r)'
    BY <1>1, <1>2, <1>3, <1>5
       DEF Operators!RequestInv, Operators!Ask, Operators!Allowed, Operators!HasScope,
           Operators!Lifecycle, Operators!Control
  <1>7. answer \notin Operators!Recorded
    BY DEF Operators!Recorded
  <1> QED
    BY <1>1, <1>3, <1>4, <1>5, <1>6, <1>7, EarlyStep

\* A command that was given up has its effect after all.
LEMMA LateEffectStep ==
  ASSUME Operators!OperatorInv, NEW r \in Requests, Operators!LateEffect(r)
  PROVE  Operators!OperatorInv'
  <1>1. /\ r \in v3 /\ v3' = v3 \ {r} /\ v7' = v7 \cup {r} /\ v1' = v1 /\ v4' = v4 /\ v5' = v5
    BY DEF Operators!LateEffect
  <1>2. ASSUME NEW x \in Requests PROVE Operators!RequestInv(x)'
    <2>1. Operators!RequestInv(x)
      BY DEF Operators!OperatorInv
    <2>2. CASE x # r
      BY <1>1, <2>1, <2>2, OtherRequest
    <2>3. CASE x = r
      BY <1>1, <2>1, <2>3 DEF Operators!RequestInv, Operators!Ask, Operators!Allowed, Operators!HasScope
    <2> QED
      BY <2>2, <2>3
  <1>3. \A row : Operators!RowInv(row) => Operators!RowInv(row)'
    BY <1>1, SameRow
  <1> QED
    BY <1>1, <1>2, <1>3 DEF Operators!OperatorInv, Operators!RowInv, Operators!Row, Operators!Ask

\* The INSERT joins whatever transaction is open.
LEMMA InsertStep ==
  ASSUME Operators!OperatorInv, NEW r \in Requests, Operators!Insert(r)
  PROVE  Operators!OperatorInv'
  <1> DEFINE request == v1
             open == v4
             audit == v5
             effects == v7
  <1>1. /\ request[r] \in [at : Operators!Steps, ask : Operators!Asks \cup {Operators!NoAsk},
                           answer : Operators!Answers]
        /\ request[r].at = "insert" /\ v3' = v3 /\ audit' = audit /\ effects' = effects
    BY DEF Operators!OperatorInv, Operators!Insert
  <1>2. Operators!RequestInv(r)
    BY DEF Operators!OperatorInv
  <1>3. CASE open' = open /\ Operators!Answer(r, "error")
    <2> DEFINE new == [request[r] EXCEPT !.at = "done", !.answer = "error"]
    <2>1. request' = [request EXCEPT ![r] = new]
      BY <1>1, <1>3 DEF Operators!OperatorInv, Operators!Answer
    <2>2. /\ new.at = "done" /\ new.answer = "error" /\ request'[r] = new /\ new.ask = request[r].ask
          /\ new \in [at : Operators!Steps, ask : Operators!Asks \cup {Operators!NoAsk},
                      answer : Operators!Answers]
      BY <1>1, <2>1 DEF Operators!OperatorInv, Operators!Steps, Operators!Answers
    <2> HIDE DEF new
    <2>3. Operators!RequestInv(r)'
      BY <1>1, <1>2, <2>2 DEF Operators!RequestInv, Operators!Ask, Operators!Allowed, Operators!HasScope
    <2>4. "error" \notin Operators!Recorded
      BY DEF Operators!Recorded
    <2> QED
      BY <1>1, <1>3, <2>1, <2>2, <2>3, <2>4, EarlyStep
  <1>4. CASE open' = Append(open, Operators!Row(r)) /\ Operators!Goes(r, "commit")
    <2>1. PICK row : row = Operators!Row(r)
      OBVIOUS
    <2>2. /\ request'[r].at = "commit" /\ request'[r].ask = request[r].ask
          /\ request'[r].answer = request[r].answer
          /\ \A x \in Requests \ {r} : request'[x] = request[x]
          /\ request' \in [Requests -> [at : Operators!Steps, ask : Operators!Asks \cup {Operators!NoAsk},
                                        answer : Operators!Answers]]
      <3> DEFINE new == [request[r] EXCEPT !.at = "commit"]
      <3>1. request' = [request EXCEPT ![r] = new]
        BY <1>1, <1>4 DEF Operators!OperatorInv, Operators!Goes
      <3>2. /\ new.at = "commit" /\ new.ask = request[r].ask /\ new.answer = request[r].answer
            /\ new \in [at : Operators!Steps, ask : Operators!Asks \cup {Operators!NoAsk},
                        answer : Operators!Answers]
        BY <1>1 DEF Operators!Steps
      <3> HIDE DEF new
      <3> QED
        BY <3>1, <3>2 DEF Operators!OperatorInv
    <2>3. row \in Operators!Rows /\ row.request = r
      BY <1>1, <1>2, <2>1 DEF Operators!Row, Operators!Rows, Operators!RequestInv, Operators!Ask
    <2>4. (Operators!Row(r) = row)'
      BY <2>1, <2>2 DEF Operators!Row, Operators!Ask
    <2>5. Operators!RowInv(row)'
      BY <1>1, <1>2, <2>1, <2>2, <2>3, <2>4
         DEF Operators!RowInv, Operators!RequestInv, Operators!Row, Operators!Ask
    <2>6. ASSUME NEW old \in Operators!Rows, Operators!RowInv(old)
          PROVE  old.request # r /\ Operators!RowInv(old)'
      <3>1. old.request \in Requests /\ old.request # r
        BY <1>1, <2>6 DEF Operators!Rows, Operators!RowInv
      <3> QED
        BY <1>1, <2>2, <2>6, <3>1, SameRow
    <2>7. /\ open \in Seq(Operators!Rows) /\ audit \in Seq(Operators!Rows)
          /\ \A i \in 1..Len(open) : Operators!RowInv(open[i])
          /\ \A i \in 1..Len(audit) : Operators!RowInv(audit[i])
      BY DEF Operators!OperatorInv
    <2>8. /\ \A i \in 1..Len(open) : open[i].request # r
          /\ \A i \in 1..Len(audit) : audit[i].request # r
      BY <2>6, <2>7
    <2>9. /\ open' \in Seq(Operators!Rows) /\ Len(open') = Len(open) + 1 /\ Len(open) \in Nat
          /\ open'[Len(open) + 1] = row /\ \A i \in 1..Len(open) : open'[i] = open[i]
      BY <1>4, <2>1, <2>3, <2>7
    <2>10. \A i \in 1..Len(open') : i \in 1..Len(open) \/ i = Len(open) + 1
      BY <2>9
    <2>11. ASSUME NEW i \in 1..Len(open') PROVE Operators!RowInv(open[i])'
      <3>1. CASE i = Len(open) + 1
        <4> PICK it : it = open'[i]
          OBVIOUS
        <4>1. Operators!RowInv(it)'
          BY <2>5, <2>9, <3>1
        <4> QED
          BY <4>1 DEF Operators!RowInv, Operators!Row, Operators!Ask
      <3>2. CASE i \in 1..Len(open)
        <4> PICK it : it = open'[i]
          OBVIOUS
        <4>1. it = open[i] /\ open[i] \in Operators!Rows /\ Operators!RowInv(open[i])
          BY <2>7, <2>9, <3>2
        <4>2. Operators!RowInv(it)'
          BY <2>6, <4>1
        <4> QED
          BY <4>2 DEF Operators!RowInv, Operators!Row, Operators!Ask
      <3> QED
        BY <2>10, <3>1, <3>2
    <2>12. ASSUME NEW i \in 1..Len(audit) PROVE Operators!RowInv(audit[i])'
      <3> PICK it : it = audit[i]
        OBVIOUS
      <3>1. it \in Operators!Rows /\ Operators!RowInv(it)
        BY <2>7
      <3>2. Operators!RowInv(it)'
        BY <2>6, <3>1
      <3> QED
        BY <1>1, <3>2 DEF Operators!RowInv, Operators!Row, Operators!Ask
    <2>13. ASSUME NEW x \in Requests PROVE Operators!RequestInv(x)'
      <3>1. Operators!RequestInv(x)
        BY DEF Operators!OperatorInv
      <3>2. CASE x # r
        BY <1>1, <2>2, <3>1, <3>2, OtherRequest
      <3>3. CASE x = r
        BY <1>1, <1>2, <2>2, <3>3
           DEF Operators!RequestInv, Operators!Ask, Operators!Allowed, Operators!HasScope
      <3> QED
        BY <3>2, <3>3
    <2>14. /\ \A i, j \in 1..Len(open) : open[i].request = open[j].request => i = j
           /\ \A i \in 1..Len(open), j \in 1..Len(audit) : open[i].request # audit[j].request
      BY DEF Operators!OperatorInv
    <2>15. \A i, j \in 1..Len(open') : open'[i].request = open'[j].request => i = j
      BY <2>3, <2>8, <2>9, <2>10, <2>14
    <2>16. \A i \in 1..Len(open'), j \in 1..Len(audit) : open'[i].request # audit[j].request
      BY <2>3, <2>8, <2>9, <2>10, <2>14
    <2>17. \A x \in Requests : request'[x].at = "commit" =>
             \/ \E i \in 1..Len(open') : open'[i].request = x
             \/ \E i \in 1..Len(audit) : audit[i].request = x
      <3> SUFFICES ASSUME NEW x \in Requests, request'[x].at = "commit",
                          ~\E i \in 1..Len(audit) : audit[i].request = x
                   PROVE  \E i \in 1..Len(open') : open'[i].request = x
        OBVIOUS
      <3>1. CASE x = r
        <4>1. Len(open) + 1 \in 1..Len(open')
          BY <2>9
        <4> QED
          BY <2>3, <2>9, <3>1, <4>1
      <3>2. CASE x # r
        <4>1. request[x].at = "commit"
          BY <2>2, <3>2
        <4>2. PICK i \in 1..Len(open) : open[i].request = x
          BY <4>1 DEF Operators!OperatorInv
        <4> QED
          BY <2>9, <4>2
      <3> QED
        BY <3>1, <3>2
    <2>18. \A x \in Requests : request'[x].at = "done" /\ request'[x].answer \in Operators!Recorded =>
             \E i \in 1..Len(audit) : audit[i].request = x
      BY <2>2 DEF Operators!OperatorInv
    <2>19. \A i, j \in 1..Len(audit) : audit[i].request = audit[j].request => i = j
      BY DEF Operators!OperatorInv
    <2> QED
      BY SMTT(40), <1>1, <2>2, <2>7, <2>9, <2>11, <2>12, <2>13, <2>15, <2>16, <2>17, <2>18, <2>19
         DEF Operators!OperatorInv
  <1> QED
    BY <1>3, <1>4 DEF Operators!Insert

\* A commit takes the rows of all threads to the audit log; one that fails leaves them.
LEMMA CommitStep ==
  ASSUME Operators!OperatorInv, NEW r \in Requests, Operators!Commit(r)
  PROVE  Operators!OperatorInv'
  <1> DEFINE request == v1
             open == v4
             audit == v5
             effects == v7
  <1>1. /\ request[r] \in [at : Operators!Steps, ask : Operators!Asks \cup {Operators!NoAsk},
                           answer : Operators!Answers]
        /\ request[r].at = "commit" /\ v3' = v3 /\ effects' = effects
    BY DEF Operators!OperatorInv, Operators!Commit
  <1>2. Operators!RequestInv(r) /\ request[r].answer \in Operators!Recorded
    BY <1>1 DEF Operators!OperatorInv, Operators!RequestInv
  <1>3. PICK answer :
          /\ request' = [request EXCEPT ![r].at = "done", ![r].answer = answer]
          /\ \/ answer = request[r].answer /\ audit' = audit \o open /\ open' = <<>>
             \/ answer = "error" /\ audit' = audit /\ open' = open
    BY DEF Operators!Commit, Operators!Answer
  <1>4. /\ request'[r].at = "done" /\ request'[r].ask = request[r].ask
        /\ request'[r].answer = answer
        /\ \A x \in Requests \ {r} : request'[x] = request[x]
        /\ request' \in [Requests -> [at : Operators!Steps, ask : Operators!Asks \cup {Operators!NoAsk},
                                      answer : Operators!Answers]]
    <2> DEFINE new == [request[r] EXCEPT !.at = "done", !.answer = answer]
    <2>1. request' = [request EXCEPT ![r] = new]
      BY <1>1, <1>3 DEF Operators!OperatorInv
    <2>2. answer \in Operators!Answers
      BY <1>1, <1>3 DEF Operators!Answers
    <2>3. /\ new.at = "done" /\ new.ask = request[r].ask /\ new.answer = answer
          /\ new \in [at : Operators!Steps, ask : Operators!Asks \cup {Operators!NoAsk},
                      answer : Operators!Answers]
      BY <1>1, <2>2 DEF Operators!Steps
    <2> HIDE DEF new
    <2> QED
      BY SMTT(40), <2>1, <2>3 DEF Operators!OperatorInv
  <1>5. ASSUME NEW x \in Requests PROVE Operators!RequestInv(x)'
    <2>1. Operators!RequestInv(x)
      BY DEF Operators!OperatorInv
    <2>2. CASE x # r
      BY <1>1, <1>4, <2>1, <2>2, OtherRequest
    <2>3. CASE x = r
      BY <1>1, <1>2, <1>3, <1>4, <2>3
         DEF Operators!RequestInv, Operators!Ask, Operators!Allowed, Operators!HasScope, Operators!Recorded
    <2> QED
      BY <2>2, <2>3
  <1>6. ASSUME NEW row \in Operators!Rows, Operators!RowInv(row) PROVE Operators!RowInv(row)'
    <2>1. row.request \in Requests
      BY DEF Operators!Rows
    <2>2. CASE row.request # r
      BY <1>1, <1>4, <1>6, <2>1, <2>2, SameRow
    <2>3. CASE row.request = r
      <3>1. CASE answer = "error"
        BY <1>1, <1>4, <1>6, <2>3, <3>1 DEF Operators!RowInv, Operators!Recorded
      <3>2. CASE answer = request[r].answer
        <4>1. Operators!Row(r)' = Operators!Row(r)
          BY <1>4, <3>2 DEF Operators!Row, Operators!Ask
        <4> QED
          BY <1>1, <1>2, <1>4, <1>6, <2>3, <3>2, <4>1 DEF Operators!RowInv
      <3> QED
        BY <1>3, <3>1, <3>2
    <2> QED
      BY <2>2, <2>3
  <1>7. /\ open \in Seq(Operators!Rows) /\ audit \in Seq(Operators!Rows)
        /\ \A i \in 1..Len(open) : Operators!RowInv(open[i])
        /\ \A i \in 1..Len(audit) : Operators!RowInv(audit[i])
        /\ \A i, j \in 1..Len(open) : open[i].request = open[j].request => i = j
        /\ \A i, j \in 1..Len(audit) : audit[i].request = audit[j].request => i = j
        /\ \A i \in 1..Len(open), j \in 1..Len(audit) : open[i].request # audit[j].request
        /\ \A x \in Requests : request[x].at = "commit" =>
             \/ \E i \in 1..Len(open) : open[i].request = x
             \/ \E i \in 1..Len(audit) : audit[i].request = x
        /\ \A x \in Requests : request[x].at = "done" /\ request[x].answer \in Operators!Recorded =>
             \E i \in 1..Len(audit) : audit[i].request = x
    BY DEF Operators!OperatorInv
  <1>8. CASE answer = "error" /\ audit' = audit /\ open' = open
    <2>1. ASSUME NEW i \in 1..Len(open') PROVE Operators!RowInv(open[i])'
      <3> PICK row : row = open'[i]
        OBVIOUS
      <3>1. row \in Operators!Rows /\ Operators!RowInv(row)
        BY <1>7, <1>8
      <3>2. Operators!RowInv(row)'
        BY <1>6, <3>1
      <3> QED
        BY <3>2 DEF Operators!RowInv, Operators!Row, Operators!Ask
    <2>2. ASSUME NEW i \in 1..Len(audit') PROVE Operators!RowInv(audit[i])'
      <3> PICK row : row = audit'[i]
        OBVIOUS
      <3>1. row \in Operators!Rows /\ Operators!RowInv(row)
        BY <1>7, <1>8
      <3>2. Operators!RowInv(row)'
        BY <1>6, <3>1
      <3> QED
        BY <3>2 DEF Operators!RowInv, Operators!Row, Operators!Ask
    <2>3. /\ \A x \in Requests : request'[x].at = "commit" =>
                \/ \E i \in 1..Len(open') : open'[i].request = x
                \/ \E i \in 1..Len(audit') : audit'[i].request = x
          /\ \A x \in Requests : request'[x].at = "done" /\ request'[x].answer \in Operators!Recorded =>
               \E i \in 1..Len(audit') : audit'[i].request = x
      BY <1>4, <1>7, <1>8 DEF Operators!Recorded
    <2>4. v3' \subseteq Requests /\ effects' \subseteq Requests
      BY <1>1 DEF Operators!OperatorInv
    <2>5. /\ open' \in Seq(Operators!Rows) /\ audit' \in Seq(Operators!Rows)
          /\ \A i, j \in 1..Len(open') : open'[i].request = open'[j].request => i = j
          /\ \A i, j \in 1..Len(audit') : audit'[i].request = audit'[j].request => i = j
          /\ \A i \in 1..Len(open'), j \in 1..Len(audit') : open'[i].request # audit'[j].request
      BY <1>7, <1>8
    <2> QED
      BY SMTT(40), <1>4, <1>5, <2>1, <2>2, <2>3, <2>4, <2>5 DEF Operators!OperatorInv
  <1>9. CASE answer = request[r].answer /\ audit' = audit \o open /\ open' = <<>>
    <2>1. /\ audit' \in Seq(Operators!Rows) /\ Len(audit') = Len(audit) + Len(open)
          /\ Len(audit) \in Nat /\ Len(open) \in Nat
          /\ \A i \in 1..Len(audit) : audit'[i] = audit[i]
          /\ \A i \in (Len(audit) + 1)..(Len(audit) + Len(open)) : audit'[i] = open[i - Len(audit)]
      BY <1>7, <1>9, ConcatProperties, LenProperties
    <2>2. ASSUME NEW i \in 1..Len(audit'), i \notin 1..Len(audit)
          PROVE  /\ i - Len(audit) \in 1..Len(open) /\ audit'[i] = open[i - Len(audit)]
                 /\ i \in Nat
      BY <2>1, <2>2
    <2>3. ASSUME NEW i \in 1..Len(audit') PROVE Operators!RowInv(audit[i])'
      <3> PICK row : row = audit'[i]
        OBVIOUS
      <3>1. row \in Operators!Rows /\ Operators!RowInv(row)
        <4>1. CASE i \in 1..Len(audit)
          BY <1>7, <2>1, <4>1
        <4>2. CASE i \notin 1..Len(audit)
          BY <1>7, <2>2, <4>2
        <4> QED
          BY <4>1, <4>2
      <3>2. Operators!RowInv(row)'
        BY <1>6, <3>1
      <3> QED
        BY <3>2 DEF Operators!RowInv, Operators!Row, Operators!Ask
    <2>4. ASSUME NEW i \in 1..Len(audit'), NEW j \in 1..Len(audit'),
                 audit'[i].request = audit'[j].request
          PROVE  i = j
      <3>1. CASE i \in 1..Len(audit) /\ j \in 1..Len(audit)
        BY <1>7, <2>1, <2>4, <3>1
      <3>2. CASE i \in 1..Len(audit) /\ j \notin 1..Len(audit)
        <4> PICK k : k = j - Len(audit)
          OBVIOUS
        <4>1. k \in 1..Len(open) /\ audit'[j] = open[k]
          BY <2>2, <3>2
        <4>2. audit'[i] = audit[i] /\ open[k].request # audit[i].request
          BY <1>7, <2>1, <3>2, <4>1
        <4> QED
          BY <2>4, <4>1, <4>2
      <3>3. CASE i \notin 1..Len(audit) /\ j \in 1..Len(audit)
        <4> PICK k : k = i - Len(audit)
          OBVIOUS
        <4>1. k \in 1..Len(open) /\ audit'[i] = open[k]
          BY <2>2, <3>3
        <4>2. audit'[j] = audit[j] /\ open[k].request # audit[j].request
          BY <1>7, <2>1, <3>3, <4>1
        <4> QED
          BY <2>4, <4>1, <4>2
      <3>4. CASE i \notin 1..Len(audit) /\ j \notin 1..Len(audit)
        <4> PICK k, l : k = i - Len(audit) /\ l = j - Len(audit)
          OBVIOUS
        <4>1. /\ k \in 1..Len(open) /\ audit'[i] = open[k]
              /\ l \in 1..Len(open) /\ audit'[j] = open[l]
          BY <2>2, <3>4
        <4>2. k = l
          BY <1>7, <2>4, <4>1
        <4>3. i \in Nat /\ j \in Nat /\ Len(audit) \in Nat
          BY <2>1
        <4> QED
          BY <4>2, <4>3
      <3> QED
        BY <3>1, <3>2, <3>3, <3>4
    <2>5. ASSUME NEW x, \/ \E i \in 1..Len(open) : open[i].request = x
                        \/ \E i \in 1..Len(audit) : audit[i].request = x
          PROVE  \E i \in 1..Len(audit') : audit'[i].request = x
      <3>1. CASE \E i \in 1..Len(audit) : audit[i].request = x
        <4> PICK i \in 1..Len(audit) : audit[i].request = x
          BY <3>1
        <4>1. i \in 1..Len(audit') /\ audit'[i].request = x
          BY <2>1
        <4> QED
          BY <4>1
      <3>2. CASE \E i \in 1..Len(open) : open[i].request = x
        <4> PICK i \in 1..Len(open) : open[i].request = x
          BY <3>2
        <4>1. /\ Len(audit) + i \in (Len(audit) + 1)..(Len(audit) + Len(open))
              /\ Len(audit) + i \in 1..Len(audit') /\ (Len(audit) + i) - Len(audit) = i
          BY <2>1
        <4>2. audit'[Len(audit) + i] = open[(Len(audit) + i) - Len(audit)]
          BY <2>1, <4>1
        <4>3. audit'[Len(audit) + i].request = x
          BY <4>1, <4>2
        <4> QED
          BY <4>1, <4>3
      <3> QED
        BY <2>5, <3>1, <3>2
    <2>6. ASSUME NEW x \in Requests, request'[x].at \in {"commit", "done"},
                 request'[x].at = "done" => request'[x].answer \in Operators!Recorded
          PROVE  \E i \in 1..Len(audit') : audit'[i].request = x
      <3>1. \/ request[x].at = "commit"
            \/ request[x].at = "done" /\ request[x].answer \in Operators!Recorded
        BY <1>1, <1>4, <2>6
      <3> QED
        BY <1>7, <2>5, <3>1
    <2>7. open' \in Seq(Operators!Rows) /\ Len(open') = 0 /\ 1..Len(open') = {}
      BY <1>9
    <2>8. v3' \subseteq Requests /\ effects' \subseteq Requests
      BY <1>1 DEF Operators!OperatorInv
    <2> QED
      BY SMTT(40), <1>4, <1>5, <2>1, <2>3, <2>4, <2>6, <2>7, <2>8 DEF Operators!OperatorInv
  <1> QED
    BY <1>3, <1>8, <1>9

\* A crash loses the open transaction; who was waiting for it is told of an error.
LEMMA CrashStep ==
  ASSUME Operators!OperatorInv, Operators!Crash
  PROVE  Operators!OperatorInv'
  <1> DEFINE request == v1
             open == v4
             audit == v5
             effects == v7
             Kept(x) == request[x].at \in {"idle", "done"}
  <1>1. /\ audit' = audit /\ effects' = effects /\ v3 \subseteq v3'
        /\ v3' \subseteq {x \in Requests : request[x].at = "run"} \cup v3 /\ open' = <<>>
    BY DEF Operators!Crash
  <1>2. \A x \in Requests : request[x] \in [at : Operators!Steps,
                              ask : Operators!Asks \cup {Operators!NoAsk}, answer : Operators!Answers]
    BY DEF Operators!OperatorInv
  <1>3. \A x \in Requests :
          /\ Kept(x) => request'[x] = request[x]
          /\ ~Kept(x) => /\ request'[x].at = "done" /\ request'[x].answer = "error"
                         /\ request'[x].ask = request[x].ask
    BY <1>2 DEF Operators!Crash
  <1>4. request' \in [Requests -> [at : Operators!Steps, ask : Operators!Asks \cup {Operators!NoAsk},
                                   answer : Operators!Answers]]
    <2>1. ASSUME NEW x \in Requests
          PROVE  [request[x] EXCEPT !.at = "done", !.answer = "error"]
                   \in [at : Operators!Steps, ask : Operators!Asks \cup {Operators!NoAsk},
                        answer : Operators!Answers]
      BY <1>2 DEF Operators!Steps, Operators!Answers
    <2> QED
      BY <1>2, <2>1 DEF Operators!Crash
  <1>5. ASSUME NEW x \in Requests PROVE Operators!RequestInv(x)'
    <2>1. Operators!RequestInv(x)
      BY DEF Operators!OperatorInv
    <2>2. CASE Kept(x)
      <3>1. x \in v3' <=> x \in v3
        BY <1>1, <2>2
      <3> QED
        BY <1>1, <1>3, <2>1, <2>2, <3>1, OtherRequest
    <2>3. CASE ~Kept(x)
      <3>1. x \in v7' \cup v3' => Operators!Allowed(x)
        BY <1>1, <2>1 DEF Operators!RequestInv
      <3> QED
        BY <1>3, <2>3, <3>1
           DEF Operators!RequestInv, Operators!Ask, Operators!Allowed, Operators!HasScope
    <2> QED
      BY <2>2, <2>3
  <1>6. ASSUME NEW row \in Operators!Rows, Operators!RowInv(row) PROVE Operators!RowInv(row)'
    <2>1. row.request \in Requests
      BY DEF Operators!Rows
    <2>2. CASE Kept(row.request)
      BY <1>1, <1>3, <1>6, <2>1, <2>2, SameRow
    <2>3. CASE ~Kept(row.request)
      BY <1>1, <1>3, <1>6, <2>1, <2>3 DEF Operators!RowInv, Operators!Recorded
    <2> QED
      BY <2>2, <2>3
  <1>7. /\ audit \in Seq(Operators!Rows)
        /\ \A i \in 1..Len(audit) : Operators!RowInv(audit[i])
        /\ \A i, j \in 1..Len(audit) : audit[i].request = audit[j].request => i = j
        /\ \A x \in Requests : request[x].at = "done" /\ request[x].answer \in Operators!Recorded =>
             \E i \in 1..Len(audit) : audit[i].request = x
    BY DEF Operators!OperatorInv
  <1>8. ASSUME NEW i \in 1..Len(audit') PROVE Operators!RowInv(audit[i])'
    <2> PICK row : row = audit'[i]
      OBVIOUS
    <2>1. row \in Operators!Rows /\ Operators!RowInv(row)
      BY <1>1, <1>7
    <2>2. Operators!RowInv(row)'
      BY <1>6, <2>1
    <2> QED
      BY <2>2 DEF Operators!RowInv, Operators!Row, Operators!Ask
  <1>9. \A x \in Requests :
          /\ request'[x].at # "commit"
          /\ request'[x].answer \in Operators!Recorded => Kept(x)
    BY <1>3 DEF Operators!Recorded
  <1>10. \A x \in Requests : request'[x].at = "done" /\ request'[x].answer \in Operators!Recorded =>
           \E i \in 1..Len(audit') : audit'[i].request = x
    BY <1>1, <1>3, <1>7, <1>9
  <1>11. /\ open' \in Seq(Operators!Rows) /\ 1..Len(open') = {}
         /\ v3' \subseteq Requests /\ effects' \subseteq Requests
    BY <1>1 DEF Operators!OperatorInv
  <1> HIDE DEF Kept
  <1> QED
    BY <1>1, <1>4, <1>5, <1>7, <1>8, <1>9, <1>10, <1>11 DEF Operators!OperatorInv

LEMMA OperatorStep ==
  ASSUME Operators!OperatorInv, [Operators!Next]_operatorVars PROVE Operators!OperatorInv'
  <1>1. CASE UNCHANGED operatorVars
    BY <1>1 DEF operatorVars, Operators!OperatorInv, Operators!RequestInv, Operators!RowInv,
                Operators!Row, Operators!Ask, Operators!Allowed, Operators!HasScope
  <1>2. CASE Operators!Next
    BY <1>2, ArriveStep, DispatchStep, RunStep, LateEffectStep, InsertStep, CommitStep,
       ForwardStep, CrashStep
       DEF Operators!Next
  <1> QED
    BY <1>1, <1>2

LEMMA OperatorTells ==
  ASSUME Operators!OperatorInv
  PROVE  Operators!AnsweredIsAudited /\ Operators!AuditIsTrue /\ Operators!EffectsAreAllowed
  <1> DEFINE request == v1
             audit == v5
  <1>1. /\ DOMAIN audit = 1..Len(audit)
        /\ \A i \in 1..Len(audit) : audit[i] \in Operators!Rows /\ Operators!RowInv(audit[i])
        /\ \A i, j \in 1..Len(audit) : audit[i].request = audit[j].request => i = j
        /\ \A r \in Requests : Operators!RequestInv(r)
        /\ \A r \in Requests : request[r].at = "done" /\ request[r].answer \in Operators!Recorded =>
             \E i \in 1..Len(audit) : audit[i].request = r
        /\ v7 \cup v3 \subseteq Requests
    BY DEF Operators!OperatorInv
  <1>2. Operators!AnsweredIsAudited
    <2> SUFFICES ASSUME NEW r \in Requests, request[r].at = "done",
                        request[r].answer \in {"succeeded", "failed"}
                 PROVE  \E i \in Operators!RowsOf(r) : /\ Operators!RowsOf(r) = {i}
                                                       /\ audit[i] = Operators!Row(r)
      BY DEF Operators!AnsweredIsAudited
    <2> PICK i \in 1..Len(audit) : audit[i].request = r
      BY <1>1 DEF Operators!Recorded
    <2>1. i \in Operators!RowsOf(r) /\ Operators!RowsOf(r) = {i}
      BY <1>1 DEF Operators!RowsOf
    <2>2. audit[i] = Operators!Row(r)
      BY <1>1 DEF Operators!RowInv, Operators!Recorded
    <2> QED
      BY <2>1, <2>2
  <1>3. Operators!AuditIsTrue
    <2>1. \A i \in DOMAIN audit : audit[i].outcome = "succeeded" => audit[i].request \in v7
      BY <1>1 DEF Operators!RowInv
    <2>2. ASSUME NEW r \in Requests, request[r].answer \in {"unauthorized", "denied", "unknown"}
          PROVE  r \notin v7 \cup v3 /\ Operators!RowsOf(r) = {}
      <3>1. r \notin v7 \cup v3
        BY <1>1, <2>2 DEF Operators!RequestInv
      <3>2. ASSUME NEW i \in 1..Len(audit), audit[i].request = r PROVE FALSE
        BY <1>1, <2>2, <3>2 DEF Operators!RowInv, Operators!Recorded
      <3> QED
        BY <1>1, <3>1, <3>2 DEF Operators!RowsOf
    <2> QED
      BY <2>1, <2>2 DEF Operators!AuditIsTrue
  <1>4. Operators!EffectsAreAllowed
    BY <1>1 DEF Operators!EffectsAreAllowed, Operators!RequestInv, Operators!Allowed
  <1> QED
    BY <1>2, <1>3, <1>4

\* A commit appends what is open, and nothing else touches the rows.
LEMMA OperatorKeepsRows ==
  ASSUME Operators!OperatorInv, [Operators!Next]_operatorVars PROVE Operators!OperatorAppends
  <1>1. v5 \in Seq(Operators!Rows) /\ v4 \in Seq(Operators!Rows)
    BY DEF Operators!OperatorInv
  <1>2. v5' = v5 \/ v5' = v5 \o v4
    <2>1. CASE UNCHANGED operatorVars
      BY <2>1 DEF operatorVars
    <2>2. CASE Operators!Crash
      BY <2>2 DEF Operators!Crash
    <2>3. ASSUME NEW r \in Requests,
                 Operators!Arrive(r) \/ Operators!Dispatch(r) \/ Operators!Run(r)
                   \/ Operators!LateEffect(r) \/ Operators!Insert(r) \/ Operators!Commit(r)
                   \/ Operators!Forward(r)
          PROVE  v5' = v5 \/ v5' = v5 \o v4
      BY <2>3 DEF Operators!Arrive, Operators!Dispatch, Operators!Run, Operators!LateEffect,
                  Operators!Insert, Operators!Commit, Operators!Forward
    <2> QED
      BY <2>1, <2>2, <2>3 DEF Operators!Next
  <1>3. CASE v5' = v5
    BY <1>1, <1>3 DEF Operators!OperatorAppends, Operators!IsPrefix
  <1>4. CASE v5' = v5 \o v4
    <2>1. /\ Len(v5) \in Nat /\ Len(v4) \in Nat /\ Len(v5') = Len(v5) + Len(v4)
          /\ \A i \in 1..Len(v5) : v5'[i] = v5[i]
      BY <1>1, <1>4
    <2>2. v5' \in Seq(Operators!Rows)
      BY <1>1, <1>4
    <2>3. SubSeq(v5, 1, Len(v5)) = SubSeq(v5', 1, Len(v5))
      BY <1>1, <2>1, <2>2
    <2> QED
      BY <2>1, <2>3 DEF Operators!OperatorAppends, Operators!IsPrefix
  <1> QED
    BY <1>2, <1>3, <1>4

-----------------------------------------------------------------------------
(* The macOS tools: tool, step, failing, report, output, temp, override,    *)
(* changed and tainted are v1 to v9.                                        *)

macVars == <<v1, v2, v3, v4, v5, v6, v7, v8, v9>>
MacReports == [passed : BOOLEAN, written : BOOLEAN, created : BOOLEAN, kept : BOOLEAN,
               native : BOOLEAN, isolated : BOOLEAN, admitted : BOOLEAN,
               receipts : SUBSET BOOLEAN, removed : BOOLEAN]

LEMMA MacInit == Mac!Init => Mac!MacInv
  <1> SUFFICES ASSUME Mac!Init PROVE Mac!MacInv
    OBVIOUS
  <1>1. /\ v1 \in {"package", "published", "admission"} /\ v2 = "diagnose" /\ v3 = FALSE
        /\ v4 \in MacReports /\ ~v4.passed /\ ~v4.native /\ ~v4.admitted /\ v4.receipts = {}
        /\ v5 \in Mac!Outputs /\ v5.owner \in {"none", "other"}
        /\ v6 = {} /\ v7 = FALSE /\ v8 = {} /\ v9 = FALSE
    <2>1. v4 \in MacReports /\ ~v4.passed /\ ~v4.native /\ ~v4.admitted /\ v4.receipts = {}
      BY DEF Mac!Init, MacReports
    <2>2. v5 \in Mac!Outputs /\ v5.owner \in {"none", "other"}
      <3>1. CASE v5 = Mac!NoOutput
        BY <3>1 DEF Mac!Outputs, Mac!NoOutput
      <3>2. CASE v5 = [Mac!NoOutput EXCEPT !.owner = "other"]
        BY <3>2 DEF Mac!Outputs, Mac!NoOutput
      <3> QED
        BY <3>1, <3>2 DEF Mac!Init
    <2> QED
      BY <2>1, <2>2 DEF Mac!Init
  <1> USE DEF Mac!Ending, Mac!Stages, Mac!Assembly, Mac!Building, Mac!Between
  <1>2. Mac!TypeOK /\ v7 \in BOOLEAN /\ v9 \in BOOLEAN
    BY <1>1 DEF Mac!TypeOK, MacReports
  <1>3. Mac!StepInv /\ Mac!TempInv
    BY <1>1 DEF Mac!StepInv, Mac!TempInv
  <1>4. Mac!OutputInv /\ Mac!AdmittedInv /\ Mac!VerdictInv
    BY <1>1 DEF Mac!OutputInv, Mac!AdmittedInv, Mac!VerdictInv
  <1> QED
    BY <1>2, <1>3, <1>4 DEF Mac!MacInv

\* A step of the work raises, and leaves everything to the scopes around it.
LEMMA MacRaise ==
  ASSUME Mac!MacInv, v2 \in Mac!Stages, Mac!Raise, v1' = v1, v4' = v4, v5' = v5, v6' = v6, v8' = v8,
         v7' \in {v7, FALSE}, v9' = v9
  PROVE  Mac!MacInv'
  <1>1. /\ v3' = TRUE /\ v2 # "diagnose"
        /\ \/ v2 \in Mac!Assembly /\ v2' = "inner_state"
           \/ v2 \notin Mac!Assembly /\ v2' = "outer_state"
    <2>1. v2 # "diagnose"
      BY DEF Mac!Stages, Mac!Assembly, Mac!Building, Mac!Between
    <2> QED
      BY <2>1 DEF Mac!Raise, Mac!Nearest, Mac!Stages
  <1>2. Mac!TypeOK' /\ v7' \in BOOLEAN /\ v9' \in BOOLEAN
    <2>1. v2' \in Mac!Leaving
      BY <1>1 DEF Mac!Leaving
    <2>2. Mac!TypeOK /\ v7 \in BOOLEAN /\ v9 \in BOOLEAN
      BY DEF Mac!MacInv
    <2>3. v7' \in BOOLEAN
      BY <2>2
    <2> QED
      BY <1>1, <2>1, <2>2, <2>3 DEF Mac!TypeOK
  <1> USE DEF Mac!Ending, Mac!Stages, Mac!Assembly, Mac!Building, Mac!Between
  <1>3. Mac!StepInv'
    BY <1>1 DEF Mac!MacInv, Mac!StepInv
  <1>4. Mac!TempInv'
    BY <1>1 DEF Mac!MacInv, Mac!TempInv
  <1>5. Mac!OutputInv'
    BY <1>1 DEF Mac!MacInv, Mac!OutputInv
  <1>6. Mac!AdmittedInv'
    BY <1>1 DEF Mac!MacInv, Mac!AdmittedInv
  <1>7. Mac!VerdictInv'
    BY <1>1 DEF Mac!MacInv, Mac!VerdictInv
  <1> QED
    BY <1>2, <1>3, <1>4, <1>5, <1>6, <1>7 DEF Mac!MacInv

\* A step of the work that comes through to another one of the same scope.
MacScopes == {Mac!Assembly, Mac!Building, {"manifest", "download", "assemble"}, {"import", "contact"}}

LEMMA MacGoesOn ==
  ASSUME Mac!MacInv, NEW C \in MacScopes, v2 \in C, v2' \in C, v2 # "last", v2' # "last",
         v2' \in {"stage", "publish"} => v4.native /\ ~v9',
         v1' = v1, v3' = v3, v4' = v4, v5' = v5, v6' = v6, v8' = v8,
         v7' = FALSE, v9' \in BOOLEAN, v9' => v9 \/ v8 # {},
         v1 = "admission" /\ v9' => v9 \/ v8 \cap {"editor", "sources"} # {}
  PROVE  Mac!MacInv'
  <1> USE DEF MacScopes
  <1>1. v2 \in Mac!Stages /\ v2' \in Mac!Stages
    BY DEF Mac!Stages, Mac!Between
  <1>2. Mac!TypeOK' /\ v7' \in BOOLEAN /\ v9' \in BOOLEAN
    BY <1>1 DEF Mac!MacInv, Mac!TypeOK
  <1> USE DEF Mac!Ending, Mac!Stages, Mac!Assembly, Mac!Building, Mac!Between
  <1>3. Mac!StepInv'
    BY <1>1 DEF Mac!MacInv, Mac!StepInv
  <1>4. Mac!TempInv'
    BY <1>1 DEF Mac!MacInv, Mac!TempInv
  <1>5. Mac!OutputInv'
    BY <1>1 DEF Mac!MacInv, Mac!OutputInv
  <1>6. Mac!AdmittedInv'
    BY <1>1 DEF Mac!MacInv, Mac!AdmittedInv
  <1>7. Mac!VerdictInv'
    BY <1>1 DEF Mac!MacInv, Mac!VerdictInv
  <1> QED
    BY <1>2, <1>3, <1>4, <1>5, <1>6, <1>7 DEF Mac!MacInv

LEMMA MacTries ==
  ASSUME Mac!MacInv, NEW C \in MacScopes, NEW here \in C, NEW next \in C, NEW uses, NEW checks,
         Mac!Try(here, uses, checks, next), Mac!Keeps, v4' = v4,
         here # "last", next # "last",
         next \in {"stage", "publish"} => v4.native /\ uses = {} /\ checks = Mac!Inputs,
         v1 = "admission" => uses \subseteq checks \cup {"editor", "sources"},
         v7' \in {v7, FALSE}, here \in {"preboot", "offline", "startup"} => v3' \/ v7' = FALSE,
         here # "probe"
  PROVE  Mac!MacInv'
  <1>1. v2 = here /\ v1' = v1 /\ v5' = v5 /\ v6' = v6 /\ v8' = v8 /\ v2 \in Mac!Stages
    BY DEF Mac!Try, Mac!Keeps, MacScopes, Mac!Stages, Mac!Between
  <1>2. CASE Mac!Raise /\ v9' = v9
    BY <1>1, <1>2, MacRaise
  <1>3. CASE /\ checks \cap v8 = {} /\ v2' = next /\ v3' = v3
             /\ v9' = (v9 \/ uses \cap v8 # {})
    <2>1. v3' = FALSE /\ (v7 = FALSE \/ here \in {"preboot", "offline", "startup"}) /\ v9 \in BOOLEAN
      BY <1>1, <1>3 DEF Mac!MacInv, Mac!StepInv, Mac!TypeOK
    <2>2. v7' = FALSE
      BY <2>1
    <2>3. v9' \in BOOLEAN /\ (v9' => v9 \/ v8 # {}) /\ (v1 = "admission" /\ v9' => v9 \/ v8 \cap {"editor", "sources"} # {})
      BY <1>3, <2>1
    <2>4. next \in {"stage", "publish"} => ~v9'
      BY <1>3, <2>1 DEF Mac!MacInv, Mac!AdmittedInv, Mac!TypeOK
    <2> QED
      BY <1>1, <1>3, <2>2, <2>3, <2>4, MacGoesOn
  <1> QED
    BY <1>2, <1>3 DEF Mac!Try

\* The start, with a failure or into the first scope.
LEMMA MacDiagnose ==
  ASSUME Mac!MacInv, NEW which, NEW next, v1 = which, v2 = "diagnose",
         <<which, next>> \in {<<"published", "manifest">>, <<"package", "export">>,
                                <<"admission", "import">>},
         UNCHANGED <<v1, v5, v7, v8, v9>>,
         \/ v2' = next /\ v3' = v3 /\ Mac!Enter("outer")
         \/ Mac!Raise /\ v4' = v4 /\ v6' = v6
  PROVE  Mac!MacInv'
  <1>1. /\ v3 = FALSE /\ v6 = {} /\ v4.receipts = {} /\ ~v4.passed /\ v4 \in MacReports
        /\ v5.owner # "ours" /\ ~v4.admitted /\ v7 = FALSE
    BY DEF Mac!MacInv, Mac!TypeOK, Mac!StepInv, Mac!TempInv, Mac!OutputInv, Mac!AdmittedInv,
           Mac!VerdictInv, MacReports
  <1>2. CASE v2' = next /\ v3' = v3 /\ Mac!Enter("outer")
    <2>1. /\ v4' \in MacReports /\ v4'.receipts = {} /\ ~v4'.passed /\ ~v4'.admitted
          /\ v4'.native = v4.native /\ v4'.isolated = v4.isolated /\ v6' = {"outer"}
      BY <1>1, <1>2 DEF Mac!Enter, MacReports
    <2> USE DEF Mac!Ending, Mac!Stages, Mac!Assembly, Mac!Building, Mac!Between
    <2>2. Mac!TypeOK' /\ v7' \in BOOLEAN /\ v9' \in BOOLEAN
      BY <1>2, <2>1 DEF Mac!MacInv, Mac!TypeOK, MacReports
    <2>3. Mac!StepInv' /\ Mac!TempInv'
      BY <1>1, <1>2, <2>1 DEF Mac!StepInv, Mac!TempInv
    <2>4. Mac!OutputInv' /\ Mac!VerdictInv'
      BY <1>1, <1>2, <2>1 DEF Mac!OutputInv, Mac!VerdictInv
    <2>5. Mac!AdmittedInv'
      BY <1>1, <1>2, <2>1 DEF Mac!MacInv, Mac!AdmittedInv
    <2> QED
      BY <2>2, <2>3, <2>4, <2>5 DEF Mac!MacInv
  <1>3. CASE Mac!Raise /\ v4' = v4 /\ v6' = v6
    <2>1. v2' = "write" /\ v3' = TRUE
      BY <1>3 DEF Mac!Raise, Mac!Nearest, Mac!Assembly, Mac!Building, Mac!Between
    <2> USE DEF Mac!Ending, Mac!Stages, Mac!Assembly, Mac!Building, Mac!Between
    <2>2. Mac!TypeOK' /\ v7' \in BOOLEAN /\ v9' \in BOOLEAN
      BY <1>3, <2>1 DEF Mac!MacInv, Mac!TypeOK, Mac!Leaving
    <2>3. Mac!StepInv' /\ Mac!TempInv'
      BY <1>1, <1>3, <2>1 DEF Mac!StepInv, Mac!TempInv
    <2>4. Mac!OutputInv' /\ Mac!VerdictInv'
      BY <1>1, <1>3, <2>1 DEF Mac!OutputInv, Mac!VerdictInv
    <2>5. Mac!AdmittedInv'
      BY <1>1, <1>3, <2>1 DEF Mac!MacInv, Mac!AdmittedInv
    <2> QED
      BY <2>2, <2>3, <2>4, <2>5 DEF Mac!MacInv
  <1> QED
    BY <1>2, <1>3

LEMMA MacDiagnoses ==
  ASSUME Mac!MacInv, Mac!DiagnosePublished \/ Mac!DiagnosePackage \/ Mac!DiagnoseAdmission
  PROVE  Mac!MacInv'
  BY MacDiagnose DEF Mac!DiagnosePublished, Mac!DiagnosePackage, Mac!DiagnoseAdmission,
                     Mac!Refuse, Mac!Diagnose

\* The steps that try something, and do no more.
LEMMA MacWork ==
  ASSUME Mac!MacInv,
         \/ Mac!FetchManifest \/ Mac!Download \/ Mac!Audit \/ Mac!Shell \/ Mac!Stage
         \/ Mac!Export \/ Mac!ColdImport
  PROVE  Mac!MacInv'
  <1> USE DEF MacScopes, Mac!Assembly, Mac!Building
  <1>1. v1 # "admission" \/ v2 \in {"import", "contact"} \/ v2 \notin Mac!Stages
    BY DEF Mac!MacInv, Mac!StepInv, Mac!Stages, Mac!Between
  <1>2. CASE Mac!FetchManifest
    BY <1>2, MacTries DEF Mac!FetchManifest
  <1>3. CASE Mac!Download
    BY <1>3, MacTries DEF Mac!Download
  <1>4. CASE Mac!Audit
    BY <1>4, MacTries DEF Mac!Audit
  <1>5. CASE Mac!Shell
    <2>1. v1 # "admission"
      BY <1>5 DEF Mac!MacInv, Mac!StepInv, Mac!Shell, Mac!Try
    <2> QED
      BY <1>5, <2>1, MacTries DEF Mac!Shell
  <1>6. CASE Mac!Stage
    <2>1. v4.native
      BY <1>6 DEF Mac!MacInv, Mac!StepInv, Mac!AdmittedInv, Mac!Stage, Mac!Custody, Mac!Try
    <2> QED
      BY <1>6, <2>1, MacTries DEF Mac!Stage, Mac!Custody
  <1>7. CASE Mac!Export
    <2>1. v1 # "admission"
      BY <1>7 DEF Mac!MacInv, Mac!StepInv, Mac!Export, Mac!Try
    <2> QED
      BY <1>7, <2>1, MacTries DEF Mac!Export
  <1>8. CASE Mac!ColdImport
    BY <1>8, MacTries DEF Mac!ColdImport
  <1> QED
    BY <1>2, <1>3, <1>4, <1>5, <1>6, <1>7, <1>8

\* The trials with an override, which goes unless its removal is the failure.
LEMMA MacTrials ==
  ASSUME Mac!MacInv, Mac!Preboot \/ Mac!Offline \/ Mac!Startup PROVE Mac!MacInv'
  <1> USE DEF MacScopes, Mac!Assembly, Mac!Building
  <1>1. ASSUME NEW here, NEW next, NEW uses, Mac!TryWithOverride(here, uses, next), Mac!Keeps, v4' = v4,
               <<here, next>> \in {<<"preboot", "shell">>, <<"offline", "startup">>,
                                   <<"startup", "hand_over">>}
        PROVE  Mac!MacInv'
    <2>1. CASE Mac!Try(here, uses, {}, next) /\ v7' = FALSE
      <3>1. v1 # "admission"
        BY <1>1, <2>1 DEF Mac!MacInv, Mac!StepInv, Mac!Try
      <3>2. CASE here = "preboot" /\ next = "shell"
        BY <1>1, <2>1, <3>1, <3>2, MacTries
      <3>3. CASE here = "offline" /\ next = "startup"
        BY <1>1, <2>1, <3>1, <3>3, MacTries
      <3>4. CASE here = "startup" /\ next = "hand_over"
        BY <1>1, <2>1, <3>1, <3>4, MacTries
      <3> QED
        BY <1>1, <3>2, <3>3, <3>4
    <2>2. CASE v2 = here /\ Mac!Raise /\ v7' = v7 /\ v9' = v9
      BY <1>1, <2>2, MacRaise DEF Mac!Keeps, Mac!Stages
    <2> QED
      BY <1>1, <2>1, <2>2 DEF Mac!TryWithOverride
  <1>2. CASE Mac!Preboot
    BY <1>1, <1>2 DEF Mac!Preboot
  <1>3. CASE Mac!Offline
    BY <1>1, <1>3 DEF Mac!Offline
  <1>4. CASE Mac!Startup
    BY <1>1, <1>4 DEF Mac!Startup
  <1> QED
    BY <1>2, <1>3, <1>4

\* The steps that open a scope, decide on an admission, or publish.
LEMMA MacAssemble == ASSUME Mac!MacInv, Mac!Assemble PROVE Mac!MacInv'
  <1>1. CASE Mac!Raise /\ v4' = v4 /\ v6' = v6
    BY <1>1, MacRaise DEF Mac!Assemble, Mac!Stages, Mac!Between
  <1>2. CASE v2' = "audit" /\ v3' = v3 /\ Mac!Enter("inner")
    <2>1. /\ v2 = "assemble" /\ v4 \in MacReports /\ v4.receipts = {} /\ v6 \subseteq {"outer"}
          /\ v1 = "published" /\ v3 = FALSE /\ v7 = FALSE /\ ~v4.admitted /\ v5.owner # "ours"
          /\ UNCHANGED <<v1, v5, v7, v8, v9>>
      BY <1>2 DEF Mac!Assemble, Mac!MacInv, Mac!TypeOK, Mac!StepInv, Mac!TempInv, Mac!OutputInv,
                  Mac!AdmittedInv, MacReports, Mac!Stages, Mac!Between
    <2>2. /\ v4' \in MacReports /\ v4'.receipts = {} /\ ~v4'.admitted
          /\ v4'.native = v4.native /\ v4'.isolated = v4.isolated /\ v6' \subseteq {"outer", "inner"}
      BY <1>2, <2>1 DEF Mac!Enter, MacReports
    <2> USE DEF Mac!Ending, Mac!Stages, Mac!Assembly, Mac!Building, Mac!Between
    <2>3. Mac!TypeOK' /\ v7' \in BOOLEAN /\ v9' \in BOOLEAN
      BY <1>2, <2>1, <2>2 DEF Mac!MacInv, Mac!TypeOK, MacReports
    <2>4. Mac!StepInv' /\ Mac!TempInv'
      BY <1>2, <2>1, <2>2 DEF Mac!StepInv, Mac!TempInv
    <2>5. Mac!OutputInv' /\ Mac!VerdictInv'
      BY <1>2, <2>1, <2>2 DEF Mac!OutputInv, Mac!VerdictInv
    <2>6. Mac!AdmittedInv'
      BY <1>2, <2>1, <2>2 DEF Mac!MacInv, Mac!AdmittedInv
    <2> QED
      BY <2>3, <2>4, <2>5, <2>6 DEF Mac!MacInv
  <1> QED
    BY <1>1, <1>2 DEF Mac!Assemble

\* The probe of the assembly and the contact of the admission bring evidence.
LEMMA MacProbed ==
  ASSUME Mac!MacInv, v2 \in {"probe", "contact"}, v3' = v3, Mac!Keeps, Mac!Probed, v7' = FALSE,
         v2' = (IF v2 = "probe" THEN "custody" ELSE "outer_state"),
         v9' \in BOOLEAN, v9' => v9 \/ v8 # {}, v2 = "contact" => ~v9'
  PROVE  Mac!MacInv'
  <1>1. /\ v3 = FALSE /\ v4 \in MacReports /\ v4.receipts = {} /\ v5.owner # "ours"
        /\ v1 = (IF v2 = "probe" THEN "published" ELSE "admission")
        /\ UNCHANGED <<v1, v5, v6, v8>>
    BY DEF Mac!MacInv, Mac!TypeOK, Mac!StepInv, Mac!TempInv, Mac!OutputInv, MacReports, Mac!Keeps,
           Mac!Stages, Mac!Assembly, Mac!Between
  <1>2. /\ v4' \in MacReports /\ v4'.receipts = {} /\ v4'.removed = v4.removed
        /\ v4'.native \in BOOLEAN /\ v4'.admitted \in BOOLEAN /\ v4'.created = v4.created
        /\ v4'.native => v4'.isolated
        /\ v4'.admitted => v1 = "admission" /\ v4'.native
    <2>1. PICK e \in Mac!Evidence, exited \in BOOLEAN :
            /\ Mac!ValidEvidence(e)
            /\ v4' = [v4 EXCEPT !.native = (e.passed /\ exited), !.isolated = e.isolated,
                                !.admitted = (v1 = "admission" /\ e.passed /\ exited)]
      BY <1>1 DEF Mac!Probed
    <2>2. e.passed \in BOOLEAN /\ e.isolated \in BOOLEAN /\ (e.passed => e.isolated)
      <3>1. e.passed \in BOOLEAN /\ e.isolated \in BOOLEAN /\ e.connected \in BOOLEAN
        BY DEF Mac!Evidence
      <3>2. e.passed = (e.connected /\ e.isolated)
        BY <2>1 DEF Mac!ValidEvidence
      <3> QED
        BY <3>1, <3>2
    <2> DEFINE native == e.passed /\ exited
               admitted == v1 = "admission" /\ e.passed /\ exited
    <2>3. native \in BOOLEAN /\ admitted \in BOOLEAN /\ (native => e.isolated)
          /\ (admitted => v1 = "admission" /\ native)
      BY <2>2
    <2>4. v4' = [v4 EXCEPT !.native = native, !.isolated = e.isolated, !.admitted = admitted]
      BY <2>1
    <2> HIDE DEF native, admitted
    <2>5. /\ v4' \in MacReports /\ v4'.receipts = v4.receipts /\ v4'.removed = v4.removed
          /\ v4'.native = native /\ v4'.admitted = admitted /\ v4'.created = v4.created
          /\ v4'.isolated = e.isolated
      BY <1>1, <2>2, <2>3, <2>4 DEF MacReports
    <2> QED
      BY <1>1, <2>3, <2>5
  <1>3. v6 \subseteq {"outer", "inner"} /\ (v2 = "contact" => v6 \subseteq {"outer"})
    BY DEF Mac!MacInv, Mac!TypeOK, Mac!TempInv, Mac!Between
  <1> USE DEF Mac!Ending, Mac!Stages, Mac!Assembly, Mac!Building, Mac!Between
  <1>4. Mac!TypeOK' /\ v7' \in BOOLEAN /\ v9' \in BOOLEAN
    <2>1. v2' \in Mac!Stages \cup Mac!Leaving
      BY DEF Mac!Leaving
    <2> QED
      BY <1>1, <1>2, <2>1 DEF Mac!MacInv, Mac!TypeOK, MacReports
  <1>5. Mac!StepInv' /\ Mac!TempInv'
    BY <1>1, <1>2, <1>3 DEF Mac!StepInv, Mac!TempInv
  <1>6. Mac!OutputInv' /\ Mac!VerdictInv'
    BY <1>1, <1>2 DEF Mac!OutputInv, Mac!VerdictInv
  <1>7. Mac!AdmittedInv'
    BY <1>1, <1>2 DEF Mac!MacInv, Mac!AdmittedInv
  <1> QED
    BY <1>4, <1>5, <1>6, <1>7 DEF Mac!MacInv

LEMMA MacEvidence == ASSUME Mac!MacInv, Mac!Probe \/ Mac!Contact PROVE Mac!MacInv'
  <1>1. /\ Mac!Keeps /\ Mac!Probed /\ v2 \in {"probe", "contact"} /\ v3 = FALSE
        /\ v9 \in BOOLEAN /\ v2 \in Mac!Stages
    BY DEF Mac!Probe, Mac!Contact, Mac!TryWithOverride, Mac!Try, Mac!MacInv, Mac!StepInv, Mac!TypeOK,
           Mac!Stages, Mac!Assembly, Mac!Between
  <1>2. CASE Mac!Raise /\ v9' = v9 /\ v7' \in {v7, FALSE}
    BY <1>1, <1>2, MacRaise DEF Mac!Keeps, Mac!Probed, Mac!Raise
  <1>3. CASE ~Mac!Raise
    <2>1. CASE Mac!Probe
      <3>1. /\ v2 = "probe" /\ v2' = "custody" /\ v3' = v3 /\ v7' = FALSE
            /\ v9' = (v9 \/ {"editor", "pack"} \cap v8 # {})
        BY <1>3, <2>1 DEF Mac!Probe, Mac!TryWithOverride, Mac!Try
      <3> QED
        BY <1>1, <3>1, MacProbed
    <2>2. CASE Mac!Contact
      <3>1. /\ v2 = "contact" /\ v2' = "outer_state" /\ v3' = v3 /\ v7' = v7
            /\ {"editor", "sources", "app"} \cap v8 = {}
            /\ v9' = (v9 \/ {"editor", "sources", "app"} \cap v8 # {})
        BY <1>3, <2>2 DEF Mac!Contact, Mac!Try
      <3>2. v1 = "admission" /\ v7 = FALSE
        BY <1>1, <3>1 DEF Mac!MacInv, Mac!StepInv
      <3>3. ~v9
        BY <3>1, <3>2 DEF Mac!MacInv, Mac!AdmittedInv
      <3> QED
        BY <1>1, <3>1, <3>2, <3>3, MacProbed
    <2> QED
      BY <2>1, <2>2
  <1>4. Mac!Raise => v9' = v9 /\ v7' \in {v7, FALSE}
    <2>1. ASSUME Mac!Raise PROVE v3' # v3
      BY <1>1, <2>1 DEF Mac!Raise
    <2> QED
      BY <2>1 DEF Mac!Probe, Mac!Contact, Mac!TryWithOverride, Mac!Try
  <1> QED
    BY <1>2, <1>3, <1>4

\* After the custody the pack is admitted, or the assembly is over.
LEMMA MacChecked == ASSUME Mac!MacInv, Mac!Checked PROVE Mac!MacInv'
  <1> USE DEF MacScopes, Mac!Assembly
  <1>1. CASE v4.native
    BY <1>1, MacTries DEF Mac!Checked, Mac!Custody
  <1>2. CASE ~v4.native
    <2>1. /\ v2 = "custody" /\ UNCHANGED <<v1, v4, v5, v6, v7, v8>>
          /\ \/ Mac!Raise /\ v9' = v9
             \/ v2' = "inner_state" /\ v3' = v3 /\ v9' = (v9 \/ {} \cap v8 # {})
      BY <1>2 DEF Mac!Checked, Mac!Custody, Mac!Try, Mac!Keeps
    <2>2. CASE Mac!Raise /\ v9' = v9
      BY <2>1, <2>2, MacRaise DEF Mac!Stages
    <2>3. CASE v2' = "inner_state" /\ v3' = v3 /\ v9' = v9
      <3>1. v1 = "published" /\ v3 = FALSE /\ v7 = FALSE /\ ~v4.admitted /\ v4.receipts = {} /\ v5.owner # "ours"
        BY <2>1 DEF Mac!MacInv, Mac!StepInv, Mac!TempInv, Mac!AdmittedInv, Mac!OutputInv, Mac!Stages
      <3> USE DEF Mac!Ending, Mac!Stages, Mac!Building, Mac!Between
      <3>2. Mac!TypeOK' /\ v7' \in BOOLEAN /\ v9' \in BOOLEAN
        <4>1. v2' \in Mac!Leaving
          BY <2>3 DEF Mac!Leaving
        <4> QED
          BY <2>1, <2>3, <4>1 DEF Mac!MacInv, Mac!TypeOK
      <3>3. Mac!StepInv' /\ Mac!TempInv'
        BY <2>1, <2>3, <3>1 DEF Mac!StepInv, Mac!TempInv
      <3>4. Mac!OutputInv' /\ Mac!VerdictInv'
        BY <2>1, <2>3, <3>1 DEF Mac!OutputInv, Mac!VerdictInv
      <3>5. Mac!AdmittedInv'
        BY <2>1, <2>3, <3>1 DEF Mac!MacInv, Mac!AdmittedInv
      <3> QED
        BY <3>2, <3>3, <3>4, <3>5 DEF Mac!MacInv
    <2>4. ({} \cap v8 # {}) = FALSE
      OBVIOUS
    <2>5. v9 \in BOOLEAN
      BY DEF Mac!MacInv
    <2> QED
      BY <2>1, <2>2, <2>3, <2>4, <2>5
  <1> QED
    BY <1>1, <1>2

\* The output is made; whoever made it knows.
LEMMA MacPublish == ASSUME Mac!MacInv, Mac!PublishPublished \/ Mac!HandOver PROVE Mac!MacInv'
  <1>1. /\ v2 \in {"publish", "hand_over"} /\ v2 \in Mac!Stages
        /\ v1 = (IF v2 = "publish" THEN "published" ELSE "package")
        /\ v3 = FALSE /\ v7 = FALSE /\ v4 \in MacReports /\ v4.receipts = {}
        /\ UNCHANGED <<v1, v6, v7, v8, v9>>
    BY DEF Mac!PublishPublished, Mac!HandOver, Mac!Publish, Mac!MacInv, Mac!TypeOK, Mac!StepInv,
           Mac!TempInv, MacReports, Mac!Stages, Mac!Assembly, Mac!Building
  <1>2. CASE Mac!Raise /\ v4' = v4 /\ v5' = v5
    BY <1>1, <1>2, MacRaise
  <1>3. ASSUME NEW whole \in BOOLEAN, NEW good,
               good = (whole /\ (v1 = "published" => "app" \notin v8)),
               v5' = [owner |-> "ours", whole |-> whole, exact |-> "app" \notin v8, override |-> v7],
               v4' = [v4 EXCEPT !.created = (v1 = "published"), !.admitted = good],
               IF good THEN v2' = (IF v2 = "publish" THEN "last" ELSE "outer_state") /\ v3' = v3
                       ELSE Mac!Raise
        PROVE  Mac!MacInv'
    <2>1. good \in BOOLEAN /\ (v1 = "published") \in BOOLEAN /\ ("app" \notin v8) \in BOOLEAN
      BY <1>3
    <2> DEFINE created == v1 = "published"
    <2>2. created \in BOOLEAN /\ v4' = [v4 EXCEPT !.created = created, !.admitted = good]
      BY <1>3
    <2>3. v1 = "published" => created
      OBVIOUS
    <2> HIDE DEF created
    <2>4. /\ v4' \in MacReports /\ v4'.receipts = {} /\ v4'.created = created /\ v4'.admitted = good
          /\ v4'.native = v4.native /\ v4'.isolated = v4.isolated
      BY <1>1, <2>1, <2>2 DEF MacReports
    <2>5. /\ v5' \in Mac!Outputs /\ v5'.owner = "ours" /\ v5'.whole = whole /\ v5'.override = FALSE
          /\ v5'.exact = ("app" \notin v8)
      BY <1>1, <1>3 DEF Mac!Outputs
    <2>6. \/ good /\ v2' = (IF v2 = "publish" THEN "last" ELSE "outer_state") /\ v3' = FALSE
          \/ ~good /\ v2' = (IF v2 = "publish" THEN "inner_state" ELSE "outer_state") /\ v3' = TRUE
      BY <1>1, <1>3, <2>1 DEF Mac!Raise, Mac!Nearest, Mac!Assembly, Mac!Building
    <2>7. v2' \in Mac!Stages \cup Mac!Leaving
      BY <2>6 DEF Mac!Stages, Mac!Assembly, Mac!Leaving
    <2>8. Mac!TypeOK' /\ v7' \in BOOLEAN /\ v9' \in BOOLEAN
      BY <1>1, <2>4, <2>5, <2>6, <2>7 DEF Mac!MacInv, Mac!TypeOK, MacReports
    <2>9. v6 \subseteq {"outer", "inner"} /\ (v2 = "hand_over" => v6 \subseteq {"outer"})
      BY DEF Mac!MacInv, Mac!TypeOK, Mac!TempInv, Mac!Building
    <2> USE DEF Mac!Ending, Mac!Stages, Mac!Assembly, Mac!Building, Mac!Between
    <2>10. Mac!StepInv' /\ Mac!TempInv'
      BY <1>1, <2>4, <2>6, <2>9 DEF Mac!StepInv, Mac!TempInv
    <2>11. Mac!OutputInv'
      BY <1>1, <1>3, <2>3, <2>4, <2>5, <2>6 DEF Mac!OutputInv
    <2>12. Mac!VerdictInv'
      BY <1>1, <2>6 DEF Mac!VerdictInv
    <2>13. Mac!AdmittedInv'
      BY <1>1, <2>4, <2>6 DEF Mac!MacInv, Mac!AdmittedInv
    <2> QED
      BY <2>8, <2>10, <2>11, <2>12, <2>13 DEF Mac!MacInv
  <1>4. ASSUME Mac!Publish(v2, IF v2 = "publish" THEN "last" ELSE "outer_state") PROVE Mac!MacInv'
    <2>1. CASE Mac!Raise /\ v4' = v4 /\ v5' = v5
      BY <1>2, <2>1
    <2>2. CASE ~(Mac!Raise /\ v4' = v4 /\ v5' = v5)
      <3>1. PICK whole \in BOOLEAN :
              LET good == whole /\ (v1 = "published" => "app" \notin v8) IN
              /\ v5' = [owner |-> "ours", whole |-> whole, exact |-> "app" \notin v8, override |-> v7]
              /\ v4' = [v4 EXCEPT !.created = (v1 = "published"), !.admitted = good]
              /\ IF good THEN v2' = (IF v2 = "publish" THEN "last" ELSE "outer_state") /\ v3' = v3
                         ELSE Mac!Raise
        BY <1>4, <2>2 DEF Mac!Publish
      <3> QED
        BY <1>3, <3>1
    <2> QED
      BY <2>1, <2>2
  <1> QED
    BY <1>1, <1>4 DEF Mac!PublishPublished, Mac!HandOver, Mac!Publish

\* The last checks, of the assembly and of the diagnosis.
LEMMA MacLast == ASSUME Mac!MacInv, Mac!LastCustody \/ Mac!After PROVE Mac!MacInv'
  <1>1. /\ v2 \in {"last", "after"} /\ UNCHANGED <<v1, v4, v5, v6, v7, v8>> /\ v2 \in Mac!Stages
        /\ \/ Mac!Raise /\ v9' = v9
           \/ /\ v2' = (IF v2 = "last" THEN "inner_state" ELSE "outer_state") /\ v3' = v3
              /\ v9' = (v9 \/ {} \cap v8 # {})
    BY DEF Mac!LastCustody, Mac!Custody, Mac!After, Mac!Try, Mac!Keeps, Mac!Stages, Mac!Assembly, Mac!Between
  <1>2. CASE Mac!Raise /\ v9' = v9
    BY <1>1, <1>2, MacRaise
  <1>3. CASE v2' = (IF v2 = "last" THEN "inner_state" ELSE "outer_state") /\ v3' = v3 /\ v9' = v9
    <2>1. v1 = "published" /\ v3 = FALSE /\ v7 = FALSE
      BY <1>1 DEF Mac!MacInv, Mac!StepInv, Mac!Assembly
    <2>2. Mac!TypeOK' /\ v7' \in BOOLEAN /\ v9' \in BOOLEAN
      <3>1. v2' \in Mac!Leaving
        BY <1>1, <1>3 DEF Mac!Leaving
      <3> QED
        BY <1>1, <1>3, <3>1 DEF Mac!MacInv, Mac!TypeOK
    <2> USE DEF Mac!Ending, Mac!Stages, Mac!Assembly, Mac!Building, Mac!Between
    <2>3. Mac!StepInv'
      BY <1>1, <1>3, <2>1 DEF Mac!StepInv
    <2>4. Mac!TempInv'
      BY <1>1, <1>3, <2>1 DEF Mac!MacInv, Mac!TempInv
    <2>5. Mac!OutputInv' /\ Mac!VerdictInv'
      BY <1>1, <1>3, <2>1 DEF Mac!MacInv, Mac!OutputInv, Mac!VerdictInv
    <2>6. Mac!AdmittedInv'
      BY <1>1, <1>3, <2>1 DEF Mac!MacInv, Mac!AdmittedInv
    <2> QED
      BY <2>2, <2>3, <2>4, <2>5, <2>6 DEF Mac!MacInv
  <1>4. ({} \cap v8 # {}) = FALSE /\ v9 \in BOOLEAN
    BY DEF Mac!MacInv
  <1> QED
    BY <1>1, <1>2, <1>3, <1>4

\* A scope is left: what it had on disk goes, or a receipt says that it has not.
LEMMA MacLeaveState ==
  ASSUME Mac!MacInv, NEW scope, NEW next, Mac!LeaveState(scope, next),
         \/ v2 = "inner_state" /\ scope = "inner" /\ next = "inner_guard"
         \/ v2 = "outer_state" /\ scope = "outer" /\ next = (IF v1 = "published" THEN "outer_guard" ELSE "write")
  PROVE  Mac!MacInv'
  <1>1. PICK gone \in BOOLEAN, raised \in BOOLEAN :
          /\ ~gone => raised
          /\ v6' = (IF gone THEN v6 \ {scope} ELSE v6)
          /\ v4' = [v4 EXCEPT !.receipts = @ \cup {gone},
                              !.removed = FALSE \notin (v4.receipts \cup {gone})]
          /\ v3' = (v3 \/ raised)
          /\ v2' = next /\ UNCHANGED <<v1, v5, v7, v8, v9>>
    BY DEF Mac!LeaveState
  <1>2. /\ v4 \in MacReports /\ v6 \subseteq {"outer", "inner"} /\ v3 \in BOOLEAN
        /\ v2 = "inner_state" => v1 = "published" /\ v4.receipts = {}
        /\ v2 = "outer_state" /\ FALSE \notin v4.receipts => "inner" \notin v6
    BY DEF Mac!MacInv, Mac!TypeOK, Mac!StepInv, Mac!TempInv, MacReports
  <1> DEFINE removed == FALSE \notin (v4.receipts \cup {gone})
             receipts == v4.receipts \cup {gone}
  <1>3. /\ removed \in BOOLEAN /\ receipts \in SUBSET BOOLEAN /\ receipts # {}
        /\ removed = (FALSE \notin receipts) /\ v4' = [v4 EXCEPT !.receipts = receipts, !.removed = removed]
        /\ removed = (FALSE \notin v4.receipts /\ gone)
    BY <1>1, <1>2 DEF MacReports
  <1> HIDE DEF removed, receipts
  <1>4. /\ v4' \in MacReports /\ v4'.receipts = receipts /\ v4'.removed = removed
        /\ v4'.passed = v4.passed /\ v4'.created = v4.created /\ v4'.kept = v4.kept
        /\ v4'.native = v4.native /\ v4'.isolated = v4.isolated /\ v4'.admitted = v4.admitted
        /\ v4'.written = v4.written
    BY <1>2, <1>3 DEF MacReports
  <1>5. v6' \subseteq {"outer", "inner"} /\ (removed => scope \notin v6') /\ v6' \subseteq v6 /\ v3' \in BOOLEAN
    BY <1>1, <1>2, <1>3
  <1>6. v2' \in {"inner_guard", "outer_guard", "write"} /\ (v3 => v3')
        /\ (v2' = "inner_guard" <=> v2 = "inner_state")
        /\ (v2' = "outer_guard" <=> v2 = "outer_state" /\ v1 = "published")
    BY <1>1
  <1>7. Mac!TypeOK' /\ v7' \in BOOLEAN /\ v9' \in BOOLEAN
    <2>1. v2' \in Mac!Leaving
      BY <1>6 DEF Mac!Leaving
    <2> QED
      BY <1>1, <1>4, <1>5, <2>1 DEF Mac!MacInv, Mac!TypeOK, MacReports
  <1>8. /\ removed => ("inner" \notin v6' /\ (v2 = "outer_state" => v6' = {}))
        /\ v2 = "inner_state" /\ ~removed => v3'
    <2>1. v2 = "inner_state" => removed = gone
      BY <1>2, <1>3
    <2>2. ~gone => v3'
      BY <1>1, <1>2
    <2>3. removed => ("inner" \notin v6' /\ (v2 = "outer_state" => v6' = {}))
      BY <1>2, <1>3, <1>5
    <2> QED
      BY <1>3, <2>1, <2>2, <2>3
  <1> USE DEF Mac!Ending, Mac!Stages, Mac!Assembly, Mac!Building, Mac!Between
  <1>9. Mac!StepInv'
    BY <1>1, <1>2, <1>6 DEF Mac!MacInv, Mac!StepInv
  <1>10. Mac!TempInv'
    BY <1>3, <1>4, <1>6, <1>8 DEF Mac!TempInv
  <1>11. Mac!OutputInv'
    BY <1>1, <1>4, <1>6 DEF Mac!MacInv, Mac!OutputInv
  <1>12. Mac!AdmittedInv'
    BY <1>1, <1>2, <1>4, <1>6 DEF Mac!MacInv, Mac!AdmittedInv
  <1>13. Mac!VerdictInv'
    BY <1>1, <1>6 DEF Mac!VerdictInv
  <1> QED
    BY <1>7, <1>9, <1>10, <1>11, <1>12, <1>13 DEF Mac!MacInv

\* A guard is left: a failure takes away the output that the run made, or says that it stays.
LEMMA MacLeaveGuard ==
  ASSUME Mac!MacInv, NEW passes, NEW next, Mac!LeaveGuard(passes, next),
         \/ v2 = "inner_guard" /\ passes \in {v4, Mac!Verdict} /\ next \in {"outer_state", "after"}
            /\ (next = "after" => ~v3)
         \/ v2 = "outer_guard" /\ passes = Mac!Verdict /\ next = "write"
  PROVE  Mac!MacInv'
  <1> DEFINE fails == v3 \/ (v4.receipts # {} /\ ~v4.removed)
             passed == v4.admitted /\ v4.removed
  <1>1. /\ v4 \in MacReports /\ v3 \in BOOLEAN /\ v1 = "published" /\ v4.receipts # {}
        /\ v4.removed = (FALSE \notin v4.receipts) /\ v6 \subseteq {"outer", "inner"}
        /\ v2 = "outer_guard" /\ v4.removed => v6 = {}
        /\ v2 = "inner_guard" /\ v4.removed => "inner" \notin v6
        /\ v5 \in Mac!Outputs
    BY DEF Mac!MacInv, Mac!TypeOK, Mac!StepInv, Mac!TempInv, MacReports
  <1>2. fails \in BOOLEAN /\ passed \in BOOLEAN
    BY <1>1 DEF MacReports
  <1>3. v3' = fails /\ v2' = next /\ UNCHANGED <<v1, v6, v7, v8, v9>>
    BY DEF Mac!LeaveGuard
  <1>4. PICK kept \in BOOLEAN, verdict \in BOOLEAN :
          /\ v4' = [v4 EXCEPT !.passed = verdict, !.kept = kept]
          /\ verdict => (~fails /\ (verdict = v4.passed \/ passed))
          /\ v2 = "outer_guard" /\ ~fails => verdict = passed
          /\ \/ v5' = v5
             \/ fails /\ v5' = Mac!NoOutput
          /\ fails /\ v4.created => v5'.owner # "ours" \/ kept
          /\ ~fails => v5' = v5
    <2>1. Mac!Verdict = [v4 EXCEPT !.passed = passed]
      BY DEF Mac!Verdict
    <2>2. Mac!Verdict = [v4 EXCEPT !.passed = passed, !.kept = v4.kept]
      BY <1>1, <1>2, <2>1 DEF MacReports
    <2>3. v4 = [v4 EXCEPT !.passed = v4.passed, !.kept = v4.kept] /\ v4.kept \in BOOLEAN /\ v4.passed \in BOOLEAN
      BY <1>1 DEF MacReports
    <2>4. CASE ~fails
      <3>1. v4' = passes /\ v5' = v5
        BY <2>4 DEF Mac!LeaveGuard
      <3>2. passes = Mac!Verdict \/ (passes = v4 /\ v2 = "inner_guard")
        OBVIOUS
      <3>3. CASE passes = Mac!Verdict
        BY <1>2, <2>2, <2>3, <2>4, <3>1, <3>3
      <3>4. CASE passes = v4 /\ v2 = "inner_guard"
        BY <1>2, <2>3, <2>4, <3>1, <3>4
      <3> QED
        BY <3>2, <3>3, <3>4
    <2>5. CASE fails
      <3> DEFINE rest == [v4 EXCEPT !.passed = FALSE]
      <3>1. \/ ~v4.created /\ v4' = rest /\ v5' = v5
            \/ v4' = [rest EXCEPT !.kept = FALSE] /\ v5' = Mac!NoOutput
            \/ v4' = [rest EXCEPT !.kept = v5 # Mac!NoOutput] /\ v5' = v5
        BY <2>5 DEF Mac!LeaveGuard
      <3>2. CASE ~v4.created /\ v4' = rest /\ v5' = v5
        <4>1. v4' = [v4 EXCEPT !.passed = FALSE, !.kept = v4.kept]
          BY <1>1, <3>2 DEF MacReports
        <4> QED
          BY <2>3, <2>5, <3>2, <4>1
      <3>3. CASE v4' = [rest EXCEPT !.kept = FALSE] /\ v5' = Mac!NoOutput
        <4>1. v4' = [v4 EXCEPT !.passed = FALSE, !.kept = FALSE]
          BY <1>1, <3>3 DEF MacReports
        <4>2. v5'.owner # "ours"
          BY <3>3 DEF Mac!NoOutput
        <4> QED
          BY <2>5, <3>3, <4>1, <4>2
      <3>4. CASE v4' = [rest EXCEPT !.kept = v5 # Mac!NoOutput] /\ v5' = v5
        <4> DEFINE kept == v5 # Mac!NoOutput
        <4>1. kept \in BOOLEAN /\ v4' = [rest EXCEPT !.kept = kept] /\ (v5.owner = "ours" => kept)
          BY <3>4 DEF Mac!NoOutput
        <4> HIDE DEF kept
        <4>2. v4' = [v4 EXCEPT !.passed = FALSE, !.kept = kept]
          BY <1>1, <4>1 DEF MacReports
        <4> QED
          BY <2>5, <3>4, <4>1, <4>2
      <3> QED
        BY <3>1, <3>2, <3>3, <3>4
    <2> QED
      BY <2>4, <2>5
  <1>5. /\ v4' \in MacReports /\ v4'.passed = verdict /\ v4'.kept = kept /\ v4'.created = v4.created
        /\ v4'.receipts = v4.receipts /\ v4'.removed = v4.removed /\ v4'.native = v4.native
        /\ v4'.isolated = v4.isolated /\ v4'.admitted = v4.admitted /\ v4'.written = v4.written
    BY <1>1, <1>4 DEF MacReports
  <1>6. fails = (v3 \/ ~v4.removed)
    BY <1>1
  <1>7. passed = (v4.admitted /\ v4.removed)
    OBVIOUS
  <1> HIDE DEF fails, passed
  <1>8. v5' \in Mac!Outputs /\ (v5' # v5 => v5'.owner = "none" /\ fails)
    <2>1. Mac!NoOutput \in Mac!Outputs /\ Mac!NoOutput.owner = "none"
      BY DEF Mac!Outputs, Mac!NoOutput
    <2> QED
      BY <1>1, <1>4, <2>1
  <1>9. /\ v2' \in {"outer_state", "after", "write"} /\ (v2' = "write" <=> v2 = "outer_guard")
        /\ (v2' = "after" => ~v3')
    <2>1. v2 = "inner_guard" /\ ~v3 => v4.removed
      BY DEF Mac!MacInv, Mac!TempInv
    <2> QED
      BY <1>3, <1>6, <2>1
  <1>10. Mac!TypeOK' /\ v7' \in BOOLEAN /\ v9' \in BOOLEAN
    <2>1. v2' \in Mac!Stages \cup Mac!Leaving
      BY <1>9 DEF Mac!Stages, Mac!Between, Mac!Leaving
    <2> QED
      BY <1>2, <1>3, <1>5, <1>8, <2>1 DEF Mac!MacInv, Mac!TypeOK, MacReports
  <1>11. v3' = fails /\ (v3 => fails) /\ v1' = v1
    BY <1>3, <1>6
  <1> USE DEF Mac!Ending, Mac!Stages, Mac!Assembly, Mac!Building, Mac!Between
  <1>12. Mac!StepInv'
    BY <1>1, <1>3, <1>9, <1>11 DEF Mac!MacInv, Mac!StepInv
  <1>13. Mac!TempInv'
    BY <1>1, <1>3, <1>5, <1>9 DEF Mac!MacInv, Mac!TempInv
  <1>14. Mac!OutputInv'
    BY <1>1, <1>3, <1>5, <1>8, <1>9, <1>11 DEF Mac!MacInv, Mac!OutputInv
  <1>15. Mac!AdmittedInv'
    BY <1>1, <1>3, <1>5, <1>9 DEF Mac!MacInv, Mac!AdmittedInv
  <1>16. Mac!VerdictInv'
    <2>1. v5'.owner = "ours" => v4.created /\ (~fails => v4.admitted /\ v5' = v5)
      BY <1>1, <1>8, <1>11 DEF Mac!MacInv, Mac!OutputInv
    <2> QED
      BY <1>1, <1>3, <1>4, <1>5, <1>6, <1>7, <1>9, <2>1 DEF Mac!VerdictInv
  <1> QED
    BY <1>10, <1>12, <1>13, <1>14, <1>15, <1>16 DEF Mac!MacInv

\* The report is written, which can fail and then takes the verdict back.
LEMMA MacWrite ==
  ASSUME Mac!MacInv, Mac!WritePublished \/ Mac!WritePackage \/ Mac!WriteAdmission PROVE Mac!MacInv'
  <1> DEFINE verdict == \/ v1 = "published" /\ v4.passed
                        \/ v1 = "package" /\ ~v3 /\ v4.removed
                        \/ v1 = "admission" /\ ~v3 /\ v4.removed /\ v4.admitted
  <1>1. /\ v4 \in MacReports /\ v1 \in {"package", "published", "admission"}
    BY DEF Mac!MacInv, Mac!TypeOK, MacReports
  <1>2. PICK written \in BOOLEAN, passed \in BOOLEAN :
          /\ v4' = [v4 EXCEPT !.written = written, !.passed = passed]
          /\ passed = (verdict /\ written)
          /\ v2 = "write" /\ v2' = "done" /\ UNCHANGED <<v1, v3, v5, v6, v7, v8, v9>>
    BY <1>1 DEF Mac!WritePublished, Mac!WritePackage, Mac!WriteAdmission, Mac!Write
  <1>3. /\ v4' \in MacReports /\ v4'.passed = passed /\ v4'.kept = v4.kept /\ v4'.created = v4.created
        /\ v4'.receipts = v4.receipts /\ v4'.removed = v4.removed /\ v4'.native = v4.native
        /\ v4'.isolated = v4.isolated /\ v4'.admitted = v4.admitted /\ v4'.written = written
    BY <1>1, <1>2 DEF MacReports
  <1>4. Mac!TypeOK' /\ v7' \in BOOLEAN /\ v9' \in BOOLEAN
    BY <1>2, <1>3 DEF Mac!MacInv, Mac!TypeOK, MacReports
  <1>5. Mac!VerdictInv'
    BY <1>1, <1>2, <1>3 DEF Mac!MacInv, Mac!VerdictInv
  <1> HIDE DEF verdict
  <1> USE DEF Mac!Ending, Mac!Stages, Mac!Assembly, Mac!Building, Mac!Between
  <1>6. Mac!StepInv'
    BY <1>2 DEF Mac!MacInv, Mac!StepInv
  <1>7. Mac!TempInv'
    BY <1>2, <1>3 DEF Mac!MacInv, Mac!TempInv
  <1>8. Mac!OutputInv'
    BY <1>2, <1>3 DEF Mac!MacInv, Mac!OutputInv
  <1>9. Mac!AdmittedInv'
    BY <1>2, <1>3 DEF Mac!MacInv, Mac!AdmittedInv
  <1> QED
    BY <1>4, <1>5, <1>6, <1>7, <1>8, <1>9 DEF Mac!MacInv

\* What happens around a run.
LEMMA MacAround == ASSUME Mac!MacInv, Mac!PlaceOverride \/ Mac!Change \/ Mac!Occupy PROVE Mac!MacInv'
  <1>1. CASE Mac!PlaceOverride \/ Mac!Change
    <2>1. /\ UNCHANGED <<v1, v2, v3, v4, v5, v6, v9>> /\ v7' \in BOOLEAN
          /\ (v7' => v7 \/ v2 \in {"preboot", "probe", "offline", "startup"})
          /\ v8 \subseteq v8' /\ v8' \subseteq Mac!Inputs
      <3>1. CASE Mac!PlaceOverride
        BY <3>1 DEF Mac!MacInv, Mac!TypeOK, Mac!PlaceOverride
      <3>2. CASE Mac!Change
        BY <3>2 DEF Mac!MacInv, Mac!TypeOK, Mac!Change
      <3> QED
        BY <1>1, <3>1, <3>2
    <2>2. Mac!TypeOK' /\ v7' \in BOOLEAN /\ v9' \in BOOLEAN
      BY <2>1 DEF Mac!MacInv, Mac!TypeOK
    <2>3. Mac!StepInv'
      BY <2>1 DEF Mac!MacInv, Mac!StepInv
    <2>4. Mac!TempInv' /\ Mac!OutputInv' /\ Mac!VerdictInv'
      BY <2>1 DEF Mac!MacInv, Mac!TempInv, Mac!OutputInv, Mac!VerdictInv
    <2>5. Mac!AdmittedInv'
      BY <2>1 DEF Mac!MacInv, Mac!AdmittedInv
    <2> QED
      BY <2>2, <2>3, <2>4, <2>5 DEF Mac!MacInv
  <1>2. CASE Mac!Occupy
    <2>1. /\ UNCHANGED <<v1, v2, v3, v4, v6, v7, v8, v9>> /\ v5.owner = "none"
          /\ v5' = [Mac!NoOutput EXCEPT !.owner = "other"]
      BY <1>2 DEF Mac!Occupy
    <2>2. v5' \in Mac!Outputs /\ v5'.owner = "other"
      BY <2>1 DEF Mac!Outputs, Mac!NoOutput
    <2>3. Mac!TypeOK' /\ v7' \in BOOLEAN /\ v9' \in BOOLEAN
      BY <2>1, <2>2 DEF Mac!MacInv, Mac!TypeOK
    <2>4. Mac!StepInv'
      BY <2>1 DEF Mac!MacInv, Mac!StepInv
    <2>5. Mac!TempInv'
      BY <2>1 DEF Mac!MacInv, Mac!TempInv
    <2>6. Mac!AdmittedInv'
      BY <2>1 DEF Mac!MacInv, Mac!AdmittedInv
    <2>7. Mac!OutputInv' /\ Mac!VerdictInv'
      BY <2>1, <2>2 DEF Mac!MacInv, Mac!OutputInv, Mac!VerdictInv
    <2> QED
      BY <2>3, <2>4, <2>5, <2>6, <2>7 DEF Mac!MacInv
  <1> QED
    BY <1>1, <1>2

LEMMA MacStep == ASSUME Mac!MacInv, [Mac!Next]_macVars PROVE Mac!MacInv'
  <1>1. CASE UNCHANGED macVars
    <2>1. UNCHANGED <<v1, v2, v3, v4, v5, v6, v7, v8, v9>>
      BY <1>1 DEF macVars
    <2>2. Mac!TypeOK' /\ v7' \in BOOLEAN /\ v9' \in BOOLEAN
      BY <2>1 DEF Mac!MacInv, Mac!TypeOK
    <2>3. Mac!StepInv'
      BY <2>1 DEF Mac!MacInv, Mac!StepInv
    <2>4. Mac!TempInv'
      BY <2>1 DEF Mac!MacInv, Mac!TempInv
    <2>5. Mac!AdmittedInv'
      BY <2>1 DEF Mac!MacInv, Mac!AdmittedInv
    <2>6. Mac!OutputInv' /\ Mac!VerdictInv'
      BY <2>1 DEF Mac!MacInv, Mac!OutputInv, Mac!VerdictInv
    <2> QED
      BY <2>2, <2>3, <2>4, <2>5, <2>6 DEF Mac!MacInv
  <1>2. CASE Mac!InnerState \/ Mac!OuterState
    <2>1. v2 = "inner_state" => v1 = "published"
      BY DEF Mac!MacInv, Mac!StepInv
    <2> QED
      BY <1>2, <2>1, MacLeaveState DEF Mac!InnerState, Mac!OuterState
  <1>3. CASE Mac!InnerGuard \/ Mac!OuterGuard
    <2>1. v3 \in BOOLEAN
      BY DEF Mac!MacInv, Mac!TypeOK
    <2>2. CASE Mac!InnerGuard
      <3> DEFINE passes == IF v4.admitted THEN Mac!Verdict ELSE v4
                 next == IF v3 THEN "outer_state" ELSE "after"
      <3>1. v2 = "inner_guard" /\ Mac!LeaveGuard(passes, next)
        BY <2>2 DEF Mac!InnerGuard
      <3>2. passes \in {v4, Mac!Verdict} /\ next \in {"outer_state", "after"} /\ (next = "after" => ~v3)
        BY <2>1
      <3> HIDE DEF passes, next
      <3> QED
        BY <3>1, <3>2, MacLeaveGuard
    <2>3. CASE Mac!OuterGuard
      BY <2>3, MacLeaveGuard DEF Mac!OuterGuard
    <2> QED
      BY <1>3, <2>2, <2>3
  <1> QED
    BY <1>1, <1>2, <1>3, MacDiagnoses, MacWork, MacTrials, MacAssemble, MacEvidence, MacChecked,
       MacPublish, MacLast, MacWrite, MacAround
       DEF Mac!Next

LEMMA MacTells == Mac!MacInv => Mac!PassIsEarned /\ Mac!FailureLeavesNothing
  <1> SUFFICES ASSUME Mac!MacInv PROVE Mac!PassIsEarned /\ Mac!FailureLeavesNothing
    OBVIOUS
  <1>1. Mac!FailureLeavesNothing
    BY DEF Mac!FailureLeavesNothing, Mac!MacInv, Mac!VerdictInv
  <1>2. ASSUME v4.passed, v2 = "done"
        PROVE  /\ v6 = {} /\ ~v7
               /\ v1 # "admission" => v5.owner = "ours" /\ v5.whole /\ ~v5.override
               /\ v1 # "package" => v4.native /\ v4.isolated /\ ~v9
               /\ v1 = "published" => v5.exact
    <2>1. v1 \in {"package", "published", "admission"} /\ ~v3 /\ v4.removed /\ (v1 # "package" => v4.admitted)
      BY <1>2 DEF Mac!MacInv, Mac!TypeOK, Mac!VerdictInv
    <2>2. v6 = {} /\ ~v7
      BY <1>2, <2>1 DEF Mac!MacInv, Mac!TempInv, Mac!StepInv
    <2>3. v1 # "admission" => v5.owner = "ours" /\ v5.whole /\ ~v5.override
      BY <1>2, <2>1 DEF Mac!MacInv, Mac!OutputInv, Mac!Ending
    <2>4. /\ v1 = "published" => v5.exact
          /\ v1 # "package" => v4.native /\ v4.isolated /\ ~v9
      BY <1>2, <2>1 DEF Mac!MacInv, Mac!OutputInv, Mac!AdmittedInv
    <2> QED
      BY <2>2, <2>3, <2>4
  <1> QED
    BY <1>1, <1>2 DEF Mac!PassIsEarned

-----------------------------------------------------------------------------
(* The preparation of a project: step, phase, source, copy, known, report,  *)
(* saved and trial are v1 to v8.                                            *)

prepareVars == <<v1, v2, v3, v4, v5, v6, v7, v8>>

LEMMA PrepareInit == Prepare!Init => Prepare!PrepareInv
  <1> SUFFICES ASSUME Prepare!Init PROVE Prepare!PrepareInv
    OBVIOUS
  <1>1. /\ v1 = "begin" /\ v2 = "bootstrap" /\ v6.status = "failed" /\ ~v6.restored
        /\ v5.original = "none" /\ v5 \in [git : BOOLEAN, changed : BOOLEAN, original : Prepare!Contents]
        /\ v3 \in [changed : BOOLEAN, moved : BOOLEAN, override : BOOLEAN]
    BY DEF Prepare!Init, Prepare!Contents
  <1>2. /\ v6 \in [status : Prepare!Statuses, bootstrap : Prepare!Statuses,
                   qualification : Prepare!Statuses, restored : BOOLEAN, lost : BOOLEAN]
        /\ v4 \in [exact : BOOLEAN, config : Prepare!Contents, registry : {"none", "known", "other"},
                   override : BOOLEAN]
        /\ v8 \in [Prepare!Phases -> Prepare!Contents]
    BY DEF Prepare!Init, Prepare!Contents, Prepare!Statuses
  <1>3. /\ v7 \in [status : Prepare!Statuses, bootstrap : Prepare!Statuses,
                   qualification : Prepare!Statuses, restored : BOOLEAN, lost : BOOLEAN]
        /\ v7.status = "none"
    BY <1>2 DEF Prepare!Init, Prepare!Statuses
  <1>4. Prepare!TypeOK
    BY <1>1, <1>2 DEF Prepare!TypeOK, Prepare!Phases
  <1>5. Prepare!TrialInv /\ Prepare!RestoredInv
    BY <1>1 DEF Prepare!TrialInv, Prepare!RestoredInv, Prepare!Late
  <1> QED
    BY <1>2, <1>3, <1>4, <1>5 DEF Prepare!PrepareInv

\* prepare()'s try block: each step alone keeps the invariant.
LEMMA PrepareTry ==
  ASSUME Prepare!PrepareInv,
         \/ Prepare!Begin \/ Prepare!Admit \/ Prepare!StageCopy \/ Prepare!Configure \/ Prepare!Check
         \/ Prepare!WriteConfiguration \/ Prepare!Start \/ Prepare!Import \/ Prepare!Imported
         \/ Prepare!SaveLast
  PROVE  Prepare!PrepareInv'
  <1> USE DEF Prepare!PrepareInv, Prepare!TypeOK, Prepare!TrialInv, Prepare!RestoredInv, Prepare!Early,
              Prepare!Late, Prepare!Contents, Prepare!Statuses, Prepare!Phases, Prepare!Raise
  <1>1. CASE Prepare!Begin
    BY <1>1 DEF Prepare!Begin
  <1>2. CASE Prepare!Admit
    BY <1>2 DEF Prepare!Admit
  <1>3. CASE Prepare!StageCopy
    BY <1>3 DEF Prepare!StageCopy
  <1>4. CASE Prepare!Configure
    BY <1>4 DEF Prepare!Configure, Prepare!Save, Prepare!SourceHolds, Prepare!Rewritable
  <1>5. CASE Prepare!Check
    BY <1>5 DEF Prepare!Check, Prepare!SourceHolds, Prepare!CopyHolds, Prepare!Before
  <1>6. CASE Prepare!WriteConfiguration
    BY <1>6 DEF Prepare!WriteConfiguration
  <1>7. CASE Prepare!Start
    BY <1>7 DEF Prepare!Start, Prepare!Save, Prepare!CopyHolds
  <1>8. CASE Prepare!Import
    BY <1>8 DEF Prepare!Import
  <1>9. CASE Prepare!Imported
    BY <1>9 DEF Prepare!Imported, Prepare!CopyHolds
  <1>10. CASE Prepare!SaveLast
    BY <1>10 DEF Prepare!SaveLast
  <1> QED
    BY <1>1, <1>2, <1>3, <1>4, <1>5, <1>6, <1>7, <1>8, <1>9, <1>10

\* Custody is lost on the way out, and the report says so.
LEMMA PrepareLoses ==
  ASSUME Prepare!PrepareInv, Prepare!LoseCustody, v1 \in {"inspect", "restore", "verify"},
         UNCHANGED <<v2, v3, v4, v5, v7, v8>>
  PROVE  Prepare!PrepareInv'
  <1>1. /\ v6' \in [status : Prepare!Statuses, bootstrap : Prepare!Statuses,
                    qualification : Prepare!Statuses, restored : BOOLEAN, lost : BOOLEAN]
        /\ v6'.status = "failed" /\ v6'.lost /\ v6'.restored = v6.restored
        /\ v6'.bootstrap = v6.bootstrap /\ v6'.qualification = v6.qualification /\ v1' = "save"
    BY DEF Prepare!PrepareInv, Prepare!TypeOK, Prepare!Statuses, Prepare!LoseCustody
  <1>2. Prepare!TypeOK'
    BY <1>1 DEF Prepare!PrepareInv, Prepare!TypeOK
  <1>3. Prepare!TrialInv'
    BY <1>1 DEF Prepare!PrepareInv, Prepare!TrialInv, Prepare!Early
  <1>4. Prepare!RestoredInv'
    BY <1>1 DEF Prepare!PrepareInv, Prepare!RestoredInv, Prepare!Late
  <1> QED
    BY <1>1, <1>2, <1>3, <1>4 DEF Prepare!PrepareInv

\* prepare()'s finally block.
LEMMA PrepareFinally ==
  ASSUME Prepare!PrepareInv, Prepare!Inspect \/ Prepare!Restore \/ Prepare!VerifyRestored
  PROVE  Prepare!PrepareInv'
  <1> DEFINE Same == UNCHANGED <<v2, v3, v5, v7, v8>>
  <1>1. Same /\ v1 \in {"inspect", "restore", "verify"}
    BY DEF Prepare!Inspect, Prepare!Restore, Prepare!VerifyRestored
  <1>2. CASE Prepare!LoseCustody /\ v4' = v4
    BY <1>1, <1>2, PrepareLoses
  <1>3. CASE Prepare!Inspect /\ ~Prepare!LoseCustody
    <2>1. /\ UNCHANGED <<v2, v3, v4, v5, v6, v7, v8>> /\ v1 = "inspect"
          /\ v1' = (IF v5.original = "none" THEN "save" ELSE "restore")
      BY <1>3 DEF Prepare!Inspect
    <2>2. Prepare!TypeOK'
      BY <2>1 DEF Prepare!PrepareInv, Prepare!TypeOK
    <2>3. Prepare!TrialInv'
      BY <2>1 DEF Prepare!PrepareInv, Prepare!TrialInv, Prepare!Early, Prepare!Late
    <2>4. Prepare!RestoredInv'
      BY <2>1 DEF Prepare!PrepareInv, Prepare!RestoredInv, Prepare!Late
    <2> QED
      BY <2>1, <2>2, <2>3, <2>4 DEF Prepare!PrepareInv
  <1>4. CASE Prepare!Restore /\ ~(Prepare!LoseCustody /\ v4' = v4)
    <2>1. /\ UNCHANGED <<v2, v3, v5, v6, v7, v8>> /\ v1 = "restore" /\ v1' = "verify"
          /\ v4' = [v4 EXCEPT !.config = v5.original]
      BY <1>4 DEF Prepare!Restore
    <2>2. v4' \in [exact : BOOLEAN, config : Prepare!Contents, registry : {"none", "known", "other"},
                   override : BOOLEAN]
      BY <2>1 DEF Prepare!PrepareInv, Prepare!TypeOK
    <2>3. Prepare!TypeOK'
      BY <2>1, <2>2 DEF Prepare!PrepareInv, Prepare!TypeOK
    <2>4. Prepare!TrialInv'
      BY <2>1 DEF Prepare!PrepareInv, Prepare!TrialInv, Prepare!Early, Prepare!Late
    <2>5. Prepare!RestoredInv'
      BY <2>1 DEF Prepare!PrepareInv, Prepare!RestoredInv, Prepare!Late
    <2> QED
      BY <2>1, <2>3, <2>4, <2>5 DEF Prepare!PrepareInv
  <1>5. CASE Prepare!VerifyRestored /\ ~Prepare!LoseCustody
    <2>1. /\ UNCHANGED <<v2, v3, v4, v5, v7, v8>> /\ v1 = "verify" /\ v1' = "save"
          /\ v6' = [v6 EXCEPT !.restored = TRUE]
          /\ Prepare!CopyHolds(v5.original) /\ Prepare!SourceHolds
      BY <1>5 DEF Prepare!VerifyRestored
    <2>2. /\ v6' \in [status : Prepare!Statuses, bootstrap : Prepare!Statuses,
                      qualification : Prepare!Statuses, restored : BOOLEAN, lost : BOOLEAN]
          /\ v6'.status = v6.status /\ v6'.bootstrap = v6.bootstrap /\ v6'.restored
          /\ v6'.qualification = v6.qualification
      BY <2>1 DEF Prepare!PrepareInv, Prepare!TypeOK
    <2>3. Prepare!TypeOK'
      BY <2>1, <2>2 DEF Prepare!PrepareInv, Prepare!TypeOK
    <2>4. Prepare!TrialInv'
      BY <2>1, <2>2 DEF Prepare!PrepareInv, Prepare!TrialInv, Prepare!Early, Prepare!Late
    <2>5. Prepare!RestoredInv'
      <3>1. /\ v4.exact /\ ~v4.override /\ v4.config = v5.original /\ ~v3.override
            /\ v3.changed = v5.changed /\ (v5.git => ~v3.moved /\ ~v3.changed)
        BY <2>1 DEF Prepare!CopyHolds, Prepare!SourceHolds
      <3> QED
        BY <2>1, <2>2, <3>1 DEF Prepare!RestoredInv, Prepare!Late
    <2> QED
      BY <2>1, <2>2, <2>3, <2>4, <2>5 DEF Prepare!PrepareInv
  <1>6. Prepare!Inspect \/ Prepare!VerifyRestored => v4' = v4
    BY DEF Prepare!Inspect, Prepare!VerifyRestored
  <1> QED
    BY <1>2, <1>3, <1>4, <1>5, <1>6

\* The source and the copy change under the program, until it has looked for the last time.
LEMMA PrepareChanges ==
  ASSUME Prepare!PrepareInv, Prepare!ChangeSource \/ Prepare!ChangeCopy
  PROVE  Prepare!PrepareInv'
  <1>1. /\ v1 \notin {"begin", "save", "done"} /\ UNCHANGED <<v1, v2, v5, v6, v7, v8>> /\ ~v6.restored
    BY DEF Prepare!ChangeSource, Prepare!ChangeCopy, Prepare!Watched, Prepare!PrepareInv,
           Prepare!RestoredInv, Prepare!Late
  <1>2. v3' \in [changed : BOOLEAN, moved : BOOLEAN, override : BOOLEAN]
    BY DEF Prepare!ChangeSource, Prepare!ChangeCopy, Prepare!PrepareInv, Prepare!TypeOK
  <1>3. /\ v4' \in [exact : BOOLEAN, config : Prepare!Contents, registry : {"none", "known", "other"},
                    override : BOOLEAN]
        /\ v4'.config \in {v4.config, "edited", "unknown"}
    BY DEF Prepare!ChangeSource, Prepare!ChangeCopy, Prepare!PrepareInv, Prepare!TypeOK, Prepare!Contents
  <1>4. Prepare!TypeOK'
    BY <1>1, <1>2, <1>3 DEF Prepare!PrepareInv, Prepare!TypeOK
  <1>5. Prepare!TrialInv'
    BY <1>1, <1>3 DEF Prepare!PrepareInv, Prepare!TypeOK, Prepare!TrialInv, Prepare!Phases
  <1>6. Prepare!RestoredInv'
    BY <1>1 DEF Prepare!PrepareInv, Prepare!RestoredInv, Prepare!Late
  <1> QED
    BY <1>1, <1>4, <1>5, <1>6 DEF Prepare!PrepareInv

LEMMA PrepareStep == ASSUME Prepare!PrepareInv, [Prepare!Next]_prepareVars PROVE Prepare!PrepareInv'
  <1>1. CASE UNCHANGED prepareVars
    BY <1>1 DEF prepareVars, Prepare!PrepareInv, Prepare!TypeOK, Prepare!TrialInv, Prepare!RestoredInv
  <1>2. CASE Prepare!Next
    BY <1>2, PrepareTry, PrepareFinally, PrepareChanges DEF Prepare!Next
  <1> QED
    BY <1>1, <1>2

LEMMA PrepareTells == Prepare!PrepareInv => Prepare!PassIsEarned /\ Prepare!LostIsSaid
  <1> SUFFICES ASSUME Prepare!PrepareInv PROVE Prepare!PassIsEarned /\ Prepare!LostIsSaid
    OBVIOUS
  <1>1. Prepare!PassIsEarned
    BY DEF Prepare!PassIsEarned, Prepare!PrepareInv, Prepare!TrialInv, Prepare!RestoredInv, Prepare!Late
  <1>2. Prepare!LostIsSaid
    BY DEF Prepare!LostIsSaid, Prepare!PrepareInv, Prepare!RestoredInv, Prepare!Late
  <1> QED
    BY <1>1, <1>2

-----------------------------------------------------------------------------
(* The load run: step, args, report, known, server, observation, peers,     *)
(* probe, artifact, others, late and alone are v1 to v12.                   *)

loadVars == <<v1, v2, v3, v4, v5, v6, v7, v8, v9, v10, v11, v12>>
LoadReports == [errors : BOOLEAN, passed : BOOLEAN, written : BOOLEAN]
LoadServers == [container : {"absent", "running", "gone"}, client : {"none", "running", "ok", "failed"},
                script : BOOLEAN]

LEMMA LoadInit == Load!Init => Load!LoadInv
  <1> SUFFICES ASSUME Load!Init PROVE Load!LoadInv
    OBVIOUS
  <1>1. Load!TypeOK
    BY DEF Load!Init, Load!TypeOK, Load!NoArgs, Load!NoObservation
  <1>2. /\ v4 \in Load!Knowledge /\ v8 \in BOOLEAN /\ v9 \in BOOLEAN /\ v10 \in BOOLEAN
        /\ v11 \in BOOLEAN /\ v12 \in BOOLEAN
    BY DEF Load!Init, Load!Knowledge, Load!Unknown, Load!NoObservation
  <1>3. Load!WorldInv
    BY DEF Load!Init, Load!WorldInv, Load!Unknown, Load!NoObservation
  <1>4. Load!ClearedInv /\ Load!VerdictInv
    BY DEF Load!Init, Load!ClearedInv, Load!VerdictInv, Load!Cleared, Load!Clearing, Load!Unknown
  <1> QED
    BY <1>1, <1>2, <1>3, <1>4 DEF Load!LoadInv

\* An error is recorded, or there is none to record.
LEMMA LoadRecords ==
  ASSUME NEW old \in LoadReports, NEW failed \in BOOLEAN, NEW new,
         new = [old EXCEPT !.errors = @ \/ failed]
  PROVE  /\ new \in LoadReports /\ new.passed = old.passed /\ new.written = old.written
         /\ new.errors = (old.errors \/ failed)
  <1> DEFINE errors == old.errors \/ failed
  <1>1. errors \in BOOLEAN /\ new = [old EXCEPT !.errors = errors]
    BY DEF LoadReports
  <1> HIDE DEF errors
  <1>2. /\ new \in LoadReports /\ new.passed = old.passed /\ new.written = old.written
        /\ new.errors = errors
    BY <1>1 DEF LoadReports
  <1> QED
    BY <1>2 DEF errors

\* A step of the run, to another one or out of it.
LEMMA LoadRuns ==
  ASSUME Load!LoadInv, v1 \in Load!Running, v1' \in Load!Running \cup {"containers"},
         v2' = v2, v3' \in LoadReports, v3'.passed = v3.passed, v3.errors => v3'.errors,
         v12' \in BOOLEAN, ~v12' => ~v12 \/ v3'.errors,
         v1' = "containers" => \/ v3'.errors \/ v4'.interrupted
                               \/ v4'.judged /\ v7' = "ok" /\ v5'.client = "ok",
         v4' \in Load!Knowledge, v4'.groups = v4.groups, v4'.absent = v4.absent,
         v4'.read \in {v4.read, v6}, v4.fingerprints => v4'.fingerprints,
         v1' \in {"engine", "launch", "setup", "spawn", "watch", "ended"} => v4'.fingerprints,
         v1' = "prepare" => ~v4'.private, v1' # "qualify",
         v5' \in LoadServers, v5'.container = v5.container, v5'.client \in {v5.client, "running"},
         v6' = v6, v8' \in BOOLEAN, v9' = v9, v10' = v10, v11' \in BOOLEAN,
         \/ v7' = v7
         \/ v7' \in {"running", "ok", "failed"} /\ v5.container # "absent" /\ v4'.fingerprints
  PROVE  Load!LoadInv'
  <1>1. /\ v3 \in LoadReports /\ v3.passed = FALSE /\ v4.groups = FALSE /\ v4.absent = FALSE
    BY DEF Load!LoadInv, Load!TypeOK, Load!VerdictInv, Load!ClearedInv, Load!Knowledge, LoadReports,
           Load!Running, Load!Cleared
  <1>2. Load!TypeOK'
    BY DEF Load!LoadInv, Load!TypeOK, LoadReports, LoadServers, Load!Clearing
  <1>3. Load!WorldInv'
    BY DEF Load!LoadInv, Load!WorldInv, Load!Running, LoadServers
  <1>4. Load!ClearedInv'
    BY <1>1 DEF Load!ClearedInv, Load!Running, Load!Cleared
  <1>5. /\ v12 \in BOOLEAN /\ v12' \in BOOLEAN /\ v3.errors \in BOOLEAN /\ v3'.errors \in BOOLEAN
        /\ ~v12 => v3.errors
    BY <1>1 DEF Load!LoadInv, Load!VerdictInv, LoadReports
  <1>6. ~v12' => v3'.errors
    BY <1>5
  <1>7. v1' \in Load!Clearing \cup {"exited"} /\ ~v3'.errors /\ ~v4'.interrupted =>
          v4'.judged /\ v7' = "ok" /\ v5'.client = "ok"
    BY DEF Load!Running, Load!Clearing
  <1>8. Load!VerdictInv'
    BY <1>1, <1>6, <1>7 DEF Load!VerdictInv
  <1> QED
    BY <1>2, <1>3, <1>4, <1>8 DEF Load!LoadInv

\* An exception that no handler of main() expects records nothing, any other an error.
LEMMA LoadRaises ==
  ASSUME Load!LoadInv, NEW recorded \in BOOLEAN, Load!Raises(recorded)
  PROVE  /\ v1' = "containers" /\ v3' \in LoadReports /\ v3'.passed = v3.passed
         /\ v3'.errors = (v3.errors \/ recorded)
  <1> v3 \in LoadReports
    BY DEF Load!LoadInv, Load!TypeOK, LoadReports
  <1> QED
    BY LoadRecords DEF Load!Raises

LEMMA LoadFails ==
  ASSUME Load!LoadInv, Load!Failed
  PROVE  v1' = "containers" /\ v3' \in LoadReports /\ v3'.passed = v3.passed /\ v3'.errors = TRUE
  <1> QED
    BY LoadRaises DEF Load!Failed

\* What the other steps of main() start from.
LEMMA LoadKnown ==
  ASSUME Load!LoadInv
  PROVE  /\ v3 \in LoadReports /\ v4 \in Load!Knowledge /\ v5 \in LoadServers
         /\ v6 \in [status : {"none", "setup_ready", "complete"}, sound : BOOLEAN]
         /\ v7 \in {"none", "running", "ok", "failed", "stopped"}
         /\ v8 \in BOOLEAN /\ v9 \in BOOLEAN /\ v10 \in BOOLEAN /\ v11 \in BOOLEAN /\ v12 \in BOOLEAN
         /\ v3.errors \in BOOLEAN
  <1> QED
    BY DEF Load!LoadInv, Load!TypeOK, LoadReports, LoadServers

LEMMA LoadInterrupt == ASSUME Load!LoadInv, Load!Interrupt PROVE Load!LoadInv'
  <1>1. v1 \in Load!Running /\ Load!Raises(FALSE) /\ v4' = [v4 EXCEPT !.interrupted = TRUE]
        /\ UNCHANGED <<v2, v5, v6, v7, v8, v9, v10, v11, v12>>
    BY DEF Load!Interrupt, Load!world
  <1>2. v4' \in Load!Knowledge /\ v4'.interrupted /\ v4'.groups = v4.groups
        /\ v4'.absent = v4.absent /\ v4'.read = v4.read /\ v4'.fingerprints = v4.fingerprints
    BY <1>1, LoadKnown DEF Load!Knowledge
  <1> QED
    BY <1>1, <1>2, LoadRaises, LoadKnown, LoadRuns

LEMMA LoadQualify == ASSUME Load!LoadInv, Load!Qualify PROVE Load!LoadInv'
  <1>1. v1 = "qualify" /\ UNCHANGED <<v2, v4, v5, v6, v7, v8, v9, v10, v11>>
    BY DEF Load!Qualify, Load!world
  <1>2. ~v4.private
    BY <1>1 DEF Load!LoadInv, Load!WorldInv
  <1>3. CASE Load!Failed /\ v12' \in BOOLEAN
    BY <1>1, <1>3, LoadFails, LoadKnown, LoadRuns DEF Load!Running
  <1>4. CASE v1' = "prepare" /\ v3' = v3 /\ v12' = TRUE
    BY <1>1, <1>2, <1>4, LoadKnown, LoadRuns DEF Load!Running
  <1> QED
    BY <1>3, <1>4, LoadKnown DEF Load!Qualify

LEMMA LoadPrepare == ASSUME Load!LoadInv, Load!Prepare PROVE Load!LoadInv'
  <1>1. v1 = "prepare" /\ UNCHANGED <<v2, v5, v6, v7, v8, v9, v10, v11, v12>>
    BY DEF Load!Prepare, Load!world
  <1>2. CASE /\ v4' = [v4 EXCEPT !.private = TRUE, !.fingerprints = TRUE]
             /\ v1' = "engine" /\ v3' = v3
    <2>1. v4' \in Load!Knowledge /\ v4'.fingerprints /\ v4'.groups = v4.groups
          /\ v4'.absent = v4.absent /\ v4'.read = v4.read
      BY <1>2, LoadKnown DEF Load!Knowledge
    <2> QED
      BY <1>1, <1>2, <2>1, LoadKnown, LoadRuns DEF Load!Running
  <1>3. ASSUME NEW made \in BOOLEAN, v4' = [v4 EXCEPT !.private = made], Load!Failed
        PROVE  Load!LoadInv'
    <2>1. v4' \in Load!Knowledge /\ v4'.fingerprints = v4.fingerprints /\ v4'.groups = v4.groups
          /\ v4'.absent = v4.absent /\ v4'.read = v4.read
      BY <1>3, LoadKnown DEF Load!Knowledge
    <2> QED
      BY <1>1, <1>3, <2>1, LoadFails, LoadKnown, LoadRuns DEF Load!Running
  <1> QED
    BY <1>2, <1>3 DEF Load!Prepare

LEMMA LoadProbeEngine == ASSUME Load!LoadInv, Load!ProbeEngine PROVE Load!LoadInv'
  <1>1. v1 = "engine" /\ UNCHANGED <<v2, v4, v5, v6, v7, v9, v10, v11, v12>>
    BY DEF Load!ProbeEngine
  <1>2. v4.fingerprints
    BY <1>1 DEF Load!LoadInv, Load!WorldInv
  <1>3. CASE Load!Failed /\ v8' \in BOOLEAN
    BY <1>1, <1>2, <1>3, LoadFails, LoadKnown, LoadRuns DEF Load!Running
  <1>4. CASE v1' = "launch" /\ v3' = v3 /\ v8' = v8
    BY <1>1, <1>2, <1>4, LoadKnown, LoadRuns DEF Load!Running
  <1> QED
    BY <1>3, <1>4 DEF Load!ProbeEngine

LEMMA LoadLaunch == ASSUME Load!LoadInv, Load!Launch PROVE Load!LoadInv'
  <1>1. v1 = "launch" /\ UNCHANGED <<v2, v6, v7, v8, v9, v10, v12>>
    BY DEF Load!Launch
  <1>2. v4.fingerprints
    BY <1>1 DEF Load!LoadInv, Load!WorldInv
  <1>3. CASE Load!Failed /\ UNCHANGED <<v4, v5, v11>>
    BY <1>1, <1>2, <1>3, LoadFails, LoadKnown, LoadRuns DEF Load!Running
  <1>4. CASE /\ v1' = "setup" /\ v4' = [v4 EXCEPT !.client = TRUE] /\ v11' = FALSE
             /\ v5' = [v5 EXCEPT !.client = "running"] /\ v3' = v3
    <2>1. v4' \in Load!Knowledge /\ v4'.fingerprints = v4.fingerprints /\ v4'.groups = v4.groups
          /\ v4'.absent = v4.absent /\ v4'.read = v4.read
      BY <1>4, LoadKnown DEF Load!Knowledge
    <2>2. v5' \in LoadServers /\ v5'.container = v5.container /\ v5'.client = "running"
      BY <1>4, LoadKnown DEF LoadServers
    <2> QED
      BY <1>1, <1>2, <1>4, <2>1, <2>2, LoadKnown, LoadRuns DEF Load!Running
  <1> QED
    BY <1>3, <1>4 DEF Load!Launch

LEMMA LoadAwaitSetup == ASSUME Load!LoadInv, Load!AwaitSetup PROVE Load!LoadInv'
  <1>1. v1 = "setup" /\ v4' = [v4 EXCEPT !.read = v6]
        /\ UNCHANGED <<v2, v5, v6, v7, v8, v9, v10, v11, v12>>
    BY DEF Load!AwaitSetup, Load!world
  <1>2. v4.fingerprints
    BY <1>1 DEF Load!LoadInv, Load!WorldInv
  <1>3. v4' \in Load!Knowledge /\ v4'.fingerprints = v4.fingerprints /\ v4'.groups = v4.groups
        /\ v4'.absent = v4.absent /\ v4'.read = v6
    BY <1>1, LoadKnown DEF Load!Knowledge
  <1>4. CASE Load!Failed
    BY <1>1, <1>2, <1>3, <1>4, LoadFails, LoadKnown, LoadRuns DEF Load!Running
  <1>5. CASE v1' = "spawn" /\ v3' = v3
    BY <1>1, <1>2, <1>3, <1>5, LoadKnown, LoadRuns DEF Load!Running
  <1> QED
    BY <1>4, <1>5 DEF Load!AwaitSetup

LEMMA LoadSpawnPeers == ASSUME Load!LoadInv, Load!SpawnPeers PROVE Load!LoadInv'
  <1>1. v1 = "spawn" /\ UNCHANGED <<v2, v4, v5, v6, v8, v9, v10, v12>>
    BY DEF Load!SpawnPeers
  <1>2. v4.fingerprints
    BY <1>1 DEF Load!LoadInv, Load!WorldInv
  <1>3. CASE v5.container = "running" /\ v1' = "watch" /\ v3' = v3 /\ v7' = "running" /\ v11' = FALSE
    BY <1>1, <1>2, <1>3, LoadKnown, LoadRuns DEF Load!Running
  <1>4. CASE Load!Failed /\ v11' = v11 /\ (v7' = v7 \/ (v5.container = "running" /\ v7' = "running"))
    BY <1>1, <1>2, <1>4, LoadFails, LoadKnown, LoadRuns DEF Load!Running
  <1> QED
    BY <1>3, <1>4 DEF Load!SpawnPeers

LEMMA LoadWatch == ASSUME Load!LoadInv, Load!Watch PROVE Load!LoadInv'
  <1>1. v1 = "watch" /\ UNCHANGED <<v2, v4, v5, v6, v7, v8, v9, v10, v11>>
    BY DEF Load!Watch, Load!world
  <1>2. v4.fingerprints
    BY <1>1 DEF Load!LoadInv, Load!WorldInv
  <1>3. CASE Load!Failed /\ v12' \in BOOLEAN
    BY <1>1, <1>2, <1>3, LoadFails, LoadKnown, LoadRuns DEF Load!Running
  <1>4. CASE v1' = "ended" /\ v3' = v3 /\ v12' = v12
    BY <1>1, <1>2, <1>4, LoadKnown, LoadRuns DEF Load!Running
  <1> QED
    BY <1>3, <1>4, LoadKnown DEF Load!Watch

LEMMA LoadEnded == ASSUME Load!LoadInv, Load!Ended PROVE Load!LoadInv'
  <1>1. v1 = "ended" /\ UNCHANGED <<v2, v5, v6, v8, v9, v10, v11, v12>>
    BY DEF Load!Ended
  <1>2. v4.fingerprints
    BY <1>1 DEF Load!LoadInv, Load!WorldInv
  <1>3. CASE Load!Failed /\ UNCHANGED <<v4, v7>>
    BY <1>1, <1>2, <1>3, LoadFails, LoadKnown, LoadRuns DEF Load!Running
  <1>4. ASSUME NEW last \in (IF v7 = "running" THEN {"ok", "failed"} ELSE {v7}), v7' = last,
               v4' = [v4 EXCEPT !.read = v6, !.judged = TRUE],
               IF v5.client = "ok" /\ last = "ok" THEN v1' = "containers" /\ v3' = v3
                                                  ELSE Load!Failed
        PROVE  Load!LoadInv'
    <2>1. v4' \in Load!Knowledge /\ v4'.fingerprints = v4.fingerprints /\ v4'.groups = v4.groups
          /\ v4'.absent = v4.absent /\ v4'.read = v6 /\ v4'.judged = TRUE
      BY <1>4, LoadKnown DEF Load!Knowledge
    <2>2. \/ v7' = v7
          \/ v7' \in {"running", "ok", "failed"} /\ v5.container # "absent" /\ v4'.fingerprints
      BY <1>2, <1>4, <2>1 DEF Load!LoadInv, Load!WorldInv
    <2>3. CASE Load!Failed
      BY <1>1, <1>2, <2>1, <2>2, <2>3, LoadFails, LoadKnown, LoadRuns DEF Load!Running
    <2>4. CASE v5.client = "ok" /\ last = "ok" /\ v1' = "containers" /\ v3' = v3
      BY <1>1, <1>2, <1>4, <2>1, <2>2, <2>4, LoadKnown, LoadRuns DEF Load!Running
    <2> QED
      BY <1>4, <2>3, <2>4
  <1> QED
    BY <1>3, <1>4 DEF Load!Ended

\* The clean-up and the verdict.
LEMMA LoadRemoveContainers == ASSUME Load!LoadInv, Load!RemoveContainers PROVE Load!LoadInv'
  <1>1. PICK recorded \in BOOLEAN :
          /\ v1 = "containers" /\ v1' = "groups" /\ v3' = [v3 EXCEPT !.errors = @ \/ recorded]
          /\ \/ v5' = v5
             \/ v5.container = "running" /\ v5' = [v5 EXCEPT !.container = "gone"]
          /\ v8' \in {v8, FALSE}
          /\ UNCHANGED <<v2, v4, v6, v7, v9, v10, v11, v12>>
    BY DEF Load!RemoveContainers
  <1>2. v3' \in LoadReports /\ v3'.passed = v3.passed /\ v3'.errors = (v3.errors \/ recorded)
    BY <1>1, LoadKnown, LoadRecords
  <1>3. /\ v5' \in LoadServers /\ v5'.client = v5.client
        /\ v5'.container = "absent" <=> v5.container = "absent"
    BY <1>1, LoadKnown DEF LoadServers
  <1>4. v8' \in BOOLEAN
    BY <1>1, LoadKnown
  <1>5. v4.groups = FALSE /\ v4.absent = FALSE /\ v3.passed = FALSE
    BY <1>1, LoadKnown DEF Load!LoadInv, Load!ClearedInv, Load!VerdictInv, Load!Cleared, Load!Knowledge, LoadReports
  <1>6. Load!TypeOK' /\ v4' \in Load!Knowledge
    BY <1>1, <1>2, <1>3 DEF Load!LoadInv, Load!TypeOK, Load!Clearing, LoadReports, LoadServers
  <1>7. Load!WorldInv'
    BY <1>1, <1>3 DEF Load!LoadInv, Load!WorldInv
  <1>8. Load!ClearedInv'
    BY <1>1, <1>2, <1>3, <1>5 DEF Load!ClearedInv
  <1>9. Load!VerdictInv'
    BY <1>1, <1>2, <1>3, <1>5, LoadKnown DEF Load!LoadInv, Load!VerdictInv, Load!Clearing
  <1> QED
    BY <1>1, <1>4, <1>6, <1>7, <1>8, <1>9 DEF Load!LoadInv

LEMMA LoadStopGroups == ASSUME Load!LoadInv, Load!StopGroups PROVE Load!LoadInv'
  <1>1. PICK emptied \in BOOLEAN :
          /\ v1 = "groups" /\ v1' = "logs" /\ v4' = [v4 EXCEPT !.groups = emptied]
          /\ emptied => /\ v5' = [v5 EXCEPT !.client = IF @ = "running" THEN "failed" ELSE @]
                        /\ v7' = IF v7 = "running" THEN "stopped" ELSE v7
          /\ ~emptied => v5' = v5 /\ v7' = v7
          /\ UNCHANGED <<v2, v3, v6, v8, v9, v10, v11, v12>>
    BY DEF Load!StopGroups
  <1>2. /\ v4' \in Load!Knowledge /\ v4'.groups = emptied /\ v4'.absent = v4.absent
        /\ v4'.read = v4.read /\ v4'.fingerprints = v4.fingerprints /\ v4'.private = v4.private
        /\ v4'.judged = v4.judged /\ v4'.interrupted = v4.interrupted
    BY <1>1, LoadKnown DEF Load!Knowledge
  <1>3. /\ v5' \in LoadServers /\ v5'.container = v5.container /\ v5'.script = v5.script
        /\ v5'.client = "none" => v5.client = "none"
        /\ v5.client = "ok" => v5'.client = "ok"
        /\ emptied => v5'.client # "running"
    BY <1>1, LoadKnown DEF LoadServers
  <1>4. /\ v7' \in {"none", "running", "ok", "failed", "stopped"}
        /\ v7' = "none" <=> v7 = "none"
        /\ v7 = "ok" => v7' = "ok"
        /\ emptied => v7' # "running"
    BY <1>1, LoadKnown
  <1>5. v4.absent = FALSE /\ v3.passed = FALSE
    BY <1>1, LoadKnown DEF Load!LoadInv, Load!ClearedInv, Load!VerdictInv, Load!Knowledge, LoadReports
  <1>6. Load!TypeOK'
    BY <1>1, <1>3, <1>4 DEF Load!LoadInv, Load!TypeOK, Load!Clearing, LoadServers
  <1>7. Load!WorldInv'
    BY <1>1, <1>2, <1>3, <1>4 DEF Load!LoadInv, Load!WorldInv
  <1>8. Load!ClearedInv'
    BY <1>1, <1>2, <1>3, <1>4, <1>5 DEF Load!LoadInv, Load!ClearedInv, Load!Cleared
  <1>9. Load!VerdictInv'
    BY <1>1, <1>2, <1>3, <1>4, <1>5 DEF Load!LoadInv, Load!VerdictInv, Load!Clearing
  <1> QED
    BY <1>1, <1>2, <1>6, <1>7, <1>8, <1>9 DEF Load!LoadInv

LEMMA LoadReadLogs == ASSUME Load!LoadInv, Load!ReadLogs PROVE Load!LoadInv'
  <1>1. /\ v1 = "logs" /\ v1' = "inventory"
        /\ v4' = [v4 EXCEPT !.read = IF v6 = Load!NoObservation THEN @ ELSE v6]
        /\ v3' = [v3 EXCEPT !.errors = @ \/ v5.script]
        /\ UNCHANGED <<v2, v5, v6, v7, v8, v9, v10, v11, v12>>
    BY DEF Load!ReadLogs, Load!world
  <1>2. v5.script \in BOOLEAN
    BY LoadKnown DEF LoadServers
  <1>3. v3' \in LoadReports /\ v3'.passed = v3.passed /\ v3'.errors = (v3.errors \/ v5.script)
    BY <1>1, <1>2, LoadKnown, LoadRecords
  <1>4. /\ v4' \in Load!Knowledge /\ v4'.groups = v4.groups /\ v4'.absent = v4.absent
        /\ v4'.read \in {v4.read, v6} /\ v4'.fingerprints = v4.fingerprints /\ v4'.private = v4.private
        /\ v4'.judged = v4.judged /\ v4'.interrupted = v4.interrupted
    BY <1>1, LoadKnown DEF Load!Knowledge
  <1>5. v4.absent = FALSE /\ v3.passed = FALSE
    BY <1>1, LoadKnown DEF Load!LoadInv, Load!ClearedInv, Load!VerdictInv, Load!Knowledge, LoadReports
  <1>6. Load!TypeOK'
    BY <1>1, <1>3 DEF Load!LoadInv, Load!TypeOK, Load!Clearing, LoadReports
  <1>7. Load!WorldInv'
    BY <1>1, <1>4 DEF Load!LoadInv, Load!WorldInv
  <1>8. Load!ClearedInv'
    BY <1>1, <1>3, <1>4, <1>5 DEF Load!LoadInv, Load!ClearedInv, Load!Cleared
  <1>9. Load!VerdictInv'
    BY <1>1, <1>2, <1>3, <1>4, <1>5, LoadKnown DEF Load!LoadInv, Load!VerdictInv, Load!Clearing
  <1> QED
    BY <1>1, <1>4, <1>6, <1>7, <1>8, <1>9 DEF Load!LoadInv

LEMMA LoadInventory == ASSUME Load!LoadInv, Load!Inventory PROVE Load!LoadInv'
  <1> DEFINE lost == v4.fingerprints /\ ~v9
  <1>1. PICK answered \in BOOLEAN :
          /\ v1 = "inventory" /\ v1' = "private"
          /\ v4' = [v4 EXCEPT !.absent = answered /\ v5.container # "running" /\ ~v8]
          /\ v3' = [v3 EXCEPT !.errors = @ \/ lost]
          /\ UNCHANGED <<v2, v5, v6, v7, v8, v9, v10, v11, v12>>
    BY DEF Load!Inventory, Load!world
  <1> DEFINE absent == answered /\ v5.container # "running" /\ ~v8
  <1>2. lost \in BOOLEAN /\ absent \in BOOLEAN /\ v4' = [v4 EXCEPT !.absent = absent]
    BY <1>1
  <1>3. absent => v5.container # "running" /\ ~v8
    OBVIOUS
  <1>4. ~v9 => lost
    BY DEF Load!LoadInv, Load!WorldInv
  <1> HIDE DEF lost, absent
  <1>5. v3' \in LoadReports /\ v3'.passed = v3.passed /\ v3'.errors = (v3.errors \/ lost)
    BY <1>1, <1>2, LoadKnown, LoadRecords
  <1>6. /\ v4' \in Load!Knowledge /\ v4'.groups = v4.groups /\ v4'.absent = absent
        /\ v4'.read = v4.read /\ v4'.fingerprints = v4.fingerprints /\ v4'.private = v4.private
        /\ v4'.judged = v4.judged /\ v4'.interrupted = v4.interrupted
    BY <1>2, LoadKnown DEF Load!Knowledge
  <1>7. v3.passed = FALSE
    BY <1>1, LoadKnown DEF Load!LoadInv, Load!VerdictInv, LoadReports
  <1>8. Load!TypeOK'
    BY <1>1, <1>5 DEF Load!LoadInv, Load!TypeOK, Load!Clearing, LoadReports
  <1>9. Load!WorldInv'
    BY <1>1, <1>6 DEF Load!LoadInv, Load!WorldInv
  <1>10. Load!ClearedInv'
    BY <1>1, <1>2, <1>3, <1>4, <1>5, <1>6, LoadKnown DEF Load!LoadInv, Load!ClearedInv, Load!Cleared
  <1>11. Load!VerdictInv'
    BY <1>1, <1>2, <1>5, <1>6, <1>7, LoadKnown DEF Load!LoadInv, Load!VerdictInv, Load!Clearing
  <1> QED
    BY <1>1, <1>6, <1>8, <1>9, <1>10, <1>11 DEF Load!LoadInv

LEMMA LoadRemovePrivate == ASSUME Load!LoadInv, Load!RemovePrivate PROVE Load!LoadInv'
  <1>1. /\ v1 = "private" /\ v1' = "judge"
        /\ UNCHANGED <<v2, v5, v6, v7, v8, v9, v10, v11, v12>>
    BY DEF Load!RemovePrivate, Load!world
  <1>2. /\ v3' \in LoadReports /\ v3'.passed = v3.passed /\ v3'.errors \in {v3.errors, TRUE}
        /\ v4' = v4 \/ v4' = [v4 EXCEPT !.private = FALSE]
    <2>1. CASE v4' = [v4 EXCEPT !.private = FALSE] /\ v3' = v3
      BY <2>1, LoadKnown
    <2>2. CASE v3' = [v3 EXCEPT !.errors = TRUE] /\ v4' = v4
      BY <2>2, LoadKnown DEF LoadReports
    <2>3. CASE v3' = [v3 EXCEPT !.errors = @ \/ v4.private] /\ v4' = v4
      <3>1. v4.private \in BOOLEAN
        BY LoadKnown DEF Load!Knowledge
      <3>2. /\ v3' \in LoadReports /\ v3'.passed = v3.passed
            /\ v3'.errors = (v3.errors \/ v4.private)
        BY <2>3, <3>1, LoadKnown, LoadRecords
      <3>3. v3'.errors \in {v3.errors, TRUE}
        BY <3>1, <3>2, LoadKnown
      <3> QED
        BY <2>3, <3>2, <3>3
    <2> QED
      BY <2>1, <2>2, <2>3 DEF Load!RemovePrivate
  <1>3. /\ v4' \in Load!Knowledge /\ v4'.groups = v4.groups /\ v4'.absent = v4.absent
        /\ v4'.read = v4.read /\ v4'.fingerprints = v4.fingerprints
        /\ v4'.judged = v4.judged /\ v4'.interrupted = v4.interrupted
    BY <1>2, LoadKnown DEF Load!Knowledge
  <1>4. v3.passed = FALSE
    BY <1>1, LoadKnown DEF Load!LoadInv, Load!VerdictInv, LoadReports
  <1>5. Load!TypeOK'
    BY <1>1, <1>2 DEF Load!LoadInv, Load!TypeOK, Load!Clearing, LoadReports
  <1>6. Load!WorldInv'
    BY <1>1, <1>3 DEF Load!LoadInv, Load!WorldInv
  <1>7. Load!ClearedInv'
    BY <1>1, <1>2, <1>3, LoadKnown DEF Load!LoadInv, Load!ClearedInv, Load!Cleared
  <1>8. Load!VerdictInv'
    BY <1>1, <1>2, <1>3, <1>4, LoadKnown DEF Load!LoadInv, Load!VerdictInv, Load!Clearing
  <1> QED
    BY <1>1, <1>3, <1>5, <1>6, <1>7, <1>8 DEF Load!LoadInv

LEMMA LoadJudge == ASSUME Load!LoadInv, Load!Judge PROVE Load!LoadInv'
  <1> DEFINE passed == Load!Evaluate(v4.read, v3.errors) /\ ~v3.errors /\ v2.ticks = 1000
  <1>1. /\ v1 = "judge" /\ v1' = "exited"
        /\ v3' = [v3 EXCEPT !.written = TRUE, !.passed = passed]
        /\ UNCHANGED <<v2, v4, v5, v6, v7, v8, v9, v10, v11, v12>>
    BY DEF Load!Judge, Load!world
  <1>2. passed \in BOOLEAN
    OBVIOUS
  <1>3. passed => /\ v4.read.status = "complete" /\ v4.read.sound /\ Load!Cleaned /\ ~v3.errors
                  /\ v2.ticks = 1000
    BY DEF Load!Evaluate
  <1> HIDE DEF passed
  <1>4. v3' \in LoadReports /\ v3'.passed = passed /\ v3'.errors = v3.errors
    BY <1>1, <1>2, LoadKnown DEF LoadReports
  <1>5. Load!TypeOK'
    BY <1>1, <1>4 DEF Load!LoadInv, Load!TypeOK, LoadReports
  <1>6. Load!WorldInv'
    BY <1>1 DEF Load!LoadInv, Load!WorldInv
  <1>7. Load!ClearedInv'
    BY <1>1, <1>4 DEF Load!LoadInv, Load!ClearedInv, Load!Cleared
  <1>8. Load!Cleaned' <=> Load!Cleaned
    BY <1>1 DEF Load!Cleaned
  <1>9. Load!VerdictInv'
    BY <1>1, <1>3, <1>4, <1>8 DEF Load!LoadInv, Load!VerdictInv, Load!Clearing
  <1> QED
    BY <1>1, <1>5, <1>6, <1>7, <1>9 DEF Load!LoadInv

\* The world of the run, which changes server and observation.
LEMMA LoadContainer ==
  ASSUME Load!LoadInv, Load!ContainerStarts \/ Load!ScriptError \/ Load!ContainerExits \/ Load!ClientExits
  PROVE  Load!LoadInv'
  <1> DEFINE Starts == /\ v5.client = "running" /\ v5.container = "absent" /\ v5'.container = "running"
                       /\ v5'.client = v5.client /\ v5'.script = v5.script
             Errs == /\ v7 = "running" \/ (v5.container = "running" /\ v5.client = "running")
                     /\ v5'.container = v5.container /\ v5'.client = v5.client
             Exits == /\ v5.container = "running" /\ v5'.container = "gone"
                      /\ v5'.client = v5.client /\ v5'.script = v5.script
             Follows == /\ v5.client = "running" /\ v5'.client \in {"ok", "failed"}
                        /\ v5'.container = v5.container /\ v5'.script = v5.script
  <1>1. UNCHANGED <<v1, v2, v3, v4, v6, v7, v8, v9, v10, v11, v12>>
    BY DEF Load!ContainerStarts, Load!ScriptError, Load!ContainerExits, Load!ClientExits
  <1>2. v5' \in LoadServers /\ (Starts \/ Errs \/ Exits \/ Follows)
    <2>1. CASE Load!ContainerStarts
      BY <2>1, LoadKnown DEF LoadServers, Load!ContainerStarts
    <2>2. CASE Load!ScriptError
      BY <2>2, LoadKnown DEF LoadServers, Load!ScriptError
    <2>3. CASE Load!ContainerExits
      BY <2>3, LoadKnown DEF LoadServers, Load!ContainerExits
    <2>4. CASE Load!ClientExits
      BY <2>4, LoadKnown DEF LoadServers, Load!ClientExits
    <2> QED
      BY <2>1, <2>2, <2>3, <2>4
  <1>3. Load!TypeOK' /\ Load!WorldInv'
    BY <1>1, <1>2 DEF Load!LoadInv, Load!TypeOK, Load!WorldInv, LoadServers
  <1>4. Load!ClearedInv'
    <2>1. Load!ClearedInv
      BY DEF Load!LoadInv
    <2>2. v4.groups => v5.client # "running" /\ v7 # "running"
      BY <2>1 DEF Load!ClearedInv
    <2>3. v4.groups => v5'.client = v5.client /\ (v5'.container = v5.container \/ v5'.container = "gone")
                       /\ v5'.script = v5.script
      BY <1>2, <2>2
    <2> QED
      BY <1>1, <2>1, <2>3 DEF Load!ClearedInv
  <1>5. Load!VerdictInv'
    BY <1>1, <1>2 DEF Load!LoadInv, Load!VerdictInv, Load!Cleaned
  <1> QED
    BY <1>1, <1>3, <1>4, <1>5 DEF Load!LoadInv

LEMMA LoadObserve == ASSUME Load!LoadInv, Load!Observe PROVE Load!LoadInv'
  <1>1. v5.container = "running" /\ UNCHANGED <<v1, v2, v3, v4, v5, v7, v8, v9, v10, v11, v12>>
    BY DEF Load!Observe
  <1>2. /\ v6' \in [status : {"none", "setup_ready", "complete"}, sound : BOOLEAN]
        /\ v6.status # "complete" /\ (v6'.status = "complete" => v7 # "none")
    <2>1. CASE v6.status = "none" /\ v6' = [status |-> "setup_ready", sound |-> FALSE]
      BY <2>1
    <2>2. ASSUME v6.status = "setup_ready", v7 # "none", NEW sound \in BOOLEAN,
                 v6' = [status |-> "complete", sound |-> sound]
          PROVE  /\ v6' \in [status : {"none", "setup_ready", "complete"}, sound : BOOLEAN]
                 /\ v6.status # "complete"
      BY <2>2
    <2> QED
      BY <2>1, <2>2 DEF Load!Observe
  <1>3. v4.read.status # "complete"
    BY <1>2 DEF Load!LoadInv, Load!WorldInv
  <1>4. Load!TypeOK' /\ Load!WorldInv'
    BY <1>1, <1>2, <1>3 DEF Load!LoadInv, Load!TypeOK, Load!WorldInv
  <1>5. Load!ClearedInv'
    BY <1>1 DEF Load!LoadInv, Load!ClearedInv
  <1>6. Load!VerdictInv'
    BY <1>1 DEF Load!LoadInv, Load!VerdictInv, Load!Cleaned
  <1> QED
    BY <1>1, <1>4, <1>5, <1>6 DEF Load!LoadInv

LEMMA LoadPeersChange ==
  ASSUME Load!LoadInv, Load!PeersExit \/ Load!ArtifactChanges
  PROVE  Load!LoadInv'
  <1>1. v7 = "running" /\ UNCHANGED <<v1, v2, v3, v4, v5, v6, v8, v10, v11, v12>>
    BY DEF Load!PeersExit, Load!ArtifactChanges
  <1>2. \/ v7' \in {"ok", "failed"} /\ v9' = v9
        \/ v7' = v7 /\ v9' = FALSE
    BY DEF Load!PeersExit, Load!ArtifactChanges
  <1>3. Load!TypeOK' /\ Load!WorldInv'
    BY <1>1, <1>2 DEF Load!LoadInv, Load!TypeOK, Load!WorldInv
  <1>4. ~v4.groups
    BY <1>1 DEF Load!LoadInv, Load!ClearedInv
  <1>5. Load!ClearedInv'
    BY <1>1, <1>2, <1>4 DEF Load!LoadInv, Load!ClearedInv
  <1>6. Load!VerdictInv'
    BY <1>1, <1>2 DEF Load!LoadInv, Load!VerdictInv, Load!Cleaned
  <1> QED
    BY <1>1, <1>2, <1>3, <1>5, <1>6, LoadKnown DEF Load!LoadInv

\* The other steps change nothing that the invariant connects, or end the process.
LEMMA LoadOtherwise ==
  ASSUME Load!LoadInv,
         UNCHANGED loadVars \/ Load!OthersChange \/ Load!Expire \/ Load!EndEarly \/ Load!Parse
  PROVE  Load!LoadInv'
  <1>1. /\ UNCHANGED <<v3, v4, v5, v6, v7, v8, v9, v12>>
        /\ v10' \in BOOLEAN /\ v11' \in BOOLEAN
        /\ \/ v1' = v1 /\ v2' = v2
           \/ v1 \in Load!Running \cup Load!Clearing /\ v1' = "ended_early" /\ v2' = v2
           \/ /\ v1 = "parse" /\ v1' = "qualify"
              /\ v2' \in [ticks : {60, 1000}, supported : BOOLEAN, audit : BOOLEAN, dirty : BOOLEAN]
    <2>1. CASE UNCHANGED loadVars
      BY <2>1, LoadKnown DEF loadVars
    <2>2. CASE Load!OthersChange \/ Load!Expire
      BY <2>2, LoadKnown DEF Load!OthersChange, Load!Expire
    <2>3. CASE Load!EndEarly
      BY <2>3, LoadKnown DEF Load!EndEarly, Load!world
    <2>4. CASE Load!Parse
      BY <2>4, LoadKnown DEF Load!Parse, Load!world
    <2> QED
      BY <2>1, <2>2, <2>3, <2>4
  <1>2. Load!TypeOK' /\ Load!WorldInv'
    BY <1>1 DEF Load!LoadInv, Load!TypeOK, Load!WorldInv, Load!Running
  <1>3. Load!ClearedInv'
    BY <1>1 DEF Load!LoadInv, Load!ClearedInv, Load!Cleared, Load!Running, Load!Clearing
  <1>4. Load!VerdictInv'
    BY <1>1 DEF Load!LoadInv, Load!VerdictInv, Load!Cleaned, Load!Running, Load!Clearing
  <1> QED
    BY <1>1, <1>2, <1>3, <1>4 DEF Load!LoadInv

LEMMA LoadStep == ASSUME Load!LoadInv, [Load!Next]_loadVars PROVE Load!LoadInv'
  <1>1. CASE UNCHANGED loadVars \/ Load!Environment
    BY <1>1, LoadInterrupt, LoadContainer, LoadObserve, LoadPeersChange, LoadOtherwise
       DEF Load!Environment
  <1>2. CASE Load!Steps
    BY <1>2, LoadOtherwise, LoadQualify, LoadPrepare, LoadProbeEngine, LoadLaunch, LoadAwaitSetup,
       LoadSpawnPeers, LoadWatch, LoadEnded, LoadRemoveContainers, LoadStopGroups, LoadReadLogs,
       LoadInventory, LoadRemovePrivate, LoadJudge DEF Load!Steps
  <1> QED
    BY <1>1, <1>2 DEF Load!Next

LEMMA LoadTells == ASSUME Load!LoadInv PROVE Load!PassIsEarned
  <1> SUFFICES ASSUME v3.passed PROVE Load!PassIsEarned
    BY DEF Load!PassIsEarned
  <1>1. /\ v1 = "exited" /\ ~v3.errors /\ v2.ticks = 1000
        /\ v4.read.status = "complete" /\ v4.read.sound /\ Load!Cleaned
    BY DEF Load!LoadInv, Load!VerdictInv
  <1>2. v6.status = "complete" /\ v6.sound /\ v7 # "none" /\ v12
    BY <1>1 DEF Load!LoadInv, Load!WorldInv, Load!VerdictInv
  <1>3. /\ v5.container # "running" /\ ~v8 /\ ~v4.private /\ v9 /\ ~v5.script
        /\ v5.client # "running" /\ v7 # "running"
    BY <1>1, <1>2 DEF Load!LoadInv, Load!ClearedInv, Load!Cleaned, Load!Cleared
  <1>4. v4.interrupted \/ (v4.judged /\ v7 = "ok" /\ v5.client = "ok")
    BY <1>1 DEF Load!LoadInv, Load!VerdictInv
  <1> QED
    BY <1>1, <1>2, <1>3, <1>4 DEF Load!PassIsEarned

\* Only the step that removes the private tree forgets it.
LEMMA LoadPrivateStays ==
  ASSUME Load!LoadInv, [Load!Next]_loadVars PROVE Load!PrivateIsUnused
  <1> SUFFICES ASSUME v4.private, ~v4'.private
               PROVE  v5.container # "running" /\ v5.client # "running" /\ v7 # "running"
    BY DEF Load!PrivateIsUnused
  <1>1. v4.groups /\ v4.absent
    <2>1. CASE Load!RemovePrivate
      BY <2>1, LoadKnown DEF Load!RemovePrivate
    <2>2. CASE Load!Prepare
      BY <2>2 DEF Load!Prepare, Load!LoadInv, Load!WorldInv
    <2>3. CASE v4' = v4
      BY <2>3
    <2>4. CASE Load!Interrupt \/ Load!Launch \/ Load!AwaitSetup \/ Load!Ended
      BY <2>4, LoadKnown DEF Load!Interrupt, Load!Launch, Load!AwaitSetup, Load!Ended, Load!Knowledge
    <2>5. CASE Load!StopGroups \/ Load!ReadLogs \/ Load!Inventory
      BY <2>5, LoadKnown DEF Load!StopGroups, Load!ReadLogs, Load!Inventory, Load!Knowledge
    <2>6. CASE Load!Parse \/ Load!Qualify \/ Load!ProbeEngine \/ Load!SpawnPeers \/ Load!Watch
               \/ Load!RemoveContainers \/ Load!Judge
      BY <2>6, <2>3 DEF Load!Parse, Load!Qualify, Load!ProbeEngine, Load!SpawnPeers, Load!Watch,
                        Load!RemoveContainers, Load!Judge
    <2>7. CASE Load!Environment
      BY <2>7, <2>3, <2>4 DEF Load!Environment, Load!EndEarly, Load!ContainerStarts, Load!Observe,
         Load!ScriptError, Load!ContainerExits, Load!ClientExits, Load!PeersExit,
         Load!ArtifactChanges, Load!OthersChange, Load!Expire
    <2>8. CASE UNCHANGED loadVars
      BY <2>8, <2>3 DEF loadVars
    <2> QED
      BY <2>1, <2>2, <2>4, <2>5, <2>6, <2>7, <2>8 DEF Load!Next, Load!Steps
  <1> QED
    BY <1>1 DEF Load!LoadInv, Load!ClearedInv

-----------------------------------------------------------------------------
(* The routing of validation: tree, plan, job, result and report are v1 to v5. *)

routeVars == <<v1, v2, v3, v4, v5>>
RouteResults == [found : BOOLEAN, intact : BOOLEAN, ours : BOOLEAN, source : Route!Commits,
                 inputs : SUBSET Route!Classes, tests : SUBSET Route!Classes, green : BOOLEAN]

LEMMA RouteInit == Route!Init => Route!RouteInv
  <1> SUFFICES ASSUME Route!Init PROVE Route!RouteInv
    OBVIOUS
  <1>1. v1 \subseteq Route!Classes /\ v2 = Route!NoPlan /\ v2.made = FALSE /\ v5 = "none"
    BY DEF Route!Init, Route!NoPlan
  <1>2. /\ DOMAIN v3 = Route!Jobs /\ DOMAIN v4 = Route!Jobs
        /\ \A j \in Route!Jobs : v3[j] = Route!NotRun
        /\ \A j \in Route!Jobs : v4[j] = Route!NoResult
    BY DEF Route!Init
  <1>3. Route!NoResult \in RouteResults /\ Route!NoResult.ours = FALSE
    BY DEF Route!NoResult, RouteResults, Route!Commits
  <1> QED
    BY <1>1, <1>2, <1>3 DEF Route!RouteInv, RouteResults

\* A plan stays one that some world allowed as long as it and the tree stay.
LEMMA RoutePlanStays ==
  ASSUME UNCHANGED <<v1, v2>>, NEW w \in Route!Worlds, Route!Planned(w)
  PROVE  Route!Planned(w)'
  <1> QED
    BY DEF Route!Planned, Route!Identified, Route!Routable, Route!Labelled, Route!BaselineOf,
           Route!LinuxRef, Route!ReuseBaseline, Route!PlannedTests, Route!TreeOf

\* The files that a tree's inputs and tests are, whatever the commit.
LEMMA RouteTrees ==
  ASSUME Route!RouteInv, NEW c
  PROVE  /\ Route!TreeOf(c) \subseteq Route!Classes
         /\ Route!LinuxInputs(Route!TreeOf(c)) \in SUBSET Route!Classes
         /\ Route!ExpectedTests(Route!TreeOf(c)) \in SUBSET Route!Classes
  <1>1. Route!TreeOf(c) \subseteq Route!Classes
    BY DEF Route!RouteInv, Route!TreeOf
  <1> QED
    BY <1>1 DEF Route!LinuxInputs, Route!ExpectedTests

LEMMA RouteStep == ASSUME Route!RouteInv, [Route!Next]_routeVars PROVE Route!RouteInv'
  <1> DEFINE PlanInv == IF v2.made THEN \E w \in Route!Worlds : Route!Planned(w) ELSE v2 = Route!NoPlan
  <1> USE DEF RouteResults
  <1>0. /\ v1 \subseteq Route!Classes /\ DOMAIN v3 = Route!Jobs /\ DOMAIN v4 = Route!Jobs
        /\ PlanInv
        /\ ~v2.made => \A j \in Route!Jobs : v3[j] = Route!NotRun
        /\ \A j \in Route!Jobs : v4[j] \in RouteResults
        /\ \A j \in Route!Jobs : v4[j].ours => v4[j].green
        /\ v5 = "passed" => /\ v2.made /\ \A j \in Route!Jobs : v3[j].at \in {"sealed", "failed"}
                            /\ \A j \in Route!Jobs : v4[j].intact
                            /\ Route!Reconciled
    BY DEF Route!RouteInv
  <1>1. UNCHANGED <<v1, v2>> => PlanInv'
    BY <1>0, RoutePlanStays
  <1> HIDE DEF PlanInv
  <1>2. UNCHANGED <<v2, v4>> => (Route!Reconciled' <=> Route!Reconciled)
    BY DEF Route!Reconciled, Route!SourceRef
  <1>3. CASE UNCHANGED routeVars
    BY <1>0, <1>1, <1>2, <1>3 DEF routeVars, Route!RouteInv, PlanInv
  <1>4. CASE Route!Plan
    <2> PICK w \in Route!Worlds :
           /\ Route!Identified(w) /\ Route!Routable(w)
           /\ v2' = [made |-> TRUE, baseline |-> Route!BaselineOf(w), linux |-> Route!LinuxRef(w),
                     windows |-> Route!Labelled(w), contract |-> w.contract,
                     inputs |-> Route!LinuxInputs(Route!TreeOf(Route!LinuxRef(w))),
                     tests |-> Route!PlannedTests(w)]
      BY <1>4 DEF Route!Plan
    <2>1. ~v2.made /\ v2'.made /\ UNCHANGED <<v1, v3, v4, v5>>
      BY <1>4 DEF Route!Plan
    <2>2. Route!Planned(w)'
      BY <2>1 DEF Route!Planned, Route!Identified, Route!Routable, Route!Labelled, Route!BaselineOf,
         Route!LinuxRef, Route!ReuseBaseline, Route!PlannedTests, Route!TreeOf
    <2>3. PlanInv'
      BY <2>1, <2>2 DEF PlanInv
    <2> QED
      BY <1>0, <2>1, <2>3 DEF Route!RouteInv, PlanInv
  <1>5. CASE Route!Aggregate
    <2>1. Route!Ended /\ UNCHANGED <<v1, v2, v3, v4>>
      BY <1>5 DEF Route!Aggregate
    <2>2. v5' = "passed" => v2.made /\ (\A j \in Route!Jobs : v4[j].intact) /\ Route!Reconciled
      BY <1>5 DEF Route!Aggregate
    <2> QED
      BY <1>0, <1>1, <1>2, <2>1, <2>2 DEF Route!RouteInv, PlanInv, Route!Ended
  <1>6. ASSUME NEW j \in Route!Jobs, v5 # "passed", UNCHANGED <<v1, v2, v5>>,
               v3' = v3 \/ (v2.made /\ \E state : Route!Sets(j, state)),
               v4' = v4 \/ \E r \in RouteResults : v4' = [v4 EXCEPT ![j] = r] /\ (r.ours => r.green)
        PROVE  Route!RouteInv'
    <2>1. DOMAIN v3' = Route!Jobs
      BY <1>0, <1>6 DEF Route!Sets
    <2>2. /\ DOMAIN v4' = Route!Jobs
          /\ \A i \in Route!Jobs : v4'[i] \in RouteResults /\ (v4'[i].ours => v4'[i].green)
      BY <1>0, <1>6
    <2>3. ~v2'.made => \A i \in Route!Jobs : v3'[i] = Route!NotRun
      BY <1>0, <1>6
    <2> QED
      BY <1>0, <1>1, <1>6, <2>1, <2>2, <2>3 DEF Route!RouteInv, PlanInv
  <1>7. ASSUME NEW j \in Route!Jobs, v3[j].at \notin {"sealed", "failed"} PROVE v5 # "passed"
    BY <1>0, <1>7
  <1>8. ASSUME NEW j \in Route!Jobs, v3[j].at \in {"verified", "ran"} PROVE v2.made
    BY <1>0, <1>8 DEF Route!NotRun
  <1>9. v2.made => /\ v2.inputs \in SUBSET Route!Classes /\ v2.tests \in SUBSET Route!Classes
                   /\ v2.linux \in Route!Commits
    <2> SUFFICES ASSUME v2.made, NEW w \in Route!Worlds, Route!Planned(w)
                 PROVE  /\ v2.inputs \in SUBSET Route!Classes /\ v2.tests \in SUBSET Route!Classes
                        /\ v2.linux \in Route!Commits
      BY <1>0 DEF PlanInv
    <2>1. /\ v2.linux = Route!LinuxRef(w)
          /\ v2.inputs = Route!LinuxInputs(Route!TreeOf(Route!LinuxRef(w)))
          /\ v2.tests = Route!ExpectedTests(Route!TreeOf(Route!LinuxRef(w)))
      BY DEF Route!Planned, Route!PlannedTests
    <2>2. Route!LinuxRef(w) \in Route!Commits
      BY DEF Route!LinuxRef, Route!BaselineOf, Route!Commits
    <2> QED
      BY <2>1, <2>2, RouteTrees
  <1>10. ASSUME NEW j \in Route!Jobs, Route!Checkout(j) PROVE Route!RouteInv'
    <2>1. v2.made /\ v3[j].at = "none" /\ UNCHANGED <<v1, v2, v4, v5>>
      BY <1>10 DEF Route!Checkout
    <2>2. \E state : Route!Sets(j, state)
      BY <1>10 DEF Route!Checkout
    <2> QED
      BY <1>6, <1>7, <2>1, <2>2
  <1>11. ASSUME NEW j \in Route!Jobs, Route!Execute(j) PROVE Route!RouteInv'
    <2>1. v3[j].at = "verified" /\ UNCHANGED <<v1, v2, v4, v5>>
      BY <1>11 DEF Route!Execute
    <2>2. \E state : Route!Sets(j, state)
      BY <1>11 DEF Route!Execute
    <2> QED
      BY <1>6, <1>7, <1>8, <2>1, <2>2
  <1>12. ASSUME NEW j \in Route!Jobs, Route!Seal(j) PROVE Route!RouteInv'
    <2>1. v3[j].at = "ran" /\ UNCHANGED <<v1, v2, v5>>
      BY <1>12 DEF Route!Seal
    <2>2. v2.made /\ v5 # "passed"
      BY <1>7, <1>8, <2>1
    <2>3. \E state : Route!Sets(j, state)
      BY <1>12 DEF Route!Seal
    <2> DEFINE seen == [found |-> TRUE, intact |-> TRUE, ours |-> TRUE, source |-> Route!SourceRef(j),
                        inputs |-> v2.inputs, tests |-> v2.tests, green |-> TRUE]
    <2>4. v4' = v4 \/ v4' = [v4 EXCEPT ![j] = seen]
      BY <1>12 DEF Route!Seal
    <2>5. seen \in RouteResults /\ (seen.ours => seen.green)
      <3>1. Route!SourceRef(j) \in Route!Commits
        BY <1>9, <2>2 DEF Route!SourceRef, Route!Commits
      <3> QED
        BY <1>9, <2>2, <3>1
    <2> HIDE DEF seen
    <2> QED
      BY <1>6, <2>1, <2>2, <2>3, <2>4, <2>5
  <1>13. ASSUME NEW j \in Route!Jobs, Route!Damage(j) PROVE Route!RouteInv'
    <2>1. v5 = "none" /\ UNCHANGED <<v1, v2, v3, v5>>
      BY <1>13 DEF Route!Damage, Route!Ended
    <2> DEFINE damaged == [v4[j] EXCEPT !.intact = FALSE]
    <2>2. damaged \in RouteResults /\ (damaged.ours => damaged.green)
      BY <1>0
    <2>3. v4' = [v4 EXCEPT ![j] = damaged]
      BY <1>13 DEF Route!Damage
    <2> HIDE DEF damaged
    <2> QED
      BY <1>6, <2>1, <2>2, <2>3
  <1>14. ASSUME NEW j \in Route!Jobs, Route!Mistake(j) PROVE Route!RouteInv'
    <2>1. v5 = "none" /\ UNCHANGED <<v1, v2, v3, v5>>
      BY <1>14 DEF Route!Mistake, Route!Ended
    <2> PICK c \in Route!Commits, green \in BOOLEAN :
          v4' = [v4 EXCEPT ![j] =
            [found |-> TRUE, intact |-> TRUE, ours |-> FALSE, source |-> c, green |-> green,
             inputs |-> Route!LinuxInputs(Route!TreeOf(c)), tests |-> Route!ExpectedTests(Route!TreeOf(c))]]
      BY <1>14 DEF Route!Mistake
    <2> DEFINE other == [found |-> TRUE, intact |-> TRUE, ours |-> FALSE, source |-> c, green |-> green,
                         inputs |-> Route!LinuxInputs(Route!TreeOf(c)),
                         tests |-> Route!ExpectedTests(Route!TreeOf(c))]
    <2>2. /\ other.ours = FALSE
          /\ other \in [found : BOOLEAN, intact : BOOLEAN, ours : BOOLEAN, source : Route!Commits,
                         inputs : SUBSET Route!Classes, tests : SUBSET Route!Classes, green : BOOLEAN]
      BY RouteTrees
    <2> HIDE DEF other
    <2> QED
      BY <1>6, <2>1, <2>2 DEF other
  <1> QED
    BY <1>3, <1>4, <1>5, <1>10, <1>11, <1>12, <1>13, <1>14 DEF Route!Next

LEMMA RouteTells ==
  ASSUME Route!RouteInv PROVE Route!AcceptedIsValidated /\ Route!AcceptedIsOwned
  <1> SUFFICES ASSUME v5 = "passed" PROVE Route!AcceptedIsValidated /\ Route!AcceptedIsOwned
    BY DEF Route!AcceptedIsValidated, Route!AcceptedIsOwned
  <1>1. v2.made /\ (\A j \in Route!Jobs : v4[j].intact) /\ Route!Reconciled
    BY DEF Route!RouteInv
  <1> PICK w \in Route!Worlds : Route!Planned(w)
    BY <1>1 DEF Route!RouteInv
  <1>2. /\ v2.linux = Route!LinuxRef(w) /\ v2.tests = Route!PlannedTests(w)
        /\ v2.baseline = Route!BaselineOf(w) /\ v2.windows = Route!Labelled(w)
        /\ v2.contract = w.contract /\ Route!Routable(w)
    BY DEF Route!Planned
  <1>3. Route!LinuxInputs(Route!TreeOf(Route!LinuxRef(w))) = Route!LinuxInputs(v1)
    BY DEF Route!LinuxRef, Route!ReuseBaseline, Route!TreeOf
  <1>4. Route!PlannedTests(w) = Route!ExpectedTests(v1)
    BY <1>3 DEF Route!PlannedTests, Route!ExpectedTests, Route!LinuxInputs
  <1>5. Route!AcceptedIsValidated
    <2> SUFFICES ASSUME NEW j \in Route!Jobs
                 PROVE  /\ v4[j].green /\ v4[j].intact
                        /\ v4[j].tests = Route!ExpectedTests(v1)
                        /\ Route!LinuxInputs(Route!TreeOf(v4[j].source)) = Route!LinuxInputs(v1)
                        /\ j = "launcher" => v4[j].source = "candidate"
      BY DEF Route!AcceptedIsValidated
    <2>1. v4[j].ours /\ v4[j].source = Route!SourceRef(j) /\ v4[j].tests = v2.tests
      BY <1>1 DEF Route!Reconciled
    <2>2. v4[j].green
      BY <2>1 DEF Route!RouteInv
    <2>3. /\ Route!LinuxInputs(Route!TreeOf(Route!SourceRef(j))) = Route!LinuxInputs(v1)
          /\ j = "launcher" => Route!SourceRef(j) = "candidate"
      BY <1>2, <1>3 DEF Route!SourceRef, Route!TreeOf
    <2> QED
      BY <1>1, <1>2, <1>4, <2>1, <2>2, <2>3
  <1>6. Route!AcceptedIsOwned
    <2> SUFFICES ASSUME v2.baseline = "base"
                 PROVE  /\ v1 \cap {"client", "tooling"} # {} => v2.windows
                        /\ "client" \in v1 => v2.contract = "valid"
                        /\ "stray" \notin v1
      BY DEF Route!AcceptedIsOwned
    <2>1. Route!Differ(v1, Route!TreeOf(Route!BaselineOf(w))) = v1
      BY <1>2 DEF Route!Differ, Route!TreeOf
    <2>2. /\ "client" \in v1 => Route!Labelled(w) /\ w.contract = "valid"
          /\ "tooling" \in v1 => Route!Labelled(w)
          /\ "stray" \notin v1
      BY <1>2, <2>1 DEF Route!Routable
    <2> QED
      BY <1>2, <2>2
  <1> QED
    BY <1>5, <1>6

-----------------------------------------------------------------------------
(* The paired server: run, sup, control, cli, docker, private, game, late and *)
(* metAfter are v1 to v9.                                                     *)

pairedVars == <<v1, v2, v3, v4, v5, v6, v7, v8, v9>>
PairedSetUp == {"verify", "reserve", "network", "container"}
PairedLoop == {"look", "health", "judge"}

LEMMA PairedRecords ==
  /\ Paired!NoControl \in Paired!Controls
  /\ Paired!Asleep \in Paired!Supervisors /\ Paired!Asleep.at = "none"
  /\ Paired!Asleep.status = "none" /\ Paired!Asleep.ownsNetwork = FALSE
  /\ Paired!Asleep.ownsContainer = FALSE /\ Paired!Asleep.received = FALSE
  /\ Paired!Asleep.dirty = FALSE
  /\ Paired!NoRun \in Paired!Reports /\ Paired!NoRun.status = "none" /\ Paired!NoRun.done = FALSE
  <1>1. 0 \in Paired!Seqs
    BY ToolsAssumption DEF Paired!Seqs
  <1>2. Paired!NoControl \in Paired!Controls
    BY <1>1 DEF Paired!NoControl, Paired!Controls, Paired!Builds
  <1>3. Paired!Asleep \in Paired!Supervisors
    BY <1>1, <1>2 DEF Paired!Asleep, Paired!Supervisors, Paired!Statuses, Paired!Builds
  <1>4. Paired!NoRun \in Paired!Reports
    BY DEF Paired!NoRun, Paired!Reports, Paired!Statuses, Paired!Builds, Paired!Scenarios
  <1> QED
    BY <1>2, <1>3, <1>4 DEF Paired!Asleep, Paired!NoRun

LEMMA PairedInit == Paired!Init => Paired!PairedInv
  <1> SUFFICES ASSUME Paired!Init PROVE Paired!PairedInv
    OBVIOUS
  <1>1. v1 = Paired!NoRun /\ v2 = Paired!Asleep /\ v3 = Paired!NoControl /\ v4 = Paired!NoControl
    BY DEF Paired!Init
  <1>2. v5 \in Paired!Dockers /\ v6 \in BOOLEAN /\ v8 \in [run : BOOLEAN, finish : BOOLEAN] /\ v9 \in BOOLEAN
    BY DEF Paired!Init, Paired!Dockers
  <1>3. v7 \in Paired!Games
    <2>1. 0 \in Paired!Seqs
      BY ToolsAssumption DEF Paired!Seqs
    <2> QED
      BY <2>1 DEF Paired!Init, Paired!NoGame, Paired!Games
  <1>4. Paired!ClearInv
    BY <1>1, PairedRecords DEF Paired!ClearInv
  <1> QED
    BY <1>1, <1>2, <1>3, <1>4, PairedRecords DEF Paired!PairedInv

\* A run whose supervisor is at work is not done.
LEMMA PairedWorks ==
  ASSUME Paired!PairedInv, v2.at # "ended"
  PROVE  v1.status # "server_passed" /\ v1.done = FALSE
  <1>1. v1.done = FALSE
    BY DEF Paired!PairedInv, Paired!Reports
  <1> QED
    BY <1>1 DEF Paired!PairedInv

\* A step of the supervisor up to the clean-up.
LEMMA PairedTurns ==
  ASSUME Paired!PairedInv, v2.at \in PairedSetUp \cup PairedLoop,
         v1' \in Paired!Reports, v1'.done = v1.done, v1'.status # "server_passed",
         v2' \in Paired!Supervisors, v5' \in Paired!Dockers, v6' \in BOOLEAN, v7' \in Paired!Games,
         UNCHANGED <<v3, v4, v8, v9>>,
         v2'.at \in {"reserve", "network", "container", "stop"} \cup PairedLoop,
         v2'.at \in {"network", "container"} => v2'.ownsNetwork,
         v2'.at \in PairedLoop => v2'.ownsContainer,
         v2'.ownsContainer => v2'.ownsNetwork,
         v2'.status = "server_passed" =>
           v2'.at = "stop" /\ v2'.ownsContainer /\ (v1'.scenario = "input" => v9),
         v2'.received /\ v7'.file.fresh /\ v7'.file.in => v9
  PROVE  Paired!PairedInv'
  <1>1. v1.done = FALSE
    BY PairedWorks DEF PairedSetUp, PairedLoop
  <1>2. Paired!ClearInv'
    BY DEF Paired!ClearInv, Paired!Cleaning, PairedLoop
  <1> QED
    BY <1>1, <1>2 DEF Paired!PairedInv

\* The set-up or the loop is left.
LEMMA PairedLeaves ==
  ASSUME Paired!PairedInv, NEW s \in Paired!Supervisors, NEW status \in {"failed", "server_passed"},
         v2' = Paired!Leaves(s, status)
  PROVE  /\ v2' \in Paired!Supervisors /\ v2'.at = "stop" /\ v2'.status = status
         /\ v2'.ownsNetwork = s.ownsNetwork /\ v2'.ownsContainer = s.ownsContainer
         /\ v2'.received = FALSE
  <1> QED
    BY PairedRecords DEF Paired!Leaves, Paired!Supervisors, Paired!Statuses, Paired!Cleaning

LEMMA PairedFails ==
  ASSUME Paired!PairedInv, v2.at \in PairedSetUp \cup PairedLoop, Paired!Fails,
         v1' = v1, v5' \in Paired!Dockers, v6' \in BOOLEAN, v7' \in Paired!Games,
         UNCHANGED <<v3, v4, v8, v9>>
  PROVE  Paired!PairedInv'
  <1>1. v2 \in Paired!Supervisors /\ (v2.ownsContainer => v2.ownsNetwork) /\ v1 \in Paired!Reports
    BY DEF Paired!PairedInv, Paired!ClearInv
  <1>2. v1.status # "server_passed"
    BY PairedWorks DEF PairedSetUp, PairedLoop
  <1>3. /\ v2' \in Paired!Supervisors /\ v2'.at = "stop" /\ v2'.status = "failed"
        /\ v2'.ownsNetwork = v2.ownsNetwork /\ v2'.ownsContainer = v2.ownsContainer
        /\ v2'.received = FALSE
    BY <1>1, PairedLeaves DEF Paired!Fails
  <1> QED
    BY <1>1, <1>2, <1>3, PairedTurns DEF PairedLoop

LEMMA PairedKnown ==
  ASSUME Paired!PairedInv
  PROVE  /\ v1 \in Paired!Reports /\ v2 \in Paired!Supervisors /\ v3 \in Paired!Controls
         /\ v4 \in Paired!Controls /\ v5 \in Paired!Dockers /\ v6 \in BOOLEAN /\ v7 \in Paired!Games
         /\ v9 \in BOOLEAN
         /\ v2.ownsContainer => v2.ownsNetwork
         /\ v2.at \in PairedLoop => v2.ownsContainer
         /\ v2.at \in PairedSetUp \cup PairedLoop => /\ v1.status # "server_passed"
                                                     /\ v2.status # "server_passed"
         /\ v2.at \in {"network", "container"} => v2.ownsNetwork
         /\ v2.received /\ v7.file.fresh /\ v7.file.in => v9
  <1>1. v2.at \in PairedSetUp \cup PairedLoop => v1.status # "server_passed"
    BY PairedWorks DEF PairedSetUp, PairedLoop
  <1>2. v2.at \in PairedSetUp \cup PairedLoop => v2.status # "server_passed"
    BY DEF Paired!PairedInv, Paired!ClearInv, Paired!Cleaning, PairedSetUp, PairedLoop
  <1> QED
    BY <1>1, <1>2 DEF Paired!PairedInv, Paired!ClearInv, PairedLoop

LEMMA PairedSetsUp ==
  ASSUME Paired!PairedInv,
         Paired!Verify \/ Paired!Reserve \/ Paired!CreateNetwork \/ Paired!RunContainer
  PROVE  Paired!PairedInv'
  <1>1. CASE Paired!Verify
    <2>1. v2.at = "verify" /\ UNCHANGED <<v1, v3, v4, v5, v6, v7, v8, v9>>
      BY <1>1 DEF Paired!Verify
    <2>2. CASE Paired!Fails
      BY <2>1, <2>2, PairedFails, PairedKnown DEF PairedSetUp
    <2>3. CASE v2' = [v2 EXCEPT !.at = "reserve", !.build = "full"]
      <3>1. /\ v2' \in Paired!Supervisors /\ v2'.at = "reserve" /\ v2'.status = v2.status
            /\ v2'.ownsNetwork = v2.ownsNetwork /\ v2'.ownsContainer = v2.ownsContainer
            /\ v2'.received = v2.received
        BY <2>3, PairedKnown DEF Paired!Supervisors, Paired!Builds
      <3> QED
        BY <2>1, <3>1, PairedKnown, PairedTurns DEF PairedSetUp, PairedLoop
    <2> QED
      BY <1>1, <2>2, <2>3 DEF Paired!Verify
  <1>2. CASE Paired!Reserve
    <2>1. v2.at = "reserve" /\ UNCHANGED <<v1, v3, v4, v5, v7, v8, v9>> /\ v6' \in BOOLEAN
      BY <1>2 DEF Paired!Reserve
    <2>2. CASE Paired!Fails
      BY <2>1, <2>2, PairedFails, PairedKnown DEF PairedSetUp
    <2>3. CASE v2' = [v2 EXCEPT !.at = "network", !.ownsNetwork = TRUE]
      <3>1. /\ v2' \in Paired!Supervisors /\ v2'.at = "network" /\ v2'.status = v2.status
            /\ v2'.ownsNetwork = TRUE /\ v2'.received = v2.received
        BY <2>3, PairedKnown DEF Paired!Supervisors
      <3> QED
        BY <2>1, <3>1, PairedKnown, PairedTurns DEF PairedSetUp, PairedLoop
    <2> QED
      BY <1>2, <2>2, <2>3 DEF Paired!Reserve
  <1>3. CASE Paired!CreateNetwork
    <2>1. v2.at = "network" /\ UNCHANGED <<v1, v3, v4, v6, v7, v8, v9>>
      BY <1>3 DEF Paired!CreateNetwork
    <2>2. CASE Paired!Fails /\ v5' = v5
      BY <2>1, <2>2, PairedFails, PairedKnown DEF PairedSetUp
    <2>3. CASE v5' = [v5 EXCEPT !.network = "ours"] /\ Paired!Goes("container")
      <3>1. /\ v2' \in Paired!Supervisors /\ v2'.at = "container" /\ v2'.status = v2.status
            /\ v2'.ownsNetwork = v2.ownsNetwork /\ v2'.ownsContainer = v2.ownsContainer
            /\ v2'.received = v2.received
        BY <2>3, PairedKnown DEF Paired!Supervisors, Paired!Goes
      <3>2. v5' \in Paired!Dockers
        BY <2>3, PairedKnown DEF Paired!Dockers
      <3> QED
        BY <2>1, <3>1, <3>2, PairedKnown, PairedTurns DEF PairedSetUp, PairedLoop
    <2> QED
      BY <1>3, <2>2, <2>3 DEF Paired!CreateNetwork
  <1>4. CASE Paired!RunContainer
    <2> DEFINE owner == [v2 EXCEPT !.ownsContainer = TRUE]
    <2>1. v2.at = "container" /\ v2.ownsNetwork /\ UNCHANGED <<v3, v4, v6, v7, v8, v9>>
      BY <1>4, PairedKnown DEF Paired!RunContainer
    <2>2. /\ owner \in Paired!Supervisors /\ owner.ownsContainer = TRUE
          /\ owner.ownsNetwork = v2.ownsNetwork /\ owner.received = v2.received
      BY PairedKnown DEF Paired!Supervisors
    <2>3. \/ /\ v5' = [v5 EXCEPT !.container = "running"]
             /\ v2' = [owner EXCEPT !.at = "look", !.status = "starting"]
             /\ v1' = [v1 EXCEPT !.status = "starting", !.build = v2.build]
          \/ /\ \E left \in {"absent", "running", "exited"} : v5' = [v5 EXCEPT !.container = left]
             /\ v2' = Paired!Leaves(owner, "failed")
             /\ v1' = v1
      BY <1>4 DEF Paired!RunContainer
    <2> HIDE DEF owner
    <2>4. v5' \in Paired!Dockers
      BY <2>3, PairedKnown DEF Paired!Dockers
    <2>5. CASE /\ v2' = [owner EXCEPT !.at = "look", !.status = "starting"]
               /\ v1' = [v1 EXCEPT !.status = "starting", !.build = v2.build]
      <3>1. /\ v2' \in Paired!Supervisors /\ v2'.at = "look" /\ v2'.status = "starting"
            /\ v2'.ownsNetwork = v2.ownsNetwork /\ v2'.ownsContainer = TRUE
            /\ v2'.received = v2.received
        BY <2>2, <2>5 DEF Paired!Supervisors, Paired!Statuses
      <3>2. v1' \in Paired!Reports /\ v1'.status = "starting" /\ v1'.done = v1.done
        BY <2>5, PairedKnown DEF Paired!Reports, Paired!Supervisors, Paired!Statuses
      <3> QED
        BY <2>1, <2>4, <3>1, <3>2, PairedKnown, PairedTurns DEF PairedSetUp, PairedLoop
    <2>6. CASE v2' = Paired!Leaves(owner, "failed") /\ v1' = v1
      <3>1. /\ v2' \in Paired!Supervisors /\ v2'.at = "stop" /\ v2'.status = "failed"
            /\ v2'.ownsNetwork = v2.ownsNetwork /\ v2'.received = FALSE
        BY <2>2, <2>6, PairedLeaves
      <3> QED
        BY <2>1, <2>4, <2>6, <3>1, PairedKnown, PairedTurns DEF PairedSetUp, PairedLoop
    <2> QED
      BY <2>3, <2>5, <2>6
  <1> QED
    BY <1>1, <1>2, <1>3, <1>4

LEMMA PairedLook == ASSUME Paired!PairedInv, Paired!Look PROVE Paired!PairedInv'
  <1>1. v2.at = "look" /\ UNCHANGED <<v1, v3, v4, v5, v6, v7, v8, v9>>
    BY DEF Paired!Look
  <1>2. CASE Paired!Fails
    BY <1>1, <1>2, PairedFails, PairedKnown DEF PairedLoop
  <1>3. CASE v2' = [v2 EXCEPT !.at = "health", !.read = v3]
    <2>1. /\ v2' \in Paired!Supervisors /\ v2'.at = "health" /\ v2'.status = v2.status
          /\ v2'.ownsNetwork = v2.ownsNetwork /\ v2'.ownsContainer = v2.ownsContainer
          /\ v2'.received = v2.received
      BY <1>3, PairedKnown DEF Paired!Supervisors
    <2> QED
      BY <1>1, <2>1, PairedKnown, PairedTurns DEF PairedLoop
  <1> QED
    BY <1>2, <1>3 DEF Paired!Look

LEMMA PairedHealth == ASSUME Paired!PairedInv, Paired!Health PROVE Paired!PairedInv'
  <1> DEFINE nowReady == v2.status = "starting" /\ Paired!Healthy /\ Paired!Progress
             status == IF nowReady THEN "ready" ELSE v2.status
             watches == status = "ready" /\ v1.scenario = "input" /\ v7.file.there
             met == v2.met \/ (watches /\ v7.file.in)
  <1>1. v2.at = "health" /\ UNCHANGED <<v3, v4, v5, v6, v8, v9>>
    BY DEF Paired!Health
  <1>2. \/ Paired!Goes("judge") /\ UNCHANGED <<v1, v7>>
        \/ Paired!Fails /\ UNCHANGED <<v1, v7>>
        \/ /\ v1' = IF nowReady THEN [v1 EXCEPT !.status = "ready", !.build = v2.build] ELSE v1
           /\ v7' = [v7 EXCEPT !.moved = FALSE]
           /\ \/ Paired!Fails
              \/ v2' = [v2 EXCEPT !.at = "judge", !.status = status, !.seen = TRUE, !.met = met]
    <2>1. v2.met \/ (watches /\ v7.file.in) <=> met
      OBVIOUS
    <2> QED
      BY DEF Paired!Health
  <1>3. status \in Paired!Statuses \ {"server_passed"} /\ met \in BOOLEAN
    BY <1>1, PairedKnown DEF Paired!Supervisors, Paired!Statuses, PairedLoop
  <1>4. v1' \in Paired!Reports /\ v1'.done = v1.done /\ v1'.status # "server_passed"
    <2>1. CASE v1' = v1
      BY <1>1, <2>1, PairedKnown DEF PairedLoop
    <2>2. CASE v1' = [v1 EXCEPT !.status = "ready", !.build = v2.build]
      BY <2>2, PairedKnown DEF Paired!Reports, Paired!Supervisors, Paired!Statuses
    <2> QED
      BY <1>2, <2>1, <2>2
  <1> HIDE DEF nowReady, status, met
  <1>5. v7' \in Paired!Games /\ v7'.file = v7.file
    BY <1>2, PairedKnown DEF Paired!Games
  <1>6. CASE Paired!Fails
    <2>1. /\ v2' \in Paired!Supervisors /\ v2'.at = "stop" /\ v2'.status = "failed"
          /\ v2'.ownsNetwork = v2.ownsNetwork /\ v2'.received = FALSE
      BY <1>6, PairedLeaves, PairedKnown DEF Paired!Fails
    <2>2. v2.ownsContainer /\ v2.ownsNetwork
      BY <1>1, PairedKnown DEF PairedLoop
    <2> QED
      BY <1>1, <1>4, <1>5, <2>1, <2>2, PairedKnown, PairedTurns DEF PairedLoop
  <1>7. CASE \/ Paired!Goes("judge")
             \/ v2' = [v2 EXCEPT !.at = "judge", !.status = status, !.seen = TRUE, !.met = met]
    <2>1. /\ v2' \in Paired!Supervisors /\ v2'.at = "judge" /\ v2'.status \in {v2.status, status}
          /\ v2'.ownsNetwork = v2.ownsNetwork /\ v2'.ownsContainer = v2.ownsContainer
          /\ v2'.received = v2.received
      BY <1>3, <1>7, PairedKnown DEF Paired!Supervisors, Paired!Goes
    <2>2. v2'.status # "server_passed"
      BY <1>1, <1>3, <2>1, PairedKnown DEF PairedLoop
    <2> QED
      BY <1>1, <1>4, <1>5, <2>1, <2>2, PairedKnown, PairedTurns DEF PairedLoop
  <1> QED
    BY <1>2, <1>6, <1>7

\* A turn that ends without a verdict.
LEMMA PairedNextTurn ==
  ASSUME Paired!PairedInv, v2.at = "judge", NEW s \in Paired!Supervisors, Paired!NextTurn(s),
         s.status = v2.status, s.ownsNetwork = v2.ownsNetwork, s.ownsContainer = v2.ownsContainer,
         UNCHANGED <<v1, v3, v4, v5, v6, v8, v9>>, v7' \in Paired!Games,
         s.received /\ v7'.file.fresh /\ v7'.file.in => v9
  PROVE  Paired!PairedInv'
  <1>1. /\ v2' \in Paired!Supervisors /\ v2'.at = "look" /\ v2'.status = s.status
        /\ v2'.ownsNetwork = s.ownsNetwork /\ v2'.ownsContainer = s.ownsContainer
        /\ v2'.received = s.received
    BY PairedRecords DEF Paired!NextTurn, Paired!Supervisors
  <1> QED
    BY <1>1, PairedKnown, PairedTurns DEF PairedLoop

\* A verdict of success, which the input scenario needs a sight of the client for.
LEMMA PairedPasses ==
  ASSUME Paired!PairedInv, v2.at = "judge", Paired!Passes, v1.scenario = "input" => v9,
         UNCHANGED <<v1, v3, v4, v5, v6, v7, v8, v9>>
  PROVE  Paired!PairedInv'
  <1>1. /\ v2' \in Paired!Supervisors /\ v2'.at = "stop" /\ v2'.status = "server_passed"
        /\ v2'.ownsNetwork = v2.ownsNetwork /\ v2'.ownsContainer = v2.ownsContainer
        /\ v2'.received = FALSE
    BY PairedLeaves, PairedKnown DEF Paired!Passes
  <1> QED
    BY <1>1, PairedKnown, PairedTurns DEF PairedLoop

LEMMA PairedJudge == ASSUME Paired!PairedInv, Paired!Judge PROVE Paired!PairedInv'
  <1>1. v2.at = "judge" /\ UNCHANGED <<v1, v3, v4, v5, v6, v8>>
    BY DEF Paired!Judge
  <1>2. CASE Paired!Waits /\ UNCHANGED <<v7, v9>>
    <2>1. CASE Paired!Fails
      BY <1>1, <1>2, <2>1, PairedFails, PairedKnown DEF PairedLoop
    <2>2. CASE Paired!NextTurn(v2)
      BY <1>1, <1>2, <2>2, PairedNextTurn, PairedKnown
    <2> QED
      BY <1>2, <2>1, <2>2 DEF Paired!Waits
  <1>3. CASE Paired!JudgePair
    <2>1. v1.scenario = "pair" /\ UNCHANGED <<v7, v9>>
      BY <1>3 DEF Paired!JudgePair
    <2>2. CASE Paired!Fails
      BY <1>1, <2>1, <2>2, PairedFails, PairedKnown DEF PairedLoop
    <2>3. CASE Paired!Passes
      BY <1>1, <2>1, <2>3, PairedPasses
    <2> QED
      BY <1>3, <2>2, <2>3 DEF Paired!JudgePair
  <1>4. CASE Paired!JudgeInput
    <2> DEFINE base == IF v2.received THEN v2.base ELSE v7.file.ack
               told == [v2 EXCEPT !.received = TRUE, !.base = base]
    <2>1. v9' = v9
      BY <1>4 DEF Paired!JudgeInput
    <2>2. \/ Paired!Fails /\ v7' = v7
          \/ /\ v7' = IF v2.received THEN v7 ELSE [v7 EXCEPT !.file.fresh = FALSE]
             /\ \/ Paired!Fails
                \/ v2.received /\ v7.file.fresh /\ v7.file.in /\ Paired!Passes
                \/ Paired!NextTurn(told)
      BY <1>4 DEF Paired!JudgeInput
    <2>3. /\ told \in Paired!Supervisors /\ told.status = v2.status
          /\ told.ownsNetwork = v2.ownsNetwork /\ told.ownsContainer = v2.ownsContainer
      <3>1. base \in Paired!Seqs
        BY PairedKnown DEF Paired!Supervisors, Paired!Games
      <3> HIDE DEF base
      <3> QED
        BY <3>1, PairedKnown DEF Paired!Supervisors
    <2> HIDE DEF base, told
    <2>4. v7' \in Paired!Games /\ (v2.received => v7' = v7) /\ (v7' # v7 => v7'.file.fresh = FALSE)
      <3>1. CASE v7' = v7
        BY <3>1, PairedKnown
      <3>2. CASE v7' = [v7 EXCEPT !.file.fresh = FALSE] /\ ~v2.received
        <4> DEFINE file == [v7.file EXCEPT !.fresh = FALSE]
        <4>1. file \in [there : BOOLEAN, in : BOOLEAN, ack : Paired!Seqs, fresh : BOOLEAN]
              /\ file.fresh = FALSE
          BY PairedKnown DEF Paired!Games
        <4>2. v7' = [v7 EXCEPT !.file = file]
          BY <3>2
        <4> HIDE DEF file
        <4> QED
          BY <3>2, <4>1, <4>2, PairedKnown DEF Paired!Games
      <3> QED
        BY <2>2, <3>1, <3>2
    <2>5. CASE Paired!Fails
      BY <1>1, <2>1, <2>4, <2>5, PairedFails, PairedKnown DEF PairedLoop
    <2>6. CASE v2.received /\ v7.file.fresh /\ v7.file.in /\ Paired!Passes
      BY <1>1, <2>1, <2>4, <2>6, PairedPasses, PairedKnown
    <2>7. CASE /\ v7' = IF v2.received THEN v7 ELSE [v7 EXCEPT !.file.fresh = FALSE]
               /\ Paired!NextTurn(told)
      <3>1. ~v2.received => v7'.file.fresh = FALSE
        BY <2>7, PairedKnown DEF Paired!Games
      <3>2. v7'.file.fresh /\ v7'.file.in => v9
        BY <2>4, <3>1, PairedKnown
      <3> QED
        BY <1>1, <2>1, <2>3, <2>4, <2>7, <3>2, PairedNextTurn
    <2> QED
      BY <2>2, <2>5, <2>6, <2>7
  <1> QED
    BY <1>2, <1>3, <1>4 DEF Paired!Judge

\* The clean-up.
LEMMA PairedStop == ASSUME Paired!PairedInv, Paired!Stop PROVE Paired!PairedInv'
  <1>1. v2.at = "stop" /\ UNCHANGED <<v1, v3, v4, v6, v7, v8, v9>>
    BY DEF Paired!Stop
  <1>2. \/ ~v2.ownsContainer /\ v2' = [v2 EXCEPT !.at = "network_rm"] /\ v5' = v5
        \/ /\ v5' \in {v5, [v5 EXCEPT !.container = IF @ = "running" THEN "exited" ELSE @]}
           /\ v2.ownsContainer
           /\ \/ v2' = [v2 EXCEPT !.at = "container_rm", !.status = "failed"]
              \/ v2' = [v2 EXCEPT !.at = "container_rm"]
    BY DEF Paired!Stop, Paired!Goes
  <1>3. v5' \in Paired!Dockers
    BY <1>2, PairedKnown DEF Paired!Dockers
  <1>4. /\ v2' \in Paired!Supervisors /\ v2'.status \in {v2.status, "failed"}
        /\ v2'.ownsNetwork = v2.ownsNetwork /\ v2'.ownsContainer = v2.ownsContainer
        /\ v2'.received = v2.received /\ v2'.dirty = v2.dirty
        /\ \/ v2'.at = "network_rm" /\ ~v2'.ownsContainer
           \/ v2'.at = "container_rm"
    BY <1>2, PairedKnown DEF Paired!Supervisors, Paired!Statuses, Paired!Cleaning
  <1>5. Paired!ClearInv'
    BY <1>1, <1>4 DEF Paired!PairedInv, Paired!ClearInv, Paired!Cleaning
  <1>6. v1.status # "server_passed" /\ v1.done = FALSE
    BY <1>1, PairedWorks
  <1> QED
    BY <1>1, <1>3, <1>4, <1>5, <1>6 DEF Paired!PairedInv

\* What remove_owned() leaves: a removal it vouches for leaves nothing.
LEMMA PairedRemoves ==
  ASSUME Paired!PairedInv
  PROVE  /\ \A outcome \in Paired!RemoveOwned("container") :
              /\ outcome[1] \in Paired!Dockers /\ outcome[2] \in BOOLEAN
              /\ outcome[1].network = v5.network
              /\ outcome[2] => outcome[1].container = "absent"
         /\ \A outcome \in Paired!RemoveOwned("network") :
              /\ outcome[1] \in Paired!Dockers /\ outcome[2] \in BOOLEAN
              /\ outcome[1].container = v5.container
              /\ v5.network = "foreign" => outcome[1].network = "foreign"
              /\ outcome[2] => outcome[1].network = "absent"
  <1>1. /\ v5 \in Paired!Dockers
        /\ [v5 EXCEPT !["container"] = "absent"] \in Paired!Dockers
        /\ [v5 EXCEPT !["container"] = "absent"].container = "absent"
        /\ [v5 EXCEPT !["container"] = "absent"].network = v5.network
        /\ [v5 EXCEPT !["network"] = "absent"] \in Paired!Dockers
        /\ [v5 EXCEPT !["network"] = "absent"].container = v5.container
        /\ [v5 EXCEPT !["network"] = "absent"].network = "absent"
    BY PairedKnown DEF Paired!Dockers
  <1>2. ASSUME NEW kind, NEW outcome \in Paired!RemoveOwned(kind)
        PROVE  \/ v5[kind] = "absent" /\ outcome[1] = v5 /\ outcome[2] \in BOOLEAN
               \/ v5[kind] = "foreign" /\ outcome[1] = v5 /\ outcome[2] = FALSE
               \/ /\ v5[kind] \notin {"absent", "foreign"} /\ outcome[2] \in BOOLEAN
                  /\ (outcome[1] = [v5 EXCEPT ![kind] = "absent"]) \/ (outcome[1] = v5 /\ outcome[2] = FALSE)
    <2>1. CASE v5[kind] = "absent"
      <3>1. outcome \in {v5} \X BOOLEAN
        BY <1>2, <2>1 DEF Paired!RemoveOwned
      <3> QED
        BY <2>1, <3>1
    <2>2. CASE v5[kind] = "foreign"
      <3>1. outcome = <<v5, FALSE>>
        BY <1>2, <2>2 DEF Paired!RemoveOwned
      <3> QED
        BY <2>2, <3>1
    <2>3. CASE v5[kind] \notin {"absent", "foreign"}
      <3> DEFINE gone == [v5 EXCEPT ![kind] = "absent"]
      <3>1. outcome \in {<<gone, TRUE>>, <<gone, FALSE>>, <<v5, FALSE>>}
        BY <1>2, <2>3 DEF Paired!RemoveOwned
      <3> HIDE DEF gone
      <3>2. outcome[2] \in BOOLEAN /\ (outcome[1] = gone \/ (outcome[1] = v5 /\ outcome[2] = FALSE))
        <4>1. CASE outcome = <<gone, TRUE>>
          BY <4>1
        <4>2. CASE outcome = <<gone, FALSE>>
          BY <4>2
        <4>3. CASE outcome = <<v5, FALSE>>
          BY <4>3
        <4> QED
          BY <3>1, <4>1, <4>2, <4>3
      <3> QED
        BY <2>3, <3>2 DEF gone
    <2> QED
      BY <2>1, <2>2, <2>3
  <1>3. v5["container"] = v5.container /\ v5["network"] = v5.network
    OBVIOUS
  <1> QED
    BY <1>1, <1>2, <1>3

LEMMA PairedRemovals ==
  ASSUME Paired!PairedInv, Paired!RemoveContainer \/ Paired!RemoveNetwork
  PROVE  Paired!PairedInv'
  <1>1. UNCHANGED <<v1, v3, v4, v6, v7, v8, v9>>
    BY DEF Paired!RemoveContainer, Paired!RemoveNetwork, Paired!Cleans
  <1>2. CASE Paired!RemoveContainer
    <2>1. v2.at = "container_rm"
      BY <1>2 DEF Paired!RemoveContainer, Paired!Cleans
    <2>2. \E dirty \in BOOLEAN :
             /\ v2' = [v2 EXCEPT !.at = "network_rm", !.dirty = dirty]
             /\ v5' \in Paired!Dockers
             /\ dirty = FALSE => v2.dirty = FALSE /\ (v2.ownsContainer => v5'.container = "absent")
      <3>1. CASE ~v2.ownsContainer
        <4>1. v2' = [v2 EXCEPT !.at = "network_rm", !.dirty = v2.dirty] /\ v5' = v5
          BY <1>2, <3>1, PairedKnown DEF Paired!RemoveContainer, Paired!Cleans, Paired!Goes, Paired!Supervisors
        <4> QED
          BY <3>1, <4>1, PairedKnown DEF Paired!Supervisors
      <3>2. CASE v2.ownsContainer
        <4>1. PICK outcome \in Paired!RemoveOwned("container") :
                v5' = outcome[1] /\ v2' = [v2 EXCEPT !.at = "network_rm", !.dirty = @ \/ ~outcome[2]]
          BY <1>2, <3>2 DEF Paired!RemoveContainer, Paired!Cleans
        <4> DEFINE dirty == v2.dirty \/ ~outcome[2]
        <4>2. dirty \in BOOLEAN /\ v2' = [v2 EXCEPT !.at = "network_rm", !.dirty = dirty]
          BY <4>1
        <4>3. v5' \in Paired!Dockers /\ (outcome[2] => v5'.container = "absent")
          BY <4>1, PairedRemoves
        <4>4. dirty = FALSE => v2.dirty = FALSE /\ v5'.container = "absent"
          <5>1. v2.dirty \in BOOLEAN
            BY PairedKnown DEF Paired!Supervisors
          <5> QED
            BY <4>3, <5>1
        <4> HIDE DEF dirty
        <4> QED
          BY <4>2, <4>3, <4>4
      <3> QED
        BY <3>1, <3>2
    <2> PICK dirty \in BOOLEAN :
           /\ v2' = [v2 EXCEPT !.at = "network_rm", !.dirty = dirty]
           /\ v5' \in Paired!Dockers
           /\ dirty = FALSE => v2.dirty = FALSE /\ (v2.ownsContainer => v5'.container = "absent")
      BY <2>2
    <2>3. /\ v2' \in Paired!Supervisors /\ v2'.at = "network_rm" /\ v2'.status = v2.status
          /\ v2'.ownsNetwork = v2.ownsNetwork /\ v2'.ownsContainer = v2.ownsContainer
          /\ v2'.received = v2.received /\ v2'.dirty = dirty
      BY PairedKnown DEF Paired!Supervisors, Paired!Cleaning
    <2>4. Paired!ClearInv'
      BY <2>1, <2>3 DEF Paired!PairedInv, Paired!ClearInv, Paired!Cleaning
    <2>5. v1.status # "server_passed" /\ v1.done = FALSE
      BY <2>1, PairedWorks
    <2> QED
      BY <1>1, <2>3, <2>4, <2>5 DEF Paired!PairedInv
  <1>3. CASE Paired!RemoveNetwork
    <2>1. v2.at = "network_rm"
      BY <1>3 DEF Paired!RemoveNetwork, Paired!Cleans
    <2>2. \E dirty \in BOOLEAN :
             /\ v2' = [v2 EXCEPT !.at = "state_rm", !.dirty = dirty]
             /\ v5' \in Paired!Dockers /\ v5'.container = v5.container
             /\ dirty = FALSE => v2.dirty = FALSE /\ (v2.ownsNetwork => v5'.network = "absent")
      <3>1. CASE ~v2.ownsNetwork
        <4>1. v2' = [v2 EXCEPT !.at = "state_rm", !.dirty = v2.dirty] /\ v5' = v5
          BY <1>3, <3>1, PairedKnown DEF Paired!RemoveNetwork, Paired!Cleans, Paired!Goes, Paired!Supervisors
        <4> QED
          BY <3>1, <4>1, PairedKnown DEF Paired!Supervisors
      <3>2. CASE v2.ownsNetwork
        <4>1. PICK outcome \in Paired!RemoveOwned("network") :
                v5' = outcome[1] /\ v2' = [v2 EXCEPT !.at = "state_rm", !.dirty = @ \/ ~outcome[2]]
          BY <1>3, <3>2 DEF Paired!RemoveNetwork, Paired!Cleans
        <4> DEFINE dirty == v2.dirty \/ ~outcome[2]
        <4>2. dirty \in BOOLEAN /\ v2' = [v2 EXCEPT !.at = "state_rm", !.dirty = dirty]
          BY <4>1
        <4>3. v5' \in Paired!Dockers /\ v5'.container = v5.container
              /\ (outcome[2] => v5'.network = "absent")
          BY <4>1, PairedRemoves
        <4>4. dirty = FALSE => v2.dirty = FALSE /\ v5'.network = "absent"
          <5>1. v2.dirty \in BOOLEAN
            BY PairedKnown DEF Paired!Supervisors
          <5> QED
            BY <4>3, <5>1
        <4> HIDE DEF dirty
        <4> QED
          BY <4>2, <4>3, <4>4
      <3> QED
        BY <3>1, <3>2
    <2> PICK dirty \in BOOLEAN :
           /\ v2' = [v2 EXCEPT !.at = "state_rm", !.dirty = dirty]
           /\ v5' \in Paired!Dockers /\ v5'.container = v5.container
           /\ dirty = FALSE => v2.dirty = FALSE /\ (v2.ownsNetwork => v5'.network = "absent")
      BY <2>2
    <2>3. /\ v2' \in Paired!Supervisors /\ v2'.at = "state_rm" /\ v2'.status = v2.status
          /\ v2'.ownsNetwork = v2.ownsNetwork /\ v2'.ownsContainer = v2.ownsContainer
          /\ v2'.received = v2.received /\ v2'.dirty = dirty
      BY PairedKnown DEF Paired!Supervisors, Paired!Cleaning
    <2>4. Paired!ClearInv'
      BY <2>1, <2>3 DEF Paired!PairedInv, Paired!ClearInv, Paired!Cleaning
    <2>5. v1.status # "server_passed" /\ v1.done = FALSE
      BY <2>1, PairedWorks
    <2> QED
      BY <1>1, <2>3, <2>4, <2>5 DEF Paired!PairedInv
  <1> QED
    BY <1>2, <1>3

LEMMA PairedRemoveState == ASSUME Paired!PairedInv, Paired!RemoveState PROVE Paired!PairedInv'
  <1>1. v2.at = "state_rm" /\ UNCHANGED <<v1, v3, v4, v5, v7, v8, v9>>
    BY DEF Paired!RemoveState
  <1>2. /\ v6' \in BOOLEAN
        /\ \/ v6' = FALSE /\ v2' = [v2 EXCEPT !.at = "write"]
           \/ v2' = [v2 EXCEPT !.at = "write", !.dirty = TRUE]
    BY DEF Paired!RemoveState, Paired!Goes
  <1>3. /\ v2' \in Paired!Supervisors /\ v2'.at = "write" /\ v2'.status = v2.status
        /\ v2'.ownsNetwork = v2.ownsNetwork /\ v2'.ownsContainer = v2.ownsContainer
        /\ v2'.received = v2.received
        /\ v2'.dirty = TRUE \/ (v2'.dirty = v2.dirty /\ v6' = FALSE)
    BY <1>2, PairedKnown DEF Paired!Supervisors, Paired!Cleaning
  <1>4. Paired!ClearInv'
    BY <1>1, <1>3 DEF Paired!PairedInv, Paired!ClearInv, Paired!Cleaning
  <1>5. v1.status # "server_passed" /\ v1.done = FALSE
    BY <1>1, PairedWorks
  <1> QED
    BY <1>1, <1>2, <1>3, <1>4, <1>5 DEF Paired!PairedInv

LEMMA PairedWriteReport == ASSUME Paired!PairedInv, Paired!WriteReport PROVE Paired!PairedInv'
  <1> DEFINE status == IF v2.dirty THEN "failed" ELSE v2.status
  <1>1. /\ v2.at = "write" /\ UNCHANGED <<v3, v4, v5, v6, v7, v8, v9>>
        /\ v1' = [v1 EXCEPT !.status = status, !.build = v2.build, !.done = TRUE]
        /\ v2' = [v2 EXCEPT !.at = "ended"]
    BY DEF Paired!WriteReport, Paired!Goes
  <1>2. status \in Paired!Statuses /\ (status = "server_passed" => ~v2.dirty /\ v2.status = "server_passed")
    BY PairedKnown DEF Paired!Supervisors, Paired!Statuses
  <1> HIDE DEF status
  <1>3. /\ v1' \in Paired!Reports /\ v1'.status = status /\ v1'.done = TRUE
        /\ v1'.scenario = v1.scenario
    BY <1>1, <1>2, PairedKnown DEF Paired!Reports, Paired!Supervisors
  <1>4. /\ v2' \in Paired!Supervisors /\ v2'.at = "ended" /\ v2'.status = v2.status
        /\ v2'.ownsNetwork = v2.ownsNetwork /\ v2'.ownsContainer = v2.ownsContainer
        /\ v2'.received = v2.received /\ v2'.dirty = v2.dirty
    BY <1>1, PairedKnown DEF Paired!Supervisors, Paired!Cleaning
  <1>5. Paired!ClearInv'
    BY <1>1, <1>4 DEF Paired!PairedInv, Paired!ClearInv, Paired!Cleaning
  <1> QED
    BY <1>1, <1>2, <1>3, <1>4, <1>5 DEF Paired!PairedInv

\* The commands, and what the supervisor does not control.
LEMMA PairedStart == ASSUME Paired!PairedInv, Paired!Start PROVE Paired!PairedInv'
  <1>1. PICK scenario \in Paired!Scenarios :
          v1' = [status |-> "accepted", build |-> "early", scenario |-> scenario, done |-> FALSE]
    BY DEF Paired!Start
  <1>2. /\ v2' = [Paired!Asleep EXCEPT !.at = "verify", !.status = "accepted"]
        /\ UNCHANGED <<v3, v4, v5, v6, v7, v8, v9>>
    BY DEF Paired!Start
  <1>3. v1' \in Paired!Reports /\ v1'.status = "accepted" /\ v1'.done = FALSE
    BY <1>1 DEF Paired!Reports, Paired!Statuses, Paired!Builds
  <1>4. /\ v2' \in Paired!Supervisors /\ v2'.at = "verify" /\ v2'.status = "accepted"
        /\ v2'.ownsNetwork = FALSE /\ v2'.ownsContainer = FALSE /\ v2'.received = FALSE
    BY <1>2, PairedRecords DEF Paired!Supervisors, Paired!Statuses
  <1>5. Paired!ClearInv'
    BY <1>4 DEF Paired!ClearInv
  <1> QED
    BY <1>2, <1>3, <1>4, <1>5 DEF Paired!PairedInv

LEMMA PairedCommands ==
  ASSUME Paired!PairedInv, Paired!ReadReport \/ Paired!WriteControl
  PROVE  Paired!PairedInv'
  <1>1. UNCHANGED <<v1, v2, v5, v6, v7, v8, v9>>
    BY DEF Paired!ReadReport, Paired!WriteControl
  <1>2. v3' \in Paired!Controls /\ v4' \in Paired!Controls
    <2>1. CASE Paired!ReadReport
      <3>1. [Paired!NoControl EXCEPT !.action = "abort"] \in Paired!Controls
            /\ [Paired!NoControl EXCEPT !.action = "reject"] \in Paired!Controls
        BY PairedRecords DEF Paired!Controls
      <3>2. ASSUME NEW evidence \in [action : {"finish"}, build : Paired!Builds, good : BOOLEAN,
                                     seq : Paired!Seqs \ {0}]
            PROVE  evidence \in Paired!Controls
        BY <3>2 DEF Paired!Controls
      <3> QED
        BY <2>1, <3>1, <3>2, PairedKnown DEF Paired!ReadReport
    <2>2. CASE Paired!WriteControl
      BY <2>2, PairedRecords, PairedKnown DEF Paired!WriteControl
    <2> QED
      BY <2>1, <2>2
  <1>3. Paired!ClearInv'
    BY <1>1 DEF Paired!PairedInv, Paired!ClearInv
  <1> QED
    BY <1>1, <1>2, <1>3 DEF Paired!PairedInv

LEMMA PairedKill == ASSUME Paired!PairedInv, Paired!Kill PROVE Paired!PairedInv'
  <1>1. /\ v2.at \notin {"none", "ended", "killed"} /\ UNCHANGED <<v1, v3, v4, v5, v6, v7, v8, v9>>
        /\ v2' = [v2 EXCEPT !.at = "killed"]
    BY DEF Paired!Kill, Paired!Goes
  <1>2. /\ v2' \in Paired!Supervisors /\ v2'.at = "killed" /\ v2'.status = v2.status
        /\ v2'.ownsNetwork = v2.ownsNetwork /\ v2'.ownsContainer = v2.ownsContainer
        /\ v2'.received = v2.received
    BY <1>1, PairedKnown DEF Paired!Supervisors
  <1>3. Paired!ClearInv'
    BY <1>2 DEF Paired!PairedInv, Paired!ClearInv
  <1>4. v1.status # "server_passed" /\ v1.done = FALSE
    BY <1>1, PairedWorks
  <1> QED
    BY <1>1, <1>2, <1>3, <1>4 DEF Paired!PairedInv

LEMMA PairedDocker ==
  ASSUME Paired!PairedInv, Paired!ContainerEnds \/ Paired!OthersNetwork
  PROVE  Paired!PairedInv'
  <1>1. UNCHANGED <<v1, v2, v3, v4, v6, v7, v8, v9>>
    BY DEF Paired!ContainerEnds, Paired!OthersNetwork
  <1>2. /\ v5' \in Paired!Dockers
        /\ v5.container = "absent" => v5'.container = "absent"
        /\ v5.network # "ours" => v5'.network # "ours"
    BY PairedKnown DEF Paired!ContainerEnds, Paired!OthersNetwork, Paired!Dockers
  <1>3. Paired!ClearInv'
    BY <1>1, <1>2 DEF Paired!PairedInv, Paired!ClearInv
  <1> QED
    BY <1>1, <1>2, <1>3 DEF Paired!PairedInv

LEMMA PairedGame ==
  ASSUME Paired!PairedInv, Paired!Beat \/ Paired!ClientActs \/ Paired!Observe
  PROVE  Paired!PairedInv'
  <1>1. v2.at \in PairedLoop /\ UNCHANGED <<v1, v2, v3, v4, v5, v6, v8>>
    BY DEF Paired!Beat, Paired!ClientActs, Paired!Observe, Paired!Watched, PairedLoop
  <1>2. /\ v7' \in Paired!Games /\ v9' \in BOOLEAN
        /\ \/ v7'.file = v7.file /\ v9' = v9
           \/ v2.received /\ v7'.file.in => v9'
    <2>1. CASE Paired!Beat
      BY <2>1, PairedKnown DEF Paired!Beat, Paired!Games
    <2>2. CASE Paired!ClientActs
      <3>1. v9' = v9 /\ v7' \in {[v7 EXCEPT !.in = ~@, !.ack = 0]} \cup
                         (IF v7.in /\ v7.ack < MaxAck THEN {[v7 EXCEPT !.ack = @ + 1]} ELSE {})
        BY <2>2 DEF Paired!ClientActs
      <3>2. CASE v7' = [v7 EXCEPT !.in = ~@, !.ack = 0]
        <4>1. 0 \in Paired!Seqs
          BY ToolsAssumption DEF Paired!Seqs
        <4> QED
          BY <3>1, <3>2, <4>1, PairedKnown DEF Paired!Games
      <3>3. CASE v7.ack < MaxAck /\ v7' = [v7 EXCEPT !.ack = @ + 1]
        <4>1. v7.ack + 1 \in Paired!Seqs
          <5>1. v7.ack \in Paired!Seqs
            BY PairedKnown DEF Paired!Games
          <5> QED
            BY <3>3, <5>1, ToolsAssumption DEF Paired!Seqs
        <4> QED
          BY <3>1, <3>3, <4>1, PairedKnown DEF Paired!Games
      <3> QED
        BY <3>1, <3>2, <3>3
    <2>3. CASE Paired!Observe
      <3> DEFINE file == [there |-> TRUE, in |-> v7.in, ack |-> v7.ack, fresh |-> TRUE]
      <3>1. v7' = [v7 EXCEPT !.file = file] /\ v9' = (v9 \/ (v2.received /\ v7.in))
        BY <2>3 DEF Paired!Observe
      <3>2. /\ file \in [there : BOOLEAN, in : BOOLEAN, ack : Paired!Seqs, fresh : BOOLEAN]
            /\ file.in = v7.in
        BY PairedKnown DEF Paired!Games
      <3> HIDE DEF file
      <3>3. v7' \in Paired!Games /\ v7'.file = file
        BY <3>1, <3>2, PairedKnown DEF Paired!Games
      <3>4. v9' \in BOOLEAN
        BY <3>1
      <3> QED
        BY <3>1, <3>2, <3>3, <3>4
    <2> QED
      BY <2>1, <2>2, <2>3
  <1>3. Paired!ClearInv'
    BY <1>1 DEF Paired!PairedInv, Paired!ClearInv
  <1>4. v2.status # "server_passed"
    BY <1>1, PairedKnown
  <1>5. v2'.received /\ v7'.file.fresh /\ v7'.file.in => v9'
    BY <1>1, <1>2, PairedKnown
  <1> QED
    BY <1>1, <1>2, <1>3, <1>4, <1>5 DEF Paired!PairedInv

LEMMA PairedStays ==
  ASSUME Paired!PairedInv, Paired!Deadline \/ UNCHANGED pairedVars
  PROVE  Paired!PairedInv'
  <1>1. UNCHANGED <<v1, v2, v3, v4, v5, v6, v7, v9>>
    BY DEF Paired!Deadline, pairedVars
  <1>2. v8' \in [run : BOOLEAN, finish : BOOLEAN]
    BY DEF Paired!Deadline, pairedVars, Paired!PairedInv
  <1>3. Paired!ClearInv'
    BY <1>1 DEF Paired!PairedInv, Paired!ClearInv
  <1> QED
    BY <1>1, <1>2, <1>3 DEF Paired!PairedInv

LEMMA PairedStep == ASSUME Paired!PairedInv, [Paired!Next]_pairedVars PROVE Paired!PairedInv'
  <1>1. CASE Paired!Supervise
    BY <1>1, PairedSetsUp, PairedLook, PairedHealth, PairedJudge, PairedStop, PairedRemovals,
       PairedRemoveState, PairedWriteReport DEF Paired!Supervise
  <1> QED
    BY <1>1, PairedStart, PairedCommands, PairedKill, PairedDocker, PairedGame, PairedStays
       DEF Paired!Next

LEMMA PairedTells == ASSUME Paired!PairedInv PROVE Paired!PassIsEarned
  <1> SUFFICES ASSUME v1.done, v1.status = "server_passed"
               PROVE  /\ v5.container = "absent" /\ v5.network # "ours" /\ ~v6
                      /\ v1.scenario = "input" => v9
    BY DEF Paired!PassIsEarned
  <1>1. v2.at = "ended" /\ v2.status = "server_passed" /\ ~v2.dirty
    BY DEF Paired!PairedInv
  <1>2. v2.ownsContainer /\ v2.ownsNetwork
    BY <1>1 DEF Paired!PairedInv, Paired!ClearInv
  <1> QED
    BY <1>1, <1>2 DEF Paired!PairedInv, Paired!ClearInv

\* Only remove_owned() takes a network away, and not another owner's.
LEMMA PairedNetworkStays ==
  ASSUME Paired!PairedInv, [Paired!Next]_pairedVars PROVE Paired!NetworkStays
  <1> SUFFICES ASSUME v5.network = "foreign" PROVE v5'.network = "foreign"
    BY DEF Paired!NetworkStays
  <1>1. CASE v5' = v5
    BY <1>1
  <1>2. CASE Paired!CreateNetwork
    BY <1>1, <1>2 DEF Paired!CreateNetwork
  <1>3. CASE Paired!RunContainer \/ Paired!Stop \/ Paired!ContainerEnds \/ Paired!OthersNetwork
    BY <1>1, <1>3, PairedKnown DEF Paired!RunContainer, Paired!Stop, Paired!ContainerEnds,
       Paired!OthersNetwork, Paired!Dockers
  <1>4. CASE Paired!RemoveContainer
    BY <1>1, <1>4, PairedRemoves DEF Paired!RemoveContainer, Paired!Cleans
  <1>5. CASE Paired!RemoveNetwork
    BY <1>1, <1>5, PairedRemoves DEF Paired!RemoveNetwork, Paired!Cleans
  <1>6. CASE Paired!Verify \/ Paired!Reserve \/ Paired!Look \/ Paired!Health \/ Paired!Judge
             \/ Paired!RemoveState \/ Paired!WriteReport
    BY <1>1, <1>6 DEF Paired!Verify, Paired!Reserve, Paired!Look, Paired!Health, Paired!Judge,
       Paired!RemoveState, Paired!WriteReport
  <1>7. CASE Paired!Start \/ Paired!ReadReport \/ Paired!WriteControl \/ Paired!Kill \/ Paired!Beat
             \/ Paired!ClientActs \/ Paired!Observe \/ Paired!Deadline \/ UNCHANGED pairedVars
    BY <1>1, <1>7 DEF Paired!Start, Paired!ReadReport, Paired!WriteControl, Paired!Kill, Paired!Beat,
       Paired!ClientActs, Paired!Observe, Paired!Deadline, pairedVars
  <1> QED
    BY <1>2, <1>3, <1>4, <1>5, <1>6, <1>7 DEF Paired!Next, Paired!Supervise

\* An output of somebody else's is in the way of the two that make one, and the guards take
\* away only what this run has made.
LEMMA MacOutputStays == ASSUME [Mac!Next]_macVars PROVE Mac!OutputStays
  <1> SUFFICES ASSUME v5.owner = "other", ~v4.created PROVE v5' = v5
    BY DEF Mac!OutputStays
  <1>1. CASE UNCHANGED macVars
    BY <1>1 DEF macVars
  <1>2. CASE Mac!PublishPublished \/ Mac!HandOver
    BY <1>2 DEF Mac!PublishPublished, Mac!HandOver, Mac!Publish
  <1>3. CASE Mac!InnerGuard \/ Mac!OuterGuard
    BY <1>3 DEF Mac!InnerGuard, Mac!OuterGuard, Mac!LeaveGuard
  <1>4. CASE Mac!InnerState \/ Mac!OuterState
    BY <1>4 DEF Mac!InnerState, Mac!OuterState, Mac!LeaveState
  <1>5. CASE Mac!DiagnosePublished \/ Mac!DiagnosePackage \/ Mac!DiagnoseAdmission \/ Mac!Assemble
             \/ Mac!PlaceOverride \/ Mac!Change \/ Mac!Occupy
    BY <1>5 DEF Mac!DiagnosePublished, Mac!DiagnosePackage, Mac!DiagnoseAdmission, Mac!Diagnose,
       Mac!Refuse, Mac!Assemble, Mac!PlaceOverride, Mac!Change, Mac!Occupy
  <1>6. CASE Mac!FetchManifest \/ Mac!Download \/ Mac!Audit \/ Mac!Preboot \/ Mac!Shell \/ Mac!Probe
             \/ Mac!Checked \/ Mac!Stage \/ Mac!LastCustody \/ Mac!After \/ Mac!Export \/ Mac!Offline
             \/ Mac!Startup \/ Mac!ColdImport \/ Mac!Contact
    BY <1>6 DEF Mac!FetchManifest, Mac!Download, Mac!Audit, Mac!Preboot, Mac!Shell, Mac!Probe,
       Mac!Checked, Mac!Stage, Mac!LastCustody, Mac!After, Mac!Export, Mac!Offline, Mac!Startup,
       Mac!ColdImport, Mac!Contact, Mac!Keeps
  <1>7. CASE Mac!WritePublished \/ Mac!WritePackage \/ Mac!WriteAdmission
    BY <1>7 DEF Mac!WritePublished, Mac!WritePackage, Mac!WriteAdmission, Mac!Write
  <1> QED
    BY <1>1, <1>2, <1>3, <1>4, <1>5, <1>6, <1>7 DEF Mac!Next

-----------------------------------------------------------------------------
(* The programs side by side: the one that runs keeps its invariant.        *)

ToolsInv ==
  /\ program = "operator" => Operators!OperatorInv
  /\ program = "paired" => Paired!PairedInv
  /\ program = "load" => Load!LoadInv
  /\ program = "mac" => Mac!MacInv
  /\ program = "route" => Route!RouteInv
  /\ program = "prepare" => Prepare!PrepareInv

LEMMA ToolsInitially == ToolsInit => ToolsInv
  <1> QED
    BY OperatorInit, PairedInit, LoadInit, MacInit, RouteInit, PrepareInit DEF ToolsInit, ToolsInv

\* A step is one of the program that runs, or of none.
LEMMA ToolsSteps ==
  ASSUME [ToolsNext]_all
  PROVE  /\ program' = program
         /\ program = "operator" => [Operators!Next]_operatorVars
         /\ program = "paired" => [Paired!Next]_pairedVars
         /\ program = "load" => [Load!Next]_loadVars
         /\ program = "mac" => [Mac!Next]_macVars
         /\ program = "route" => [Route!Next]_routeVars
         /\ program = "prepare" => [Prepare!Next]_prepareVars
  <1> QED
    BY DEF ToolsNext, all, after5, after7, after8, after9, operatorVars,
           pairedVars, loadVars, macVars, routeVars, prepareVars

LEMMA ToolsKeep == ToolsInv /\ [ToolsNext]_all => ToolsInv'
  <1> SUFFICES ASSUME ToolsInv, [ToolsNext]_all PROVE ToolsInv'
    OBVIOUS
  <1> USE ToolsSteps DEF ToolsInv
  <1>1. program' = "operator" => Operators!OperatorInv'
    BY OperatorStep
  <1>2. program' = "paired" => Paired!PairedInv'
    BY PairedStep
  <1>3. program' = "load" => Load!LoadInv'
    BY LoadStep
  <1>4. program' = "mac" => Mac!MacInv'
    BY MacStep
  <1>5. program' = "route" => Route!RouteInv'
    BY RouteStep
  <1>6. program' = "prepare" => Prepare!PrepareInv'
    BY PrepareStep
  <1> QED
    BY <1>1, <1>2, <1>3, <1>4, <1>5, <1>6

\* Whoever is told that a lifecycle action succeeded or failed finds it in the audit log, once
\* and with that outcome; the log tells only of commands that ran; and every effect has a
\* caller whose scopes allow it: for any number of requests, services and crashes.
THEOREM AuditIsCompleteHolds == ToolsSpec => []AuditIsComplete
  <1>1. ToolsInv => AuditIsComplete
    BY OperatorTells DEF ToolsInv, AuditIsComplete
  <1> QED
    BY <1>1, ToolsInitially, ToolsKeep, PTL DEF ToolsSpec

\* A success on record has been earned, whatever was interrupted, left behind or changed in
\* between: of the paired server, the load run, the macOS tools and the project's preparation;
\* and a pull request is accepted only when all that it changed has been validated and is
\* somebody's, whichever Linux jobs there are.
THEOREM PassesAreEarnedHolds == ToolsSpec => []PassesAreEarned
  <1>1. ToolsInv => PassesAreEarned
    BY PairedTells, LoadTells, MacTells, RouteTells, PrepareTells DEF ToolsInv, PassesAreEarned
  <1> QED
    BY <1>1, ToolsInitially, ToolsKeep, PTL DEF ToolsSpec

\* A failed run has left no output of its own, or its report says so, through however many scopes
\* the failure went; and a project file that could not be given back is reported as lost.
THEOREM FailuresAreSaidHolds == ToolsSpec => []FailuresAreSaid
  <1>1. ToolsInv => FailuresAreSaid
    BY MacTells, PrepareTells DEF ToolsInv, FailuresAreSaid
  <1> QED
    BY <1>1, ToolsInitially, ToolsKeep, PTL DEF ToolsSpec

\* No step removes another owner's network, replaces another program's output, takes a private
\* tree from under its users, or a committed row from the audit log.
THEOREM OthersStayHolds == ToolsSpec => OthersStay
  <1> DEFINE Stay == /\ program = "paired" => Paired!NetworkStays
                     /\ program = "mac" => Mac!OutputStays
                     /\ program = "load" => Load!PrivateIsUnused
                     /\ program = "operator" => Operators!OperatorAppends
  <1>1. ToolsInv /\ [ToolsNext]_all => Stay
    BY ToolsSteps, PairedNetworkStays, MacOutputStays, LoadPrivateStays, OperatorKeepsRows DEF ToolsInv
  <1>2. ToolsInv /\ [ToolsNext]_all => [Stay]_all
    BY <1>1
  <1> QED
    BY <1>2, ToolsInitially, ToolsKeep, PTL DEF ToolsSpec, OthersStay
=============================================================================
