----------------------- MODULE ProtocolJournalProofs -----------------------
(***************************************************************************)
(* The properties of ProtocolJournal, for every set of writers, keys, rows *)
(* and requests.                                                           *)
(*                                                                         *)
(* The inductive invariant says what a call in the loop may rely on        *)
(* although its reads are of different moments: what it has found exact    *)
(* stays exact, the current reading has found everything the last one      *)
(* found, each repetition of the loop has found at least one more record,  *)
(* and a refusal that was not due to the external conditions is due to a   *)
(* record that appeared meanwhile.                                         *)
(***************************************************************************)
EXTENDS ProtocolJournal, FiniteSetTheorems, TLAPS

JournalType == [Keys -> Values \cup {Absent}]

ExactAt(j, q, i) == j[q.records[i].key] = q.records[i].value

(* A refused call whose conditions held: some record was written between   *)
(* the reading and the attempt, and the new reading cannot miss it.        *)
Overtaken(j, c) ==
  \E i \in Positions(c.request) \ c.last :
     /\ j[c.request.records[i].key] # Absent
     /\ i < c.at => i \in c.exact

ActiveInv(j, c) ==
  /\ Acceptable(c.request)
  /\ c.at \in 1..(Len(c.request.records) + 1)
  /\ c.exact \subseteq Positions(c.request)
  /\ c.last \subseteq Positions(c.request)
  /\ c.round \in 0..Len(c.request.records)
  /\ c.round <= Cardinality(c.last)
  /\ \A i \in c.exact \cup c.last : ExactAt(j, c.request, i)
  /\ \A i \in c.last : i < c.at => i \in c.exact
  /\ c.pc = Reinspecting /\ c.matched => Overtaken(j, c)

ReturnedInv(j, c) ==
  /\ c.outcome # "DidNotStabilize"
  /\ c.outcome \in {"Committed", "ExactRecord"} =>
       \A i \in Positions(c.request) : ExactAt(j, c.request, i)
  /\ c.outcome \in {"ExactRecord", "PreconditionMismatch"} => ~c.matched
  /\ c.outcome = "ImmutableConflict" =>
       \E i \in Positions(c.request) :
          j[c.request.records[i].key] \notin {Absent, c.request.records[i].value}

CallInv(j, c) ==
  /\ c.pc \in {Inspecting, Reinspecting} => ActiveInv(j, c)
  /\ c.pc = Returned => ReturnedInv(j, c)

JInv ==
  /\ JTypeOK
  /\ \A w \in Writers : CallInv(journal, calls[w])
  /\ RowsHaveEvidence

(* j2 is a later journal than j.                                           *)
Grows(j, j2) == \A k \in Keys : j[k] # Absent => j2[k] = j[k]

----------------------------------------------------------------------------

(* A request's records are numbered 1..Len and each has a key and a value. *)
LEMMA RequestFacts ==
  ASSUME NEW q \in Requests
  PROVE  /\ Len(q.records) \in Nat
         /\ Positions(q) = 1..Len(q.records)
         /\ IsFiniteSet(Positions(q))
         /\ Cardinality(Positions(q)) = Len(q.records)
         /\ \A i \in Positions(q) : /\ q.records[i] \in Record
                                    /\ q.records[i].key \in Keys
                                    /\ q.records[i].value \in Values
                                    /\ q.records[i].value # Absent
<1>1. q.records \in Seq(Record)
  BY RequestsAssumption DEF RequestShape
<1>2. /\ Len(q.records) \in Nat
      /\ Positions(q) = 1..Len(q.records)
  BY <1>1 DEF Positions
<1>3. \A i \in Positions(q) : q.records[i] \in Record
  BY <1>1, <1>2
<1>4. \A i \in Positions(q) : /\ q.records[i].key \in Keys
                              /\ q.records[i].value \in Values
                              /\ q.records[i].value # Absent
  BY <1>3, AbsentAssumption DEF Record
<1>5. /\ IsFiniteSet(Positions(q))
      /\ Cardinality(Positions(q)) = Len(q.records)
  BY <1>2, FS_Interval
<1>6. QED
  BY <1>2, <1>3, <1>4, <1>5

(* What a call knows survives every later state of the journal.            *)
LEMMA CallInvStable ==
  ASSUME NEW j \in JournalType, NEW j2 \in JournalType, Grows(j, j2),
         NEW c \in {NoCall} \cup ActiveCall \cup ReturnedCall,
         CallInv(j, c)
  PROVE  CallInv(j2, c)
<1>1. CASE c.pc \in {Inspecting, Reinspecting}
  <2>1. c \in ActiveCall /\ ActiveInv(j, c) /\ c.pc # Returned
    BY <1>1 DEF NoCall, ReturnedCall, Idle, Inspecting, Reinspecting, Returned,
                CallInv
  <2>2. c.request \in Requests
    BY <2>1 DEF ActiveCall
  <2>3. \A i \in c.exact \cup c.last : ExactAt(j2, c.request, i)
    BY <2>1, <2>2, RequestFacts DEF ActiveInv, ExactAt, Grows
  <2>4. Overtaken(j, c) => Overtaken(j2, c)
    BY <2>2, RequestFacts DEF Overtaken, Grows
  <2>5. QED
    BY <2>1, <2>3, <2>4 DEF CallInv, ActiveInv
<1>2. CASE c.pc = Returned
  <2>1. c \in ReturnedCall /\ ReturnedInv(j, c)
    BY <1>2 DEF NoCall, ActiveCall, Idle, Inspecting, Reinspecting, Returned,
                CallInv
  <2>2. c.request \in Requests
    BY <2>1 DEF ReturnedCall
  <2>3. ReturnedInv(j2, c)
    BY <2>1, <2>2, RequestFacts DEF ReturnedInv, ExactAt, Grows
  <2>4. QED
    BY <1>2, <2>3 DEF CallInv, Inspecting, Reinspecting, Returned
<1>3. CASE c.pc \notin {Inspecting, Reinspecting, Returned}
  BY <1>3 DEF CallInv
<1>4. QED
  BY <1>1, <1>2, <1>3

(* The batch of a request is the puts of its records followed by its       *)
(* supplemental operations.                                                *)
LEMMA BatchFacts ==
  ASSUME NEW q \in Requests
  PROVE  /\ \A i \in Positions(q) :
              /\ i \in DOMAIN Batch(q)
              /\ Batch(q)[i].target = q.records[i].key
              /\ Batch(q)[i].value = q.records[i].value
         /\ \A i \in DOMAIN Batch(q) : i \notin Positions(q) =>
              \E m \in DOMAIN q.operations : Batch(q)[i] = q.operations[m]
         /\ \A m \in DOMAIN q.operations : q.operations[m] \in Operation
<1> DEFINE puts == [i \in Positions(q) |->
                      [target |-> q.records[i].key, value |-> q.records[i].value]]
           n == Len(q.records)
           ops == q.operations
<1>1. n \in Nat /\ Positions(q) = 1..n
  BY RequestFacts
<1>2. ops \in Seq(Operation)
  BY RequestsAssumption DEF RequestShape
<1>3. puts \in Seq(Operation) /\ Len(puts) = n
  <2>1. \A i \in Positions(q) :
           [target |-> q.records[i].key, value |-> q.records[i].value] \in Operation
    BY RequestFacts DEF Operation
  <2>2. puts \in [1..n -> Operation]
    BY <1>1, <2>1
  <2> HIDE DEF puts
  <2>3. QED
    BY <1>1, <2>2
<1>4. \A i \in Positions(q) : /\ puts[i].target = q.records[i].key
                              /\ puts[i].value = q.records[i].value
  OBVIOUS
<1>5. Batch(q) = puts \o ops
  BY DEF Batch
<1> HIDE DEF puts, ops, n
<1>6. /\ DOMAIN (puts \o ops) = 1..(n + Len(ops))
      /\ \A i \in 1..(n + Len(ops)) :
           (puts \o ops)[i] = IF i <= n THEN puts[i] ELSE ops[i - n]
  BY <1>2, <1>3
<1>7. Len(ops) \in Nat /\ DOMAIN ops = 1..Len(ops)
  BY <1>2
<1>8. \A i \in Positions(q) : i \in DOMAIN Batch(q) /\ Batch(q)[i] = puts[i]
  BY <1>1, <1>5, <1>6, <1>7
<1>9. ASSUME NEW i \in DOMAIN Batch(q), i \notin Positions(q)
      PROVE  \E m \in DOMAIN ops : Batch(q)[i] = ops[m]
  <2>1. i - n \in DOMAIN ops /\ Batch(q)[i] = ops[i - n]
    BY <1>1, <1>5, <1>6, <1>7, <1>9
  <2>2. QED
    BY <2>1
<1>10. \A m \in DOMAIN ops : ops[m] \in Operation
  BY <1>2
<1>11. QED
  BY <1>4, <1>8, <1>9, <1>10 DEF ops

(* What a key holds after a batch is what the last operation on it wrote,  *)
(* or what it held before.                                                 *)
LEMMA AppliedFacts ==
  ASSUME NEW b, NEW t, NEW old
  PROVE  \/ /\ Applied(b, t, old) = old
            /\ \A i \in DOMAIN b : ~LastOn(b, t, i)
         \/ \E i \in DOMAIN b : /\ LastOn(b, t, i)
                                /\ Applied(b, t, old) = b[i].value
<1>1. CASE \E i \in DOMAIN b : LastOn(b, t, i)
  <2> DEFINE i == CHOOSE x \in DOMAIN b : LastOn(b, t, x)
  <2>1. i \in DOMAIN b /\ LastOn(b, t, i)
    BY <1>1
  <2>2. Applied(b, t, old) = b[i].value
    BY <1>1 DEF Applied
  <2> HIDE DEF i
  <2>3. QED
    BY <2>1, <2>2
<1>2. CASE ~\E i \in DOMAIN b : LastOn(b, t, i)
  BY <1>2 DEF Applied
<1>3. QED
  BY <1>1, <1>2

JournalAfter(q) == [k \in Keys |-> Applied(Batch(q), k, journal[k])]
RowsAfter(q) == [r \in Rows |-> Applied(Batch(q), r, rows[r])]

(* A committed batch installs every record of the request and touches no   *)
(* other journal key.                                                      *)
LEMMA BatchInstalls ==
  ASSUME NEW q \in Requests, Acceptable(q), JTypeOK
  PROVE  /\ JournalAfter(q) \in JournalType
         /\ \A i \in Positions(q) : ExactAt(JournalAfter(q), q, i)
         /\ \A k \in Keys : (\A i \in Positions(q) : q.records[i].key # k)
                               => JournalAfter(q)[k] = journal[k]
<1> DEFINE b == Batch(q)
<1>1. ASSUME NEW k \in Keys, NEW i \in DOMAIN b, b[i].target = k
      PROVE  i \in Positions(q) /\ q.records[i].key = k
  <2>1. i \in Positions(q)
    BY <1>1, BatchFacts DEF Acceptable
  <2>2. QED
    BY <1>1, <2>1, BatchFacts
<1>2. ASSUME NEW i \in Positions(q)
      PROVE  ExactAt(JournalAfter(q), q, i)
  <2> DEFINE k == q.records[i].key
  <2>1. k \in Keys
    BY RequestFacts
  <2>2. i \in DOMAIN b /\ b[i].target = k /\ b[i].value = q.records[i].value
    BY BatchFacts
  <2>3. \A j \in DOMAIN b : b[j].target = k => j = i
    BY <1>1, <2>1 DEF Acceptable
  <2>4. LastOn(b, k, i)
    <3>1. ~(i > i)
      BY RequestFacts
    <3> HIDE DEF b
    <3>2. QED
      BY <2>2, <2>3, <3>1 DEF LastOn
  <2>5. Applied(b, k, journal[k]) = q.records[i].value
    <3> HIDE DEF b
    <3>1. PICK j \in DOMAIN b : /\ LastOn(b, k, j)
                                /\ Applied(b, k, journal[k]) = b[j].value
      BY <2>2, <2>4, AppliedFacts
    <3>2. j = i
      BY <2>3, <3>1 DEF LastOn
    <3>3. QED
      BY <2>2, <3>1, <3>2
  <2>6. QED
    BY <2>1, <2>5 DEF JournalAfter, ExactAt
<1>3. ASSUME NEW k \in Keys, \A i \in Positions(q) : q.records[i].key # k
      PROVE  JournalAfter(q)[k] = journal[k]
  <2>1. \A i \in DOMAIN b : ~LastOn(b, k, i)
    BY <1>1, <1>3 DEF LastOn
  <2> HIDE DEF b
  <2>2. Applied(b, k, journal[k]) = journal[k]
    BY <2>1, AppliedFacts
  <2>3. QED
    BY <2>2 DEF JournalAfter, b
<1>4. JournalAfter(q) \in JournalType
  <2>1. ASSUME NEW k \in Keys
        PROVE  JournalAfter(q)[k] \in Values \cup {Absent}
    <3>1. CASE \E i \in Positions(q) : q.records[i].key = k
      BY <1>2, <3>1, RequestFacts DEF ExactAt
    <3>2. CASE \A i \in Positions(q) : q.records[i].key # k
      BY <1>3, <3>2 DEF JTypeOK
    <3>3. QED
      BY <3>1, <3>2
  <2>2. JournalAfter(q) = [k \in Keys |-> JournalAfter(q)[k]]
    BY DEF JournalAfter
  <2>3. QED
    BY <2>1, <2>2 DEF JournalType
<1>5. QED
  BY <1>2, <1>3, <1>4

(* A row a committed batch changes was named by a supplemental operation   *)
(* of the request.                                                         *)
LEMMA BatchWritesRows ==
  ASSUME NEW q \in Requests, JTypeOK
  PROVE  /\ RowsAfter(q) \in [Rows -> Values \cup {Absent}]
         /\ \A r \in Rows :
              \/ RowsAfter(q)[r] = rows[r]
              \/ \E m \in DOMAIN q.operations :
                    q.operations[m] = [target |-> r, value |-> RowsAfter(q)[r]]
<1> DEFINE b == Batch(q)
<1>1. ASSUME NEW r \in Rows
      PROVE  \/ RowsAfter(q)[r] = rows[r]
             \/ \E m \in DOMAIN q.operations :
                   q.operations[m] = [target |-> r, value |-> RowsAfter(q)[r]]
  <2> SUFFICES ASSUME RowsAfter(q)[r] # rows[r]
               PROVE  \E m \in DOMAIN q.operations :
                        q.operations[m] = [target |-> r, value |-> RowsAfter(q)[r]]
    OBVIOUS
  <2>1. RowsAfter(q)[r] = Applied(b, r, rows[r])
    BY DEF RowsAfter
  <2>2. PICK i \in DOMAIN b : /\ b[i].target = r
                              /\ RowsAfter(q)[r] = b[i].value
    <3> HIDE DEF b
    <3> QED BY <2>1, AppliedFacts DEF LastOn
  <2>3. i \notin Positions(q)
    BY <2>2, BatchFacts, RequestFacts, NamespaceAssumption
  <2>4. PICK m \in DOMAIN q.operations : b[i] = q.operations[m]
    BY <2>3, BatchFacts
  <2>5. q.operations[m] \in Operation
    BY BatchFacts
  <2> HIDE DEF b
  <2>6. q.operations[m] = [target |-> r, value |-> RowsAfter(q)[r]]
    BY <2>2, <2>4, <2>5 DEF Operation
  <2>7. QED
    BY <2>6
<1>2. \A r \in Rows : RowsAfter(q)[r] \in Values \cup {Absent}
  <2> SUFFICES ASSUME NEW r \in Rows
               PROVE  RowsAfter(q)[r] \in Values \cup {Absent}
    OBVIOUS
  <2>1. CASE RowsAfter(q)[r] = rows[r]
    BY <2>1 DEF JTypeOK
  <2>2. ASSUME NEW m \in DOMAIN q.operations,
               q.operations[m] = [target |-> r, value |-> RowsAfter(q)[r]]
        PROVE  RowsAfter(q)[r] \in Values \cup {Absent}
    <3>1. q.operations[m] \in Operation
      BY BatchFacts
    <3>2. q.operations[m].value \in Values \cup {Absent}
      BY <3>1 DEF Operation
    <3>3. QED
      BY <2>2, <3>2
  <2>3. QED
    BY <1>1, <2>1, <2>2
<1>3. RowsAfter(q) = [r \in Rows |-> RowsAfter(q)[r]]
  BY DEF RowsAfter
<1>4. QED
  BY <1>1, <1>2, <1>3

CallType == {NoCall} \cup ActiveCall \cup ReturnedCall

(* A step that changes one call and leaves the store alone preserves the   *)
(* invariant if the new call satisfies its part of it.                     *)
LEMMA OneCallSteps ==
  ASSUME JInv, NEW w \in Writers, NEW c \in CallType, CallInv(journal, c),
         calls' = [calls EXCEPT ![w] = c], UNCHANGED <<journal, rows>>
  PROVE  JInv' /\ Immutable
<1>1. JTypeOK'
  BY DEF JInv, JTypeOK, CallType
<1>2. \A v \in Writers : CallInv(journal, calls[v])'
  <2> SUFFICES ASSUME NEW v \in Writers
               PROVE  CallInv(journal, calls'[v])
    OBVIOUS
  <2>1. CASE v = w
    BY <2>1 DEF JInv, JTypeOK
  <2>2. CASE v # w
    BY <2>2 DEF JInv, JTypeOK
  <2>3. QED
    BY <2>1, <2>2
<1>3. RowsHaveEvidence'
  BY DEF JInv, RowsHaveEvidence, Exact
<1>4. QED
  BY <1>1, <1>2, <1>3 DEF JInv, Immutable

(* A call that is in the loop is an active call and satisfies ActiveInv.   *)
LEMMA ActiveFacts ==
  ASSUME JInv, NEW w \in Writers, calls[w].pc \in {Inspecting, Reinspecting}
  PROVE  /\ calls[w] \in ActiveCall
         /\ calls[w].request \in Requests
         /\ ActiveInv(journal, calls[w])
<1>1. calls[w] \in {NoCall} \cup ActiveCall \cup ReturnedCall
  BY DEF JInv, JTypeOK
<1>2. calls[w] \in ActiveCall
  BY <1>1 DEF NoCall, ReturnedCall, Idle, Inspecting, Reinspecting, Returned
<1>3. calls[w].request \in Requests
  BY <1>2 DEF ActiveCall
<1>4. ActiveInv(journal, calls[w])
  BY DEF JInv, CallInv
<1>5. QED
  BY <1>2, <1>3, <1>4

(* A finished call is a returned call with the given outcome.              *)
LEMMA FinishedFacts ==
  ASSUME NEW c \in ActiveCall, NEW o \in Outcomes
  PROVE  /\ Finished(c, o) \in ReturnedCall
         /\ Finished(c, o).pc = Returned
         /\ Finished(c, o).request = c.request
         /\ Finished(c, o).outcome = o
         /\ Finished(c, o).matched = c.matched
  BY DEF Finished, ReturnedCall, ActiveCall

(* A new call has read nothing and so satisfies the invariant.             *)
LEMMA StartedInv ==
  ASSUME NEW j, NEW q \in Requests
  PROVE  /\ Started(q) \in ActiveCall
         /\ Acceptable(q) => CallInv(j, Started(q))
<1>1. Started(q) \in ActiveCall
  BY DEF Started, NewReading, ActiveCall
<1>2. ASSUME Acceptable(q) PROVE ActiveInv(j, Started(q))
  <2>1. Len(q.records) \in Nat /\ Cardinality({}) = 0
    BY RequestFacts, FS_EmptySet
  <2>2. QED
    BY <1>2, <2>1 DEF ActiveInv, Started, NewReading, Inspecting, Reinspecting
<1>3. Started(q).pc # Returned
  BY DEF Started, NewReading, Inspecting, Returned
<1>4. QED
  BY <1>1, <1>2, <1>3 DEF CallInv

(* The fields of a call after one successful read.                         *)
LEMMA ReadFacts ==
  ASSUME NEW c \in ActiveCall, NEW x \in SUBSET Nat
  PROVE  /\ Noted(c, x) \in ActiveCall /\ Noted(c, x).pc = c.pc
         /\ Noted(c, x).request = c.request /\ Noted(c, x).at = c.at + 1
         /\ Noted(c, x).exact = x /\ Noted(c, x).last = c.last
         /\ Noted(c, x).round = c.round /\ Noted(c, x).matched = c.matched
<1> DEFINE e == [c EXCEPT !.at = c.at + 1]
<1>1. /\ e \in ActiveCall /\ e.pc = c.pc /\ e.request = c.request
      /\ e.at = c.at + 1 /\ e.last = c.last
      /\ e.round = c.round /\ e.matched = c.matched
  BY DEF ActiveCall
<1>2. Noted(c, x) = [e EXCEPT !.exact = x]
  BY Zenon DEF Noted
<1> HIDE DEF e
<1>3. QED
  BY <1>1, <1>2 DEF ActiveCall

(* A new call starts in the loop or is refused for its arguments.          *)
LEMMA BeginInv ==
  ASSUME JInv, NEW w \in Writers, Begin(w)
  PROVE  JInv' /\ Immutable
<1>1. PICK q \in Requests :
         calls' = [calls EXCEPT ![w] =
                    IF Acceptable(q) THEN Started(q)
                    ELSE Finished(Started(q), "Rejected")]
  BY DEF Begin
<1>2. UNCHANGED <<journal, rows>>
  BY DEF Begin
<1>3. CASE Acceptable(q)
  <2>1. CallInv(journal, Started(q)) /\ Started(q) \in CallType
    BY <1>3, StartedInv DEF CallType
  <2>2. QED
    BY <1>1, <1>2, <1>3, <2>1, OneCallSteps
<1>4. CASE ~Acceptable(q)
  <2> DEFINE c == Finished(Started(q), "Rejected")
  <2>1. c \in ReturnedCall /\ c.pc = Returned /\ c.outcome = "Rejected"
    BY StartedInv, FinishedFacts DEF Outcomes
  <2>2. CallInv(journal, c)
    BY <2>1 DEF CallInv, ReturnedInv, Inspecting, Reinspecting, Returned
  <2>3. c \in CallType
    BY <2>1 DEF CallType
  <2> HIDE DEF c
  <2>4. calls' = [calls EXCEPT ![w] = c]
    BY <1>1, <1>4 DEF c
  <2>5. QED
    BY <1>2, <2>2, <2>3, <2>4, OneCallSteps
<1>5. QED
  BY <1>3, <1>4

(* One read keeps what the call relies on: exact bytes are noted, other    *)
(* bytes end the call with a conflict that is real.                        *)
LEMMA InspectInv ==
  ASSUME JInv, NEW w \in Writers, Inspect(w)
  PROVE  JInv' /\ Immutable
<1> DEFINE c == calls[w]
           q == c.request
           wanted == q.records[c.at]
           found == journal[wanted.key]
           exact == IF found = wanted.value THEN c.exact \cup {c.at} ELSE c.exact
           d == Noted(c, exact)
<1>1. /\ c \in ActiveCall /\ q \in Requests /\ ActiveInv(journal, c)
      /\ c.pc \in {Inspecting, Reinspecting}
      /\ c.at \in Positions(q) /\ UNCHANGED <<journal, rows>>
  BY ActiveFacts DEF Inspect
<1>2. /\ Len(q.records) \in Nat /\ Positions(q) = 1..Len(q.records)
      /\ \A i \in Positions(q) : q.records[i].value # Absent
  BY <1>1, RequestFacts
<1>3. CASE found \in {Absent, wanted.value}
  <2>1. calls' = [calls EXCEPT ![w] = d]
    BY <1>3 DEF Inspect
  <2>2. /\ d \in ActiveCall /\ d.pc = c.pc /\ d.request = q
        /\ d.at = c.at + 1 /\ d.exact = exact /\ d.last = c.last
        /\ d.round = c.round /\ d.matched = c.matched
    <3>1. exact \in SUBSET Nat
      BY <1>1, <1>2 DEF ActiveCall
    <3> HIDE DEF exact
    <3>2. QED
      BY <1>1, <3>1, ReadFacts
  <2> HIDE DEF d
  <2>3. exact \subseteq Positions(q) /\ c.exact \subseteq exact
    BY <1>1 DEF ActiveInv
  <2>4. \A i \in exact : ExactAt(journal, q, i)
    BY <1>1 DEF ActiveInv, ExactAt
  <2>5. \A i \in c.last : i < c.at + 1 => i \in exact
    <3> SUFFICES ASSUME NEW i \in c.last, i < c.at + 1
                 PROVE  i \in exact
      OBVIOUS
    <3>1. i \in Positions(q) /\ ExactAt(journal, q, i)
      BY <1>1 DEF ActiveInv
    <3>2. CASE i = c.at
      BY <3>1, <3>2 DEF ExactAt
    <3>3. CASE i < c.at
      BY <1>1, <2>3, <3>3 DEF ActiveInv
    <3>4. i = c.at \/ i < c.at
      <4> HIDE DEF exact
      <4>1. i \in Int /\ c.at \in Int
        BY <1>1, <1>2, <3>1
      <4>2. QED
        BY <4>1
    <3>5. QED
      BY <3>2, <3>3, <3>4
  <2>6. ASSUME c.pc = Reinspecting, c.matched PROVE Overtaken(journal, d)
    <3>1. PICK i \in Positions(q) \ c.last :
             /\ journal[q.records[i].key] # Absent
             /\ i < c.at => i \in c.exact
      BY <1>1, <2>6 DEF ActiveInv, Overtaken
    <3>2. i = c.at => i \in exact
      BY <1>3, <3>1
    <3>3. i < c.at => i \in exact
      BY <2>3, <3>1
    <3>4. i < c.at + 1 => i = c.at \/ i < c.at
      <4> HIDE DEF exact
      <4>1. i \in Int /\ c.at \in Int
        BY <1>1, <1>2
      <4>2. QED
        BY <4>1
    <3>5. QED
      BY <2>2, <3>1, <3>2, <3>3, <3>4 DEF Overtaken
  <2>7. ActiveInv(journal, d)
    <3> HIDE DEF exact
    <3>1. c.at + 1 \in 1..(Len(q.records) + 1)
      BY <1>1, <1>2
    <3>2. QED
      BY <1>1, <2>2, <2>3, <2>4, <2>5, <2>6, <3>1 DEF ActiveInv
  <2>8. CallInv(journal, d) /\ d \in CallType
    BY <1>1, <2>2, <2>7 DEF CallInv, CallType, Inspecting, Reinspecting, Returned
  <2>9. QED
    BY <1>1, <2>1, <2>8, OneCallSteps
<1>4. CASE found \notin {Absent, wanted.value}
  <2> DEFINE e == Finished(c, "ImmutableConflict")
  <2>1. /\ e \in ReturnedCall /\ e.pc = Returned /\ e.request = q
        /\ e.outcome = "ImmutableConflict"
    BY <1>1, FinishedFacts DEF Outcomes
  <2>2. calls' = [calls EXCEPT ![w] = e]
    BY <1>4 DEF Inspect
  <2> HIDE DEF e
  <2>3. CallInv(journal, e) /\ e \in CallType
    BY <1>1, <1>4, <2>1
       DEF CallInv, ReturnedInv, CallType, Inspecting, Reinspecting, Returned
  <2>4. QED
    BY <1>1, <2>2, <2>3, OneCallSteps
<1>5. QED
  BY <1>3, <1>4

(* A reading that is complete has found everything the last one found.     *)
LEMMA CompleteReading ==
  ASSUME NEW j, NEW c \in ActiveCall, ActiveInv(j, c), InspectionDone(c)
  PROVE  /\ c.last \subseteq c.exact
         /\ c.exact \subseteq Positions(c.request)
         /\ IsFiniteSet(c.exact) /\ IsFiniteSet(c.last)
         /\ c.round <= Cardinality(c.exact)
<1>1. /\ c.request \in Requests /\ c.at \in Nat /\ c.round \in Nat
  BY DEF ActiveCall
<1>2. /\ Len(c.request.records) \in Nat
      /\ Positions(c.request) = 1..Len(c.request.records)
      /\ IsFiniteSet(Positions(c.request))
  BY <1>1, RequestFacts
<1>3. \A i \in c.last : i \in Positions(c.request) /\ i < c.at
  BY <1>1, <1>2 DEF ActiveInv, InspectionDone
<1>4. c.last \subseteq c.exact /\ c.exact \subseteq Positions(c.request)
  BY <1>3 DEF ActiveInv
<1>5. IsFiniteSet(c.exact) /\ IsFiniteSet(c.last)
  BY <1>2, <1>4, FS_Subset
<1>6. Cardinality(c.last) <= Cardinality(c.exact)
  BY <1>4, <1>5, FS_Subset
<1>7. Cardinality(c.last) \in Nat /\ Cardinality(c.exact) \in Nat
  BY <1>5, FS_CardinalityType
<1>8. c.round <= Cardinality(c.exact)
  BY <1>1, <1>6, <1>7 DEF ActiveInv
<1>9. QED
  BY <1>4, <1>5, <1>8

(* A refused attempt: if the external conditions held, a record that was   *)
(* absent in the reading is in the journal now.                            *)
LEMMA RefuseInv ==
  ASSUME JInv, NEW w \in Writers, Refuse(w)
  PROVE  JInv' /\ Immutable
<1> DEFINE c == calls[w]
           q == c.request
           d == NewReading(Reinspecting, q, c.exact, c.round, ConditionsHold(q))
<1>1. /\ c \in ActiveCall /\ q \in Requests /\ ActiveInv(journal, c)
      /\ InspectionDone(c) /\ UNCHANGED <<journal, rows>>
      /\ calls' = [calls EXCEPT ![w] = d]
      /\ ~ConditionsHold(q) \/ ~ObservationHolds(q, c.exact)
  BY ActiveFacts DEF Refuse
<1>2. /\ c.exact \in SUBSET Nat /\ c.round \in Nat
      /\ ConditionsHold(q) \in BOOLEAN
  BY <1>1 DEF ActiveCall, ConditionsHold
<1>3. /\ d \in ActiveCall /\ d.pc = Reinspecting /\ d.request = q
      /\ d.at = 1 /\ d.exact = {} /\ d.last = c.exact
      /\ d.round = c.round /\ d.matched = ConditionsHold(q)
  BY <1>1, <1>2 DEF NewReading, ActiveCall
<1> HIDE DEF d
<1>4. /\ Len(q.records) \in Nat /\ Positions(q) = 1..Len(q.records)
  BY <1>1, RequestFacts
<1>5. ASSUME ConditionsHold(q) PROVE Overtaken(journal, d)
  <2>1. PICK i \in Positions(q) :
           journal[q.records[i].key] #
              (IF i \in c.exact THEN q.records[i].value ELSE Absent)
    BY <1>1, <1>5 DEF ObservationHolds
  <2>2. i \notin c.exact
    BY <1>1, <2>1 DEF ActiveInv, ExactAt
  <2>3. ~(i < 1)
    BY <1>4
  <2>4. QED
    BY <1>3, <2>1, <2>2, <2>3 DEF Overtaken
<1>6. c.exact \subseteq Positions(q) /\ c.round <= Cardinality(c.exact)
  BY <1>1, CompleteReading
<1>7. ActiveInv(journal, d)
  <2>1. 1 \in 1..(Len(q.records) + 1) /\ \A i \in Positions(q) : ~(i < 1)
    BY <1>4
  <2>2. Acceptable(q) /\ c.round \in 0..Len(q.records)
    BY <1>1 DEF ActiveInv
  <2>3. \A i \in c.exact : ExactAt(journal, q, i)
    BY <1>1 DEF ActiveInv
  <2>4. QED
    BY <1>3, <1>5, <1>6, <2>1, <2>2, <2>3 DEF ActiveInv
<1>8. CallInv(journal, d) /\ d \in CallType
  BY <1>3, <1>7 DEF CallInv, CallType, Reinspecting, Returned
<1>9. QED
  BY <1>1, <1>8, OneCallSteps

(* The verdict after the second reading is true, and the loop is never     *)
(* left through its bound.                                                 *)
LEMMA VerdictInv ==
  ASSUME NEW j, NEW c \in ActiveCall, ActiveInv(j, c),
         c.pc = Reinspecting, InspectionDone(c)
  PROVE  Verdict(c) \in CallType /\ CallInv(j, Verdict(c))
<1>1. /\ c.last \subseteq c.exact /\ c.exact \subseteq Positions(c.request)
      /\ IsFiniteSet(c.exact) /\ IsFiniteSet(c.last)
  BY CompleteReading
<1>2. /\ c.request \in Requests /\ c.round \in Nat /\ c.at \in Nat
      /\ c.exact \in SUBSET Nat /\ c.matched \in BOOLEAN
  BY DEF ActiveCall
<1>3. /\ Len(c.request.records) \in Nat
      /\ Positions(c.request) = 1..Len(c.request.records)
      /\ IsFiniteSet(Positions(c.request))
      /\ Cardinality(Positions(c.request)) = Len(c.request.records)
  BY <1>2, RequestFacts
<1>4. CASE c.exact = c.last
  <2>1. ~c.matched
    <3>1. SUFFICES ASSUME c.matched PROVE FALSE
      BY <1>2
    <3>2. PICK i \in Positions(c.request) \ c.last : i < c.at => i \in c.exact
      BY <3>1 DEF ActiveInv, Overtaken
    <3>3. i < c.at
      BY <1>2, <1>3 DEF InspectionDone
    <3>4. QED
      BY <1>4, <3>2, <3>3
  <2> DEFINE o == IF c.exact = Positions(c.request)
                  THEN "ExactRecord" ELSE "PreconditionMismatch"
  <2>2. Verdict(c) = Finished(c, o)
    BY <1>4 DEF Verdict
  <2>3. o \in Outcomes
    BY DEF Outcomes
  <2>4. /\ o \in {"ExactRecord", "PreconditionMismatch"}
        /\ o = "ExactRecord" =>
             \A i \in Positions(c.request) : ExactAt(j, c.request, i)
    BY DEF ActiveInv
  <2> HIDE DEF o
  <2>5. /\ Verdict(c) \in ReturnedCall /\ Verdict(c).pc = Returned
        /\ Verdict(c).request = c.request /\ Verdict(c).outcome = o
        /\ Verdict(c).matched = c.matched
    BY <2>2, <2>3, FinishedFacts
  <2>6. ReturnedInv(j, Verdict(c))
    BY <2>1, <2>4, <2>5 DEF ReturnedInv
  <2>7. QED
    BY <2>5, <2>6 DEF CallInv, CallType, Inspecting, Reinspecting, Returned
<1>5. CASE c.exact # c.last
  <2>1. /\ Cardinality(c.last) <= Cardinality(c.exact)
        /\ Cardinality(c.last) # Cardinality(c.exact)
    BY <1>1, <1>5, FS_Subset
  <2>2. Cardinality(c.exact) <= Len(c.request.records)
    BY <1>1, <1>3, FS_Subset
  <2>3. Cardinality(c.last) \in Nat /\ Cardinality(c.exact) \in Nat
    BY <1>1, FS_CardinalityType
  <2>4. /\ c.round + 1 <= Cardinality(c.exact)
        /\ c.round + 1 \in 0..Len(c.request.records)
        /\ c.round # Len(c.request.records)
    BY <1>2, <1>3, <2>1, <2>2, <2>3 DEF ActiveInv
  <2> DEFINE d == NewReading(Inspecting, c.request, c.exact, c.round + 1, c.matched)
  <2>5. Verdict(c) = d
    BY <1>1, <1>5, <2>4 DEF Verdict
  <2>6. /\ d \in ActiveCall /\ d.pc = Inspecting /\ d.request = c.request
        /\ d.at = 1 /\ d.exact = {} /\ d.last = c.exact
        /\ d.round = c.round + 1
    BY <1>2 DEF NewReading, ActiveCall
  <2> HIDE DEF d
  <2>7. ActiveInv(j, d)
    <3>1. 1 \in 1..(Len(c.request.records) + 1)
          /\ \A i \in Positions(c.request) : ~(i < 1)
      BY <1>3
    <3>2. Acceptable(c.request) /\ \A i \in c.exact : ExactAt(j, c.request, i)
      BY DEF ActiveInv
    <3>3. QED
      BY <1>1, <2>4, <2>6, <3>1, <3>2 DEF ActiveInv, Inspecting, Reinspecting
  <2>8. QED
    BY <2>5, <2>6, <2>7 DEF CallInv, CallType, Inspecting, Returned
<1>6. QED
  BY <1>4, <1>5

(* Comparing the two readings preserves the invariant.                     *)
LEMMA CompareInv ==
  ASSUME JInv, NEW w \in Writers, Compare(w)
  PROVE  JInv' /\ Immutable
<1>1. /\ calls[w] \in ActiveCall /\ ActiveInv(journal, calls[w])
      /\ calls[w].pc = Reinspecting /\ InspectionDone(calls[w])
  BY ActiveFacts DEF Compare
<1>2. /\ Verdict(calls[w]) \in CallType
      /\ CallInv(journal, Verdict(calls[w]))
  BY <1>1, VerdictInv
<1>3. QED
  BY <1>2, OneCallSteps DEF Compare

(* A call that returns or dies takes nothing from the store.               *)
LEMMA LeaveInv ==
  ASSUME JInv, NEW w \in Writers, Leave(w)
  PROVE  JInv' /\ Immutable
<1>1. NoCall \in CallType /\ CallInv(journal, NoCall)
  BY DEF CallType, CallInv, NoCall, Idle, Inspecting, Reinspecting, Returned
<1>2. QED
  BY <1>1, OneCallSteps DEF Leave

(* The rows written by others are not the ones that need evidence.         *)
LEMMA ForeignWriteInv ==
  ASSUME JInv, ForeignWrite
  PROVE  JInv' /\ Immutable
<1>1. PICK r \in Foreign, v \in Values \cup {Absent} :
         rows' = [rows EXCEPT ![r] = v]
  BY DEF ForeignWrite
<1>2. UNCHANGED <<journal, calls>>
  BY DEF ForeignWrite
<1>3. JTypeOK'
  BY <1>1, <1>2, ForeignAssumption DEF JInv, JTypeOK
<1>4. \A w \in Writers : CallInv(journal, calls[w])'
  BY <1>2 DEF JInv
<1>5. RowsHaveEvidence'
  <2>1. \A x \in Rows \ Foreign : rows'[x] = rows[x]
    BY <1>1 DEF JInv, JTypeOK
  <2>2. \A q \in Requests : Exact(q) => Exact(q)'
    BY <1>2 DEF Exact
  <2> SUFFICES ASSUME NEW x \in Rows \ Foreign, rows'[x] # Absent
               PROVE  \E q \in Requests :
                        /\ \E m \in DOMAIN q.operations :
                             q.operations[m] = [target |-> x, value |-> rows'[x]]
                        /\ Exact(q)'
    BY DEF RowsHaveEvidence
  <2>3. rows'[x] = rows[x]
    BY <2>1
  <2>4. QED
    BY <2>2, <2>3 DEF JInv, RowsHaveEvidence
<1>6. QED
  BY <1>2, <1>3, <1>4, <1>5 DEF JInv, Immutable

(* A committed batch only adds records, and every row it writes has the    *)
(* records of the same request as its evidence.                            *)
LEMMA CommitInv ==
  ASSUME JInv, NEW w \in Writers, Commit(w)
  PROVE  JInv' /\ Immutable
<1> DEFINE c == calls[w]
           q == c.request
           e == Finished(c, "Committed")
<1>1. /\ c \in ActiveCall /\ q \in Requests /\ ActiveInv(journal, c)
      /\ ObservationHolds(q, c.exact)
      /\ journal' = JournalAfter(q) /\ rows' = RowsAfter(q)
      /\ calls' = [calls EXCEPT ![w] = e]
  BY ActiveFacts DEF Commit, JournalAfter, RowsAfter
<1>2. JTypeOK /\ Acceptable(q)
  BY <1>1 DEF JInv, ActiveInv
<1>3. /\ journal' \in JournalType
      /\ \A i \in Positions(q) : ExactAt(journal', q, i)
      /\ \A k \in Keys : (\A i \in Positions(q) : q.records[i].key # k)
                            => journal'[k] = journal[k]
  BY <1>1, <1>2, BatchInstalls
<1>4. Grows(journal, journal')
  <2> SUFFICES ASSUME NEW k \in Keys, journal[k] # Absent
               PROVE  journal'[k] = journal[k]
    BY DEF Grows
  <2>1. CASE \E i \in Positions(q) : q.records[i].key = k
    <3>1. PICK i \in Positions(q) : q.records[i].key = k
      BY <2>1
    <3>2. journal[k] = q.records[i].value
      BY <1>1, <3>1 DEF ObservationHolds
    <3>3. QED
      BY <1>3, <3>1, <3>2 DEF ExactAt
  <2>2. CASE \A i \in Positions(q) : q.records[i].key # k
    BY <1>3, <2>2
  <2>3. QED
    BY <2>1, <2>2
<1>5. e \in ReturnedCall /\ CallInv(journal', e)
  <2>1. /\ e \in ReturnedCall /\ e.pc = Returned /\ e.request = q
        /\ e.outcome = "Committed"
    BY <1>1, FinishedFacts DEF Outcomes
  <2> HIDE DEF e
  <2>2. QED
    BY <1>3, <2>1 DEF CallInv, ReturnedInv, Inspecting, Reinspecting, Returned
<1>6. /\ rows' \in [Rows -> Values \cup {Absent}]
      /\ \A r \in Rows :
           \/ rows'[r] = rows[r]
           \/ \E m \in DOMAIN q.operations :
                 q.operations[m] = [target |-> r, value |-> rows'[r]]
  BY <1>1, <1>2, BatchWritesRows
<1>7. JTypeOK'
  <2> HIDE DEF e
  <2> QED BY <1>1, <1>2, <1>3, <1>5, <1>6 DEF JTypeOK, JournalType
<1>8. \A v \in Writers : CallInv(journal, calls[v])'
  <2> SUFFICES ASSUME NEW v \in Writers
               PROVE  CallInv(journal', calls'[v])
    OBVIOUS
  <2>1. CASE v = w
    <3> HIDE DEF e
    <3> QED BY <1>1, <1>2, <1>5, <2>1 DEF JTypeOK
  <2>2. CASE v # w
    <3>1. calls'[v] = calls[v]
      BY <1>1, <1>2, <2>2 DEF JTypeOK
    <3>2. /\ calls[v] \in {NoCall} \cup ActiveCall \cup ReturnedCall
          /\ CallInv(journal, calls[v]) /\ journal \in JournalType
      BY DEF JInv, JTypeOK, JournalType
    <3>3. CallInv(journal', calls[v])
      BY <1>3, <1>4, <3>2, CallInvStable
    <3>4. QED
      BY <3>1, <3>3
  <2>3. QED
    BY <2>1, <2>2
<1>9. RowsHaveEvidence'
  <2>1. \A x \in Requests : Exact(x) => Exact(x)'
    BY <1>4, RequestFacts DEF Exact, Grows
  <2>2. \A x \in Requests : x = q => Exact(x)'
    BY <1>3 DEF Exact, ExactAt
  <2> SUFFICES ASSUME NEW r \in Rows \ Foreign, rows'[r] # Absent
               PROVE  \E x \in Requests :
                        /\ \E m \in DOMAIN x.operations :
                             x.operations[m] = [target |-> r, value |-> rows'[r]]
                        /\ Exact(x)'
    BY DEF RowsHaveEvidence
  <2>3. CASE rows'[r] = rows[r]
    BY <2>1, <2>3 DEF JInv, RowsHaveEvidence
  <2>4. CASE \E m \in DOMAIN q.operations :
               q.operations[m] = [target |-> r, value |-> rows'[r]]
    BY <1>1, <2>2, <2>4
  <2>5. QED
    BY <1>6, <2>3, <2>4
<1>10. QED
  BY <1>4, <1>7, <1>8, <1>9 DEF JInv, Immutable, Grows

----------------------------------------------------------------------------

(* The empty store satisfies the invariant.                                *)
LEMMA JInvInit == JInit => JInv
<1> SUFFICES ASSUME JInit PROVE JInv
  OBVIOUS
<1>1. JTypeOK
  BY DEF JInit, JTypeOK
<1>2. \A w \in Writers : CallInv(journal, calls[w])
  BY DEF JInit, CallInv, NoCall, Idle, Inspecting, Reinspecting, Returned
<1>3. RowsHaveEvidence
  BY DEF JInit, RowsHaveEvidence
<1>4. QED
  BY <1>1, <1>2, <1>3 DEF JInv

(* Every step preserves the invariant and replaces no journal record.      *)
LEMMA JInvNext == JInv /\ [JNext]_jVars => JInv' /\ (JNext => Immutable)
<1> SUFFICES ASSUME JInv, [JNext]_jVars PROVE JInv' /\ (JNext => Immutable)
  OBVIOUS
<1>1. CASE JNext
  <2>1. ASSUME NEW w \in Writers,
               \/ Begin(w) \/ Inspect(w) \/ Commit(w)
               \/ Refuse(w) \/ Compare(w) \/ Leave(w)
        PROVE  JInv' /\ Immutable
    BY <2>1, BeginInv, InspectInv, CommitInv, RefuseInv, CompareInv, LeaveInv
  <2>2. QED
    BY <1>1, <2>1, ForeignWriteInv DEF JNext
<1>2. CASE UNCHANGED jVars
  <2>1. JInv'
    BY <1>2 DEF jVars, JInv, JTypeOK, RowsHaveEvidence, Exact
  <2>2. Immutable
    BY <1>2 DEF jVars, Immutable
  <2>3. QED
    BY <2>1, <2>2
<1>3. QED
  BY <1>1, <1>2

(* The invariant implies the properties callers of the journal rely on.    *)
LEMMA JInvImplies == JInv => OutcomesAreTrue /\ AlwaysStabilizes
  BY DEF JInv, CallInv, ReturnedInv, OutcomesAreTrue, AlwaysStabilizes, Exact,
         ExactAt

(* However many writers race, the store and every call keep their types.   *)
THEOREM JournalTypeOK == JSpec => []JTypeOK
<1>1. JInv => JTypeOK
  BY DEF JInv
<1>2. QED
  BY <1>1, JInvInit, JInvNext, PTL DEF JSpec

(* persist_records_with_conditions_and_batch reports the truth, for every  *)
(* number of writers and every request: see OutcomesAreTrue.               *)
THEOREM JournalOutcomesAreTrue == JSpec => []OutcomesAreTrue
  BY JInvInit, JInvNext, JInvImplies, PTL DEF JSpec

(* The loop of persist_records_with_conditions_and_batch never runs out of *)
(* its records.len() + 1 attempts, however long the request is.            *)
THEOREM JournalStabilizes == JSpec => []AlwaysStabilizes
  BY JInvInit, JInvNext, JInvImplies, PTL DEF JSpec

(* A derived row never exists without the journal records of a request     *)
(* that writes it.                                                         *)
THEOREM JournalRowsHaveEvidence == JSpec => []RowsHaveEvidence
<1>1. JInv => RowsHaveEvidence
  BY DEF JInv
<1>2. QED
  BY <1>1, JInvInit, JInvNext, PTL DEF JSpec

(* No race between writers replaces or removes a journal record.           *)
THEOREM JournalImmutability == JSpec => JournalIsImmutable
<1>1. JInv /\ [JNext]_jVars => [Immutable]_jVars
  BY JInvNext
<1>2. QED
  BY <1>1, JInvInit, JInvNext, PTL DEF JSpec, JournalIsImmutable

=============================================================================
