-------------------------- MODULE ProtocolJournal --------------------------
(***************************************************************************)
(* The immutable protocol journal of crates/meshmine-storage: concurrent   *)
(* writers each run one call of persist_records_with_conditions_and_batch. *)
(* A call reads its journal keys one by one, tries one conditional batch,  *)
(* and reads the keys again when the batch was refused.  Every get and     *)
(* every conditional batch is one transaction of the store; everything     *)
(* between two of them interleaves with the other writers and with the     *)
(* rest of the program, which changes derived rows of its own.             *)
(*                                                                         *)
(* A record of a request is identified by its position in the request, as  *)
(* the code identifies it by its index in `prepared`.                      *)
(***************************************************************************)
EXTENDS Integers, Sequences, FiniteSets

CONSTANTS
  Writers,     \* threads and processes that share the store
  Keys,        \* journal keys: a record kind with its durable key
  Rows,        \* keys outside the journal: derived indexes, heads, fences
  Values,      \* the bytes stored under a key
  Foreign,     \* rows the rest of the program writes as well
  Requests,    \* the requests writers make
  Absent       \* what a read of a missing key returns

VARIABLES journal, rows, calls

jVars == <<journal, rows, calls>>

Record == [key : Keys, value : Values]

(* A condition expects bytes or Absent; an operation puts bytes or, with   *)
(* the value Absent, deletes.  Both may name any key of the store.         *)
Condition == [target : Keys \cup Rows, expected : Values \cup {Absent}]
Operation == [target : Keys \cup Rows, value : Values \cup {Absent}]

(* One call: its records and its supplemental operations in order, and its *)
(* external conditions.                                                    *)
RequestShape(q) ==
  /\ q.records \in Seq(Record)
  /\ q.conditions \subseteq Condition
  /\ q.operations \in Seq(Operation)

ASSUME AbsentAssumption == Absent \notin Values
ASSUME NamespaceAssumption == Keys \cap Rows = {}
ASSUME ForeignAssumption == Foreign \subseteq Rows
ASSUME RequestsAssumption == \A q \in Requests : RequestShape(q)

Positions(q) == DOMAIN q.records

(* Mutant: supplemental operations may target the journal.                 *)
AcceptableAnyTarget(q) ==
  /\ q.records # <<>>
  /\ \A i, j \in Positions(q) :
        q.records[i].key = q.records[j].key => i = j

(* The checks made before the store is touched: refused are an empty batch *)
(* (EmptyJournalBatch), a key that occurs twice (DuplicateJournalKey), and *)
(* a condition on a requested key or an operation on any journal key       *)
(* (SupplementalJournalTarget).  A condition on another journal key is     *)
(* let through.                                                            *)
Acceptable(q) ==
  /\ q.records # <<>>
  /\ \A i, j \in Positions(q) :
        q.records[i].key = q.records[j].key => i = j
  /\ \A c \in q.conditions, i \in Positions(q) : c.target # q.records[i].key
  /\ \A i \in DOMAIN q.operations : q.operations[i].target \notin Keys

Idle == "idle"
Inspecting == "inspect"        \* reading the keys before the attempt
Reinspecting == "reinspect"    \* reading them again after a refusal
Returned == "returned"

Outcomes == {"Committed", "ExactRecord", "PreconditionMismatch",
             "ImmutableConflict", "Rejected", "DidNotStabilize"}

NoCall == [pc |-> Idle]

(* at: the position read next; exact: the positions this reading found     *)
(* with the requested bytes; last: what the reading before found; round:   *)
(* how often the loop has been repeated; matched: whether the external     *)
(* conditions held in the transaction of the refused attempt.              *)
NewReading(phase, q, last, round, matched) ==
  [pc |-> phase, request |-> q, at |-> 1, exact |-> {},
   last |-> last, round |-> round, matched |-> matched]

Started(q) == NewReading(Inspecting, q, {}, 0, FALSE)

Finished(c, outcome) ==
  [pc |-> Returned, request |-> c.request, outcome |-> outcome,
   matched |-> c.matched]

JInit ==
  /\ journal = [k \in Keys |-> Absent]
  /\ rows = [r \in Rows |-> Absent]
  /\ calls = [w \in Writers |-> NoCall]

----------------------------------------------------------------------------

Begin(w) ==
  /\ calls[w].pc = Idle
  /\ \E q \in Requests :
        calls' = [calls EXCEPT ![w] =
                    IF Acceptable(q) THEN Started(q)
                    ELSE Finished(Started(q), "Rejected")]
  /\ UNCHANGED <<journal, rows>>

Noted(c, exact) == [c EXCEPT !.at = c.at + 1, !.exact = exact]

(* One get of `inspect`: an absent key and the exact bytes are noted, any  *)
(* other bytes end the call.                                               *)
Inspect(w) ==
  LET c == calls[w]
      wanted == c.request.records[c.at]
      found == journal[wanted.key]
      exact == IF found = wanted.value THEN c.exact \cup {c.at} ELSE c.exact
  IN /\ c.pc \in {Inspecting, Reinspecting}
     /\ c.at \in Positions(c.request)
     /\ calls' = [calls EXCEPT ![w] =
                    IF found \in {Absent, wanted.value}
                    THEN Noted(c, exact)
                    ELSE Finished(c, "ImmutableConflict")]
     /\ UNCHANGED <<journal, rows>>

InspectionDone(c) == c.at > Len(c.request.records)

StoredAt(t) == IF t \in Keys THEN journal[t] ELSE rows[t]

ConditionsHold(q) == \A c \in q.conditions : StoredAt(c.target) = c.expected

(* The journal conditions of one attempt: what was exact still is, what    *)
(* was absent still is.                                                    *)
ObservationHolds(q, exact) ==
  \A i \in Positions(q) :
     journal[q.records[i].key] = IF i \in exact THEN q.records[i].value
                                                ELSE Absent

(* Mutant: the encoded record is stored instead of its value.              *)
BatchOfWholeRecords(q) ==
  [i \in Positions(q) |->
     [target |-> q.records[i].key, value |-> q.records[i]]] \o q.operations

(* Mutant: only the first record joins the batch.                          *)
BatchOfFirstRecord(q) ==
  <<[target |-> q.records[1].key, value |-> q.records[1].value]>>
     \o q.operations

(* The puts of the records, then the supplemental operations.              *)
Batch(q) ==
  [i \in Positions(q) |->
     [target |-> q.records[i].key, value |-> q.records[i].value]] \o q.operations

LastOn(batch, t, i) ==
  /\ batch[i].target = t
  /\ \A j \in DOMAIN batch : j > i => batch[j].target # t

(* What a key holds after the operations were applied in order: the last   *)
(* one that names it decides.                                              *)
Applied(batch, t, old) ==
  IF \E i \in DOMAIN batch : LastOn(batch, t, i)
  THEN batch[CHOOSE i \in DOMAIN batch : LastOn(batch, t, i)].value
  ELSE old

(* apply_batch_if_all: conditions and writes in one transaction.           *)
Commit(w) ==
  LET c == calls[w]
  IN /\ c.pc = Inspecting
     /\ InspectionDone(c)
     /\ ConditionsHold(c.request)
     /\ ObservationHolds(c.request, c.exact)
     /\ journal' = [k \in Keys |-> Applied(Batch(c.request), k, journal[k])]
     /\ rows' = [r \in Rows |-> Applied(Batch(c.request), r, rows[r])]
     /\ calls' = [calls EXCEPT ![w] = Finished(c, "Committed")]

Refuse(w) ==
  LET c == calls[w]
  IN /\ c.pc = Inspecting
     /\ InspectionDone(c)
     /\ \/ ~ConditionsHold(c.request)
        \/ ~ObservationHolds(c.request, c.exact)
     /\ calls' = [calls EXCEPT ![w] =
                    NewReading(Reinspecting, c.request, c.exact, c.round,
                               ConditionsHold(c.request))]
     /\ UNCHANGED <<journal, rows>>

(* Mutant: a refused batch is blamed on the external conditions without    *)
(* comparing the two readings.                                             *)
VerdictAtOnce(c) ==
  Finished(c, IF c.exact = Positions(c.request)
              THEN "ExactRecord" ELSE "PreconditionMismatch")

(* Mutant: the loop gives up one round early.                              *)
VerdictShort(c) ==
  IF c.exact = c.last
  THEN Finished(c, IF c.exact = Positions(c.request)
                   THEN "ExactRecord" ELSE "PreconditionMismatch")
  ELSE IF ~(c.last \subseteq c.exact)
  THEN Finished(c, "ImmutableConflict")
  ELSE IF c.round + 1 = Len(c.request.records)
  THEN Finished(c, "DidNotStabilize")
  ELSE NewReading(Inspecting, c.request, c.exact, c.round + 1, c.matched)

(* What the call does with the second reading.                             *)
Verdict(c) ==
  IF c.exact = c.last
  THEN Finished(c, IF c.exact = Positions(c.request)
                   THEN "ExactRecord" ELSE "PreconditionMismatch")
  ELSE IF ~(c.last \subseteq c.exact)
  THEN Finished(c, "ImmutableConflict")
  ELSE IF c.round = Len(c.request.records)
  THEN Finished(c, "DidNotStabilize")
  ELSE NewReading(Inspecting, c.request, c.exact, c.round + 1, c.matched)

Compare(w) ==
  /\ calls[w].pc = Reinspecting
  /\ InspectionDone(calls[w])
  /\ calls' = [calls EXCEPT ![w] = Verdict(calls[w])]
  /\ UNCHANGED <<journal, rows>>

(* The caller consumes the outcome, or the process dies or a store call    *)
(* fails at any point: the call is gone, what the store holds is not.      *)
Leave(w) ==
  /\ calls[w].pc # Idle
  /\ calls' = [calls EXCEPT ![w] = NoCall]
  /\ UNCHANGED <<journal, rows>>

(* Session closes, head advances and the like, written by other code.      *)
ForeignWrite ==
  /\ \E r \in Foreign, v \in Values \cup {Absent} :
        rows' = [rows EXCEPT ![r] = v]
  /\ UNCHANGED <<journal, calls>>

JNext ==
  \/ \E w \in Writers :
        \/ Begin(w)
        \/ Inspect(w)
        \/ Commit(w)
        \/ Refuse(w)
        \/ Compare(w)
        \/ Leave(w)
  \/ ForeignWrite

JSpec == JInit /\ [][JNext]_jVars

----------------------------------------------------------------------------

ActiveCall ==
  [pc : {Inspecting, Reinspecting}, request : Requests, at : Nat,
   exact : SUBSET Nat, last : SUBSET Nat, round : Nat, matched : BOOLEAN]

ReturnedCall ==
  [pc : {Returned}, request : Requests, outcome : Outcomes, matched : BOOLEAN]

(* The store holds journal records and rows, and every call of             *)
(* persist_records_with_conditions_and_batch is outside, in the loop, or   *)
(* back with one of its results.                                           *)
JTypeOK ==
  /\ journal \in [Keys -> Values \cup {Absent}]
  /\ rows \in [Rows -> Values \cup {Absent}]
  /\ calls \in [Writers -> {NoCall} \cup ActiveCall \cup ReturnedCall]

(* A journal record, once written, keeps its bytes whatever the writers    *)
(* race on and whatever supplemental operations they ask for: "rewriting a *)
(* key is a protocol fault".                                               *)
Immutable == \A k \in Keys : journal[k] # Absent => journal'[k] = journal[k]

(* The immutability of every step, whatever the interleaving of the        *)
(* writers.                                                                *)
JournalIsImmutable == [][Immutable]_jVars

Exact(q) == \A i \in Positions(q) : journal[q.records[i].key] = q.records[i].value

(* What persist_records_with_conditions_and_batch returns is true although *)
(* it was put together from reads of different moments: Committed and      *)
(* ExactRecord mean that every record is in the journal, ImmutableConflict *)
(* that one key holds other bytes, and ExactRecord or PreconditionMismatch *)
(* that an external condition really failed in the attempt's transaction   *)
(* and not merely a race on the journal keys.                              *)
OutcomesAreTrue ==
  \A w \in Writers :
     LET c == calls[w]
     IN c.pc = Returned =>
          /\ c.outcome \in {"Committed", "ExactRecord"} => Exact(c.request)
          /\ c.outcome \in {"ExactRecord", "PreconditionMismatch"} => ~c.matched
          /\ c.outcome = "ImmutableConflict" =>
               \E i \in Positions(c.request) :
                  journal[c.request.records[i].key]
                     \notin {Absent, c.request.records[i].value}

(* The loop bound is enough: "There can therefore be at most records.len() *)
(* such transitions before a stable result", so the error after the loop   *)
(* is never returned.                                                      *)
AlwaysStabilizes ==
  \A w \in Writers : calls[w].pc = Returned =>
     calls[w].outcome # "DidNotStabilize"

(* Supplemental operations are never detached from their journal evidence: *)
(* a derived row that only journal batches write always comes with every   *)
(* record of a request that writes it.                                     *)
RowsHaveEvidence ==
  \A r \in Rows \ Foreign : rows[r] # Absent =>
     \E q \in Requests :
        /\ \E i \in DOMAIN q.operations :
              q.operations[i] = [target |-> r, value |-> rows[r]]
        /\ Exact(q)

=============================================================================
