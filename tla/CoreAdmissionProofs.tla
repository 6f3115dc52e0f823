------------------------ MODULE CoreAdmissionProofs -------------------------
(***************************************************************************)
(* The safety properties of CoreAdmission for every schedule of bundles,   *)
(* every set of works and every bound.                                     *)
(*                                                                         *)
(* The properties are not inductive as they stand.  The strengthening says *)
(* that a cursor remembers the receipt it was advanced by (CursorAgrees),  *)
(* that a hand-over in progress is about the active and the pending bundle *)
(* and that the writes of its earlier steps are in the store (TxnInv), and *)
(* that nothing is pending before the first bundle is active (HeadInv).    *)
(***************************************************************************)
EXTENDS CoreAdmission, TLAPS

CursorAgrees(k) ==
    coCursor[k].next > 1 =>
        /\ coCursor[k].lastMs = coCursor[k].last.ms
        /\ \E r \in ReceiptsOf(k) :
              /\ r.env = coCursor[k].last
              /\ r.env.seq = coCursor[k].next - 1

TxnInv ==
    coTxn # NoTxn =>
        /\ coTxn.drain.assignment = coActive
        /\ coTxn.transition.prev = coActive
        /\ coTxn.transition.next = coPending
        /\ coTxn.step # "drain" => coTxn.drain \in coDrains
        /\ coTxn.step \in {"manifest", "transition", "swap"} =>
              [drain |-> coTxn.drain, ms |-> coTxn.ms] \in coDrainReceipts
        /\ coTxn.step = "swap" => coHead = coTxn.transition.next

HeadInv ==
    /\ OneActiveAssignment
    /\ coActive = None => coPending = None
    /\ coActive # None => coHead # None

TypeInv == CoTypeOK /\ now \in Time

LedgerInv ==
    /\ GapFreeReceipts
    /\ CreditOncePerWork
    /\ \A k \in Assignments : CursorAgrees(k)

CoInv ==
    /\ TypeInv
    /\ LedgerInv
    /\ DrainIsBoundary
    /\ HeadInv
    /\ HandoverIsCertified
    /\ TxnInv

-----------------------------------------------------------------------------
(* Facts about the data.                                                   *)

\* The constants as the provers need them.
LEMMA ConstantFacts ==
    /\ NumBundles \in Nat /\ NumBundles >= 1
    /\ MaxTime \in Nat /\ MaxSeq \in Nat /\ MaxSkew \in Nat
    /\ \A k \in Assignments : /\ k \in Nat /\ k >= 1
                              /\ Bundle[k] \in BundleFields
                              /\ Bundle[k].manifest \in Nat
    /\ 1 \in Assignments
    /\ None \notin Assignments
    /\ 0 \in Time
<1>1. /\ NumBundles \in Nat /\ NumBundles >= 1
      /\ MaxTime \in Nat /\ MaxSeq \in Nat /\ MaxSkew \in Nat
  BY NumBundlesAssumption, MaxTimeAssumption, CoreBoundsAssumption
<1>2. /\ \A k \in Assignments : k \in Nat /\ k >= 1
      /\ 1 \in Assignments /\ None \notin Assignments /\ 0 \in Time
  BY <1>1 DEF Assignments, None, Time
<1>3. \A k \in Assignments : Bundle[k] \in BundleFields
  BY BundleAssumption
<1>4. \A k \in Assignments : Bundle[k].manifest \in Nat
  BY <1>3 DEF BundleFields
<1>5. QED
  BY <1>1, <1>2, <1>3, <1>4

\* The fields of an envelope, a drain and a hand-over.
LEMMA RecordFacts ==
    /\ \A e \in Envelopes :
          /\ e.assignment \in Assignments /\ e.seq \in 1..MaxSeq
          /\ e.work \in Works /\ e.ms \in Time
    /\ \A r \in Receipts :
          r.env \in Envelopes /\ r.outcome \in Outcomes /\ r.ms \in Time
    /\ \A d \in Drains :
          /\ d.assignment \in Assignments /\ d.last \in 0..MaxSeq
          /\ d.final \in Envelopes \cup {NoEnvelope} /\ d.ms \in Time
    /\ \A x \in Txns : x # NoTxn =>
          /\ x.step \in Steps /\ x.drain \in Drains
          /\ x.transition \in AssignmentTransitions /\ x.ms \in Time
          /\ x.transition.prev \in Assignments
          /\ x.transition.next \in Assignments
  BY DEF Envelopes, Receipts, Drains, Txns, AssignmentTransitions

\* advance moves a cursor by the envelope it classifies as new and leaves it
\* alone otherwise; what classify lets through is the next envelope of an
\* unsealed cursor, not older than the last, or the last one again.
LEMMA CursorFacts ==
    ASSUME NEW c \in Cursors, NEW e \in Envelopes,
           Classify(c, e) \in {"New", "ExactRetry"}
    PROVE  \/ /\ Classify(c, e) = "New"
              /\ e.seq = c.next /\ c.drained = NotDrained
              /\ c.next > 1 => e.ms >= c.lastMs
              /\ Advance(c, e) \in Cursors
              /\ Advance(c, e).next = c.next + 1
              /\ Advance(c, e).last = e
              /\ Advance(c, e).lastMs = e.ms
              /\ Advance(c, e).drained = c.drained
           \/ /\ Classify(c, e) = "ExactRetry"
              /\ e.seq + 1 = c.next /\ e = c.last
<1>1. /\ c.next \in 1..(MaxSeq + 1) /\ c.lastMs \in Time
      /\ e.seq \in 1..MaxSeq /\ e.ms \in Time
      /\ MaxSeq \in Nat /\ MaxTime \in Nat
  BY RecordFacts, ConstantFacts DEF Cursors
<1>2. CASE Classify(c, e) = "New"
  <2>1. /\ e.seq = c.next /\ c.drained = NotDrained
        /\ ~(c.next > 1 /\ e.ms < c.lastMs)
    BY <1>2 DEF Classify
  <2>2. Advance(c, e) = [next |-> c.next + 1, last |-> e, lastMs |-> e.ms,
                         drained |-> c.drained]
    BY <1>2 DEF Advance
  <2>3. c.next + 1 \in 1..(MaxSeq + 1)
    BY <1>1, <2>1
  <2>4. Advance(c, e) \in Cursors
    BY <1>1, <2>1, <2>2, <2>3 DEF Cursors
  <2>5. QED
    BY <1>1, <1>2, <2>1, <2>2, <2>4 DEF Time
<1>3. CASE Classify(c, e) = "ExactRetry"
  <2>1. e.seq + 1 = c.next /\ e = c.last
    BY <1>3 DEF Classify
  <2>2. QED
    BY <1>3, <2>1
<1>4. QED
  BY <1>2, <1>3

\* One more receipt adds its sequence number, and its envelope if accepted.
LEMMA OneMoreReceipt ==
    ASSUME NEW S, NEW q
    PROVE  /\ {r.env.seq : r \in S \cup {q}} =
                 {r.env.seq : r \in S} \cup {q.env.seq}
           /\ {r.env : r \in {x \in S \cup {q} : x.outcome = "ACCEPTED"}} =
                 {r.env : r \in {x \in S : x.outcome = "ACCEPTED"}}
                    \cup (IF q.outcome = "ACCEPTED" THEN {q.env} ELSE {})
  OBVIOUS

-----------------------------------------------------------------------------
(* Admission.                                                              *)

\* A new disposition is always the next one: the case of an exact repeat has
\* a receipt and is answered from it.
LEMMA AdmitIsNext ==
    ASSUME CoInv, NEW e \in Envelopes, NEW oracle \in BOOLEAN,
           AdmitNew(e, now, oracle)
    PROVE  /\ coState[e.assignment] = "ACTIVE"
           /\ coCursor[e.assignment] \in Cursors
           /\ e.assignment \in Assignments
           /\ Classify(coCursor[e.assignment], e) = "New"
<1> DEFINE k == e.assignment
           c == coCursor[k]
<1>1. k \in Assignments /\ e.seq \in 1..MaxSeq
  BY RecordFacts
<1>2. c \in Cursors
  BY <1>1 DEF CoInv, TypeInv, CoTypeOK
<1>3. coState[k] = "ACTIVE" /\ Classify(c, e) \in {"New", "ExactRetry"}
  BY DEF AdmitNew, CanDispose
<1>4. Classify(c, e) # "ExactRetry"
  <2>1. SUFFICES ASSUME Classify(c, e) = "ExactRetry" PROVE FALSE
    OBVIOUS
  <2>2. e.seq + 1 = c.next /\ e = c.last
    BY <1>2, <1>3, <2>1, CursorFacts
  <2>3. c.next > 1
    BY <1>1, <2>2, ConstantFacts
  <2>4. \E r \in coReceipts : r.env = e
    BY <1>1, <2>2, <2>3 DEF CoInv, LedgerInv, CursorAgrees, ReceiptsOf
  <2>5. QED
    BY <2>4 DEF AdmitNew, ReceiptsFor
<1>5. QED
  BY <1>1, <1>2, <1>3, <1>4

\* What the batch of a new disposition writes.
LEMMA AdmitWrites ==
    ASSUME CoInv, NEW e \in Envelopes, NEW oracle \in BOOLEAN,
           AdmitNew(e, now, oracle)
    PROVE  \E o \in Outcomes :
              /\ coReceipts' = coReceipts \cup
                                  {[env |-> e, outcome |-> o, ms |-> now]}
              /\ [env |-> e, outcome |-> o, ms |-> now] \in Receipts
              /\ coCursor' = [coCursor EXCEPT ![e.assignment] =
                                 Advance(coCursor[e.assignment], e)]
              /\ coCredit' = IF o = "ACCEPTED" THEN coCredit \cup {e}
                                               ELSE coCredit
              /\ o = "ACCEPTED" => ~KeyTaken(e)
              /\ UNCHANGED <<coHeads, coHead, coState, coSealed, coTxn>>
<1> DEFINE o == Disposition(e, now, oracle)
<1>1. o \in Outcomes /\ (o = "ACCEPTED" => ~KeyTaken(e))
  BY DEF Disposition, Outcomes
<1>2. Dispose(e, o, now)
  BY DEF AdmitNew
<1> HIDE DEF o
<1>3. [env |-> e, outcome |-> o, ms |-> now] \in Receipts
  BY <1>1 DEF Receipts, CoInv, TypeInv
<1>4. QED
  BY <1>1, <1>2, <1>3 DEF Dispose

\* A new disposition keeps the ledger: the receipt takes the next sequence
\* number, the cursor remembers it, and credit goes to a fresh proof of work.
LEMMA AdmitLedger ==
    ASSUME CoInv, NEW e \in Envelopes, NEW oracle \in BOOLEAN,
           AdmitNew(e, now, oracle)
    PROVE  LedgerInv'
<1> DEFINE k == e.assignment
           c == coCursor[k]
<1>1. /\ k \in Assignments /\ c \in Cursors /\ Classify(c, e) = "New"
  BY AdmitIsNext
<1>2. PICK o \in Outcomes :
         /\ coReceipts' = coReceipts \cup {[env |-> e, outcome |-> o, ms |-> now]}
         /\ coCursor' = [coCursor EXCEPT ![k] = Advance(c, e)]
         /\ coCredit' = IF o = "ACCEPTED" THEN coCredit \cup {e} ELSE coCredit
         /\ o = "ACCEPTED" => ~KeyTaken(e)
  BY AdmitWrites
<1> DEFINE q == [env |-> e, outcome |-> o, ms |-> now]
<1>3. /\ e.seq = c.next /\ c.drained = NotDrained
      /\ c.next > 1 => e.ms >= c.lastMs
      /\ Advance(c, e).next = c.next + 1 /\ Advance(c, e).last = e
      /\ Advance(c, e).lastMs = e.ms
  BY <1>1, CursorFacts
<1>4. /\ coCursor \in [Assignments -> Cursors]
      /\ coReceipts \subseteq Receipts
  BY DEF CoInv, TypeInv, CoTypeOK
<1>5. /\ c.next \in Nat /\ c.next >= 1 /\ e.seq \in Nat /\ e.ms \in Int
      /\ c.lastMs \in Int
  BY <1>1, RecordFacts, ConstantFacts DEF Cursors, Time
<1>6. \A j \in Assignments : j # k =>
         coCursor'[j] = coCursor[j] /\ ReceiptsOf(j)' = ReceiptsOf(j)
  BY <1>2, <1>4 DEF ReceiptsOf
<1>7. coCursor'[k] = Advance(c, e) /\ ReceiptsOf(k)' = ReceiptsOf(k) \cup {q}
  BY <1>1, <1>2, <1>4 DEF ReceiptsOf
<1>8. \A r \in ReceiptsOf(k) : /\ r.env.seq \in Nat /\ r.env.ms \in Int
                               /\ r.env.seq < e.seq
                               /\ r.env.ms <= e.ms
  <2> SUFFICES ASSUME NEW r \in ReceiptsOf(k)
               PROVE  /\ r.env.seq \in Nat /\ r.env.ms \in Int
                      /\ r.env.seq < e.seq /\ r.env.ms <= e.ms
    OBVIOUS
  <2>1. r.env.seq \in 1..(c.next - 1)
    BY <1>1 DEF CoInv, LedgerInv, GapFreeReceipts
  <2>2. r.env.ms \in Int
    BY <1>4, RecordFacts, ConstantFacts DEF ReceiptsOf, Time
  <2>3. PICK s \in ReceiptsOf(k) : s.env = c.last /\ s.env.seq = c.next - 1
    BY <1>1, <1>5, <2>1 DEF CoInv, LedgerInv, CursorAgrees
  <2>4. r.env.ms <= s.env.ms
    <3>1. CASE r.env.seq = s.env.seq
      BY <1>1, <2>2, <3>1 DEF CoInv, LedgerInv, GapFreeReceipts
    <3>2. CASE r.env.seq < s.env.seq
      BY <1>1, <3>2 DEF CoInv, LedgerInv, GapFreeReceipts
    <3>3. QED
      BY <1>5, <2>1, <2>3, <3>1, <3>2
  <2>5. s.env.ms = c.lastMs
    BY <1>1, <1>5, <2>1, <2>3 DEF CoInv, LedgerInv, CursorAgrees
  <2>6. QED
    BY <1>3, <1>5, <2>1, <2>2, <2>4, <2>5
<1>9. GapFreeReceipts'
  <2> SUFFICES ASSUME NEW j \in Assignments
               PROVE  /\ {r.env.seq : r \in ReceiptsOf(j)'} =
                            1..(coCursor'[j].next - 1)
                      /\ \A r, s \in ReceiptsOf(j)' :
                            /\ r.env.seq = s.env.seq => r = s
                            /\ r.env.seq < s.env.seq => r.env.ms <= s.env.ms
    BY DEF GapFreeReceipts
  <2>1. CASE j # k
    BY <1>6, <2>1 DEF CoInv, LedgerInv, GapFreeReceipts
  <2>2. CASE j = k
    <3>1. {r.env.seq : r \in ReceiptsOf(k)} = 1..(c.next - 1)
      BY <1>1 DEF CoInv, LedgerInv, GapFreeReceipts
    <3>2. {r.env.seq : r \in ReceiptsOf(k)'} =
             {r.env.seq : r \in ReceiptsOf(k)} \cup {e.seq}
      <4>1. q.env.seq = e.seq
        OBVIOUS
      <4> HIDE DEF q
      <4>2. QED
        BY <1>7, <4>1, OneMoreReceipt
    <3>3. {r.env.seq : r \in ReceiptsOf(k)'} = 1..(coCursor'[k].next - 1)
      BY <1>3, <1>5, <1>7, <3>1, <3>2
    <3>4. ASSUME NEW r \in ReceiptsOf(k)', NEW s \in ReceiptsOf(k)'
          PROVE  /\ r.env.seq = s.env.seq => r = s
                 /\ r.env.seq < s.env.seq => r.env.ms <= s.env.ms
      <4>1. CASE r \in ReceiptsOf(k) /\ s \in ReceiptsOf(k)
        BY <1>1, <4>1 DEF CoInv, LedgerInv, GapFreeReceipts
      <4>2. CASE r \in ReceiptsOf(k) /\ s = q
        BY <1>5, <1>8, <4>2
      <4>3. CASE r = q /\ s \in ReceiptsOf(k)
        BY <1>5, <1>8, <4>3
      <4>4. CASE r = q /\ s = q
        BY <1>5, <4>4
      <4>5. QED
        BY <1>7, <4>1, <4>2, <4>3, <4>4
    <3>5. QED
      BY <2>2, <3>3, <3>4
  <2>3. QED
    BY <2>1, <2>2
<1>10. CreditOncePerWork'
  <2>1. coCredit' = {r.env : r \in {x \in coReceipts' : x.outcome = "ACCEPTED"}}
    <3>1. q.env = e /\ q.outcome = o /\ coReceipts' = coReceipts \cup {q}
      BY <1>2
    <3>2. coCredit = {r.env : r \in {x \in coReceipts : x.outcome = "ACCEPTED"}}
      BY DEF CoInv, LedgerInv, CreditOncePerWork
    <3> HIDE DEF q
    <3>3. {r.env : r \in {x \in coReceipts' : x.outcome = "ACCEPTED"}} =
             coCredit \cup (IF o = "ACCEPTED" THEN {e} ELSE {})
      BY <3>1, <3>2, OneMoreReceipt
    <3>4. QED
      BY <1>2, <3>3
  <2>2. \A x, y \in coCredit' : ShareKey[x.work] = ShareKey[y.work] => x = y
    BY <1>2 DEF CoInv, LedgerInv, CreditOncePerWork, KeyTaken
  <2>3. QED
    BY <2>1, <2>2 DEF CreditOncePerWork
<1>11. \A j \in Assignments : CursorAgrees(j)'
  <2> SUFFICES ASSUME NEW j \in Assignments PROVE CursorAgrees(j)'
    OBVIOUS
  <2>1. CASE j # k
    BY <1>6, <2>1 DEF CoInv, LedgerInv, CursorAgrees
  <2>2. CASE j = k
    <3>1. q \in ReceiptsOf(k)' /\ q.env = e
      BY <1>7
    <3>2. e.seq = coCursor'[k].next - 1
      BY <1>3, <1>5, <1>7
    <3>3. QED
      BY <1>3, <1>7, <2>2, <3>1, <3>2 DEF CursorAgrees
  <2>3. QED
    BY <2>1, <2>2
<1>12. QED
  BY <1>9, <1>10, <1>11 DEF LedgerInv

\* A new disposition touches no head, no drain and no hand-over, and it is not
\* for a sealed assignment.
LEMMA AdmitInv ==
    ASSUME CoInv, NEW e \in Envelopes, NEW oracle \in BOOLEAN,
           AdmitNew(e, now, oracle), UNCHANGED now
    PROVE  CoInv' /\ TerminalStep
<1> DEFINE k == e.assignment
           c == coCursor[k]
<1>1. /\ k \in Assignments /\ c \in Cursors /\ Classify(c, e) = "New"
      /\ coState[k] = "ACTIVE"
  BY AdmitIsNext
<1>2. PICK o \in Outcomes :
         /\ coReceipts' = coReceipts \cup {[env |-> e, outcome |-> o, ms |-> now]}
         /\ [env |-> e, outcome |-> o, ms |-> now] \in Receipts
         /\ coCursor' = [coCursor EXCEPT ![k] = Advance(c, e)]
         /\ coCredit' = IF o = "ACCEPTED" THEN coCredit \cup {e} ELSE coCredit
         /\ o = "ACCEPTED" => ~KeyTaken(e)
         /\ UNCHANGED <<coHeads, coHead, coState, coSealed, coTxn>>
  BY AdmitWrites
<1>3. Advance(c, e) \in Cursors /\ Advance(c, e).drained = c.drained
  BY <1>1, CursorFacts
<1>4. TypeInv'
  BY <1>1, <1>2, <1>3 DEF CoInv, TypeInv, CoTypeOK, coHeads, coSealed
<1>5. LedgerInv'
  BY AdmitLedger
<1>6. \A j \in Assignments : j # k => ReceiptsOf(j)' = ReceiptsOf(j)
  BY <1>2 DEF ReceiptsOf
<1>7. DrainIsBoundary'
  <2>1. UNCHANGED <<coState, coDrains>>
    BY <1>2 DEF coSealed
  <2>2. \A j \in Assignments : coCursor'[j].drained = coCursor[j].drained
    BY <1>1, <1>2, <1>3 DEF CoInv, TypeInv, CoTypeOK
  <2>3. \A j \in Assignments : DrainFor(j)' = DrainFor(j)
    BY <2>1 DEF DrainFor
  <2>4. DrainFor(k) = {}
    BY <1>1 DEF CoInv, DrainIsBoundary
  <2>5. QED
    BY <1>6, <2>1, <2>2, <2>3, <2>4 DEF CoInv, DrainIsBoundary
<1>8. HeadInv' /\ HandoverIsCertified' /\ TxnInv'
  BY <1>2 DEF CoInv, HeadInv, OneActiveAssignment, HandoverIsCertified, TxnInv,
              DrainReceiptFor, DrainFor, coHeads, coSealed
<1>9. TerminalStep
  <2>1. \A j \in Assignments : coState[j] = "DRAINED" =>
           {r \in coReceipts' : r.env.assignment = j} = ReceiptsOf(j)
    BY <1>1, <1>2, <1>6 DEF ReceiptsOf
  <2>2. coHead \in Int /\ coManifest \in Int
    BY ConstantFacts DEF CoInv, TypeInv, CoTypeOK, None
  <2>3. QED
    BY <1>2, <2>1, <2>2 DEF TerminalStep, coHeads, coSealed
<1>10. QED
  BY <1>4, <1>5, <1>7, <1>8, <1>9 DEF CoInv

-----------------------------------------------------------------------------
(* Steps that leave receipts, credit and cursors alone.                    *)

\* The ledger is about receipts, credit and cursors only.
LEMMA LedgerUnchanged ==
    ASSUME CoInv, UNCHANGED <<coCursor, coReceipts, coCredit>>
    PROVE  LedgerInv'
  BY DEF CoInv, LedgerInv, GapFreeReceipts, CreditOncePerWork, CursorAgrees,
         ReceiptsOf

\* Nothing is sealed and nothing is written that would have to be terminal.
LEMMA NothingTerminal ==
    ASSUME CoInv, UNCHANGED <<coReceipts, coCredit>>, coDrains \subseteq coDrains',
           coHead <= coHead', coManifest <= coManifest'
    PROVE  TerminalStep
  BY DEF TerminalStep, ReceiptsOf

\* The heads are numbers.
LEMMA HeadTypes ==
    ASSUME CoTypeOK
    PROVE  /\ coHead \in Nat /\ coManifest \in Nat /\ coActive \in Nat
           /\ coPending \in Nat
  BY ConstantFacts DEF CoTypeOK, None

\* Staging the first bundle activates assignment 1 before anything was
\* drained; a repeated or interrupted call changes nothing else.
LEMMA StageFirstInv ==
    ASSUME CoInv, coTxn = NoTxn, NEW k \in Assignments, NEW done \in 0..4,
           StageFirst(k, done), UNCHANGED now,
           UNCHANGED <<coCursor, coReceipts, coCredit, coSealed, coTxn>>
    PROVE  CoInv' /\ TerminalStep
<1>1. /\ coActive = None /\ k = 1 /\ coPending = None
      /\ coHead \in {None, 1} /\ coState[1] \in {"absent", "ACTIVE"}
      /\ UNCHANGED coPending
  BY ConstantFacts DEF StageFirst, Installable, Authorizes, CoInv, HeadInv
<1>2. /\ coHead' \in {coHead, 1}
      /\ coState' = IF coHead' = coHead /\ coState' = coState THEN coState
                    ELSE [coState EXCEPT ![1] = "ACTIVE"]
      /\ coHead' # coHead => coState' = [coState EXCEPT ![1] = "ACTIVE"]
      /\ coState' # coState => coHead' = 1
      /\ coActive' = coActive \/ (coActive' = 1 /\ coHead' = 1)
  BY <1>1 DEF StageFirst
<1>3. coManifest' \in Nat /\ coManifest <= coManifest'
  BY ConstantFacts, HeadTypes
     DEF StageFirst, Installable, ManifestAdvances, CoInv, TypeInv, CoTypeOK
<1>4. TypeInv'
  <2>1. coBundles' \subseteq Assignments
    BY DEF StageFirst, CoInv, TypeInv, CoTypeOK
  <2>2. coHead' \in Assignments \cup {None} /\ coActive' \in Assignments \cup {None}
    BY <1>2, ConstantFacts DEF CoInv, TypeInv, CoTypeOK
  <2>3. coState' \in [Assignments -> {"absent", "ACTIVE", "DRAINED"}]
    BY <1>2 DEF CoInv, TypeInv, CoTypeOK
  <2>4. QED
    BY <1>1, <1>3, <2>1, <2>2, <2>3 DEF CoInv, TypeInv, CoTypeOK, coSealed
<1>5. LedgerInv'
  BY LedgerUnchanged
<1>6. \A j \in Assignments :
         /\ coState[j] = "DRAINED" <=> coState'[j] = "DRAINED"
         /\ j # 1 => coState'[j] = coState[j]
  BY <1>1, <1>2 DEF CoInv, TypeInv, CoTypeOK
<1>7. DrainIsBoundary'
  BY <1>6 DEF CoInv, DrainIsBoundary, DrainFor, ReceiptsOf, coSealed
<1>8. HeadInv'
  <2>1. \A j \in Assignments : j > 1 => coState'[j] = "absent"
    <3>1. \A j \in Assignments : j \in Nat /\ j >= 1 /\ (j > 1 => j # 1 /\ j > coHead)
      BY <1>1, ConstantFacts DEF None
    <3>2. \A j \in Assignments : j > coHead => coState[j] = "absent"
      BY DEF CoInv, HeadInv, OneActiveAssignment
    <3>3. QED
      BY <1>6, <3>1, <3>2
  <2>2. coHead' = 1 => coState'[1] # "absent"
    BY <1>1, <1>2, ConstantFacts
       DEF CoInv, HeadInv, OneActiveAssignment, TypeInv, CoTypeOK, None
  <2>3. coHead' # 1 => coHead' = coHead /\ coState' = coState
    BY <1>2
  <2>4. OneActiveAssignment'
    <3>1. CASE coHead' = 1
      <4>1. \A j \in Assignments : ~(j < 1)
        BY ConstantFacts
      <4>2. coPending' = None /\ coActive' \in {None, 1}
        BY <1>1, <1>2
      <4>3. QED
        BY <2>1, <2>2, <3>1, <4>1, <4>2 DEF OneActiveAssignment, None
    <3>2. CASE coHead' # 1
      BY <1>1, <1>2, <2>3, <3>2, ConstantFacts
         DEF CoInv, HeadInv, OneActiveAssignment, None
    <3>3. QED
      BY <3>1, <3>2
  <2>5. QED
    BY <1>1, <1>2, <2>4 DEF HeadInv, None
<1>9. HandoverIsCertified' /\ TxnInv'
  BY DEF CoInv, HandoverIsCertified, TxnInv, DrainReceiptFor, DrainFor, coSealed
<1>10. TerminalStep
  <2>1. coHead <= coHead'
    BY <1>1, <1>2 DEF None
  <2>2. QED
    BY <1>3, <2>1, NothingTerminal DEF coSealed
<1>11. QED
  BY <1>4, <1>5, <1>7, <1>8, <1>9, <1>10 DEF CoInv

\* A replacement is always the successor of the active bundle.
LEMMA StageReplacementInv ==
    ASSUME CoInv, coTxn = NoTxn, NEW k \in Assignments, NEW done \in 0..4,
           StageReplacement(k, done), UNCHANGED now,
           UNCHANGED <<coCursor, coReceipts, coCredit, coSealed, coTxn>>
    PROVE  CoInv' /\ TerminalStep
<1>1. /\ coActive # None /\ k = coActive + 1 /\ coPending \in {None, k}
      /\ coPending' \in {coPending, k}
      /\ coBundles' \subseteq Assignments
      /\ UNCHANGED <<coActive, coManifest, coHead, coState>>
  BY DEF StageReplacement, Installable, CoInv, TypeInv, CoTypeOK
<1>2. TypeInv'
  BY <1>1 DEF CoInv, TypeInv, CoTypeOK, coSealed
<1>3. LedgerInv'
  BY LedgerUnchanged
<1>4. DrainIsBoundary' /\ HandoverIsCertified' /\ TxnInv'
  BY <1>1 DEF CoInv, DrainIsBoundary, HandoverIsCertified, TxnInv, DrainFor,
              DrainReceiptFor, ReceiptsOf, coSealed
<1>5. HeadInv'
  BY <1>1 DEF CoInv, HeadInv, OneActiveAssignment, None
<1>6. TerminalStep
  BY <1>1, NothingTerminal, HeadTypes DEF coSealed, CoInv, TypeInv
<1>7. QED
  BY <1>2, <1>3, <1>4, <1>5, <1>6 DEF CoInv

\* A refused bundle leaves its record and nothing else.
LEMMA StageRefusedInv ==
    ASSUME CoInv, NEW k \in Assignments, StageRefused(k), UNCHANGED now,
           UNCHANGED <<coCursor, coReceipts, coCredit, coSealed, coTxn>>
    PROVE  CoInv' /\ TerminalStep
<1>1. /\ coBundles' \subseteq Assignments
      /\ UNCHANGED <<coActive, coPending, coManifest, coHead, coState>>
  BY DEF StageRefused, CoInv, TypeInv, CoTypeOK
<1>2. TypeInv'
  BY <1>1 DEF CoInv, TypeInv, CoTypeOK, coSealed
<1>3. LedgerInv'
  BY LedgerUnchanged
<1>4. DrainIsBoundary' /\ HandoverIsCertified' /\ TxnInv'
  BY <1>1 DEF CoInv, DrainIsBoundary, HandoverIsCertified, TxnInv, DrainFor,
              DrainReceiptFor, ReceiptsOf, coSealed
<1>5. HeadInv'
  BY <1>1 DEF CoInv, HeadInv, OneActiveAssignment
<1>6. TerminalStep
  BY <1>1, NothingTerminal, HeadTypes DEF coSealed, CoInv, TypeInv
<1>7. QED
  BY <1>2, <1>3, <1>4, <1>5, <1>6 DEF CoInv

-----------------------------------------------------------------------------
(* The hand-over.                                                          *)

TxnRecords ==
    [step : Steps, drain : Drains, transition : AssignmentTransitions, ms : Time]

\* A hand-over in progress and what it is about.
LEMMA TxnFacts ==
    ASSUME CoInv, coTxn # NoTxn
    PROVE  /\ coTxn \in TxnRecords
           /\ coTxn.drain \in Drains /\ coTxn.drain.assignment \in Assignments
           /\ coTxn.drain.last \in 0..MaxSeq
           /\ coTxn.transition \in AssignmentTransitions
           /\ coTxn.transition.next \in Assignments
           /\ coTxn.ms \in Time
           /\ coActive = coTxn.drain.assignment
           /\ coPending = coTxn.transition.next
           /\ coPending = coActive + 1
<1>1. coTxn \in Txns
  BY DEF CoInv, TypeInv, CoTypeOK
<1>2. coTxn \in TxnRecords
  BY <1>1 DEF Txns, TxnRecords
<1>3. coTxn.transition.next \in Assignments
  BY <1>1, RecordFacts
<1>4. coPending = coTxn.transition.next /\ coPending # None
  BY <1>3, ConstantFacts DEF CoInv, TxnInv
<1>5. coPending = coActive + 1
  BY <1>4 DEF CoInv, HeadInv, OneActiveAssignment
<1>6. coTxn.drain \in Drains /\ coTxn.transition \in AssignmentTransitions
      /\ coTxn.ms \in Time
  BY <1>1, RecordFacts
<1>7. QED
  BY <1>2, <1>3, <1>4, <1>5, <1>6, RecordFacts DEF CoInv, TxnInv

\* The next step keeps everything but the step.
LEMMA NextStepFacts ==
    ASSUME NEW x \in TxnRecords, NEW st \in Steps
    PROVE  /\ [x EXCEPT !.step = st] \in TxnRecords
           /\ [x EXCEPT !.step = st] \in Txns
           /\ [x EXCEPT !.step = st].step = st
           /\ [x EXCEPT !.step = st].drain = x.drain
           /\ [x EXCEPT !.step = st].transition = x.transition
           /\ [x EXCEPT !.step = st].ms = x.ms
  BY DEF TxnRecords, Txns

\* A hand-over starts for the active and the pending bundle.
LEMMA StartInv ==
    ASSUME CoInv, NEW k \in Assignments, NEW n \in Assignments,
           NEW last \in 0..MaxSeq, NEW d \in OfferedDrains(k), UNCHANGED now,
           TransitionStart(d, [prev |-> k, next |-> n, last |-> last], now)
    PROVE  CoInv' /\ TerminalStep
<1> DEFINE tr == [prev |-> k, next |-> n, last |-> last]
<1>1. d \in Drains
  <2>1. CASE d \in DrainFor(k)
    BY <2>1 DEF DrainFor, CoInv, TypeInv, CoTypeOK
  <2>2. CASE d \notin DrainFor(k)
    <3>1. PICK e \in {NoEnvelope} \cup {r.env : r \in {q \in coReceipts :
                                                  q.env.assignment = k}} :
             d = [assignment |-> k, last |-> e.seq, final |-> e, ms |-> now]
      BY <2>2 DEF OfferedDrains
    <3>2. e \in Envelopes \cup {NoEnvelope}
      BY RecordFacts DEF CoInv, TypeInv, CoTypeOK
    <3>3. e.seq \in 0..MaxSeq
      BY <3>2, RecordFacts, ConstantFacts DEF NoEnvelope
    <3>4. QED
      BY <3>1, <3>2, <3>3 DEF Drains, CoInv, TypeInv
  <2>3. QED
    BY <2>1, <2>2
<1>2. tr \in AssignmentTransitions
  BY DEF AssignmentTransitions
<1>3. /\ d.assignment = coActive /\ tr.prev = coActive /\ tr.next = coPending
      /\ coTxn' = [step |-> "drain", drain |-> d, transition |-> tr, ms |-> now]
      /\ UNCHANGED <<coHeads, coHead, coState, coCursor, coReceipts, coCredit,
                     coSealed>>
  BY DEF TransitionStart
<1>4. coTxn' \in Txns
  BY <1>1, <1>2, <1>3 DEF Txns, Steps, CoInv, TypeInv
<1>5. TypeInv'
  BY <1>3, <1>4 DEF CoInv, TypeInv, CoTypeOK, coHeads, coSealed
<1>6. LedgerInv'
  BY <1>3, LedgerUnchanged
<1>7. DrainIsBoundary' /\ HandoverIsCertified' /\ HeadInv'
  BY <1>3 DEF CoInv, DrainIsBoundary, HandoverIsCertified, DrainFor, HeadInv,
              OneActiveAssignment, DrainReceiptFor, ReceiptsOf, coHeads, coSealed
<1>8. TxnInv'
  BY <1>3 DEF TxnInv, coHeads
<1>9. TerminalStep
  BY <1>3, NothingTerminal, HeadTypes DEF coHeads, coSealed, CoInv, TypeInv
<1>10. QED
  BY <1>5, <1>6, <1>7, <1>8, <1>9 DEF CoInv

\* Sealing: the drain names exactly the receipts the assignment has, and an
\* assignment sealed before is sealed again only by the same drain.
LEMMA StepDrainInv ==
    ASSUME CoInv, coTxn # NoTxn, StepAllowed(coTxn), StepDrain(coTxn),
           UNCHANGED <<now, coReceipts, coCredit>>
    PROVE  CoInv' /\ TerminalStep
<1> DEFINE d == coTxn.drain
           k == d.assignment
           c == coCursor[k]
<1>1. /\ coTxn \in TxnRecords /\ d \in Drains /\ k \in Assignments
      /\ d.last \in 0..MaxSeq /\ coActive = k
  BY TxnFacts
<1>2. /\ coTxn.step = "drain"
      /\ coCursor' = [coCursor EXCEPT ![k] = ApplyDrain(c, d)]
      /\ coState' = [coState EXCEPT ![k] = "DRAINED"]
      /\ coDrains' = coDrains \cup {d}
      /\ coTxn' = [coTxn EXCEPT !.step = "receipt"]
      /\ UNCHANGED <<coHeads, coHead, coDrainReceipts, coTransitions>>
  BY DEF StepDrain
<1>3. /\ DrainApplies(c, d)
      /\ \/ coState[k] = "DRAINED" /\ d \in coDrains
         \/ coState[k] = "ACTIVE"
  BY <1>2 DEF StepAllowed
<1>4. c \in Cursors
  BY <1>1 DEF CoInv, TypeInv, CoTypeOK
<1>5. /\ ApplyDrain(c, d) \in Cursors
      /\ ApplyDrain(c, d).next = c.next /\ ApplyDrain(c, d).last = c.last
      /\ ApplyDrain(c, d).lastMs = c.lastMs /\ ApplyDrain(c, d).drained = d.last
  BY <1>1, <1>4 DEF ApplyDrain, Cursors
<1>6. d.last # NotDrained /\ d.last = c.next - 1
  BY <1>1, <1>3, <1>4, ConstantFacts DEF NotDrained, DrainApplies, Cursors
<1>7. /\ coTxn' \in Txns /\ coTxn'.step = "receipt" /\ coTxn'.drain = d
      /\ coTxn'.transition = coTxn.transition /\ coTxn'.ms = coTxn.ms
  BY <1>1, <1>2, NextStepFacts DEF Steps
<1>8. /\ coCursor \in [Assignments -> Cursors]
      /\ coState \in [Assignments -> {"absent", "ACTIVE", "DRAINED"}]
  BY DEF CoInv, TypeInv, CoTypeOK
<1>9. TypeInv'
  BY <1>1, <1>2, <1>5, <1>7, <1>8 DEF CoInv, TypeInv, CoTypeOK, coHeads
<1>10. \A j \in Assignments :
          /\ coCursor'[j].next = coCursor[j].next
          /\ coCursor'[j].last = coCursor[j].last
          /\ coCursor'[j].lastMs = coCursor[j].lastMs
          /\ j # k => coCursor'[j] = coCursor[j] /\ coState'[j] = coState[j]
  BY <1>2, <1>5, <1>8
<1>11. coCursor'[k].drained = d.last /\ coState'[k] = "DRAINED"
  BY <1>1, <1>2, <1>5, <1>8
<1>12. LedgerInv'
  <2>1. GapFreeReceipts' /\ CreditOncePerWork'
    BY <1>10 DEF CoInv, LedgerInv, GapFreeReceipts, CreditOncePerWork,
                 ReceiptsOf
  <2>2. ASSUME NEW j \in Assignments PROVE CursorAgrees(j)'
    BY <1>10 DEF CoInv, LedgerInv, CursorAgrees, ReceiptsOf
  <2>3. QED
    BY <2>1, <2>2 DEF LedgerInv
<1>13. {x \in coDrains' : x.assignment = k} = {d}
  <2>1. {x \in coDrains' : x.assignment = k} = DrainFor(k) \cup {d}
    BY <1>2 DEF DrainFor
  <2>2. CASE coState[k] = "DRAINED" /\ d \in coDrains
    <3>1. d \in DrainFor(k)
      BY <2>2 DEF DrainFor
    <3>2. QED
      BY <1>1, <2>1, <3>1 DEF CoInv, DrainIsBoundary
  <2>3. CASE coState[k] = "ACTIVE"
    BY <1>1, <2>1, <2>3 DEF CoInv, DrainIsBoundary
  <2>4. QED
    BY <1>3, <2>2, <2>3
<1>14. \A j \in Assignments : j # k => DrainFor(j)' = DrainFor(j)
  BY <1>2 DEF DrainFor
<1>15. DrainIsBoundary'
  <2> SUFFICES ASSUME NEW j \in Assignments
               PROVE  /\ coState'[j] = "DRAINED" <=> coCursor'[j].drained # NotDrained
                      /\ coState'[j] = "DRAINED" <=> DrainFor(j)' # {}
                      /\ \A x \in DrainFor(j)' :
                            /\ DrainFor(j)' = {x}
                            /\ coCursor'[j].drained = x.last
                            /\ {r.env.seq : r \in ReceiptsOf(j)'} = 1..x.last
    BY DEF DrainIsBoundary
  <2>1. ReceiptsOf(j)' = ReceiptsOf(j)
    BY DEF ReceiptsOf
  <2>2. CASE j # k
    BY <1>10, <1>14, <2>1, <2>2 DEF CoInv, DrainIsBoundary
  <2>3. CASE j = k
    <3>1. {r.env.seq : r \in ReceiptsOf(k)} = 1..d.last
      BY <1>1, <1>6 DEF CoInv, LedgerInv, GapFreeReceipts
    <3>2. DrainFor(j)' = {d}
      BY <1>13, <2>3 DEF DrainFor
    <3>3. QED
      BY <1>6, <1>11, <2>1, <2>3, <3>1, <3>2
  <2>4. QED
    BY <2>2, <2>3
<1>16. HeadInv'
  <2>1. coState[k] # "absent"
    BY <1>3
  <2>2. ~(k > coHead)
    BY <1>1, <2>1 DEF CoInv, HeadInv, OneActiveAssignment
  <2>3. \A j \in Assignments : /\ j < coHead => coState'[j] = "DRAINED"
                               /\ j > coHead => coState'[j] = "absent"
    BY <1>10, <1>11, <2>2 DEF CoInv, HeadInv, OneActiveAssignment
  <2>4. coHead # None => coState'[coHead] # "absent"
    BY <1>10, <1>11 DEF CoInv, TypeInv, CoTypeOK, HeadInv, OneActiveAssignment
  <2>5. QED
    BY <1>2, <2>3, <2>4 DEF CoInv, HeadInv, OneActiveAssignment, coHeads
<1>17. HandoverIsCertified'
  <2>1. \A tr \in coTransitions : DrainFor(tr.prev)' = DrainFor(tr.prev)
    <3> SUFFICES ASSUME NEW tr \in coTransitions
                 PROVE  DrainFor(tr.prev)' = DrainFor(tr.prev)
      OBVIOUS
    <3>1. CASE tr.prev = k
      <4>1. DrainFor(k) # {}
        BY <3>1 DEF CoInv, HandoverIsCertified, DrainReceiptFor, DrainFor
      <4>2. d \in DrainFor(k) /\ DrainFor(k) = {d}
        BY <1>1, <1>3, <4>1 DEF CoInv, DrainIsBoundary, DrainFor
      <4>3. DrainFor(tr.prev)' = {d}
        BY <1>2, <3>1, <4>2 DEF DrainFor
      <4>4. QED
        BY <3>1, <4>2, <4>3
    <3>2. CASE tr.prev # k
      BY <1>2, <3>2 DEF DrainFor
    <3>3. QED
      BY <3>1, <3>2
  <2>2. \A tr \in coTransitions : DrainReceiptFor(tr.prev)' = DrainReceiptFor(tr.prev)
    BY <1>2 DEF DrainReceiptFor
  <2>3. QED
    BY <1>2, <2>1, <2>2 DEF CoInv, HandoverIsCertified
<1>18. TxnInv'
  BY <1>2, <1>7 DEF CoInv, TxnInv, coHeads
<1>19. TerminalStep
  BY <1>2, NothingTerminal, HeadTypes DEF coHeads, CoInv, TypeInv
<1>20. QED
  BY <1>9, <1>12, <1>15, <1>16, <1>17, <1>18, <1>19 DEF CoInv

\* Certifying: one receipt per sealed assignment, whatever is retried.
LEMMA StepReceiptInv ==
    ASSUME CoInv, coTxn # NoTxn, StepAllowed(coTxn), StepReceipt(coTxn),
           UNCHANGED <<now, coReceipts, coCredit>>
    PROVE  CoInv' /\ TerminalStep
<1> DEFINE d == coTxn.drain
           q == [drain |-> d, ms |-> coTxn.ms]
<1>1. coTxn \in TxnRecords /\ d \in Drains /\ coTxn.ms \in Time
  BY TxnFacts
<1>2. /\ coTxn.step = "receipt"
      /\ coDrainReceipts' = coDrainReceipts \cup {q}
      /\ coTxn' = [coTxn EXCEPT !.step = "manifest"]
      /\ UNCHANGED <<coHeads, coHead, coState, coCursor, coDrains, coTransitions>>
  BY DEF StepReceipt
<1>3. \A r \in coDrainReceipts : r.drain.assignment = d.assignment => r = q
  BY <1>2 DEF StepAllowed, DrainReceiptFor
<1>4. /\ coTxn' \in Txns /\ coTxn'.step = "manifest" /\ coTxn'.drain = d
      /\ coTxn'.transition = coTxn.transition /\ coTxn'.ms = coTxn.ms
  BY <1>1, <1>2, NextStepFacts DEF Steps
<1>5. d \in coDrains
  BY <1>2 DEF CoInv, TxnInv
<1>6. q \in DrainReceipts
  BY <1>1 DEF DrainReceipts
<1>7. TypeInv'
  BY <1>2, <1>4, <1>6 DEF CoInv, TypeInv, CoTypeOK, coHeads
<1>8. LedgerInv'
  BY <1>2, LedgerUnchanged
<1>9. DrainIsBoundary' /\ HeadInv'
  BY <1>2 DEF CoInv, DrainIsBoundary, DrainFor, ReceiptsOf, HeadInv,
              OneActiveAssignment, coHeads
<1>10. HandoverIsCertified'
  <2>1. \A r \in coDrainReceipts' : r.drain \in coDrains'
    BY <1>2, <1>5 DEF CoInv, HandoverIsCertified
  <2>2. \A r, s \in coDrainReceipts' :
           r.drain.assignment = s.drain.assignment => r = s
    BY <1>2, <1>3 DEF CoInv, HandoverIsCertified
  <2>3. \A tr \in coTransitions : /\ DrainFor(tr.prev)' = DrainFor(tr.prev)
                                  /\ DrainReceiptFor(tr.prev)' # {}
    BY <1>2 DEF CoInv, HandoverIsCertified, DrainFor, DrainReceiptFor
  <2>4. QED
    BY <1>2, <2>1, <2>2, <2>3 DEF CoInv, HandoverIsCertified
<1>11. TxnInv'
  BY <1>2, <1>4, <1>5 DEF CoInv, TxnInv, coHeads
<1>12. TerminalStep
  BY <1>2, NothingTerminal, HeadTypes DEF coHeads, CoInv, TypeInv
<1>13. QED
  BY <1>7, <1>8, <1>9, <1>10, <1>11, <1>12 DEF CoInv

\* The manifest of the next bundle never has an older head.
LEMMA StepManifestInv ==
    ASSUME CoInv, coTxn # NoTxn, StepAllowed(coTxn), StepManifest(coTxn),
           UNCHANGED <<now, coReceipts, coCredit>>
    PROVE  CoInv' /\ TerminalStep
<1> DEFINE n == coTxn.transition.next
<1>1. coTxn \in TxnRecords /\ n \in Assignments
  BY TxnFacts
<1>2. /\ coTxn.step = "manifest"
      /\ coManifest' = Bundle[n].manifest
      /\ coTxn' = [coTxn EXCEPT !.step = "transition"]
      /\ UNCHANGED <<coBundles, coActive, coPending, coHead, coState, coCursor,
                     coSealed>>
  BY DEF StepManifest
<1>3. coManifest <= Bundle[n].manifest /\ Bundle[n].manifest \in Nat
  <2>1. ManifestAdvances(n, coTxn.ms)
    BY <1>2 DEF StepAllowed
  <2>2. Bundle[n].manifest \in Nat /\ coManifest \in Nat
    BY <1>1, ConstantFacts DEF CoInv, TypeInv, CoTypeOK
  <2>3. QED
    BY <2>1, <2>2 DEF ManifestAdvances
<1>4. /\ coTxn' \in Txns /\ coTxn'.step = "transition"
      /\ coTxn'.drain = coTxn.drain
      /\ coTxn'.transition = coTxn.transition /\ coTxn'.ms = coTxn.ms
  BY <1>1, <1>2, NextStepFacts DEF Steps
<1>5. TypeInv'
  BY <1>2, <1>3, <1>4 DEF CoInv, TypeInv, CoTypeOK, coSealed
<1>6. LedgerInv'
  BY <1>2, LedgerUnchanged
<1>7. DrainIsBoundary' /\ HeadInv' /\ HandoverIsCertified'
  BY <1>2 DEF CoInv, DrainIsBoundary, DrainFor, ReceiptsOf, HeadInv,
              OneActiveAssignment, HandoverIsCertified, DrainReceiptFor, coSealed
<1>8. TxnInv'
  BY <1>2, <1>4 DEF CoInv, TxnInv, coSealed
<1>9. TerminalStep
  BY <1>2, <1>3, NothingTerminal, HeadTypes DEF coSealed, CoInv, TypeInv
<1>10. QED
  BY <1>5, <1>6, <1>7, <1>8, <1>9 DEF CoInv

\* The head moves from a drained and certified assignment to its successor.
LEMMA StepTransitionInv ==
    ASSUME CoInv, coTxn # NoTxn, StepAllowed(coTxn), StepTransition(coTxn),
           UNCHANGED <<now, coReceipts, coCredit>>
    PROVE  CoInv' /\ TerminalStep
<1> DEFINE tr == coTxn.transition
           k == coTxn.drain.assignment
           n == tr.next
<1>1. /\ coTxn \in TxnRecords /\ n \in Assignments /\ k \in Assignments
      /\ coActive = k /\ coPending = n /\ n = k + 1
      /\ tr \in AssignmentTransitions
  BY TxnFacts
<1>2. /\ coTxn.step = "transition"
      /\ coHead' = n
      /\ coState' = IF coHead = n THEN coState
                                  ELSE [coState EXCEPT ![n] = "ACTIVE"]
      /\ coTransitions' = coTransitions \cup {tr}
      /\ coTxn' = [coTxn EXCEPT !.step = "swap"]
      /\ UNCHANGED <<coHeads, coCursor, coDrains, coDrainReceipts>>
  BY DEF StepTransition
<1>3. \/ coHead = n
      \/ coHead = k /\ coState[k] = "DRAINED" /\ coState[n] = "absent"
  BY <1>2 DEF StepAllowed
<1>3a. tr \in coTransitions \/ coCursor[k].drained = tr.last
  BY <1>2 DEF StepAllowed
<1>4. /\ coTxn' \in Txns /\ coTxn'.step = "swap" /\ coTxn'.drain = coTxn.drain
      /\ coTxn'.transition = tr /\ coTxn'.ms = coTxn.ms
  BY <1>1, <1>2, NextStepFacts DEF Steps
<1>5. coState \in [Assignments -> {"absent", "ACTIVE", "DRAINED"}]
  BY DEF CoInv, TypeInv, CoTypeOK
<1>6. TypeInv'
  BY <1>1, <1>2, <1>4, <1>5 DEF CoInv, TypeInv, CoTypeOK, coHeads
<1>7. LedgerInv'
  BY <1>2, LedgerUnchanged
<1>8. /\ n = coHead => coState' = coState
      /\ \A j \in Assignments : j # n => coState'[j] = coState[j]
      /\ n # coHead => coState[n] = "absent" /\ coState'[n] = "ACTIVE"
  BY <1>1, <1>2, <1>3, <1>5
<1>9. DrainIsBoundary'
  <2>1. \A j \in Assignments : coState'[j] = "DRAINED" <=> coState[j] = "DRAINED"
    BY <1>8
  <2>2. QED
    BY <1>2, <2>1 DEF CoInv, DrainIsBoundary, DrainFor, ReceiptsOf
<1>10. HeadInv'
  <2>1. k \in Nat /\ n \in Nat /\ \A j \in Assignments : j \in Nat
    BY <1>1, ConstantFacts
  <2>2. CASE coHead = n
    BY <1>2, <2>2, <1>8 DEF CoInv, HeadInv, OneActiveAssignment, coHeads
  <2>3. CASE coHead # n
    <3>1. coHead = k /\ coState[k] = "DRAINED"
      BY <1>3, <2>3
    <3>2. \A j \in Assignments : /\ j < n => coState'[j] = "DRAINED"
                                 /\ j > n => coState'[j] = "absent"
      <4> SUFFICES ASSUME NEW j \in Assignments
                   PROVE  /\ j < n => coState'[j] = "DRAINED"
                          /\ j > n => coState'[j] = "absent"
        OBVIOUS
      <4>1. /\ j < k => coState[j] = "DRAINED"
            /\ j > k => coState[j] = "absent"
        BY <3>1 DEF CoInv, HeadInv, OneActiveAssignment
      <4>2. j < n => j < k \/ j = k
        BY <1>1, <2>1
      <4>3. j > n => j > k
        BY <1>1, <2>1
      <4>4. j < n \/ j > n => coState'[j] = coState[j]
        BY <1>8, <2>1
      <4>5. QED
        BY <3>1, <4>1, <4>2, <4>3, <4>4
    <3>3. coState'[n] # "absent"
      BY <1>8, <2>3
    <3>4. QED
      BY <1>1, <1>2, <3>2, <3>3, ConstantFacts
         DEF CoInv, HeadInv, OneActiveAssignment, coHeads
  <2>4. QED
    BY <2>2, <2>3
<1>11. HandoverIsCertified'
  <2>1. tr.prev = k
    BY <1>1 DEF CoInv, TxnInv
  <2>2. coTxn.drain \in coDrains
        /\ [drain |-> coTxn.drain, ms |-> coTxn.ms] \in coDrainReceipts
    BY <1>2 DEF CoInv, TxnInv
  <2>3. DrainReceiptFor(k) # {}
    BY <2>2 DEF DrainReceiptFor
  <2>4. tr \in coTransitions \/ \A x \in DrainFor(k) : x.last = tr.last
    BY <1>1, <1>3a DEF CoInv, DrainIsBoundary
  <2>5. \A s \in coTransitions' : /\ DrainReceiptFor(s.prev) # {}
                                  /\ \A x \in DrainFor(s.prev) : x.last = s.last
    BY <1>2, <2>1, <2>3, <2>4 DEF CoInv, HandoverIsCertified
  <2>6. QED
    BY <1>2, <2>5 DEF CoInv, HandoverIsCertified, DrainFor, DrainReceiptFor
<1>12. TxnInv'
  BY <1>2, <1>4 DEF CoInv, TxnInv, coHeads
<1>13. TerminalStep
  <2>1. coHead <= coHead'
    BY <1>1, <1>2, <1>3, ConstantFacts
  <2>2. QED
    BY <1>2, <2>1, NothingTerminal, HeadTypes DEF coHeads, CoInv, TypeInv
<1>14. QED
  BY <1>6, <1>7, <1>9, <1>10, <1>11, <1>12, <1>13 DEF CoInv

\* The pending bundle becomes the active one when it is the head already.
LEMMA StepSwapInv ==
    ASSUME CoInv, coTxn # NoTxn, StepSwap(coTxn),
           UNCHANGED <<now, coReceipts, coCredit>>
    PROVE  CoInv' /\ TerminalStep
<1> DEFINE n == coTxn.transition.next
<1>1. n \in Assignments /\ n # None
  BY TxnFacts, ConstantFacts
<1>2. /\ coTxn.step = "swap" /\ coActive' = n /\ coPending' = None
      /\ coTxn' = NoTxn
      /\ UNCHANGED <<coBundles, coManifest, coHead, coState, coCursor, coSealed>>
  BY DEF StepSwap
<1>3. coHead = n
  BY <1>2 DEF CoInv, TxnInv
<1>4. TypeInv'
  BY <1>1, <1>2 DEF CoInv, TypeInv, CoTypeOK, coSealed, Txns
<1>5. LedgerInv'
  BY <1>2, LedgerUnchanged
<1>6. DrainIsBoundary' /\ HandoverIsCertified'
  BY <1>2 DEF CoInv, DrainIsBoundary, DrainFor, ReceiptsOf,
              HandoverIsCertified, DrainReceiptFor, coSealed
<1>7. HeadInv'
  BY <1>1, <1>2, <1>3 DEF CoInv, HeadInv, OneActiveAssignment
<1>8. TxnInv'
  BY <1>2 DEF TxnInv
<1>9. TerminalStep
  BY <1>2, NothingTerminal, HeadTypes DEF coSealed, CoInv, TypeInv
<1>10. QED
  BY <1>4, <1>5, <1>6, <1>7, <1>8, <1>9 DEF CoInv

\* A failing check or a stop forgets the call and nothing else.
LEMMA AbandonInv ==
    ASSUME CoInv, coTxn' = NoTxn, UNCHANGED now,
           UNCHANGED <<coHeads, coHead, coState, coCursor, coReceipts, coCredit,
                       coSealed>>
    PROVE  CoInv' /\ TerminalStep
<1>1. TypeInv'
  BY DEF CoInv, TypeInv, CoTypeOK, coSealed, coHeads, Txns
<1>2. LedgerInv'
  BY LedgerUnchanged
<1>3. DrainIsBoundary' /\ HandoverIsCertified' /\ HeadInv'
  BY DEF CoInv, DrainIsBoundary, DrainFor, ReceiptsOf, HandoverIsCertified,
         DrainReceiptFor, HeadInv, OneActiveAssignment, coHeads, coSealed
<1>4. TxnInv'
  BY DEF TxnInv
<1>5. TerminalStep
  BY NothingTerminal, HeadTypes DEF coSealed, coHeads, CoInv, TypeInv
<1>6. QED
  BY <1>1, <1>2, <1>3, <1>4, <1>5 DEF CoInv

\* Time passing, and a step that changes nothing.
LEMMA UnchangedInv ==
    ASSUME CoInv, UNCHANGED coVars, now' \in Time
    PROVE  CoInv'
<1>1. TypeInv'
  BY DEF CoInv, TypeInv, CoTypeOK, coVars, coSealed, coHeads
<1>2. LedgerInv'
  BY LedgerUnchanged DEF coVars
<1>3. DrainIsBoundary' /\ HandoverIsCertified' /\ HeadInv'
  BY DEF CoInv, DrainIsBoundary, DrainFor, ReceiptsOf, HandoverIsCertified,
         DrainReceiptFor, HeadInv, OneActiveAssignment, coVars, coHeads, coSealed
<1>4. TxnInv'
  BY DEF CoInv, TxnInv, coVars, coHeads, coSealed
<1>5. QED
  BY <1>1, <1>2, <1>3, <1>4 DEF CoInv

-----------------------------------------------------------------------------
(* The invariant and the theorems.                                         *)

\* An empty store satisfies the invariant.
LEMMA CoInvInit ==
    ASSUME now = 0, CoInit
    PROVE  CoInv
<1>1. NewCursor \in Cursors /\ NewCursor.next = 1 /\ NewCursor.drained = NotDrained
  BY ConstantFacts DEF NewCursor, Cursors, NotDrained
<1>2. TypeInv
  BY <1>1, ConstantFacts DEF TypeInv, CoTypeOK, CoInit, Txns
<1>3. \A k \in Assignments : coCursor[k] = NewCursor /\ coState[k] = "absent"
  BY DEF CoInit
<1>4. \A k \in Assignments : ReceiptsOf(k) = {} /\ DrainFor(k) = {}
  BY DEF CoInit, ReceiptsOf, DrainFor
<1>5. LedgerInv
  <2>1. \A k \in Assignments : CursorAgrees(k)
    BY <1>1, <1>3 DEF CursorAgrees
  <2>2. GapFreeReceipts
    <3>1. \A k \in Assignments :
             {r.env.seq : r \in ReceiptsOf(k)} = 1..(coCursor[k].next - 1)
      BY <1>1, <1>3, <1>4
    <3>2. QED
      BY <1>4, <3>1 DEF GapFreeReceipts
  <2>3. CreditOncePerWork
    BY DEF CoInit, CreditOncePerWork
  <2>4. QED
    BY <2>1, <2>2, <2>3 DEF LedgerInv
<1>6. DrainIsBoundary
  BY <1>1, <1>3, <1>4 DEF DrainIsBoundary
<1>7. HandoverIsCertified
  BY DEF CoInit, HandoverIsCertified
<1>8. HeadInv
  BY <1>3, ConstantFacts DEF CoInit, HeadInv, OneActiveAssignment, None
<1>9. TxnInv
  BY DEF CoInit, TxnInv
<1>10. QED
  BY <1>2, <1>5, <1>6, <1>7, <1>8, <1>9 DEF CoInv

\* The operations of Core: its steps other than those of the clock.
CoOperation ==
    \/ coTxn = NoTxn /\ \E k \in Assignments : StageBundle(k)
    \/ \E e \in OfferedEnvelopes, oracle \in BOOLEAN : AdmitNew(e, now, oracle)
    \/ \E k, n \in Assignments, last \in 0..MaxSeq : \E d \in OfferedDrains(k) :
          TransitionStart(d, [prev |-> k, next |-> n, last |-> last], now)
    \/ TransitionStep
    \/ TransitionError
    \/ CoCrash

\* Every operation of Core keeps the invariant and the terminal records.
LEMMA CoInvOperation ==
    ASSUME CoInv, CoOperation, UNCHANGED now
    PROVE  CoInv' /\ TerminalStep
<1>1. CASE coTxn = NoTxn /\ \E k \in Assignments : StageBundle(k)
  <2>1. PICK k \in Assignments : StageBundle(k)
    BY <1>1
  <2>2. UNCHANGED <<coCursor, coReceipts, coCredit, coSealed, coTxn>>
    BY <2>1 DEF StageBundle
  <2>3. CASE \E done \in 0..4 : StageFirst(k, done) \/ StageReplacement(k, done)
    BY <1>1, <2>2, <2>3, StageFirstInv, StageReplacementInv
  <2>4. CASE StageRefused(k)
    BY <2>2, <2>4, StageRefusedInv
  <2>5. QED
    BY <2>1, <2>3, <2>4 DEF StageBundle
<1>2. CASE \E e \in OfferedEnvelopes, oracle \in BOOLEAN : AdmitNew(e, now, oracle)
  <2>1. PICK e \in OfferedEnvelopes, oracle \in BOOLEAN : AdmitNew(e, now, oracle)
    BY <1>2
  <2>2. e \in Envelopes
    BY DEF OfferedEnvelopes
  <2>3. QED
    BY <2>1, <2>2, AdmitInv
<1>3. CASE \E k, n \in Assignments, last \in 0..MaxSeq : \E d \in OfferedDrains(k) :
              TransitionStart(d, [prev |-> k, next |-> n, last |-> last], now)
  BY <1>3, StartInv
<1>4. CASE TransitionStep
  BY <1>4, StepDrainInv, StepReceiptInv, StepManifestInv, StepTransitionInv,
     StepSwapInv DEF TransitionStep
<1>5. CASE TransitionError
  BY <1>5, AbandonInv DEF TransitionError
<1>6. CASE CoCrash
  BY <1>6, AbandonInv DEF CoCrash
<1>7. QED
  BY <1>1, <1>2, <1>3, <1>4, <1>5, <1>6 DEF CoOperation

\* So does every step.
LEMMA CoInvNext ==
    ASSUME CoInv, [CoNext]_<<now, coVars>>
    PROVE  CoInv' /\ [TerminalStep]_coVars
<1>1. CASE CoOperation /\ UNCHANGED now
  BY <1>1, CoInvOperation
<1>2. CASE Tick /\ UNCHANGED coVars
  <2>1. now' \in Time
    BY <1>2, ConstantFacts DEF Tick, Time, CoInv, TypeInv
  <2>2. QED
    BY <1>2, <2>1, UnchangedInv
<1>3. CASE UNCHANGED <<now, coVars>>
  <2>1. now' \in Time
    BY <1>3 DEF CoInv, TypeInv
  <2>2. QED
    BY <1>3, <2>1, UnchangedInv
<1>4. QED
  BY <1>1, <1>2, <1>3 DEF CoNext, CoOperation

\* The invariant holds in every state of every behaviour of Core.
LEMMA CoInvariance == CoSpec => []CoInv
<1>1. CoSystemInit => CoInv
  BY CoInvInit DEF CoSystemInit
<1>2. CoInv /\ [CoNext]_<<now, coVars>> => CoInv'
  BY CoInvNext
<1>3. QED
  BY <1>1, <1>2, PTL DEF CoSpec

\* The durable heads, cursors and records of Core keep their shapes whatever
\* stage_bundle, admit_capture and complete_pending_transition do.
THEOREM CoreTypeOK == CoSpec => []CoTypeOK
<1>1. CoInv => CoTypeOK
  BY DEF CoInv, TypeInv
<1>2. QED
  BY <1>1, CoInvariance, PTL

\* The receipts of an assignment have no gap, no repetition and do not go back
\* in gateway time: classify and advance are a fence for any order of offers.
THEOREM CoreGapFree == CoSpec => []GapFreeReceipts
<1>1. CoInv => GapFreeReceipts
  BY DEF CoInv, LedgerInv
<1>2. QED
  BY <1>1, CoInvariance, PTL

\* Accepted credit is exactly that of the ACCEPTED receipts, and one proof of
\* work is credited at most once, across assignments and retries.
THEOREM CoreCreditOnce == CoSpec => []CreditOncePerWork
<1>1. CoInv => CreditOncePerWork
  BY DEF CoInv, LedgerInv
<1>2. QED
  BY <1>1, CoInvariance, PTL

\* A sealed assignment has one drain and its receipts end where the drain says,
\* although captures are admitted between the writes of a hand-over.
THEOREM CoreDrainBoundary == CoSpec => []DrainIsBoundary
<1>1. CoInv => DrainIsBoundary
  BY DEF CoInv
<1>2. QED
  BY <1>1, CoInvariance, PTL

\* Assignments follow one another although a hand-over stops between any two
\* of its writes and is repeated.
THEOREM CoreOneActive == CoSpec => []OneActiveAssignment
<1>1. CoInv => OneActiveAssignment
  BY DEF CoInv, HeadInv
<1>2. QED
  BY <1>1, CoInvariance, PTL

\* No transition leaves an assignment whose drain Core has not certified.
THEOREM CoreHandoverCertified == CoSpec => []HandoverIsCertified
<1>1. CoInv => HandoverIsCertified
  BY DEF CoInv
<1>2. QED
  BY <1>1, CoInvariance, PTL

\* Receipts, credit and drains are never removed, the heads never go back, and
\* nothing is admitted to a sealed assignment.
THEOREM CoreRecordsTerminal == CoSpec => RecordsAreTerminal
<1>1. CoInv /\ [CoNext]_<<now, coVars>> => [TerminalStep]_coVars
  BY CoInvNext
<1>2. QED
  BY <1>1, CoInvariance, PTL DEF CoSpec, RecordsAreTerminal

=============================================================================
