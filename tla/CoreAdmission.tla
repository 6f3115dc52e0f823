--------------------------- MODULE CoreAdmission ----------------------------
(***************************************************************************)
(* Core's durable admission of gateway captures and its assignment         *)
(* hand-over: CoreAdmissionEngine (core-link/src/admission.rs) over the    *)
(* handoff records (handoff/src/lib.rs) and the accepted-share records     *)
(* (share/src/lib.rs).  All variables but coTxn are in Core's store.       *)
(***************************************************************************)
EXTENDS Schedule, CaptureCursor, FiniteSets

CONSTANTS
    ShareKey,         \* work -> ShareV2::work_key, equal for the same proof of
                      \* work reached through two assignments of one session
    MaxSeq,           \* bound on the sequence numbers offered
    CoreReceiptTime,  \* TRUE: CORE_RECEIPT_TIME, FALSE: delegated signed time
    MaxSkew           \* maximum_clock_skew_ms of delegated time

VARIABLES
    coBundles,        \* staged bundles
    coActive,         \* active bundle, or None
    coPending,        \* pending bundle, or None
    coManifest,       \* context-manifest head: its sequence, 0 when absent
    coHead,           \* assignment head, or None
    coState,          \* assignment -> "absent" | "ACTIVE" | "DRAINED"
    coCursor,         \* assignment -> capture cursor
    coReceipts,       \* journalled capture receipts
    coCredit,         \* AcceptedWorkKey and AcceptedShare records
    coDrains,         \* journalled GatewayAssignmentDrain records
    coDrainReceipts,  \* journalled CoreAssignmentDrainReceipt records
    coTransitions,    \* journalled GatewayAssignmentTransition records
    coTxn             \* complete_pending_transition in progress (volatile)

coHeads == <<coBundles, coActive, coPending, coManifest>>
coSealed == <<coDrains, coDrainReceipts, coTransitions>>
coVars == <<coHeads, coHead, coState, coCursor, coReceipts, coCredit,
            coSealed, coTxn>>

ASSUME ShareKeyAssumption == DOMAIN ShareKey = Works
ASSUME CoreBoundsAssumption ==
    /\ MaxSeq \in Nat
    /\ CoreReceiptTime \in BOOLEAN
    /\ MaxSkew \in Nat
ASSUME NoWorkAssumption == NoWork \notin Works

-----------------------------------------------------------------------------
(* Records.                                                                *)

Envelopes ==
    [assignment : Assignments, seq : 1..MaxSeq, work : Works, ms : Time]

Outcomes == {"ACCEPTED", "REJECTED", "DUPLICATE"}

Receipts == [env : Envelopes, outcome : Outcomes, ms : Time]

Drains == [assignment : Assignments, last : 0..MaxSeq,
           final : Envelopes \cup {NoEnvelope}, ms : Time]

DrainReceipts == [drain : Drains, ms : Time]

AssignmentTransitions ==
    [prev : Assignments, next : Assignments, last : 0..MaxSeq]

NoTxn == [step |-> "none"]

Steps == {"drain", "receipt", "manifest", "transition", "swap"}

Txns == {NoTxn} \cup
        [step : Steps, drain : Drains, transition : AssignmentTransitions,
         ms : Time]

CoInit ==
    /\ coBundles = {}
    /\ coActive = None
    /\ coPending = None
    /\ coManifest = 0
    /\ coHead = None
    /\ coState = [k \in Assignments |-> "absent"]
    /\ coCursor = [k \in Assignments |-> NewCursor]
    /\ coReceipts = {}
    /\ coCredit = {}
    /\ coDrains = {}
    /\ coDrainReceipts = {}
    /\ coTransitions = {}
    /\ coTxn = NoTxn

-----------------------------------------------------------------------------
(* Staging a bundle.                                                       *)

\* persist_gateway_context_manifest: the head itself or its successor.
ManifestAdvances(k, t) ==
    /\ ManifestValidAt(k, t)
    /\ Bundle[k].manifest \in {coManifest, coManifest + 1}

\* persist_gateway_assignment_authorization: only the first assignment.
Authorizes(k) ==
    /\ \/ coHead = None /\ k = 1
       \/ coHead = k
    /\ coState[k] \in {"absent", "ACTIVE"}

\* install_or_mark_pending takes the first bundle when there is no active one,
\* and then the successor of the active one.
Installable(k) ==
    IF coActive = None
    THEN k = 1 /\ ManifestAdvances(k, now) /\ Authorizes(k)
    ELSE k = coActive + 1 /\ coPending \in {None, k}

\* stage_bundle for the first bundle: four durable writes, the bundle record,
\* the manifest head, the authorisation and the active head.  A stop after
\* `done' of them leaves a store that a repeated call completes.
StageFirst(k, done) ==
    /\ coActive = None
    /\ ManifestValidAt(k, now)
    /\ Installable(k)
    /\ coBundles' = IF done >= 1 THEN coBundles \cup {k} ELSE coBundles
    /\ coManifest' = IF done >= 2 THEN Bundle[k].manifest ELSE coManifest
    /\ coHead' = IF done >= 3 THEN k ELSE coHead
    /\ coState' = IF done >= 3 THEN [coState EXCEPT ![k] = "ACTIVE"]
                               ELSE coState
    /\ coActive' = IF done >= 4 THEN k ELSE coActive
    /\ UNCHANGED coPending

\* A replacement is recorded, then marked pending behind the active bundle.
StageReplacement(k, done) ==
    /\ coActive # None
    /\ ManifestValidAt(k, now)
    /\ Installable(k)
    /\ coBundles' = IF done >= 1 THEN coBundles \cup {k} ELSE coBundles
    /\ coPending' = IF done >= 2 THEN k ELSE coPending
    /\ UNCHANGED <<coActive, coManifest, coHead, coState>>

\* A bundle is recorded before install_or_mark_pending looks at it: one that is
\* refused there (a successor staged too early, an earlier assignment) stays
\* recorded.  The active bundle, already recorded, is accepted without a write.
StageRefused(k) ==
    /\ ManifestValidAt(k, now)
    /\ ~Installable(k)
    /\ coBundles' = coBundles \cup {k}
    /\ UNCHANGED <<coActive, coPending, coManifest, coHead, coState>>

StageBundle(k) ==
    /\ \/ \E done \in 0..4 : StageFirst(k, done) \/ StageReplacement(k, done)
       \/ StageRefused(k)
    /\ UNCHANGED <<coCursor, coReceipts, coCredit, coSealed, coTxn>>

-----------------------------------------------------------------------------
(* admit_capture.                                                          *)

ReceiptsFor(e) == {r \in coReceipts : r.env = e}

\* validate_local_bundle; the parent oracle's answer is an input.
LocalBundleValid(k, t, oracle) ==
    /\ k \in coBundles
    /\ ManifestValidAt(k, t)
    /\ oracle

\* validate_capture_envelope: the observation policy.
SkewAllowed(e, t) ==
    \/ CoreReceiptTime
    \/ e.ms - t <= MaxSkew /\ t - e.ms <= MaxSkew

ObservedMs(e, t) == IF CoreReceiptTime THEN t ELSE e.ms

InSession(k, t) == Bundle[k].start <= t /\ t <= Bundle[k].submissionEnd

\* prepare_capture_disposition: the checks that precede any disposition.
CanDispose(e, t) ==
    LET k == e.assignment
    IN  /\ ManifestValidAt(k, t)
        /\ SkewAllowed(e, t)
        /\ coManifest = Bundle[k].manifest
        /\ coHead = k
        /\ coState[k] = "ACTIVE"
        /\ Classify(coCursor[k], e) \in {"New", "ExactRetry"}

\* Mutant: only the gateway's work key is compared, not the proof of work.
KeyTakenByWork(e) == \E c \in coCredit : c.work = e.work /\ c # e

\* An AcceptedWorkKey record of the same key made by another share.
KeyTaken(e) ==
    \E c \in coCredit : ShareKey[c.work] = ShareKey[e.work] /\ c # e

\* validate_gateway_share and accept_gateway_durable.
Disposition(e, t, oracle) ==
    IF ~InSession(e.assignment, ObservedMs(e, t)) \/ ~oracle THEN "REJECTED"
    ELSE IF KeyTaken(e) THEN "DUPLICATE"
    ELSE "ACCEPTED"

\* Mutant: the receipt is stored under the assignment and replaces the last.
DisposeOverwrites(e, outcome, t) ==
    /\ coReceipts' = {r \in coReceipts : r.env.assignment # e.assignment}
                        \cup {[env |-> e, outcome |-> outcome, ms |-> t]}
    /\ coCursor' = [coCursor EXCEPT ![e.assignment] = Advance(@, e)]
    /\ coCredit' = IF outcome = "ACCEPTED" THEN coCredit \cup {e} ELSE coCredit
    /\ UNCHANGED <<coHeads, coHead, coState, coSealed, coTxn>>

\* One batch: envelope, receipt, cursor and, if accepted, the credit.
Dispose(e, outcome, t) ==
    /\ coReceipts' = coReceipts \cup
                        {[env |-> e, outcome |-> outcome, ms |-> t]}
    /\ coCursor' = [coCursor EXCEPT ![e.assignment] = Advance(@, e)]
    /\ coCredit' = IF outcome = "ACCEPTED" THEN coCredit \cup {e} ELSE coCredit
    /\ UNCHANGED <<coHeads, coHead, coState, coSealed, coTxn>>

\* The capture is disposed of for the first time.  The oracle is asked twice
\* and may change its mind: a refusal of the first call is an error, of the
\* second a rejection.
AdmitNew(e, t, oracle) ==
    /\ ReceiptsFor(e) = {}
    /\ LocalBundleValid(e.assignment, t, TRUE)
    /\ CanDispose(e, t)
    /\ Dispose(e, Disposition(e, t, oracle), t)

\* The existing receipt is returned, whatever the clock and the heads say.
AdmitRetry(e) ==
    /\ ReceiptsFor(e) # {}
    /\ UNCHANGED coVars

\* An error without a receipt.
AdmitError(e, t, oracle) ==
    /\ ReceiptsFor(e) = {}
    /\ ~(LocalBundleValid(e.assignment, t, oracle) /\ CanDispose(e, t))
    /\ UNCHANGED coVars

-----------------------------------------------------------------------------
(* complete_pending_transition: five durable writes.                       *)

TransitionStart(d, tr, t) ==
    /\ coTxn = NoTxn
    /\ coActive # None /\ coPending # None
    /\ d.assignment = coActive
    /\ tr.prev = coActive /\ tr.next = coPending
    /\ coTxn' = [step |-> "drain", drain |-> d, transition |-> tr, ms |-> t]
    /\ UNCHANGED <<coHeads, coHead, coState, coCursor, coReceipts, coCredit,
                   coSealed>>

DrainFor(k) == {d \in coDrains : d.assignment = k}
DrainReceiptFor(k) == {r \in coDrainReceipts : r.drain.assignment = k}

\* The checks of each step against the store as it is when the step runs.
StepAllowed(x) ==
    LET d == x.drain
        k == d.assignment
        n == x.transition.next
    IN CASE x.step = "drain" ->
              /\ ManifestValidAt(k, d.ms)
              /\ (d.last = 0) <=> (d.final = NoEnvelope)
              /\ DrainApplies(coCursor[k], d)
              /\ \/ coState[k] = "DRAINED" /\ d \in coDrains
                 \/ /\ coState[k] = "ACTIVE"
                    /\ coManifest = Bundle[k].manifest
                    /\ coHead = k
         [] x.step = "receipt" ->
              DrainReceiptFor(k) \subseteq {[drain |-> d, ms |-> x.ms]}
         [] x.step = "manifest" -> ManifestAdvances(n, x.ms)
         [] x.step = "transition" ->
              /\ ManifestValidAt(n, Bundle[n].cutoff)
              /\ coManifest = Bundle[n].manifest
              /\ \/ coHead = n /\ x.transition \in coTransitions
                 \/ /\ coHead = k
                    /\ coState[k] = "DRAINED"
                    /\ coCursor[k].drained = x.transition.last
                    /\ coState[n] = "absent"
         [] x.step = "swap" -> TRUE

\* persist_gateway_assignment_drain seals the cursor and the state together.
StepDrain(x) ==
    LET k == x.drain.assignment
    IN  /\ x.step = "drain"
        /\ coCursor' = [coCursor EXCEPT ![k] = ApplyDrain(@, x.drain)]
        /\ coState' = [coState EXCEPT ![k] = "DRAINED"]
        /\ coDrains' = coDrains \cup {x.drain}
        /\ coTxn' = [x EXCEPT !.step = "receipt"]
        /\ UNCHANGED <<coHeads, coHead, coDrainReceipts, coTransitions>>

\* Mutant: the drain receipt is sent but not journalled.
StepReceiptUnsaved(x) ==
    /\ x.step = "receipt"
    /\ coTxn' = [x EXCEPT !.step = "manifest"]
    /\ UNCHANGED <<coHeads, coHead, coState, coCursor, coSealed>>

StepReceipt(x) ==
    /\ x.step = "receipt"
    /\ coDrainReceipts' = coDrainReceipts \cup
                             {[drain |-> x.drain, ms |-> x.ms]}
    /\ coTxn' = [x EXCEPT !.step = "manifest"]
    /\ UNCHANGED <<coHeads, coHead, coState, coCursor, coDrains, coTransitions>>

StepManifest(x) ==
    /\ x.step = "manifest"
    /\ coManifest' = Bundle[x.transition.next].manifest
    /\ coTxn' = [x EXCEPT !.step = "transition"]
    /\ UNCHANGED <<coBundles, coActive, coPending, coHead, coState, coCursor,
                   coSealed>>

\* Mutant: the successor becomes active but the assignment head stays.
StepTransitionKeepsHead(x) ==
    LET n == x.transition.next
    IN  /\ x.step = "transition"
        /\ coState' = [coState EXCEPT ![n] = "ACTIVE"]
        /\ coTransitions' = coTransitions \cup {x.transition}
        /\ coTxn' = [x EXCEPT !.step = "swap"]
        /\ UNCHANGED <<coHeads, coHead, coCursor, coDrains, coDrainReceipts>>

\* persist_gateway_assignment_transition: next becomes head and active.
StepTransition(x) ==
    LET n == x.transition.next
    IN  /\ x.step = "transition"
        /\ coHead' = n
        /\ coState' = IF coHead = n THEN coState
                                    ELSE [coState EXCEPT ![n] = "ACTIVE"]
        /\ coTransitions' = coTransitions \cup {x.transition}
        /\ coTxn' = [x EXCEPT !.step = "swap"]
        /\ UNCHANGED <<coHeads, coCursor, coDrains, coDrainReceipts>>

StepSwap(x) ==
    /\ x.step = "swap"
    /\ coActive' = x.transition.next
    /\ coPending' = None
    /\ coTxn' = NoTxn
    /\ UNCHANGED <<coBundles, coManifest, coHead, coState, coCursor, coSealed>>

TransitionStep ==
    /\ coTxn # NoTxn
    /\ StepAllowed(coTxn)
    /\ \/ StepDrain(coTxn)
       \/ StepReceipt(coTxn)
       \/ StepManifest(coTxn)
       \/ StepTransition(coTxn)
       \/ StepSwap(coTxn)
    /\ UNCHANGED <<coReceipts, coCredit>>

\* The first failing check ends the call; what was written stays.
TransitionError ==
    /\ coTxn # NoTxn
    /\ ~StepAllowed(coTxn)
    /\ coTxn' = NoTxn
    /\ UNCHANGED <<coHeads, coHead, coState, coCursor, coReceipts, coCredit,
                   coSealed>>

\* A stop loses the call in progress and nothing else.
CoCrash ==
    /\ coTxn' = NoTxn
    /\ UNCHANGED <<coHeads, coHead, coState, coCursor, coReceipts, coCredit,
                   coSealed>>

-----------------------------------------------------------------------------
(* Core on its own.  The gateway may offer any envelope it could have      *)
(* signed by now, again and in any order, a drain at any envelope that has *)
(* a receipt, and a transition that names another last sequence than its   *)
(* drain; captures are admitted between the writes of a hand-over.         *)

OfferedEnvelopes ==
    {e \in Envelopes : e.ms <= now /\ e.assignment = WorkJob[e.work]}

\* A drain signed now, or one signed before and sent again.
OfferedDrains(k) ==
    DrainFor(k) \cup
    {[assignment |-> k, last |-> e.seq, final |-> e, ms |-> now] :
        e \in {NoEnvelope} \cup {r.env : r \in {q \in coReceipts :
                                                q.env.assignment = k}}}

\* A retry or an error (AdmitRetry, AdmitError) changes nothing here.
CoNext ==
    \/ \E k \in Assignments :
          coTxn = NoTxn /\ StageBundle(k) /\ UNCHANGED now
    \/ \E e \in OfferedEnvelopes, oracle \in BOOLEAN :
          AdmitNew(e, now, oracle) /\ UNCHANGED now
    \/ \E k, n \in Assignments, last \in 0..MaxSeq : \E d \in OfferedDrains(k) :
          /\ TransitionStart(d, [prev |-> k, next |-> n, last |-> last], now)
          /\ UNCHANGED now
    \/ TransitionStep /\ UNCHANGED now
    \/ TransitionError /\ UNCHANGED now
    \/ CoCrash /\ UNCHANGED now
    \/ Tick /\ UNCHANGED coVars

CoSystemInit == now = 0 /\ CoInit

CoSpec == CoSystemInit /\ [][CoNext]_<<now, coVars>>

-----------------------------------------------------------------------------
(* Properties.                                                             *)

Cursors == [next : 1..(MaxSeq + 1), last : Envelopes \cup {NoEnvelope},
            lastMs : Time, drained : (0..MaxSeq) \cup {NotDrained}]

\* Core's records have their shapes: heads name bundles, the cursors stay in
\* the range of the sequences offered, a hand-over carries a drain and a
\* transition.
CoTypeOK ==
    /\ coBundles \subseteq Assignments
    /\ coActive \in Assignments \cup {None}
    /\ coPending \in Assignments \cup {None}
    /\ coManifest \in Nat
    /\ coHead \in Assignments \cup {None}
    /\ coState \in [Assignments -> {"absent", "ACTIVE", "DRAINED"}]
    /\ coCursor \in [Assignments -> Cursors]
    /\ coReceipts \subseteq Receipts
    /\ coCredit \subseteq Envelopes
    /\ coDrains \subseteq Drains
    /\ coDrainReceipts \subseteq DrainReceipts
    /\ coTransitions \subseteq AssignmentTransitions
    /\ coTxn \in Txns

ReceiptsOf(k) == {r \in coReceipts : r.env.assignment = k}

\* The cursor is a gap-free fence: the receipts of an assignment are exactly
\* one per sequence number below the cursor, in order of gateway time.
GapFreeReceipts ==
    \A k \in Assignments :
        /\ {r.env.seq : r \in ReceiptsOf(k)} = 1..(coCursor[k].next - 1)
        /\ \A r, s \in ReceiptsOf(k) :
              /\ r.env.seq = s.env.seq => r = s
              /\ r.env.seq < s.env.seq => r.env.ms <= s.env.ms

\* Credit has a source and is given once: the accepted records are those of
\* the ACCEPTED receipts, and no two share a proof of work.
CreditOncePerWork ==
    /\ coCredit = {r.env : r \in {q \in coReceipts : q.outcome = "ACCEPTED"}}
    /\ \A c, d \in coCredit : ShareKey[c.work] = ShareKey[d.work] => c = d

\* A sealed assignment has one drain record, and its cursor and its receipts
\* stop exactly at the sequence the drain names.
DrainIsBoundary ==
    \A k \in Assignments :
        /\ coState[k] = "DRAINED" <=> coCursor[k].drained # NotDrained
        /\ coState[k] = "DRAINED" <=> DrainFor(k) # {}
        /\ \A d \in DrainFor(k) :
              /\ DrainFor(k) = {d}
              /\ coCursor[k].drained = d.last
              /\ {r.env.seq : r \in ReceiptsOf(k)} = 1..d.last

\* Assignments follow one another: those before the head are drained, those
\* after it untouched, and the active bundle is the head or, while a
\* hand-over is incomplete, its predecessor.
OneActiveAssignment ==
    /\ \A k \in Assignments :
          /\ k < coHead => coState[k] = "DRAINED"
          /\ k > coHead => coState[k] = "absent"
    /\ coHead # None => coState[coHead] # "absent"
    /\ coPending # None => coPending = coActive + 1
    /\ coActive # None => coHead \in {coActive, coPending}

\* A drain receipt certifies a recorded drain, and a transition leaves only an
\* assignment whose drain was certified.
HandoverIsCertified ==
    /\ \A r \in coDrainReceipts : r.drain \in coDrains
    /\ \A r, s \in coDrainReceipts :
          r.drain.assignment = s.drain.assignment => r = s
    /\ \A tr \in coTransitions :
          /\ DrainReceiptFor(tr.prev) # {}
          /\ \A d \in DrainFor(tr.prev) : d.last = tr.last

\* Terminal records are immutable, and nothing joins a sealed assignment.
TerminalStep ==
    /\ coReceipts \subseteq coReceipts'
    /\ coCredit \subseteq coCredit'
    /\ coDrains \subseteq coDrains'
    /\ coHead <= coHead'
    /\ coManifest <= coManifest'
    /\ \A k \in Assignments :
          coState[k] = "DRAINED" =>
              {r \in coReceipts' : r.env.assignment = k} = ReceiptsOf(k)

\* Whatever admit_capture and complete_pending_transition do in whatever
\* order, with stops between their writes, every step is a terminal step.
RecordsAreTerminal == [][TerminalStep]_coVars

=============================================================================
