--------------------------- MODULE OperatorSpool ----------------------------
(***************************************************************************)
(* OperatorCaptureSpool (core-link/src/spool.rs): the operator's durable   *)
(* memory of what it has signed and of what Core has answered.             *)
(* Every operation is one conditional batch.                               *)
(***************************************************************************)
EXTENDS CoreAdmission

CONSTANT
    SpoolCapacity     \* MAX_OPERATOR_CAPTURE_RECORDS

VARIABLES
    spBundles,        \* bundles persisted by acknowledge_offer
    spHead,           \* assignment -> last sequence signed and its envelope
    spEnvelopes,      \* envelopes without a receipt
    spCount,          \* pending_records of the capacity record
    spReceipts,       \* receipts recorded, keyed by work
    spDrains,         \* drains signed, keyed by assignment
    spTransitions     \* transitions signed, keyed by previous assignment

spVars == <<spBundles, spHead, spEnvelopes, spCount, spReceipts, spDrains,
            spTransitions>>

ASSUME SpoolAssumption == SpoolCapacity \in Nat \ {0}

SpInit ==
    /\ spBundles = {}
    /\ spHead = [k \in Assignments |-> [seq |-> 0, final |-> NoEnvelope]]
    /\ spEnvelopes = {}
    /\ spCount = 0
    /\ spReceipts = {}
    /\ spDrains = {}
    /\ spTransitions = {}

\* persist_bundle
PersistBundle(k) ==
    /\ spBundles' = spBundles \cup {k}
    /\ UNCHANGED <<spHead, spEnvelopes, spCount, spReceipts, spDrains,
                   spTransitions>>

ReceiptOf(w) == {r \in spReceipts : r.env.work = w}
EnvelopeOf(w) == {e \in spEnvelopes : e.work = w}

\* The envelope prepare_envelope signs for a capture it has not seen.
NextEnvelope(w, ms) ==
    [assignment |-> WorkJob[w],
     seq |-> spHead[WorkJob[w]].seq + 1, work |-> w, ms |-> ms]

\* Mutant: a full spool refuses also the envelope it has already signed.
CanPrepareBelowLimit(w) ==
    /\ WorkJob[w] \in spBundles
    /\ spCount < SpoolCapacity

CanPrepare(w) ==
    /\ WorkJob[w] \in spBundles
    /\ EnvelopeOf(w) = {} => spCount < SpoolCapacity

\* The envelope a submission of the work carries.
PreparedEnvelope(w, ms) ==
    IF EnvelopeOf(w) # {} THEN CHOOSE e \in EnvelopeOf(w) : TRUE
                          ELSE NextEnvelope(w, ms)

\* Mutant: the envelope is handed out without being stored.
PrepareUnsaved(w, ms) ==
    /\ CanPrepare(w)
    /\ UNCHANGED spVars

\* Mutant: a reused envelope is counted again.
PrepareCountsTwice(w, ms) ==
    LET e == PreparedEnvelope(w, ms)
    IN  /\ CanPrepare(w)
        /\ spHead' = [spHead EXCEPT ![e.assignment] =
                         [seq |-> e.seq, final |-> e]]
        /\ spEnvelopes' = spEnvelopes \cup {e}
        /\ spCount' = spCount + 1
        /\ UNCHANGED <<spBundles, spReceipts, spDrains, spTransitions>>

\* prepare_envelope: sequence head, envelope and capacity in one batch; an
\* envelope signed before is reused.
PrepareEnvelope(w, ms) ==
    LET e == NextEnvelope(w, ms)
    IN  /\ CanPrepare(w)
        /\ IF EnvelopeOf(w) # {}
           THEN UNCHANGED <<spHead, spEnvelopes, spCount>>
           ELSE /\ spHead' = [spHead EXCEPT ![e.assignment] =
                                 [seq |-> e.seq, final |-> e]]
                /\ spEnvelopes' = spEnvelopes \cup {e}
                /\ spCount' = spCount + 1
        /\ UNCHANGED <<spBundles, spReceipts, spDrains, spTransitions>>

\* record_receipt: the receipt replaces the envelope it answers.
RecordReceipt(r) ==
    /\ r.env \in spEnvelopes
    /\ spReceipts' = spReceipts \cup {r}
    /\ spEnvelopes' = spEnvelopes \ {r.env}
    /\ spCount' = spCount - 1
    /\ UNCHANGED <<spBundles, spHead, spDrains, spTransitions>>

PendingForAssignment(k) ==
    {e \in spEnvelopes : e.assignment = k /\ ReceiptOf(e.work) = {}}

\* build_drain_and_transition
BuildDrain(k, t) ==
    [assignment |-> k, last |-> spHead[k].seq, final |-> spHead[k].final,
     ms |-> t]

BuildTransition(k, n) == [prev |-> k, next |-> n, last |-> spHead[k].seq]

\* persist_drain_and_transition: an exact repeat is fine, anything else is a
\* conflict.
CanPersistDrain(d, tr) ==
    /\ {x \in spDrains : x.assignment = d.assignment} \subseteq {d}
    /\ {x \in spTransitions : x.prev = tr.prev} \subseteq {tr}

PersistDrain(d, tr) ==
    /\ CanPersistDrain(d, tr)
    /\ spDrains' = spDrains \cup {d}
    /\ spTransitions' = spTransitions \cup {tr}
    /\ UNCHANGED <<spBundles, spHead, spEnvelopes, spCount, spReceipts>>

=============================================================================
