------------------------------ MODULE CoreLink ------------------------------
(***************************************************************************)
(* The link between the operator daemon and Core: the service loop of      *)
(* meshmine-corelink-operatord, the client of meshmine-core-link and the   *)
(* server of meshmine-cored, over the gateway, the spool and the admission *)
(* engine.                                                                 *)
(*                                                                         *)
(* The operator's loop runs one iteration after another: receive a         *)
(* message, acknowledge offers, drain captures with the gateway lock held, *)
(* complete a hand-over.  Sessions run beside it and take the lock between *)
(* its steps.  Core serves one connection.  Either process may stop at any *)
(* point and start again, and the link may break; MaxFaults bounds how     *)
(* often.  An AssignmentAck only writes a record nobody reads, so it is    *)
(* left out; sending it can fail and that is kept.  Heartbeats are left    *)
(* out: they only tell the two sides that the link is up.                  *)
(***************************************************************************)
EXTENDS Gateway, OperatorSpool

CONSTANTS
    DrainBatch,      \* capture_drain_batch
    OracleAnswers,   \* what the parent oracle may answer
    FaultKinds,      \* which faults happen
    MaxFaults        \* bound on how many

VARIABLES
    op,              \* the operator daemon's memory
    core,            \* Core: is it running, and its connection
    link,            \* the connection and the messages in flight
    faults

linkVars == <<op, core, link, faults>>
allVars == <<now, gwVars, coVars, spVars, linkVars>>

ASSUME CoreLinkAssumption ==
    /\ DrainBatch \in Nat \ {0}
    /\ OracleAnswers \subseteq BOOLEAN /\ OracleAnswers # {}
    /\ FaultKinds \subseteq {"operator", "core", "link", "timeout"}
    /\ MaxFaults \in Nat

-----------------------------------------------------------------------------
(* Processes and messages.                                                 *)

\* The operator is not running.
OpDown == [pc |-> "down", active |-> None, pending |-> None, client |-> FALSE,
           expect |-> FALSE, offers |-> <<>>, drop |-> FALSE,
           drainReq |-> None, budget |-> 0, ms |-> 0]

NoLink == [up |-> FALSE, toOp |-> <<>>, toCore |-> <<>>]

Offer(k) == [type |-> "AssignmentOffer", bundle |-> k]
DrainRequired(k) == [type |-> "DrainRequired", bundle |-> k]
CaptureDisposition(r) == [type |-> "CaptureDisposition", receipt |-> r]
DrainDisposition(d) == [type |-> "DrainDisposition", drain |-> d]
Error(req) == [type |-> "Error", request |-> req]
CaptureSubmission(e) == [type |-> "CaptureSubmission", envelope |-> e]
DrainSubmission(d, tr) ==
    [type |-> "DrainSubmission", drain |-> d, transition |-> tr]

LinkInit ==
    /\ op = OpDown
    /\ core = [up |-> FALSE, conn |-> "none"]
    /\ link = NoLink
    /\ faults = 0

Fault(kind) ==
    /\ kind \in FaultKinds
    /\ faults < MaxFaults
    /\ faults' = faults + 1

\* drain_captures_durably runs with the gateway lock held.
OpHoldsLock == op.pc \in {"submit", "send", "await", "ack"}

\* The operator's end of the socket is closed: Core still reads what was sent.
CloseByOperator == link' = [link EXCEPT !.up = FALSE, !.toOp = <<>>]

Send(m) == link' = [link EXCEPT !.toCore = Append(@, m)]
Reply(ms) == link' = [link EXCEPT !.toOp = @ \o ms]

\* The operator has nothing more to read and the connection is gone.
AtEof == link.toOp = <<>> /\ ~link.up

\* A read timeout: Core is slow to answer.
Silent == link.toOp = <<>> /\ link.up

-----------------------------------------------------------------------------
(* Starting and stopping the operator daemon.                              *)

\* serve: the active bundle is the one the gateway's current job came from.
OpStart ==
    /\ op.pc = "down"
    /\ gwCurrent # None => gwCurrent \in spBundles
    /\ op' = [OpDown EXCEPT !.pc = "top", !.active = gwCurrent]
    /\ UNCHANGED <<now, gwVars, coVars, spVars, core, link, faults>>

\* The process ends, by a stop or because service_loop returned an error.
\* The gateway's queue is what the next open will rebuild.
OpExits ==
    /\ op' = OpDown
    /\ CloseByOperator
    /\ Reopen

OpCrash ==
    /\ op.pc # "down"
    /\ Fault("operator")
    /\ OpExits
    /\ UNCHANGED <<now, coVars, spVars, core>>

-----------------------------------------------------------------------------
(* Top of the loop: connect or receive one message.                        *)

OpConnect ==
    /\ op.pc = "top" /\ ~op.client
    /\ core.up /\ core.conn = "none"
    /\ op' = [op EXCEPT !.client = TRUE, !.expect = TRUE, !.offers = <<>>,
                        !.drop = FALSE, !.drainReq = None]
    /\ core' = [core EXCEPT !.conn = "greet"]
    /\ link' = [NoLink EXCEPT !.up = TRUE]
    /\ UNCHANGED <<now, gwVars, coVars, spVars, faults>>

\* handle_unsolicited, or an error for any other message.
Unsolicited(m) == m.type \in {"AssignmentOffer", "DrainRequired"}

Noted(o, m) ==
    CASE m.type = "AssignmentOffer" ->
            [o EXCEPT !.offers = Append(@, m.bundle)]
      [] m.type = "DrainRequired" -> [o EXCEPT !.drainReq = m.bundle]
      [] OTHER -> o

Consume == link' = [link EXCEPT !.toOp = Tail(@)]

\* receive_one: a timeout is no error, anything unexpected ends the connection
\* once the offers received before it are acknowledged.
OpReceive ==
    LET o == [op EXCEPT !.pc = "offers", !.ms = now]
    IN  /\ op.pc = "top" /\ op.client
        /\ \/ Silent /\ op' = o /\ UNCHANGED link
           \/ AtEof /\ op' = [o EXCEPT !.drop = TRUE] /\ UNCHANGED link
           \/ /\ link.toOp # <<>>
              /\ Consume
              /\ LET m == Head(link.toOp)
                 IN  op' = [Noted(o, m) EXCEPT !.drop = ~Unsolicited(m)]
        /\ UNCHANGED <<now, gwVars, coVars, spVars, core, faults>>

-----------------------------------------------------------------------------
(* Offers.                                                                 *)

\* previous_job_transition of the bundle.
TransitionInto(k) ==
    IF k = 1 THEN NoTransition
    ELSE [job |-> k - 1, cutoff |-> Bundle[k].cutoff,
          end |-> Bundle[k].prevSubmissionEnd]

\* install_job: issue it, find it current, or fail.
CanInstall(k) == CanIssue(k, TransitionInto(k)) \/ IsCurrentJob(k)

InstallJob(k) ==
    \/ IssueJob(k, TransitionInto(k))
    \/ IsCurrentJob(k) /\ UNCHANGED gwVars

\* Mutant: every offer is taken for the authoritative one.
MustInstallAny(k) == k # op.active

\* The first offer of a connection is Core's active bundle.
MustInstall(k) == op.expect /\ k # op.active

\* acknowledge_offer fails, or the authoritative bundle cannot be installed.
OpOfferFails(k) ==
    /\ \/ ~ManifestValidAt(k, op.ms) /\ UNCHANGED spVars
       \/ /\ ManifestValidAt(k, op.ms)
          /\ ~link.up \/ (MustInstall(k) /\ ~CanInstall(k))
          /\ PersistBundle(k)
    /\ OpExits

OpOfferTaken(k) ==
    /\ ManifestValidAt(k, op.ms)
    /\ link.up
    /\ PersistBundle(k)
    /\ IF MustInstall(k) THEN InstallJob(k) ELSE UNCHANGED gwVars
    /\ op' = [op EXCEPT !.offers = Tail(@),
                        !.expect = FALSE,
                        !.active = IF op.expect THEN k ELSE @,
                        !.pending = IF op.expect \/ k = op.active THEN @ ELSE k]
    /\ UNCHANGED link

OpOffer ==
    /\ op.pc = "offers" /\ op.offers # <<>>
    /\ OpOfferFails(Head(op.offers)) \/ OpOfferTaken(Head(op.offers))
    /\ UNCHANGED <<now, coVars, core, faults>>

OpOffersDone ==
    /\ op.pc = "offers" /\ op.offers = <<>>
    /\ IF op.drop
       THEN /\ op' = [op EXCEPT !.pc = "top", !.client = FALSE, !.drop = FALSE,
                                !.expect = FALSE, !.drainReq = None]
            /\ CloseByOperator
       ELSE op' = [op EXCEPT !.pc = "captures"] /\ UNCHANGED link
    /\ UNCHANGED <<now, gwVars, coVars, spVars, core, faults>>

-----------------------------------------------------------------------------
(* drain_captures_durably, with the lock from "submit" to "ack".           *)

\* Mutant: the batch is one capture too large.
OpCapturesBeyondBatch ==
    /\ op.pc = "captures"
    /\ IF op.drainReq = None THEN CloseExpired(now) ELSE UNCHANGED gwVars
    /\ op' = [op EXCEPT !.pc = "submit", !.budget = DrainBatch + 1]
    /\ UNCHANGED <<now, coVars, spVars, core, link, faults>>

\* Expiry waits while Core has asked for a drain.
OpCaptures ==
    /\ op.pc = "captures"
    /\ IF op.drainReq = None THEN CloseExpired(now) ELSE UNCHANGED gwVars
    /\ op' = [op EXCEPT !.pc = "submit", !.budget = DrainBatch]
    /\ UNCHANGED <<now, coVars, spVars, core, link, faults>>

\* Mutant: a capture is acknowledged although its submission failed.
BatchAcknowledges == op' = [op EXCEPT !.pc = "ack"]

\* The end of the batch, or the first downstream error.
BatchEnds == op' = [op EXCEPT !.pc = "drain", !.budget = 0]

\* submit_capture for the first capture in the queue.
OpSubmit ==
    /\ op.pc = "submit"
    /\ IF op.budget = 0 \/ gwForwarded = <<>>
       THEN BatchEnds /\ UNCHANGED <<spVars, link>>
       ELSE LET w == Head(gwForwarded)
            IN  \/ /\ ReceiptOf(w) # {}
                   /\ op' = [op EXCEPT !.pc = "ack"]
                   /\ UNCHANGED <<spVars, link>>
                \/ /\ ReceiptOf(w) = {} /\ ~CanPrepare(w)
                   /\ BatchEnds /\ UNCHANGED <<spVars, link>>
                \/ /\ ReceiptOf(w) = {}
                   /\ PrepareEnvelope(w, gwReceived[w])
                   /\ op' = [op EXCEPT !.pc = "send"]
                   /\ UNCHANGED link
    /\ UNCHANGED <<now, gwVars, coVars, core, faults>>

\* The envelope is in the spool before it is sent.
OpSend ==
    LET w == Head(gwForwarded)
    IN  /\ op.pc = "send"
        /\ IF link.up
           THEN /\ op' = [op EXCEPT !.pc = "await"]
                /\ Send(CaptureSubmission(PreparedEnvelope(w, gwReceived[w])))
           ELSE BatchEnds /\ UNCHANGED link
        /\ UNCHANGED <<now, gwVars, coVars, spVars, core, faults>>

\* The wait for the disposition of the envelope in flight.
OpAwait ==
    LET w == Head(gwForwarded)
        e == PreparedEnvelope(w, gwReceived[w])
        m == Head(link.toOp)
    IN  /\ op.pc = "await"
        /\ \/ Silent /\ Fault("timeout") /\ BatchEnds /\ UNCHANGED <<spVars, link>>
           \/ AtEof /\ BatchEnds /\ UNCHANGED <<spVars, link, faults>>
           \/ /\ link.toOp # <<>>
              /\ Consume
              /\ IF m.type = "CaptureDisposition" /\ m.receipt.env = e
                 THEN /\ RecordReceipt(m.receipt)
                      /\ op' = [op EXCEPT !.pc = "ack"]
                 ELSE IF Unsolicited(m) THEN op' = Noted(op, m) /\ UNCHANGED spVars
                 ELSE BatchEnds /\ UNCHANGED spVars
              /\ UNCHANGED faults
        /\ UNCHANGED <<now, gwVars, coVars, core>>

OpAck ==
    /\ op.pc = "ack"
    /\ AcknowledgeCapture(1)
    /\ op' = [op EXCEPT !.pc = "submit", !.budget = @ - 1]
    /\ UNCHANGED <<now, coVars, spVars, core, link, faults>>

-----------------------------------------------------------------------------
(* The hand-over: complete_drain and the next job.                         *)

DrainDue ==
    /\ op.drainReq # None /\ op.active # None /\ op.pending # None
    /\ op.ms >= Bundle[op.drainReq].cutoff
    /\ op.ms >= Bundle[op.drainReq].prevSubmissionEnd

\* The checks of complete_drain up to the durable record.
DrainReady(d, tr) ==
    /\ op.pending = op.drainReq
    /\ op.active = op.drainReq - 1
    /\ PendingForAssignment(op.active) = {}
    /\ CanPersistDrain(d, tr)

OpDrain ==
    LET d == BuildDrain(op.active, op.ms)
        tr == BuildTransition(op.active, op.pending)
    IN  /\ op.pc = "drain"
        /\ \/ /\ ~DrainDue
              /\ op' = [op EXCEPT !.pc = "top"]
              /\ UNCHANGED <<gwVars, spVars, link>>
           \/ /\ DrainDue /\ ~DrainReady(d, tr)
              /\ OpExits /\ UNCHANGED spVars
           \/ /\ DrainDue /\ DrainReady(d, tr)
              /\ PersistDrain(d, tr)
              /\ op' = [op EXCEPT !.pc = "sendDrain"]
              /\ UNCHANGED <<gwVars, link>>
        /\ UNCHANGED <<now, coVars, core, faults>>

OpSendDrain ==
    /\ op.pc = "sendDrain"
    /\ IF link.up
       THEN /\ op' = [op EXCEPT !.pc = "awaitDrain"]
            /\ Send(DrainSubmission(BuildDrain(op.active, op.ms),
                                    BuildTransition(op.active, op.pending)))
            /\ UNCHANGED gwVars
       ELSE OpExits
    /\ UNCHANGED <<now, coVars, spVars, core, faults>>

\* Any failure while waiting for the drain's disposition ends the daemon.
OpAwaitDrain ==
    LET m == Head(link.toOp)
    IN  /\ op.pc = "awaitDrain"
        /\ \/ Silent /\ Fault("timeout") /\ OpExits
           \/ AtEof /\ OpExits /\ UNCHANGED faults
           \/ /\ link.toOp # <<>>
              /\ IF m.type = "DrainDisposition"
                 THEN /\ op' = [op EXCEPT !.pc = "install", !.drainReq = None]
                      /\ Consume /\ UNCHANGED gwVars
                 ELSE IF Unsolicited(m)
                 THEN op' = Noted(op, m) /\ Consume /\ UNCHANGED gwVars
                 ELSE OpExits
              /\ UNCHANGED faults
        /\ UNCHANGED <<now, coVars, spVars, core>>

OpInstall ==
    /\ op.pc = "install"
    /\ \/ /\ InstallJob(op.pending)
          /\ op' = [op EXCEPT !.pc = "top", !.active = op.pending,
                              !.pending = None]
          /\ UNCHANGED link
       \/ ~CanInstall(op.pending) /\ OpExits
    /\ UNCHANGED <<now, coVars, spVars, core, faults>>

OpStep ==
    \/ OpReceive \/ OpOffer \/ OpOffersDone
    \/ OpCaptures \/ OpSubmit \/ OpSend \/ OpAwait \/ OpAck
    \/ OpDrain \/ OpSendDrain \/ OpAwaitDrain \/ OpInstall

-----------------------------------------------------------------------------
(* Sessions: they take the gateway lock between the loop's steps.  The     *)
(* loop's head checks the fallback flag and the connection epoch before a  *)
(* line is read; the model lets a line be read whatever they are, which    *)
(* only adds behaviours.  A line once read is not checked again.           *)

SessionRead(w) ==
    /\ op.pc # "down"
    /\ ReadLine(w)
    /\ UNCHANGED <<now, coVars, spVars, linkVars>>

SessionSubmit(l) ==
    /\ op.pc # "down" /\ ~OpHoldsLock
    /\ SessionLine(l)
    /\ UNCHANGED <<now, coVars, spVars, linkVars>>

\* The updater thread of a session expires jobs too.
SessionUpdate ==
    /\ op.pc # "down" /\ ~OpHoldsLock
    /\ CloseExpired(now)
    /\ UNCHANGED <<now, coVars, spVars, linkVars>>

-----------------------------------------------------------------------------
(* Core's server.                                                          *)

\* The stage-bundle command needs the store the server holds open.
CoreStage ==
    /\ ~core.up
    /\ \E k \in Assignments :
          StageFirst(k, 4) \/ StageReplacement(k, 2) \/ StageRefused(k)
    /\ UNCHANGED <<coCursor, coReceipts, coCredit, coSealed, coTxn>>
    /\ UNCHANGED <<now, gwVars, spVars, linkVars>>

CoreStart ==
    /\ ~core.up /\ coActive # None
    /\ core' = [up |-> TRUE, conn |-> "none"]
    /\ UNCHANGED <<now, gwVars, coVars, spVars, op, link, faults>>

\* Core's end is closed.  What it had sent may still reach the operator.
CloseByCore ==
    \E kept \in {link.toOp, <<>>} :
        link' = [up |-> FALSE, toOp |-> kept, toCore |-> <<>>]

CoreCrash ==
    /\ core.up
    /\ Fault("core")
    /\ core' = [up |-> FALSE, conn |-> "none"]
    /\ CloseByCore
    /\ CoCrash
    /\ UNCHANGED <<now, gwVars, spVars, op>>

\* Core gives up the connection: a transport error or the parent oracle.
LinkBreaks ==
    /\ core.conn # "none" /\ coTxn = NoTxn
    /\ Fault("link")
    /\ core' = [core EXCEPT !.conn = "none"]
    /\ CloseByCore
    /\ UNCHANGED <<now, gwVars, coVars, spVars, op>>

\* send_assignment_state
AssignmentState(active, pending) ==
    IF pending = None THEN <<Offer(active)>>
    ELSE <<Offer(active), Offer(pending), DrainRequired(pending)>>

\* A reply, or the end of the connection when the operator has left.
CoreReplies(ms) ==
    IF link.up
    THEN /\ link' = [link EXCEPT !.toCore = Tail(@), !.toOp = @ \o ms]
         /\ UNCHANGED core
    ELSE /\ link' = [link EXCEPT !.toCore = <<>>]
         /\ core' = [core EXCEPT !.conn = "none"]

CoreGreet ==
    /\ core.conn = "greet"
    /\ IF link.up
       THEN /\ Reply(AssignmentState(coActive, coPending))
            /\ core' = [core EXCEPT !.conn = "serving"]
       ELSE UNCHANGED link /\ core' = [core EXCEPT !.conn = "none"]
    /\ UNCHANGED <<now, gwVars, coVars, spVars, op, faults>>

CoreServes(type) ==
    /\ core.conn = "serving" /\ coTxn = NoTxn
    /\ link.toCore # <<>> /\ Head(link.toCore).type = type

CoreAdmits ==
    /\ CoreServes("CaptureSubmission")
    /\ LET e == Head(link.toCore).envelope
       IN  \/ \E oracle \in OracleAnswers :
                /\ AdmitNew(e, now, oracle)
                /\ \E r \in coReceipts' :
                      r.env = e /\ CoreReplies(<<CaptureDisposition(r)>>)
           \/ /\ AdmitRetry(e)
              /\ \E r \in ReceiptsFor(e) : CoreReplies(<<CaptureDisposition(r)>>)
           \/ \E oracle \in OracleAnswers :
                AdmitError(e, now, oracle) /\ CoreReplies(<<Error(e)>>)
    /\ UNCHANGED <<now, gwVars, spVars, op, faults>>

\* DrainSubmission up to the call of complete_pending_transition.
CoreDrains ==
    /\ CoreServes("DrainSubmission")
    /\ LET d == Head(link.toCore).drain
           tr == Head(link.toCore).transition
       IN  \/ /\ coPending = None
              /\ CloseByCore
              /\ core' = [core EXCEPT !.conn = "none"]
              /\ UNCHANGED coVars
           \/ /\ TransitionStart(d, tr, now)
              /\ UNCHANGED <<core, link>>
           \/ /\ coPending # None
              /\ d.assignment # coActive \/ tr.next # coPending
              /\ CoreReplies(<<Error(d)>>)
              /\ UNCHANGED coVars
    /\ UNCHANGED <<now, gwVars, spVars, op, faults>>

\* The writes of the hand-over; the last one is followed by the answer and
\* the new assignment state.
CoreHandsOver ==
    /\ \/ /\ TransitionStep
          /\ IF coTxn.step = "swap"
             THEN CoreReplies(<<DrainDisposition(coTxn.drain)>>
                                \o AssignmentState(coActive', coPending'))
             ELSE UNCHANGED <<core, link>>
       \/ TransitionError /\ CoreReplies(<<Error(coTxn.drain)>>)
    /\ UNCHANGED <<now, gwVars, spVars, op, faults>>

\* The operator closed the connection and everything it sent was served.
CoreEof ==
    /\ core.conn = "serving" /\ coTxn = NoTxn
    /\ ~link.up /\ link.toCore = <<>>
    /\ core' = [core EXCEPT !.conn = "none"]
    /\ UNCHANGED <<now, gwVars, coVars, spVars, op, link, faults>>

CoreStep == CoreGreet \/ CoreAdmits \/ CoreDrains \/ CoreHandsOver \/ CoreEof

-----------------------------------------------------------------------------

Clock == Tick /\ UNCHANGED <<gwVars, coVars, spVars, linkVars>>

LinkNext ==
    \/ OpStart \/ OpCrash \/ OpConnect \/ OpStep
    \/ \E w \in Works : SessionRead(w)
    \/ \E l \in gwLines : SessionSubmit(l)
    \/ SessionUpdate
    \/ CoreStage \/ CoreStart \/ CoreCrash \/ LinkBreaks \/ CoreStep
    \/ Clock

SystemInit == now = 0 /\ GwInit /\ CoInit /\ SpInit /\ LinkInit

LinkSafety == SystemInit /\ [][LinkNext]_allVars

\* Both daemons are restarted when they are down, their loops go on and time
\* passes.  Nothing is assumed of miners, of staging or of the absence of
\* faults.
LinkFairness ==
    /\ WF_allVars(OpStart)
    /\ WF_allVars(OpConnect)
    /\ WF_allVars(OpStep)
    /\ WF_allVars(CoreStart)
    /\ WF_allVars(CoreStep)
    /\ WF_allVars(Clock)

LinkSpec == LinkSafety /\ LinkFairness

-----------------------------------------------------------------------------
(* Properties.                                                             *)

OpPcs == {"down", "top", "offers", "captures", "submit", "send",
          "await", "ack", "drain", "sendDrain", "awaitDrain", "install"}

\* The loop of the daemon stands at one of its steps within its batch, and the
\* spool signs and stores well-formed records only.
LinkTypeOK ==
    /\ op.pc \in OpPcs
    /\ op.active \in Assignments \cup {None}
    /\ op.pending \in Assignments \cup {None}
    /\ op.drainReq \in Assignments \cup {None}
    /\ op.offers \in Seq(Assignments)
    /\ op.budget \in 0..DrainBatch /\ op.ms \in Time
    /\ core.conn \in {"none", "greet", "serving"}
    /\ spHead \in [Assignments -> [seq : 0..MaxSeq,
                                   final : Envelopes \cup {NoEnvelope}]]
    /\ spEnvelopes \subseteq Envelopes /\ spReceipts \subseteq Receipts

\* The three stores agree whatever was lost on the way: the operator records
\* only receipts Core wrote, Core has disposed of nothing the spool did not
\* sign, and its cursor never runs ahead of the spool's sequence head.
SpoolAgreesWithCore ==
    /\ spReceipts \subseteq coReceipts
    /\ \A r \in coReceipts :
          r.env \in spEnvelopes \/ \E q \in spReceipts : q.env = r.env
    /\ \A k \in Assignments : coCursor[k].next <= spHead[k].seq + 1

\* The capacity record counts the envelopes without a receipt, and each of
\* them belongs to a capture the gateway still holds: neither a crash between
\* two stores nor a repeated receipt leaks spool capacity.
CapacityIsExact ==
    /\ spCount = Cardinality(spEnvelopes)
    /\ spCount <= SpoolCapacity
    /\ {e.work : e \in spEnvelopes} \subseteq gwCaptures

\* The gateway issues a job only after Core made its assignment active, and
\* the spool then has the bundle that a restart will look up.
GatewayFollowsCore ==
    /\ gwNext <= coActive + 1
    /\ \A k \in Assignments : k < gwNext => k \in spBundles

HandoffDisposition ==
    [w \in Works |->
        IF \E r \in coReceipts : r.env.work = w
        THEN (CHOOSE r \in coReceipts : r.env.work = w).outcome
        ELSE "none"]

Handoff == INSTANCE CaptureHandoff
    WITH held <- gwCaptures, disposition <- HandoffDisposition,
         sealed <- {k \in Assignments : coState[k] = "DRAINED"}

\* The composition implements the hand-off: lost answers, repeated
\* submissions, stops of either side and broken links never dispose of a work
\* twice, after its assignment was sealed, or drop it before Core disposed of
\* it.
DisposedOnce == Handoff!Spec

\* drain_captures_durably: "Processing stops at the first downstream error so
\* ordering and retry behavior remain simple and deterministic."  The first
\* capture in the queue is one Core can take next: its signed envelope is at
\* Core's cursor or already has a receipt.
HeadIsAdmissible ==
    gwForwarded # <<>> =>
        \A e \in EnvelopeOf(Head(gwForwarded)) :
            \/ Classify(coCursor[e.assignment], e) = "New"
            \/ ReceiptsFor(e) # {}

\* The queue still has the order in which the spool signs: when an envelope
\* awaits its receipt it is the head's, and Core can take it.
QueueKeepsOrder ==
    /\ HeadIsAdmissible
    /\ spEnvelopes # {} /\ gwForwarded # <<>> =>
          EnvelopeOf(Head(gwForwarded)) # {}

\* Within the window of its assignment, every durable capture is eventually
\* disposed of by Core and released by the gateway, however often the link
\* breaks, an answer is lost or a daemon restarts, unless the queue falls out
\* of the order in which the spool has signed: submit_capture goes by the
\* queue's head, and Core by the sequence numbers.
CapturesDelivered ==
    \A w \in Works :
        w \in gwCaptures ~> (w \notin gwCaptures \/ ~QueueKeepsOrder)

\* The drain is "signed proof that no later capture can cross an assignment
\* boundary and that Core has a durable disposition through that boundary":
\* once Core has sealed an assignment, every capture of it has a receipt.
SealCoversCaptures ==
    \A w \in gwCaptures :
        coState[WorkJob[w]] = "DRAINED" =>
            \E r \in coReceipts : r.env.work = w

\* "Installs the exact next bundle-derived job": when Core has made a
\* replacement active that the gateway has not issued yet, the gateway can
\* install it, whether its predecessor is still current or has expired.
ReplacementInstallable ==
    (coActive # None /\ gwNext = coActive /\ coActive > 1) => CanInstall(coActive)

\* A staged replacement whose boundary has passed is eventually the gateway's
\* current job, though an answer may be lost on the way.
ReplacementCompletes ==
    \A k \in Assignments :
        coPending = k /\ gwCurrent = k - 1 /\ op.pending = k ~> gwNext > k

=============================================================================
