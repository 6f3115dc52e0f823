------------------------------ MODULE Gateway -------------------------------
(***************************************************************************)
(* meshmine-gateway: durable jobs and captures.                            *)
(*                                                                         *)
(* Every field of the Gateway struct except `forwarded' mirrors a namespace*)
(* of the store, written in the same batch, so the durable and the cached  *)
(* copy are one variable here.  `gwForwarded' is the in-memory order of    *)
(* the pending captures: it is lost in a crash and rebuilt, sorted, by     *)
(* open.                                                                   *)
(*                                                                         *)
(* Proof of work, nonce ranges and the wording of rejections are           *)
(* abstracted: a work is a submission that meets the capture target.       *)
(***************************************************************************)
EXTENDS Schedule, FiniteSets, Sequences, SequencesExt, FiniteSetsExt

CONSTANTS
    MaxCaptures,     \* MAX_RECOVERED_CAPTURES
    RetireBatch,     \* RETIRE_DELETE_BATCH
    MaxRetirements,  \* MAX_RETIREMENTS_PER_PASS
    MaxSessions      \* bound on sessions that hold a line at the same time

VARIABLES
    gwJobs,          \* assignment -> job state
    gwCurrent,       \* durable current-assignment head, or None
    gwNext,          \* NEXT_ASSIGNMENT sequence
    gwCaptures,      \* works with a durable capture record
    gwReceived,      \* work -> received_ms of its capture record
    gwEligible,      \* works whose capture record is credit eligible
    gwTombstones,    \* works with a compact tombstone
    gwRetiring,      \* assignments with a retiring mark
    gwForwarded,     \* in-memory order of the pending captures
    gwLines          \* RPC lines read by a session that awaits the lock

gwDurable == <<gwJobs, gwCurrent, gwNext, gwCaptures, gwReceived, gwEligible,
               gwTombstones, gwRetiring>>
gwVars == <<gwDurable, gwForwarded, gwLines>>

ASSUME GatewayBoundsAssumption ==
    /\ MaxCaptures \in Nat \ {0}
    /\ RetireBatch \in Nat \ {0}
    /\ MaxRetirements \in Nat \ {0}
    /\ MaxSessions \in Nat

-----------------------------------------------------------------------------
(* Job states.                                                             *)

Absent  == [st |-> "Absent",  cutoff |-> 0, end |-> 0]
Active  == [st |-> "Active",  cutoff |-> 0, end |-> 0]
Closed  == [st |-> "Closed",  cutoff |-> 0, end |-> 0]
Retired == [st |-> "Retired", cutoff |-> 0, end |-> 0]
Grace(c, e) == [st |-> "Grace", cutoff |-> c, end |-> e]

JobStates == [st : {"Absent", "Active", "Grace", "Closed", "Retired"},
              cutoff : Nat, end : Nat]

\* Jobs with an assignment record (self.jobs).
Retained == {k \in Assignments : gwJobs[k].st \in {"Active", "Grace", "Closed"}}

WorksOf(k) == {w \in Works : WorkJob[w] = k}
PendingOf(k) == gwCaptures \cap WorksOf(k)
TombstonesOf(k) == gwTombstones \cap WorksOf(k)

\* seen_work: rebuilt by open from the tombstones and the captures.
SeenWork == gwCaptures \cup gwTombstones

GwInit ==
    /\ gwJobs = [k \in Assignments |-> Absent]
    /\ gwCurrent = None
    /\ gwNext = 1
    /\ gwCaptures = {}
    /\ gwReceived = [w \in Works |-> 0]
    /\ gwEligible = {}
    /\ gwTombstones = {}
    /\ gwRetiring = {}
    /\ gwForwarded = <<>>
    /\ gwLines = {}

-----------------------------------------------------------------------------
(* issue_job: a transition names the current job, or is absent when there  *)
(* is none.                                                                *)

NoTransition == [job |-> None, cutoff |-> 0, end |-> 0]

\* The timing checks on the job being replaced.
TransitionAllowed(k, t) ==
    IF gwCurrent = None
    THEN t = NoTransition
    ELSE /\ t.job = gwCurrent
         /\ gwJobs[gwCurrent].st = "Active"
         /\ Bundle[gwCurrent].start <= t.cutoff
         /\ t.cutoff <= Bundle[k].start
         /\ t.cutoff <= t.end
         /\ t.end <= Bundle[gwCurrent].submissionEnd

\* An exact repeat of the current job succeeds and changes nothing.
IsCurrentJob(k) == gwJobs[k].st = "Active" /\ gwCurrent = k

CanIssue(k, t) ==
    /\ gwJobs[k] = Absent
    /\ k = gwNext
    /\ TransitionAllowed(k, t)

IssueJob(k, t) ==
    /\ CanIssue(k, t)
    /\ gwJobs' = [j \in Assignments |->
                    IF j = k THEN Active
                    ELSE IF j = gwCurrent THEN Grace(t.cutoff, t.end)
                    ELSE gwJobs[j]]
    /\ gwCurrent' = k
    /\ gwNext' = gwNext + 1
    /\ UNCHANGED <<gwCaptures, gwReceived, gwEligible, gwTombstones,
                   gwRetiring, gwForwarded, gwLines>>

\* Mutant: a job in grace may be cancelled again, with another window.
CancelJobAgain(k, c, e) ==
    /\ gwJobs[k].st \in {"Active", "Grace"}
    /\ Bundle[k].start <= c /\ c <= e /\ e <= Bundle[k].submissionEnd
    /\ gwJobs' = [gwJobs EXCEPT ![k] = Grace(c, e)]
    /\ gwCurrent' = IF gwCurrent = k THEN None ELSE gwCurrent
    /\ UNCHANGED <<gwNext, gwCaptures, gwReceived, gwEligible, gwTombstones,
                   gwRetiring, gwForwarded, gwLines>>

\* cancel_job: the current job enters grace and nothing is current.  A repeat
\* with the same window succeeds and changes nothing, any other is refused.
CancelJob(k, c, e) ==
    /\ gwJobs[k].st = "Active" /\ gwCurrent = k
    /\ Bundle[k].start <= c /\ c <= e /\ e <= Bundle[k].submissionEnd
    /\ gwJobs' = [gwJobs EXCEPT ![k] = Grace(c, e)]
    /\ gwCurrent' = None
    /\ UNCHANGED <<gwNext, gwCaptures, gwReceived, gwEligible, gwTombstones,
                   gwRetiring, gwForwarded, gwLines>>

-----------------------------------------------------------------------------
(* close_expired: close what is past its end, then advance retirement.     *)

ExpiredAt(k, t) ==
    \/ gwJobs[k].st = "Active" /\ t > Bundle[k].submissionEnd
    \/ gwJobs[k].st = "Grace" /\ t > gwJobs[k].end

Expired(t) == {k \in Assignments : ExpiredAt(k, t)}

CloseJobs(closing) ==
    [k \in Assignments |-> IF k \in closing THEN Closed ELSE gwJobs[k]]

\* Mutant: pending captures do not hold back retirement.
RetirableAnyway(jobs) == {k \in Assignments : jobs[k].st = "Closed"}

\* retire_closed_jobs considers closed jobs without a pending capture.
Retirable(jobs) ==
    {k \in Assignments : jobs[k].st = "Closed" /\ PendingOf(k) = {}}

\* One pass takes the first of them by assignment sequence.
Candidates(jobs) ==
    {k \in Retirable(jobs) :
        Cardinality({j \in Retirable(jobs) : j < k}) < MaxRetirements}

\* advance_retirement deletes at most one batch of tombstones; only a pass
\* that finds none left replaces the assignment by a retired-job record.
DoneRetiring(advancing) == {k \in advancing : TombstonesOf(k) = {}}

TombstoneBatches(k) ==
    {d \in SUBSET TombstonesOf(k) :
        Cardinality(d) = Min({RetireBatch, Cardinality(TombstonesOf(k))})}

\* One durable write per closed job, per retiring mark and per advanced
\* retirement.  A complete pass performs them all, an interrupted one some.
ClosePass(closing, marking, advancing) ==
    LET jobs == CloseJobs(closing)
        done == DoneRetiring(advancing)
    IN  /\ gwJobs' = [k \in Assignments |->
                        IF k \in done THEN Retired ELSE jobs[k]]
        /\ gwCurrent' = IF gwCurrent \in closing THEN None ELSE gwCurrent
        /\ gwRetiring' = (gwRetiring \cup marking) \ done
        /\ \E deleted \in SUBSET gwTombstones :
              /\ \A k \in advancing :
                    deleted \cap WorksOf(k) \in TombstoneBatches(k)
              /\ \A w \in deleted : WorkJob[w] \in advancing
              /\ gwTombstones' = gwTombstones \ deleted
        /\ UNCHANGED gwNext

\* What a whole call of close_expired writes.
ClosePassAt(t) ==
    LET all == Candidates(CloseJobs(Expired(t)))
    IN  ClosePass(Expired(t), all, all)

CloseExpired(t) ==
    /\ ClosePassAt(t)
    /\ UNCHANGED <<gwCaptures, gwReceived, gwEligible, gwForwarded, gwLines>>

-----------------------------------------------------------------------------
(* Submissions.                                                            *)

\* A session reads its clock before it takes the gateway lock.
ReadLine(w) ==
    /\ Cardinality(gwLines) < MaxSessions
    /\ gwLines' = gwLines \cup {[work |-> w, ms |-> now]}
    /\ UNCHANGED <<gwDurable, gwForwarded>>

\* Mutant: seen_work forgets what was acknowledged.
AcceptsForgotten(w, ms, jobs, tombstones) ==
    LET k == WorkJob[w]
    IN  /\ Bundle[k].start <= ms
        /\ \/ jobs[k].st = "Active" /\ ms <= Bundle[k].submissionEnd
           \/ jobs[k].st = "Grace" /\ ms <= jobs[k].end
        /\ w \notin gwCaptures
        /\ Cardinality(gwCaptures) < MaxCaptures

\* The checks of submit, given the jobs and tombstones it finds.
Accepts(w, ms, jobs, tombstones) ==
    LET k == WorkJob[w]
        seen == gwCaptures \cup tombstones
    IN  /\ Bundle[k].start <= ms
        /\ \/ jobs[k].st = "Active" /\ ms <= Bundle[k].submissionEnd
           \/ jobs[k].st = "Grace" /\ ms <= jobs[k].end
        /\ w \notin seen
        /\ Cardinality(seen) < MaxCaptures

CreditEligible(w, ms, jobs) ==
    \/ jobs[WorkJob[w]].st = "Active"
    \/ ms <= jobs[WorkJob[w]].cutoff

\* submit: the capture record is durable before it joins the queue.
Capture(w, ms, jobs) ==
    /\ gwCaptures' = gwCaptures \cup {w}
    /\ gwReceived' = [gwReceived EXCEPT ![w] = ms]
    /\ gwEligible' = IF CreditEligible(w, ms, jobs) THEN gwEligible \cup {w}
                                                    ELSE gwEligible
    /\ gwForwarded' = Append(gwForwarded, w)

\* A session with the lock: close_expired at the line's time, then submit.
\* A rejected submission leaves every record as it was.
SessionLine(l) ==
    /\ l \in gwLines
    /\ gwLines' = gwLines \ {l}
    /\ ClosePassAt(l.ms)
    /\ \/ /\ Accepts(l.work, l.ms, gwJobs', gwTombstones')
          /\ Capture(l.work, l.ms, gwJobs')
       \/ /\ ~Accepts(l.work, l.ms, gwJobs', gwTombstones')
          /\ UNCHANGED <<gwCaptures, gwReceived, gwEligible, gwForwarded>>

-----------------------------------------------------------------------------
(* acknowledge_capture, called with the consumer's durable identifier.     *)

\* Mutant: the last element is dropped instead of the acknowledged one.
PopLast(s, i) == [n \in 1..(Len(s) - 1) |-> s[n]]

\* Vec::swap_remove: the last element takes the removed one's place.
SwapRemove(s, i) ==
    [n \in 1..(Len(s) - 1) |-> IF n = i THEN s[Len(s)] ELSE s[n]]

\* Mutant: the eligibility outlives the capture record.
AcknowledgeKeepsEligible(i) ==
    /\ i \in DOMAIN gwForwarded
    /\ gwTombstones' = gwTombstones \cup {gwForwarded[i]}
    /\ gwCaptures' = gwCaptures \ {gwForwarded[i]}
    /\ gwReceived' = [gwReceived EXCEPT ![gwForwarded[i]] = 0]
    /\ gwForwarded' = SwapRemove(gwForwarded, i)
    /\ UNCHANGED <<gwJobs, gwCurrent, gwNext, gwRetiring, gwLines, gwEligible>>

AcknowledgeCapture(i) ==
    /\ i \in DOMAIN gwForwarded
    /\ gwTombstones' = gwTombstones \cup {gwForwarded[i]}
    /\ gwCaptures' = gwCaptures \ {gwForwarded[i]}
    /\ gwReceived' = [gwReceived EXCEPT ![gwForwarded[i]] = 0]
    /\ gwEligible' = gwEligible \ {gwForwarded[i]}
    /\ gwForwarded' = SwapRemove(gwForwarded, i)
    /\ UNCHANGED <<gwJobs, gwCurrent, gwNext, gwRetiring, gwLines>>

-----------------------------------------------------------------------------
(* Crash and open.                                                         *)

\* sort_by_key (assignment_sequence, received_ms, raw_share_hash); the hash
\* order among equals is arbitrary.
Before(v, w) ==
    \/ WorkJob[v] < WorkJob[w]
    \/ WorkJob[v] = WorkJob[w] /\ gwReceived[v] <= gwReceived[w]

RecoveredOrders ==
    {s \in SetToSeqs(gwCaptures) :
        \A i, j \in DOMAIN s : i < j => Before(s[i], s[j])}

\* Open after a stop: sessions and their lines are gone.
Reopen ==
    /\ gwForwarded' \in RecoveredOrders
    /\ gwLines' = {}
    /\ UNCHANGED gwDurable

\* A stop inside close_expired.  Jobs are closed one by one in no particular
\* order; retirement starts after the last, goes by assignment sequence, and
\* marks and advances one job before it turns to the next.
InterruptedClose(t) ==
    /\ \/ \E closing \in SUBSET Expired(t) : ClosePass(closing, {}, {})
       \/ \E k \in Candidates(CloseJobs(Expired(t))) :
            LET advanced == {j \in Candidates(CloseJobs(Expired(t))) : j < k}
            IN  \E marked \in {advanced, advanced \cup {k}} :
                   ClosePass(Expired(t), marked, advanced)
    /\ gwForwarded' \in RecoveredOrders
    /\ gwLines' = {}
    /\ UNCHANGED <<gwCaptures, gwReceived, gwEligible>>

-----------------------------------------------------------------------------
(* The gateway on its own: any job schedule, any consumer.                 *)

Transitions ==
    {NoTransition} \cup
    {[job |-> gwCurrent, cutoff |-> c, end |-> e] : c \in Time, e \in Time}

GwNext ==
    \/ \E k \in Assignments, t \in Transitions : IssueJob(k, t) /\ UNCHANGED now
    \/ \E k \in Assignments, c, e \in Time : CancelJob(k, c, e) /\ UNCHANGED now
    \/ CloseExpired(now) /\ UNCHANGED now
    \/ \E w \in Works : ReadLine(w) /\ UNCHANGED now
    \/ \E l \in gwLines : SessionLine(l) /\ UNCHANGED now
    \/ \E i \in DOMAIN gwForwarded : AcknowledgeCapture(i) /\ UNCHANGED now
    \/ Reopen /\ UNCHANGED now
    \/ InterruptedClose(now) /\ UNCHANGED now
    \/ Tick /\ UNCHANGED gwVars

GwSystemInit == now = 0 /\ GwInit

GwSpec == GwSystemInit /\ [][GwNext]_<<now, gwVars>>

-----------------------------------------------------------------------------
(* Properties.                                                             *)

\* The records have their shapes, and only a pending capture of the gateway is
\* marked credit eligible.
GwTypeOK ==
    /\ gwJobs \in [Assignments -> JobStates]
    /\ gwCurrent \in Assignments \cup {None}
    /\ gwNext \in 1..(NumBundles + 1)
    /\ gwCaptures \subseteq Works
    /\ gwReceived \in [Works -> Nat]
    /\ gwEligible \subseteq gwCaptures
    /\ gwTombstones \subseteq Works
    /\ gwRetiring \subseteq Assignments
    /\ gwForwarded \in Seq(Works)
    /\ gwLines \subseteq [work : Works, ms : Nat]

\* open_with_target_policy accepts the store whatever was interrupted: at most
\* one job is active and it is the head, a grace window lies inside its job's
\* window, every retiring mark names a closed job without pending captures, and
\* every capture or tombstone still has its assignment, with a receive time
\* inside the job's window.
Recoverable ==
    /\ \A k \in Assignments : gwJobs[k].st = "Active" <=> gwCurrent = k
    /\ \A k \in Assignments : gwJobs[k].st = "Grace" =>
          /\ Bundle[k].start <= gwJobs[k].cutoff
          /\ gwJobs[k].cutoff <= gwJobs[k].end
          /\ gwJobs[k].end <= Bundle[k].submissionEnd
    /\ \A k \in gwRetiring : gwJobs[k].st = "Closed" /\ PendingOf(k) = {}
    /\ \A w \in SeenWork : WorkJob[w] \in Retained
    /\ gwCaptures \cap gwTombstones = {}
    /\ Cardinality(SeenWork) <= MaxCaptures
    /\ \A w \in gwCaptures :
          /\ Bundle[WorkJob[w]].start <= gwReceived[w]
          /\ gwReceived[w] <= Bundle[WorkJob[w]].submissionEnd

\* The queue holds each pending capture once and nothing else, so the capture
\* indexes stay consistent through swap_remove.
QueueMatchesRecords ==
    /\ Range(gwForwarded) = gwCaptures
    /\ Len(gwForwarded) = Cardinality(gwCaptures)

\* A capture is denied credit for one reason only, and for as long as the
\* records can tell it is still there: its job was replaced or cancelled, and
\* the line was read after the cutoff the job was given then and not after its
\* end.  The flag is decided once, under the lock, with the session's older
\* clock, while issue, cancel and expiry go on around it; no later step may
\* give the job another window or make it current again.
CreditFollowsCutoff ==
    \A w \in gwCaptures \ gwEligible :
        LET job == gwJobs[WorkJob[w]]
        IN  /\ job.st \in {"Grace", "Closed"}
            /\ job.st = "Grace" =>
                  job.cutoff < gwReceived[w] /\ gwReceived[w] <= job.end

\* What the records say has become of a work.  Once a job is closed its works
\* can no longer be captured, so deleting their tombstones loses nothing.
GwStatus ==
    [w \in Works |->
        IF w \in gwCaptures THEN "pending"
        ELSE IF \/ w \in gwTombstones
                \/ gwJobs[WorkJob[w]].st \in {"Closed", "Retired"}
        THEN "done"
        ELSE "new"]

Ledger == INSTANCE CaptureLedger WITH status <- GwStatus

\* The gateway implements the ledger: through crashes, duplicate submissions,
\* acknowledgement and retirement a work is captured at most once and leaves
\* the pending state only by acknowledge_capture.
CapturedAtMostOnce == Ledger!Spec

=============================================================================
