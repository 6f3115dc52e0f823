# MeshMine: TLA+ specifications, model checking and proofs

This directory is kept beside the MeshMine sources. It models the path of a
miner's work from the local gateway to its terminal receipt in Core, and the
durable journal that path is built on. `PROJECT.json` records, for every
definition, the source lines it models.

## The system

MeshMine is a set of Rust crates and daemons.

| Part | Source | Modules | Status |
| --- | --- | --- | --- |
| Gateway: durable jobs and captures | `meshmine-gateway` | `Gateway`, `CaptureLedger` | partly |
| Hand-off records and sequence cursor | `meshmine-handoff` | `CaptureCursor`, `CoreAdmission` | modelled |
| Core's admission engine | `core-link/admission.rs` | `CoreAdmission` | modelled |
| Operator's spool | `core-link/spool.rs` | `OperatorSpool` | modelled |
| Link client, bundles, messages | `core-link/client.rs`, `bundle.rs`, `protocol.rs` | `Schedule`, `CoreLink`, `CaptureHandoff` | modelled |
| Link transport | `core-link/transport.rs` | `CoreLink` | partly |
| Core daemon | `meshmine-cored` | `CoreLink` | modelled |
| Operator daemon | `meshmine-corelink-operatord` | `CoreLink`, `Supervisor` | partly |
| Service supervisor | `service/supervisor.rs` | `Supervisor` | modelled |
| Protocol journal | `meshmine-storage` | `ProtocolJournal` | partly |
| Shares and receipts | `meshmine-share` | `CoreAdmission` (acceptance only) | partly |
| Parent oracle | `meshmine-parent-oracle` | an input of `CoreAdmission` | partly |
| Settlement, work fabric, fast path, body availability, network, masked computation, node bridge, committees, pool statistics, multi-operator daemon | the crates of those names | none yet | see the plan |
| Service records, simulator, stand-alone gateway daemon, lifecycle tables | | none | not modelled |
| Codec, cryptography, objects, header rules | | none | pure functions on bytes |

How the modelled parts interact: a miner's line reaches a *session* thread of
the operator daemon, which submits it to the *gateway* under a lock. An accepted
submission becomes a durable *capture*. The daemon's *service loop* takes the
first capture, asks the *spool* for a signed, numbered *envelope*, sends it over
the *Core link*, stores Core's signed *receipt* in the spool, and only then
acknowledges the capture in the gateway. *Core* admits envelopes through a
per-assignment *cursor*. A *replacement* bundle ends an assignment: Core requires
a drain, the operator signs a *drain* and a *transition*, Core seals the old
assignment and activates the next, and the gateway installs the next job. The
*supervisor* decides from health samples whether miners are let in. Each store
is written through conditional batches; the *protocol journal* makes their
records immutable.

## Modules

**Schedule** - the signed bundles' timing fields and the shared wall clock.
`WellTimed` is the clock-independent part of `CoreAssignmentBundleV1::validate`.
Identities and signatures are abstracted to the bundle number. The clock is
assumed not to go back.

**Gateway** - one variable per durable namespace (`gwJobs`, `gwCurrent`,
`gwNext`, `gwCaptures`, `gwTombstones`, `gwRetiring`) and `gwForwarded`, the
in-memory queue. Actions: `IssueJob`, `CancelJob`, `CloseExpired`,
`AcknowledgeCapture` (with its `swap_remove`), `ReadLine`/`SessionLine` (a session
reads its clock before it gets the lock), `Reopen` (with the sort in `open`), and
`InterruptedClose` (a stop between the writes of `close_expired`, also between the
jobs of one retirement pass, which takes at most `MaxRetirements` of them).
**CaptureLedger** is its abstract specification: a work goes from new to pending
to done, never back.

**CaptureCursor** - `classify`, `advance` and `apply_drain` as operators.
**CoreAdmission** - Core's store. `StageBundle` may stop after any of its writes,
and a bundle that `install_or_mark_pending` refuses stays recorded, because the
record is written first (`StageRefused`);
`AdmitNew`, `AdmitRetry` and `AdmitError` are `admit_capture`;
`complete_pending_transition` is `TransitionStart` followed by five
`TransitionStep`s, each checked against the store at that moment, with captures,
`TransitionError` and `CoCrash` in between. `cored` serves one connection at a
time and never interleaves the two itself; the engine's API allows it, and
`handoff/src/lib.rs` 1329-1331 claims that the race is safe. A transition offered
to Core may name another last sequence than the drain it comes with; Core finds out
in the fourth write, after the seal.

**OperatorSpool** - one action per conditional batch of `spool.rs`.

**CoreLink** - the composition of gateway, spool and Core with the two daemons.
`op.pc` is the place in the service loop; the gateway lock is held from `submit`
to `ack`. A connection is a pair of queues; closing one end keeps or loses what
was in flight. Faults (`operator`, `core`, `link`, `timeout`) are bounded by
`MaxFaults`. Heartbeats and the contents of acknowledgements are left out: no
state that is read depends on them; that *sending* an acknowledgement may fail is
kept. A session may read a line at any time, where the code first looks at the
fallback flag and the connection epoch: this only adds behaviours, so what holds of
the model holds of the code, and in the counterexamples below the line is read
before the flag is raised. **CaptureHandoff** is the abstract specification: a held work is disposed
of once, while its assignment is open, and released only afterwards.

**Supervisor** - `sample` and `transition`, and the loop around them in three
steps (`LoopHead`, `LoopSample`, `LoopApply`) between which the signal handler may
raise the shared flag. A hand-over is abstracted to where it stands relative to
its cutoff. The failing conditions sampled are two of the nine and their
combination, since `Decide` only tells failing from healthy.

**ProtocolJournal** - `persist_records_with_conditions_and_batch`: every `get` and
every conditional batch is one step, everything between interleaves. A request has
records, external conditions and supplemental puts and deletes, over journal keys and
other rows alike; `Acceptable` is the three argument checks that come before the
first read, the last of which keeps conditions and operations off the journal keys of
the request and operations off the whole journal namespace. `Batch` is the list of
operations the code hands to the store and `Applied` what the store makes of it.

`MC*` modules give the constants; `*Proofs` modules hold the theorems. Operators
introduced by a comment that begins with "Mutant:" are deliberately wrong
variants of the definition that follows them. Nothing uses them; each is there to
show that a property notices the mistake when it is put in that definition's
place.

## Runs

| Run | Configuration | What it checks |
| --- | --- | --- |
| gateway | 3 jobs, 3 works, room for 2 captures, retirement passes of 2 jobs, clock to 3 | `Recoverable`, `QueueMatchesRecords`, `CreditFollowsCutoff`, `CapturedAtMostOnce` (refinement of CaptureLedger) |
| core_admission | 2 bundles under 2 manifests, 3 works with one proof of work reached twice, sequences to 2, clock to 2 | `GapFreeReceipts`, `CreditOncePerWork`, `DrainIsBoundary`, `OneActiveAssignment`, `HandoverIsCertified`, `RecordsAreTerminal` |
| core_link | 2 bundles, one work each, 1 fault of any kind, spool of 1 | `SpoolAgreesWithCore`, `CapacityIsExact`, `GatewayFollowsCore`, `DisposedOnce` (refinement of CaptureHandoff) |
| core_link_retry | 1 bundle that expires before the clock stops, 2 works, 2 faults, spool of 1 | the same stores under repeated faults, and once the manifest is no longer valid |
| core_link_delivery | 1 bundle, 2 works, spool of 1, 2 faults of any kind | liveness: `CapturesDelivered` |
| supervisor | 2 samples each way, hold 2, clock to 4 | `FailClosed`, `Hysteresis`, `ShutdownIsFinal`; liveness: `ShutdownEnds`, `HealthRestoresMining` |
| protocol_journal | 2 writers, 2 keys, 9 overlapping requests, 5 of which are refused as arguments | `OutcomesAreTrue`, `AlwaysStabilizes`, `RowsHaveEvidence`, `JournalIsImmutable` |

Each also checks its module's type invariant where one is listed in its `.cfg`.
Bounds: two bundles are one hand-over, and a third repeats it; three jobs are the
fewest that a retirement pass of two does not finish; two works of one
assignment are the fewest that can be reordered or fill the spool; two faults
allow a fault during the recovery from another; two writers are the fewest that
race. The clock has an instant before, at and after each boundary that the run's
question is about. `core_link_retry` uses the
symmetry of the two works of its one assignment. Deadlock checking is off where a bounded clock or a finite
supply of works lets the system come to rest; `protocol_journal` keeps it on.

Between them the passing runs take every action. Six branches the models keep
because the code has them are never taken in these instances, nor is one outcome of
a branch that is: `install_job` finding the job already current, an unsolicited
message while the operator waits for its drain's disposition, a drain that reaches
Core with no pending assignment or for another pair of assignments, and, in the
supervisor, a sample after `Stopped` or after a shutdown request was withdrawn;
Core's answer to a failed hand-over never finds the operator gone.

### Runs that end in a counterexample

Each states what a document or comment says and shows a behaviour of the code
that differs.

| Run | Stated in | Behaviour |
| --- | --- | --- |
| core_link_order | gateway `lib.rs` 1582 | `swap_remove` moves the newest capture to the front; the one it overtakes is later refused by Core's time fence on every retry. No fault is needed. |
| core_link_seal | `specs/gateway-core-handoff.md` 71 | a session captures a line it had already read after the drain was signed; Core seals the assignment without it. |
| core_link_install | `specs/asic-profiles.md` 140 | the old job expires before `DrainRequired` is received; the replacement cannot be installed. |
| core_link_complete | `docs/core-link.md` 186 | a drain carries the time of the attempt; after one lost connection the spool refuses every later one and the daemon exits each time. |
| supervisor_mining | `docs/core-link.md` 187 | a hand-over that completes in the iteration that raised the flag leaves the flag raised while the mode is Mining. |

These are results about the models. They were read back against the source line
by line, but not reproduced by running the daemons.

### Fairness

`LinkFairness`: weak fairness of the operator's loop, its connecting, Core's
serving, and the restart of either daemon, and of the clock. The loops are
unconditional `loop`/`for` statements with bounded waits; that a daemon which
has ended is started again is an assumption about the deployment, which no document
of the repository states. Nothing is assumed of miners, of staging, or about faults beyond their bound.
`SupSpec`: weak fairness of the loop and the clock, strong fairness of the exit
test at the deadline, because the test is reached once in every iteration and is
disabled in between.

`CapturesDelivered` is about two captures whose manifest stays valid throughout and
which compete for a spool with room for one record. It excepts one situation,
`~QueueKeepsOrder`: the head of the gateway's queue is not the capture whose envelope
awaits its receipt, or Core cannot take the head's envelope. The run reaches it: the
daemon stops after an envelope was signed and before its receipt was stored, `open`
sorts the other capture to the front (gateway `lib.rs` 779), and `submit_capture` then
works on a capture that the full spool has no room for while the signed one waits
behind it; with a larger spool the second capture is signed with the next number and
Core refuses it on every retry because the number before it is never sent
(`docs/core-link.md` 172: "The operator retries stable work keys and Core returns an
existing terminal receipt for an exact retry."). Without the exception the property
fails there; with it, the instance has no other way for a capture to stay behind.

`HealthRestoresMining` assumes that from some time on every sample is healthy, no
hand-over is pending and nobody asks for a shutdown. Its last hypothesis keeps the
fallback hold inside the bounded clock. `FailClosed` allows one window that the code
has: a signal between a sample and the step that acts on it may see its flag lowered
by that step, until the next iteration raises it again.

Another difference met while modelling has no property: the supervisor drains from
the moment a drain is announced (`supervisor.rs` 168), where `docs/core-link.md` 178
says "At the cutoff".

## Proofs

TLAPS proves the following for every value of the constants that satisfies the
modules' `ASSUME`s, which TLC evaluates in the runs.

**CoreAdmissionProofs** - every property of the run `core_admission`. The
invariant `CoInv` is inductive: the type invariant; `LedgerInv`, which adds to
`GapFreeReceipts` and `CreditOncePerWork` that the cursor's last envelope and time
are those of the last receipt (without it a new envelope could not be shown to be
in time order); `DrainIsBoundary`; `HeadInv`, which ties heads, active and pending
bundle; `HandoverIsCertified`; and `TxnInv`, what a hand-over in progress may rely
on at each of its steps (without it the later steps could certify a drain that was
never recorded). That a transition agrees with its drain is not known when the
hand-over starts: it follows in the fourth write from the check against the sealed
cursor, which `DrainIsBoundary` ties to the drain record. One lemma per action shows that it preserves `CoInv`.

**ProtocolJournalProofs** - every property of the run `protocol_journal`, for any
number of writers, keys and requests. `JInv` says of a call in progress which
positions its readings have shown to be exact, and, through `Overtaken`, that a
refusal with matching external conditions was caused by a key another writer has
since filled. `BatchInstalls` and `BatchWritesRows` say what a committed batch does:
the records land on their own keys and, because of the argument checks, the
supplemental operations touch no journal key. Because journal keys never change once written, each repetition of
the loop finds at least one more exact record, which bounds the repetitions.

Only model-checked: the gateway, the composition, the supervisor, both
refinements, and all liveness. Liveness under fairness is out of this prover's
reach.

## Not modelled, and the plan

Not modelled within modelled parts: nonce-prefix allocation, miner authorisation
and the failover pool of the gateway; the link's handshake and framing (a partial
frame at a timeout ends the connection, which the model has as a broken link); the
dashboard and event journal.

The map covers a small part of the implementation so far. Next, in this order:

1. Storage: signing guard, paged recovery. Then the receipt chain of
   `meshmine-share`, and a liveness run for a Core stop between drain receipt and
   swap (`admission.rs` 337), whose repeated receipt carries another time.
2. Settlement and recovery; work fabric (leases, coordinator, planner); fast path.
3. Body availability, network inventory and limits, distributed masked
   computation, parent oracle and node bridge, committees, pool statistics, the
   multi-operator daemon.
4. Proofs: `Supervisor` (`FailClosed`, `Hysteresis`), `Gateway`
   (`Recoverable`, `QueueMatchesRecords`), `SpoolAgreesWithCore`, and the step
   simulation of both refinements.
