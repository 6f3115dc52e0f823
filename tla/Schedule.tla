------------------------------ MODULE Schedule ------------------------------
(***************************************************************************)
(* The signed schedule that Core, the operator's spool and the gateway     *)
(* share, and the wall clock they all read.                                *)
(*                                                                         *)
(* A bundle (CoreAssignmentBundleV1) authorises one gateway assignment.    *)
(* Bundles are numbered by their assignment sequence, which `validate'     *)
(* forces to equal the bundle sequence; the identities, signatures and     *)
(* bodies inside a bundle are abstracted to that number, and its timing    *)
(* fields are kept.                                                        *)
(*                                                                         *)
(* A work is the identity capture_work_key computes from job, extra nonce, *)
(* time, nonce and hash, so it belongs to one assignment.                  *)
(***************************************************************************)
EXTENDS Integers

CONSTANTS
    NumBundles,   \* how many bundles the operator ever signs
    Bundle,       \* assignment sequence -> timing fields of the bundle
    Works,        \* proofs of work that meet their assignment's target
    WorkJob,      \* work -> the assignment it was mined for
    MaxTime       \* bound on the clock

VARIABLE
    now           \* wall_ms / process_wall_ms, shared by all processes

Assignments == 1..NumBundles

\* "No assignment": an absent head, active or pending record.
None == 0

Time == 0..MaxTime

\* The fields of session, manifest and replacement that carry a time, and the
\* sequence number of the context manifest the bundle was signed under.
BundleFields ==
    [ start             : Nat,   \* session.assignment_start_ms
      assignmentEnd     : Nat,   \* session.assignment_end_ms
      submissionEnd     : Nat,   \* session.submission_end_ms
      cutoff            : Nat,   \* replacement.credit_cutoff_ms
      prevSubmissionEnd : Nat,   \* replacement.previous_submission_end_ms
      manifest          : Nat \ {0},
      validFrom         : Nat,
      validUntil        : Nat ]

\* The timing part of CoreAssignmentBundleV1::validate that does not depend on
\* the clock: the session's window is ordered, and a replacement's cutoff lies
\* before its own start and before the end it sets for the predecessor.
WellTimed(k) ==
    /\ Bundle[k].start <= Bundle[k].assignmentEnd
    /\ Bundle[k].assignmentEnd <= Bundle[k].submissionEnd
    /\ k > 1 => /\ Bundle[k].cutoff <= Bundle[k].start
                /\ Bundle[k].cutoff <= Bundle[k].prevSubmissionEnd

ASSUME NumBundlesAssumption == NumBundles \in Nat \ {0}
ASSUME MaxTimeAssumption == MaxTime \in Nat
ASSUME BundleAssumption == Bundle \in [Assignments -> BundleFields]
ASSUME WorkJobAssumption == WorkJob \in [Works -> Assignments]
ASSUME WellTimedAssumption == \A k \in Assignments : WellTimed(k)

\* validate_context_manifest: the manifest window contains the instant.
ManifestValidAt(k, t) ==
    /\ Bundle[k].validFrom <= t
    /\ t <= Bundle[k].validUntil

\* The clock advances on its own; it never goes back.
Tick ==
    /\ now < MaxTime
    /\ now' = now + 1

=============================================================================
