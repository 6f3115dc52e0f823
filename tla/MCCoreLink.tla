----------------------------- MODULE MCCoreLink -----------------------------
(* Works w1, w2, w4 belong to the first assignment and w3 to the second;   *)
(* each configuration picks the works and the schedule its question needs. *)
EXTENDS CoreLink, TLC

CONSTANTS w1, w2, w3, w4

MCWorkJob == [w \in Works |-> IF w = w3 THEN 2 ELSE 1]
MCShareKey == [w \in Works |-> w]

\* Works of one assignment differ in name only.
MCSymmetry == Permutations(Works \ {w3})

First(end, until) ==
    [start |-> 0, assignmentEnd |-> end, submissionEnd |-> end, cutoff |-> 0,
     prevSubmissionEnd |-> 0, manifest |-> 1, validFrom |-> 0,
     validUntil |-> until]

Second(cutoff, prevEnd, until) ==
    [start |-> cutoff, assignmentEnd |-> until, submissionEnd |-> until,
     cutoff |-> cutoff, prevSubmissionEnd |-> prevEnd, manifest |-> 2,
     validFrom |-> 0, validUntil |-> until]

\* The first assignment ends at its successor's boundary.
MCTightBundles == <<First(1, 2), Second(1, 1, 2)>>

\* The first assignment outlives the boundary, so it never expires.
MCLooseBundles == <<First(2, 2), Second(1, 1, 2)>>

\* One assignment that does not expire.
MCOneBundle == <<First(1, 1)>>

=============================================================================
