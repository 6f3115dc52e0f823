----------------------------- MODULE MCGateway ------------------------------
(* Three jobs and three works; a retirement pass takes two jobs.           *)
EXTENDS Gateway

CONSTANTS w1, w2, w3

MCWorks == {w1, w2, w3}
MCWorkJob == [w \in MCWorks |-> IF w = w3 THEN 2 ELSE 1]

MCBundle ==
    << [start |-> 0, assignmentEnd |-> 1, submissionEnd |-> 2, cutoff |-> 0,
        prevSubmissionEnd |-> 0, manifest |-> 1, validFrom |-> 0, validUntil |-> 9],
       [start |-> 1, assignmentEnd |-> 2, submissionEnd |-> 2, cutoff |-> 1,
        prevSubmissionEnd |-> 1, manifest |-> 1, validFrom |-> 0, validUntil |-> 9],
       [start |-> 2, assignmentEnd |-> 2, submissionEnd |-> 2, cutoff |-> 2,
        prevSubmissionEnd |-> 2, manifest |-> 1, validFrom |-> 0, validUntil |-> 9] >>

\* w1 and w2 belong to the same job.
MCSymmetry == Permutations({w1, w2})

=============================================================================
