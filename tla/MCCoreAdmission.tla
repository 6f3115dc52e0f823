-------------------------- MODULE MCCoreAdmission ---------------------------
(* Two bundles under successive manifests and two proofs of work, one of   *)
(* them reached through both assignments (w1 and w3).                      *)
EXTENDS CoreAdmission, TLC

CONSTANTS w1, w2, w3

MCWorks == {w1, w2, w3}
MCWorkJob == [w \in MCWorks |-> IF w \in {w1, w2} THEN 1 ELSE 2]
MCShareKey == [w \in MCWorks |-> IF w \in {w1, w3} THEN 1 ELSE 2]

MCBundle ==
    << [start |-> 0, assignmentEnd |-> 1, submissionEnd |-> 1, cutoff |-> 0,
        prevSubmissionEnd |-> 0, manifest |-> 1, validFrom |-> 0, validUntil |-> 2],
       [start |-> 1, assignmentEnd |-> 2, submissionEnd |-> 2, cutoff |-> 1,
        prevSubmissionEnd |-> 1, manifest |-> 2, validFrom |-> 1, validUntil |-> 2] >>

=============================================================================
