--------------------------- MODULE CaptureLedger ----------------------------
(***************************************************************************)
(* What the gateway promises about a submission: it becomes a durable      *)
(* capture at most once, leaves that state only when the consumer has it,  *)
(* and after that, or after its job is over, never comes back.             *)
(***************************************************************************)
CONSTANT Works
VARIABLE status

Init == status = [w \in Works |-> "new"]

\* A set of works moves from one status to the next in one durable write.
Move(ws, from, to) ==
    /\ \A w \in ws : status[w] = from
    /\ status' = [w \in Works |-> IF w \in ws THEN to ELSE status[w]]

\* One submission is captured; meanwhile other works may expire uncaptured.
CaptureOne(w, expired) ==
    /\ status[w] = "new"
    /\ \A v \in expired : status[v] = "new"
    /\ w \notin expired
    /\ status' = [v \in Works |-> IF v = w THEN "pending"
                                  ELSE IF v \in expired THEN "done"
                                  ELSE status[v]]

Next ==
    \/ \E w \in Works, expired \in SUBSET Works : CaptureOne(w, expired)
    \/ \E w \in Works : Move({w}, "pending", "done")
    \/ \E expired \in SUBSET Works : Move(expired, "new", "done")

Spec == Init /\ [][Next]_status

=============================================================================
