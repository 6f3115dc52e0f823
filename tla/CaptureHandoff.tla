--------------------------- MODULE CaptureHandoff ---------------------------
(***************************************************************************)
(* What the hand-off between gateway and Core promises a miner, without    *)
(* queues, envelopes, sequence numbers or retries.  A captured work is     *)
(* disposed of once, only while its assignment is open, and the gateway    *)
(* drops it only after that.                                               *)
(***************************************************************************)
CONSTANTS Works, Assignments, WorkJob

VARIABLES
    held,         \* works the gateway holds durably
    disposition,  \* work -> "none" or Core's terminal outcome
    sealed        \* assignments Core has sealed

Outcomes == {"ACCEPTED", "REJECTED", "DUPLICATE"}

Init ==
    /\ held = {}
    /\ disposition = [w \in Works |-> "none"]
    /\ sealed = {}

Hold(w) ==
    /\ w \notin held
    /\ disposition[w] = "none"
    /\ held' = held \cup {w}
    /\ UNCHANGED <<disposition, sealed>>

Dispose(w, outcome) ==
    /\ w \in held
    /\ disposition[w] = "none"
    /\ WorkJob[w] \notin sealed
    /\ disposition' = [disposition EXCEPT ![w] = outcome]
    /\ UNCHANGED <<held, sealed>>

Release(w) ==
    /\ w \in held
    /\ disposition[w] # "none"
    /\ held' = held \ {w}
    /\ UNCHANGED <<disposition, sealed>>

Seal(k) ==
    /\ k \notin sealed
    /\ sealed' = sealed \cup {k}
    /\ UNCHANGED <<held, disposition>>

Next ==
    \/ \E w \in Works : Hold(w) \/ Release(w)
    \/ \E w \in Works, o \in Outcomes : Dispose(w, o)
    \/ \E k \in Assignments : Seal(k)

Spec == Init /\ [][Next]_<<held, disposition, sealed>>

=============================================================================
