--------------------------- MODULE CaptureCursor ----------------------------
(***************************************************************************)
(* The per-assignment sequence fence of meshmine-handoff                   *)
(* (GatewayCaptureCursorV1): which envelope may be disposed of next, and   *)
(* when the assignment may be sealed.  An envelope's object id commits to  *)
(* all of its fields, so an envelope stands for its own id.                *)
(***************************************************************************)
EXTENDS Integers

CONSTANT NoWork      \* the work of no envelope

NoEnvelope == [assignment |-> 0, seq |-> 0, work |-> NoWork, ms |-> 0]

\* drained_through_sequence = None
NotDrained == -1

NewCursor == [next |-> 1, last |-> NoEnvelope, lastMs |-> 0,
              drained |-> NotDrained]

\* Mutant: a later envelope may overtake the next one.
ClassifyWithGaps(c, e) ==
    CASE e.seq >= c.next /\ c.drained # NotDrained -> "CaptureAfterDrain"
      [] e.seq >= c.next /\ c.drained = NotDrained
            /\ c.next > 1 /\ e.ms < c.lastMs -> "ObservationTime"
      [] e.seq >= c.next /\ c.drained = NotDrained
            /\ ~(c.next > 1 /\ e.ms < c.lastMs) -> "New"
      [] e.seq + 1 = c.next /\ e = c.last -> "ExactRetry"
      [] OTHER -> "Sequence"

\* classify: the decision, or the error it returns.
Classify(c, e) ==
    CASE e.seq = c.next /\ c.drained # NotDrained -> "CaptureAfterDrain"
      [] e.seq = c.next /\ c.drained = NotDrained
            /\ c.next > 1 /\ e.ms < c.lastMs -> "ObservationTime"
      [] e.seq = c.next /\ c.drained = NotDrained
            /\ ~(c.next > 1 /\ e.ms < c.lastMs) -> "New"
      [] e.seq + 1 = c.next /\ e = c.last -> "ExactRetry"
      [] OTHER -> "Sequence"

\* advance, for an envelope that classify lets through.
Advance(c, e) ==
    IF Classify(c, e) = "New"
    THEN [next |-> c.next + 1, last |-> e, lastMs |-> e.ms,
          drained |-> c.drained]
    ELSE c

\* Mutant: a drain below the cursor is let through.
DrainAppliesBelow(c, d) ==
    /\ d.last < c.next
    /\ d.last = 0 => d.final = NoEnvelope
    /\ c.drained \in {NotDrained, d.last}

\* apply_drain succeeds only at the exact end of what was disposed of.
DrainApplies(c, d) ==
    /\ d.last + 1 = c.next
    /\ d.last = 0 => d.final = NoEnvelope
    /\ d.last # 0 => d.final = c.last
    /\ c.drained \in {NotDrained, d.last}

\* Mutant: the cursor is sealed one sequence number too far.
ApplyDrainPast(c, d) == [c EXCEPT !.drained = d.last + 1]

ApplyDrain(c, d) == [c EXCEPT !.drained = d.last]

=============================================================================
