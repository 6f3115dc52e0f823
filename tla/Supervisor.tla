----------------------------- MODULE Supervisor -----------------------------
(***************************************************************************)
(* The operator daemon's supervisor (meshmine-service/src/supervisor.rs)   *)
(* and the fallback flag it shares with the miner listener, driven by one  *)
(* iteration of the service loop at a time.                                *)
(*                                                                         *)
(* A health sample is kept as the conditions that critical_reason tests;   *)
(* the hand-over the loop may be in is abstracted to where it stands with  *)
(* respect to the signed cutoff.                                           *)
(***************************************************************************)
EXTENDS Integers, Sequences, SequencesExt

CONSTANTS
    UnhealthyLimit,   \* unhealthy_samples_before_fallback
    HealthyLimit,     \* healthy_samples_before_restore
    FallbackHold,     \* minimum_fallback_hold_ms
    ShutdownWait,     \* GRACEFUL_SHUTDOWN_TIMEOUT
    MaxClock          \* bound on the clock

VARIABLES
    supMode,          \* SupervisorSnapshot.mode
    supReason,        \* SupervisorSnapshot.reason
    supChanged,       \* changed_at_ms
    supHealthy,       \* consecutive_healthy, capped at HealthyLimit
    supUnhealthy,     \* consecutive_unhealthy, capped at UnhealthyLimit
    ctlFallback,      \* SharedRpcControl.fallback
    drain,            \* pending_drain: "none", before or after its "cutoff"
    shutdown,         \* the shutdown flag, raised by a signal
    deadline,         \* shutdown_deadline_ms, -1 when unset
    step,             \* where the loop stands
    reported,         \* the mode of a transition not yet acted on, or "none"
    clock             \* wall_ms

supVars == <<supMode, supReason, supChanged, supHealthy, supUnhealthy>>
loopVars == <<ctlFallback, drain, shutdown, deadline, step, reported>>
serviceVars == <<supVars, loopVars, clock>>

\* SupervisorPolicy::validate
ASSUME PolicyAssumption ==
    /\ UnhealthyLimit \in Nat \ {0}
    /\ HealthyLimit \in Nat \ {0}
    /\ FallbackHold \in Nat
    /\ ShutdownWait \in Nat
    /\ MaxClock \in Nat

Modes == {"Bootstrapping", "Mining", "Degraded", "Fallback", "Draining",
          "Stopped"}

NoDeadline == -1

-----------------------------------------------------------------------------
(* Health samples.                                                         *)

\* critical_reason tests the conditions in this order.
Conditions == <<"AuthorizationFailureLimit", "GatewayUnavailable",
                "ReceiptStoreUnavailable", "CredentialUnavailable",
                "CoreLinkUnavailable", "CaptureBacklog", "NoCurrentJob",
                "JobNotStarted", "JobExpired">>

CriticalReason(failing) ==
    LET found == SelectSeq(Conditions, LAMBDA c : c \in failing)
    IN  IF found = <<>> THEN "None" ELSE Head(found)

Reasons == Range(Conditions) \cup
           {"None", "AssignmentDrainPending", "OperatorShutdown"}

-----------------------------------------------------------------------------
(* The supervisor.                                                         *)

Min2(a, b) == IF a < b THEN a ELSE b

\* transition: nothing is reported when mode and reason are what they were.
Enter(mode, reason) ==
    LET same == supMode = mode /\ supReason = reason
    IN  /\ supMode' = mode
        /\ supReason' = reason
        /\ supChanged' = IF same THEN supChanged ELSE clock
        /\ reported' = IF same THEN "none" ELSE mode

\* The reason alone is refreshed.
Remain(reason) ==
    /\ supReason' = reason
    /\ reported' = "none"
    /\ UNCHANGED <<supMode, supChanged>>

\* Mutant: a healthy sample does not end a run of unhealthy ones.
CountWithoutReset(healthy) ==
    /\ supHealthy' = IF healthy THEN Min2(supHealthy + 1, HealthyLimit) ELSE 0
    /\ supUnhealthy' = IF healthy THEN supUnhealthy
                       ELSE Min2(supUnhealthy + 1, UnhealthyLimit)

\* Mutant: the count of healthy samples wraps at the limit.
CountWraps(healthy) ==
    /\ supHealthy' = IF healthy THEN (supHealthy + 1) % HealthyLimit ELSE 0
    /\ supUnhealthy' = IF healthy THEN 0
                       ELSE Min2(supUnhealthy + 1, UnhealthyLimit)

CountSample(healthy) ==
    /\ supHealthy' = IF healthy THEN Min2(supHealthy + 1, HealthyLimit) ELSE 0
    /\ supUnhealthy' = IF healthy THEN 0
                       ELSE Min2(supUnhealthy + 1, UnhealthyLimit)

\* The decision for a counted sample, by the mode it finds.
Decide(s) ==
    LET reason == CriticalReason(s.failing)
        healthy == reason = "None"
        failed == ~healthy /\ supUnhealthy' >= UnhealthyLimit
        restored == /\ healthy /\ supHealthy' >= HealthyLimit
                    /\ supMode = "Fallback" => clock - supChanged >= FallbackHold
    IN CASE supMode = "Bootstrapping" /\ healthy -> Enter("Mining", "None")
         [] supMode \in {"Mining", "Degraded"} /\ healthy /\ s.backlog ->
               Enter("Degraded", "CaptureBacklog")
         [] supMode = "Degraded" /\ healthy /\ ~s.backlog ->
               Enter("Mining", "None")
         [] supMode \in {"Fallback", "Draining"} /\ restored ->
               Enter("Mining", "None")
         [] supMode # "Fallback" /\ failed -> Enter("Fallback", reason)
         [] supMode = "Fallback" /\ healthy /\ ~restored -> Remain(supReason)
         [] OTHER -> Remain(reason)

\* Mutant: a shutdown is acted on once and then forgotten.
SampleForgetsShutdown(s) ==
    IF s.shutdown /\ supMode # "Draining"
    THEN Enter("Draining", "OperatorShutdown")
         /\ UNCHANGED <<supHealthy, supUnhealthy>>
    ELSE IF s.drain
    THEN Enter("Draining", "AssignmentDrainPending")
         /\ UNCHANGED <<supHealthy, supUnhealthy>>
    ELSE CountSample(CriticalReason(s.failing) = "None") /\ Decide(s)

\* sample
Sample(s) ==
    IF s.shutdown
    THEN Enter("Draining", "OperatorShutdown")
         /\ UNCHANGED <<supHealthy, supUnhealthy>>
    ELSE IF supMode = "Stopped" THEN Remain(supReason)
         /\ UNCHANGED <<supHealthy, supUnhealthy>>
    ELSE IF s.drain
    THEN Enter("Draining", "AssignmentDrainPending")
         /\ UNCHANGED <<supHealthy, supUnhealthy>>
    ELSE IF supMode = "Draining" /\ supReason = "OperatorShutdown"
    THEN Remain(supReason) /\ UNCHANGED <<supHealthy, supUnhealthy>>
    ELSE CountSample(CriticalReason(s.failing) = "None") /\ Decide(s)

-----------------------------------------------------------------------------
(* The service loop.                                                       *)

SupInit ==
    /\ supMode = "Bootstrapping"
    /\ supReason = "NoCurrentJob"
    /\ supChanged = 0
    /\ supHealthy = 0
    /\ supUnhealthy = 0
    /\ ctlFallback \in BOOLEAN     \* raised unless a bundle was recovered
    /\ drain = "none"
    /\ shutdown = FALSE
    /\ deadline = NoDeadline
    /\ step = "head"
    /\ reported = "none"
    /\ clock = 0

\* How the hand-over may stand when the iteration reaches it: unchanged, lost
\* with the connection, newly required, past its cutoff, or past the boundary
\* and then completed in this very iteration.
DrainMoves == {"none", "before", "cutoff", "completed"}

\* Mutant: a completed hand-over is not cleared.
DrainStays(move) ==
    /\ drain = "cutoff" => move # "before"
    /\ drain' = move

DrainMoved(move) ==
    /\ drain = "cutoff" => move # "before"
    /\ drain' = IF move = "completed" THEN "none" ELSE move

\* Mutant: a shutdown that arrives while draining gets no deadline.
LoopHeadNoDeadline(move) ==
    LET noticed == shutdown /\ deadline = NoDeadline /\ supMode # "Draining"
    IN  /\ step = "head" /\ supMode # "Stopped"
        /\ DrainMoved(move)
        /\ deadline' = IF noticed THEN Min2(clock + ShutdownWait, MaxClock)
                                  ELSE deadline
        /\ ctlFallback' = \/ ctlFallback
                          \/ noticed
                          \/ move \in {"cutoff", "completed"}
        /\ step' = "sample"
        /\ UNCHANGED <<supVars, shutdown, reported, clock>>

\* The first part of an iteration notices a shutdown and moves the hand-over;
\* both may raise the flag.  (The deadline is capped by the clock's bound.)
LoopHead(move) ==
    LET noticed == shutdown /\ deadline = NoDeadline
    IN  /\ step = "head" /\ supMode # "Stopped"
        /\ DrainMoved(move)
        /\ deadline' = IF noticed THEN Min2(clock + ShutdownWait, MaxClock)
                                  ELSE deadline
        /\ ctlFallback' = \/ ctlFallback
                          \/ noticed
                          \/ move \in {"cutoff", "completed"}
        /\ step' = "sample"
        /\ UNCHANGED <<supVars, shutdown, reported, clock>>

\* The second part samples; the shutdown flag is read again.
LoopSample(failing, backlog) ==
    /\ step = "sample"
    /\ Sample([failing |-> failing, backlog |-> backlog,
               drain |-> drain # "none", shutdown |-> shutdown])
    /\ step' = "apply"
    /\ UNCHANGED <<ctlFallback, drain, shutdown, deadline, clock>>

\* Mutant: only the fallback mode raises the flag.
LoopApplyFallbackOnly ==
    /\ step = "apply"
    /\ ctlFallback' = IF reported = "none" THEN ctlFallback
                      ELSE reported = "Fallback"
    /\ reported' = "none"
    /\ step' = "head"
    /\ UNCHANGED <<supVars, drain, shutdown, deadline, clock>>

\* The third part acts on a reported transition.
LoopApply ==
    /\ step = "apply"
    /\ ctlFallback' = IF reported = "none" THEN ctlFallback
                      ELSE reported \in {"Fallback", "Draining"}
    /\ reported' = "none"
    /\ step' = "head"
    /\ UNCHANGED <<supVars, drain, shutdown, deadline, clock>>

\* The loop ends when the captures are drained or at the deadline; stop
\* records it.
Stop(drained) ==
    /\ step = "head" /\ supMode # "Stopped"
    /\ deadline # NoDeadline
    /\ drained \/ clock >= deadline
    /\ Enter("Stopped", "OperatorShutdown")
    /\ UNCHANGED <<supHealthy, supUnhealthy, ctlFallback, drain, shutdown,
                   deadline, step, clock>>

\* An error ends the loop; serve then requests the shutdown and stops.
LoopFails ==
    /\ supMode # "Stopped"
    /\ shutdown' = TRUE
    /\ Enter("Stopped", "OperatorShutdown")
    /\ step' = "head"
    /\ UNCHANGED <<supHealthy, supUnhealthy, ctlFallback, drain, deadline,
                   clock>>

\* spawn_shutdown_watcher raises both flags at once.
Signal ==
    /\ ~shutdown
    /\ shutdown' = TRUE
    /\ ctlFallback' = TRUE
    /\ UNCHANGED <<supVars, drain, deadline, step, reported, clock>>

ClockTick ==
    /\ clock < MaxClock
    /\ clock' = clock + 1
    /\ UNCHANGED <<supVars, loopVars>>

\* Any one condition may fail; the order among several is CriticalReason's.
Failures == {{}} \cup {{c} : c \in {"CoreLinkUnavailable", "NoCurrentJob"}}
            \cup {{"CoreLinkUnavailable", "NoCurrentJob"}}

Loop ==
    \/ \E move \in DrainMoves : LoopHead(move)
    \/ \E failing \in Failures, backlog \in BOOLEAN : LoopSample(failing, backlog)
    \/ LoopApply

SupNext ==
    \/ Loop
    \/ \E drained \in BOOLEAN : Stop(drained)
    \/ LoopFails
    \/ Signal
    \/ ClockTick

SupSafety == SupInit /\ [][SupNext]_serviceVars

\* The loop goes on, its exit test comes round in every iteration, and time
\* passes; a pending capture may hold the exit until the deadline.
SupSpec ==
    /\ SupSafety
    /\ WF_serviceVars(Loop)
    /\ SF_serviceVars(Stop(FALSE))
    /\ WF_serviceVars(ClockTick)

-----------------------------------------------------------------------------
(* Properties.                                                             *)

\* The supervisor is in one of its modes with counters inside their limits, and
\* a hand-over of the loop is pending or gone.
SupTypeOK ==
    /\ supMode \in Modes
    /\ supReason \in Reasons
    /\ supChanged \in 0..clock
    /\ supHealthy \in 0..HealthyLimit
    /\ supUnhealthy \in 0..UnhealthyLimit
    /\ ctlFallback \in BOOLEAN
    /\ drain \in {"none", "before", "cutoff"}

\* Fail closed: between iterations the listener refuses miners while the
\* supervisor is in fallback or draining, and once the loop has noticed a
\* shutdown it does so without interruption.  A signal that arrives between a
\* sample and the step that acts on it may see its flag lowered by that step;
\* the next iteration notices the shutdown and raises the flag for good.
FailClosed ==
    /\ step = "head" /\ supMode \in {"Fallback", "Draining"} => ctlFallback
    /\ deadline # NoDeadline => ctlFallback

\* Hysteresis: the service never mines on a full run of unhealthy samples,
\* also when an assignment drain or a restart of the count came in between.
Hysteresis ==
    supMode \in {"Mining", "Degraded"} => supUnhealthy < UnhealthyLimit

\* A shutdown is final: nothing that is sampled afterwards brings the service
\* back to mining.
ShutdownIsFinal ==
    [][ (supReason = "OperatorShutdown" /\ shutdown) =>
            supMode' \in {"Draining", "Stopped"} ]_serviceVars

\* A requested shutdown ends the service, by its deadline at the latest.
ShutdownEnds == shutdown ~> supMode = "Stopped"

\* The healthy side of the hysteresis: when from some time on no hand-over is
\* pending and every sample is healthy, the supervisor mines again, out of
\* whatever mode the drains, holds and counts before have left it in.  (The
\* last conjunct keeps the fallback hold inside the bound on the clock.)
HealthRestoresMining ==
    <>[] /\ supUnhealthy = 0 /\ drain = "none" /\ ~shutdown
         /\ supMode # "Stopped"
         /\ supChanged + FallbackHold <= MaxClock
    => <>[](supMode \in {"Mining", "Degraded"})

\* "Rotates miner connections onto the new assignment": when the supervisor
\* says the service is mining, the listener lets miners in.
MiningAdmitsMiners ==
    step = "head" /\ supMode = "Mining" /\ drain = "none" /\ ~shutdown
        => ~ctlFallback

=============================================================================
