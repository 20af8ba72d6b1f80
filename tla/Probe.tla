-------------------------------- MODULE Probe --------------------------------
(***************************************************************************)
(* One availability probe of a host (probe.rs: PlatformStatusProbe         *)
(* ::is_online, fixed_ping, terminate_child).  Half of the host's budget   *)
(* is split over TCP connections to its ports, what is left goes to one    *)
(* ping process, which is killed and reaped when its time is up.           *)
(*                                                                         *)
(* Time is counted in units of the probe's own clock readings.             *)
(***************************************************************************)
EXTENDS Integers

CONSTANTS
    Configured,   \* probe_timeout_ms values of a configuration
    MinTimeout,   \* 100 ms
    MaxTimeout,   \* 5 s
    PortCounts,   \* 1 with a probe_port, else the number of the fixed ports
    MinPing,      \* 50 ms
    PollStep,     \* the sleep between two looks at the child, 20 ms
    SpawnTime     \* bound: what starting a process takes

ProbeAssumption ==
    /\ Configured \subseteq Nat /\ PortCounts \subseteq Nat \ {0}
    /\ MinTimeout \in Nat /\ MaxTimeout \in Nat /\ MinTimeout <= MaxTimeout
    /\ MinPing \in Nat \ {0} /\ PollStep \in Nat \ {0} /\ SpawnTime \in Nat

VARIABLES
    step,       \* connecting, waiting for the child, returned
    budget,   \* timeout
    ports,    \* connections still to try
    perProbe, \* per_probe
    elapsed,  \* time since the probe began
    deadline, \* the deadline of fixed_ping
    child,    \* the ping process: none, running, exited, or killed
    answer    \* is_online

probeVars == <<step, budget, ports, perProbe, elapsed, deadline, child, answer>>

\* The times of a probe stay in their ranges: the budget is the configured
\* time, brought into the allowed range.
ProbeTypeOK ==
    /\ step \in {"connecting", "waiting", "returned"}
    /\ budget \in MinTimeout..MaxTimeout
    /\ ports \in Nat
    /\ perProbe \in 0..(MaxTimeout \div 2)
    /\ elapsed \in Nat /\ deadline \in Nat
    /\ child \in {"none", "running", "replied", "silent", "killed"}
    /\ answer \in BOOLEAN

\* host.probe_timeout_ms.clamp(100, 5_000)
Clamped(t) == IF t < MinTimeout THEN MinTimeout ELSE IF t > MaxTimeout THEN MaxTimeout ELSE t

ProbeInit ==
    /\ step = "connecting"
    /\ \E t \in Configured : budget = Clamped(t)
    /\ ports \in PortCounts
    /\ perProbe = (budget \div 2) \div ports
    /\ elapsed = 0 /\ deadline = 0
    /\ child = "none" /\ answer = FALSE

Answer(v) == step' = "returned" /\ answer' = v

\* TcpStream::connect_timeout: accepted, refused, or timed out.
Connect ==
    /\ step = "connecting" /\ ports > 0
    /\ ports' = ports - 1
    /\ \E d \in 0..perProbe : elapsed' = elapsed + d
    /\ Answer(TRUE) \/ UNCHANGED <<step, answer>>
    /\ UNCHANGED <<budget, perProbe, deadline, child>>

\* Mutant: the ping gets the whole budget again.
Remaining_Again == budget

\* deadline.saturating_duration_since(now)
Remaining == IF elapsed < budget THEN budget - elapsed ELSE 0

\* No port answered: ping if enough time is left and ping can be started.  Its
\* deadline is counted from the moment the process runs.
Ping ==
    /\ step = "connecting" /\ ports = 0
    /\ \/ /\ Remaining >= MinPing
          /\ \E d \in 0..SpawnTime :
                /\ elapsed' = elapsed + d
                /\ deadline' = elapsed + d + Remaining
          /\ step' = "waiting"
          /\ child' = "running"
          /\ UNCHANGED answer
       \/ /\ Answer(FALSE)
          /\ UNCHANGED <<elapsed, deadline, child>>
    /\ UNCHANGED <<budget, ports, perProbe>>

\* The ping process ends by itself.
ChildExits ==
    /\ child = "running"
    /\ child' \in {"replied", "silent"}
    /\ UNCHANGED <<step, budget, ports, perProbe, elapsed, deadline, answer>>

\* terminate_child: kill, then wait.
AfterKill == "none"

\* try_wait: the child has ended and is reaped, or it still runs and there is
\* time, or it is terminated.
TryWait ==
    /\ step = "waiting"
    /\ \/ /\ child \in {"replied", "silent"}
          /\ child' = "none"
          /\ Answer(child = "replied")
          /\ UNCHANGED elapsed
       \/ /\ child = "running" /\ elapsed < deadline
          /\ elapsed' = elapsed + PollStep
          /\ UNCHANGED <<step, child, answer>>
       \/ /\ child = "running" /\ elapsed >= deadline   \* its time is up
          /\ child' = AfterKill
          /\ Answer(FALSE)
          /\ UNCHANGED elapsed
       \/ /\ child' = AfterKill                         \* try_wait failed
          /\ Answer(FALSE)
          /\ UNCHANGED elapsed
    /\ UNCHANGED <<budget, ports, perProbe, deadline>>

ProbeNext == Connect \/ Ping \/ ChildExits \/ TryWait
ProbeSpec == ProbeInit /\ [][ProbeNext]_probeVars

\* The probe's thread runs; the ping process need not do anything.
ProbeFairSpec == ProbeSpec /\ WF_probeVars(Connect) /\ WF_probeVars(Ping) /\ WF_probeVars(TryWait)

-----------------------------------------------------------------------------
(* Properties *)

\* TCP and ping share the host's budget: a probe takes no longer than the
\* budget, apart from starting the process and the last sleep (is_online's
\* comment: "TCP and ICMP share one total host budget").
BudgetKept == elapsed <= budget + SpawnTime + PollStep
SharedBudget == ProbeTypeOK /\ BudgetKept

\* The inductive strengthening: what each phase has used so far, and what the
\* connections still to try may use.
Connecting == ports * perProbe
InTime ==
    /\ step = "connecting" => elapsed + Connecting <= budget \div 2
    /\ step = "waiting" => deadline <= budget + SpawnTime /\ elapsed <= deadline + PollStep
    /\ step = "returned" => elapsed <= budget + SpawnTime + PollStep

ProbeInv == ProbeTypeOK /\ InTime

=============================================================================
