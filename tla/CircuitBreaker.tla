---------------------------- MODULE CircuitBreaker ----------------------------
(***************************************************************************)
(* The per-origin circuit breaker (proxy/src/origin/CircuitBreaker.cpp)    *)
(* driven the way RequestHandler::fetchGuarded drives it: a caller asks    *)
(* allowRequest(), and if it is admitted it talks to the origin without    *)
(* any lock and later reports recordSuccess() or recordFailure().  Every   *)
(* method holds mutex_, so each is one atomic step; what interleaves is    *)
(* everything between a caller's admission and its report.                 *)
(*                                                                         *)
(* Clock::now() - openedAt_ is the variable sinceOpened, which advances by *)
(* Tick and stops at OpenMs: allowRequest() only compares it with openMs_. *)
(***************************************************************************)
EXTENDS Integers, FiniteSets

CONSTANTS
    Callers,            \* threads that may be inside fetchGuarded
    FailureThreshold,   \* failureThreshold_
    OpenMs,             \* openMs_, in ticks
    HalfOpenMaxProbes,  \* halfOpenMaxProbes_
    CountCap            \* where the model stops counting consecutiveFailures_

\* The three settings come from envInt(), which accepts any int, zero and
\* negative values included, so nothing is assumed of their sign.  The cap is
\* above everything consecutiveFailures_ is compared with.
ASSUME ConstantsAssumption ==
    /\ IsFiniteSet(Callers)
    /\ FailureThreshold \in Int
    /\ OpenMs \in Int
    /\ HalfOpenMaxProbes \in Int
    /\ CountCap \in Nat \ {0}
    /\ CountCap >= FailureThreshold

VARIABLES
    state,                \* state_
    consecutiveFailures,  \* consecutiveFailures_
    halfOpenProbes,       \* halfOpenProbes_
    sinceOpened,          \* Clock::now() - openedAt_, up to OpenMs
    fetching,             \* callers admitted and not yet reported
    probes,               \* history: admitted in the current half-open period
    openFor               \* history: time since state_ last became Open

cbVars == <<state, consecutiveFailures, halfOpenProbes, sinceOpened,
            fetching, probes, openFor>>

States == {"Closed", "Open", "HalfOpen"}

AtLeastOne(n) == IF n < 1 THEN 1 ELSE n

CBInit ==
    /\ state = "Closed"
    /\ consecutiveFailures = 0
    /\ halfOpenProbes = 0
    /\ sinceOpened = 0
    /\ fetching = {}
    /\ probes = {}
    /\ openFor = 0

-----------------------------------------------------------------------------
(* allowRequest(), one action per outcome.                                 *)

AdmitClosed(c) ==
    /\ c \notin fetching
    /\ state = "Closed"
    /\ fetching' = fetching \cup {c}
    /\ UNCHANGED <<state, consecutiveFailures, halfOpenProbes, sinceOpened,
                   probes, openFor>>

\* The first caller after the open window is the first probe.
AdmitFirstProbe(c) ==
    /\ c \notin fetching
    /\ state = "Open"
    /\ sinceOpened >= OpenMs
    /\ state' = "HalfOpen"
    /\ halfOpenProbes' = 1
    /\ fetching' = fetching \cup {c}
    /\ probes' = {c}
    /\ UNCHANGED <<consecutiveFailures, sinceOpened, openFor>>

\* Mutant: the limit is compared with <=.
OneProbeTooMany(c) ==
    /\ c \notin fetching
    /\ state = "HalfOpen"
    /\ halfOpenProbes <= HalfOpenMaxProbes
    /\ halfOpenProbes' = halfOpenProbes + 1
    /\ fetching' = fetching \cup {c}
    /\ probes' = probes \cup {c}
    /\ UNCHANGED <<state, consecutiveFailures, sinceOpened, openFor>>

AdmitNextProbe(c) ==
    /\ c \notin fetching
    /\ state = "HalfOpen"
    /\ halfOpenProbes < HalfOpenMaxProbes
    /\ halfOpenProbes' = halfOpenProbes + 1
    /\ fetching' = fetching \cup {c}
    /\ probes' = probes \cup {c}
    /\ UNCHANGED <<state, consecutiveFailures, sinceOpened, openFor>>

Admit(c) == AdmitClosed(c) \/ AdmitFirstProbe(c) \/ AdmitNextProbe(c)

\* Mutant: a rejection restarts the open window.
RejectRestarts(c) ==
    /\ c \notin fetching
    /\ \/ state = "Open" /\ sinceOpened < OpenMs
       \/ state = "HalfOpen" /\ halfOpenProbes >= HalfOpenMaxProbes
    /\ sinceOpened' = 0
    /\ UNCHANGED <<state, consecutiveFailures, halfOpenProbes, fetching, probes, openFor>>

\* allowRequest() returns false and changes nothing.
Reject(c) ==
    /\ c \notin fetching
    /\ \/ state = "Open" /\ sinceOpened < OpenMs
       \/ state = "HalfOpen" /\ halfOpenProbes >= HalfOpenMaxProbes
    /\ UNCHANGED cbVars

-----------------------------------------------------------------------------
(* recordSuccess() and recordFailure().                                    *)

\* History: the half-open period ends when the breaker leaves HalfOpen.
Reported(c) ==
    /\ c \in fetching
    /\ fetching' = fetching \ {c}
    /\ probes' = IF state' = "HalfOpen" THEN probes \ {c} ELSE {}

\* Mutant: openedAt_ keeps the time of the outage's first transition.
ReopenKeepsClock ==
    /\ state' = "Open"
    /\ sinceOpened' = IF state = "HalfOpen" THEN sinceOpened ELSE 0
    /\ halfOpenProbes' = 0
    /\ openFor' = 0

TransitionToOpen ==
    /\ state' = "Open"
    /\ sinceOpened' = 0
    /\ halfOpenProbes' = 0
    /\ openFor' = 0

RecordSuccess(c) ==
    /\ consecutiveFailures' = 0
    /\ state' = "Closed"
    /\ halfOpenProbes' = IF state # "Closed" THEN 0 ELSE halfOpenProbes
    /\ Reported(c)
    /\ UNCHANGED <<sinceOpened, openFor>>

\* Mutant: the early return forgets the transition.
FailProbingIgnored ==
    /\ state = "HalfOpen"
    /\ UNCHANGED <<state, consecutiveFailures, halfOpenProbes, sinceOpened, openFor>>

\* The early return of recordFailure(): a failure while half-open reopens the
\* breaker and is not counted.
FailProbing ==
    /\ state = "HalfOpen"
    /\ TransitionToOpen
    /\ UNCHANGED consecutiveFailures

FailCounted ==
    /\ state # "HalfOpen"
    /\ consecutiveFailures' =
         IF consecutiveFailures < CountCap THEN consecutiveFailures + 1
                                           ELSE CountCap
    /\ IF state = "Closed" /\ consecutiveFailures' >= FailureThreshold
         THEN TransitionToOpen
         ELSE UNCHANGED <<state, sinceOpened, halfOpenProbes, openFor>>

RecordFailure(c) ==
    /\ FailProbing \/ FailCounted
    /\ Reported(c)

\* The clock; only an open breaker looks at it, and only up to OpenMs.
Advance(t) == IF state = "Open" /\ t < OpenMs THEN t + 1 ELSE t

Tick ==
    /\ sinceOpened' = Advance(sinceOpened)
    /\ openFor' = Advance(openFor)
    /\ UNCHANGED <<state, consecutiveFailures, halfOpenProbes, fetching, probes>>

Report(c) == RecordSuccess(c) \/ RecordFailure(c)

CBNext ==
    \/ \E c \in Callers : Admit(c) \/ Reject(c) \/ Report(c)
    \/ Tick

CBSpec == CBInit /\ [][CBNext]_cbVars

\* Time passes, every admitted fetch ends (origin_.fetch returns), and requests
\* that need the origin keep arriving on every thread.
CBFairness ==
    /\ WF_cbVars(Tick)
    /\ \A c \in Callers : WF_cbVars(Report(c)) /\ WF_cbVars(Admit(c))

CBFairSpec == CBSpec /\ CBFairness

-----------------------------------------------------------------------------
CBTypeOK ==
    /\ state \in States
    /\ consecutiveFailures \in 0..CountCap
    /\ halfOpenProbes \in Nat
    /\ sinceOpened \in Nat
    /\ fetching \in SUBSET Callers
    /\ probes \in SUBSET Callers
    /\ openFor \in Nat

\* A half-open breaker is never wedged: halfOpenProbes_ counts exactly the
\* probes that are still out, and there is at least one, whose report will take
\* the breaker out of HalfOpen.  (A breaker that refuses everybody while no probe
\* is out would refuse for ever: nothing but a report leaves HalfOpen.)
ProbesAccounted ==
    /\ probes \subseteq fetching
    /\ state = "HalfOpen" => /\ probes # {}
                             /\ halfOpenProbes = Cardinality(probes)
    /\ state # "HalfOpen" => probes = {} /\ halfOpenProbes = 0

\* However reports and admissions interleave, a half-open period lets through at
\* most HalfOpenMaxProbes fetches (and always the first).
ProbeLimit == Cardinality(probes) <= AtLeastOne(HalfOpenMaxProbes)

\* A closed breaker always has room for a failure before it trips: no path back
\* to Closed leaves failures of an earlier outage counted against the origin.
ClosedBelowThreshold ==
    state = "Closed" => consecutiveFailures < AtLeastOne(FailureThreshold)

\* After every transition into Open, including the one out of a failed half-open
\* period, nobody is sent to the origin before the whole window has passed.
FullOpenWindow ==
    [][state = "Open" /\ openFor < OpenMs => fetching' \subseteq fetching]_cbVars

\* Once fetches stop failing, the breaker closes and stays closed, from whatever
\* state and with whatever fetches in flight the outage left behind.
Recovers ==
    <>[][~ \E c \in Callers : RecordFailure(c)]_cbVars => <>[](state = "Closed")
=============================================================================
