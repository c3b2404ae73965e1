--------------------------- MODULE CircuitBreaker ---------------------------
(***************************************************************************)
(* The circuit breaker in front of ReceiptGate                             *)
(* (integrations/circuit_breaker.py).  A call passes the breaker under its *)
(* lock, runs outside it, and takes the lock again to record its result:   *)
(* between the two any number of other calls may pass or finish, and the   *)
(* breaker may have changed state.                                         *)
(***************************************************************************)
EXTENDS Naturals, FiniteSets

CONSTANTS
    Callers,           \* requests and the replay worker, one call each at a time
    FailureThreshold,  \* failure_threshold
    HalfOpenMax,       \* half_open_max_calls
    SuccessThreshold   \* success_threshold

\* More successes are never asked for than calls are let through to give them.
ASSUME BreakerAssumption ==
    /\ IsFiniteSet(Callers)
    /\ FailureThreshold \in Nat \ {0}
    /\ SuccessThreshold \in Nat \ {0}
    /\ HalfOpenMax \in Nat
    /\ SuccessThreshold <= HalfOpenMax

VARIABLES
    state,          \* _state
    failure_count,  \* consecutive failures, up to FailureThreshold
    success_count,  \* consecutive successes, up to SuccessThreshold
    half_open_calls,
    rested,         \* timeout_seconds have passed since opened_at
    calls,          \* where each caller is
    answers,        \* what ReceiptGate has answered to the call in flight
    gate            \* how ReceiptGate is

vars == <<state, failure_count, success_count, half_open_calls,
          rested, calls, answers, gate>>

\* A call in flight is a probe while the half-open period that let it through
\* lasts, otherwise it is late or was let through by the closed breaker.
Places  == {"idle", "probe", "other"}
Answers == {"none", "success", "failure", "refusal"}
Gate    == {"up", "down", "refusing"}

TypeOK ==
    /\ state \in {"closed", "open", "half_open"}
    /\ failure_count \in 0..FailureThreshold
    /\ success_count \in 0..SuccessThreshold
    /\ half_open_calls \in Nat
    /\ rested \in BOOLEAN
    /\ calls \in [Callers -> Places]
    /\ answers \in [Callers -> Answers]
    /\ gate \in Gate

Init ==
    /\ state = "closed"
    /\ failure_count = 0
    /\ success_count = 0
    /\ half_open_calls = 0
    /\ rested = FALSE
    /\ calls = [c \in Callers |-> "idle"]
    /\ answers = [c \in Callers |-> "none"]
    /\ gate = "up"

\* The counters are only ever compared with their thresholds from below.
UpTo(limit, n) == IF n < limit THEN n ELSE limit

----------------------------------------------------------------------------
(* call: under the lock *)

\* Probes of a period that is over are late.
Late == [c \in Callers |-> IF calls[c] = "probe" THEN "other" ELSE calls[c]]

AdmitClosed(c) ==
    /\ calls[c] = "idle"
    /\ state = "closed"
    /\ calls' = [calls EXCEPT ![c] = "other"]
    /\ UNCHANGED <<state, failure_count, success_count, half_open_calls,
                   rested, answers, gate>>

\* The first call after the timeout half-opens the breaker and is a probe.
AdmitRested(c) ==
    /\ calls[c] = "idle"
    /\ state = "open"
    /\ rested
    /\ state' = "half_open"
    /\ failure_count' = 0
    /\ success_count' = 0
    /\ half_open_calls' = 1
    /\ calls' = [calls EXCEPT ![c] = "probe"]
    /\ UNCHANGED <<rested, answers, gate>>

AdmitProbeOneMore(c) ==    \* mutant: off by one
    /\ calls[c] = "idle"
    /\ state = "half_open"
    /\ half_open_calls <= HalfOpenMax
    /\ half_open_calls' = half_open_calls + 1
    /\ calls' = [calls EXCEPT ![c] = "probe"]
    /\ UNCHANGED <<state, failure_count, success_count, rested, answers, gate>>

\* half_open_calls counts the calls let through, and is not counted down again.
AdmitProbe(c) ==
    /\ calls[c] = "idle"
    /\ state = "half_open"
    /\ half_open_calls < HalfOpenMax
    /\ half_open_calls' = half_open_calls + 1
    /\ calls' = [calls EXCEPT ![c] = "probe"]
    /\ UNCHANGED <<state, failure_count, success_count, rested, answers, gate>>

\* Any other call is turned away, which changes nothing here.
Admit(c) == AdmitClosed(c) \/ AdmitRested(c) \/ AdmitProbe(c)

----------------------------------------------------------------------------
(* call: the result *)

TransitionToOpenUncounted(returning) ==    \* mutant: not reset, counted down
    /\ state' = "open"
    /\ rested' = FALSE
    /\ half_open_calls' = half_open_calls - 1
    /\ calls' = [Late EXCEPT ![returning] = "idle"]

TransitionToOpen(returning) ==
    /\ state' = "open"
    /\ rested' = FALSE
    /\ half_open_calls' = 0
    /\ calls' = [Late EXCEPT ![returning] = "idle"]

OnFailureLenient(c) ==    \* mutant: one failure does not end the half-open period
    /\ failure_count' = UpTo(FailureThreshold, failure_count + 1)
    /\ success_count' = 0
    /\ IF state # "open" /\ failure_count + 1 >= FailureThreshold
       THEN TransitionToOpen(c)
       ELSE /\ calls' = [calls EXCEPT ![c] = "idle"]
            /\ UNCHANGED <<state, rested, half_open_calls>>

\* A failure opens a half-open breaker at once and a closed one at the threshold;
\* an open one only counts it.
OnFailure(c) ==
    /\ failure_count' = UpTo(FailureThreshold, failure_count + 1)
    /\ success_count' = 0
    /\ IF \/ state = "half_open"
          \/ state = "closed" /\ failure_count + 1 >= FailureThreshold
       THEN TransitionToOpen(c)
       ELSE /\ calls' = [calls EXCEPT ![c] = "idle"]
            /\ UNCHANGED <<state, rested, half_open_calls>>

TransitionToClosed(returning) ==
    /\ state' = "closed"
    /\ failure_count' = 0
    /\ success_count' = 0
    /\ half_open_calls' = 0
    /\ rested' = FALSE
    /\ calls' = [c \in Callers |-> IF c \in returning THEN "idle" ELSE Late[c]]

\* Whichever call a success belongs to, it counts.
OnSuccess(c) ==
    IF state = "half_open" /\ success_count + 1 >= SuccessThreshold
    THEN TransitionToClosed({c})
    ELSE /\ success_count' = UpTo(SuccessThreshold, success_count + 1)
         /\ failure_count' = 0
         /\ calls' = [calls EXCEPT ![c] = "idle"]
         /\ UNCHANGED <<state, half_open_calls, rested>>

\* What call brings back is recorded under the lock.  A refusal
\* (non_failure_exceptions) is recorded as neither success nor failure; nor is a
\* call that is cancelled, since CancelledError is no Exception.
Record(c) ==
    /\ answers[c] # "none"
    /\ \/ answers[c] = "success" /\ OnSuccess(c)
       \/ answers[c] = "failure" /\ OnFailure(c)
       \/ /\ answers[c] = "refusal"
          /\ calls' = [calls EXCEPT ![c] = "idle"]
          /\ UNCHANGED <<state, failure_count, success_count, half_open_calls, rested>>
    /\ answers' = [answers EXCEPT ![c] = "none"]
    /\ UNCHANGED gate

----------------------------------------------------------------------------
\* reset, by hand.  Nothing in the program calls it.
Reset == TransitionToClosed({}) /\ UNCHANGED <<answers, gate>>

\* timeout_seconds after opened_at.
Elapse ==
    /\ state = "open"
    /\ ~rested
    /\ rested' = TRUE
    /\ UNCHANGED <<state, failure_count, success_count, half_open_calls,
                   calls, answers, gate>>

\* The call of c meets ReceiptGate as it is now: long before its result is
\* recorded, perhaps.  One that refuses receipts does not refuse all of them.  (A
\* call that is cancelled leaves the breaker as a refused one does.)
Answer(c) ==
    /\ calls[c] # "idle"
    /\ answers[c] = "none"
    /\ \E a \in CASE gate = "up"       -> {"success"}
               [] gate = "down"     -> {"failure"}
               [] gate = "refusing" -> {"success", "refusal"} :
          answers' = [answers EXCEPT ![c] = a]
    /\ UNCHANGED <<state, failure_count, success_count, half_open_calls,
                   rested, calls, gate>>

\* ReceiptGate goes down, comes back, has objections or none.
Turn ==
    /\ gate' \in Gate \ {gate}
    /\ UNCHANGED <<state, failure_count, success_count, half_open_calls,
                   rested, calls, answers>>

Next ==
    \/ \E c \in Callers : Admit(c) \/ Answer(c) \/ Record(c)
    \/ Reset
    \/ Elapse
    \/ Turn

\* Calls keep being made, each is answered (it has a timeout) and recorded, and
\* time passes.
Fairness ==
    /\ \A c \in Callers : WF_vars(Admit(c)) /\ WF_vars(Answer(c)) /\ WF_vars(Record(c))
    /\ WF_vars(Elapse)

Spec == Init /\ [][Next]_vars /\ Fairness

----------------------------------------------------------------------------
(* Properties *)

\* While half-open, no more than half_open_max_calls calls are out to test the
\* service, whatever was in flight when the breaker opened and however late it
\* comes back.
ProbesBounded ==
    state = "half_open" =>
        /\ Cardinality({c \in Callers : calls[c] = "probe"}) <= half_open_calls
        /\ half_open_calls <= HalfOpenMax

\* As long as nothing is refused, a half-open breaker can still make up its mind:
\* the probes in flight and those still to be let through suffice for the
\* successes that are missing, however late the other calls come back.
NeverRefusing == [](gate # "refusing")
CanStillClose ==
    state = "half_open" =>
        success_count + Cardinality({c \in Callers : calls[c] = "probe"})
            + (HalfOpenMax - half_open_calls) >= SuccessThreshold
StaysDecidable == NeverRefusing => []CanStillClose

\* If nothing is ever refused: once ReceiptGate is back for good, the breaker
\* closes for good.
Recovery == NeverRefusing /\ <>[](gate = "up") => <>[](state = "closed")

(* What a comment says and the code does not do *)

\* A dependency that rejects a request "is healthy -- it just said no", and is
\* not to be held responsible: refusals in the past do not keep the breaker from
\* closing once ReceiptGate answers every call with a success.
RefusalsDoNotDegrade == <>[](gate = "up") => <>[](state = "closed")
=============================================================================
