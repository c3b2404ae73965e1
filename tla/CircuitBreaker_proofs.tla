------------------------- MODULE CircuitBreaker_proofs -------------------------
(***************************************************************************)
(* What TLAPS proves of CircuitBreaker, for any finite number of callers   *)
(* and any thresholds.                                                     *)
(***************************************************************************)
EXTENDS CircuitBreaker, FiniteSetTheorems, TLAPS

Probes == {c \in Callers : calls[c] = "probe"}

LEMMA Constants ==
    /\ IsFiniteSet(Callers)
    /\ FailureThreshold \in Nat /\ FailureThreshold >= 1
    /\ SuccessThreshold \in Nat /\ SuccessThreshold >= 1
    /\ HalfOpenMax \in Nat /\ SuccessThreshold <= HalfOpenMax
BY BreakerAssumption

LEMMA UpToType ==
    ASSUME NEW limit \in Nat, NEW n \in Nat
    PROVE  UpTo(limit, n) \in 0..limit
BY DEF UpTo

LEMMA LateType ==
    ASSUME TypeOK
    PROVE  Late \in [Callers -> Places] /\ \A c \in Callers : Late[c] # "probe"
BY DEF TypeOK, Late, Places

\* A breaker that closes forgets what it has counted.
LEMMA ClosedType ==
    ASSUME TypeOK, NEW returning, TransitionToClosed(returning),
           answers' \in [Callers -> Answers], gate' \in Gate
    PROVE  TypeOK'
<1>1. calls' \in [Callers -> Places]
  BY LateType DEF TransitionToClosed, Places
<1>2. failure_count' \in 0..FailureThreshold /\ success_count' \in 0..SuccessThreshold
  BY Constants DEF TransitionToClosed
<1>. QED  BY <1>1, <1>2 DEF TransitionToClosed, TypeOK

\* The three ways the breaker changes its mind, and the rest.
LEMMA TypeStep == TypeOK /\ [Next]_vars => TypeOK'
<1> SUFFICES ASSUME TypeOK, [Next]_vars
             PROVE  TypeOK'
  OBVIOUS
<1>. USE Constants
<1>1. ASSUME NEW c \in Callers, Admit(c)
      PROVE  TypeOK'
  BY <1>1 DEF Admit, AdmitClosed, AdmitRested, AdmitProbe, TypeOK, Places
<1>2. ASSUME NEW c \in Callers, Answer(c)
      PROVE  TypeOK'
  <2>1. PICK a \in Answers : answers' = [answers EXCEPT ![c] = a]
    BY <1>2 DEF Answer, Answers, TypeOK, Gate
  <2>. QED  BY <1>2, <2>1 DEF Answer, TypeOK
<1>3. ASSUME NEW c \in Callers, Record(c)
      PROVE  TypeOK'
  <2>1. answers' \in [Callers -> Answers] /\ gate' \in Gate
    BY <1>3 DEF Record, TypeOK, Answers
  <2>2. CASE OnSuccess(c)
    <3>1. CASE TransitionToClosed({c})
      BY <2>1, <3>1, ClosedType
    <3>2. CASE ~TransitionToClosed({c})
      <4>1. success_count' \in 0..SuccessThreshold
        BY <2>2, <3>2, UpToType DEF OnSuccess, TypeOK
      <4>2. calls' \in [Callers -> Places]
        BY <2>2, <3>2 DEF OnSuccess, TypeOK, Places
      <4>. QED  BY <2>1, <2>2, <3>2, <4>1, <4>2 DEF OnSuccess, TypeOK
    <3>. QED  BY <3>1, <3>2
  <2>3. CASE OnFailure(c)
    <3>1. failure_count' \in 0..FailureThreshold /\ success_count' \in 0..SuccessThreshold
      BY <2>3, UpToType DEF OnFailure, TypeOK
    <3>2. CASE TransitionToOpen(c)
      <4>1. calls' \in [Callers -> Places]
        BY <3>2, LateType DEF TransitionToOpen, Places
      <4>. QED  BY <2>1, <3>1, <3>2, <4>1 DEF TransitionToOpen, TypeOK
    <3>3. CASE ~TransitionToOpen(c)
      <4>1. calls' \in [Callers -> Places]
        BY <2>3, <3>3 DEF OnFailure, TypeOK, Places
      <4>. QED  BY <2>1, <2>3, <3>1, <3>3, <4>1 DEF OnFailure, TypeOK
    <3>. QED  BY <3>2, <3>3
  <2>4. CASE /\ calls' = [calls EXCEPT ![c] = "idle"]
             /\ UNCHANGED <<state, failure_count, success_count, half_open_calls, rested>>
    BY <2>1, <2>4 DEF TypeOK, Places
  <2>. QED  BY <1>3, <2>2, <2>3, <2>4 DEF Record
<1>4. CASE Reset
  BY <1>4, ClosedType DEF Reset, TypeOK
<1>5. CASE Elapse \/ Turn \/ UNCHANGED vars
  BY <1>5 DEF Elapse, Turn, vars, TypeOK
<1>. QED  BY <1>1, <1>2, <1>3, <1>4, <1>5 DEF Next

\* Every reachable state is well-typed: the counters never pass their thresholds.
THEOREM TypeCorrect == Spec => []TypeOK
<1>1. ASSUME Init
      PROVE  TypeOK
  <2>1. calls \in [Callers -> Places] /\ answers \in [Callers -> Answers]
    BY <1>1 DEF Init, Places, Answers
  <2>2. failure_count \in 0..FailureThreshold /\ success_count \in 0..SuccessThreshold
    BY <1>1, Constants DEF Init
  <2>. QED  BY <1>1, <2>1, <2>2 DEF Init, TypeOK, Gate
<1>. QED  BY <1>1, TypeStep, PTL DEF Spec

----------------------------------------------------------------------------
(* Probes                                                                   *)
(*                                                                          *)
(* ProbesBounded speaks of the half-open state only; it is inductive once   *)
(* it is known that no call is a probe in any other.                        *)

ProbeInv ==
    /\ state # "half_open" => Probes = {}
    /\ Cardinality(Probes) <= half_open_calls
    /\ state = "half_open" => half_open_calls <= HalfOpenMax

LEMMA ProbesFinite == IsFiniteSet(Probes) /\ Cardinality(Probes) \in Nat
BY Constants, FS_Subset, FS_CardinalityType DEF Probes

\* One call becomes a probe.
LEMMA ProbeAdded ==
    ASSUME TypeOK, NEW c \in Callers, calls[c] # "probe",
           calls' = [calls EXCEPT ![c] = "probe"]
    PROVE  Cardinality(Probes)' = Cardinality(Probes) + 1
<1>1. Probes' = Probes \cup {c} /\ c \notin Probes
  BY DEF Probes, TypeOK
<1>. QED  BY <1>1, ProbesFinite, FS_AddElement

\* Calls stop being probes, or none does.
LEMMA ProbesLeave ==
    ASSUME Probes' \subseteq Probes
    PROVE  Cardinality(Probes)' <= Cardinality(Probes) /\ Cardinality(Probes)' \in Nat
BY ProbesFinite, FS_Subset, FS_CardinalityType

\* All of them are over.
LEMMA ProbesOver ==
    ASSUME Probes' = {}, half_open_calls' \in Nat, state' # "half_open"
    PROVE  ProbeInv'
BY FS_EmptySet DEF ProbeInv

LEMMA ProbeStep == TypeOK /\ ProbeInv /\ [Next]_vars => ProbeInv'
<1> SUFFICES ASSUME TypeOK, ProbeInv, [Next]_vars
             PROVE  ProbeInv'
  OBVIOUS
<1>. USE Constants
<1>1. ASSUME Probes' \subseteq Probes, UNCHANGED <<state, half_open_calls>>
      PROVE  ProbeInv'
  BY <1>1, ProbesLeave, ProbesFinite DEF ProbeInv, TypeOK
<1>2. ASSUME NEW c \in Callers, AdmitClosed(c)
      PROVE  ProbeInv'
  BY <1>1, <1>2 DEF AdmitClosed, Probes, TypeOK
<1>3. ASSUME NEW c \in Callers, AdmitRested(c)
      PROVE  ProbeInv'
  <2>1. Cardinality(Probes)' = 1
    <3>1. Probes' = {c}
      BY <1>3 DEF AdmitRested, ProbeInv, Probes, TypeOK
    <3>. QED  BY <3>1, FS_Singleton
  <2>. QED  BY <1>3, <2>1 DEF AdmitRested, ProbeInv
<1>4. ASSUME NEW c \in Callers, AdmitProbe(c)
      PROVE  ProbeInv'
  <2>1. Cardinality(Probes)' = Cardinality(Probes) + 1
    BY <1>4, ProbeAdded DEF AdmitProbe
  <2>. QED  BY <1>4, <2>1, ProbesFinite DEF AdmitProbe, ProbeInv, TypeOK
<1>5. ASSUME NEW c \in Callers, Record(c)
      PROVE  ProbeInv'
  <2>1. CASE calls' = [calls EXCEPT ![c] = "idle"] /\ UNCHANGED <<state, half_open_calls>>
    <3>1. Probes' \subseteq Probes
      BY <2>1 DEF Probes, TypeOK
    <3>. QED  BY <1>1, <2>1, <3>1
  <2>2. CASE TransitionToClosed({c})
    <3>1. Probes' = {}
      BY <2>2, LateType DEF TransitionToClosed, Probes
    <3>. QED  BY <2>2, <3>1, ProbesOver DEF TransitionToClosed
  <2>3. CASE TransitionToOpen(c)
    <3>1. Probes' = {}
      BY <2>3, LateType DEF TransitionToOpen, Probes
    <3>. QED  BY <2>3, <3>1, ProbesOver DEF TransitionToOpen
  <2>. QED  BY <1>5, <2>1, <2>2, <2>3 DEF Record, OnSuccess, OnFailure
<1>6. CASE Reset
  <2>1. Probes' = {}
    BY <1>6, LateType DEF Reset, TransitionToClosed, Probes
  <2>. QED  BY <1>6, <2>1, ProbesOver DEF Reset, TransitionToClosed
<1>7. CASE Elapse \/ Turn \/ (\E c \in Callers : Answer(c)) \/ UNCHANGED vars
  BY <1>1, <1>7 DEF Elapse, Turn, Answer, vars, Probes
<1>. QED  BY <1>2, <1>3, <1>4, <1>5, <1>6, <1>7 DEF Next, Admit

LEMMA ProbeInvCorrect == Spec => []ProbeInv
<1>1. Init => ProbeInv
  <2>1. ASSUME Init
        PROVE  Probes = {} /\ state # "half_open" /\ half_open_calls = 0
    BY <2>1 DEF Init, Probes
  <2>. QED  BY <2>1, FS_EmptySet DEF ProbeInv
<1>. QED  BY <1>1, ProbeStep, TypeCorrect, PTL DEF Spec

\* A half-open breaker has no more than half_open_max_calls calls out, for any number
\* of callers, however late the calls let through before come back.
THEOREM ProbesCorrect == Spec => []ProbesBounded
<1>1. ProbeInv => ProbesBounded
  BY DEF ProbeInv, ProbesBounded, Probes
<1>. QED  BY <1>1, ProbeInvCorrect, PTL

----------------------------------------------------------------------------
(* Deciding                                                                 *)
(*                                                                          *)
(* While nothing is refused, each probe that comes back either decides or   *)
(* adds the success it was counted for.                                     *)

DecidableInv ==
    /\ CanStillClose
    /\ \A c \in Callers : answers[c] # "refusal"

Missing ==
    success_count + Cardinality(Probes) + (HalfOpenMax - half_open_calls) >= SuccessThreshold

LEMMA CanStillCloseAsMissing == CanStillClose <=> (state = "half_open" => Missing)
BY DEF CanStillClose, Missing, Probes

\* One probe comes back.
LEMMA ProbeRemoved ==
    ASSUME TypeOK, NEW c \in Callers, calls' = [calls EXCEPT ![c] = "idle"]
    PROVE  Cardinality(Probes)' >= Cardinality(Probes) - 1
<1>1. Probes' = Probes \ {c}
  BY DEF Probes, TypeOK, Places
<1>2. CASE c \in Probes
  BY <1>1, <1>2, ProbesFinite, FS_RemoveElement
<1>3. CASE c \notin Probes
  <2>1. Probes' = Probes
    BY <1>1, <1>3
  <2>. QED  BY <2>1, ProbesFinite
<1>. QED  BY <1>2, <1>3

LEMMA DecidableStep ==
    ASSUME TypeOK, ProbeInv, ProbeInv', DecidableInv, gate # "refusing", [Next]_vars
    PROVE  DecidableInv'
<1>. USE Constants
<1>1. \A c \in Callers : answers'[c] # "refusal"
  <2>1. ASSUME NEW c \in Callers, Answer(c)
        PROVE  \A d \in Callers : answers'[d] # "refusal"
    <3>1. PICK a \in {"success", "failure"} : answers' = [answers EXCEPT ![c] = a]
      BY <2>1 DEF Answer, TypeOK, Gate
    <3>. QED  BY <3>1 DEF DecidableInv, TypeOK
  <2>2. ASSUME NEW c \in Callers, Record(c)
        PROVE  \A d \in Callers : answers'[d] # "refusal"
    BY <2>2 DEF Record, DecidableInv, TypeOK
  <2>3. ASSUME NEW c \in Callers, Admit(c)
        PROVE  UNCHANGED answers
    BY <2>3 DEF Admit, AdmitClosed, AdmitRested, AdmitProbe
  <2>4. CASE Reset \/ Elapse \/ Turn \/ UNCHANGED vars
    BY <2>4 DEF Reset, Elapse, Turn, vars, DecidableInv
  <2>. QED  BY <2>1, <2>2, <2>3, <2>4 DEF Next, DecidableInv
<1>2. state' = "half_open" => Missing'
  <2>1. ASSUME NEW c \in Callers, AdmitClosed(c)
        PROVE  state' # "half_open"
    BY <2>1 DEF AdmitClosed
  <2>2. ASSUME NEW c \in Callers, AdmitRested(c)
        PROVE  Missing'
    <3>1. Cardinality(Probes)' = 1
      <4>1. Probes' = {c}
        BY <2>2 DEF AdmitRested, ProbeInv, Probes, TypeOK
      <4>. QED  BY <4>1, FS_Singleton
    <3>. QED  BY <2>2, <3>1 DEF AdmitRested, Missing
  <2>3. ASSUME NEW c \in Callers, AdmitProbe(c)
        PROVE  Missing'
    <3>1. Cardinality(Probes)' = Cardinality(Probes) + 1
      BY <2>3, ProbeAdded DEF AdmitProbe
    <3>2. Missing
      BY <2>3, CanStillCloseAsMissing DEF AdmitProbe, DecidableInv
    <3>. QED  BY <2>3, <3>1, <3>2, ProbesFinite DEF AdmitProbe, Missing, TypeOK
  <2>4. ASSUME NEW c \in Callers, Record(c), state' = "half_open"
        PROVE  Missing'
    <3>1. answers[c] # "refusal"
      BY DEF DecidableInv
    <3>2. OnSuccess(c)
      BY <2>4, <3>1 DEF Record, OnFailure, TransitionToOpen
    <3>3. /\ state = "half_open"
          /\ success_count + 1 < SuccessThreshold
          /\ success_count' = UpTo(SuccessThreshold, success_count + 1)
          /\ calls' = [calls EXCEPT ![c] = "idle"]
          /\ UNCHANGED half_open_calls
      BY <2>4, <3>2 DEF OnSuccess, TransitionToClosed, TypeOK
    <3>4. success_count' = success_count + 1
      BY <3>3 DEF UpTo
    <3>5. Cardinality(Probes)' >= Cardinality(Probes) - 1
      BY <3>3, ProbeRemoved
    <3>6. Missing
      BY <3>3, CanStillCloseAsMissing DEF DecidableInv
    <3>7. Cardinality(Probes)' \in Nat
      BY ProbesFinite, ProbesLeave, <3>3 DEF Probes, TypeOK
    <3>. QED  BY <3>3, <3>4, <3>5, <3>6, <3>7, ProbesFinite DEF Missing, TypeOK
  <2>5. ASSUME UNCHANGED <<state, success_count, half_open_calls, calls>>
        PROVE  state' = "half_open" => Missing'
    BY <2>5, CanStillCloseAsMissing DEF DecidableInv, Missing, Probes
  <2>6. CASE Reset
    BY <2>6 DEF Reset, TransitionToClosed
  <2>7. CASE Elapse \/ Turn \/ (\E c \in Callers : Answer(c)) \/ UNCHANGED vars
    BY <2>5, <2>7 DEF Elapse, Turn, Answer, vars
  <2>. QED  BY <2>1, <2>2, <2>3, <2>4, <2>6, <2>7 DEF Next, Admit
<1>3. CanStillClose'
  BY <1>2, CanStillCloseAsMissing DEF CanStillClose, Missing, Probes
<1>. QED  BY <1>1, <1>3 DEF DecidableInv

\* As long as nothing is refused, a half-open breaker can still make up its mind.
THEOREM DecidableCorrect == Spec => StaysDecidable
<1>1. Init => DecidableInv
  BY DEF Init, DecidableInv, CanStillClose
<1>2. TypeOK /\ ProbeInv /\ ProbeInv' /\ DecidableInv /\ gate # "refusing" /\ [Next]_vars
          => DecidableInv'
  BY DecidableStep
<1>3. DecidableInv => CanStillClose
  BY DEF DecidableInv
<1>. QED
  BY <1>1, <1>2, <1>3, TypeCorrect, ProbeInvCorrect, PTL
     DEF Spec, StaysDecidable, NeverRefusing
===============================================================================
