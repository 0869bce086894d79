------------------------------ MODULE Schedule ------------------------------
(***************************************************************************)
(* The derivation of a pool's age threshold A, the rotation chances G it   *)
(* guarantees before Forceful Expiration, the throughput C of a window,    *)
(* and the findings that say what cannot work.  Durations are integers of  *)
(* one unit; -1 is a duration left unset.                                  *)
(*                                                                         *)
(* Source: internal/schedule/schedule.go                                   *)
(***************************************************************************)
EXTENDS Integers

CONSTANTS
    Buffer,                      \* slack of the deadline bound
    HardCap,                     \* Auto Mode's ceiling on expireAfter + tGP
    DrainFallback,               \* stands for an unset tGP
    DrainEstimateDefault,
    ProvisioningEstimateDefault

ASSUME DurationAssumption ==
    {Buffer, HardCap, DrainFallback, DrainEstimateDefault,
     ProvisioningEstimateDefault} \subseteq Nat

Nil == -1

Fatal == {"NoWindows", "KBelowOne", "OverrideNonPositive", "OverrideGBelowOne",
          "ANonPositive"}

AtMost(a, b) == IF a < b THEN a ELSE b

-----------------------------------------------------------------------------
\* Go divides toward zero.
quo(a, b) == IF a < 0 THEN -((-a) \div b) ELSE a \div b

floorDiv(a, b) ==
    LET q == quo(a, b)
    IN  IF a # q * b /\ (a < 0) # (b < 0) THEN q - 1 ELSE q

\* Mutant: the last, partial slot of an occurrence is not counted.
ceilDivDown(a, b) == a \div b

ceilDiv(a, b) == IF a % b # 0 THEN (a \div b) + 1 ELSE a \div b

\* A configured estimate above the deadline it can never exceed is cut to it.
resolveDrainEstimate(in) ==
    IF in.drainEstimate = Nil
    THEN [est |-> AtMost(in.TGP, DrainEstimateDefault), findings |-> {}]
    ELSE IF ~in.TGPWasUnset /\ in.drainEstimate > in.TGP
    THEN [est |-> in.TGP, findings |-> {"DrainEstimateAboveTGP"}]
    ELSE [est |-> in.drainEstimate, findings |-> {}]

resolveProvisioningEstimate(in) ==
    IF in.provisioningEstimate = Nil
    THEN [est |-> AtMost(in.readyTimeout, ProvisioningEstimateDefault), findings |-> {}]
    ELSE IF in.provisioningEstimate > in.readyTimeout
    THEN [est |-> in.readyTimeout, findings |-> {"ProvisioningEstimateAboveReadyTimeout"}]
    ELSE [est |-> in.provisioningEstimate, findings |-> {}]

-----------------------------------------------------------------------------
\* Findings of one condition each.
On(condition, code) == IF condition THEN {code} ELSE {}

layer1(in, r) ==
    UNION {
      On(in.K < 1, "KBelowOne"),
      On(in.K = 1, "KBelowTwo"),
      IF in.override # Nil
      THEN On(r.A <= 0, "OverrideNonPositive")
             \cup On(r.A > 0 /\ r.G < 1, "OverrideGBelowOne")
             \cup On(r.A > 0 /\ r.G >= 1 /\ r.G < in.K, "OverrideGBelowK")
      ELSE On(r.A <= 0, "ANonPositive"),
      On(0 < r.A /\ r.A < in.P, "AVeryAggressive"),
      On(in.TGPWasUnset, "TGPUnset"),
      On(in.E + in.TGP > HardCap, "HardCapExceeded"),
      On(in.retryBackoff < in.readyTimeout, "RetryBackoffShort") }

layer2(in, r) ==
    IF in.windowLen <= 0 \/ r.C < 1 THEN {}
    ELSE UNION {
      On(in.nodeCount > 0 /\ r.A > 0 /\ r.C * r.A < in.nodeCount * in.P,
         "ThroughputBelowArrival"),
      On(in.nodeCount > 0 /\ in.K > 0 /\ in.nodeCount > in.K * r.C,
         "ThroughputBurstShortfall"),
      On(in.idleGap # Nil /\ r.TRotEst + in.cooldown > in.idleGap,
         "RotationSpansNextWindow") }

\* The deadline bound, never the forecast.
TRot(in) == in.readyTimeout + in.TGP + Buffer

ageThreshold(in) ==
    IF in.override # Nil THEN in.override ELSE in.E - (in.K * in.P + TRot(in))

chances(in) ==
    IF in.override # Nil
    THEN floorDiv(in.E - TRot(in) - in.override, in.P)
    ELSE in.K

throughput(in, tRotEst) ==
    LET denom == tRotEst + in.cooldown
        m     == IF in.maxUnavailable > 1 THEN in.maxUnavailable ELSE 1
    IN  IF denom > 0 /\ in.windowLen > 0 THEN m * ceilDiv(in.windowLen, denom) ELSE 0

Derive(in) ==
    LET drain == resolveDrainEstimate(in)
        prov  == resolveProvisioningEstimate(in)
        base  == [TRot |-> TRot(in), TRotEst |-> prov.est + drain.est,
                  A |-> 0, G |-> 0, C |-> 0,
                  findings |-> drain.findings \cup prov.findings]
        r     == [base EXCEPT !.A = ageThreshold(in), !.G = chances(in),
                              !.C = throughput(in, base.TRotEst)]
    IN  IF in.P <= 0
        THEN [base EXCEPT !.findings = @ \cup {"NoWindows"}]
        ELSE [r EXCEPT !.findings = @ \cup layer1(in, r) \cup layer2(in, r)]

=============================================================================
