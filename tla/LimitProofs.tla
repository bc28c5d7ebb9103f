---------------------------- MODULE LimitProofs ----------------------------
(* Proofs about ChargeLimits and LimitSweep, for all settings and readings *)
(* for which no limit divides by zero or leaves the 16 bits of a current.  *)
EXTENDS LimitSweep, NaturalsInduction, WellFoundedInduction, TLAPS

-----------------------------------------------------------------------------
(* Division of natural numbers: what is rounded down stays in order.       *)

LEMMA QuotientIs ==
  ASSUME NEW a \in Nat, NEW b \in Nat \ {0}
  PROVE  a \div b \in Nat /\ (a \div b) * b <= a /\ a < (a \div b + 1) * b
<1>1. a \div b \in Int /\ (a \div b) * b <= a /\ a < (a \div b + 1) * b
  OBVIOUS
<1>2. ASSUME a \div b < 0 PROVE FALSE
  <2>1. a \div b + 1 <= 0  BY <1>1, <1>2
  <2>2. (a \div b + 1) * b <= 0  BY <1>1, <2>1
  <2> QED  BY <1>1, <2>2
<1> QED  BY <1>1, <1>2

LEMMA QuotientMonotone ==
  ASSUME NEW a \in Nat, NEW c \in Nat, NEW b \in Nat \ {0}, a <= c
  PROVE  a \div b <= c \div b
<1>1. /\ a \div b \in Nat /\ (a \div b) * b <= a
      /\ c \div b \in Nat /\ c < (c \div b + 1) * b
  BY QuotientIs
<1>2. ASSUME a \div b >= c \div b + 1 PROVE FALSE
  <2>1. (a \div b) * b >= (c \div b + 1) * b  BY <1>1, <1>2
  <2> QED  BY <1>1, <2>1
<1> QED  BY <1>1, <1>2

(* The part of the maximum that is left is between the minimum and the     *)
(* maximum, and the further beyond the start the smaller it is.            *)
LEMMA ThrottledIs ==
  ASSUME NEW max \in Nat, NEW floor \in Nat, floor < max, NEW range \in Nat,
         StepPerAmp(max, range, floor) # 0, NEW by \in Nat
  PROVE  /\ Throttled(max, by, range, floor) \in floor .. max
         /\ \A more \in Nat : by <= more =>
              Throttled(max, more, range, floor) <= Throttled(max, by, range, floor)
<1> DEFINE step == StepPerAmp(max, range, floor)
<1>1. step \in Nat \ {0}
  <2>1. max - floor \in Nat \ {0} /\ range * 100 \in Nat  OBVIOUS
  <2> QED  BY <2>1, QuotientIs DEF StepPerAmp
<1>2. ASSUME NEW b \in Nat PROVE (b * 100) \div step \in Nat
  BY <1>1, QuotientIs
<1>3. ASSUME NEW more \in Nat, by <= more
      PROVE  (by * 100) \div step <= (more * 100) \div step
  BY <1>1, <1>3, QuotientMonotone
<1> HIDE DEF step
<1> QED  BY <1>2, <1>3 DEF Throttled, step

-----------------------------------------------------------------------------
(* The limits one by one: their range and their direction.                 *)

LEMMA CellLimitIs ==
  ASSUME NEW rule \in CellRule, NEW max \in Nat, NEW v \in Nat, NEW w \in Nat, v <= w,
         ~CellLimitTraps(rule, max, v), ~CellLimitTraps(rule, max, w)
  PROVE  /\ CellLimit(rule, max, v) \in Nat /\ CellLimit(rule, max, v) <= max
         /\ rule.floor <= max => CellLimit(rule, max, v) >= rule.floor
         /\ CellLimit(rule, max, w) <= CellLimit(rule, max, v)
<1> DEFINE range == rule.end - rule.start
<1>1. rule.start \in Nat /\ rule.end \in Nat /\ rule.floor \in Nat
  BY DEF CellRule
<1>2. ASSUME NEW u \in Nat, ~CellLimitTraps(rule, max, u),
             CellRuleApplies(rule, max, u), u <= rule.end
      PROVE  /\ rule.floor < max /\ range \in Nat /\ u - rule.start \in Nat
             /\ StepPerAmp(max, range, rule.floor) # 0
             /\ CellLimit(rule, max, u) = Throttled(max, u - rule.start, range, rule.floor)
  BY <1>1, <1>2 DEF CellRuleApplies, CellLimitTraps, CellLimit
<1>3. ASSUME NEW u \in Nat, ~CellLimitTraps(rule, max, u)
      PROVE  /\ CellLimit(rule, max, u) \in Nat /\ CellLimit(rule, max, u) <= max
             /\ rule.floor <= max => CellLimit(rule, max, u) >= rule.floor
  <2>1. CASE CellRuleApplies(rule, max, u) /\ u <= rule.end
    <3>1. CellLimit(rule, max, u) \in rule.floor .. max
      BY <1>1, <1>2, <1>3, <2>1, ThrottledIs
    <3> QED  BY <1>1, <3>1
  <2>2. CASE ~(CellRuleApplies(rule, max, u) /\ u <= rule.end)
    BY <1>1, <2>2 DEF CellLimit, CellRuleApplies
  <2> QED  BY <2>1, <2>2
<1>4. CellLimit(rule, max, w) <= CellLimit(rule, max, v)
  <2>1. CASE ~CellRuleApplies(rule, max, v)
    BY <1>3, <2>1 DEF CellLimit
  <2>2. CASE CellRuleApplies(rule, max, v) /\ w <= rule.end
    <3>1. CellRuleApplies(rule, max, w) /\ v <= rule.end
      BY <1>1, <2>2 DEF CellRuleApplies
    <3>2. v - rule.start <= w - rule.start  BY <1>1
    <3> QED  BY <1>1, <1>2, <2>2, <3>1, <3>2, ThrottledIs
  <2>3. CASE CellRuleApplies(rule, max, v) /\ w > rule.end
    <3>1. CellLimit(rule, max, w) = rule.floor /\ rule.floor <= max
      BY <1>1, <2>3 DEF CellLimit, CellRuleApplies
    <3> QED  BY <1>3, <3>1
  <2> QED  BY <1>1, <2>1, <2>2, <2>3
<1> QED  BY <1>3, <1>4

LEMMA DischargeLimitIs ==
  ASSUME NEW rule \in CellRule, NEW max \in Nat, NEW v \in Nat, NEW w \in Nat, v <= w,
         ~DischargeLimitTraps(rule, max, v), ~DischargeLimitTraps(rule, max, w)
  PROVE  /\ DischargeLimit(rule, max, v) \in Nat /\ DischargeLimit(rule, max, v) <= max
         /\ rule.floor <= max => DischargeLimit(rule, max, v) >= rule.floor
         /\ DischargeLimit(rule, max, v) <= DischargeLimit(rule, max, w)
<1> DEFINE range == rule.start - rule.end
<1>1. rule.start \in Nat /\ rule.end \in Nat /\ rule.floor \in Nat
  BY DEF CellRule
<1>2. ASSUME NEW u \in Nat, ~DischargeLimitTraps(rule, max, u),
             DischargeRuleApplies(rule, max, u), u >= rule.end
      PROVE  /\ rule.floor < max /\ range \in Nat /\ rule.start - u \in Nat
             /\ StepPerAmp(max, range, rule.floor) # 0
             /\ DischargeLimit(rule, max, u)
                  = Throttled(max, rule.start - u, range, rule.floor)
  BY <1>1, <1>2 DEF DischargeRuleApplies, DischargeLimitTraps, DischargeLimit
<1>3. ASSUME NEW u \in Nat, ~DischargeLimitTraps(rule, max, u)
      PROVE  /\ DischargeLimit(rule, max, u) \in Nat /\ DischargeLimit(rule, max, u) <= max
             /\ rule.floor <= max => DischargeLimit(rule, max, u) >= rule.floor
  <2>1. CASE DischargeRuleApplies(rule, max, u) /\ u >= rule.end
    <3>1. DischargeLimit(rule, max, u) \in rule.floor .. max
      BY <1>1, <1>2, <1>3, <2>1, ThrottledIs
    <3> QED  BY <1>1, <3>1
  <2>2. CASE ~(DischargeRuleApplies(rule, max, u) /\ u >= rule.end)
    BY <1>1, <2>2 DEF DischargeLimit, DischargeRuleApplies
  <2> QED  BY <2>1, <2>2
<1>4. DischargeLimit(rule, max, v) <= DischargeLimit(rule, max, w)
  <2>1. CASE ~DischargeRuleApplies(rule, max, w)
    BY <1>3, <2>1 DEF DischargeLimit
  <2>2. CASE DischargeRuleApplies(rule, max, w) /\ v >= rule.end
    <3>1. DischargeRuleApplies(rule, max, v) /\ w >= rule.end
      BY <1>1, <2>2 DEF DischargeRuleApplies
    <3>2. rule.start - w <= rule.start - v  BY <1>1
    <3> QED  BY <1>1, <1>2, <2>2, <3>1, <3>2, ThrottledIs
  <2>3. CASE DischargeRuleApplies(rule, max, w) /\ v < rule.end
    <3>1. DischargeLimit(rule, max, v) = rule.floor /\ rule.floor <= max
      BY <1>1, <2>3 DEF DischargeLimit, DischargeRuleApplies
    <3> QED  BY <1>3, <3>1
  <2> QED  BY <1>1, <2>1, <2>2, <2>3
<1> QED  BY <1>3, <1>4

LEMMA ProductMonotone ==
  ASSUME NEW a \in Nat, NEW c \in Nat, NEW b \in Nat, a <= c
  PROVE  a * b <= c * b
OBVIOUS

LEMMA ProductIs ==
  ASSUME NEW a \in Nat, NEW b \in Nat
  PROVE  a * b \in Nat
OBVIOUS

LEMMA SmallRemainder ==
  ASSUME NEW a \in Nat, NEW n \in Nat \ {0}, a < n
  PROVE  a % n = a
OBVIOUS

LEMMA Int16Is ==
  ASSUME NEW i \in Int, -32768 <= i, i <= 32767
  PROVE  Int16(i) = i
<1>1. i + 32768 \in Nat /\ i + 32768 < 65536  OBVIOUS
<1>2. (i + 32768) % 65536 = i + 32768  BY <1>1, SmallRemainder
<1> QED  BY <1>2 DEF Int16

LEMMA DriftLimitIs ==
  ASSUME NEW rule \in DriftRule, NEW max \in Nat,
         NEW d \in Nat, NEW e \in Nat, d <= e, NEW v \in Nat, NEW w \in Nat, v <= w,
         DriftFits(rule, max, d), DriftFits(rule, max, e)
  PROVE  /\ DriftLimit(rule, max, d, v) \in 0 .. max
         /\ DriftLimit(rule, max, e, w) <= DriftLimit(rule, max, d, v)
<1>1. rule.start \in Nat /\ rule.cell \in Nat /\ rule.perMv \in Nat
  BY DEF DriftRule
<1> DEFINE less(x) == (x - rule.start) * rule.perMv
<1>2. ASSUME NEW x \in Nat, DriftFits(rule, max, x), x > rule.start
      PROVE  less(x) \in Nat /\ Int16(max - less(x)) = max - less(x)
  <2>1. x - rule.start \in Nat  BY <1>1, <1>2
  <2>2. less(x) \in Nat  BY <1>1, <2>1, ProductIs
  <2>3. max <= 32767 /\ max - less(x) >= -32768  BY <1>2 DEF DriftFits
  <2> HIDE DEF less
  <2>4. max - less(x) \in Int /\ -32768 <= max - less(x) /\ max - less(x) <= 32767
    BY <2>2, <2>3
  <2> QED  BY <2>2, <2>4, Int16Is
<1>3. ASSUME NEW x \in Nat, DriftFits(rule, max, x), NEW u \in Nat
      PROVE  DriftLimit(rule, max, x, u) \in 0 .. max
  <2>1. CASE rule.on /\ x > rule.start /\ u >= rule.cell
    <3>1. less(x) \in Nat /\ Int16(max - less(x)) = max - less(x)
      BY <1>2, <1>3, <2>1
    <3>2. DriftLimit(rule, max, x, u) = AtLeast0(max - less(x))
      BY <2>1, <3>1 DEF DriftLimit
    <3> HIDE DEF less
    <3> QED  BY <3>1, <3>2 DEF AtLeast0
  <2>2. CASE ~(rule.on /\ x > rule.start /\ u >= rule.cell)
    BY <2>2 DEF DriftLimit
  <2> QED  BY <2>1, <2>2
<1>4. DriftLimit(rule, max, e, w) <= DriftLimit(rule, max, d, v)
  <2>1. CASE rule.on /\ d > rule.start /\ v >= rule.cell
    <3>1. rule.on /\ e > rule.start /\ w >= rule.cell  BY <1>1, <2>1
    <3>2. /\ less(d) \in Nat /\ Int16(max - less(d)) = max - less(d)
          /\ less(e) \in Nat /\ Int16(max - less(e)) = max - less(e)
      BY <1>2, <2>1, <3>1
    <3>3. less(d) <= less(e)
      <4>1. d - rule.start \in Nat /\ e - rule.start \in Nat
            /\ d - rule.start <= e - rule.start
        BY <1>1, <2>1
      <4> QED  BY <1>1, <4>1, ProductMonotone
    <3>4. /\ DriftLimit(rule, max, d, v) = AtLeast0(max - less(d))
          /\ DriftLimit(rule, max, e, w) = AtLeast0(max - less(e))
      BY <2>1, <3>1, <3>2 DEF DriftLimit
    <3> HIDE DEF less
    <3> QED  BY <3>2, <3>3, <3>4 DEF AtLeast0
  <2>2. CASE ~(rule.on /\ d > rule.start /\ v >= rule.cell)
    <3>1. DriftLimit(rule, max, d, v) = max  BY <2>2 DEF DriftLimit
    <3> QED  BY <1>3, <3>1
  <2> QED  BY <2>1, <2>2
<1> QED  BY <1>3, <1>4

LEMMA SocLimitIs ==
  ASSUME NEW rule \in SocRule, NEW max \in Nat, NEW s \in Nat, NEW t \in Nat, s <= t
  PROVE  /\ SocLimit(rule, max, s) \in 0 .. max
         /\ SocLimit(rule, max, t) <= SocLimit(rule, max, s)
<1>1. rule.from \in Nat /\ rule.perPercent \in Nat  BY DEF SocRule
<1> DEFINE less(x) == (x - rule.from + 1) * rule.perPercent
<1>2. ASSUME NEW x \in Nat, NEW y \in Nat, x >= rule.from, x <= y
      PROVE  less(x) \in Nat /\ less(y) \in Nat /\ less(x) <= less(y)
  <2>1. x - rule.from + 1 \in Nat /\ y - rule.from + 1 \in Nat
        /\ x - rule.from + 1 <= y - rule.from + 1
    BY <1>1, <1>2
  <2> QED  BY <1>1, <2>1, ProductIs, ProductMonotone
<1>3. ASSUME NEW x \in Nat
      PROVE  SocLimit(rule, max, x) \in 0 .. max
  <2>1. CASE rule.on /\ x >= rule.from
    <3>1. less(x) \in Nat  BY <1>2, <2>1
    <3>2. SocLimit(rule, max, x) = AtLeast0(max - less(x))  BY <2>1 DEF SocLimit
    <3> HIDE DEF less
    <3> QED  BY <3>1, <3>2 DEF AtLeast0
  <2>2. CASE ~(rule.on /\ x >= rule.from)
    BY <2>2 DEF SocLimit
  <2> QED  BY <2>1, <2>2
<1>4. SocLimit(rule, max, t) <= SocLimit(rule, max, s)
  <2>1. CASE rule.on /\ s >= rule.from
    <3>1. less(s) \in Nat /\ less(t) \in Nat /\ less(s) <= less(t)
      BY <1>2, <2>1
    <3>2. /\ SocLimit(rule, max, s) = AtLeast0(max - less(s))
          /\ SocLimit(rule, max, t) = AtLeast0(max - less(t))
      BY <1>1, <2>1 DEF SocLimit
    <3> HIDE DEF less
    <3> QED  BY <3>1, <3>2 DEF AtLeast0
  <2>2. CASE ~(rule.on /\ s >= rule.from)
    <3>1. SocLimit(rule, max, s) = max  BY <2>2 DEF SocLimit
    <3> QED  BY <1>3, <3>1
  <2> QED  BY <2>1, <2>2
<1> QED  BY <1>3, <1>4

-----------------------------------------------------------------------------
(* When a limit divides by zero.                                           *)

LEMMA StepIsZero ==
  ASSUME NEW max \in Nat, NEW floor \in Nat, floor < max, NEW range \in Nat
  PROVE  StepPerAmp(max, range, floor) = 0 <=> range * 100 < max - floor
<1> DEFINE a == range * 100
           b == max - floor
           q == a \div b
<1>1. a \in Nat /\ b \in Nat \ {0}  OBVIOUS
<1> HIDE DEF a, b
<1>2. q \in Nat /\ q * b <= a /\ a < (q + 1) * b  BY <1>1, QuotientIs
<1> HIDE DEF q
<1>3. q = 0 => a < b  BY <1>1, <1>2
<1>4. ASSUME a < b, q # 0 PROVE FALSE
  <2>1. q >= 1  BY <1>2, <1>4
  <2>2. 1 * b <= q * b  BY <1>1, <1>2, <2>1, ProductMonotone
  <2> QED  BY <1>1, <1>2, <1>4, <2>2
<1>5. q = 0 <=> a < b  BY <1>2, <1>3, <1>4
<1> QED  BY <1>5 DEF StepPerAmp, a, b, q

(* The settings alone decide whether a limit can reset the controller: it  *)
(* does so at every cell voltage between the start and the end of its      *)
(* range, if that is narrower in mV than a hundredth of the current in A   *)
(* that is taken away over it.  (Canbus.cpp:667-679, 763-779)              *)
THEOREM TrapsWhenNarrow ==
  ASSUME NEW rule \in CellRule, NEW max \in Nat, NEW v \in Nat
  PROVE  /\ CellLimitTraps(rule, max, v) <=>
              /\ rule.on /\ rule.floor < max /\ rule.start <= v /\ v <= rule.end
              /\ (rule.end - rule.start) * 100 < max - rule.floor
         /\ DischargeLimitTraps(rule, max, v) <=>
              /\ rule.floor < max /\ rule.end <= v /\ v <= rule.start
              /\ rule.end < rule.start
              /\ (rule.start - rule.end) * 100 < max - rule.floor
<1>1. rule.start \in Nat /\ rule.end \in Nat /\ rule.floor \in Nat
  BY DEF CellRule
<1>2. CellLimitTraps(rule, max, v) <=>
        /\ rule.on /\ rule.floor < max /\ rule.start <= v /\ v <= rule.end
        /\ (rule.end - rule.start) * 100 < max - rule.floor
  <2>1. CASE rule.floor < max /\ rule.start <= rule.end
    <3> DEFINE range == rule.end - rule.start
    <3>1. range \in Nat  BY <1>1, <2>1
    <3> HIDE DEF range
    <3>2. StepPerAmp(max, range, rule.floor) = 0 <=> range * 100 < max - rule.floor
      BY <1>1, <2>1, <3>1, StepIsZero
    <3> QED  BY <1>1, <2>1, <3>2 DEF CellLimitTraps, CellRuleApplies, range
  <2>2. CASE ~(rule.floor < max /\ rule.start <= rule.end)
    BY <1>1, <2>2 DEF CellLimitTraps, CellRuleApplies
  <2> QED  BY <2>1, <2>2
<1>3. DischargeLimitTraps(rule, max, v) <=>
        /\ rule.floor < max /\ rule.end <= v /\ v <= rule.start
        /\ rule.end < rule.start
        /\ (rule.start - rule.end) * 100 < max - rule.floor
  <2>1. CASE rule.floor < max /\ rule.end < rule.start
    <3> DEFINE range == rule.start - rule.end
    <3>1. range \in Nat  BY <1>1, <2>1
    <3> HIDE DEF range
    <3>2. StepPerAmp(max, range, rule.floor) = 0 <=> range * 100 < max - rule.floor
      BY <1>1, <2>1, <3>1, StepIsZero
    <3> QED  BY <1>1, <2>1, <3>2 DEF DischargeLimitTraps, DischargeRuleApplies, range
  <2>2. CASE ~(rule.floor < max /\ rule.end < rule.start)
    BY <1>1, <2>2 DEF DischargeLimitTraps, DischargeRuleApplies
  <2> QED  BY <2>1, <2>2
<1> QED  BY <1>2, <1>3

-----------------------------------------------------------------------------
(* The sweep.                                                              *)

LEMMA LowestIs ==
  ASSUME NEW S \in SUBSET Nat, S # {}
  PROVE  Lowest(S) \in S
<1>1. \E m \in S : \A n \in S : <<n, m>> \notin OpToRel(<, Nat)
  BY WFMin, NatLessThanWellFounded, Zenon
<1>2. ASSUME NEW m \in S, NEW n \in S, <<n, m>> \notin OpToRel(<, Nat)
      PROVE  m <= n
  BY <1>2 DEF OpToRel
<1>3. \E m \in S : \A n \in S : m <= n  BY <1>1, <1>2, Zenon
<1> QED  BY <1>3 DEF Lowest

SweepInv ==
  /\ rules \in Rules /\ Safe(rules)
  /\ cell \in Voltages /\ diff \in Diffs /\ soc \in Socs

LEMMA SweepInit == Init => SweepInv
<1> SUFFICES ASSUME Init PROVE SweepInv
  OBVIOUS
<1>1. Lowest(Voltages) \in Voltages /\ Lowest(Diffs) \in Diffs /\ Lowest(Socs) \in Socs
  BY ReadingsAssumption, LowestIs
<1> QED  BY <1>1 DEF Init, SweepInv

LEMMA SweepNext == SweepInv /\ [Next]_vars => SweepInv'
<1> SUFFICES ASSUME SweepInv, [Next]_vars PROVE SweepInv'
  OBVIOUS
<1>1. rules' = rules /\ cell' \in Voltages /\ diff' \in Diffs /\ soc' \in Socs
  BY DEF SweepInv, Next, RiseCell, RiseDiff, RiseSoc, vars
<1> QED  BY <1>1 DEF SweepInv, Safe

LEMMA RulesAre ==
  ASSUME SweepInv
  PROVE  /\ rules.max \in Nat /\ rules.cell \in CellRule /\ rules.drift \in DriftRule
         /\ rules.soc \in SocRule /\ rules.discharge \in CellRule
         /\ cell \in Nat /\ diff \in Nat /\ soc \in Nat
BY RulesAssumption, ReadingsAssumption DEF SweepInv

(* No limit is above the maximum or below 0, and the throttling by a cell  *)
(* voltage leaves the minimum current, however the divisions round.        *)
(* (Canbus.cpp:652-793)                                                    *)
THEOREM SweepInRange == Fits => (Spec => []LimitsInRange)
<1> SUFFICES ASSUME Fits PROVE Spec => []LimitsInRange
  OBVIOUS
<1>1. SweepInv => LimitsInRange
  <2> SUFFICES ASSUME SweepInv PROVE LimitsInRange
    OBVIOUS
  <2>1. ~CellLimitTraps(rules.cell, rules.max, cell)
        /\ ~DischargeLimitTraps(rules.discharge, rules.max, cell)
    BY DEF SweepInv, Safe
  <2>2. DriftFits(rules.drift, rules.max, diff)  BY DEF SweepInv, Fits
  <2>3. /\ ByCell <= rules.max
        /\ rules.cell.floor <= rules.max => ByCell >= rules.cell.floor
    BY <2>1, RulesAre, CellLimitIs DEF ByCell
  <2>4. /\ Drain <= rules.max
        /\ rules.discharge.floor <= rules.max => Drain >= rules.discharge.floor
    BY <2>1, RulesAre, DischargeLimitIs DEF Drain
  <2>5. ByDrift \in 0 .. rules.max  BY <2>2, RulesAre, DriftLimitIs DEF ByDrift
  <2>6. BySoc \in 0 .. rules.max  BY RulesAre, SocLimitIs DEF BySoc
  <2> QED  BY <2>3, <2>4, <2>5, <2>6 DEF LimitsInRange
<1> QED  BY <1>1, SweepInit, SweepNext, PTL DEF Spec

(* As the battery fills no limit of the charge current gets weaker, and as *)
(* the cells rise the limit of the discharge current does not get          *)
(* stronger: there is no jump at the start, at the end or by rounding.     *)
(* (Canbus.cpp:652-793)                                                    *)
THEOREM SweepFalls == Fits => (Spec => LimitsFall)
<1> SUFFICES ASSUME Fits PROVE Spec => LimitsFall
  OBVIOUS
<1>1. SweepInv /\ SweepInv' /\ [Next]_vars =>
        [ByCell' <= ByCell /\ ByDrift' <= ByDrift /\ BySoc' <= BySoc /\ Drain <= Drain']_vars
  <2> SUFFICES ASSUME SweepInv, SweepInv', Next
               PROVE  ByCell' <= ByCell /\ ByDrift' <= ByDrift /\ BySoc' <= BySoc
                        /\ Drain <= Drain'
    OBVIOUS
  <2>1. /\ rules' = rules /\ cell' \in Nat /\ diff' \in Nat /\ soc' \in Nat
        /\ cell <= cell' /\ diff <= diff' /\ soc <= soc'
    BY RulesAre, ReadingsAssumption DEF Next, RiseCell, RiseDiff, RiseSoc, SweepInv
  <2>2. /\ ~CellLimitTraps(rules.cell, rules.max, cell)
        /\ ~DischargeLimitTraps(rules.discharge, rules.max, cell)
        /\ ~CellLimitTraps(rules.cell, rules.max, cell')
        /\ ~DischargeLimitTraps(rules.discharge, rules.max, cell')
    BY <2>1 DEF SweepInv, Safe
  <2>3. DriftFits(rules.drift, rules.max, diff) /\ DriftFits(rules.drift, rules.max, diff')
    BY DEF SweepInv, Fits
  <2>4. ByCell' <= ByCell  BY <2>1, <2>2, RulesAre, CellLimitIs DEF ByCell
  <2>5. Drain <= Drain'  BY <2>1, <2>2, RulesAre, DischargeLimitIs DEF Drain
  <2>6. ByDrift' <= ByDrift  BY <2>1, <2>3, RulesAre, DriftLimitIs DEF ByDrift
  <2>7. BySoc' <= BySoc  BY <2>1, RulesAre, SocLimitIs DEF BySoc
  <2> QED  BY <2>4, <2>5, <2>6, <2>7
<1> QED  BY <1>1, SweepInit, SweepNext, PTL DEF Spec, LimitsFall
=============================================================================
