---------------------------- MODULE ChargeProofs ----------------------------
(***************************************************************************)
(* Proof about ChargeHistory, for any packs, readings and settings.        *)
(***************************************************************************)
EXTENDS ChargeHistory, FiniteSetTheorems, NaturalsInduction, WellFoundedInduction, TLAPS

(* What is left of the lock time and the cycles that have passed add up to *)
(* the lock time that was set.  A lock time of 0 counts down from 65535,   *)
(* so that they may add up to more.  After a pause the time has passed,    *)
(* unless a restart has ended it.                                          *)
LockInv ==
  /\ cfg \in Settings
  /\ lockTimer \in Nat /\ due \in Nat /\ waited \in Nat
  /\ refill \in {"wait", "below", "locked"}
  /\ refill = "locked" => waited + lockTimer >= due
  /\ RefillPause

LEMMA FamilyIsSettings ==
  ASSUME cfg \in Settings PROVE SameFamily \subseteq Settings
BY SettingsAssumption DEF SameFamily

LEMMA LockInit == HInit => LockInv
<1> SUFFICES ASSUME HInit PROVE LockInv
  OBVIOUS
<1>1. cfg \in Settings
  BY SettingsAssumption DEF HInit, Init
<1> QED  BY <1>1 DEF HInit, Init, Setup, LockInv, RefillPause

LEMMA MaxIsFree ==
  ASSUME NEW c \in Settings, NEW m \in Nat
  PROVE  [c EXCEPT !.max = m] \in Settings
BY DEF Settings

LEMMA MaxIsNat ==
  ASSUME NEW c \in Settings
  PROVE  c.max \in Nat
BY DEF Settings

LEMMA TimeIsNat ==
  ASSUME NEW c \in Settings
  PROVE  c.refill.time \in Nat
<1>1. c.refill \in RefillRule
  BY DEF Settings
<1>2. c.refill.time \in 0 .. Hour
  BY <1>1 DEF RefillRule
<1>3. \A n \in 0 .. Hour : n \in Nat
  BY DEF Hour
<1> QED  BY <1>2, <1>3

(* Only two actions of the web server change the settings, and only message *)
(* 355 and a restart touch the recharging.                                 *)
LEMMA StepKinds ==
  ASSUME [HNext]_hvars
  PROVE  /\ SetMaxCharge \/ SaveSettings \/ cfg' = cfg
         /\ Restart \/ AwaitLow \/ AwaitEnd \/ AwaitLock
            \/ UNCHANGED <<refill, lockTimer>>
<1> DEFINE Kinds == /\ SetMaxCharge \/ SaveSettings \/ cfg' = cfg
                    /\ Restart \/ AwaitLow \/ AwaitEnd \/ AwaitLock
                       \/ UNCHANGED <<refill, lockTimer>>
<1>1. CASE Send351
  BY <1>1 DEF Send351
<1>2. CASE Send355
  BY <1>2 DEF Send355
<1>3. CASE Send356 \/ Disabled
  BY <1>3 DEF Send356, Disabled, control
<1>4. CASE WebStep
  BY <1>4 DEF WebStep, SetMaxCharge, SaveSettings, LoadMaster, LoadAdded, ClearMaster,
              control
<1>5. CASE BmsStep \/ SetLimits
  BY <1>5 DEF BmsStep, Report, FallSilent, SetLimits, control
<1>6. CASE Restart
  BY <1>6 DEF Restart
<1>7. CASE UNCHANGED hvars
  BY <1>7 DEF hvars, vars, control
<1>8. Next \/ UNCHANGED hvars
  BY DEF HNext
<1> QED  BY <1>1, <1>2, <1>3, <1>4, <1>5, <1>6, <1>7, <1>8 DEF Next, CanStep

(* The settings stay settings.                                             *)
LEMMA SettingsNext ==
  ASSUME cfg \in Settings, [HNext]_hvars
  PROVE  cfg' \in Settings
<1>1. SameFamily \subseteq Settings
  BY FamilyIsSettings
<1>2. CASE SetMaxCharge
  <2>1. PICK c \in SameFamily : cfg' = [cfg EXCEPT !.max = c.max]
    BY <1>2 DEF SetMaxCharge
  <2>2. c.max \in Nat
    BY <1>1, MaxIsNat
  <2> QED  BY <2>1, <2>2, MaxIsFree
<1>3. CASE SaveSettings
  BY <1>1, <1>3 DEF SaveSettings
<1>4. CASE cfg' = cfg
  BY <1>4
<1> QED  BY <1>2, <1>3, <1>4, StepKinds

(* What a step does to the history.                                        *)
LEMMA HistoryNext ==
  ASSUME [HNext]_hvars
  PROVE  \/ /\ Restart /\ due' = due /\ waited' = waited
            /\ forgotten' = IF refill = "locked" THEN TRUE ELSE forgotten
         \/ Locks /\ due' = cfg.refill.time /\ waited' = 0
         \/ Waits /\ due' = due /\ waited' = waited + 1
         \/ /\ ~Restart /\ ~Locks /\ (refill = "locked" => lockTimer' = lockTimer)
            /\ due' = due /\ waited' = waited /\ forgotten' = forgotten
         \/ UNCHANGED <<refill, lockTimer, due, waited, forgotten>>
<1>1. CASE HNext
  <2>1. Restart => ~Locks /\ ~Waits  BY DEF Restart, Locks, Waits
  <2>2. Waits => ~Locks  BY DEF Locks, Waits
  <2> QED  BY <1>1, <2>1, <2>2 DEF HNext, Waits
<1>2. CASE UNCHANGED hvars
  BY <1>2 DEF hvars, vars, control, Locks
<1> QED  BY <1>1, <1>2

LEMMA LockNext == LockInv /\ [HNext]_hvars => LockInv'
<1> SUFFICES ASSUME LockInv, [HNext]_hvars PROVE LockInv'
  OBVIOUS
<1>1. cfg \in Settings
  BY DEF LockInv
<1>2. cfg' \in Settings
  BY <1>1, SettingsNext
<1>3. cfg.refill.time \in Nat
  BY <1>1, TimeIsNat
<1>4. /\ lockTimer \in Nat /\ due \in Nat /\ waited \in Nat
      /\ refill \in {"wait", "below", "locked"}
      /\ refill = "locked" => waited + lockTimer >= due
      /\ refill # "locked" => waited >= due \/ forgotten
  BY DEF LockInv, RefillPause
<1>5. SUFFICES /\ lockTimer' \in Nat /\ due' \in Nat /\ waited' \in Nat
               /\ refill' \in {"wait", "below", "locked"}
               /\ refill' = "locked" => waited' + lockTimer' >= due'
               /\ refill' # "locked" => waited' >= due' \/ forgotten'
  BY <1>2 DEF LockInv, RefillPause
<1>6. CASE /\ Restart /\ due' = due /\ waited' = waited
           /\ forgotten' = IF refill = "locked" THEN TRUE ELSE forgotten
  <2>1. refill' = "wait" /\ lockTimer' = 0  BY <1>6 DEF Restart
  <2> QED  BY <1>4, <1>6, <2>1
<1>7. CASE Locks /\ due' = cfg.refill.time /\ waited' = 0
  <2>1. lockTimer' = cfg.refill.time
    <3>1. AwaitEnd
      BY <1>7, StepKinds DEF Locks, AwaitLow, AwaitLock, Restart
    <3> QED  BY <1>7, <3>1 DEF Locks, AwaitEnd
  <2>2. refill' = "locked"
    BY <1>7 DEF Locks
  <2> QED  BY <1>3, <1>7, <2>1, <2>2
<1>8. CASE Waits /\ due' = due /\ waited' = waited + 1
  <2>1. AwaitLock
    BY <1>8, StepKinds DEF Waits, AwaitLow, AwaitEnd
  <2> QED  BY <1>4, <1>8, <2>1 DEF AwaitLock, LockEnds
<1>9. CASE /\ ~Restart /\ ~Locks /\ (refill = "locked" => lockTimer' = lockTimer)
           /\ due' = due /\ waited' = waited /\ forgotten' = forgotten
  <2>1. CASE AwaitLow
    BY <1>4, <1>9, <2>1 DEF AwaitLow
  <2>2. CASE AwaitEnd
    BY <1>4, <1>9, <2>2 DEF AwaitEnd, Locks
  <2>3. CASE AwaitLock
    BY <1>4, <1>9, <2>3 DEF AwaitLock
  <2>4. CASE UNCHANGED <<refill, lockTimer>>
    BY <1>4, <1>9, <2>4
  <2> QED  BY <1>9, <2>1, <2>2, <2>3, <2>4, StepKinds
<1>10. CASE UNCHANGED <<refill, lockTimer, due, waited, forgotten>>
  BY <1>4, <1>10
<1> QED  BY <1>6, <1>7, <1>8, <1>9, <1>10, HistoryNext

(* Between two rechargings at least the configured time passes, for every  *)
(* lock time from 0 to 3600 s and every way to change it, whatever the     *)
(* BMS, the alarms and the web server do; a restart during the pause, and  *)
(* nothing else, may end it early.  (Canbus.cpp:911-961)                   *)
THEOREM PauseKept == HSpec => []RefillPause
<1>1. LockInv => RefillPause
  BY DEF LockInv
<1> QED  BY LockInit, LockNext, <1>1, PTL DEF HSpec
-----------------------------------------------------------------------------
(* What is left of the lock time, exactly.                                 *)
LeftInv ==
  /\ refill = "locked" =>
       \/ lockTimer >= 1 /\ waited + lockTimer = due
       \/ due = 0 /\ waited = 0 /\ lockTimer = 0
       \/ due = 0 /\ lockTimer >= 1 /\ waited + lockTimer = 65536
  /\ PauseBounded

LEMMA LeftNext == LockInv /\ LeftInv /\ [HNext]_hvars => LeftInv'
<1> SUFFICES ASSUME LockInv, LeftInv, [HNext]_hvars PROVE LeftInv'
  OBVIOUS
<1>1. /\ lockTimer \in Nat /\ due \in Nat /\ waited \in Nat /\ cfg.refill.time \in Nat
      /\ refill \in {"wait", "below", "locked"}
  BY TimeIsNat DEF LockInv
<1>2. /\ refill = "locked" =>
           \/ lockTimer >= 1 /\ waited + lockTimer = due
           \/ due = 0 /\ waited = 0 /\ lockTimer = 0
           \/ due = 0 /\ lockTimer >= 1 /\ waited + lockTimer = 65536
      /\ due = 0 => waited <= 65536
      /\ due # 0 => waited <= due
  BY DEF LeftInv, PauseBounded
<1> DEFINE Left == /\ refill' = "locked" =>
                        \/ lockTimer' >= 1 /\ waited' + lockTimer' = due'
                        \/ due' = 0 /\ waited' = 0 /\ lockTimer' = 0
                        \/ due' = 0 /\ lockTimer' >= 1 /\ waited' + lockTimer' = 65536
                   /\ due' = 0 => waited' <= 65536
                   /\ due' # 0 => waited' <= due'
<1>3. SUFFICES Left
  BY DEF LeftInv, PauseBounded
<1>4. CASE Restart /\ due' = due /\ waited' = waited
  BY <1>2, <1>4 DEF Restart
<1>5. CASE Locks /\ due' = cfg.refill.time /\ waited' = 0
  <2>1. AwaitEnd
    BY <1>5, StepKinds DEF Locks, AwaitLow, AwaitLock, Restart
  <2>2. lockTimer' = cfg.refill.time
    BY <1>5, <2>1 DEF Locks, AwaitEnd
  <2> QED  BY <1>1, <1>5, <2>2
<1>6. CASE Waits /\ due' = due /\ waited' = waited + 1
  <2>1. AwaitLock
    BY <1>6, StepKinds DEF Waits, AwaitLow, AwaitEnd
  <2>2. CASE lockTimer = 0
    <3>1. lockTimer' = 65535 /\ due = 0 /\ waited = 0
      BY <1>2, <1>6, <2>1, <2>2 DEF AwaitLock
    <3> QED  BY <1>6, <3>1
  <2>3. CASE lockTimer # 0
    <3>1. lockTimer' = lockTimer - 1 /\ (refill' = "locked" => lockTimer' # 0)
      BY <1>1, <2>1, <2>3 DEF AwaitLock, LockEnds
    <3>2. lockTimer >= 1 /\ lockTimer' >= 0  BY <1>1, <2>3, <3>1
    <3>3. waited + lockTimer = due \/ (due = 0 /\ waited + lockTimer = 65536)
      BY <1>2, <2>3, <1>6 DEF Waits
    <3>4. waited' + lockTimer' = due' \/ (due' = 0 /\ waited' + lockTimer' = 65536)
      BY <1>1, <1>6, <3>1, <3>3
    <3>5. (due' = 0 => waited' <= 65536) /\ (due' # 0 => waited' <= due')
      BY <1>1, <1>6, <3>1, <3>2, <3>4
    <3> QED  BY <1>1, <1>6, <3>1, <3>2, <3>4, <3>5
  <2> QED  BY <2>2, <2>3
<1>7. CASE /\ ~Restart /\ ~Locks /\ (refill = "locked" => lockTimer' = lockTimer)
           /\ due' = due /\ waited' = waited
  <2>1. refill' = "locked" => refill = "locked"
    BY <1>1, <1>7, StepKinds DEF Locks, AwaitLow, AwaitEnd, AwaitLock
  <2> QED  BY <1>2, <1>7, <2>1
<1>8. CASE UNCHANGED <<refill, lockTimer, due, waited, forgotten>>
  BY <1>2, <1>8
<1> HIDE DEF Left
<1> QED  BY <1>4, <1>5, <1>6, <1>7, <1>8, HistoryNext

(* No pause is longer than the lock time that was set, counted in cycles   *)
(* in which the battery is not reported full, however often it is          *)
(* interrupted or the lock time changed; only one of 0 lasts 65536 cycles. *)
(* (Canbus.cpp:947-953)                                                    *)
THEOREM PauseEnds == HSpec => []PauseBounded
<1>1. HInit => LeftInv
  BY DEF HInit, Init, Setup, LeftInv, PauseBounded
<1>2. LeftInv => PauseBounded
  BY DEF LeftInv
<1> QED  BY <1>1, <1>2, LockInit, LockNext, LeftNext, PTL DEF HSpec
-----------------------------------------------------------------------------
(* Sums over finite sets.                                                  *)

(* A set of natural numbers has a least one.                               *)
LEMMA LeastIs ==
  ASSUME NEW N \in SUBSET Nat, N # {}
  PROVE  \E m \in N : \A n \in N : m <= n
<1>1. \E m \in N : \A n \in N : <<n, m>> \notin OpToRel(<, Nat)
  BY WFMin, NatLessThanWellFounded, Zenon
<1>2. ASSUME NEW m \in N, NEW n \in N, <<n, m>> \notin OpToRel(<, Nat)
      PROVE  m <= n
  BY <1>2 DEF OpToRel
<1> QED  BY <1>1, <1>2, Zenon

(* If a family holds every subset of a finite set whose proper subsets it  *)
(* holds, it holds every one.                                              *)
LEMMA SmallestSubset ==
  ASSUME NEW S, IsFiniteSet(S), NEW G,
         \A T \in SUBSET S : (\A U \in SUBSET T : U # T => U \in G) => T \in G
  PROVE  SUBSET S \subseteq G
<1> DEFINE Bad == {T \in SUBSET S : T \notin G}
           Sizes == {Cardinality(T) : T \in Bad}
<1>1. \A T \in SUBSET S : IsFiniteSet(T) /\ Cardinality(T) \in Nat
  BY FS_Subset, FS_CardinalityType
<1>2. SUFFICES ASSUME Bad # {} PROVE FALSE
  OBVIOUS
<1>3. Sizes \subseteq Nat /\ Sizes # {}
  BY <1>1, <1>2
<1> HIDE DEF Sizes
<1>4. PICK m \in Sizes : \A n \in Sizes : m <= n
  BY <1>3, LeastIs
<1>5. PICK T \in Bad : m = Cardinality(T)
  BY <1>4 DEF Sizes
<1>6. ASSUME NEW U \in SUBSET T, U # T, U \notin G PROVE FALSE
  <2>1. U \in Bad  BY <1>6
  <2>2. Cardinality(U) \in Sizes  BY <2>1 DEF Sizes
  <2>3. IsFiniteSet(T) /\ Cardinality(T) \in Nat /\ Cardinality(U) \in Nat
    BY <1>1, <2>1
  <2>4. Cardinality(U) <= Cardinality(T) /\ Cardinality(U) # Cardinality(T)
    BY <1>6, <2>3, FS_Subset
  <2>5. Cardinality(U) < m BY <1>5, <2>3, <2>4
  <2> QED  BY <1>4, <1>5, <2>2, <2>3, <2>5
<1> QED  BY <1>6

(* h gives every part of S its sum of f: the value of the element that the *)
(* recursion chooses, and the sum of the others.                           *)
Sums(f, S, h) ==
  h = [s \in SUBSET S |->
         IF s = {} THEN 0
         ELSE LET x == CHOOSE x \in s : TRUE IN f[x] + h[s \ {x}]]

LEMMA TotalIs ==
  ASSUME NEW f, NEW S
  PROVE  Total(f, S) = (CHOOSE h : Sums(f, S, h))[S]
BY DEF Total, MapThenSumSet, MapThenFoldSet, Sums

(* There is one such h at most, and one at least: what the recursion means *)
(* is defined.                                                             *)
LEMMA SumsUnique ==
  ASSUME NEW f, NEW S, NEW T, IsFiniteSet(S), NEW g, NEW h,
         Sums(f, S, g), Sums(f, T, h)
  PROVE  \A U \in SUBSET (S \cap T) : g[U] = h[U]
<1> DEFINE G == {U \in SUBSET (S \cap T) : g[U] = h[U]}
<1>1. IsFiniteSet(S \cap T)  BY FS_Subset
<1>2. ASSUME NEW U \in SUBSET (S \cap T), \A V \in SUBSET U : V # U => V \in G
      PROVE  g[U] = h[U]
  <2> DEFINE x == CHOOSE x \in U : TRUE
  <2>1. g[U] = IF U = {} THEN 0 ELSE f[x] + g[U \ {x}]
    BY DEF Sums
  <2>2. h[U] = IF U = {} THEN 0 ELSE f[x] + h[U \ {x}]
    BY DEF Sums
  <2>3. ASSUME U # {} PROVE g[U \ {x}] = h[U \ {x}]
    <3>1. x \in U BY <2>3
    <3>2. U \ {x} \in SUBSET U /\ U \ {x} # U BY <3>1
    <3> QED  BY <1>2, <3>2
  <2> QED  BY <2>1, <2>2, <2>3
<1>3. SUBSET (S \cap T) \subseteq G
  <2> DEFINE R == S \cap T
  <2>1. \A U \in SUBSET R : (\A V \in SUBSET U : V # U => V \in G) => U \in G
    BY <1>2
  <2>2. IsFiniteSet(R)  BY <1>1
  <2> HIDE DEF G, R
  <2>3. SUBSET R \subseteq G  BY <2>1, <2>2, SmallestSubset, Zenon
  <2> QED  BY <2>3 DEF R
<1> QED  BY <1>3

LEMMA SumsExist ==
  ASSUME NEW f, NEW S, IsFiniteSet(S)
  PROVE  \E h : Sums(f, S, h)
<1> DEFINE G == {T \in SUBSET S : \E h : Sums(f, T, h)}
<1>1. ASSUME NEW T \in SUBSET S, \A U \in SUBSET T : U # T => U \in G
      PROVE  \E h : Sums(f, T, h)
  <2> DEFINE s(U) == IF U = {} THEN 0
                     ELSE LET x == CHOOSE x \in U : TRUE IN f[x] + Total(f, U \ {x})
             h == [U \in SUBSET T |-> s(U)]
  <2>1. ASSUME NEW V \in SUBSET T, V # T PROVE Total(f, V) = s(V)
    <3> DEFINE i == CHOOSE i : Sums(f, V, i)
               x == CHOOSE x \in V : TRUE
               j == CHOOSE j : Sums(f, V \ {x}, j)
    <3>1. Sums(f, V, i)  BY <1>1, <2>1
    <3>2. Total(f, V) = i[V]  BY TotalIs
    <3>3. i[V] = IF V = {} THEN 0 ELSE f[x] + i[V \ {x}]  BY <3>1 DEF Sums
    <3>4. ASSUME V # {} PROVE i[V \ {x}] = Total(f, V \ {x})
      <4>1. V \ {x} \in SUBSET T /\ V \ {x} # T  BY <2>1
      <4>2. Sums(f, V \ {x}, j)  BY <1>1, <4>1
      <4>3. Total(f, V \ {x}) = j[V \ {x}]  BY TotalIs
      <4>4. IsFiniteSet(V)  BY FS_Subset
      <4> HIDE DEF i, j, x
      <4> QED  BY <3>1, <4>2, <4>3, <4>4, SumsUnique
    <3> QED  BY <3>2, <3>3, <3>4
  <2>2. ASSUME NEW U \in SUBSET T, U # {}
        PROVE  LET x == CHOOSE x \in U : TRUE IN h[U \ {x}] = Total(f, U \ {x})
    <3> DEFINE x == CHOOSE x \in U : TRUE
    <3>1. x \in U  BY <2>2
    <3> HIDE DEF x
    <3>2. U \ {x} \in SUBSET T /\ U \ {x} # T  BY <3>1
    <3>3. h[U \ {x}] = s(U \ {x})  BY <3>2
    <3>4. h[U \ {x}] = Total(f, U \ {x})  BY <2>1, <3>2, <3>3
    <3> QED  BY <3>4 DEF x
  <2>3. Sums(f, T, h)
    <3>1. ASSUME NEW U \in SUBSET T
          PROVE  s(U) = IF U = {} THEN 0
                        ELSE LET x == CHOOSE x \in U : TRUE IN f[x] + h[U \ {x}]
      <4> HIDE DEF h
      <4> QED  BY <2>2
    <3> HIDE DEF s
    <3>2. h = [U \in SUBSET T |->
                 IF U = {} THEN 0
                 ELSE LET x == CHOOSE x \in U : TRUE IN f[x] + h[U \ {x}]]
      BY <3>1, Zenon
    <3> QED  BY <3>2 DEF Sums
  <2> QED  BY <2>3
<1>2. SUBSET S \subseteq G
  <2> HIDE DEF G
  <2>1. \A T \in SUBSET S : (\A U \in SUBSET T : U # T => U \in G) => T \in G
    BY <1>1 DEF G
  <2> QED  BY <2>1, SmallestSubset
<1> QED  BY <1>2

(* The sum of none is 0; that of others is the value of one of them plus   *)
(* the sum of the rest.                                                    *)
LEMMA TotalStep ==
  ASSUME NEW f, NEW S, IsFiniteSet(S)
  PROVE  Total(f, S) = IF S = {} THEN 0
                       ELSE LET x == CHOOSE x \in S : TRUE IN f[x] + Total(f, S \ {x})
<1> DEFINE h == CHOOSE h : Sums(f, S, h)
           x == CHOOSE x \in S : TRUE
           g == CHOOSE g : Sums(f, S \ {x}, g)
<1>1. Sums(f, S, h)  BY SumsExist
<1>2. h[S] = IF S = {} THEN 0 ELSE f[x] + h[S \ {x}]  BY <1>1 DEF Sums
<1>3. Total(f, S) = h[S]  BY TotalIs
<1>4. h[S \ {x}] = Total(f, S \ {x})
  <2>1. IsFiniteSet(S \ {x})  BY FS_Subset
  <2>2. Sums(f, S \ {x}, g)  BY <2>1, SumsExist
  <2>3. Total(f, S \ {x}) = g[S \ {x}]  BY TotalIs
  <2> HIDE DEF h, x, g
  <2>4. \A U \in SUBSET (S \cap (S \ {x})) : h[U] = g[U]
    BY <1>1, <2>2, SumsUnique
  <2> QED  BY <2>3, <2>4
<1> QED  BY <1>2, <1>3, <1>4

(* What holds of the empty set, and of a set when it holds of the set      *)
(* without one of its elements, holds of a finite set.                     *)
LEMMA OneByOne ==
  ASSUME NEW S, IsFiniteSet(S), NEW G, {} \in G,
         \A T \in SUBSET S : \A x \in T : T \ {x} \in G => T \in G
  PROVE  S \in G
<1>1. ASSUME NEW T \in SUBSET S, \A U \in SUBSET T : U # T => U \in G
      PROVE  T \in G
  <2>1. ASSUME NEW x \in T PROVE T \in G
    <3>1. T \ {x} \in SUBSET T /\ T \ {x} # T  OBVIOUS
    <3> QED  BY <1>1, <3>1
  <2> QED  BY <2>1
<1>2. SUBSET S \subseteq G  BY <1>1, SmallestSubset
<1> QED  BY <1>2

(* What bounds every value bounds the sum.                                 *)
LEMMA TotalWithin ==
  ASSUME NEW S, IsFiniteSet(S), NEW f, NEW m \in Int, NEW n \in Int,
         \A p \in S : f[p] \in Int /\ m <= f[p] /\ f[p] <= n
  PROVE  /\ Total(f, S) \in Int
         /\ Cardinality(S) * m <= Total(f, S) /\ Total(f, S) <= Cardinality(S) * n
<1> DEFINE Within(T) == /\ Total(f, T) \in Int
                        /\ Cardinality(T) * m <= Total(f, T)
                        /\ Total(f, T) <= Cardinality(T) * n
           G == {T \in SUBSET S : Within(T)}
<1>1. Within({})
  <2>1. Total(f, {}) = 0 /\ Cardinality({}) = 0
    BY TotalStep, FS_EmptySet
  <2> QED  BY <2>1
<1>2. ASSUME NEW T \in SUBSET S, \A U \in SUBSET T : U # T => U \in G
      PROVE  Within(T)
  <2> DEFINE x == CHOOSE x \in T : TRUE
             U == T \ {x}
  <2>1. CASE T = {}
    BY <1>1, <2>1
  <2>2. CASE T # {}
    <3>1. x \in T  BY <2>2
    <3>2. U \in SUBSET T /\ U # T  BY <3>1
    <3>3. Within(U)  BY <1>2, <3>2
    <3>4. IsFiniteSet(T)  BY FS_Subset
    <3>5. Total(f, T) = f[x] + Total(f, U)  BY <2>2, <3>4, TotalStep
    <3>6. Cardinality(T) \in Nat /\ Cardinality(U) = Cardinality(T) - 1
      BY <3>1, <3>4, FS_RemoveElement, FS_CardinalityType
    <3>7. f[x] \in Int /\ m <= f[x] /\ f[x] <= n  BY <3>1
    <3> HIDE DEF x, U
    <3>8. ASSUME NEW k \in Nat, NEW i \in Int PROVE (k - 1) * i + i = k * i
      OBVIOUS
    <3>9. /\ Cardinality(U) * m + m = Cardinality(T) * m
          /\ Cardinality(U) * n + n = Cardinality(T) * n
      BY <3>6, <3>8
    <3>10. ASSUME NEW c \in Int, NEW d \in Int, NEW t \in Int, NEW y \in Int,
                  c <= t, t <= d, m <= y, y <= n
           PROVE  y + t \in Int /\ c + m <= y + t /\ y + t <= d + n
      BY <3>10
    <3>11. Cardinality(U) * m \in Int /\ Cardinality(U) * n \in Int
      BY <3>6
    <3> QED  BY <3>3, <3>5, <3>7, <3>9, <3>10, <3>11
  <2> QED  BY <2>1, <2>2
<1>3. SUBSET S \subseteq G
  <2> HIDE DEF Within
  <2>1. \A T \in SUBSET S : (\A U \in SUBSET T : U # T => U \in G) => T \in G
    BY <1>2
  <2> HIDE DEF G
  <2> QED  BY <2>1, SmallestSubset
<1> QED  BY <1>3

(* One of finitely many values is the highest, and one is the lowest.      *)
LEMMA HighestIs ==
  ASSUME NEW S, IsFiniteSet(S), S # {}, NEW f, \A p \in S : f[p] \in Int
  PROVE  \E p \in S : \A q \in S : f[q] <= f[p]
<1> DEFINE G == {T \in SUBSET S : T = {} \/ \E p \in T : \A q \in T : f[q] <= f[p]}
<1>1. ASSUME NEW T \in SUBSET S, NEW x \in T, T \ {x} \in G
      PROVE  \E p \in T : \A q \in T : f[q] <= f[p]
  <2>1. CASE T \ {x} = {}
    <3>1. \A q \in T : f[q] <= f[x]  BY <2>1
    <3> QED  BY <3>1
  <2>2. CASE T \ {x} # {}
    <3>1. PICK p \in T \ {x} : \A q \in T \ {x} : f[q] <= f[p]
      BY <1>1, <2>2
    <3>2. CASE f[x] <= f[p]
      <4>1. \A q \in T : f[q] <= f[p]  BY <3>1, <3>2
      <4> QED  BY <4>1
    <3>3. CASE ~(f[x] <= f[p])
      <4>1. \A q \in T : f[q] <= f[x]  BY <3>1, <3>3
      <4> QED  BY <4>1
    <3> QED  BY <3>2, <3>3
  <2> QED  BY <2>1, <2>2
<1>2. {} \in G /\ \A T \in SUBSET S : \A x \in T : T \ {x} \in G => T \in G
  BY <1>1
<1>3. S \in G
  <2> HIDE DEF G
  <2> QED  BY <1>2, OneByOne
<1> QED  BY <1>3

LEMMA LowestIs ==
  ASSUME NEW S, IsFiniteSet(S), S # {}, NEW f, \A p \in S : f[p] \in Int
  PROVE  \E p \in S : \A q \in S : f[p] <= f[q]
<1> DEFINE g == [p \in S |-> -f[p]]
<1>1. \A p \in S : g[p] \in Int  OBVIOUS
<1>2. \E p \in S : \A q \in S : g[q] <= g[p]
  <2> HIDE DEF g
  <2> QED  BY <1>1, HighestIs
<1> QED  BY <1>2

LEMMA TotalIsInt ==
  ASSUME NEW S, IsFiniteSet(S), NEW f, \A p \in S : f[p] \in Int
  PROVE  Total(f, S) \in Int
<1>1. CASE S = {}
  BY <1>1, TotalStep
<1>2. CASE S # {}
  <2>1. PICK p \in S : \A q \in S : f[p] <= f[q]  BY <1>2, LowestIs
  <2>2. PICK r \in S : \A q \in S : f[q] <= f[r]  BY <1>2, HighestIs
  <2> QED  BY <2>1, <2>2, TotalWithin
<1> QED  BY <1>1, <1>2

LEMMA TotalIsNat ==
  ASSUME NEW S, IsFiniteSet(S), NEW f, \A p \in S : f[p] \in Nat
  PROVE  Total(f, S) \in Nat
<1>1. CASE S = {}
  <2>1. Total(f, S) = 0  BY <1>1, TotalStep
  <2> QED  BY <2>1
<1>2. CASE S # {}
  <2>1. \A p \in S : f[p] \in Int  OBVIOUS
  <2>2. PICK r \in S : \A q \in S : f[q] <= f[r]  BY <1>2, <2>1, HighestIs
  <2>3. \A p \in S : f[p] \in Int /\ 0 <= f[p] /\ f[p] <= f[r]  BY <2>2
  <2>4. f[r] \in Int /\ 0 \in Int  BY <2>1
  <2>5. Total(f, S) \in Int /\ Cardinality(S) * 0 <= Total(f, S)
    BY <2>3, <2>4, TotalWithin
  <2>6. Cardinality(S) \in Nat  BY FS_CardinalityType
  <2> QED  BY <2>5, <2>6
<1> QED  BY <1>1, <1>2

(* Min and Max of the sets that the limits are taken from.                 *)
LEMMA MinIs ==
  ASSUME NEW N \in SUBSET Nat, N # {}
  PROVE  Min(N) \in N /\ \A n \in N : Min(N) <= n
<1>1. \E m \in N : \A n \in N : m <= n  BY LeastIs
<1> QED  BY <1>1 DEF Min

LEMMA MaxIs ==
  ASSUME NEW S, IsFiniteSet(S), S # {}, NEW f, \A p \in S : f[p] \in Int
  PROVE  LET m == Max({f[p] : p \in S})
         IN  (\E p \in S : m = f[p]) /\ \A p \in S : f[p] <= m
<1> DEFINE N == {f[p] : p \in S}
<1>1. PICK p \in S : \A q \in S : f[q] <= f[p]  BY HighestIs
<1>2. \A y \in N : y \in Int /\ y <= f[p]  BY <1>1
<1>3. \A q \in S : f[q] \in N  OBVIOUS
<1>4. ASSUME NEW y \in N PROVE \E q \in S : y = f[q]  OBVIOUS
<1> HIDE DEF N
<1>5. \E x \in N : \A y \in N : x >= y  BY <1>1, <1>2, <1>3
<1>6. Max(N) \in N /\ \A y \in N : Max(N) >= y  BY <1>5 DEF Max
<1>7. \A q \in S : f[q] <= Max(N)  BY <1>2, <1>3, <1>6
<1>8. \E q \in S : Max(N) = f[q]  BY <1>4, <1>6
<1> QED  BY <1>7, <1>8 DEF N

(* A quotient lies where the dividend lies.                                *)
LEMMA QuotientBetween ==
  ASSUME NEW a \in Nat, NEW b \in Nat \ {0}, NEW m \in Nat, NEW n \in Nat,
         b * m <= a, a <= b * n
  PROVE  a \div b \in Nat /\ m <= a \div b /\ a \div b <= n
<1> DEFINE q == a \div b
<1>1. q \in Int /\ q * b <= a /\ a < (q + 1) * b
  OBVIOUS
<1> HIDE DEF q
<1>2. ASSUME q < m PROVE FALSE
  <2>1. q + 1 <= m  BY <1>1, <1>2
  <2>2. (q + 1) * b <= m * b  BY <1>1, <2>1
  <2> QED  BY <1>1, <2>2
<1>3. ASSUME q > n PROVE FALSE
  <2>1. n + 1 <= q  BY <1>1, <1>3
  <2>2. (n + 1) * b <= q * b  BY <1>1, <2>1
  <2>3. (n + 1) * b = b * n + b  OBVIOUS
  <2> QED  BY <1>1, <2>2, <2>3
<1> QED  BY <1>1, <1>2, <1>3 DEF q

-----------------------------------------------------------------------------
(* What the messages are computed from.                                    *)

LEMMA PacksAreFinite ==
  ASSUME NEW S \in SUBSET Pack
  PROVE  IsFiniteSet(S)
<1>1. 0 \in Int /\ 17 \in Int  OBVIOUS
<1>2. IsFiniteSet(0 .. 17)  BY <1>1, FS_Interval, Zenon
<1>3. S \in SUBSET (0 .. 17)  BY PackAssumption, Zenon
<1> QED  BY <1>2, <1>3, FS_Subset, Zenon

LEMMA ReadingIs ==
  ASSUME NEW r \in Reading
  PROVE  /\ r.max \in Nat /\ r.min \in Nat /\ r.diff \in Nat /\ r.amp \in Int
         /\ r.soc \in Nat /\ r.soc <= 100
BY DEF Reading

LEMMA SettingsAre ==
  ASSUME NEW c \in Settings
  PROVE  /\ c.source \in Pack /\ c.sources \subseteq Serial
         /\ c.max \in Nat /\ c.packCharge \in [Pack -> Nat]
         /\ c.cell \in CellRule /\ c.drift \in DriftRule /\ c.soc \in SocRule
         /\ c.cut \in CutRule /\ c.refill \in RefillRule /\ c.voltage \in VoltageRule
         /\ c.socFrom \in {"avg", "max", "bms"}
BY DEF Settings

LEMMA TypesAre ==
  ASSUME TypeOK
  PROVE  /\ cfg \in Settings /\ master \in Pack /\ (\A p \in Pack : bms[p] \in Reading)
         /\ current \in Nat /\ cutTimer \in Nat
         /\ inverter.soc \in Nat /\ inverter.soc <= 100
<1>1. cfg \in Settings /\ master \in Pack  BY DEF TypeOK
<1>2. bms \in [Pack -> Reading]  BY DEF TypeOK
<1>3. current \in Nat /\ cutTimer \in Nat  BY DEF TypeOK
<1>4. inverter \in [soc : 0 .. 100, current : Int, noPack : BOOLEAN]  BY DEF TypeOK
<1>5. inverter.soc \in Nat /\ inverter.soc <= 100  BY <1>4
<1> QED  BY <1>1, <1>2, <1>3, <1>5

LEMMA SourcesAre ==
  ASSUME TypeOK
  PROVE  /\ Sources \in SUBSET Pack /\ Seen \in SUBSET Pack /\ Seen # {}
         /\ Online \in SUBSET Pack /\ Added \in SUBSET Pack /\ Charging \in SUBSET Pack
<1>1. master \in Pack /\ added \in SUBSET Pack /\ online \in SUBSET Pack
  BY DEF TypeOK, Serial
<1> QED  BY <1>1 DEF Sources, Seen, Online, Added, Charging

LEMMA CellsAre ==
  ASSUME TypeOK
  PROVE  MaxCell \in Nat /\ MaxDiff \in Nat
<1>1. \A p \in Pack : bms[p] \in Reading  BY TypesAre
<1>2. IsFiniteSet(Seen) /\ Seen # {} /\ Seen \in SUBSET Pack
  BY SourcesAre, PacksAreFinite
<1>3. ASSUME NEW f, \A p \in Seen : f[p] \in Nat
      PROVE  Max({f[p] : p \in Seen}) \in Nat
  <2>1. \A p \in Seen : f[p] \in Int  BY <1>3
  <2>2. \E p \in Seen : Max({f[q] : q \in Seen}) = f[p]  BY <1>2, <2>1, MaxIs
  <2> QED  BY <1>3, <2>2
<1>4. MaxCell \in Nat
  <2> DEFINE f == [p \in Pack |-> bms[p].max]
  <2>1. \A p \in Seen : f[p] \in Nat /\ f[p] = bms[p].max
    BY <1>1, <1>2, ReadingIs
  <2>2. {f[p] : p \in Seen} = {bms[p].max : p \in Seen}  BY <2>1
  <2> HIDE DEF f
  <2>3. Max({f[p] : p \in Seen}) \in Nat  BY <1>3, <2>1
  <2> QED  BY <2>2, <2>3 DEF MaxCell
<1>5. MaxDiff \in Nat
  <2> DEFINE f == [p \in Pack |-> bms[p].diff]
  <2>1. \A p \in Seen : f[p] \in Nat /\ f[p] = bms[p].diff
    BY <1>1, <1>2, ReadingIs
  <2>2. {f[p] : p \in Seen} = {bms[p].diff : p \in Seen}  BY <2>1
  <2> HIDE DEF f
  <2>3. Max({f[p] : p \in Seen}) \in Nat  BY <1>3, <2>1
  <2> QED  BY <2>2, <2>3 DEF MaxDiff
<1> QED  BY <1>4, <1>5

(* The maximum is that of the settings, and with additional sources no     *)
(* more than the packs that are fit add up to.                             *)
LEMMA PackMaxIs ==
  ASSUME NEW max \in Nat, NEW amps \in [Pack -> Nat], NEW S \in SUBSET Pack
  PROVE  /\ PackMax(max, amps, S) \in Nat /\ PackMax(max, amps, S) <= max
         /\ added # {} => PackMax(max, amps, S) <= Total(amps, S)
<1>1. Total(amps, S) \in Nat
  BY PacksAreFinite, TotalIsNat
<1>2. {max, Total(amps, S)} \in SUBSET Nat /\ {max, Total(amps, S)} # {}  BY <1>1
<1>3. LET N == {max, Total(amps, S)} IN Min(N) \in N /\ \A n \in N : Min(N) <= n
  BY <1>2, MinIs
<1> QED  BY <1>1, <1>3 DEF PackMax

LEMMA CellLimitIsNat ==
  ASSUME NEW rule \in CellRule, NEW max \in Nat, NEW cell \in Nat,
         ~CellLimitTraps(rule, max, cell)
  PROVE  CellLimit(rule, max, cell) \in Nat
<1>1. rule.start \in Nat /\ rule.end \in Nat /\ rule.floor \in Nat
  BY DEF CellRule
<1>2. CASE CellRuleApplies(rule, max, cell) /\ cell <= rule.end
  <2> DEFINE range == rule.end - rule.start
             by    == cell - rule.start
             step  == StepPerAmp(max, range, rule.floor)
  <2>1. range * 100 \in Nat /\ by * 100 \in Nat /\ max - rule.floor \in Nat \ {0}
    BY <1>1, <1>2 DEF CellRuleApplies
  <2>2. step \in Nat \ {0}
    <3>1. step # 0  BY <1>2 DEF CellLimitTraps
    <3>2. step \in Int  BY <2>1 DEF StepPerAmp
    <3>3. step >= 0
      <4> HIDE DEF range
      <4> QED  BY <2>1 DEF StepPerAmp
    <3> HIDE DEF step
    <3> QED  BY <3>1, <3>2, <3>3
  <2> HIDE DEF step
  <2>3. (by * 100) \div step \in Int  BY <2>1, <2>2
  <2>4. Throttled(max, by, range, rule.floor)
          = IF (by * 100) \div step > max - rule.floor THEN rule.floor
            ELSE max - (by * 100) \div step
    BY DEF Throttled, step
  <2>5. CellLimit(rule, max, cell) = Throttled(max, by, range, rule.floor)
    BY <1>1, <1>2 DEF CellLimit
  <2> HIDE DEF by, range
  <2> QED  BY <1>1, <2>1, <2>3, <2>4, <2>5
<1>3. CASE ~(CellRuleApplies(rule, max, cell) /\ cell <= rule.end)
  BY <1>1, <1>3 DEF CellLimit
<1> QED  BY <1>2, <1>3

LEMMA Int16IsInt ==
  ASSUME NEW i \in Int
  PROVE  Int16(i) \in Int
BY DEF Int16

LEMMA DriftLimitIsNat ==
  ASSUME NEW rule \in DriftRule, NEW max \in Nat, NEW diff \in Nat, NEW cell
  PROVE  DriftLimit(rule, max, diff, cell) \in Nat
<1>1. max - (diff - rule.start) * rule.perMv \in Int  BY DEF DriftRule
<1>2. Int16(max - (diff - rule.start) * rule.perMv) \in Int  BY <1>1, Int16IsInt
<1> QED  BY <1>2 DEF DriftLimit, AtLeast0

LEMMA SocLimitIsNat ==
  ASSUME NEW rule \in SocRule, NEW max \in Nat, NEW soc \in Nat
  PROVE  SocLimit(rule, max, soc) \in Nat
<1>1. max - (soc - rule.from + 1) * rule.perPercent \in Int  BY DEF SocRule
<1> QED  BY <1>1 DEF SocLimit, AtLeast0

(* The target is the strictest limit.                                      *)
LEMMA TargetIs ==
  ASSUME TypeOK, ~Trapped, "charge" \notin limited
  PROVE  /\ MaxCharge \in Nat /\ Target \in Nat
         /\ \A n \in {MaxCharge, CellLimit(cfg.cell, MaxCharge, MaxCell),
                     SocLimit(cfg.soc, MaxCharge, inverter.soc),
                     DriftLimit(cfg.drift, MaxCharge, MaxDiff, MaxCell),
                     CutLimit(MaxCharge)} : n \in Nat /\ Target <= n
<1> DEFINE N == {MaxCharge, CellLimit(cfg.cell, MaxCharge, MaxCell),
                 SocLimit(cfg.soc, MaxCharge, inverter.soc),
                 DriftLimit(cfg.drift, MaxCharge, MaxDiff, MaxCell), CutLimit(MaxCharge)}
<1>1. cfg \in Settings  BY TypesAre
<1>2. MaxCharge \in Nat
  BY <1>1, SettingsAre, SourcesAre, PackMaxIs DEF MaxCharge
<1>3. CellLimit(cfg.cell, MaxCharge, MaxCell) \in Nat
  <2>1. ~CellLimitTraps(cfg.cell, MaxCharge, MaxCell)  BY DEF Trapped
  <2> QED  BY <1>1, <1>2, <2>1, SettingsAre, CellsAre, CellLimitIsNat
<1>4. SocLimit(cfg.soc, MaxCharge, inverter.soc) \in Nat
  <2>1. inverter.soc \in Nat  BY TypesAre
  <2> QED  BY <1>1, <1>2, <2>1, SettingsAre, SocLimitIsNat
<1>5. DriftLimit(cfg.drift, MaxCharge, MaxDiff, MaxCell) \in Nat
  BY <1>1, <1>2, SettingsAre, CellsAre, DriftLimitIsNat
<1>6. CutLimit(MaxCharge) \in Nat  BY <1>2 DEF CutLimit
<1>7. N \in SUBSET Nat /\ N # {}  BY <1>2, <1>3, <1>4, <1>5, <1>6
<1>8. Target = Min(N)  BY DEF Target
<1>9. Min(N) \in N /\ \A n \in N : Min(N) <= n
  <2> HIDE DEF N
  <2> QED  BY <1>7, MinIs
<1>10. Target \in Nat  BY <1>7, <1>8, <1>9
<1>11. \A n \in N : n \in Nat /\ Target <= n  BY <1>7, <1>8, <1>9
<1> QED  BY <1>2, <1>10, <1>11

(* The current approaches the target and is never negative.                *)
LEMMA RampedIs ==
  ASSUME current \in Nat, NEW target \in Nat
  PROVE  /\ Ramped(target) \in Nat
         /\ target = current => Ramped(target) = current
         /\ target < current => Ramped(target) < current /\ Ramped(target) >= current - 10
         /\ target > current =>
              Ramped(target) > current /\ Ramped(target) <= target
              /\ Ramped(target) <= current + 10
<1>1. Step \in Nat /\ 1 <= Step /\ Step <= 10  BY DEF Step
<1> HIDE DEF Step
<1>2. CASE target < current
  BY <1>1, <1>2 DEF Ramped, AtLeast0
<1>3. CASE ~(target < current)
  <2> DEFINE N == {target, current + 10}
  <2>1. N \in SUBSET Nat /\ N # {}  OBVIOUS
  <2>2. Ramped(target) = Min(N)  BY <1>3 DEF Ramped
  <2>3. Min(N) \in N /\ \A n \in N : Min(N) <= n
    <3> HIDE DEF N
    <3> QED  BY <2>1, MinIs
  <2> QED  BY <1>3, <2>2, <2>3
<1> QED  BY <1>2, <1>3

-----------------------------------------------------------------------------
(* The state of charge that message 355 is built from.                     *)

LEMMA SocIs ==
  ASSUME TypeOK, NEW p \in Pack
  PROVE  /\ bms[p].soc \in Nat /\ bms[p].soc <= 100
         /\ SocOf(p) \in Nat /\ SocOf(p) <= 100
<1>1. bms[p] \in Reading  BY TypesAre
<1> QED  BY <1>1, ReadingIs DEF SocOf

(* The average of the packs that are online lies between any two bounds of *)
(* theirs, whether or not the master is one of them and is counted twice.  *)
LEMMA AverageIs ==
  ASSUME TypeOK, Online # {}, NEW m \in Nat, NEW n \in Nat,
         \A p \in Online : m <= bms[p].soc /\ bms[p].soc <= n
  PROVE  Average \in Nat /\ m <= Average /\ Average <= n
<1> DEFINE f == [p \in Pack |-> SocOf(p)]
           k == Cardinality(Added)
           j == Cardinality({master} \cap online)
           t == Total(f, Added)
<1>1. master \in Pack /\ Added \in SUBSET Pack /\ IsFiniteSet(Added) /\ k \in Nat
  BY TypesAre, SourcesAre, PacksAreFinite, FS_CardinalityType
<1>2. \A p \in Added : /\ f[p] \in Nat /\ f[p] = bms[p].soc
                       /\ m <= f[p] /\ f[p] <= n
  <2> SUFFICES ASSUME NEW p \in Added
               PROVE  f[p] \in Nat /\ f[p] = bms[p].soc /\ m <= f[p] /\ f[p] <= n
    OBVIOUS
  <2>1. p \in Pack /\ p \in online /\ p \in Online
    BY <1>1 DEF Added, Online, Sources
  <2> QED  BY <2>1, SocIs DEF SocOf
<1>3. t \in Nat /\ k * m <= t /\ t <= k * n
  <2> HIDE DEF f
  <2>1. t \in Nat  BY <1>1, <1>2, TotalIsNat
  <2>2. \A p \in Added : f[p] \in Int /\ m <= f[p] /\ f[p] <= n  BY <1>2
  <2>3. IsFiniteSet(Added) /\ m \in Int /\ n \in Int  BY <1>1
  <2>4. k * m <= t /\ t <= k * n  BY <2>2, <2>3, TotalWithin, Zenon
  <2> QED  BY <2>1, <2>4
<1>4. /\ j \in Nat /\ SocOf(master) \in Nat /\ j * m <= SocOf(master)
      /\ SocOf(master) <= j * n
  <2>1. CASE master \in online
    <3>1. {master} \cap online = {master}  BY <2>1
    <3>2. j = 1  BY <3>1, FS_Singleton
    <3>3. master \in Online  BY <2>1 DEF Online, Sources
    <3>4. SocOf(master) = bms[master].soc  BY <2>1 DEF SocOf
    <3> QED  BY <1>1, <3>2, <3>3, <3>4, SocIs
  <2>2. CASE master \notin online
    <3>1. {master} \cap online = {}  BY <2>2
    <3>2. j = 0  BY <3>1, FS_EmptySet
    <3> QED  BY <2>2, <3>2 DEF SocOf
  <2> QED  BY <2>1, <2>2
<1>5. j + k \in Nat \ {0}
  <2>1. CASE j = 0
    <3>1. master \notin online
      <4> SUFFICES ASSUME master \in online PROVE j = 1
        BY <2>1
      <4>1. {master} \cap online = {master}  OBVIOUS
      <4> QED  BY <4>1, FS_Singleton
    <3>2. Added # {}  BY <3>1 DEF Online, Sources, Added
    <3>3. k # 0  BY <1>1, <3>2, FS_EmptySet
    <3> QED  BY <1>1, <2>1, <3>3
  <2>2. CASE j # 0
    BY <1>1, <1>4, <2>2
  <2> QED  BY <2>1, <2>2
<1>6. Average = (SocOf(master) + t) \div (j + k)
  BY DEF Average
<1> HIDE DEF f, k, j, t
<1>7. (j + k) * m <= SocOf(master) + t /\ SocOf(master) + t <= (j + k) * n
  <2>1. ASSUME NEW i \in Nat PROVE (j + k) * i = j * i + k * i
    BY <1>1, <1>4
  <2>2. (j + k) * m = j * m + k * m /\ (j + k) * n = j * n + k * n  BY <2>1
  <2>3. j * m \in Int /\ k * m \in Int /\ j * n \in Int /\ k * n \in Int
    BY <1>1, <1>4
  <2> QED  BY <1>3, <1>4, <2>2, <2>3
<1>8. SocOf(master) + t \in Nat  BY <1>3, <1>4
<1> QED  BY <1>5, <1>6, <1>7, <1>8, QuotientBetween

LEMMA OnlineExtremes ==
  ASSUME TypeOK, Online # {}
  PROVE  \E p, q \in Online : \A r \in Online :
           bms[p].soc <= bms[r].soc /\ bms[r].soc <= bms[q].soc
<1> DEFINE f == [p \in Pack |-> bms[p].soc]
<1>1. Online \in SUBSET Pack /\ IsFiniteSet(Online)
  BY SourcesAre, PacksAreFinite
<1>2. \A p \in Online : f[p] = bms[p].soc /\ f[p] \in Int
  BY <1>1, SocIs
<1> HIDE DEF f
<1>3. PICK p \in Online : \A r \in Online : f[p] <= f[r]
  BY <1>1, <1>2, LowestIs
<1>4. PICK q \in Online : \A r \in Online : f[r] <= f[q]
  BY <1>1, <1>2, HighestIs
<1>5. \A r \in Online : bms[p].soc <= bms[r].soc /\ bms[r].soc <= bms[q].soc
  BY <1>2, <1>3, <1>4
<1> QED  BY <1>5

(* The highest state of charge: a silent pack counts as empty.             *)
LEMMA MaxSocIs ==
  ASSUME TypeOK
  PROVE  LET m == Max({SocOf(p) : p \in Sources})
         IN  /\ m \in Nat /\ m <= 100
             /\ Online = {} => m = 0
             /\ Online # {} => \E p, q \in Online : bms[p].soc <= m /\ m <= bms[q].soc
<1> DEFINE f == [p \in Pack |-> SocOf(p)]
           m == Max({SocOf(p) : p \in Sources})
<1>1. /\ Sources \in SUBSET Pack /\ IsFiniteSet(Sources) /\ master \in Sources
      /\ Online = Sources \cap online
  BY SourcesAre, PacksAreFinite DEF Sources, Online
<1>2. \A p \in Sources : f[p] = SocOf(p) /\ f[p] \in Int
  BY <1>1, SocIs
<1>3. {f[p] : p \in Sources} = {SocOf(p) : p \in Sources}  BY <1>2
<1>4. m = Max({f[p] : p \in Sources})  BY <1>3
<1> HIDE DEF f, m
<1>5. (\E p \in Sources : m = f[p]) /\ \A p \in Sources : f[p] <= m
  <2>1. Sources # {} /\ \A p \in Sources : f[p] \in Int  BY <1>1, <1>2
  <2> QED  BY <1>1, <1>4, <2>1, MaxIs
<1>6. PICK s \in Sources : m = SocOf(s)  BY <1>2, <1>5
<1>7. \A p \in Sources : SocOf(p) <= m  BY <1>2, <1>5
<1>8. m \in Nat /\ m <= 100  BY <1>1, <1>6, SocIs
<1>9. \A p \in Online : p \in Sources /\ SocOf(p) = bms[p].soc
  BY <1>1 DEF SocOf
<1>10. \A p \in Sources : p \notin Online => SocOf(p) = 0
  <2>1. \A p \in Sources : p \notin Online => p \notin online  BY <1>1
  <2> QED  BY <2>1 DEF SocOf
<1>11. CASE s \in Online
  <2>1. bms[s].soc <= m /\ m <= bms[s].soc  BY <1>6, <1>8, <1>9, <1>11
  <2> QED  BY <1>8, <1>11, <2>1 DEF m
<1>12. CASE s \notin Online
  <2>1. m = 0  BY <1>6, <1>10, <1>12
  <2>2. \A p \in Online : bms[p].soc <= m /\ m <= bms[p].soc
    <3> SUFFICES ASSUME NEW p \in Online PROVE bms[p].soc <= m /\ m <= bms[p].soc
      OBVIOUS
    <3>1. bms[p].soc \in Nat /\ bms[p].soc <= m  BY <1>1, <1>7, <1>9, SocIs
    <3> QED  BY <2>1, <3>1
  <2> QED  BY <1>8, <2>1, <2>2 DEF m
<1> QED  BY <1>11, <1>12

LEMMA PackSocIs ==
  ASSUME TypeOK
  PROVE  /\ PackSoc \in Nat /\ PackSoc <= 100
         /\ cfg.socFrom # "bms" =>
              IF Online = {} THEN PackSoc = 0
              ELSE \E p, q \in Online : bms[p].soc <= PackSoc /\ PackSoc <= bms[q].soc
<1>1. master \in Pack /\ cfg.socFrom \in {"avg", "max", "bms"}
  BY TypesAre, SettingsAre
<1>2. CASE added # {} /\ cfg.socFrom = "max"
  <2>1. PackSoc = Max({SocOf(p) : p \in Sources})  BY <1>2 DEF PackSoc
  <2> QED  BY <2>1, MaxSocIs
<1>3. CASE added # {} /\ cfg.socFrom = "avg" /\ Online # {}
  <2>1. PackSoc = Average  BY <1>3 DEF PackSoc
  <2>2. PICK p \in Online, q \in Online : \A r \in Online :
          bms[p].soc <= bms[r].soc /\ bms[r].soc <= bms[q].soc
    BY <1>3, OnlineExtremes
  <2>3. p \in Pack /\ q \in Pack  BY SourcesAre
  <2>4. bms[p].soc \in Nat /\ bms[q].soc \in Nat /\ bms[q].soc <= 100
    BY <2>3, SocIs
  <2>5. Average \in Nat /\ bms[p].soc <= Average /\ Average <= bms[q].soc
    BY <1>3, <2>2, <2>4, AverageIs
  <2> QED  BY <1>3, <2>1, <2>4, <2>5
<1>4. CASE cfg.socFrom = "bms" /\ cfg.socBms \in online
  <2>1. PackSoc = bms[cfg.socBms].soc  BY <1>4 DEF PackSoc
  <2>2. cfg.socBms \in Pack  BY <1>4 DEF TypeOK
  <2> QED  BY <1>4, <2>1, <2>2, SocIs
<1>5. CASE /\ ~(added # {} /\ cfg.socFrom = "max")
           /\ ~(added # {} /\ cfg.socFrom = "avg" /\ Online # {})
           /\ ~(cfg.socFrom = "bms" /\ cfg.socBms \in online)
  <2>1. PackSoc = SocOf(master)  BY <1>5 DEF PackSoc
  <2>2. PackSoc \in Nat /\ PackSoc <= 100  BY <1>1, <2>1, SocIs
  <2>3. CASE Online = {}
    <3>1. master \notin online  BY <2>3 DEF Online, Sources
    <3> QED  BY <2>1, <2>2, <2>3, <3>1 DEF SocOf
  <2>4. CASE Online # {} /\ cfg.socFrom # "bms"
    <3>1. added = {}  BY <1>1, <1>5, <2>4
    <3>2. master \in online /\ master \in Online
      BY <2>4, <3>1 DEF Online, Sources
    <3>3. PackSoc = bms[master].soc  BY <2>1, <3>2 DEF SocOf
    <3> QED  BY <2>2, <2>4, <3>2, <3>3
  <2> QED  BY <2>2, <2>3, <2>4
<1> QED  BY <1>2, <1>3, <1>4, <1>5

-----------------------------------------------------------------------------
(* The types.                                                              *)

LEMMA UnsetIs ==
  /\ Unset \in Nat /\ \A n : n \in 0 .. Unset <=> n \in Nat /\ n <= Unset
  /\ \A n \in Word : n \in Nat /\ n < Unset
<1>1. Unset \in Nat  BY SMT DEF Unset
<1>2. \A m \in Nat : \A n : n \in 0 .. m <=> n \in Nat /\ n <= m
  BY SMT
<1>3. \A n : n \in 0 .. Unset <=> n \in Nat /\ n <= Unset
  BY <1>1, <1>2, Zenon
<1>4. \A n \in Word : n \in Nat /\ n < Unset
  BY <1>1 DEF Word
<1> QED  BY <1>1, <1>3, <1>4, Zenon

LEMMA Uint16Is ==
  ASSUME NEW i \in Int
  PROVE  Uint16(i) \in Nat /\ Uint16(i) <= Unset
<1>1. Unset \in Nat \ {0}  BY SMT DEF Unset
<1> QED  BY <1>1 DEF Uint16

(* The dynamic charge voltage wraps around, but stays a uint16_t.          *)
LEMMA VoltageIs ==
  ASSUME TypeOK
  PROVE  NextVoltage \in 0 .. Unset
<1>1. dynVoltage \in Nat /\ dynVoltage <= Unset
  <2>1. dynVoltage \in 0 .. Unset  BY DEF TypeOK
  <2> QED  BY <2>1, UnsetIs, Zenon
<1>2. cfg.voltage.max \in Nat /\ cfg.voltage.max <= Unset
  <2>1. cfg.voltage \in VoltageRule  BY TypesAre, SettingsAre
  <2>2. cfg.voltage.max \in Word  BY <2>1 DEF VoltageRule
  <2> QED  BY <2>2, UnsetIs
<1>3. Dynamic \in Nat /\ Dynamic <= Unset  BY <1>1, <1>2 DEF Dynamic
<1> DEFINE up == Uint16(Dynamic + 1)
           down == Uint16(Dynamic - 1)
<1>4. up \in Nat /\ up <= Unset /\ down \in Nat /\ down <= Unset
  <2>1. Dynamic + 1 \in Int /\ Dynamic - 1 \in Int  BY <1>3
  <2> QED  BY <2>1, Uint16Is
<1> SUFFICES NextVoltage \in Nat /\ NextVoltage <= Unset
  BY UnsetIs, Zenon
<1>5. CASE Drifting
  <2>1. cfg.voltage \in VoltageRule  BY TypesAre, SettingsAre
  <2>2. cfg.voltage.delta \in Nat  BY <2>1 DEF VoltageRule
  <2>3. ~Closing  BY <1>5, <2>2, CellsAre DEF Drifting, Closing
  <2>4. NextVoltage = down  BY <1>5, <2>3 DEF NextVoltage
  <2> HIDE DEF down
  <2> QED  BY <1>4, <2>4
<1>6. CASE ~Drifting /\ Closing
  <2> DEFINE N == {up, cfg.voltage.max}
  <2>1. NextVoltage = Min(N)  BY <1>6 DEF NextVoltage
  <2> HIDE DEF up
  <2>2. N \in SUBSET Nat /\ N # {} /\ \A n \in N : n <= Unset  BY <1>2, <1>4
  <2> HIDE DEF N
  <2>3. Min(N) \in N  BY <2>2, MinIs
  <2> QED  BY <2>1, <2>2, <2>3
<1>7. CASE ~Drifting /\ ~Closing
  <2>1. NextVoltage = Dynamic  BY <1>7 DEF NextVoltage
  <2> QED  BY <1>3, <2>1
<1> QED  BY <1>5, <1>6, <1>7

LEMMA SetupIs ==
  ASSUME cfg \in Settings
  PROVE  /\ Setup => TypeOK
         /\ cfg' = cfg /\ Restart => TypeOK'
<1>1. cfg.source \in Pack /\ cfg.sources \subseteq Serial  BY SettingsAre
<1>2. \A S \in {T \ {cfg.source} : T \in Filtered} : S \subseteq Serial
  BY <1>1 DEF Filtered
<1>3. Blank \in Reading  BY DEF Blank, Reading
<1>4. /\ 0 \in Nat /\ Unset \in 0 .. Unset /\ 0 \in Word
      /\ [soc |-> 0, current |-> 0, noPack |-> TRUE]
           \in [soc : 0 .. 100, current : Int, noPack : BOOLEAN]
  BY DEF Unset, Word
<1>5. Setup => TypeOK  BY <1>1, <1>2, <1>3, <1>4 DEF Setup, TypeOK
<1>6. cfg' = cfg /\ Restart => TypeOK'
  BY <1>1, <1>2, <1>3, <1>4 DEF Restart, TypeOK
<1> QED  BY <1>5, <1>6

LEMMA TypeInit == HInit => TypeOK
BY SettingsAssumption, SetupIs DEF HInit, Init

(* The lock timer is decremented within its width.                         *)
LEMMA LockCounts ==
  /\ 65535 \in Word
  /\ \A n \in Word : n # 0 => n - 1 \in Word
<1>1. 65535 = Unset - 1  BY DEF Unset
<1>2. Unset - 1 \in Word /\ \A n \in Word : n # 0 => n - 1 \in Word
  <2>1. Unset \in Nat \ {0}  BY DEF Unset
  <2> QED  BY <2>1 DEF Word
<1> QED  BY <1>1, <1>2

LEMMA Send351Types == TypeOK /\ Send351 => TypeOK'
<1> SUFFICES ASSUME TypeOK, Send351 PROVE TypeOK'
  OBVIOUS
<1>1. NextVoltage \in 0 .. Unset  BY VoltageIs
<1>2. current' \in Nat /\ cutTimer' \in Nat
  <2>1. CASE "charge" \in limited
    BY <2>1, TypesAre DEF Send351
  <2>2. CASE "charge" \notin limited
    <3>1. Target \in Nat  BY <2>2, TargetIs DEF Send351
    <3>2. Ramped(Target) \in Nat  BY <3>1, TypesAre, RampedIs
    <3>3. NextCutTimer \in Nat  BY TypesAre DEF NextCutTimer
    <3> QED  BY <2>2, <3>2, <3>3 DEF Send351
  <2> QED  BY <2>1, <2>2
<1>3. /\ pc' = "355" /\ dynVoltage' = NextVoltage
      /\ UNCHANGED <<cfg, webPc, readings, limited, sourcing, refill, lockTimer, inverter>>
  BY DEF Send351
<1> QED  BY <1>1, <1>2, <1>3 DEF TypeOK, readings, sourcing

LEMMA Send355Types == TypeOK /\ Send355 => TypeOK'
<1> SUFFICES ASSUME TypeOK, Send355 PROVE TypeOK'
  OBVIOUS
<1>1. cfg.refill \in RefillRule  BY TypesAre, SettingsAre
<1>2. cfg.refill.soc \in 0 .. 100 /\ cfg.refill.time \in Word
  <2>1. cfg.refill.soc \in 0 .. 100 /\ cfg.refill.time \in 0 .. Hour
    BY <1>1 DEF RefillRule
  <2>2. Hour \in Nat /\ Unset \in Nat /\ Hour < Unset  BY DEF Hour, Unset
  <2>3. \A n \in 0 .. Hour : n \in Word  BY <2>2 DEF Word
  <2> QED  BY <2>1, <2>3
<1>3. refill' \in {"wait", "below", "locked"} /\ lockTimer' \in Word
  <2>1. refill \in {"wait", "below", "locked"} /\ lockTimer \in Word  BY DEF TypeOK
  <2>2. CASE AwaitLow
    BY <2>1, <2>2 DEF AwaitLow
  <2>3. CASE AwaitEnd
    BY <1>2, <2>1, <2>3 DEF AwaitEnd
  <2>4. CASE AwaitLock
    BY <2>1, <2>4, LockCounts DEF AwaitLock
  <2>5. CASE UNCHANGED <<refill, lockTimer>>
    BY <2>1, <2>5
  <2> QED  BY <2>2, <2>3, <2>4, <2>5 DEF Send355
<1>4. inverter' \in [soc : 0 .. 100, current : Int, noPack : BOOLEAN]
  <2>1. inverter \in [soc : 0 .. 100, current : Int, noPack : BOOLEAN]  BY DEF TypeOK
  <2>2. PackSoc \in 0 .. 100  BY PackSocIs
  <2>3. PICK s \in 0 .. 100 : inverter' = [inverter EXCEPT !.soc = s]
    <3> DEFINE s == IF "socFull" \in limited THEN 100
                    ELSE IF Refilling /\ refill = "below" THEN cfg.refill.soc ELSE PackSoc
    <3>1. s \in 0 .. 100  BY <1>2, <2>2
    <3>2. inverter' = [inverter EXCEPT !.soc = s]  BY DEF Send355
    <3> QED  BY <3>1, <3>2, Zenon
  <2> QED  BY <2>1, <2>3
<1>5. /\ pc' = "356"
      /\ UNCHANGED <<cfg, webPc, readings, limited, sourcing, current, cutTimer, dynVoltage>>
  BY DEF Send355
<1> QED  BY <1>3, <1>4, <1>5 DEF TypeOK, readings, sourcing

LEMMA Send356Types == TypeOK /\ Send356 => TypeOK'
<1> SUFFICES ASSUME TypeOK, Send356 PROVE TypeOK'
  OBVIOUS
<1> DEFINE f == [p \in Pack |-> bms[p].amp]
<1>1. Total(f, Added) \in Int
  <2>1. Added \in SUBSET Pack /\ IsFiniteSet(Added)
    BY SourcesAre, PacksAreFinite
  <2>2. \A p \in Added : f[p] \in Int  BY <2>1, TypesAre, ReadingIs
  <2> HIDE DEF f
  <2> QED  BY <2>1, <2>2, TotalIsInt
<1>2. bms[master].amp \in Int  BY TypesAre, ReadingIs
<1>3. inverter' = [inverter EXCEPT !.current = bms[master].amp + Total(f, Added),
                                   !.noPack = (Online = {})]
  BY DEF Send356
<1> HIDE DEF f
<1>4. inverter' \in [soc : 0 .. 100, current : Int, noPack : BOOLEAN]
  <2>1. inverter \in [soc : 0 .. 100, current : Int, noPack : BOOLEAN]  BY DEF TypeOK
  <2>2. (Online = {}) \in BOOLEAN  OBVIOUS
  <2>3. bms[master].amp + Total(f, Added) \in Int  BY <1>1, <1>2
  <2> QED  BY <1>3, <2>1, <2>2, <2>3
<1>5. pc' = "351" /\ UNCHANGED <<cfg, webPc, readings, limited, sourcing, control>>
  BY DEF Send356
<1> QED  BY <1>4, <1>5 DEF TypeOK, readings, sourcing, control

LEMMA TypeNext == TypeOK /\ [HNext]_hvars => TypeOK'
<1> SUFFICES ASSUME TypeOK, [HNext]_hvars PROVE TypeOK'
  OBVIOUS
<1>1. cfg \in Settings  BY TypesAre
<1>2. cfg' \in Settings  BY <1>1, SettingsNext
<1>3. CASE Send351 \/ Send355 \/ Send356
  BY <1>3, Send351Types, Send355Types, Send356Types
<1>4. CASE Disabled
  <2>1. inverter \in [soc : 0 .. 100, current : Int, noPack : BOOLEAN]  BY DEF TypeOK
  <2>2. inverter' \in [soc : 0 .. 100, current : Int, noPack : BOOLEAN]
    BY <1>4, <2>1 DEF Disabled
  <2> QED  BY <1>4, <2>2 DEF TypeOK, Disabled, readings, sourcing, control
<1>5. CASE SetMaxCharge \/ SaveSettings
  BY <1>2, <1>5 DEF TypeOK, SetMaxCharge, SaveSettings, readings, sourcing, control
<1>6. CASE LoadMaster
  <2>1. inverter \in [soc : 0 .. 100, current : Int, noPack : BOOLEAN]  BY DEF TypeOK
  <2>2. inverter' \in [soc : 0 .. 100, current : Int, noPack : BOOLEAN]
    BY <1>6, <2>1 DEF LoadMaster
  <2>3. master' \in Pack  BY <1>1, <1>6, SettingsAre DEF LoadMaster
  <2> QED  BY <1>6, <2>2, <2>3 DEF TypeOK, LoadMaster, readings, control
<1>7. CASE LoadAdded
  <2>1. added' \subseteq Serial
    BY <1>1, <1>7, SettingsAre DEF LoadAdded, Filtered
  <2> QED  BY <1>7, <2>1 DEF TypeOK, LoadAdded, readings, control
<1>8. CASE ClearMaster
  BY <1>8 DEF TypeOK, ClearMaster, readings, control
<1>9. CASE Report
  <2>1. bms' \in [Pack -> Reading] /\ online' \subseteq Pack
    BY <1>9, PackAssumption DEF TypeOK, Report
  <2> QED  BY <1>9, <2>1 DEF TypeOK, Report, sourcing, control
<1>10. CASE FallSilent \/ SetLimits
  BY <1>10 DEF TypeOK, FallSilent, SetLimits, readings, sourcing, control
<1>11. CASE Restart
  BY <1>1, <1>11, SetupIs DEF Restart
<1>12. CASE UNCHANGED hvars
  BY <1>12 DEF hvars, vars, TypeOK, readings, sourcing, control
<1>13. Next \/ UNCHANGED hvars  BY DEF HNext
<1> QED
  BY <1>3, <1>4, <1>5, <1>6, <1>7, <1>8, <1>9, <1>10, <1>11, <1>12, <1>13
     DEF Next, CanStep, WebStep, BmsStep

(* Whatever the packs report, the averages, sums, ramps and quotients that *)
(* the messages are made of stay in range: the state of charge is between  *)
(* 0 and 100, no charge current is negative, and no timer leaves its width.*)
(* (Canbus.cpp:560-1366)                                                   *)
THEOREM ChargeTypeCorrect == HSpec => []TypeOK
<1> QED  BY TypeInit, TypeNext, PTL DEF HSpec

-----------------------------------------------------------------------------
(* The action properties.                                                  *)

LEMMA SocFromStep ==
  ASSUME TypeOK, Send355, "socFull" \notin limited,
         ~(cfg.refill.on /\ refill = "below"), cfg.socFrom # "bms"
  PROVE  IF Online = {} THEN inverter'.soc = 0
         ELSE \E p, q \in Online :
                bms[p].soc <= inverter'.soc /\ inverter'.soc <= bms[q].soc
<1>1. inverter \in [soc : 0 .. 100, current : Int, noPack : BOOLEAN]  BY DEF TypeOK
<1>2. inverter' = [inverter EXCEPT !.soc = PackSoc]  BY DEF Send355, Refilling
<1>3. inverter'.soc = PackSoc  BY <1>1, <1>2
<1> QED  BY <1>3, PackSocIs

(* The average of packs of which some are silent, the highest of them and  *)
(* the one of the master never make up a state of charge that no pack that *)
(* is online is near: however many packs there are, also in the middle of  *)
(* a reload, when the master may be counted twice.  (Canbus.cpp:1195-1228) *)
THEOREM SocCorrect == HSpec => SocFromPacks
<1>1. TypeOK /\ [HNext]_hvars =>
        [Send355 /\ "socFull" \notin limited /\ ~(cfg.refill.on /\ refill = "below")
         /\ cfg.socFrom # "bms" =>
           IF Online = {} THEN inverter'.soc = 0
           ELSE \E p, q \in Online :
                  bms[p].soc <= inverter'.soc /\ inverter'.soc <= bms[q].soc]_vars
  BY SocFromStep
<1> QED  BY <1>1, TypeInit, TypeNext, PTL DEF HSpec, SocFromPacks

(* Nothing but message 351 and a restart touches the current and the timer *)
(* of the cut-off.                                                         *)
LEMMA CurrentKinds ==
  ASSUME [HNext]_hvars
  PROVE  Send351 \/ Restart \/ UNCHANGED <<current, cutTimer>>
<1>1. CASE Send355
  BY <1>1 DEF Send355
<1>2. CASE Send356 \/ Disabled
  BY <1>2 DEF Send356, Disabled, control
<1>3. CASE WebStep
  BY <1>3 DEF WebStep, SetMaxCharge, SaveSettings, LoadMaster, LoadAdded, ClearMaster,
              control
<1>4. CASE BmsStep \/ SetLimits
  BY <1>4 DEF BmsStep, Report, FallSilent, SetLimits, control
<1>5. CASE UNCHANGED hvars
  BY <1>5 DEF hvars, vars, control
<1>6. Next \/ UNCHANGED hvars  BY DEF HNext
<1> QED  BY <1>1, <1>2, <1>3, <1>4, <1>5, <1>6 DEF Next, CanStep

LEMMA CutOffStep ==
  ASSUME TypeOK, [HNext]_hvars, CutOff, inverter.soc >= cfg.cut.soc, cfg' = cfg, ~Restart
  PROVE  CutOff' /\ current' <= current
<1>1. current \in Nat /\ cutTimer \in Nat /\ inverter.soc \in Nat
      /\ cfg.cut.time \in Nat /\ cfg.cut.soc \in Nat
  <2>1. cfg.cut \in CutRule  BY TypesAre, SettingsAre
  <2> QED  BY <2>1, TypesAre DEF CutRule
<1>2. CASE UNCHANGED <<current, cutTimer>>
  BY <1>1, <1>2 DEF CutOff
<1>3. CASE Send351 /\ "charge" \in limited
  BY <1>1, <1>3 DEF CutOff, Send351
<1>4. CASE Send351 /\ "charge" \notin limited
  <2>1. Target \in Nat /\ Target <= CutLimit(MaxCharge)
    BY <1>4, TargetIs DEF Send351
  <2>2. CutLimit(MaxCharge) = 0  BY DEF CutLimit
  <2>3. Target = 0  BY <2>1, <2>2
  <2>4. current' = Ramped(0)  BY <1>4, <2>3 DEF Send351
  <2>5. Ramped(0) \in Nat /\ Ramped(0) <= current  BY <1>1, RampedIs
  <2>6. cutTimer' = cutTimer
    BY <1>1, <1>4 DEF Send351, NextCutTimer, CutOff
  <2> QED  BY <2>4, <2>5, <2>6 DEF CutOff
<1> QED  BY <1>2, <1>3, <1>4, CurrentKinds

(* The cut-off is a latch: what ends it is a state of charge below the     *)
(* configured one, a new setting or a restart, and nothing else.  A reload *)
(* that empties the sources, packs that fall silent, a limit of an alarm   *)
(* that comes and goes leave it, for any settings.  (Canbus.cpp:828-877)   *)
THEOREM CutOffCorrect == HSpec => CutOffHolds
<1>1. TypeOK /\ [HNext]_hvars =>
        [CutOff /\ inverter.soc >= cfg.cut.soc /\ cfg' = cfg /\ ~Restart
           => CutOff' /\ current' <= current]_vars
  BY CutOffStep
<1> QED  BY <1>1, TypeInit, TypeNext, PTL DEF HSpec, CutOffHolds

-----------------------------------------------------------------------------
(* The ramp.                                                               *)

(* How far the current is from a target.  A step downwards may pass it, by *)
(* less than 10 A, so that being above counts 10 A more.                   *)
Distance(target) ==
  IF current > target THEN current - target + 10 ELSE target - current

LEMMA RampedCloser ==
  ASSUME current \in Nat, NEW target \in Nat, current' = Ramped(target)
  PROVE  /\ current' \in Nat
         /\ Distance(target)' = 0 \/ Distance(target)' < Distance(target)
<1>1. /\ current' \in Nat
      /\ target = current => current' = current
      /\ target < current => current' < current /\ current' >= current - 10
      /\ target > current => current' > current /\ current' <= target
  BY RampedIs
<1>2. Distance(target) = IF current > target THEN current - target + 10 ELSE target - current
  BY DEF Distance
<1>3. Distance(target)'
        = IF current' > target THEN current' - target + 10 ELSE target - current'
  BY DEF Distance
<1>4. CASE target = current
  BY <1>1, <1>3, <1>4
<1>5. CASE target < current
  BY <1>1, <1>2, <1>3, <1>5
<1>6. CASE target > current
  BY <1>1, <1>2, <1>3, <1>6
<1> QED  BY <1>1, <1>4, <1>5, <1>6

(* The current that the inverter is told never moves away from a target    *)
(* that stays the same, and every message 351 brings it nearer until it is *)
(* there, whatever happens between two of them.                            *)
RampApproaches ==
  [][\A target \in Nat :
       ~Restart =>
         /\ Send351 /\ "charge" \notin limited /\ target = Target =>
              Distance(target)' = 0 \/ Distance(target)' < Distance(target)
         /\ ~(Send351 /\ "charge" \notin limited) =>
              Distance(target)' = Distance(target)]_vars

(* Steps downwards, whose size depends on the current, and steps upwards   *)
(* do not chase each other: this is what SettlesAtTarget rests on, for any *)
(* current and any target.  (Canbus.cpp:600-649)                           *)
THEOREM RampCorrect == HSpec => RampApproaches
<1> DEFINE Approaches == \A target \in Nat :
       ~Restart =>
         /\ Send351 /\ "charge" \notin limited /\ target = Target =>
              Distance(target)' = 0 \/ Distance(target)' < Distance(target)
         /\ ~(Send351 /\ "charge" \notin limited) =>
              Distance(target)' = Distance(target)
<1>1. TypeOK /\ [HNext]_hvars => [Approaches]_vars
  <2> SUFFICES ASSUME TypeOK, [HNext]_hvars, NEW target \in Nat, ~Restart
               PROVE  /\ Send351 /\ "charge" \notin limited /\ target = Target =>
                           Distance(target)' = 0 \/ Distance(target)' < Distance(target)
                      /\ ~(Send351 /\ "charge" \notin limited) =>
                           Distance(target)' = Distance(target)
    OBVIOUS
  <2>1. ASSUME Send351, "charge" \notin limited, target = Target
        PROVE  Distance(target)' = 0 \/ Distance(target)' < Distance(target)
    <3>1. current' = Ramped(target)  BY <2>1 DEF Send351
    <3> QED  BY <3>1, TypesAre, RampedCloser
  <2>2. ASSUME ~(Send351 /\ "charge" \notin limited)
        PROVE  Distance(target)' = Distance(target)
    <3>1. current' = current  BY <2>2, CurrentKinds DEF Send351
    <3> QED  BY <3>1 DEF Distance
  <2> QED  BY <2>1, <2>2
<1> QED  BY <1>1, TypeInit, TypeNext, PTL DEF HSpec, RampApproaches

(* When the current that the inverter is told rises, it rises by at most   *)
(* 10 A and stays within every limit: the maximum of the settings, what    *)
(* the packs that may be charged add up to, the cell voltage, the state of *)
(* charge, the drift of the cells, the cut-off and the alarms.             *)
RisesWithinLimits ==
  [][current' > current =>
       /\ current' <= current + 10 /\ current' <= cfg.max
       /\ added # {} => current' <= Total(cfg.packCharge, Charging)
       /\ current' <= CellLimit(cfg.cell, MaxCharge, MaxCell)
       /\ current' <= SocLimit(cfg.soc, MaxCharge, inverter.soc)
       /\ current' <= DriftLimit(cfg.drift, MaxCharge, MaxDiff, MaxCell)
       /\ current' <= CutLimit(MaxCharge)
       /\ "charge" \notin limited]_vars

(* However many limits there are and whatever each allows, the strictest   *)
(* one wins.  (Canbus.cpp:560-649)                                         *)
THEOREM RiseCorrect == HSpec => RisesWithinLimits
<1> DEFINE Limits(i) ==
       /\ i <= current + 10 /\ i <= cfg.max
       /\ added # {} => i <= Total(cfg.packCharge, Charging)
       /\ i <= CellLimit(cfg.cell, MaxCharge, MaxCell)
       /\ i <= SocLimit(cfg.soc, MaxCharge, inverter.soc)
       /\ i <= DriftLimit(cfg.drift, MaxCharge, MaxDiff, MaxCell)
       /\ i <= CutLimit(MaxCharge)
       /\ "charge" \notin limited
<1>1. TypeOK /\ [HNext]_hvars => [current' > current => Limits(current')]_vars
  <2> SUFFICES ASSUME TypeOK, [HNext]_hvars, current' > current PROVE Limits(current')
    OBVIOUS
  <2>1. Send351 /\ "charge" \notin limited
    <3>1. current \in Nat  BY TypesAre
    <3> QED  BY <3>1, CurrentKinds DEF Send351, Restart
  <2>2. PICK target \in Nat : target = Target /\ current' = Ramped(target)
    BY <2>1, TargetIs DEF Send351
  <2>3. current \in Nat /\ current' <= target /\ current' <= current + 10
        /\ current' \in Nat
    BY <2>2, TypesAre, RampedIs
  <2>4. \A n \in {MaxCharge, CellLimit(cfg.cell, MaxCharge, MaxCell),
                  SocLimit(cfg.soc, MaxCharge, inverter.soc),
                  DriftLimit(cfg.drift, MaxCharge, MaxDiff, MaxCell),
                  CutLimit(MaxCharge)} : current' <= n
    BY <2>1, <2>2, <2>3, TargetIs DEF Send351
  <2>5. current' <= cfg.max /\ (added # {} => current' <= Total(cfg.packCharge, Charging))
    <3>1. cfg.max \in Nat /\ cfg.packCharge \in [Pack -> Nat] /\ Charging \in SUBSET Pack
      BY TypesAre, SettingsAre, SourcesAre
    <3>2. /\ MaxCharge \in Nat /\ MaxCharge <= cfg.max
          /\ added # {} => MaxCharge <= Total(cfg.packCharge, Charging)
      BY <3>1, PackMaxIs DEF MaxCharge
    <3>3. Total(cfg.packCharge, Charging) \in Nat
      BY <3>1, PacksAreFinite, TotalIsNat
    <3> QED  BY <2>3, <2>4, <3>1, <3>2, <3>3
  <2> QED  BY <2>1, <2>3, <2>4, <2>5
<1> QED  BY <1>1, TypeInit, TypeNext, PTL DEF HSpec, RisesWithinLimits

-----------------------------------------------------------------------------
(* The charge voltage.                                                     *)

(* What is counted of the voltage is above the maximum of the settings.    *)
VoltageExcess == dynVoltage # Unset /\ dynVoltage > cfg.voltage.max

LEMMA VoltagesAre ==
  ASSUME TypeOK
  PROVE  /\ dynVoltage \in Nat /\ dynVoltage <= Unset
         /\ cfg.voltage.max \in Nat /\ cfg.voltage.max < Unset
         /\ cfg.voltage.delta \in Nat
         /\ Dynamic \in Nat /\ Dynamic <= Unset /\ Unset \in Nat \ {0}
<1>1. dynVoltage \in Nat /\ dynVoltage <= Unset
  <2>1. dynVoltage \in 0 .. Unset  BY DEF TypeOK
  <2> QED  BY <2>1, UnsetIs, Zenon
<1>2. cfg.voltage \in VoltageRule  BY TypesAre, SettingsAre
<1>3. cfg.voltage.max \in Word /\ cfg.voltage.delta \in Nat  BY <1>2 DEF VoltageRule
<1>4. Unset \in Nat \ {0}  BY SMT DEF Unset
<1> QED  BY <1>1, <1>3, <1>4, UnsetIs DEF Dynamic

LEMMA NextVoltageIs ==
  ASSUME TypeOK
  PROVE  \/ /\ Drifting /\ NextVoltage \in Nat
            /\ Dynamic # 0 => NextVoltage = Dynamic - 1
         \/ ~Drifting /\ Closing /\ NextVoltage \in Nat /\ NextVoltage <= cfg.voltage.max
         \/ ~Drifting /\ ~Closing /\ NextVoltage = Dynamic
<1>1. CASE Drifting
  <2>1. ~Closing  BY <1>1, VoltagesAre, CellsAre DEF Drifting, Closing
  <2>2. NextVoltage = Uint16(Dynamic - 1)  BY <1>1, <2>1 DEF NextVoltage
  <2>3. Dynamic - 1 \in Int  BY VoltagesAre
  <2>4. ASSUME NEW n \in Nat, n < Unset PROVE Uint16(n) = n
    BY <2>4, VoltagesAre DEF Uint16
  <2>5. Dynamic # 0 => Dynamic - 1 \in Nat /\ Dynamic - 1 < Unset
    BY VoltagesAre
  <2> QED  BY <1>1, <2>2, <2>3, <2>4, <2>5, Uint16Is
<1>2. CASE ~Drifting /\ Closing
  <2> DEFINE up == Uint16(Dynamic + 1)
             N  == {up, cfg.voltage.max}
  <2>1. NextVoltage = Min(N)  BY <1>2 DEF NextVoltage
  <2>2. up \in Nat  BY VoltagesAre, Uint16Is
  <2> HIDE DEF up
  <2>3. N \in SUBSET Nat /\ N # {} /\ cfg.voltage.max \in N  BY <2>2, VoltagesAre
  <2> HIDE DEF N
  <2> QED  BY <1>2, <2>1, <2>3, MinIs
<1>3. CASE ~Drifting /\ ~Closing
  BY <1>3 DEF NextVoltage
<1> QED  BY <1>1, <1>2, <1>3

LEMMA VoltageKinds ==
  ASSUME [HNext]_hvars
  PROVE  \/ Send351
         \/ Restart
         \/ (SetMaxCharge \/ SaveSettings) /\ UNCHANGED dynVoltage
         \/ UNCHANGED <<cfg, dynVoltage>>
<1>1. CASE Send355 \/ Send356 \/ Disabled
  BY <1>1, Zenon DEF Send355, Send356, Disabled, control
<1>2. CASE WebStep
  BY <1>2, Zenon
  DEF WebStep, SetMaxCharge, SaveSettings, LoadMaster, LoadAdded, ClearMaster, control
<1>3. CASE BmsStep \/ SetLimits
  BY <1>3, Zenon DEF BmsStep, Report, FallSilent, SetLimits, control
<1>4. CASE UNCHANGED hvars
  BY <1>4, Zenon DEF hvars, vars, control
<1>5. Next \/ UNCHANGED hvars  BY DEF HNext
<1> QED  BY <1>1, <1>2, <1>3, <1>4, <1>5 DEF Next, CanStep

(* A voltage above the maximum is sent only while the cells drift apart    *)
(* and only because a lower maximum was saved, or because the count passed *)
(* 0; an excess never grows.                                               *)
ExcessExplained ==
  [][/\ Send351 /\ VoltageSent > cfg.voltage.max =>
          Drifting /\ (VoltageExcess \/ Dynamic = 0)
     /\ VoltageExcess' /\ ~VoltageExcess =>
          \/ cfg'.voltage.max < cfg.voltage.max
          \/ Send351 /\ Drifting /\ Dynamic = 0
     /\ VoltageExcess' /\ VoltageExcess => dynVoltage' <= dynVoltage]_vars

(* The count has no lower limit, and no step but a reduction or an         *)
(* increase brings it below a new maximum: these are the only two ways to  *)
(* tell the inverter too high a voltage, whatever settings and readings    *)
(* there are.  (Canbus.cpp:881-910)                                        *)
THEOREM VoltageCorrect == HSpec => ExcessExplained
<1> DEFINE Explained ==
  /\ Send351 /\ VoltageSent > cfg.voltage.max =>
       Drifting /\ (VoltageExcess \/ Dynamic = 0)
  /\ VoltageExcess' /\ ~VoltageExcess =>
       \/ cfg'.voltage.max < cfg.voltage.max
       \/ Send351 /\ Drifting /\ Dynamic = 0
  /\ VoltageExcess' /\ VoltageExcess => dynVoltage' <= dynVoltage
<1>1. TypeOK /\ [HNext]_hvars => [Explained]_vars
  <2> SUFFICES ASSUME TypeOK, [HNext]_hvars PROVE Explained
    OBVIOUS
  <2>1. TypeOK'  BY TypeNext
  <2>2. /\ cfg'.voltage.max \in Nat /\ dynVoltage' \in Nat
        /\ cfg.voltage.max \in Nat /\ dynVoltage \in Nat /\ cfg.voltage.max < Unset
    <3>1. dynVoltage' \in 0 .. Unset  BY <2>1 DEF TypeOK
    <3>2. cfg'.voltage \in VoltageRule  BY TypesAre, SettingsNext, SettingsAre
    <3>3. cfg'.voltage.max \in Word  BY <3>2 DEF VoltageRule
    <3> QED  BY <3>1, <3>3, UnsetIs, VoltagesAre
  <2>3. CASE Send351
    <3>1. dynVoltage' = NextVoltage /\ cfg' = cfg  BY <2>3 DEF Send351
    <3>2. VoltageSent = IF Drifting \/ Closing THEN NextVoltage ELSE cfg.voltage.max
      BY DEF VoltageSent
    <3>3. Dynamic = IF dynVoltage = Unset THEN cfg.voltage.max ELSE dynVoltage
      BY DEF Dynamic
    <3>4. VoltageExcess' <=> NextVoltage # Unset /\ NextVoltage > cfg.voltage.max
      BY <3>1 DEF VoltageExcess
    <3>5. CASE Drifting /\ Dynamic # 0
      <4>1. NextVoltage = Dynamic - 1  BY <3>5, NextVoltageIs
      <4> QED  BY <2>2, <2>3, <3>1, <3>2, <3>3, <3>4, <3>5, <4>1, VoltagesAre DEF VoltageExcess
    <3>6. CASE Drifting /\ Dynamic = 0
      BY <2>2, <2>3, <3>1, <3>3, <3>4, <3>6 DEF VoltageExcess
    <3>7. CASE ~Drifting /\ Closing
      <4>1. NextVoltage \in Nat /\ NextVoltage <= cfg.voltage.max
        BY <3>7, NextVoltageIs
      <4> QED  BY <2>2, <3>2, <3>4, <3>7, <4>1
    <3>8. CASE ~Drifting /\ ~Closing
      <4>1. NextVoltage = Dynamic  BY <3>8, NextVoltageIs
      <4> QED  BY <2>2, <3>1, <3>2, <3>3, <3>4, <3>8, <4>1 DEF VoltageExcess
    <3> QED  BY <3>5, <3>6, <3>7, <3>8
  <2>4. ASSUME ~Send351 PROVE Explained
    <3>1. CASE Restart
      <4>1. dynVoltage' = Unset  BY <3>1 DEF Restart
      <4> QED  BY <2>4, <4>1 DEF VoltageExcess
    <3>2. CASE dynVoltage' = dynVoltage
      BY <2>2, <2>4, <3>2 DEF VoltageExcess
    <3> QED  BY <2>4, <3>1, <3>2, VoltageKinds
  <2> QED  BY <2>3, <2>4
<1> HIDE DEF Explained
<1>2. HSpec => [][Explained]_vars  BY <1>1, TypeInit, TypeNext, PTL DEF HSpec
<1> QED  BY <1>2 DEF ExcessExplained, Explained
=============================================================================
