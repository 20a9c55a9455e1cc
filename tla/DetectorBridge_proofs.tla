----------------------- MODULE DetectorBridge_proofs -----------------------
(* The detector: what is published is what is stored, for any number of    *)
(* messages, and tells of the worst detection, for any frame.              *)
EXTENDS DetectorBridge, FiniteSetTheorems, SequenceTheorems, WellFoundedInduction, TLAPS

---------------------------------------------------------------------------
(* Levels and rounding.                                                    *)

LEMMA DangerOfLevels ==
  /\ Danger("none") = 0 /\ Danger("low") = 1 /\ Danger("medium") = 2
  /\ Danger("high") = 3 /\ Danger("critical") = 4
<1> DEFINE levels == <<"none", "low", "medium", "high", "critical">>
<1>1. /\ levels[1] = "none" /\ levels[2] = "low" /\ levels[3] = "medium"
      /\ levels[4] = "high" /\ levels[5] = "critical"
  OBVIOUS
<1>2. \A n \in 0..4 : n = 0 \/ n = 1 \/ n = 2 \/ n = 3 \/ n = 4
  OBVIOUS
<1>3. ASSUME NEW k \in 0..4 PROVE (CHOOSE n \in 0..4 : levels[n + 1] = levels[k + 1]) = k
  <2>1. \A n \in 0..4 : levels[n + 1] = levels[k + 1] => n = k
    BY <1>1, <1>2
  <2> QED BY <2>1
<1>4. /\ Danger(levels[1]) = 0 /\ Danger(levels[2]) = 1 /\ Danger(levels[3]) = 2
      /\ Danger(levels[4]) = 3 /\ Danger(levels[5]) = 4
  <2>1. ASSUME NEW k \in 0..4 PROVE Danger(levels[k + 1]) = k
    BY <1>3 DEF Danger
  <2>2. /\ Danger(levels[0 + 1]) = 0 /\ Danger(levels[1 + 1]) = 1 /\ Danger(levels[2 + 1]) = 2
        /\ Danger(levels[3 + 1]) = 3 /\ Danger(levels[4 + 1]) = 4
    BY <2>1
  <2> QED BY <2>2
<1> QED BY <1>1, <1>4

(* A worse score never gives a lesser level: LevelForScore has no gap and  *)
(* no threshold out of order.                                              *)
THEOREM WorseScoreWorseLevel ==
  \A s \in Nat, t \in Nat : s <= t => Danger(LevelForScore(s)) <= Danger(LevelForScore(t))
BY DangerOfLevels DEF LevelForScore, critical_threshold, high_threshold, medium_threshold

(* Rounding a score to four digits keeps it at or above the level that was *)
(* given for the score before: a score of 0.89996 is published as 0.9000   *)
(* with level high, but never the other way round.                         *)
LEMMA RoundingKeepsTheLevel ==
  ASSUME NEW s \in Nat, s = 0 \/ s >= 1000, NEW q \in Rounded(s)
  PROVE  Danger(LevelForScore(s)) <= Danger(LevelForScore(q * 1000))
<1>1. q \in Nat /\ 2 * (q * 1000 - s) >= -1000 /\ 2 * (q * 1000 - s) <= 1000
  BY DEF Rounded
<1>2. /\ s >= critical_threshold => q * 1000 >= critical_threshold
      /\ s >= high_threshold => q * 1000 >= high_threshold
      /\ s >= medium_threshold => q * 1000 >= medium_threshold
      /\ s > 0 => q * 1000 > 0
  BY <1>1 DEF critical_threshold, high_threshold, medium_threshold
<1> QED BY <1>1, <1>2, DangerOfLevels
        DEF LevelForScore, critical_threshold, high_threshold, medium_threshold

(* A detection that is considered scores nothing, or enough for rounding.  *)
LEMMA ThreatsAreNotRoundedAway ==
  ASSUME NEW d \in Detection, d.confidence >= confidence_threshold
  PROVE  /\ DetectionScore(d) \in Nat
         /\ DetectionScore(d) = 0 \/ DetectionScore(d) >= 1000
<1> DEFINE l == normalized_label(d.label)
<1>1. CASE l \notin DOMAIN RISK_BY_LABEL
  BY <1>1 DEF DetectionScore
<1>2. CASE l \in DOMAIN RISK_BY_LABEL
  <2>1. RISK_BY_LABEL[l] \in {0, 55, 60, 65, 75, 95}
    BY <1>2 DEF RISK_BY_LABEL
  <2>2. d.confidence \in Nat /\ d.confidence >= 35000
    <3>1. d.confidence \in Nat
      BY DEF Detection
    <3> QED BY <3>1 DEF confidence_threshold
  <2>3. \A n \in Nat : n >= 35000 => /\ 55 * n >= 1000 /\ 60 * n >= 1000 /\ 65 * n >= 1000
                                     /\ 75 * n >= 1000 /\ 95 * n >= 1000 /\ 0 * n = 0
    OBVIOUS
  <2> QED BY <1>2, <2>1, <2>2, <2>3 DEF DetectionScore
<1> QED BY <1>1, <1>2

(* The published level of a detection is never above that of the score     *)
(* published with it: DangerScorer.score decides before round(score, 4).   *)
THEOREM RoundedScoreFitsLevel ==
  ASSUME NEW d \in Detection, d.confidence >= confidence_threshold,
         NEW q \in Rounded(DetectionScore(d))
  PROVE  Danger(LevelForScore(DetectionScore(d))) <= Danger(LevelForScore(q * 1000))
BY ThreatsAreNotRoundedAway, RoundingKeepsTheLevel

---------------------------------------------------------------------------
(* Frames: the two filters of DangerScorer.score, and the maximum.         *)

LEMMA LeastNumber ==
  ASSUME NEW T \in SUBSET Nat, T # {} PROVE \E m \in T : \A k \in T : m <= k
<1>1. PICK x \in T : \A y \in T : ~ (<<y, x>> \in OpToRel(<,Nat))
  BY NatLessThanWellFounded, WFMin
<1>2. \A y \in T : ~(y < x)
  BY <1>1 DEF OpToRel
<1> QED BY <1>2

(* What holds at 0 and goes over to the next number holds up to a bound.   *)
LEMMA UpTo ==
  ASSUME NEW L \in Nat, NEW G \in SUBSET Nat, 0 \in G,
         \A n \in Nat : n < L /\ n \in G => n + 1 \in G
  PROVE  \A n \in 0..L : n \in G
<1> DEFINE bad == {n \in 0..L : n \notin G}
<1>1. SUFFICES ASSUME bad # {} PROVE FALSE
  OBVIOUS
<1>2. PICK m \in bad : \A k \in bad : m <= k
  <2>1. bad \in SUBSET Nat
    OBVIOUS
  <2> HIDE DEF bad
  <2> QED BY <1>1, <2>1, LeastNumber
<1>3. m \in Nat /\ m # 0 /\ m <= L /\ m \notin G
  BY <1>2
<1>4. m - 1 \in Nat /\ m - 1 < L /\ m - 1 \in G
  BY <1>2, <1>3
<1>5. (m - 1) + 1 \in G
  BY <1>4
<1>6. (m - 1) + 1 = m
  BY <1>3
<1> QED BY <1>3, <1>5, <1>6

LEMMA LargestNumber ==
  ASSUME NEW B \in Nat, NEW T \in SUBSET (0..B), T # {}
  PROVE  Max(T) \in T /\ \A k \in T : k <= Max(T)
<1> DEFINE gaps == {B - k : k \in T}
<1>1. gaps \in SUBSET Nat /\ gaps # {}
  <2>1. \A k \in T : k \in 0..B /\ B - k \in Nat
    OBVIOUS
  <2> QED BY <2>1
<1>2. PICK g \in gaps : \A h \in gaps : g <= h
  BY <1>1, LeastNumber
<1>3. PICK m \in T : g = B - m
  BY <1>2
<1>4. \A k \in T : m >= k
  BY <1>2, <1>3
<1>5. \E x \in T : \A y \in T : x >= y
  BY <1>4
<1> QED BY <1>5 DEF Max

(* The recursion in Those has a solution.                                  *)
LEMMA ThoseIsDefined ==
  ASSUME NEW ds, Len(ds) \in Nat, NEW P
  PROVE  \E f : f = [n \in 0..Len(ds) |->
                       IF n = 0 THEN <<>>
                       ELSE IF n \in P THEN Append(f[n - 1], ds[n]) ELSE f[n - 1]]
<1> DEFINE Solves(f, k) == f = [n \in 0..k |->
                       IF n = 0 THEN <<>>
                       ELSE IF n \in P THEN Append(f[n - 1], ds[n]) ELSE f[n - 1]]
           G == {k \in Nat : \E f : Solves(f, k)}
<1>1. 0 \in G
  <2>1. Solves([n \in 0..0 |-> <<>>], 0)
    OBVIOUS
  <2> QED BY <2>1
<1>2. ASSUME NEW k \in Nat, k \in G PROVE k + 1 \in G
  <2>1. PICK f : Solves(f, k)
    BY <1>2
  <2> DEFINE next == IF k + 1 \in P THEN Append(f[k], ds[k + 1]) ELSE f[k]
             g == [n \in 0..(k + 1) |-> IF n = k + 1 THEN next ELSE f[n]]
  <2>2. Solves(g, k + 1)
    <3>1. \A n \in 0..k : f[n] = IF n = 0 THEN <<>>
                       ELSE IF n \in P THEN Append(f[n - 1], ds[n]) ELSE f[n - 1]
      BY <2>1
    <3>2. \A n \in 0..(k + 1) : g[n] = IF n = 0 THEN <<>>
                       ELSE IF n \in P THEN Append(g[n - 1], ds[n]) ELSE g[n - 1]
      <4>1. SUFFICES ASSUME NEW n \in 0..(k + 1)
                     PROVE g[n] = IF n = 0 THEN <<>>
                       ELSE IF n \in P THEN Append(g[n - 1], ds[n]) ELSE g[n - 1]
        OBVIOUS
      <4>2. CASE n = k + 1
        <5>1. g[n] = next /\ g[n - 1] = f[k] /\ n # 0 /\ n - 1 = k
          BY <4>2
        <5> QED BY <4>2, <5>1
      <4>3. CASE n = 0
        BY <3>1, <4>3
      <4>4. CASE n \in 1..k
        <5>1. g[n] = f[n] /\ g[n - 1] = f[n - 1] /\ n # 0 /\ n \in 0..k
          BY <4>4
        <5> HIDE DEF g
        <5> QED BY <3>1, <5>1
      <4> QED BY <4>2, <4>3, <4>4
    <3> DEFINE h == [n \in 0..(k + 1) |-> IF n = 0 THEN <<>>
                       ELSE IF n \in P THEN Append(g[n - 1], ds[n]) ELSE g[n - 1]]
    <3>3. \A n \in 0..(k + 1) : g[n] = h[n]
      BY <3>2
    <3>4. DOMAIN g = 0..(k + 1) /\ g = [n \in 0..(k + 1) |-> g[n]]
      OBVIOUS
    <3> HIDE DEF g
    <3>5. g = h
      BY <3>3, <3>4
    <3> QED BY <3>5
  <2>3. \E s : Solves(s, k + 1)
    <3> HIDE DEF g, Solves
    <3> QED BY <2>2
  <2>4. k + 1 \in Nat
    OBVIOUS
  <2> HIDE DEF Solves
  <2> QED BY <2>3, <2>4
<1>3. Len(ds) \in G
  <2>1. G \in SUBSET Nat
    OBVIOUS
  <2> HIDE DEF G
  <2>2. \A n \in 0..Len(ds) : n \in G
    BY <1>1, <1>2, <2>1, UpTo
  <2> QED BY <2>2
<1> QED BY <1>3

(* Those keeps what P points at, all of it and nothing else.               *)
LEMMA ThoseAreKept ==
  ASSUME NEW T, NEW ds \in Seq(T), NEW P
  PROVE  /\ Those(ds, P) \in Seq({ds[n] : n \in P \cap DOMAIN ds})
         /\ Len(Those(ds, P)) <= Len(ds)
         /\ \A i \in P \cap DOMAIN ds :
              \E j \in DOMAIN Those(ds, P) : Those(ds, P)[j] = ds[i]
<1> DEFINE E == {ds[n] : n \in P \cap DOMAIN ds}
           Body(f) == [n \in 0..Len(ds) |->
                         IF n = 0 THEN <<>>
                         ELSE IF n \in P THEN Append(f[n - 1], ds[n]) ELSE f[n - 1]]
           Solves(f) == f = Body(f)
           those == CHOOSE f : Solves(f)
           Fits(n) == /\ those[n] \in Seq(E) /\ Len(those[n]) <= n
                      /\ \A i \in P \cap 1..n : \E j \in 1..Len(those[n]) : those[n][j] = ds[i]
           G == {n \in Nat : n <= Len(ds) => Fits(n)}
<1>1. Len(ds) \in Nat /\ DOMAIN ds = 1..Len(ds)
  BY LenProperties
<1>2. Solves(those)
  <2>1. \E f : Solves(f)
    BY <1>1, ThoseIsDefined
  <2> HIDE DEF Solves
  <2> QED BY <2>1
<1>3. Those(ds, P) = those[Len(ds)]
  BY DEF Those
<1> HIDE DEF those
<1>4. /\ those[0] = <<>>
      /\ \A n \in 0..Len(ds) : n # 0 =>
           those[n] = IF n \in P THEN Append(those[n - 1], ds[n]) ELSE those[n - 1]
  <2>1. Body(those)[0] = <<>>
    BY <1>1
  <2>2. \A n \in 0..Len(ds) : n # 0 =>
          Body(those)[n] = IF n \in P THEN Append(those[n - 1], ds[n]) ELSE those[n - 1]
    OBVIOUS
  <2> HIDE DEF Body
  <2> QED BY <1>2, <2>1, <2>2
<1>5. Fits(0)
  BY <1>1, <1>4, EmptySeq
<1>6. ASSUME NEW n \in Nat, n < Len(ds), Fits(n) PROVE Fits(n + 1)
  <2>1. n + 1 \in 1..Len(ds) /\ (n + 1) - 1 = n
    BY <1>1, <1>6
  <2>2. CASE n + 1 \notin P
    <3>1. those[n + 1] = those[n]
      BY <1>4, <2>1, <2>2
    <3>2. \A i \in P \cap 1..(n + 1) : i \in P \cap 1..n
      BY <2>2
    <3> QED BY <1>6, <3>1, <3>2, LenProperties
  <2>3. CASE n + 1 \in P
    <3>1. those[n + 1] = Append(those[n], ds[n + 1]) /\ ds[n + 1] \in E
      <4>1. n + 1 \in 0..Len(ds) /\ n + 1 # 0 /\ n + 1 \in P \cap DOMAIN ds
        BY <1>1, <2>1, <2>3
      <4>2. ds[n + 1] \in E
        BY <4>1
      <4> QED BY <1>4, <2>1, <2>3, <4>1, <4>2
    <3>2. Len(those[n]) \in Nat
      BY <1>6, LenProperties
    <3> HIDE DEF E
    <3>3. /\ those[n + 1] \in Seq(E) /\ Len(those[n + 1]) = Len(those[n]) + 1
          /\ \A i \in 1..Len(those[n]) : those[n + 1][i] = those[n][i]
          /\ those[n + 1][Len(those[n]) + 1] = ds[n + 1]
      BY <1>6, <3>1, AppendProperties
    <3>4. ASSUME NEW i \in P \cap 1..(n + 1)
          PROVE  \E j \in 1..Len(those[n + 1]) : those[n + 1][j] = ds[i]
      <4>1. CASE i = n + 1
        BY <3>2, <3>3, <4>1
      <4>2. CASE i \in 1..n
        BY <1>6, <3>2, <3>3, <4>2
      <4> QED BY <4>1, <4>2
    <3> QED BY <1>6, <3>2, <3>3, <3>4
  <2> QED BY <2>2, <2>3
<1> HIDE DEF Fits
<1>7. Len(ds) \in G
  <2>1. G \in SUBSET Nat
    OBVIOUS
  <2>2. 0 \in G
    BY <1>5
  <2>3. \A n \in Nat : n < Len(ds) /\ n \in G => n + 1 \in G
    BY <1>1, <1>6
  <2> HIDE DEF G
  <2>4. \A n \in 0..Len(ds) : n \in G
    BY <1>1, <2>1, <2>2, <2>3, UpTo
  <2> QED BY <1>1, <2>4
<1>8. Fits(Len(ds))
  BY <1>1, <1>7
<1>9. DOMAIN those[Len(ds)] = 1..Len(those[Len(ds)])
  BY <1>8, LenProperties DEF Fits
<1> QED BY <1>1, <1>3, <1>8, <1>9 DEF Fits

(* No score is above the one of a predator that is seen for certain.       *)
worst == 9500000

LEMMA BoundsType == worst \in Nat /\ certain \in Nat
BY SMT DEF worst, certain

LEMMA UpToWorst ==
  ASSUME NEW n PROVE n \in 0..worst <=> n \in Nat /\ n <= 9500000
<1>1. worst = 9500000
  BY DEF worst
<1>2. n \in 0..worst <=> n \in Nat /\ n <= worst
  BY BoundsType, SMT
<1>3. n \in Nat => (n <= worst <=> n <= 9500000)
  BY <1>1, SMT
<1> QED BY <1>2, <1>3, SMT

LEMMA ScoresAreBounded == \A d \in Detection : DetectionScore(d) \in 0..worst
<1> SUFFICES ASSUME NEW d \in Detection PROVE DetectionScore(d) \in 0..worst
  OBVIOUS
<1> DEFINE l == normalized_label(d.label)
<1>1. CASE l \notin DOMAIN RISK_BY_LABEL
  BY <1>1, BoundsType DEF DetectionScore
<1>2. CASE l \in DOMAIN RISK_BY_LABEL
  <2>1. RISK_BY_LABEL[l] \in {0, 55, 60, 65, 75, 95}
    BY <1>2 DEF RISK_BY_LABEL
  <2>2. d.confidence \in Nat /\ d.confidence <= 100000
    <3>1. d.confidence \in 0..certain
      BY DEF Detection
    <3>2. d.confidence \in Nat /\ d.confidence <= certain
      BY <3>1, BoundsType
    <3>3. certain = 100000
      BY DEF certain
    <3> QED BY <3>2, <3>3, SMT
  <2>3. \A r \in {0, 55, 60, 65, 75, 95} : \A n \in Nat :
          n <= 100000 => r * n \in Nat /\ r * n <= 9500000
    BY SMT
  <2>4. DetectionScore(d) = RISK_BY_LABEL[l] * d.confidence
    BY <1>2 DEF DetectionScore
  <2>5. DetectionScore(d) \in Nat /\ DetectionScore(d) <= 9500000
    BY <2>1, <2>2, <2>3, <2>4, SMT
  <2> QED BY <2>5, UpToWorst, SMT
<1> QED BY <1>1, <1>2

Considered == {d \in Detection : d.confidence >= confidence_threshold}
Threats    == {d \in Considered : DetectionScore(d) > 0}

LEMMA ConsideredAreKept ==
  ASSUME NEW ds \in Seq(Detection)
  PROVE  /\ ConsideredDetections(ds) \in Seq(Considered)
         /\ \A i \in DOMAIN ds : ds[i] \in Considered =>
              \E j \in DOMAIN ConsideredDetections(ds) : ConsideredDetections(ds)[j] = ds[i]
<1> DEFINE P == {n \in DOMAIN ds : ds[n].confidence >= confidence_threshold}
           E == {ds[n] : n \in P \cap DOMAIN ds}
<1>1. /\ Those(ds, P) \in Seq(E)
      /\ \A i \in P \cap DOMAIN ds : \E j \in DOMAIN Those(ds, P) : Those(ds, P)[j] = ds[i]
  BY ThoseAreKept
<1>2. \A n \in DOMAIN ds : ds[n] \in Detection
  BY LenProperties
<1>3. E \subseteq Considered
  BY <1>2 DEF Considered
<1>4. Those(ds, P) \in Seq(Considered)
  BY <1>1, <1>3, SeqMonotonic
<1>5. \A i \in DOMAIN ds : ds[i] \in Considered => i \in P \cap DOMAIN ds
  BY DEF Considered
<1>6. ConsideredDetections(ds) = Those(ds, P)
  BY DEF ConsideredDetections
<1> HIDE DEF P, E
<1> QED BY <1>1, <1>4, <1>5, <1>6

LEMMA ThreatsAreKept ==
  ASSUME NEW considered \in Seq(Considered)
  PROVE  /\ ScoredDetections(considered) \in Seq(Threats)
         /\ Len(ScoredDetections(considered)) <= Len(considered)
         /\ \A i \in DOMAIN considered : considered[i] \in Threats =>
              \E j \in DOMAIN ScoredDetections(considered) :
                ScoredDetections(considered)[j] = considered[i]
<1> DEFINE P == {n \in DOMAIN considered : DetectionScore(considered[n]) > 0}
           E == {considered[n] : n \in P \cap DOMAIN considered}
<1>1. /\ Those(considered, P) \in Seq(E)
      /\ Len(Those(considered, P)) <= Len(considered)
      /\ \A i \in P \cap DOMAIN considered :
           \E j \in DOMAIN Those(considered, P) : Those(considered, P)[j] = considered[i]
  BY ThoseAreKept
<1>2. \A n \in DOMAIN considered : considered[n] \in Considered
  BY LenProperties
<1>3. E \subseteq Threats
  BY <1>2 DEF Threats
<1>4. Those(considered, P) \in Seq(Threats)
  BY <1>1, <1>3, SeqMonotonic
<1>5. \A i \in DOMAIN considered : considered[i] \in Threats => i \in P \cap DOMAIN considered
  BY DEF Threats
<1>6. ScoredDetections(considered) = Those(considered, P)
  BY DEF ScoredDetections
<1> HIDE DEF P, E
<1> QED BY <1>1, <1>4, <1>5, <1>6

(* The score is that of the worst threat, and 0 without any.               *)
LEMMA ScoreIsLargest ==
  ASSUME NEW scored \in Seq(Threats)
  PROVE  /\ ScoreOf(scored) \in 0..worst
         /\ ScoreOf(scored) = 0 \/ ScoreOf(scored) >= 1000
         /\ ScoreOf(scored) = 0 <=> scored = <<>>
         /\ \A i \in DOMAIN scored : DetectionScore(scored[i]) \in 1..ScoreOf(scored)
         /\ scored # <<>> => \E i \in DOMAIN scored : DetectionScore(scored[i]) = ScoreOf(scored)
<1> DEFINE scores == {0} \cup {DetectionScore(scored[i]) : i \in DOMAIN scored}
<1>1. Len(scored) \in Nat /\ DOMAIN scored = 1..Len(scored) /\ \A i \in DOMAIN scored : scored[i] \in Threats
  BY LenProperties
<1>2. \A d \in Threats : /\ DetectionScore(d) \in 0..worst /\ DetectionScore(d) >= 1000
  <2> SUFFICES ASSUME NEW d \in Threats
               PROVE  DetectionScore(d) \in 0..worst /\ DetectionScore(d) >= 1000
    OBVIOUS
  <2>1. d \in Detection /\ d.confidence >= confidence_threshold /\ DetectionScore(d) > 0
    BY DEF Threats, Considered
  <2> QED BY <2>1, ScoresAreBounded, ThreatsAreNotRoundedAway
<1>3. scores \in SUBSET (0..worst) /\ scores # {}
  BY <1>1, <1>2, BoundsType
<1>4. Max(scores) \in scores /\ \A k \in scores : k <= Max(scores)
  <2> HIDE DEF scores
  <2> QED BY <1>3, BoundsType, LargestNumber
<1>5. ScoreOf(scored) = Max(scores)
  BY DEF ScoreOf
<1>6. \A i \in DOMAIN scored : DetectionScore(scored[i]) \in scores
  OBVIOUS
<1>7. \A k \in scores : k \in 0..worst /\ (k = 0 \/ k >= 1000)
  BY <1>1, <1>2, BoundsType
<1>8. scored = <<>> => \A k \in scores : k = 0
  BY <1>1, EmptySeq
<1>9. scored # <<>> => 1 \in DOMAIN scored
  BY <1>1, EmptySeq
<1> HIDE DEF scores
<1>10. scored # <<>> => Max(scores) # 0
  <2>1. scored # <<>> => DetectionScore(scored[1]) <= Max(scores) /\ DetectionScore(scored[1]) >= 1000
    BY <1>1, <1>2, <1>4, <1>6, <1>9
  <2>2. Max(scores) \in 0..worst
    BY <1>4, <1>7
  <2> QED BY <1>1, <1>2, <1>9, <2>1, <2>2, BoundsType
<1>11. \A k \in scores : k = 0 \/ \E i \in DOMAIN scored : DetectionScore(scored[i]) = k
  BY DEF scores
<1>12. Max(scores) \in 0..worst
  BY <1>4, <1>7
<1>13. \A i \in DOMAIN scored : DetectionScore(scored[i]) \in 1..Max(scores)
  BY <1>1, <1>2, <1>4, <1>6, <1>12, BoundsType
<1> QED BY <1>4, <1>5, <1>7, <1>8, <1>10, <1>11, <1>12, <1>13

(* What PublishedIsWorstDetection asks of a published assessment.          *)
Faithful(a) ==
  /\ a.level # "none" => \E i \in DOMAIN a.triggering_detections :
       LET s == DetectionScore(a.triggering_detections[i])
       IN  /\ a.level = LevelForScore(s) /\ a.score \in Rounded(s)
           /\ \A j \in DOMAIN a.triggering_detections :
                DetectionScore(a.triggering_detections[j]) \in 1..s
  /\ a.level = "none" => a.triggering_detections = <<>> /\ a.score = 0
  /\ Len(a.triggering_detections) <= a.detection_count
  /\ Danger(a.level) <= Danger(LevelForScore(a.score * 1000))

LEMMA ScoresAreFaithful ==
  ASSUME NEW ds \in Seq(Detection), NEW a \in Score(ds)
  PROVE  a \in DangerAssessment /\ Faithful(a)
<1> DEFINE considered == ConsideredDetections(ds)
           scored == ScoredDetections(considered)
           score == ScoreOf(scored)
<1>1. PICK q \in Rounded(score) :
        a = [level |-> LevelForScore(score), score |-> q, triggering_detections |-> scored,
             detection_count |-> Len(considered)]
  BY DEF Score
<1>2. considered \in Seq(Considered)
  BY ConsideredAreKept
<1> HIDE DEF considered
<1>3. scored \in Seq(Threats) /\ Len(scored) <= Len(considered)
  BY <1>2, ThreatsAreKept
<1> HIDE DEF scored
<1>4. /\ score \in 0..worst /\ (score = 0 \/ score >= 1000)
      /\ score = 0 <=> scored = <<>>
      /\ \A i \in DOMAIN scored : DetectionScore(scored[i]) \in 1..score
      /\ scored # <<>> => \E i \in DOMAIN scored : DetectionScore(scored[i]) = score
  BY <1>3, ScoreIsLargest
<1> HIDE DEF score
<1>5. /\ a.level = LevelForScore(score) /\ a.score = q /\ a.triggering_detections = scored
      /\ a.detection_count = Len(considered)
  BY <1>1
<1>6. /\ \A i \in DOMAIN scored : scored[i] \in Threats
      /\ Len(considered) \in Nat
  BY <1>2, <1>3, LenProperties
<1>7. a \in DangerAssessment
  <2>1. LevelForScore(score) \in ThreatLevels
    BY DEF LevelForScore, ThreatLevels
  <2>2. q \in 0..10000
    <3>1. score \in Nat /\ score <= 9500000
      BY <1>4, UpToWorst, SMT
    <3>2. score \div 1000 \in Nat /\ score \div 1000 <= 9500
      BY <3>1, SMT
    <3>3. q \in (score \div 1000)..(score \div 1000 + 1)
      BY DEF Rounded
    <3> QED BY <3>2, <3>3, SMT
  <2>3. scored \in Seq(Detection)
    <3>1. Threats \subseteq Detection
      BY DEF Threats, Considered
    <3> QED BY <1>3, <3>1, SeqMonotonic
  <2> QED BY <1>1, <1>6, <2>1, <2>2, <2>3 DEF DangerAssessment
<1>8. LevelForScore(score) # "none" =>
        \E i \in DOMAIN scored :
          LET s == DetectionScore(scored[i])
          IN  /\ LevelForScore(score) = LevelForScore(s) /\ q \in Rounded(s)
              /\ \A j \in DOMAIN scored : DetectionScore(scored[j]) \in 1..s
  <2>1. LevelForScore(score) # "none" => scored # <<>>
    BY <1>4 DEF LevelForScore, critical_threshold, high_threshold, medium_threshold
  <2> QED BY <1>1, <1>4, <2>1
<1>9. LevelForScore(score) = "none" => scored = <<>> /\ q = 0
  <2>1. LevelForScore(score) = "none" => score = 0
    BY <1>4, BoundsType, SMT DEF LevelForScore, critical_threshold, high_threshold, medium_threshold
  <2>2. score = 0 => q = 0
    BY SMT DEF Rounded
  <2> QED BY <1>4, <2>1, <2>2
<1>10. Danger(LevelForScore(score)) <= Danger(LevelForScore(q * 1000))
  BY <1>4, BoundsType, RoundingKeepsTheLevel
<1> QED BY <1>3, <1>5, <1>7, <1>8, <1>9, <1>10 DEF Faithful

(* No threat is missed: whatever else a frame shows, its level is at least *)
(* that of each detection at or above the threshold, wherever it stands in *)
(* the frame and however many there are (DangerScorer.score).              *)
THEOREM NoThreatIsMissed ==
  ASSUME NEW ds \in Seq(Detection), NEW a \in Score(ds), NEW i \in DOMAIN ds,
         ds[i].confidence >= confidence_threshold
  PROVE  Danger(LevelForScore(DetectionScore(ds[i]))) <= Danger(a.level)
<1> DEFINE considered == ConsideredDetections(ds)
           scored == ScoredDetections(considered)
           score == ScoreOf(scored)
<1>1. a.level = LevelForScore(score)
  BY DEF Score
<1>2. ds[i] \in Considered /\ DetectionScore(ds[i]) \in Nat
  <2>1. ds[i] \in Detection
    BY LenProperties
  <2> QED BY <2>1, BoundsType, ScoresAreBounded DEF Considered
<1>3. considered \in Seq(Considered) /\ \E j \in DOMAIN considered : considered[j] = ds[i]
  BY <1>2, ConsideredAreKept
<1> HIDE DEF considered
<1>4. /\ scored \in Seq(Threats)
      /\ ds[i] \in Threats => \E j \in DOMAIN scored : scored[j] = ds[i]
  BY <1>3, ThreatsAreKept
<1> HIDE DEF scored
<1>5. score \in 0..worst /\ \A j \in DOMAIN scored : DetectionScore(scored[j]) <= score
  BY <1>4, BoundsType, ScoreIsLargest
<1> HIDE DEF score
<1>6. DetectionScore(ds[i]) <= score
  <2>1. CASE DetectionScore(ds[i]) > 0
    BY <1>2, <1>4, <1>5, <2>1, BoundsType DEF Threats
  <2>2. CASE ~(DetectionScore(ds[i]) > 0)
    BY <1>2, <1>5, <2>2, BoundsType
  <2> QED BY <2>1, <2>2
<1>7. score \in Nat
  BY <1>5, BoundsType
<1> QED BY <1>1, <1>2, <1>6, <1>7, WorseScoreWorseLevel

---------------------------------------------------------------------------
(* The messages.                                                           *)

Quiet == pipe = "disabled"

(* Without a pipeline the network thread alone sets the state, and it      *)
(* publishes what it set before it takes the next message.                 *)
StateIsAnswered ==
  Quiet => /\ answer # {} => answer = {assessment}
           /\ answer = {} /\ mqtt = "connected" /\ drops = 0 =>
                \/ published = {assessment}
                \/ published = {} /\ assessment = NoThreat

AnswerInv ==
  /\ drops \in Nat
  /\ mqtt = "lost" => drops # 0
  /\ StateIsAnswered

LEMMA AnswerInvAtFirst == Init => AnswerInv
BY DEF Init, AnswerInv, StateIsAnswered

LEMMA AnswerInvStays == AnswerInv /\ [Next]_vars => AnswerInv'
<1> SUFFICES ASSUME AnswerInv, [Next]_vars PROVE AnswerInv'
    OBVIOUS
<1> USE DEF AnswerInv, StateIsAnswered, Quiet, deviceVars, sessionVars
<1>1. ASSUME NEW m \in Message, Inject(m) PROVE AnswerInv'
  BY <1>1 DEF Inject
<1>2. CASE LoseConnection
  BY <1>2 DEF LoseConnection
<1>3. CASE Reconnect
  BY <1>3 DEF Reconnect
<1>4. CASE IgnoreMessage
  BY <1>4 DEF IgnoreMessage, TakeMessage
<1>5. CASE SetFromFrame
  BY <1>5 DEF SetFromFrame
<1>6. CASE GetDetectorState \/ ResetDetectorState
  BY <1>6 DEF GetDetectorState, ResetDetectorState
<1>7. CASE PublishAnswer
  <2>1. PICK a \in answer : Publish(a) \/ PublishFails(a)
    BY <1>7 DEF PublishAnswer
  <2>2. /\ answer' = {}
        /\ UNCHANGED <<assessment, mqtt, drops, pipe>>
    BY <1>7 DEF PublishAnswer
  <2>3. Quiet => a = assessment
    OBVIOUS
  <2>4. mqtt = "connected" => published' = {a}
    BY <2>1 DEF Publish, PublishFails
  <2> QED BY <2>2, <2>3, <2>4
<1>8. CASE HealthCheck \/ HealthRaises \/ FetchJpeg \/ ScanFails \/ NextPoll
  BY <1>8 DEF HealthCheck, HealthRaises, FetchJpeg, ScanFails, NextPoll, Goto
<1>9. CASE Detect \/ PublishScan
  <2>1. ~Quiet' /\ UNCHANGED <<mqtt, drops>>
    BY <1>9 DEF Detect, PublishScan, Goto
  <2> QED BY <2>1
<1>10. CASE StopPipeline
  BY <1>10 DEF StopPipeline
<1>11. CASE DisconnectMqtt
  BY <1>11 DEF DisconnectMqtt
<1>12. CASE Exit
  BY <1>12 DEF Exit
<1>13. CASE UNCHANGED vars
  BY <1>13 DEF vars
<1> QED BY <1>1, <1>2, <1>3, <1>4, <1>5, <1>6, <1>7, <1>8, <1>9, <1>10, <1>11, <1>12, <1>13
        DEF Next, NetworkThread, Pipeline

(* The last published assessment is the detector's state between two       *)
(* messages, whatever commands, frames, echoes and garbage came before and *)
(* however many: handle sets and publishes both or neither.                *)
THEOREM StateIsPublished == Spec => []PublishedIsState
<1>1. AnswerInv => PublishedIsState
  BY DEF AnswerInv, StateIsAnswered, Quiet, PublishedIsState
<1> QED BY AnswerInvAtFirst, AnswerInvStays, <1>1, PTL DEF Spec

---------------------------------------------------------------------------
(* The assessments.                                                        *)

Good(a) == a \in DangerAssessment /\ Faithful(a)
Slot(S) == S = {} \/ \E a \in S : S = {a} /\ Good(a)

(* Every assessment that is anywhere in the detector is a good one.        *)
AssessmentsAreGood == /\ Good(assessment)
                      /\ Slot(answer) /\ Slot(scan) /\ Slot(published)

InboxIsTyped == inbox \in Seq(Message) /\ Len(inbox) <= MaxInbox

ThreadsAreTyped ==
  /\ pipe \in {"disabled", "health", "not_started", "fetch", "detect",
               "publish", "sleep", "cancelled"}
  /\ mqtt \in {"connected", "lost", "closed"} /\ subscribed \in BOOLEAN
  /\ main \in {"starting", "running", "services_stopped", "joining", "exited"}
  /\ inputs \in 0..MaxInputs /\ drops \in 0..MaxDrops

(* The inductive invariant.                                                *)
DetectorInv == AssessmentsAreGood /\ InboxIsTyped /\ ThreadsAreTyped

LEMMA Slots ==
  /\ Slot({})
  /\ \A a : Good(a) => Slot({a})
  /\ \A S : Slot(S) => \A a \in S : Good(a)
BY DEF Slot

LEMMA ScoresAreGood ==
  /\ \A f \in Frames : \A a \in Scores[f] : Good(a)
  /\ Good(NoThreat)
<1>1. \A f \in Frames : \A a \in Scores[f] : Good(a)
  <2>1. \A f \in Frames : f \in Seq(Detection) /\ Scores[f] = Score(f)
    BY FramesAssumption DEF Scores
  <2> QED BY <2>1, ScoresAreFaithful DEF Good
<1>2. NoThreat \in DangerAssessment
  BY EmptySeq DEF NoThreat, DangerAssessment, ThreatLevels
<1>3. LevelForScore(0 * 1000) = "none"
  BY DEF LevelForScore, critical_threshold, high_threshold, medium_threshold
<1>4. Faithful(NoThreat)
  <2>1. DOMAIN NoThreat.triggering_detections = {} /\ Len(NoThreat.triggering_detections) = 0
    BY DEF NoThreat
  <2>2. NoThreat.level = "none" /\ NoThreat.score = 0 /\ NoThreat.detection_count = 0
        /\ NoThreat.triggering_detections = <<>>
    BY DEF NoThreat
  <2> QED BY <1>3, <2>1, <2>2, DangerOfLevels DEF Faithful
<1> QED BY <1>1, <1>2, <1>4 DEF Good

LEMMA FramesInMessages ==
  ASSUME NEW m \in Message, Understood(m), m.kind \notin Commands
  PROVE  m.detections \in Frames
BY DEF Message, Understood, Commands

LEMMA HeadOfInbox ==
  ASSUME InboxIsTyped, TakeMessage PROVE Head(inbox) \in Message /\ InboxIsTyped'
BY HeadTailProperties, LenProperties, LimitsAssumption DEF InboxIsTyped, TakeMessage

LEMMA PublishKeeps ==
  ASSUME InboxIsTyped, Slot(published), NEW a, Good(a), Publish(a) \/ PublishFails(a)
  PROVE  Slot(published') /\ InboxIsTyped'
<1>1. published' = {a} \/ published' = published
  BY DEF Publish, PublishFails
<1>2. Plain("assessment") \in Message
  BY DEF Plain, Message
<1>3. Echo => InboxIsTyped'
  BY <1>2, AppendProperties, LenProperties, LimitsAssumption DEF InboxIsTyped, Echo
<1>4. UNCHANGED inbox => InboxIsTyped'
  BY DEF InboxIsTyped
<1>5. InboxIsTyped'
  BY <1>3, <1>4 DEF Publish, PublishFails
<1> QED BY <1>1, <1>5, Slots

LEMMA DetectorInvAtFirst == Init => DetectorInv
<1> SUFFICES ASSUME Init PROVE DetectorInv
  OBVIOUS
<1>1. AssessmentsAreGood
  BY Slots, ScoresAreGood DEF Init, AssessmentsAreGood
<1>2. InboxIsTyped
  BY EmptySeq, LimitsAssumption DEF Init, InboxIsTyped
<1>3. ThreadsAreTyped
  BY LimitsAssumption DEF Init, ThreadsAreTyped
<1> QED BY <1>1, <1>2, <1>3 DEF DetectorInv

LEMMA ThreadsStayTyped == ThreadsAreTyped /\ [Next]_vars => ThreadsAreTyped'
<1> SUFFICES ASSUME ThreadsAreTyped, [Next]_vars PROVE ThreadsAreTyped'
  OBVIOUS
<1> USE DEF ThreadsAreTyped, sessionVars
<1>1. ASSUME NEW m \in Message, Inject(m) PROVE ThreadsAreTyped'
  BY <1>1, LimitsAssumption DEF Inject
<1>2. CASE LoseConnection
  <2>1. drops' \in 0..MaxDrops
    BY <1>2, LimitsAssumption DEF LoseConnection
  <2> QED BY <1>2, <2>1 DEF LoseConnection
<1>7. CASE Reconnect
  BY <1>7 DEF Reconnect
<1>3. CASE NetworkThread
  BY <1>3 DEF NetworkThread, IgnoreMessage, SetFromFrame, GetDetectorState,
              ResetDetectorState, PublishAnswer
<1>4. CASE Pipeline
  BY <1>4 DEF Pipeline, HealthCheck, HealthRaises, FetchJpeg, ScanFails, Detect,
              PublishScan, NextPoll, Goto
<1>5. CASE StopPipeline \/ DisconnectMqtt \/ Exit
  BY <1>5 DEF StopPipeline, DisconnectMqtt, Exit
<1>6. CASE UNCHANGED vars
  BY <1>6 DEF vars
<1> QED BY <1>1, <1>2, <1>3, <1>4, <1>5, <1>6, <1>7 DEF Next

LEMMA AssessmentsStayGood ==
  ASSUME AssessmentsAreGood, InboxIsTyped, [Next]_vars
  PROVE  AssessmentsAreGood' /\ InboxIsTyped'
<1> USE DEF AssessmentsAreGood, deviceVars, sessionVars
<1>1. ASSUME NEW m \in Message, Inject(m) PROVE AssessmentsAreGood' /\ InboxIsTyped'
  BY <1>1, AppendProperties, LenProperties, LimitsAssumption DEF Inject, InboxIsTyped
<1>2. CASE LoseConnection \/ DisconnectMqtt
  <2>1. inbox' = <<>> /\ UNCHANGED deviceVars
    BY <1>2 DEF LoseConnection, DisconnectMqtt
  <2>2. InboxIsTyped'
    BY <2>1, EmptySeq, LimitsAssumption DEF InboxIsTyped
  <2> QED BY <2>1, <2>2
<1>3. CASE IgnoreMessage
  BY <1>3, HeadOfInbox DEF IgnoreMessage
<1>4. CASE SetFromFrame
  <2>1. Head(inbox).detections \in Frames /\ InboxIsTyped'
    BY <1>4, HeadOfInbox, FramesInMessages DEF SetFromFrame
  <2>2. PICK a \in Scores[Head(inbox).detections] : assessment' = a /\ answer' = {a}
    BY <1>4 DEF SetFromFrame
  <2>3. Good(a)
    BY <2>1, <2>2, ScoresAreGood
  <2> QED BY <1>4, <2>1, <2>2, <2>3, Slots DEF SetFromFrame
<1>5. CASE GetDetectorState \/ ResetDetectorState
  BY <1>5, HeadOfInbox, ScoresAreGood, Slots DEF GetDetectorState, ResetDetectorState
<1>6. CASE PublishAnswer
  <2>1. PICK a \in answer : Publish(a) \/ PublishFails(a)
    BY <1>6 DEF PublishAnswer
  <2>2. Slot(published') /\ InboxIsTyped'
    BY <2>1, PublishKeeps, Slots
  <2> QED BY <1>6, <2>2, Slots DEF PublishAnswer
<1>7. CASE Detect
  <2>1. PICK f \in Frames : \E a \in Scores[f] : assessment' = a /\ scan' = {a}
    BY <1>7 DEF Detect
  <2>2. PICK a \in Scores[f] : assessment' = a /\ scan' = {a}
    BY <2>1
  <2>3. Good(a)
    BY <2>2, ScoresAreGood
  <2> QED BY <1>7, <2>2, <2>3, Slots DEF Detect, InboxIsTyped
<1>8. CASE PublishScan
  <2>1. PICK a \in scan : Publish(a) \/ PublishFails(a)
    BY <1>8 DEF PublishScan
  <2>2. Slot(published') /\ InboxIsTyped'
    BY <2>1, PublishKeeps, Slots
  <2> QED BY <1>8, <2>2, Slots DEF PublishScan
<1>9. CASE UNCHANGED <<deviceVars, inbox>>
  BY <1>9 DEF InboxIsTyped
<1>10. CASE \/ Reconnect \/ HealthCheck \/ HealthRaises \/ FetchJpeg \/ ScanFails \/ NextPoll
            \/ StopPipeline \/ Exit \/ UNCHANGED vars
  BY <1>9, <1>10 DEF Reconnect, HealthCheck, HealthRaises, FetchJpeg, ScanFails, NextPoll,
                     StopPipeline, Exit, vars
<1> QED BY <1>1, <1>2, <1>3, <1>4, <1>5, <1>6, <1>7, <1>8, <1>10
        DEF Next, NetworkThread, Pipeline

LEMMA DetectorInvariant == Spec => []DetectorInv
<1>1. DetectorInv /\ [Next]_vars => DetectorInv'
  BY ThreadsStayTyped, AssessmentsStayGood DEF DetectorInv
<1> QED BY DetectorInvAtFirst, <1>1, PTL DEF Spec

(* Whatever frames arrive and whatever is lost, what the detector stores   *)
(* or publishes has a level, a score between 0 and 1 and only detections   *)
(* (DangerAssessment), and a handler has at most one of them in hand.      *)
THEOREM DetectorIsTyped == Spec => []TypeOK
<1>1. ASSUME NEW S, Slot(S) PROVE S \subseteq DangerAssessment /\ Cardinality(S) <= 1
  <2>1. CASE S = {}
    BY <2>1, FS_EmptySet
  <2>2. CASE \E a \in S : S = {a} /\ Good(a)
    BY <2>2, FS_Singleton DEF Good
  <2> QED BY <1>1, <2>1, <2>2 DEF Slot
<1>2. DetectorInv => TypeOK
  BY <1>1 DEF DetectorInv, AssessmentsAreGood, InboxIsTyped, ThreadsAreTyped, Good, TypeOK
<1> QED BY <1>2, DetectorInvariant, PTL

(* Every published assessment tells of its worst detection, for frames of  *)
(* any length and any confidences: the filters, the maximum, the levels    *)
(* and the rounding agree (DangerScorer.score).                            *)
THEOREM WorstDetectionIsPublished == Spec => []PublishedIsWorstDetection
<1>1. DetectorInv => \A a \in published : Faithful(a)
  BY Slots DEF DetectorInv, AssessmentsAreGood, Good
<1>2. DetectorInv => PublishedIsWorstDetection
  BY <1>1 DEF Faithful, PublishedIsWorstDetection
<1> QED BY <1>2, DetectorInvariant, PTL

===========================================================================
