----------------------------- MODULE DataProofs -----------------------------
(* Proofs about what is made of statuses and values: the aggregates, for any *)
(* number of members, the baseline of a value, for any length of the period  *)
(* and any number of windows, and the files of the graphs and what readers   *)
(* see of them, for rings of any size and any number of samples and kills.   *)
EXTENDS Aggregates, Hwab, Graph, FiniteSetTheorems, WellFoundedInduction, TLAPS

(* Induction over the numbers, from their order.                             *)
LEMMA LeastNumber ==
    ASSUME NEW T \in SUBSET Nat, T # {}
    PROVE  \E n \in T : \A k \in T : n <= k
<1>. DEFINE R == OpToRel(<, Nat)
<1>1. IsWellFoundedOn(R, Nat)
    BY NatLessThanWellFounded
<1>2. PICK x \in T : \A y \in T : ~(<<y, x>> \in R)
    <2>. HIDE DEF R
    <2>. QED
        BY <1>1, WFMin
<1>3. \A y \in T : ~(y < x)
    BY <1>2 DEF OpToRel
<1>. QED
    BY <1>3

-----------------------------------------------------------------------------
(* The aggregates.  A set of severities that is not empty has a least and a  *)
(* greatest one.                                                             *)
LEMMA LowestIs ==
    ASSUME NEW S \in SUBSET Nat, S # {}
    PROVE  Lowest(S) \in S /\ \A r \in S : Lowest(S) <= r
<1>1. \E s \in S : \A r \in S : s <= r
    BY LeastNumber
<1>. QED
    BY <1>1, Zenon DEF Lowest

LEMMA HighestIs ==
    ASSUME NEW n \in Nat, NEW S \in SUBSET (0..n), S # {}
    PROVE  Highest(S) \in S /\ \A r \in S : r <= Highest(S)
<1>. DEFINE T == {k \in Nat : n - k \in S}
<1>1. PICK s \in S : TRUE
    OBVIOUS
<1>2. n - s \in Nat /\ n - (n - s) = s
    OBVIOUS
<1>3. T # {} /\ T \in SUBSET Nat
    BY <1>1, <1>2
<1>4. PICK k \in T : \A j \in T : k <= j
    BY <1>3, LeastNumber
<1>5. \A r \in S : r <= n - k
    <2>. TAKE r \in S
    <2>1. n - r \in T /\ r \in Nat
        OBVIOUS
    <2>2. k <= n - r /\ k \in Nat
        BY <1>4, <2>1
    <2>. QED
        BY <2>1, <2>2
<1>6. \E m \in S : \A r \in S : r <= m
    BY <1>4, <1>5
<1>. QED
    BY <1>6, Zenon DEF Highest

(* Every voter's status stays, or gets worse and no worse than max; a status *)
(* that is not known stays unknown.                                          *)
Worsened(s, t, V, max) ==
    \A c \in V : t[c] = s[c] \/ (s[c] \in CLEAR..max /\ t[c] \in CLEAR..max /\ s[c] < t[c])

(* The severities that occur move up together.                               *)
LEMMA OccurringWorsens ==
    ASSUME NEW V, NEW max \in Nat, NEW s \in [V -> Nat], NEW t \in [V -> Nat], Worsened(s, t, V, max)
    PROVE  /\ Occurring(s, max) = {} <=> Occurring(t, max) = {}
           /\ Occurring(s, max) # {} =>
                 /\ Lowest(Occurring(s, max)) <= Lowest(Occurring(t, max))
                 /\ Highest(Occurring(s, max)) <= Highest(Occurring(t, max))
<1>. DEFINE A == Occurring(s, max)
            B == Occurring(t, max)
<1>1. A \in SUBSET (0..max) /\ B \in SUBSET (0..max) /\ A \in SUBSET Nat /\ B \in SUBSET Nat
    BY DEF Occurring, CLEAR
<1>2. \A v \in B : \E u \in A : u <= v
    <2>. TAKE v \in B
    <2>1. PICK c \in V : v \in CLEAR..max /\ t[c] = v
        BY DEF Occurring
    <2>2. s[c] \in CLEAR..max /\ s[c] <= v
        BY <2>1 DEF Worsened, CLEAR
    <2>. QED
        BY <2>2 DEF Occurring
<1>3. \A u \in A : \E v \in B : u <= v
    <2>. TAKE u \in A
    <2>1. PICK c \in V : u \in CLEAR..max /\ s[c] = u
        BY DEF Occurring
    <2>2. t[c] \in CLEAR..max /\ u <= t[c]
        BY <2>1 DEF Worsened, CLEAR
    <2>. QED
        BY <2>2 DEF Occurring
<1>. HIDE DEF A, B
<1>4. A = {} <=> B = {}
    BY <1>2, <1>3
<1>5. ASSUME A # {} PROVE Lowest(A) <= Lowest(B) /\ Highest(A) <= Highest(B)
    <2>1. /\ Lowest(A) \in A /\ \A r \in A : Lowest(A) <= r
          /\ Lowest(B) \in B /\ \A r \in B : Lowest(B) <= r
        BY <1>1, <1>4, <1>5, LowestIs
    <2>2. /\ Highest(A) \in A /\ \A r \in A : r <= Highest(A)
          /\ Highest(B) \in B /\ \A r \in B : r <= Highest(B)
        BY <1>1, <1>4, <1>5, HighestIs
    <2>3. PICK u \in A : u <= Lowest(B)
        BY <1>2, <2>1
    <2>4. PICK v \in B : Highest(A) <= v
        BY <1>3, <2>2
    <2>5. Lowest(A) <= u /\ u \in Nat /\ Lowest(A) \in Nat /\ Lowest(B) \in Nat
        BY <1>1, <2>1, <2>3
    <2>6. v <= Highest(B) /\ v \in Nat /\ Highest(A) \in Nat /\ Highest(B) \in Nat
        BY <1>1, <2>2, <2>4
    <2>. QED
        BY <2>3, <2>4, <2>5, <2>6
<1>. QED
    BY <1>4, <1>5 DEF A, B

(* Fewer voters say CLEAR to sev, as many say CLEAR to max: what the lesser  *)
(* half does not exceed moves up, and there is one as before.                *)
LEMMA ReachedWorsens ==
    ASSUME NEW V, IsFiniteSet(V), NEW max \in Nat, NEW q \in Nat, NEW s, NEW t,
           \A c \in V : s[c] \in Nat /\ t[c] \in Nat, Worsened(s, t, V, max)
    PROVE  /\ Reached(s, V, q, max) = {} <=> Reached(t, V, q, max) = {}
           /\ Reached(s, V, q, max) # {} =>
                 Lowest(Reached(s, V, q, max)) <= Lowest(Reached(t, V, q, max))
<1>. DEFINE A == Reached(s, V, q, max)
            B == Reached(t, V, q, max)
            F(x) == {c \in V : s[c] \in CLEAR..x}
            G(x) == {c \in V : t[c] \in CLEAR..x}
<1>1. A \in SUBSET Nat /\ B \in SUBSET Nat
    BY DEF Reached, CLEAR
<1>2. ASSUME NEW x \in Nat PROVE /\ IsFiniteSet(F(x)) /\ IsFiniteSet(G(x))
                                 /\ Cardinality(F(x)) \in Nat /\ Cardinality(G(x)) \in Nat
    <2>1. F(x) \in SUBSET V /\ G(x) \in SUBSET V
        OBVIOUS
    <2>2. IsFiniteSet(F(x)) /\ IsFiniteSet(G(x))
        BY <2>1, FS_Subset
    <2>. QED
        BY <2>2, FS_CardinalityType
<1>3. ASSUME NEW x \in CLEAR..max
      PROVE  /\ x \in Nat /\ G(x) \in SUBSET F(x) /\ F(x) \in SUBSET F(max) /\ F(max) = G(max)
             /\ max \in CLEAR..max
    BY DEF Worsened, CLEAR
<1>4. /\ A = {x \in CLEAR..max : Cardinality(F(x)) >= q}
      /\ B = {x \in CLEAR..max : Cardinality(G(x)) >= q}
    BY DEF Reached, Cumulative
<1>. HIDE DEF A, B, F, G
<1>5. ASSUME NEW x \in CLEAR..max
      PROVE  /\ Cardinality(G(x)) <= Cardinality(F(x))
             /\ Cardinality(F(x)) <= Cardinality(F(max))
    BY <1>2, <1>3, FS_Subset
<1>6. B \subseteq A
    <2>. SUFFICES ASSUME NEW x \in B PROVE x \in A
        OBVIOUS
    <2>1. x \in CLEAR..max /\ Cardinality(G(x)) >= q
        BY <1>4
    <2>2. /\ Cardinality(G(x)) <= Cardinality(F(x))
          /\ Cardinality(G(x)) \in Nat /\ Cardinality(F(x)) \in Nat
        BY <1>2, <1>3, <1>5, <2>1
    <2>3. Cardinality(F(x)) >= q
        BY <2>1, <2>2
    <2>. QED
        BY <1>4, <2>1, <2>3
<1>7. ASSUME A # {} PROVE B # {}
    <2>1. PICK x \in A : TRUE
        BY <1>7
    <2>2. x \in CLEAR..max /\ Cardinality(F(x)) >= q
        BY <1>4, <2>1
    <2>3. /\ Cardinality(F(x)) <= Cardinality(F(max))
          /\ Cardinality(F(x)) \in Nat /\ Cardinality(F(max)) \in Nat
          /\ F(max) = G(max) /\ max \in CLEAR..max
        BY <1>2, <1>3, <1>5, <2>2
    <2>4. Cardinality(F(max)) >= q
        BY <2>2, <2>3
    <2>5. max \in B
        BY <1>4, <2>3, <2>4
    <2>. QED
        BY <2>5
<1>8. ASSUME A # {} PROVE Lowest(A) <= Lowest(B)
    <2>1. /\ Lowest(A) \in A /\ \A r \in A : Lowest(A) <= r
          /\ Lowest(B) \in B
        BY <1>1, <1>7, <1>8, LowestIs
    <2>. QED
        BY <1>6, <2>1
<1>. QED
    BY <1>6, <1>7, <1>8 DEF A, B

(* Of the voters, all with a known status, no more than half are better than *)
(* the least severity that the lesser half does not exceed, or worse.        *)
LEMMA MedianVote ==
    ASSUME NEW V, IsFiniteSet(V), V # {}, NEW max \in Nat, NEW s,
           \A c \in V : s[c] \in CLEAR..max,
           NEW g, g = Lowest(Reached(s, V, Majority(Cardinality(V)), max))
    PROVE  /\ Reached(s, V, Majority(Cardinality(V)), max) # {}
           /\ 2 * Cardinality({c \in V : s[c] < g}) <= Cardinality(V)
           /\ 2 * Cardinality({c \in V : s[c] > g}) <= Cardinality(V)
<1>. DEFINE n == Cardinality(V)
            A == Reached(s, V, Majority(n), max)
            F(x) == {c \in V : s[c] \in CLEAR..x}
            Better == {c \in V : s[c] < g}
            Worse == {c \in V : s[c] > g}
<1>1. n \in Nat /\ n # 0 /\ Majority(n) \in Nat /\ 2 * Majority(n) \in {n, n + 1} /\ Majority(n) <= n
    <2>1. n \in Nat /\ n # 0
        BY FS_CardinalityType, FS_EmptySet
    <2>. HIDE DEF n
    <2>. QED
        BY <2>1 DEF Majority
<1>2. A \in SUBSET Nat /\ A = {x \in CLEAR..max : Cardinality(F(x)) >= Majority(n)}
    BY DEF Reached, Cumulative, CLEAR
<1>3. F(max) = V /\ max \in CLEAR..max
    BY DEF CLEAR
<1>4. \A x : F(x) \in SUBSET V /\ IsFiniteSet(F(x)) /\ Cardinality(F(x)) \in Nat
    <2>. TAKE x
    <2>1. F(x) \in SUBSET V
        OBVIOUS
    <2>2. IsFiniteSet(F(x))
        BY <2>1, FS_Subset
    <2>. QED
        BY <2>1, <2>2, FS_CardinalityType
<1>5. ASSUME g \in CLEAR..max PROVE Worse = V \ F(g)
    BY <1>5 DEF CLEAR
<1>6. ASSUME g \in CLEAR..max, g # CLEAR
      PROVE  Better = F(g - 1) /\ g - 1 \in CLEAR..max /\ g - 1 < g
    BY <1>6 DEF CLEAR
<1>7. ASSUME g = CLEAR PROVE Better = {}
    BY <1>7 DEF CLEAR
<1>. HIDE DEF n, A, F, Better, Worse
<1>8. A # {}
    <2>1. Cardinality(F(max)) = n
        BY <1>3 DEF n
    <2>2. Cardinality(F(max)) >= Majority(n)
        BY <1>1, <2>1
    <2>. QED
        BY <1>2, <1>3, <2>2
<1>9. g \in A /\ \A r \in A : g <= r
    BY <1>2, <1>8, LowestIs DEF A, n
<1>10. g \in CLEAR..max /\ Cardinality(F(g)) >= Majority(n) /\ Cardinality(F(g)) \in Nat
    BY <1>2, <1>4, <1>9
<1>11. 2 * Cardinality(Worse) <= n
    <2>1. F(g) \subseteq V /\ V \cap F(g) = F(g)
        BY <1>4
    <2>2. Cardinality(V \ F(g)) = Cardinality(V) - Cardinality(V \cap F(g))
        BY FS_Difference
    <2>3. Cardinality(Worse) = n - Cardinality(F(g))
        BY <1>5, <1>10, <2>1, <2>2 DEF n
    <2>. QED
        BY <1>1, <1>10, <2>3
<1>12. 2 * Cardinality(Better) <= n
    <2>1. CASE g = CLEAR
        <3>1. Cardinality(Better) = 0
            BY <1>7, <2>1, FS_EmptySet
        <3>. QED
            BY <1>1, <3>1
    <2>2. CASE g # CLEAR
        <3>1. Better = F(g - 1) /\ g - 1 \in CLEAR..max /\ g - 1 \notin A
            <4>1. Better = F(g - 1) /\ g - 1 \in CLEAR..max /\ g - 1 < g
                BY <1>6, <1>10, <2>2
            <4>2. g - 1 \notin A
                <5>. SUFFICES ASSUME g - 1 \in A PROVE FALSE
                    OBVIOUS
                <5>1. g <= g - 1 /\ g \in Nat
                    BY <1>2, <1>9
                <5>. QED
                    BY <5>1
            <4>. QED
                BY <4>1, <4>2
        <3>2. ~(Cardinality(F(g - 1)) >= Majority(n)) /\ Cardinality(F(g - 1)) \in Nat
            BY <1>2, <1>4, <3>1
        <3>. QED
            BY <1>1, <3>1, <3>2
    <2>. QED
        BY <2>1, <2>2
<1>. QED
    BY <1>8, <1>11, <1>12 DEF A, n, Better, Worse

(* When voters' statuses worsen, a group does not get better (monel).        *)
LEMMA GroupWorsens ==
    ASSUME NEW V, IsFiniteSet(V), NEW max \in Nat, NEW s \in [V -> Nat], NEW t \in [V -> Nat],
           Worsened(s, t, V, max), NEW g
    PROVE  calcAggrStatus(g, max, s) <= calcAggrStatus(g, max, t)
<1>. DEFINE A == Occurring(s, max)
            B == Occurring(t, max)
            q == Majority(Cardinality(Known(s)))
            R == Reached(s, Known(s), q, max)
            U == Reached(t, Known(s), q, max)
<1>1. /\ A \in SUBSET Nat /\ B \in SUBSET Nat /\ A \in SUBSET (0..max) /\ B \in SUBSET (0..max)
      /\ R \in SUBSET Nat /\ U \in SUBSET Nat
    BY DEF Occurring, Reached, CLEAR
<1>2. Known(t) = Known(s)
    BY DEF Known, Worsened, UNKNOWN, CLEAR
<1>3. q \in Nat /\ IsFiniteSet(Known(s))
    <2>1. Known(s) \in SUBSET V
        BY DEF Known
    <2>2. IsFiniteSet(Known(s)) /\ Cardinality(Known(s)) \in Nat
        BY <2>1, FS_Subset, FS_CardinalityType
    <2>. QED
        BY <2>2 DEF Majority
<1>4. /\ \A c \in Known(s) : s[c] \in Nat /\ t[c] \in Nat
      /\ Worsened(s, t, Known(s), max)
    BY DEF Known, Worsened
<1>5. /\ R = {} <=> U = {}
      /\ R # {} => Lowest(R) <= Lowest(U)
    BY <1>3, <1>4, ReachedWorsens
<1>6. /\ A = {} <=> B = {}
      /\ A # {} => Lowest(A) <= Lowest(B) /\ Highest(A) <= Highest(B)
    BY OccurringWorsens
<1>7. /\ calcAggrStatus(g, max, s) =
            CASE g = "down" -> IF A = {} THEN UNKNOWN ELSE Highest(A)
              [] g = "up" -> IF A = {} THEN CLEAR ELSE Lowest(A)
              [] OTHER -> IF R = {} THEN UNKNOWN ELSE Lowest(R)
      /\ calcAggrStatus(g, max, t) =
            CASE g = "down" -> IF B = {} THEN UNKNOWN ELSE Highest(B)
              [] g = "up" -> IF B = {} THEN CLEAR ELSE Lowest(B)
              [] OTHER -> IF U = {} THEN UNKNOWN ELSE Lowest(U)
    BY <1>2 DEF calcAggrStatus
<1>8. UNKNOWN <= UNKNOWN /\ CLEAR <= CLEAR
    BY DEF UNKNOWN, CLEAR
<1>. HIDE DEF A, B, R, U, q
<1>9. CASE g = "down"
    BY <1>6, <1>7, <1>8, <1>9
<1>10. CASE g = "up"
    BY <1>6, <1>7, <1>8, <1>10
<1>11. CASE g # "down" /\ g # "up"
    BY <1>5, <1>7, <1>8, <1>11
<1>. QED
    BY <1>9, <1>10, <1>11

(* When what servers report worsens, a service does not get better (darp).   *)
LEMMA ServiceWorsens ==
    ASSUME NEW V, IsFiniteSet(V), NEW s \in [V -> Nat], NEW t \in [V -> Nat],
           Worsened(s, t, V, CRITICAL), NEW g, NEW h, NEW a \in Nat, NEW b \in Nat, a <= b
    PROVE  CalcAggrStatus(g, a, s, h) <= CalcAggrStatus(g, b, t, h)
<1>. DEFINE W == Voters(g, s, h)
            f == [c \in W |-> s[c]]
            e == [c \in W |-> t[c]]
            A == Occurring(f, CRITICAL)
            B == Occurring(e, CRITICAL)
            q == Majority(Cardinality(W))
            R == Reached(s, W, q, CRITICAL)
            U == Reached(t, W, q, CRITICAL)
<1>1. Voters(g, t, h) = W /\ W \in SUBSET V
    BY DEF Voters
<1>2. q \in Nat /\ IsFiniteSet(W)
    <2>1. IsFiniteSet(W) /\ Cardinality(W) \in Nat
        BY <1>1, FS_Subset, FS_CardinalityType
    <2>. QED
        BY <2>1 DEF Majority
<1>3. /\ \A c \in W : s[c] \in Nat /\ t[c] \in Nat
      /\ Worsened(s, t, W, CRITICAL)
    BY <1>1 DEF Worsened
<1>4. CRITICAL \in Nat
    BY DEF CRITICAL
<1>5. /\ R = {} <=> U = {}
      /\ R # {} => Lowest(R) <= Lowest(U)
    BY <1>2, <1>3, <1>4, ReachedWorsens
<1>6. f \in [W -> Nat] /\ e \in [W -> Nat] /\ Worsened(f, e, W, CRITICAL)
    BY <1>3 DEF Worsened
<1>7. /\ A = {} <=> B = {}
      /\ A # {} => Lowest(A) <= Lowest(B) /\ Highest(A) <= Highest(B)
    <2>. HIDE DEF f, e, W
    <2>. QED
        BY <1>4, <1>6, OccurringWorsens
<1>8. /\ CalcAggrStatus(g, a, s, h) =
            CASE g = "self" -> a
              [] g = "up" -> IF A = {} THEN CLEAR ELSE Lowest(A)
              [] g = "down" -> IF A = {} THEN CLEAR ELSE Highest(A)
              [] OTHER -> IF R = {} THEN CLEAR ELSE Lowest(R)
      /\ CalcAggrStatus(g, b, t, h) =
            CASE g = "self" -> b
              [] g = "up" -> IF B = {} THEN CLEAR ELSE Lowest(B)
              [] g = "down" -> IF B = {} THEN CLEAR ELSE Highest(B)
              [] OTHER -> IF U = {} THEN CLEAR ELSE Lowest(U)
    BY <1>1 DEF CalcAggrStatus
<1>9. CLEAR <= CLEAR
    BY DEF CLEAR
<1>. HIDE DEF A, B, R, U, q, W, f, e
<1>10. CASE g = "self"
    BY <1>8, <1>10
<1>11. CASE g = "up"
    BY <1>7, <1>8, <1>9, <1>11
<1>12. CASE g = "down"
    BY <1>7, <1>8, <1>9, <1>12
<1>13. CASE g # "self" /\ g # "down" /\ g # "up"
    BY <1>5, <1>8, <1>9, <1>13
<1>. QED
    BY <1>10, <1>11, <1>12, <1>13

AggrTypeOK == st \in [Members -> Reports] /\ grav \in Gravity \cup {"none"}

(* Members have one of the statuses that are reported, or none is known of   *)
(* them (calcAggrStatus).                                                    *)
THEOREM AggregatesAreTyped == AggrSpec => []AggrTypeOK
<1>1. AggrInit => AggrTypeOK
    BY DEF AggrInit, AggrTypeOK, Reports
<1>2. AggrTypeOK /\ [AggrNext]_aggrVars => AggrTypeOK'
    <2>. SUFFICES ASSUME AggrTypeOK, [AggrNext]_aggrVars PROVE AggrTypeOK'
        OBVIOUS
    <2>1. CASE grav = "none" /\ grav' \in Gravity /\ UNCHANGED <<st, up>>
        BY <2>1 DEF AggrTypeOK
    <2>2. ASSUME NEW m \in Members, st' \in {[st EXCEPT ![m] = s] : s \in Reports}, UNCHANGED <<grav, up>>
          PROVE  AggrTypeOK'
        BY <2>2 DEF AggrTypeOK
    <2>3. CASE UNCHANGED <<grav, st>>
        BY <2>3 DEF AggrTypeOK
    <2>. QED
        BY <2>1, <2>2, <2>3 DEF AggrNext, aggrVars
<1>. QED
    BY <1>1, <1>2, PTL DEF AggrSpec

(* By vote, a group is where its median child is, whatever number of         *)
(* children it has (calcAggrStatus).                                         *)
LEMMA MedianOfTheKnown == AggrTypeOK => GroupIsMedian
<1>. SUFFICES ASSUME AggrTypeOK, grav \in {"vote", "ietf", "self"}, Graded # {}
     PROVE  /\ 2 * Cardinality({m \in Graded : st[m] < Group}) <= Cardinality(Graded)
            /\ 2 * Cardinality({m \in Graded : st[m] > Group}) <= Cardinality(Graded)
    BY DEF GroupIsMedian
<1>. DEFINE R == Reached(st, Graded, Majority(Cardinality(Graded)), MAXSTATUS)
<1>1. Graded = Known(st) /\ Graded \in SUBSET Members
    BY DEF Graded, Known, AggrTypeOK
<1>2. IsFiniteSet(Graded)
    BY <1>1, FS_Subset, AggregatesAssumption
<1>3. \A c \in Graded : st[c] \in CLEAR..MAXSTATUS
    BY DEF Graded, AggrTypeOK, Reports, UNKNOWN, CLEAR, WARNING, CRITICAL, DEPENDS, MAXSTATUS
<1>4. MAXSTATUS \in Nat
    BY DEF MAXSTATUS
<1>5. /\ R # {}
      /\ 2 * Cardinality({m \in Graded : st[m] < Lowest(R)}) <= Cardinality(Graded)
      /\ 2 * Cardinality({m \in Graded : st[m] > Lowest(R)}) <= Cardinality(Graded)
    BY <1>2, <1>3, <1>4, MedianVote
<1>6. Group = IF R = {} THEN UNKNOWN ELSE Lowest(R)
    BY <1>1 DEF Group, calcAggrStatus
<1>. HIDE DEF R
<1>7. Group = Lowest(R)
    BY <1>5, <1>6
<1>. QED
    BY <1>5, <1>7 DEF R

(* By vote a group is where its median known member is, for any number of    *)
(* members (monel/transition.go, calcAggrStatus).                            *)
THEOREM GroupsAreMedians == AggrSpec => []GroupIsMedian
BY AggregatesAreTyped, MedianOfTheKnown, PTL

(* A change for the worse of one member, as the group sees it and as the     *)
(* service does.                                                             *)
LEMMA OneGetsWorse ==
    ASSUME AggrTypeOK, AggrNext, AggrTypeOK', grav # "none",
           NEW m \in Members, st[m] # UNKNOWN, st'[m] > st[m], st'[m] # DEPENDS
    PROVE  Group' >= Group /\ Service' >= Service
<1>1. PICK n \in Members, s \in Reports : st' = [st EXCEPT ![n] = s] /\ UNCHANGED <<grav, up>>
    <2>1. st' # st
        BY DEF AggrTypeOK, Reports, UNKNOWN, CLEAR, WARNING, CRITICAL, DEPENDS
    <2>. QED
        BY <2>1 DEF AggrNext
<1>2. \A c \in Members : st[c] \in Nat /\ st'[c] \in Nat
    BY DEF AggrTypeOK, Reports, UNKNOWN, CLEAR, WARNING, CRITICAL, DEPENDS
<1>3. \A c \in Members \ {m} : st'[c] = st[c]
    <2>1. n = m
        BY <1>1, <1>2 DEF AggrTypeOK
    <2>. QED
        BY <1>1, <2>1 DEF AggrTypeOK
<1>4. st[m] \in CLEAR..CRITICAL /\ st'[m] \in CLEAR..CRITICAL /\ st[m] < st'[m]
    <2>1. st[m] \in Reports /\ st'[m] \in Reports
        BY DEF AggrTypeOK
    <2>. QED
        BY <2>1 DEF Reports, UNKNOWN, CLEAR, WARNING, CRITICAL, DEPENDS
<1>5. Worsened(st, st', Members, MAXSTATUS)
    BY <1>3, <1>4 DEF Worsened, CLEAR, CRITICAL, MAXSTATUS
<1>6. st \in [Members -> Nat] /\ st' \in [Members -> Nat]
    BY <1>2 DEF AggrTypeOK
<1>7. Group <= Group'
    <2>1. MAXSTATUS \in Nat
        BY DEF MAXSTATUS
    <2>2. calcAggrStatus(grav, MAXSTATUS, st) <= calcAggrStatus(grav, MAXSTATUS, st')
        BY <1>5, <1>6, <2>1, AggregatesAssumption, GroupWorsens
    <2>. QED
        BY <1>1, <2>2 DEF Group
<1>8. /\ Said \in [Members -> Nat] /\ Said' \in [Members -> Nat]
      /\ Worsened(Said, Said', Members, CRITICAL)
      /\ Said[Me] \in Nat /\ Said'[Me] \in Nat /\ Said[Me] <= Said'[Me]
    <2>1. /\ Said = [c \in Members |-> IF st[c] = DEPENDS THEN UNKNOWN ELSE st[c]]
          /\ Said' = [c \in Members |-> IF st'[c] = DEPENDS THEN UNKNOWN ELSE st'[c]]
        BY DEF Said
    <2>2. Said \in [Members -> Nat] /\ Said' \in [Members -> Nat]
        BY <1>2, <2>1 DEF UNKNOWN
    <2>3. /\ \A c \in Members \ {m} : Said'[c] = Said[c]
          /\ Said[m] = st[m] /\ Said'[m] = st'[m]
        BY <1>3, <1>4, <2>1 DEF DEPENDS, CLEAR, CRITICAL
    <2>4. \A c \in Members : Said[c] \in Nat /\ Said'[c] \in Nat /\ Said[c] <= Said'[c]
        BY <1>4, <2>2, <2>3
    <2>5. Worsened(Said, Said', Members, CRITICAL)
        BY <1>4, <2>3 DEF Worsened
    <2>. QED
        BY <2>2, <2>4, <2>5, AggregatesAssumption
<1>9. CalcAggrStatus(grav, Said[Me], Said, up) <= CalcAggrStatus(grav, Said'[Me], Said', up)
    BY <1>8, AggregatesAssumption, ServiceWorsens
<1>10. Service <= Service'
    BY <1>1, <1>9 DEF Service
<1>. QED
    BY <1>7, <1>10

(* When a member gets worse no aggregate gets better, for any number of      *)
(* members and every gravity (calcAggrStatus, CalcAggrStatus).               *)
THEOREM WorseStaysWorse == AggrSpec => WorseIsNeverBetter
<1>1. AggrTypeOK /\ AggrTypeOK' /\ [AggrNext]_aggrVars =>
        [grav # "none" /\ (\E m \in Members : st[m] # UNKNOWN /\ st'[m] > st[m] /\ st'[m] # DEPENDS)
            => Group' >= Group /\ Service' >= Service]_aggrVars
    BY OneGetsWorse
<1>. QED
    BY <1>1, AggregatesAreTyped, PTL DEF AggrSpec, WorseIsNeverBetter

-----------------------------------------------------------------------------
(* Induction over the numbers, from their order.                             *)
LEMMA SetInduction ==
    ASSUME NEW T \in SUBSET Nat, 0 \in T, \A n \in T : n + 1 \in T
    PROVE  T = Nat
<1>. SUFFICES ASSUME Nat \ T # {} PROVE FALSE
    OBVIOUS
<1>1. PICK n \in Nat \ T : \A k \in Nat \ T : n <= k
    BY LeastNumber
<1>2. n # 0 /\ n - 1 \in Nat
    BY <1>1
<1>3. n - 1 \in T
    BY <1>1, <1>2
<1>. QED
    BY <1>1, <1>3

-----------------------------------------------------------------------------
(* The baseline.  A bucket's deviation is a number or is not known, or is    *)
(* not a number; n is the length of the period.                              *)
Deviations == {Naught, Some, NaN}

Baselines(n) ==
    [buckets : {n}, Pbuckets : Nat, Created : Int, Count : Nat, Lap : Nat,
     D : [0 .. n - 1 -> Deviations], cstart : Int, dn : Deviations]

(* After the first period all deviations are known.                          *)
AllKnown(h) == h.Lap >= 1 => \A i \in DOMAIN h.D : h.D[i] # Naught
Whole(h) == AllKnown(h) /\ (h.Lap >= 1 => h.dn # Naught)

LEMMA SumsAre ==
    /\ \A a, b : Sum2(a, b) \in Deviations
    /\ \A b : \A a \in Deviations \ {Naught} : Sum2(a, b) # Naught /\ Sum2(b, a) # Naught
BY DEF Sum2, Deviations, Naught, Some, NaN

(* The index of a bucket is one, but for windows long before Created.        *)
LEMMA IndexIs ==
    ASSUME NEW n \in Nat \ {0}, NEW h, h.buckets = n, NEW i \in Int
    PROVE  /\ idx(h, i) \in Int
           /\ idx(h, i) >= 0 => idx(h, i) \in 0 .. n - 1
           /\ i + n >= 0 => idx(h, i) \in 0 .. n - 1
<1>1. \A k \in Nat : k % n \in 0 .. n - 1
    OBVIOUS
<1>2. CASE i + n >= 0
    <2>1. i + n \in Nat
        BY <1>2
    <2>. QED
        BY <1>1, <1>2, <2>1 DEF idx
<1>3. CASE ~(i + n >= 0)
    <2>1. -(i + n) \in Nat
        BY <1>3
    <2>2. (-(i + n)) % n \in 0 .. n - 1
        BY <1>1, <2>1
    <2>3. idx(h, i) = -((-(i + n)) % n)
        BY <1>3 DEF idx
    <2>. QED
        BY <1>3, <2>2, <2>3
<1>. QED
    BY <1>2, <1>3

(* A hole between the first bucket and another one is filled.                *)
LEMMA InterpolateIs ==
    ASSUME NEW n \in Nat \ {0}, NEW h \in Baselines(n), h.D[0] # Naught
    PROVE  /\ interpolate(h) \in Baselines(n)
           /\ \A i \in 0 .. n - 1 : interpolate(h).D[i] # Naught
           /\ \A f \in {"Lap", "Pbuckets", "Created", "cstart"} : interpolate(h)[f] = h[f]
<1>. DEFINE known == {i \in 0 .. h.buckets - 1 : h.D[i] # Naught}
            before(i) == {j \in known : j < i} \cup {0}
            after(i) == h.D[idx(h, i + Min({r \in 0 .. h.buckets - 1 : idx(h, i + r) \in known}))]
            D == [i \in 0 .. h.buckets - 1 |-> IF i \in known THEN h.D[i] ELSE Sum2(h.D[Max(before(i))], after(i))]
<1>1. h.buckets = n /\ h.D \in [0 .. n - 1 -> Deviations]
    BY DEF Baselines
<1>2. 0 \in known /\ known \subseteq 0 .. n - 1
    BY <1>1
<1>3. interpolate(h) = [h EXCEPT !.D = D]
    BY DEF interpolate
<1>4. ASSUME NEW i \in 0 .. n - 1 PROVE Max(before(i)) \in known
    <2>1. before(i) \in SUBSET (0 .. n - 1) /\ 0 \in before(i) /\ before(i) \subseteq known
        BY <1>2
    <2>. HIDE DEF before
    <2>2. n - 1 \in Nat
        OBVIOUS
    <2>3. \E x \in before(i) : \A y \in before(i) : y <= x
        BY <2>1, <2>2, HighestIs
    <2>4. \E x \in before(i) : \A y \in before(i) : x >= y
        BY <2>3
    <2>5. Max(before(i)) \in before(i)
        BY <2>4, Zenon DEF Max
    <2>. QED
        BY <2>1, <2>5
<1>5. ASSUME NEW i \in 0 .. n - 1 PROVE D[i] \in Deviations \ {Naught}
    <2>1. CASE i \in known
        BY <1>1, <2>1
    <2>2. CASE i \notin known
        <3>1. h.D[Max(before(i))] \in Deviations \ {Naught}
            BY <1>1, <1>2, <1>4
        <3>2. D[i] = Sum2(h.D[Max(before(i))], after(i))
            BY <1>1, <2>2
        <3>. HIDE DEF D, before, after
        <3>. QED
            BY <3>1, <3>2, SumsAre
    <2>. QED
        BY <2>1, <2>2
<1>6. DOMAIN D = 0 .. n - 1
    BY <1>1
<1>7. D \in [0 .. n - 1 -> Deviations]
    BY <1>1, <1>5, <1>6
<1>. HIDE DEF D
<1>. QED
    BY <1>3, <1>5, <1>7 DEF Baselines

(* The mean of known deviations is known.                                    *)
LEMMA SmoothIs ==
    ASSUME NEW n \in Nat \ {0}, NEW h \in Baselines(n), \A i \in 0 .. n - 1 : h.D[i] # Naught
    PROVE  /\ smooth(h) \in Baselines(n)
           /\ \A i \in 0 .. n - 1 : smooth(h).D[i] # Naught
           /\ \A f \in {"Lap", "Pbuckets", "Created", "cstart"} : smooth(h)[f] = h[f]
<1>. DEFINE near(i) == {h.D[idx(h, (i + k) % h.buckets)] : k \in 0 - 2 .. 2}
            D == [i \in 0 .. h.buckets - 1 |-> Total(near(i))]
<1>1. h.buckets = n /\ h.D \in [0 .. n - 1 -> Deviations]
    BY DEF Baselines
<1>2. smooth(h) = [h EXCEPT !.D = D]
    BY DEF smooth
<1>3. ASSUME NEW i \in 0 .. n - 1 PROVE Total(near(i)) \in Deviations \ {Naught}
    <2>1. ASSUME NEW k \in 0 - 2 .. 2 PROVE h.D[idx(h, (i + k) % h.buckets)] \in {Some, NaN}
        <3>1. (i + k) % n \in 0 .. n - 1
            OBVIOUS
        <3>2. (i + k) % n \in Int /\ ((i + k) % n) + n >= 0
            BY <3>1
        <3>3. idx(h, (i + k) % n) \in 0 .. n - 1
            BY <1>1, <3>2, IndexIs
        <3>. QED
            BY <1>1, <3>3 DEF Deviations
    <2>2. near(i) \subseteq {Some, NaN}
        BY <2>1
    <2>3. h.D[idx(h, (i + 0) % h.buckets)] \in near(i)
        OBVIOUS
    <2>. HIDE DEF near
    <2>. QED
        BY <2>2, <2>3 DEF Total, Deviations, Naught, Some, NaN
<1>4. D \in [0 .. n - 1 -> Deviations] /\ \A i \in 0 .. n - 1 : D[i] # Naught
    BY <1>1, <1>3
<1>. HIDE DEF D
<1>. QED
    BY <1>2, <1>4 DEF Baselines

(* A new lap: when the first one is over the holes are filled, or it begins  *)
(* again.                                                                    *)
LEMMA NewLapIs ==
    ASSUME NEW n \in Nat \ {0}, NEW h \in Baselines(n), AllKnown(h)
    PROVE  /\ NewLap(h) \in Baselines(n) /\ AllKnown(NewLap(h))
           /\ NewLap(h).Pbuckets = h.Pbuckets /\ NewLap(h).Created = h.Created
           /\ NewLap(h).cstart = h.cstart
<1>. DEFINE lap == IF h.Count > 0 THEN h.Lap + 1 ELSE h.Lap
            h1 == [h EXCEPT !.Lap = lap]
            h0 == [h1 EXCEPT !.Lap = 0, !.Count = 0]
<1>1. lap \in Nat /\ lap \in {h.Lap, h.Lap + 1} /\ h.Lap \in Nat
    BY DEF Baselines
<1>2. NewLap(h) = IF lap = 1 THEN IF checkEnough(h1) THEN interpolate(h1) ELSE h0
                  ELSE IF lap > 1 THEN smooth(h1)
                  ELSE h1
    BY DEF NewLap
<1>. HIDE DEF lap
<1>3. /\ h1 \in Baselines(n) /\ h1.Lap = lap /\ h1.D = h.D
      /\ h1.Pbuckets = h.Pbuckets /\ h1.Created = h.Created /\ h1.cstart = h.cstart
    BY <1>1 DEF Baselines
<1>4. /\ h0 \in Baselines(n) /\ h0.Lap = 0
      /\ h0.Pbuckets = h.Pbuckets /\ h0.Created = h.Created /\ h0.cstart = h.cstart
    BY <1>1 DEF Baselines
<1>5. \A r \in Baselines(n) : DOMAIN r.D = 0 .. n - 1
    BY DEF Baselines
<1>. HIDE DEF h1, h0
<1>6. CASE lap = 1 /\ checkEnough(h1)
    <2>1. h1.D[0] # Naught
        BY <1>6 DEF checkEnough
    <2>. QED
        BY <1>2, <1>3, <1>5, <1>6, <2>1, InterpolateIs DEF AllKnown
<1>7. CASE lap = 1 /\ ~checkEnough(h1)
    BY <1>2, <1>4, <1>7 DEF AllKnown
<1>8. CASE lap > 1
    <2>1. h.Lap >= 1 /\ lap # 1
        BY <1>1, <1>8
    <2>2. \A i \in 0 .. n - 1 : h1.D[i] # Naught
        BY <1>3, <1>5, <2>1 DEF AllKnown
    <2>3. NewLap(h) = smooth(h1)
        BY <1>2, <1>8, <2>1
    <2>. QED
        BY <1>3, <1>5, <2>2, <2>3, SmoothIs DEF AllKnown
<1>9. CASE lap = 0
    <2>1. NewLap(h) = h1
        BY <1>2, <1>9
    <2>. QED
        BY <1>3, <1>9, <2>1 DEF AllKnown
<1>. QED
    BY <1>1, <1>6, <1>7, <1>8, <1>9

(* A deviation is given to one bucket, and one is the prediction.            *)
LEMMA GivenIs ==
    ASSUME NEW n \in Nat \ {0}, NEW h \in Baselines(n), AllKnown(h),
           NEW si \in 0 .. n - 1, NEW d \in Deviations \ {Naught}
    PROVE  /\ [h.D EXCEPT ![si] = d] \in [0 .. n - 1 -> Deviations]
           /\ h.Lap >= 1 => \A i \in 0 .. n - 1 : [h.D EXCEPT ![si] = d][i] # Naught
<1>1. h.D \in [0 .. n - 1 -> Deviations]
    BY DEF Baselines
<1>. QED
    BY <1>1 DEF AllKnown

Predicted(h, D, x) == [h EXCEPT !.D = D, !.dn = x]

LEMMA PredictedIs ==
    ASSUME NEW n \in Nat \ {0}, NEW h \in Baselines(n), NEW D \in [0 .. n - 1 -> Deviations],
           h.Lap >= 1 => \A i \in 0 .. n - 1 : D[i] # Naught,
           NEW x \in Deviations, h.Lap >= 1 => x # Naught,
           NEW r, r = Predicted(h, D, x)
    PROVE  /\ r \in Baselines(n) /\ Whole(r)
           /\ r.Lap = h.Lap /\ r.Pbuckets = h.Pbuckets /\ r.Created = h.Created /\ r.cstart = h.cstart
<1>1. /\ r.Lap = h.Lap /\ r.Pbuckets = h.Pbuckets /\ r.Created = h.Created /\ r.cstart = h.cstart
      /\ r.D = D /\ r.dn = x /\ r \in Baselines(n)
    BY DEF Baselines, Predicted
<1>. QED
    BY <1>1 DEF Whole, AllKnown

(* A window: into a new lap perhaps, then by lap.                            *)
LEMMA WindowIs ==
    ASSUME NEW n \in Nat \ {0}, NEW h \in Baselines(n), Whole(h), NEW v, NEW s \in Deviations
    PROVE  /\ addWindow(h, v, s) \in Baselines(n) /\ Whole(addWindow(h, v, s))
           /\ addWindow(h, v, s).Pbuckets = h.Pbuckets /\ addWindow(h, v, s).Created = h.Created
<1>. DEFINE si == idxOfT(h, h.cstart)
            h1 == IF si = 0 THEN NewLap(h) ELSE h
            h2 == IF h1.Lap = 0 THEN bootstrap1(h1, v, s, si)
                  ELSE IF h1.Lap = 1 THEN bootstrap2(h1, v, s, si)
                  ELSE hw(h1, s, si)
<1>1. addWindow(h, v, s) = IF si < 0 THEN h ELSE [h2 EXCEPT !.Count = @ + 1, !.cstart = @ + 1]
    BY DEF addWindow
<1>2. h.cstart - h.Created \in Int /\ h.buckets = n
    BY DEF Baselines
<1>3. si \in Int /\ (si >= 0 => si \in 0 .. n - 1)
    BY <1>2, IndexIs DEF idxOfT
<1>. HIDE DEF si
<1>4. CASE si < 0
    BY <1>1, <1>4
<1>5. CASE ~(si < 0)
    <2>1. si \in 0 .. n - 1
        BY <1>3, <1>5
    <2>2. /\ h1 \in Baselines(n) /\ AllKnown(h1)
          /\ h1.Pbuckets = h.Pbuckets /\ h1.Created = h.Created
        BY NewLapIs DEF Whole
    <2>. HIDE DEF h1
    <2>3. h1.buckets = n /\ h1.Lap \in Nat /\ h1.D \in [0 .. n - 1 -> Deviations]
        BY <2>2 DEF Baselines
    <2>4. idx(h1, si + 1) \in 0 .. n - 1 /\ idx(h1, si - 1) \in 0 .. n - 1
        <3>1. si + 1 \in Int /\ si - 1 \in Int /\ si + 1 + n >= 0 /\ si - 1 + n >= 0
            BY <2>1
        <3>. QED
            BY <2>3, <3>1, IndexIs
    <2>5. /\ h2 \in Baselines(n) /\ Whole(h2)
          /\ h2.Pbuckets = h.Pbuckets /\ h2.Created = h.Created
        <3>1. CASE h1.Lap = 0
            <4>1. PICK d \in Deviations : bootstrap1(h1, v, s, si) = [h1 EXCEPT !.D[si] = d, !.dn = d]
                BY SumsAre DEF bootstrap1
            <4>2. PICK r : r = [h1 EXCEPT !.D[si] = d, !.dn = d]
                OBVIOUS
            <4>3. r \in Baselines(n) /\ r.Lap = 0 /\ r.Pbuckets = h1.Pbuckets /\ r.Created = h1.Created
                BY <2>1, <2>2, <3>1, <4>2 DEF Baselines
            <4>4. h2 = r
                BY <3>1, <4>1, <4>2
            <4>. QED
                BY <2>2, <4>3, <4>4 DEF Whole, AllKnown
        <3>2. CASE h1.Lap = 1
            <4>1. h1.D[si] # Naught /\ h1.D[si] \in Deviations
                BY <2>1, <2>2, <2>3, <3>2 DEF AllKnown
            <4>2. PICK d : d = Sum2(Sum2(v, s), h1.D[si])
                OBVIOUS
            <4>3. d \in Deviations \ {Naught}
                BY <4>1, <4>2, SumsAre
            <4>4. PICK D : D = [h1.D EXCEPT ![si] = d]
                OBVIOUS
            <4>5. h2 = [h1 EXCEPT !.D = D, !.dn = D[idx(h1, si + 1)]]
                BY <3>2, <4>1, <4>2, <4>4 DEF bootstrap2
            <4>6. h1.Lap >= 1
                BY <2>3, <3>2
            <4>. HIDE DEF h2
            <4>7. /\ D \in [0 .. n - 1 -> Deviations]
                  /\ \A i \in 0 .. n - 1 : D[i] # Naught
                BY <2>1, <2>2, <4>3, <4>4, <4>6, GivenIs
            <4>8. PICK x \in Deviations \ {Naught} : x = D[idx(h1, si + 1)]
                BY <2>4, <4>7
            <4>9. h2 = [h1 EXCEPT !.D = D, !.dn = x]
                BY <4>5, <4>8
            <4>10. PICK r : r = Predicted(h1, D, x)
                OBVIOUS
            <4>11. /\ r \in Baselines(n) /\ Whole(r)
                  /\ r.Pbuckets = h1.Pbuckets /\ r.Created = h1.Created
                BY <2>2, <4>7, <4>10, PredictedIs
            <4>. QED
                BY <2>2, <4>9, <4>10, <4>11 DEF Predicted
        <3>3. CASE h1.Lap # 0 /\ h1.Lap # 1
            <4>1. PICK d : d = Sum2(Sum2(Some, s), h1.D[si])
                OBVIOUS
            <4>2. Some \in Deviations \ {Naught}
                BY DEF Deviations, Some, Naught
            <4>3. Sum2(Some, s) \in Deviations \ {Naught}
                BY <4>2, SumsAre
            <4>4. d \in Deviations \ {Naught}
                BY <4>1, <4>3, SumsAre
            <4>5. PICK D : D = [h1.D EXCEPT ![si] = d]
                OBVIOUS
            <4>6. h2 = [h1 EXCEPT !.D = D, !.dn = D[idx(h1, si + 1)]]
                BY <3>3, <4>1, <4>5 DEF hw
            <4>7. h1.Lap >= 1
                BY <2>3, <3>3
            <4>. HIDE DEF h2
            <4>8. /\ D \in [0 .. n - 1 -> Deviations]
                  /\ \A i \in 0 .. n - 1 : D[i] # Naught
                BY <2>1, <2>2, <4>4, <4>5, <4>7, GivenIs
            <4>9. PICK x \in Deviations \ {Naught} : x = D[idx(h1, si + 1)]
                BY <2>4, <4>8
            <4>10. h2 = [h1 EXCEPT !.D = D, !.dn = x]
                BY <4>6, <4>9
            <4>11. PICK r : r = Predicted(h1, D, x)
                OBVIOUS
            <4>12. /\ r \in Baselines(n) /\ Whole(r)
                  /\ r.Pbuckets = h1.Pbuckets /\ r.Created = h1.Created
                BY <2>2, <4>8, <4>11, PredictedIs
            <4>. QED
                BY <2>2, <4>10, <4>11, <4>12 DEF Predicted
        <3>. QED
            BY <3>1, <3>2, <3>3
    <2>. HIDE DEF h2
    <2>6. PICK r : r = [h2 EXCEPT !.Count = @ + 1, !.cstart = @ + 1]
        OBVIOUS
    <2>7. /\ r \in Baselines(n) /\ r.Lap = h2.Lap /\ r.D = h2.D /\ r.dn = h2.dn
          /\ r.Pbuckets = h2.Pbuckets /\ r.Created = h2.Created
        <3>1. h2.Count + 1 \in Nat /\ h2.cstart + 1 \in Int
            BY <2>5 DEF Baselines
        <3>2. r = [buckets |-> h2.buckets, Pbuckets |-> h2.Pbuckets, Created |-> h2.Created,
                   Count |-> h2.Count + 1, Lap |-> h2.Lap, D |-> h2.D,
                   cstart |-> h2.cstart + 1, dn |-> h2.dn]
            BY <2>5, <2>6 DEF Baselines
        <3>. QED
            BY <2>5, <3>1, <3>2 DEF Baselines
    <2>8. Whole(r)
        BY <2>5, <2>7 DEF Whole, AllKnown
    <2>. QED
        BY <1>1, <1>5, <2>5, <2>6, <2>7, <2>8
<1>. QED
    BY <1>4, <1>5

(* The loop over the windows that ended, after i of them.                    *)
Added(f, v, s, i) == IF i = 0 THEN hwab ELSE addWindow(f[i - 1], v, s)

LEMMA AddedExists ==
    ASSUME NEW v, NEW s, NEW N \in Nat
    PROVE  \E f : f = [i \in 0 .. N |-> Added(f, v, s, i)]
<1>. DEFINE T == {n \in Nat : \E f : f = [i \in 0 .. n |-> Added(f, v, s, i)]}
<1>1. 0 \in T
    <2>. DEFINE g == [i \in 0 .. 0 |-> hwab]
    <2>1. g = [i \in 0 .. 0 |-> Added(g, v, s, i)]
        BY DEF Added
    <2>. HIDE DEF g
    <2>2. \E f : f = [i \in 0 .. 0 |-> Added(f, v, s, i)]
        BY <2>1
    <2>. QED
        BY <2>2
<1>2. ASSUME NEW n \in T PROVE n + 1 \in T
    <2>1. PICK f : f = [i \in 0 .. n |-> Added(f, v, s, i)]
        OBVIOUS
    <2>. DEFINE g == [i \in 0 .. n + 1 |-> IF i = n + 1 THEN Added(f, v, s, n + 1) ELSE f[i]]
    <2>2. ASSUME NEW i \in 0 .. n PROVE g[i] = f[i] /\ f[i] = Added(f, v, s, i)
        <3>1. i \in 0 .. n + 1 /\ i # n + 1
            OBVIOUS
        <3>2. g[i] = f[i]
            BY <3>1
        <3>. HIDE DEF g
        <3>3. f[i] = Added(f, v, s, i)
            BY <2>1
        <3>. QED
            BY <3>2, <3>3
    <2>3. g[n + 1] = Added(f, v, s, n + 1)
        OBVIOUS
    <2>4. g = [i \in 0 .. n + 1 |-> g[i]]
        OBVIOUS
    <2>. HIDE DEF g
    <2>5. ASSUME NEW i \in 0 .. n + 1 PROVE g[i] = Added(g, v, s, i)
        <3>1. CASE i = n + 1
            <4>1. g[(n + 1) - 1] = f[(n + 1) - 1]
                BY <2>2
            <4>. QED
                BY <2>3, <3>1, <4>1 DEF Added
        <3>2. CASE i \in 0 .. n
            <4>1. i # 0 => g[i - 1] = f[i - 1]
                BY <2>2, <3>2
            <4>. QED
                BY <2>2, <3>2, <4>1 DEF Added
        <3>. QED
            BY <3>1, <3>2
    <2>6. g = [i \in 0 .. n + 1 |-> Added(g, v, s, i)]
        BY <2>4, <2>5
    <2>. QED
        BY <2>6
<1>3. T = Nat
    <2>. HIDE DEF T
    <2>1. T \in SUBSET Nat
        BY DEF T
    <2>. QED
        BY <1>1, <1>2, <2>1, SetInduction
<1>. QED
    BY <1>3

(* However many windows ended, the baseline is whole after them.             *)
LEMMA WindowsAre ==
    ASSUME NEW n \in Nat \ {0}, hwab \in Baselines(n), Whole(hwab), NEW v, NEW s \in Deviations,
           clock \in Nat, hwab.cstart < clock
    PROVE  /\ AfterWindows(v, s) \in Baselines(n) /\ Whole(AfterWindows(v, s))
           /\ AfterWindows(v, s).Pbuckets = hwab.Pbuckets /\ AfterWindows(v, s).Created = hwab.Created
<1>. DEFINE N == clock - hwab.cstart
            f == CHOOSE g : g = [i \in 0 .. N |-> Added(g, v, s, i)]
            Good(h) == /\ h \in Baselines(n) /\ Whole(h)
                       /\ h.Pbuckets = hwab.Pbuckets /\ h.Created = hwab.Created
            T == {k \in Nat : k <= N => Good(f[k])}
<1>1. N \in Nat
    BY DEF Baselines
<1>2. AfterWindows(v, s) = f[N]
    BY DEF AfterWindows, Added
<1>. HIDE DEF N
<1>3. f = [i \in 0 .. N |-> Added(f, v, s, i)]
    BY <1>1, AddedExists
<1>. HIDE DEF f
<1>4. 0 \in T
    <2>1. f[0] = hwab
        BY <1>1, <1>3 DEF Added
    <2>. QED
        BY <2>1
<1>5. ASSUME NEW k \in T PROVE k + 1 \in T
    <2>. SUFFICES ASSUME k + 1 <= N PROVE Good(f[k + 1])
        OBVIOUS
    <2>1. Good(f[k]) /\ k + 1 \in 0 .. N /\ k + 1 # 0 /\ (k + 1) - 1 = k
        BY <1>1
    <2>2. f[k + 1] = addWindow(f[k], v, s)
        BY <1>3, <2>1 DEF Added
    <2>. QED
        BY <2>1, <2>2, WindowIs
<1>6. T = Nat
    <2>. HIDE DEF T
    <2>1. T \in SUBSET Nat
        BY DEF T
    <2>. QED
        BY <1>4, <1>5, <2>1, SetInduction
<1>7. Good(f[N])
    BY <1>1, <1>6
<1>. QED
    BY <1>2, <1>7

(* What was read from a file: its list may be longer than the period.        *)
Long(n, m) ==
    [buckets : {n}, Pbuckets : Nat, Created : Int, Count : Nat, Lap : Nat,
     D : [0 .. m - 1 -> Deviations], cstart : Int, dn : Deviations]

KnownSoFar(h) == h.Lap >= 1 => \A i \in 0 .. h.buckets - 1 : h.D[i] # Naught

(* A reset begins the first period again.                                    *)
LEMMA ResetIs ==
    ASSUME NEW n \in Nat \ {0}, NEW m \in Nat, m >= n, NEW h \in Long(n, m), clock \in Nat
    PROVE  /\ Reset(h) \in Long(n, m) /\ Reset(h).Lap = 0
           /\ Reset(h).Created = clock /\ Reset(h).Pbuckets = h.Pbuckets
<1>. DEFINE E == [i \in DOMAIN h.D |-> IF i < h.buckets THEN Naught ELSE h.D[i]]
<1>1. E \in [0 .. m - 1 -> Deviations]
    BY DEF Deviations, Long
<1>2. Reset(h) = [h EXCEPT !.Created = clock, !.Lap = 0, !.Count = 0, !.D = E]
    BY DEF Reset
<1>. HIDE DEF E
<1>3. Reset(h) = [buckets |-> h.buckets, Pbuckets |-> h.Pbuckets, Created |-> clock, Count |-> 0,
                  Lap |-> 0, D |-> E, cstart |-> h.cstart, dn |-> h.dn]
    BY <1>2 DEF Long
<1>4. clock \in Int /\ 0 \in Nat
    OBVIOUS
<1>. HIDE DEF Reset
<1>. QED
    BY <1>1, <1>3, <1>4 DEF Long

LEMMA LongFields ==
    ASSUME NEW n, NEW m, NEW h \in Long(n, m), NEW p, NEW D
    PROVE  [h EXCEPT !.Pbuckets = p, !.D = D]
             = [buckets |-> h.buckets, Pbuckets |-> p, Created |-> h.Created, Count |-> h.Count,
                Lap |-> h.Lap, D |-> D, cstart |-> h.cstart, dn |-> h.dn]
<1>1. PICK r : r = [h EXCEPT !.Pbuckets = p, !.D = D]
    OBVIOUS
<1>2. r = [buckets |-> h.buckets, Pbuckets |-> p, Created |-> h.Created, Count |-> h.Count,
                Lap |-> h.Lap, D |-> D, cstart |-> h.cstart, dn |-> h.dn]
    BY <1>1 DEF Long
<1>. QED
    BY <1>1, <1>2

(* Init: of another period only the numbers are left, to be begun again.     *)
LEMMA InitIs ==
    ASSUME NEW n \in Nat \ {0}, NEW m \in Nat, m >= n, NEW h \in Long(n, m), clock \in Nat,
           h.Created <= clock, ~PeriodChanged(h) => KnownSoFar(h)
    PROVE  /\ InitHwab(h) \in Baselines(n) /\ Whole(InitHwab(h))
           /\ InitHwab(h).Pbuckets = n /\ InitHwab(h).Created <= clock
<1>. DEFINE h1 == IF PeriodChanged(h) THEN Reset(h) ELSE h
            h2 == IF h1.Lap = 0 /\ gap(h1) > GapMax THEN Reset(h1) ELSE h1
            D  == [i \in 0 .. h.buckets - 1 |-> h2.D[i]]
            h3 == [h2 EXCEPT !.Pbuckets = h.buckets, !.D = D]
<1>1. InitHwab(h) = predict(h3)
    BY DEF InitHwab
<1>2. h1 \in Long(n, m) /\ h1.Created <= clock /\ KnownSoFar(h1)
    BY ResetIs DEF KnownSoFar
<1>. HIDE DEF h1
<1>3. h2 \in Long(n, m) /\ h2.Created <= clock /\ KnownSoFar(h2)
    BY <1>2, ResetIs DEF KnownSoFar
<1>. HIDE DEF h2
<1>4. h.buckets = n /\ h2.buckets = n
    BY <1>3 DEF Long
<1>5. D \in [0 .. n - 1 -> Deviations] /\ (h2.Lap >= 1 => \A i \in 0 .. n - 1 : D[i] # Naught)
    BY <1>3, <1>4 DEF Long, KnownSoFar
<1>. HIDE DEF D
<1>6. h3 = [buckets |-> n, Pbuckets |-> n, Created |-> h2.Created, Count |-> h2.Count,
            Lap |-> h2.Lap, D |-> D, cstart |-> h2.cstart, dn |-> h2.dn]
    <2>1. PICK r : r = h2
        OBVIOUS
    <2>2. h3 = [r EXCEPT !.Pbuckets = n, !.D = D]
        BY <1>4, <2>1
    <2>3. r \in Long(n, m) /\ r.buckets = n
        BY <1>3, <1>4, <2>1
    <2>4. [r EXCEPT !.Pbuckets = n, !.D = D]
            = [buckets |-> r.buckets, Pbuckets |-> n, Created |-> r.Created, Count |-> r.Count,
               Lap |-> r.Lap, D |-> D, cstart |-> r.cstart, dn |-> r.dn]
        BY <2>3, LongFields
    <2>. QED
        BY <2>1, <2>2, <2>3, <2>4
<1>. HIDE DEF h3
<1>7. /\ h3 \in Baselines(n) /\ h3.D = D /\ h3.Lap = h2.Lap /\ h3.Pbuckets = n
      /\ h3.Created = h2.Created
    BY <1>3, <1>5, <1>6 DEF Baselines, Long
<1>8. idxOfT(h3, clock) \in 0 .. n - 1
    <2>1. h3.buckets = n /\ clock - h3.Created \in Int /\ clock - h3.Created + n >= 0
        <3>1. h3.buckets = n
            BY <1>7 DEF Baselines
        <3>2. PICK b \in Int : b = h3.Created
            BY <1>7 DEF Baselines
        <3>3. b <= clock
            BY <1>3, <1>7, <3>2
        <3>. QED
            BY <3>1, <3>2, <3>3
    <2>. QED
        BY <2>1, IndexIs DEF idxOfT
<1>9. PICK x \in Deviations : x = D[idxOfT(h3, clock)]
    BY <1>5, <1>8
<1>10. PICK r : r = Predicted(h3, D, x)
    OBVIOUS
<1>11. InitHwab(h) = r
    <2>1. InitHwab(h) = [h3 EXCEPT !.dn = x]
        BY <1>1, <1>7, <1>9 DEF predict
    <2>2. [h3 EXCEPT !.dn = x] = [h3 EXCEPT !.D = D, !.dn = x]
        BY <1>7 DEF Baselines
    <2>. QED
        BY <1>10, <2>1, <2>2 DEF Predicted
<1>12. h3.Lap >= 1 => x # Naught
    BY <1>5, <1>7, <1>8, <1>9
<1>13. /\ r \in Baselines(n) /\ Whole(r)
       /\ r.Pbuckets = n /\ r.Created = h2.Created
    BY <1>5, <1>7, <1>9, <1>10, <1>12, PredictedIs
<1>. QED
    BY <1>3, <1>11, <1>13

-----------------------------------------------------------------------------
(* The file: a baseline as it was at some time, of its period then.          *)
SavedIsWhole ==
    saved # Unsaved =>
        \E n \in Lengths :
            /\ saved \in [Pbuckets : {n}, Created : Int, Count : Nat, Lap : Nat,
                          D : [0 .. n - 1 -> Deviations]]
            /\ saved.Created <= clock /\ AllKnown(saved)

HwabIInv ==
    /\ clock \in Nat
    /\ \E n \in Lengths : hwab \in Baselines(n) /\ hwab.Pbuckets = n
    /\ Whole(hwab) /\ hwab.Created <= clock
    /\ SavedIsWhole

(* What the configuration made.                                              *)
LEMMA ConfigIs ==
    ASSUME NEW n \in Nat \ {0}, clock \in Nat
    PROVE  /\ HwabConfig(n) \in Long(n, n) /\ HwabConfig(n).Created = clock
           /\ HwabConfig(n).Pbuckets = 0 /\ HwabConfig(n).Lap = 0
<1>1. Nothing(n) \in [0 .. n - 1 -> Deviations] /\ Naught \in Deviations
    BY DEF Nothing, Deviations
<1>. QED
    BY <1>1 DEF HwabConfig, Long

(* What is read over it: of the same period it is whole.                     *)
LEMMA RestoredIs ==
    ASSUME NEW n \in Lengths, clock \in Nat, SavedIsWhole
    PROVE  \E m \in Nat :
              /\ m >= n /\ RestoreInto(HwabConfig(n)) \in Long(n, m)
              /\ RestoreInto(HwabConfig(n)).Created <= clock
              /\ ~PeriodChanged(RestoreInto(HwabConfig(n))) => KnownSoFar(RestoreInto(HwabConfig(n)))
<1>. DEFINE h == HwabConfig(n)
            R == RestoreInto(h)
<1>1. n \in Nat \ {0}
    BY HwabAssumption
<1>2. h \in Long(n, n) /\ h.Created = clock /\ h.Pbuckets = 0 /\ h.Lap = 0
    BY <1>1, ConfigIs
<1>. HIDE DEF h
<1>3. CASE saved = Unsaved
    <2>1. R = h
        BY <1>3 DEF RestoreInto
    <2>2. KnownSoFar(h) /\ h.Created <= clock
        BY <1>2 DEF KnownSoFar
    <2>. QED
        BY <1>1, <1>2, <2>1, <2>2 DEF h
<1>4. CASE saved # Unsaved
    <2>1. PICK p \in Lengths :
            /\ saved \in [Pbuckets : {p}, Created : Int, Count : Nat, Lap : Nat,
                          D : [0 .. p - 1 -> Deviations]]
            /\ saved.Created <= clock /\ AllKnown(saved)
        BY <1>4 DEF SavedIsWhole
    <2>2. p \in Nat \ {0}
        BY HwabAssumption
    <2>. DEFINE m == Max({n, p})
                D == [i \in 0 .. m - 1 |-> IF i < p THEN saved.D[i] ELSE h.D[i]]
    <2>3. m \in {n, p} /\ m >= n /\ m >= p
        <3>1. \E x \in {n, p} : \A y \in {n, p} : x >= y
            BY <1>1, <2>2
        <3>. QED
            BY <3>1, Zenon DEF Max
    <2>4. h.buckets = n /\ saved.Pbuckets = p
        BY <1>2, <2>1 DEF Long
    <2>5. R = [h EXCEPT !.Pbuckets = p, !.Created = saved.Created, !.Count = saved.Count,
                        !.Lap = saved.Lap, !.D = D]
        BY <1>4, <2>4 DEF RestoreInto
    <2>. HIDE DEF m
    <2>6. D \in [0 .. m - 1 -> Deviations]
        BY <1>1, <1>2, <2>1, <2>2, <2>3 DEF Long
    <2>7. (saved.Lap >= 1 /\ p = n) => \A i \in 0 .. n - 1 : D[i] # Naught
        BY <1>1, <2>1, <2>3 DEF AllKnown
    <2>. HIDE DEF D
    <2>8. R = [buckets |-> n, Pbuckets |-> p, Created |-> saved.Created, Count |-> saved.Count,
               Lap |-> saved.Lap, D |-> D, cstart |-> h.cstart, dn |-> h.dn]
        BY <1>2, <2>4, <2>5 DEF Long
    <2>. HIDE DEF R
    <2>9. R \in Long(n, m) /\ R.Created <= clock /\ R.Lap = saved.Lap /\ R.D = D
          /\ R.buckets = n /\ R.Pbuckets = p
        BY <1>2, <2>1, <2>2, <2>6, <2>8 DEF Long
    <2>10. ~PeriodChanged(R) => KnownSoFar(R)
        BY <2>2, <2>7, <2>9 DEF PeriodChanged, KnownSoFar
    <2>11. m \in Nat /\ m >= n
        BY <1>1, <2>2, <2>3
    <2>. QED
        BY <2>9, <2>10, <2>11 DEF R, h
<1>. QED
    BY <1>3, <1>4

(* The program starts with no file, or with what is saved.                   *)
LEMMA StartIs ==
    ASSUME NEW n \in Lengths, clock \in Nat, SavedIsWhole,
           NEW h, h = InitHwab(HwabConfig(n)) \/ h = InitHwab(RestoreInto(HwabConfig(n)))
    PROVE  h \in Baselines(n) /\ Whole(h) /\ h.Pbuckets = n /\ h.Created <= clock
<1>1. n \in Nat \ {0}
    BY HwabAssumption
<1>2. CASE h = InitHwab(HwabConfig(n))
    <2>1. HwabConfig(n) \in Long(n, n) /\ HwabConfig(n).Created <= clock
          /\ KnownSoFar(HwabConfig(n))
        BY <1>1, ConfigIs DEF KnownSoFar
    <2>2. n >= n /\ n \in Nat
        BY <1>1
    <2>. QED
        BY <1>1, <1>2, <2>1, <2>2, InitIs
<1>3. CASE h = InitHwab(RestoreInto(HwabConfig(n)))
    BY <1>1, <1>3, RestoredIs, InitIs
<1>. QED
    BY <1>2, <1>3

LEMMA HwabInitIInv == HwabInit => HwabIInv
<1>. SUFFICES ASSUME HwabInit PROVE HwabIInv
    OBVIOUS
<1>1. clock = 0 /\ saved = Unsaved
    BY DEF HwabInit
<1>2. PICK n \in Lengths : hwab = InitHwab(HwabConfig(n))
    BY DEF HwabInit
<1>3. clock \in Nat /\ SavedIsWhole
    BY <1>1 DEF SavedIsWhole
<1>. QED
    BY <1>2, <1>3, StartIs DEF HwabIInv

LEMMA HwabNextIInv == HwabIInv /\ [HwabNext]_hwabVars => HwabIInv'
<1>. SUFFICES ASSUME HwabIInv, [HwabNext]_hwabVars PROVE HwabIInv'
    OBVIOUS
<1>1. PICK n \in Lengths : hwab \in Baselines(n) /\ hwab.Pbuckets = n
    BY DEF HwabIInv
<1>2. n \in Nat \ {0} /\ clock \in Nat /\ Whole(hwab) /\ SavedIsWhole
    BY HwabAssumption DEF HwabIInv
<1>3. hwab.Created \in Int /\ hwab.Created <= clock /\ hwab.cstart \in Int
    BY <1>1 DEF Baselines, HwabIInv
<1>4. (UNCHANGED <<saved, clock>>) => (clock' \in Nat /\ SavedIsWhole')
    BY <1>2 DEF SavedIsWhole
<1>5. ASSUME NEW v, NEW s \in {Naught, Some, NaN}, AddAt(v, s) PROVE HwabIInv'
    <2>1. UNCHANGED <<saved, clock>>
        BY <1>5 DEF AddAt
    <2>2. CASE UNCHANGED hwab
        BY <1>1, <1>2, <1>3, <1>4, <2>1, <2>2 DEF HwabIInv, Whole, AllKnown
    <2>3. CASE ~(UNCHANGED hwab)
        <3>1. hwab.cstart < clock
            BY <1>2, <1>3, <1>5, <2>3 DEF AddAt
        <3>2. PICK mean : hwab' = AfterWindows(mean, s)
            BY <1>5, <2>3 DEF AddAt
        <3>3. s \in Deviations
            BY DEF Deviations
        <3>4. hwab' \in Baselines(n) /\ Whole(hwab') /\ hwab'.Pbuckets = n /\ hwab'.Created = hwab.Created
            BY <1>1, <1>2, <3>1, <3>2, <3>3, WindowsAre
        <3>. QED
            BY <1>3, <1>4, <2>1, <3>4 DEF HwabIInv, Whole, AllKnown
    <2>. QED
        BY <2>2, <2>3
<1>6. CASE NextWindow
    <2>1. clock' = clock + 1 /\ UNCHANGED <<hwab, saved>>
        BY <1>6 DEF NextWindow
    <2>2. SavedIsWhole'
        <3>. SUFFICES ASSUME saved # Unsaved PROVE SavedIsWhole'
            BY <2>1 DEF SavedIsWhole
        <3>1. PICK p \in Lengths :
                /\ saved \in [Pbuckets : {p}, Created : Int, Count : Nat, Lap : Nat,
                              D : [0 .. p - 1 -> Deviations]]
                /\ saved.Created <= clock /\ AllKnown(saved)
            BY <1>2 DEF SavedIsWhole
        <3>2. saved.Created <= clock'
            BY <1>2, <2>1, <3>1
        <3>. QED
            BY <2>1, <3>1, <3>2 DEF SavedIsWhole, AllKnown
    <2>3. clock' \in Nat /\ hwab.Created <= clock'
        BY <1>2, <1>3, <2>1
    <2>. QED
        BY <1>1, <1>2, <2>1, <2>2, <2>3 DEF HwabIInv, Whole, AllKnown
<1>7. CASE PersistHwab
    <2>1. UNCHANGED <<hwab, clock>>
        BY <1>7 DEF PersistHwab
    <2>2. SavedIsWhole'
        <3>. DEFINE kept == [f \in {"Pbuckets", "Created", "Count", "Lap", "D"} |-> hwab[f]]
        <3>1. CASE saved' = Unsaved
            BY <3>1 DEF SavedIsWhole
        <3>2. CASE saved' = kept
            <4>1. kept = [Pbuckets |-> hwab.Pbuckets, Created |-> hwab.Created, Count |-> hwab.Count,
                          Lap |-> hwab.Lap, D |-> hwab.D]
                OBVIOUS
            <4>. HIDE DEF kept
            <4>2. /\ kept \in [Pbuckets : {n}, Created : Int, Count : Nat, Lap : Nat,
                               D : [0 .. n - 1 -> Deviations]]
                  /\ kept.Created = hwab.Created /\ kept.Lap = hwab.Lap /\ kept.D = hwab.D
                BY <1>1, <4>1 DEF Baselines
            <4>. QED
                BY <1>2, <1>3, <2>1, <3>2, <4>2 DEF SavedIsWhole, Whole, AllKnown
        <3>. QED
            BY <1>7, <3>1, <3>2 DEF PersistHwab
    <2>. QED
        BY <1>1, <1>2, <1>3, <2>1, <2>2 DEF HwabIInv, Whole, AllKnown
<1>8. CASE apiHwabReset
    <2>1. hwab' = Reset(hwab) /\ UNCHANGED <<saved, clock>>
        BY <1>8 DEF apiHwabReset
    <2>2. hwab \in Long(n, n) /\ n >= n /\ n \in Nat
        BY <1>1, <1>2 DEF Baselines, Long
    <2>3. /\ hwab' \in Long(n, n) /\ hwab'.Lap = 0 /\ hwab'.Created = clock
          /\ hwab'.Pbuckets = hwab.Pbuckets
        BY <1>2, <2>1, <2>2, ResetIs
    <2>4. hwab' \in Baselines(n)
        BY <2>3 DEF Baselines, Long
    <2>. QED
        BY <1>1, <1>2, <1>4, <2>1, <2>3, <2>4 DEF HwabIInv, Whole, AllKnown
<1>9. ASSUME NEW k \in Lengths, Restored(k) PROVE HwabIInv'
    <2>1. UNCHANGED <<saved, clock>>
        BY <1>9 DEF Restored
    <2>2. hwab' = InitHwab(RestoreInto(HwabConfig(k)))
        BY <1>9 DEF Restored
    <2>3. hwab' \in Baselines(k) /\ Whole(hwab') /\ hwab'.Pbuckets = k /\ hwab'.Created <= clock
        BY <1>2, <2>2, StartIs
    <2>. QED
        BY <1>4, <2>1, <2>3 DEF HwabIInv, Whole, AllKnown
<1>10. CASE UNCHANGED hwabVars
    BY <1>1, <1>2, <1>3, <1>4, <1>10 DEF HwabIInv, hwabVars, Whole, AllKnown
<1>. QED
    BY <1>5, <1>6, <1>7, <1>8, <1>9, <1>10 DEF HwabNext

LEMMA HwabIInvIsWhole == HwabIInv => BaselineIsWhole
BY DEF HwabIInv, Baselines, Whole, AllKnown, BaselineIsWhole

(* Once the first period is over every bucket of the baseline is known, and  *)
(* so is the prediction: whatever lengths the period has had, and whenever   *)
(* the service was saved, restored or reset (service/hwab.go).               *)
THEOREM BaselinesAreWhole == HwabSpec => []BaselineIsWhole
BY HwabInitIInv, HwabNextIInv, HwabIInvIsWhole, PTL DEF HwabSpec

-----------------------------------------------------------------------------
(* The graphs: numbers, quotients and places in a ring.                      *)
LEMMA DivIs ==
    ASSUME NEW d \in Nat \ {0}, NEW x \in Nat
    PROVE  x \div d \in Nat /\ x % d \in 0 .. d - 1 /\ x = d * (x \div d) + (x % d)
OBVIOUS

LEMMA MulLess ==
    ASSUME NEW d \in Nat \ {0}, NEW x \in Int, NEW y \in Int, d * x < d * y
    PROVE  x < y
<1>. SUFFICES ASSUME y <= x PROVE FALSE
    OBVIOUS
<1>1. PICK z \in Nat : x = y + z
    <2>1. x - y \in Nat /\ x = y + (x - y)
        OBVIOUS
    <2>. QED
        BY <2>1
<1>2. d * x = d * y + d * z
    BY <1>1
<1>3. d * z >= 0
    OBVIOUS
<1>. QED
    BY <1>2, <1>3

LEMMA DivGrows ==
    ASSUME NEW d \in Nat \ {0}, NEW x \in Nat, NEW y \in Nat, x <= y
    PROVE  x \div d <= y \div d
<1>. DEFINE p == x \div d
            q == y \div d
            a == x % d
            b == y % d
<1>1. p \in Nat /\ a \in 0 .. d - 1 /\ x = d * p + a
    BY DivIs
<1>2. q \in Nat /\ b \in 0 .. d - 1 /\ y = d * q + b
    BY DivIs
<1>. HIDE DEF p, q, a, b
<1>3. d * p < d * q + d
    BY <1>1, <1>2
<1>4. d * p < d * (q + 1)
    BY <1>1, <1>2, <1>3
<1>. QED
    BY <1>1, <1>2, <1>4, MulLess

(* Numbers that are less than d apart differ when their remainders do.       *)
LEMMA RemaindersDiffer ==
    ASSUME NEW d \in Nat \ {0}, NEW x \in Nat, NEW y \in Nat, x <= y, y - x < d
    PROVE  (x % d = y % d) <=> (x = y)
<1>. DEFINE p == x \div d
            q == y \div d
            a == x % d
            b == y % d
<1>1. p \in Nat /\ a \in 0 .. d - 1 /\ x = d * p + a
    BY DivIs
<1>2. q \in Nat /\ b \in 0 .. d - 1 /\ y = d * q + b
    BY DivIs
<1>3. p <= q
    BY DivGrows
<1>. HIDE DEF p, q, a, b
<1>4. ASSUME a = b PROVE x = y
    <2>1. d * q < d * p + d
        BY <1>1, <1>2, <1>4
    <2>2. d * q < d * (p + 1)
        BY <1>1, <1>2, <2>1
    <2>3. q < p + 1
        BY <1>1, <1>2, <2>2, MulLess
    <2>4. p = q
        BY <1>1, <1>2, <1>3, <2>3
    <2>. QED
        BY <1>1, <1>2, <1>4, <2>4
<1>5. x = y => a = b
    BY DEF a, b
<1>. QED
    BY <1>4, <1>5 DEF a, b

(* Periods that lie less than k apart.                                       *)
LEMMA DivApart ==
    ASSUME NEW d \in Nat \ {0}, NEW x \in Nat, NEW y \in Nat, x <= y,
           NEW k \in Nat \ {0}, y - x <= d * k - d
    PROVE  (y \div d) - (x \div d) < k
<1>. DEFINE p == x \div d
            q == y \div d
            a == x % d
            b == y % d
<1>1. p \in Nat /\ a \in 0 .. d - 1 /\ x = d * p + a
    BY DivIs
<1>2. q \in Nat /\ b \in 0 .. d - 1 /\ y = d * q + b
    BY DivIs
<1>. HIDE DEF p, q, a, b
<1>3. d * q < d * p + d * k
    BY <1>1, <1>2
<1>4. d * q < d * (p + k)
    BY <1>1, <1>2, <1>3
<1>5. q < p + k
    BY <1>1, <1>2, <1>4, MulLess
<1>. QED
    BY <1>1, <1>2, <1>5 DEF p, q

(* While less than a day passes, less one hour, the hour of the day and the  *)
(* day of the month tell whether a new hour or day has begun.                *)
LEMMA PeriodsAre ==
    ASSUME NEW r \in {"hours", "days"}, NEW lt \in Nat, NEW ct \in Nat, lt <= ct
    PROVE  /\ Period(r, lt) \in Nat /\ Period(r, ct) \in Nat /\ Period(r, lt) <= Period(r, ct)
           /\ NewPeriod(r, lt, ct) => Period(r, lt) # Period(r, ct)
           /\ ct - lt <= DAY - HOUR => (NewPeriod(r, lt, ct) <=> Period(r, lt) # Period(r, ct))
<1>1. HOUR \in Nat \ {0} /\ DAY \in Nat \ {0} /\ DAY % HOUR = 0
    BY GraphAssumption
<1>. DEFINE K == DAY \div HOUR
<1>2. K \in Nat \ {0} /\ DAY = HOUR * K
    <2>1. K \in Nat /\ DAY = HOUR * K + (DAY % HOUR)
        BY <1>1, DivIs
    <2>. HIDE DEF K
    <2>2. DAY = HOUR * K
        BY <1>1, <2>1
    <2>. QED
        BY <1>1, <2>1, <2>2
<1>. HIDE DEF K
<1>3. CASE r = "hours"
    <2>. DEFINE a == lt \div HOUR
                b == ct \div HOUR
    <2>1. a \in Nat /\ b \in Nat /\ a <= b
        BY <1>1, DivIs, DivGrows
    <2>2. Period(r, lt) = a /\ Period(r, ct) = b
        BY <1>3 DEF Period, Unit
    <2>3. ct - lt <= DAY - HOUR => b - a < K
        BY <1>1, <1>2, DivApart
    <2>. HIDE DEF a, b
    <2>4. NewPeriod(r, lt, ct) <=> a % K # b % K
        BY <1>3 DEF NewPeriod, a, b, K
    <2>5. a % K # b % K => a # b
        OBVIOUS
    <2>6. b - a < K => ((a % K = b % K) <=> (a = b))
        BY <1>2, <2>1, RemaindersDiffer
    <2>. QED
        BY <2>1, <2>2, <2>3, <2>4, <2>5, <2>6
<1>4. CASE r = "days"
    <2>. DEFINE a == lt \div DAY
                b == ct \div DAY
    <2>1. a \in Nat /\ b \in Nat /\ a <= b
        BY <1>1, DivIs, DivGrows
    <2>2. Period(r, lt) = a /\ Period(r, ct) = b
        BY <1>4 DEF Period, Unit
    <2>3. ct - lt <= DAY - HOUR => b - a < 31
        <3>1. DAY * 2 - DAY = DAY
            BY <1>1
        <3>2. ct - lt <= DAY - HOUR => ct - lt <= DAY * 2 - DAY
            BY <1>1, <3>1
        <3>. HIDE DEF a, b
        <3>3. ct - lt <= DAY - HOUR => b - a < 2
            BY <1>1, <3>2, DivApart DEF a, b
        <3>. QED
            BY <2>1, <3>3
    <2>. HIDE DEF a, b
    <2>4. NewPeriod(r, lt, ct) <=> a % 31 # b % 31
        BY <1>4 DEF NewPeriod, a, b
    <2>5. a % 31 # b % 31 => a # b
        OBVIOUS
    <2>6. b - a < 31 => ((a % 31 = b % 31) <=> (a = b))
        BY <2>1, RemaindersDiffer
    <2>. QED
        BY <2>1, <2>2, <2>3, <2>4, <2>5, <2>6
<1>. QED
    BY <1>3, <1>4

-----------------------------------------------------------------------------
(* The index after the last of a ring is the first one.                      *)
LEMMA AroundIs ==
    ASSUME NEW d \in Nat \ {0}, NEW x \in 0 .. (2 * d) - 1
    PROVE  x % d = IF x < d THEN x ELSE x - d
<1>. x \in Nat
    OBVIOUS
<1>1. CASE x < d
    <2>. DEFINE p == x \div d
    <2>1. p \in Nat /\ x % d \in 0 .. d - 1 /\ x = d * p + (x % d)
        BY DivIs
    <2>. HIDE DEF p
    <2>2. d * p < d * 1
        BY <1>1, <2>1
    <2>3. p < 1
        BY <2>1, <2>2, MulLess
    <2>4. p = 0
        BY <2>1, <2>3
    <2>. QED
        BY <1>1, <2>1, <2>4
<1>2. CASE ~(x < d)
    <2>. DEFINE p == x \div d
    <2>1. p \in Nat /\ x % d \in 0 .. d - 1 /\ x = d * p + (x % d)
        BY DivIs
    <2>. HIDE DEF p
    <2>2. d * p < d * 2 /\ d * 0 < d * p
        BY <1>2, <2>1
    <2>3. p < 2 /\ 0 < p
        BY <2>1, <2>2, MulLess
    <2>4. p = 1
        BY <2>1, <2>3
    <2>. QED
        BY <1>2, <2>1, <2>4
<1>. QED
    BY <1>1, <1>2

(* What a ring holds when E is what was written into it; the oldest record   *)
(* of a full one may be dirty.                                               *)
Least(a, b) == IF a < b THEN a ELSE b
First(slot, count) == IF count < NMax THEN 0 ELSE slot

Holds(ring, slot, count, E, dirty) ==
    /\ DOMAIN ring = 0 .. NMax - 1
    /\ slot \in 0 .. NMax - 1 /\ count = Least(Len(E), NMax)
    /\ count < NMax => slot = count
    /\ \A k \in 1 .. count :
          \/ ring[(First(slot, count) + (k - 1)) % NMax] = E[(Len(E) - count) + k]
          \/ count = NMax /\ k = 1 /\ dirty
    /\ \A j \in count .. NMax - 1 : ring[j] = Zero \/ (dirty /\ j = slot)

LEMMA RingIs ==
    ASSUME NEW X, NEW E \in Seq(X), NEW x \in X, NEW ring, NEW slot, NEW count, NEW dirty,
           Holds(ring, slot, count, E, dirty)
    PROVE  /\ Holds([ring EXCEPT ![slot] = x], (slot + 1) % NMax, Least(count + 1, NMax), Append(E, x), FALSE)
           /\ Holds([ring EXCEPT ![slot] = x], slot, count, E, TRUE)
<1>. DEFINE ring1 == [ring EXCEPT ![slot] = x]
            slot1 == (slot + 1) % NMax
            count1 == Least(count + 1, NMax)
            E1 == Append(E, x)
<1>1. NMax \in Nat \ {0} /\ Len(E) \in Nat
    BY GraphAssumption
<1>2. /\ DOMAIN ring = 0 .. NMax - 1
      /\ slot \in 0 .. NMax - 1 /\ count = Least(Len(E), NMax)
      /\ count < NMax => slot = count
      /\ count \in 0 .. NMax
    BY <1>1 DEF Holds, Least
<1>3. \A y \in 0 .. (2 * NMax) - 1 : y % NMax = IF y < NMax THEN y ELSE y - NMax
    BY <1>1, AroundIs
<1>4. slot1 = IF slot = NMax - 1 THEN 0 ELSE slot + 1
    <2>1. slot + 1 \in 0 .. (2 * NMax) - 1
        BY <1>1, <1>2
    <2>2. slot1 = IF slot + 1 < NMax THEN slot + 1 ELSE (slot + 1) - NMax
        BY <1>3, <2>1
    <2>. HIDE DEF slot1
    <2>. QED
        BY <1>1, <1>2, <2>2
<1>. HIDE DEF slot1
<1>5. /\ Len(E1) = Len(E) + 1 /\ E1[Len(E) + 1] = x
      /\ \A j \in 1 .. Len(E) : E1[j] = E[j]
    OBVIOUS
<1>. HIDE DEF E1
<1>6. /\ DOMAIN ring1 = 0 .. NMax - 1 /\ ring1[slot] = x
      /\ \A j \in 0 .. NMax - 1 : j # slot => ring1[j] = ring[j]
    BY <1>2
<1>. HIDE DEF ring1
<1>7. /\ slot1 \in 0 .. NMax - 1 /\ count1 = Least(Len(E1), NMax)
      /\ count1 < NMax => slot1 = count1
      /\ count1 = IF count < NMax THEN count + 1 ELSE NMax
    BY <1>1, <1>2, <1>4, <1>5 DEF Least
<1>. HIDE DEF count1
<1>8. ASSUME NEW k \in 1 .. count
      PROVE  /\ (First(slot, count) + (k - 1)) \in 0 .. (2 * NMax) - 1
             /\ (First(slot, count) + (k - 1)) % NMax \in 0 .. NMax - 1
             /\ (First(slot, count) + (k - 1)) % NMax = slot <=> (count = NMax /\ k = 1)
    <2>1. (First(slot, count) + (k - 1)) \in 0 .. (2 * NMax) - 1
        BY <1>1, <1>2 DEF First
    <2>2. PICK y : y = First(slot, count) + (k - 1)
        OBVIOUS
    <2>3. y % NMax = IF y < NMax THEN y ELSE y - NMax
        BY <1>3, <2>1, <2>2
    <2>4. y % NMax \in 0 .. NMax - 1 /\ ((y % NMax = slot) <=> (count = NMax /\ k = 1))
        BY <1>1, <1>2, <2>1, <2>2, <2>3 DEF First
    <2>. QED
        BY <2>1, <2>2, <2>4
<1>9. Holds(ring1, slot, count, E, TRUE)
    <2>1. ASSUME NEW j \in count .. NMax - 1, j # slot PROVE ring1[j] = Zero
        <3>1. j \in 0 .. NMax - 1
            BY <1>1, <1>2
        <3>. QED
            BY <1>6, <2>1, <3>1 DEF Holds
    <2>. QED
        BY <1>1, <1>2, <1>6, <1>8, <2>1 DEF Holds
<1>10. ASSUME NEW k \in 1 .. count1
       PROVE  ring1[(First(slot1, count1) + (k - 1)) % NMax] = E1[(Len(E1) - count1) + k]
    <2>1. CASE k = count1
        <3>1. E1[(Len(E1) - count1) + k] = x
            BY <1>1, <1>5, <1>7, <2>1
        <3>2. (First(slot1, count1) + (k - 1)) \in 0 .. (2 * NMax) - 1
            BY <1>1, <1>2, <1>7, <2>1 DEF First
        <3>3. PICK y : y = First(slot1, count1) + (k - 1)
            OBVIOUS
        <3>4. y % NMax = IF y < NMax THEN y ELSE y - NMax
            BY <1>3, <3>2, <3>3
        <3>5. y % NMax = slot
            <4>1. CASE count < NMax - 1
                <5>1. y = slot /\ slot < NMax
                    BY <1>1, <1>2, <1>7, <2>1, <3>3, <4>1 DEF First
                <5>. QED
                    BY <3>4, <5>1
            <4>2. CASE count = NMax - 1
                <5>1. slot = NMax - 1 /\ slot1 = 0
                    BY <1>1, <1>2, <1>4, <4>2
                <5>2. y = slot
                    BY <1>1, <1>7, <2>1, <3>3, <4>2, <5>1 DEF First
                <5>. QED
                    BY <1>1, <3>4, <5>1, <5>2
            <4>3. CASE count = NMax
                <5>1. y = slot1 + (NMax - 1)
                    BY <1>1, <1>7, <2>1, <3>3, <4>3 DEF First
                <5>. QED
                    BY <1>1, <1>2, <1>4, <3>4, <5>1
            <4>. QED
                BY <1>1, <1>2, <4>1, <4>2, <4>3
        <3>. QED
            BY <1>6, <3>1, <3>3, <3>5
    <2>2. CASE k # count1 /\ count < NMax
        <3>1. k \in 1 .. count /\ First(slot, count) = 0 /\ slot = count /\ Len(E) = count
            BY <1>1, <1>2, <1>7, <2>2 DEF First, Least
        <3>2. First(slot1, count1) = 0
            BY <1>1, <1>2, <1>4, <1>7, <2>2 DEF First
        <3>3. ring[(0 + (k - 1)) % NMax] = E[(Len(E) - count) + k]
            <4>1. ring[(First(slot, count) + (k - 1)) % NMax] = E[(Len(E) - count) + k]
                BY <1>1, <1>2, <3>1, <2>2 DEF Holds
            <4>. QED
                BY <3>1, <4>1
        <3>4. (0 + (k - 1)) % NMax = k - 1
            BY <1>1, <1>2, <1>3, <3>1
        <3>5. E1[(Len(E1) - count1) + k] = E[k] /\ E[(Len(E) - count) + k] = E[k]
            BY <1>1, <1>5, <1>7, <2>2, <3>1
        <3>6. ring1[k - 1] = ring[k - 1]
            BY <1>1, <1>2, <1>6, <3>1
        <3>. QED
            BY <3>2, <3>3, <3>4, <3>5, <3>6
    <2>3. CASE k # count1 /\ ~(count < NMax)
        <3>1. count = NMax /\ count1 = NMax /\ k + 1 \in 1 .. count /\ k + 1 # 1
            BY <1>1, <1>2, <1>7, <2>3
        <3>2. First(slot, count) = slot /\ First(slot1, count1) = slot1
            BY <1>1, <3>1 DEF First
        <3>3. ring[(slot + ((k + 1) - 1)) % NMax] = E[(Len(E) - count) + (k + 1)]
            BY <3>1, <3>2 DEF Holds
        <3>4. E[(Len(E) - count) + (k + 1)] = E1[(Len(E1) - count1) + k]
            <4>1. Len(E) >= NMax
                BY <1>1, <1>2, <3>1 DEF Least
            <4>2. PICK j : j = (Len(E) - count) + (k + 1)
                OBVIOUS
            <4>3. j \in 1 .. Len(E) /\ j = (Len(E1) - count1) + k
                BY <1>1, <1>5, <3>1, <4>1, <4>2
            <4>. QED
                BY <1>5, <4>2, <4>3
        <3>5. PICK y : y = slot + ((k + 1) - 1)
            OBVIOUS
        <3>6. PICK z : z = slot1 + (k - 1)
            OBVIOUS
        <3>7. y \in 0 .. (2 * NMax) - 1 /\ z \in 0 .. (2 * NMax) - 1
            BY <1>1, <1>2, <1>7, <3>1, <3>5, <3>6
        <3>8. /\ y % NMax = IF y < NMax THEN y ELSE y - NMax
              /\ z % NMax = IF z < NMax THEN z ELSE z - NMax
            BY <1>3, <3>7
        <3>9. y % NMax = z % NMax /\ y % NMax \in 0 .. NMax - 1 /\ y % NMax # slot
            BY <1>1, <1>2, <1>4, <3>1, <3>5, <3>6, <3>7, <3>8
        <3>10. ring1[z % NMax] = ring[y % NMax]
            BY <1>6, <3>9
        <3>. QED
            BY <3>2, <3>3, <3>4, <3>5, <3>6, <3>10
    <2>. QED
        BY <2>1, <2>2, <2>3
<1>11. Holds(ring1, slot1, count1, E1, FALSE)
    <2>1. ASSUME NEW j \in count1 .. NMax - 1 PROVE ring1[j] = Zero
        <3>1. j \in 0 .. NMax - 1 /\ j \in count .. NMax - 1 /\ j # slot
            BY <1>1, <1>2, <1>7
        <3>. QED
            BY <1>6, <3>1 DEF Holds
    <2>. QED
        BY <1>6, <1>7, <1>10, <2>1 DEF Holds
<1>. QED
    BY <1>9, <1>11 DEF ring1, slot1, count1, E1

-----------------------------------------------------------------------------
(* A recursion over the numbers up to n: it exists, and two that take the    *)
(* same steps are the same.                                                  *)
Recurs(f, X, b, n, G) ==
    f \in [0 .. n -> X] /\ f[0] = b /\ \A i \in 1 .. n : f[i] = G[i][f[i - 1]]

Steps(X, n) == [1 .. n -> [X -> X]]

LEMMA Recursion ==
    ASSUME NEW X, NEW b \in X, NEW n \in Nat, NEW G \in Steps(X, n)
    PROVE  \E f : Recurs(f, X, b, n, G)
<1>. USE DEF Steps
<1>. DEFINE T == {k \in Nat : k <= n =>
                     \E f \in [0 .. k -> X] : f[0] = b /\ \A i \in 1 .. k : f[i] = G[i][f[i - 1]]}
<1>1. 0 \in T
    <2>1. [i \in 0 .. 0 |-> b] \in [0 .. 0 -> X] /\ [i \in 0 .. 0 |-> b][0] = b
        OBVIOUS
    <2>2. PICK f : f = [i \in 0 .. 0 |-> b]
        OBVIOUS
    <2>3. f \in [0 .. 0 -> X] /\ f[0] = b /\ \A i \in 1 .. 0 : f[i] = G[i][f[i - 1]]
        BY <2>1, <2>2
    <2>. QED
        BY <2>3
<1>2. ASSUME NEW k \in T PROVE k + 1 \in T
    <2>. SUFFICES ASSUME k + 1 <= n
         PROVE \E g \in [0 .. k + 1 -> X] : g[0] = b /\ \A i \in 1 .. k + 1 : g[i] = G[i][g[i - 1]]
        <3>1. k + 1 \in Nat
            OBVIOUS
        <3>. QED
            BY <3>1, Zenon
    <2>1. PICK f \in [0 .. k -> X] : f[0] = b /\ \A i \in 1 .. k : f[i] = G[i][f[i - 1]]
        OBVIOUS
    <2>2. PICK g : g = [i \in 0 .. k + 1 |-> IF i = k + 1 THEN G[i][f[k]] ELSE f[i]]
        OBVIOUS
    <2>3. G[k + 1][f[k]] \in X
        <3>1. k + 1 \in 1 .. n /\ f[k] \in X
            BY <2>1
        <3>. QED
            BY <3>1
    <2>4. /\ \A i \in 0 .. k : g[i] = f[i]
          /\ g[k + 1] = G[k + 1][f[k]]
        BY <2>2
    <2>5. g \in [0 .. k + 1 -> X]
        BY <2>1, <2>2, <2>3
    <2>6. ASSUME NEW i \in 1 .. k + 1 PROVE g[i] = G[i][g[i - 1]]
        <3>1. CASE i = k + 1
            BY <2>4, <3>1
        <3>2. CASE i \in 1 .. k
            BY <2>1, <2>4, <3>2
        <3>. QED
            BY <3>1, <3>2
    <2>. QED
        BY <2>1, <2>4, <2>5, <2>6
<1>3. T = Nat
    <2>. HIDE DEF T
    <2>1. T \in SUBSET Nat
        BY DEF T
    <2>. QED
        BY <1>1, <1>2, <2>1, SetInduction
<1>4. n \in T /\ n <= n
    BY <1>3
<1>. QED
    BY <1>4 DEF Recurs

Alike(n, f, g) == f[0] = g[0] /\ \A i \in 1 .. n : f[i - 1] = g[i - 1] => f[i] = g[i]

LEMMA SameUpTo ==
    ASSUME NEW n \in Nat, NEW f, NEW g, Alike(n, f, g)
    PROVE  f[n] = g[n]
<1>. DEFINE T == {k \in Nat : k <= n => f[k] = g[k]}
<1>1. 0 \in T
    BY DEF Alike
<1>2. ASSUME NEW k \in T PROVE k + 1 \in T
    <2>. SUFFICES ASSUME k + 1 <= n PROVE f[k + 1] = g[k + 1]
        OBVIOUS
    <2>1. k + 1 \in 1 .. n /\ (k + 1) - 1 = k /\ f[k] = g[k]
        OBVIOUS
    <2>. QED
        BY <2>1 DEF Alike
<1>3. T = Nat
    <2>. HIDE DEF T
    <2>1. T \in SUBSET Nat
        BY DEF T
    <2>. QED
        BY <1>1, <1>2, <2>1, SetInduction
<1>. QED
    BY <1>3

-----------------------------------------------------------------------------
(* A history: samples in the order of their times.                           *)
Recorded == [when : Nat, val : Int, status : Nat]

InOrder(hist) ==
    \A i, j \in 1 .. Len(hist) : i <= j => hist[i].when <= hist[j].when

IsLeast(x, S) == x \in S /\ \A y \in S : x <= y
IsGreatest(x, S) == x \in S /\ \A y \in S : y <= x

(* A section of the header sums up the samples S.                            *)
Sums(sect, hist, S) ==
    /\ sect.n = Cardinality(S) /\ sect.sum = SumOf(hist, S)
    /\ IsLeast(sect.min, Extremes(hist, S)) /\ IsGreatest(sect.max, Extremes(hist, S))
    /\ IsGreatest(sect.worst, {hist[j].status : j \in S})

Sections == [idx : 0 .. NMax - 1, count : 0 .. NMax, n : Nat, min : Int, max : Int,
             sum : Int, worst : Nat]
Headers == [lastt : Nat, sect : [Rings -> Sections]]

-----------------------------------------------------------------------------
(* The sum of the values of samples.                                         *)
Summed(f, hist, S) ==
    /\ f \in [0 .. Len(hist) -> Int] /\ f[0] = 0
    /\ \A j \in 1 .. Len(hist) : f[j] = f[j - 1] + (IF j \in S THEN hist[j].val ELSE 0)

LEMMA SumIs ==
    ASSUME NEW hist \in Seq(Recorded), NEW S
    PROVE  \E f : Summed(f, hist, S) /\ SumOf(hist, S) = f[Len(hist)]
<1>. DEFINE n == Len(hist)
            Step(f, j) == IF j = 0 THEN 0 ELSE f[j - 1] + (IF j \in S THEN hist[j].val ELSE 0)
            G == [j \in 1 .. n |-> [s \in Int |-> s + (IF j \in S THEN hist[j].val ELSE 0)]]
            c == CHOOSE f : f = [j \in 0 .. n |-> Step(f, j)]
<1>1. n \in Nat /\ \A j \in 1 .. n : hist[j].val \in Int
    <2>1. \A j \in 1 .. n : hist[j] \in Recorded
        OBVIOUS
    <2>. QED
        BY <2>1 DEF Recorded
<1>2. SumOf(hist, S) = c[n]
    BY DEF SumOf
<1>. HIDE DEF n
<1>3. G \in [1 .. n -> [Int -> Int]]
    BY <1>1
<1>4. PICK f \in [0 .. n -> Int] : f[0] = 0 /\ \A i \in 1 .. n : f[i] = G[i][f[i - 1]]
    <2>. HIDE DEF G
    <2>1. PICK X, b : X = Int /\ b = 0
        OBVIOUS
    <2>2. b \in X /\ G \in Steps(X, n)
        BY <1>3, <2>1 DEF Steps
    <2>3. \E f : Recurs(f, X, b, n, G)
        BY <1>1, <2>2, Recursion
    <2>. QED
        BY <2>1, <2>3 DEF Recurs
<1>5. ASSUME NEW j \in 0 .. n PROVE f[j] = Step(f, j)
    <2>1. CASE j = 0
        BY <1>4, <2>1
    <2>2. CASE j \in 1 .. n
        <3>1. f[j - 1] \in Int
            BY <1>1, <1>4, <2>2
        <3>. QED
            BY <1>4, <2>2, <3>1
    <2>. QED
        BY <2>1, <2>2
<1>6. f = [j \in 0 .. n |-> Step(f, j)]
    BY <1>4, <1>5
<1>7. c = [j \in 0 .. n |-> Step(c, j)]
    BY <1>6
<1>. HIDE DEF c
<1>8. c[n] = f[n]
    <2>1. c[0] = f[0]
        BY <1>1, <1>4, <1>7
    <2>2. ASSUME NEW i \in 1 .. n, c[i - 1] = f[i - 1] PROVE c[i] = f[i]
        <3>1. c[i] = Step(c, i)
            <4>1. i \in 0 .. n
                BY <1>1
            <4>. QED
                BY <1>7, <4>1
        <3>. QED
            BY <1>5, <2>2, <3>1
    <2>3. Alike(n, c, f)
        BY <2>1, <2>2 DEF Alike
    <2>. QED
        BY <1>1, <2>3, SameUpTo
<1>9. Summed(f, hist, S)
    BY <1>1, <1>4, <1>5 DEF Summed, n
<1>. QED
    BY <1>2, <1>8, <1>9 DEF n

LEMMA SumsAreOne ==
    ASSUME NEW hist \in Seq(Recorded), NEW c \in Recorded, NEW S \in SUBSET (1 .. Len(hist))
    PROVE  /\ SumOf(hist, S) \in Int /\ SumOf(hist, {}) = 0
           /\ SumOf(Append(hist, c), S) = SumOf(hist, S)
           /\ SumOf(Append(hist, c), S \cup {Len(hist) + 1}) = SumOf(hist, S) + c.val
<1>. DEFINE n == Len(hist)
            hist1 == Append(hist, c)
<1>1. /\ n \in Nat /\ hist1 \in Seq(Recorded) /\ Len(hist1) = n + 1 /\ hist1[n + 1] = c
      /\ \A j \in 1 .. n : hist1[j] = hist[j]
    OBVIOUS
<1>. HIDE DEF hist1
<1>2. PICK f : Summed(f, hist, S) /\ SumOf(hist, S) = f[n]
    BY SumIs
<1>3. PICK e : Summed(e, hist, {}) /\ SumOf(hist, {}) = e[n]
    BY SumIs
<1>4. PICK f1 : Summed(f1, hist1, S) /\ SumOf(hist1, S) = f1[n + 1]
    BY <1>1, SumIs
<1>5. PICK g1 : Summed(g1, hist1, S \cup {n + 1}) /\ SumOf(hist1, S \cup {n + 1}) = g1[n + 1]
    BY <1>1, SumIs
<1>. HIDE DEF n
<1>6. f[n] \in Int
    BY <1>1, <1>2 DEF Summed, n
<1>7. e[n] = 0
    <2>1. PICK z : z = [j \in 0 .. n |-> 0]
        OBVIOUS
    <2>2. e[0] = z[0]
        BY <1>1, <1>3, <2>1 DEF Summed
    <2>3. ASSUME NEW i \in 1 .. n, e[i - 1] = z[i - 1] PROVE e[i] = z[i]
        BY <1>1, <1>3, <2>1, <2>3 DEF Summed, n
    <2>4. Alike(n, e, z)
        BY <2>2, <2>3 DEF Alike
    <2>. QED
        BY <1>1, <2>1, <2>4, SameUpTo
<1>8. f1[n] = f[n]
    <2>1. f1[0] = f[0]
        BY <1>2, <1>4 DEF Summed
    <2>2. ASSUME NEW i \in 1 .. n, f1[i - 1] = f[i - 1] PROVE f1[i] = f[i]
        <3>1. i \in 1 .. n + 1 /\ hist1[i] = hist[i]
            BY <1>1
        <3>. QED
            BY <1>1, <1>2, <1>4, <2>2, <3>1 DEF Summed, n
    <2>3. Alike(n, f1, f)
        BY <2>1, <2>2 DEF Alike
    <2>. QED
        BY <1>1, <2>3, SameUpTo
<1>9. g1[n] = f[n]
    <2>1. g1[0] = f[0]
        BY <1>2, <1>5 DEF Summed
    <2>2. ASSUME NEW i \in 1 .. n, g1[i - 1] = f[i - 1] PROVE g1[i] = f[i]
        <3>1. i \in 1 .. n + 1 /\ hist1[i] = hist[i] /\ i # n + 1
            BY <1>1
        <3>. QED
            BY <1>1, <1>2, <1>5, <2>2, <3>1 DEF Summed, n
    <2>3. Alike(n, g1, f)
        BY <2>1, <2>2 DEF Alike
    <2>. QED
        BY <1>1, <2>3, SameUpTo
<1>10. f1[n + 1] = f[n]
    <2>1. n + 1 \in 1 .. n + 1 /\ n + 1 \notin S /\ (n + 1) - 1 = n
        BY <1>1 DEF n
    <2>. QED
        BY <1>1, <1>4, <1>6, <1>8, <2>1 DEF Summed
<1>11. g1[n + 1] = f[n] + c.val
    <2>1. n + 1 \in 1 .. n + 1 /\ n + 1 \in S \cup {n + 1} /\ (n + 1) - 1 = n
        BY <1>1 DEF n
    <2>. QED
        BY <1>1, <1>5, <1>6, <1>9, <2>1 DEF Summed
<1>. QED
    BY <1>2, <1>3, <1>4, <1>5, <1>6, <1>7, <1>10, <1>11 DEF n, hist1

-----------------------------------------------------------------------------
LEMMA LastIs ==
    ASSUME NEW n \in Nat, NEW S \in SUBSET (1 .. n), S # {}
    PROVE  Max(S) \in S /\ \A y \in S : y <= Max(S)
<1>1. S \in SUBSET (0 .. n)
    OBVIOUS
<1>2. \E x \in S : \A y \in S : y <= x
    BY <1>1, HighestIs
<1>3. \E x \in S : \A y \in S : x >= y
    BY <1>2
<1>4. Max(S) \in S /\ \A y \in S : Max(S) >= y
    BY <1>3, Zenon DEF Max
<1>. QED
    BY <1>4

LEMMA AppendIs ==
    ASSUME NEW hist \in Seq(Recorded), NEW c \in Recorded
    PROVE  /\ Append(hist, c) \in Seq(Recorded) /\ Len(hist) \in Nat
           /\ Len(Append(hist, c)) = Len(hist) + 1 /\ Append(hist, c)[Len(hist) + 1] = c
           /\ \A j \in 1 .. Len(hist) : Append(hist, c)[j] = hist[j]
           /\ DOMAIN hist = 1 .. Len(hist) /\ DOMAIN Append(hist, c) = 1 .. Len(hist) + 1
           /\ Append(hist, c) # <<>>
OBVIOUS

LEMMA SamplesAre ==
    ASSUME NEW hist \in Seq(Recorded), NEW j \in 1 .. Len(hist)
    PROVE  hist[j] \in Recorded /\ hist[j].when \in Nat /\ hist[j].val \in Int /\ hist[j].status \in Nat
<1>1. hist[j] \in Recorded
    OBVIOUS
<1>. QED
    BY <1>1 DEF Recorded

(* What is summed up of earlier samples does not change.                     *)
LEMMA SumUpSame ==
    ASSUME NEW hist \in Seq(Recorded), NEW c \in Recorded,
           NEW S \in SUBSET (1 .. Len(hist)), S # {}
    PROVE  SumUp(Append(hist, c), S) = SumUp(hist, S)
<1>. DEFINE hist1 == Append(hist, c)
<1>1. \A j \in 1 .. Len(hist) : hist1[j] = hist[j]
    BY AppendIs
<1>2. SumOf(hist1, S) = SumOf(hist, S)
    BY SumsAreOne
<1>3. Max(S) \in S
    <2>1. Len(hist) \in Nat
        OBVIOUS
    <2>. QED
        BY <2>1, LastIs
<1>. HIDE DEF hist1
<1>4. {hist1[j].val : j \in S} = {hist[j].val : j \in S}
    BY <1>1
<1>5. {hist1[j].status : j \in S} = {hist[j].status : j \in S}
    BY <1>1
<1>6. hist1[Max(S)] = hist[Max(S)]
    BY <1>1, <1>3
<1>7. Extremes(hist1, S) = Extremes(hist, S)
    BY <1>4 DEF Extremes
<1>. QED
    BY <1>2, <1>5, <1>6, <1>7, Zenon DEF SumUp, hist1

(* Periods come in order.                                                    *)
LEMMA PeriodsInOrder ==
    ASSUME NEW r \in {"hours", "days"}, NEW hist \in Seq(Recorded), InOrder(hist),
           NEW i \in 1 .. Len(hist), NEW j \in 1 .. Len(hist), i <= j
    PROVE  /\ Period(r, hist[i].when) \in Nat /\ Period(r, hist[j].when) \in Nat
           /\ Period(r, hist[i].when) <= Period(r, hist[j].when)
<1>1. hist[i].when \in Nat /\ hist[j].when \in Nat /\ hist[i].when <= hist[j].when
    BY SamplesAre DEF InOrder
<1>. QED
    BY <1>1, PeriodsAre

LEMMA OfPeriodIs ==
    ASSUME NEW r, NEW hist \in Seq(Recorded), NEW i \in 1 .. Len(hist)
    PROVE  OfPeriod(r, hist, i) \in SUBSET (1 .. Len(hist)) /\ i \in OfPeriod(r, hist, i)
<1>1. DOMAIN hist = 1 .. Len(hist)
    OBVIOUS
<1>. QED
    BY <1>1 DEF OfPeriod

(* A sample belongs to the period of the last one, or begins a new one.      *)
LEMMA PeriodGrows ==
    ASSUME NEW r \in {"hours", "days"}, NEW hist \in Seq(Recorded), NEW c \in Recorded,
           InOrder(Append(hist, c)), NEW n, n = Len(hist), n # 0
    PROVE  /\ Period(r, hist[n].when) = Period(r, c.when) =>
                 OfPeriod(r, Append(hist, c), n + 1) = OfPeriod(r, hist, n) \cup {n + 1}
           /\ Period(r, hist[n].when) # Period(r, c.when) =>
                 OfPeriod(r, Append(hist, c), n + 1) = {n + 1}
<1>. DEFINE hist1 == Append(hist, c)
<1>1. /\ hist1 \in Seq(Recorded) /\ n \in Nat
      /\ Len(hist1) = n + 1 /\ hist1[n + 1] = c
      /\ \A j \in 1 .. n : hist1[j] = hist[j]
      /\ DOMAIN hist = 1 .. n /\ DOMAIN hist1 = 1 .. n + 1
    BY AppendIs
<1>. HIDE DEF hist1
<1>2. n \in 1 .. n /\ n + 1 \in 1 .. n + 1
    BY <1>1
<1>3. CASE Period(r, hist[n].when) = Period(r, c.when)
    <2>1. OfPeriod(r, hist1, n + 1) = {j \in 1 .. n + 1 : Period(r, hist1[j].when) = Period(r, c.when)}
        BY <1>1, Zenon DEF OfPeriod
    <2>2. OfPeriod(r, hist, n) = {j \in 1 .. n : Period(r, hist[j].when) = Period(r, c.when)}
        BY <1>1, <1>3, Zenon DEF OfPeriod
    <2>3. PICK A, B : A = OfPeriod(r, hist, n) /\ B = OfPeriod(r, hist1, n + 1)
        OBVIOUS
    <2>4. ASSUME NEW j PROVE j \in B <=> j \in A \/ j = n + 1
        <3>1. CASE j \in 1 .. n
            <4>1. j \in 1 .. n + 1 /\ j # n + 1 /\ hist1[j] = hist[j]
                BY <1>1, <3>1
            <4>. QED
                BY <2>1, <2>2, <2>3, <3>1, <4>1, Zenon
        <3>2. CASE j = n + 1
            BY <1>1, <1>2, <2>1, <2>3, <3>2, Zenon
        <3>3. CASE j \notin 1 .. n /\ j # n + 1
            <4>1. j \notin 1 .. n + 1
                BY <1>1, <3>3
            <4>. QED
                BY <2>1, <2>2, <2>3, <3>3, <4>1, Zenon
        <3>. QED
            BY <3>1, <3>2, <3>3
    <2>5. B = A \cup {n + 1}
        BY <2>4, Zenon
    <2>. QED
        BY <1>3, <2>3, <2>5 DEF hist1
<1>4. CASE Period(r, hist[n].when) # Period(r, c.when)
    <2>1. ASSUME NEW j \in 1 .. n PROVE Period(r, hist1[j].when) # Period(r, c.when)
        <3>1. InOrder(hist1) /\ j \in 1 .. Len(hist1) /\ n \in 1 .. Len(hist1) /\ j <= n
              /\ n + 1 \in 1 .. Len(hist1) /\ n <= n + 1
            BY <1>1, <1>2 DEF hist1
        <3>2. /\ Period(r, hist1[j].when) <= Period(r, hist1[n].when)
              /\ Period(r, hist1[n].when) <= Period(r, hist1[n + 1].when)
              /\ Period(r, hist1[j].when) \in Nat /\ Period(r, hist1[n].when) \in Nat
              /\ Period(r, hist1[n + 1].when) \in Nat
            BY <1>1, <3>1, PeriodsInOrder
        <3>3. hist1[n + 1] = c /\ hist1[n] = hist[n]
            BY <1>1, <1>2
        <3>. QED
            BY <1>4, <3>2, <3>3
    <2>2. OfPeriod(r, hist1, n + 1) = {j \in 1 .. n + 1 : Period(r, hist1[j].when) = Period(r, c.when)}
        BY <1>1, Zenon DEF OfPeriod
    <2>3. \A j \in 1 .. n + 1 : j \in 1 .. n \/ j = n + 1
        BY <1>1
    <2>. QED
        BY <1>1, <1>2, <1>4, <2>1, <2>2, <2>3, Zenon DEF hist1
<1>. QED
    BY <1>3, <1>4

(* What is over stays as it is.                                              *)
LEMMA EndedIs ==
    ASSUME NEW r \in {"hours", "days"}, NEW hist \in Seq(Recorded), NEW c \in Recorded,
           InOrder(Append(hist, c)), NEW i \in 1 .. Len(hist), i \in Lasts(r, Append(hist, c))
    PROVE  SumUp(Append(hist, c), OfPeriod(r, Append(hist, c), i)) = SumUp(hist, OfPeriod(r, hist, i))
<1>. DEFINE hist1 == Append(hist, c)
            n == Len(hist)
<1>1. /\ hist1 \in Seq(Recorded) /\ n \in Nat
      /\ Len(hist1) = n + 1 /\ hist1[n + 1] = c
      /\ \A j \in 1 .. n : hist1[j] = hist[j]
      /\ DOMAIN hist = 1 .. n /\ DOMAIN hist1 = 1 .. n + 1
    BY AppendIs
<1>2. InOrder(hist1) /\ i \in Lasts(r, hist1)
    OBVIOUS
<1>. HIDE DEF hist1
<1>3. Period(r, hist1[i].when) # Period(r, hist1[i + 1].when)
    BY <1>2 DEF Lasts
<1>. HIDE DEF n
<1>4. Period(r, hist1[n + 1].when) # Period(r, hist1[i].when)
    <2>1. /\ i \in 1 .. Len(hist1) /\ i + 1 \in 1 .. Len(hist1) /\ n + 1 \in 1 .. Len(hist1)
          /\ i <= i + 1 /\ i + 1 <= n + 1
        BY <1>1 DEF n
    <2>2. /\ Period(r, hist1[i].when) <= Period(r, hist1[i + 1].when)
          /\ Period(r, hist1[i + 1].when) <= Period(r, hist1[n + 1].when)
          /\ Period(r, hist1[i].when) \in Nat /\ Period(r, hist1[i + 1].when) \in Nat
          /\ Period(r, hist1[n + 1].when) \in Nat
        BY <1>1, <1>2, <2>1, PeriodsInOrder
    <2>. QED
        BY <1>3, <2>2
<1>5. OfPeriod(r, hist1, i) = OfPeriod(r, hist, i)
    <2>1. \A j \in 1 .. n + 1 : j \in 1 .. n \/ j = n + 1
        BY <1>1
    <2>2. 1 .. n \subseteq 1 .. n + 1 /\ i \in 1 .. n
        BY <1>1 DEF n
    <2>3. hist1[i] = hist[i]
        BY <1>1, <2>2
    <2>4. OfPeriod(r, hist1, i) = {j \in 1 .. n + 1 : Period(r, hist1[j].when) = Period(r, hist[i].when)}
        BY <1>1, <2>3, Zenon DEF OfPeriod
    <2>5. OfPeriod(r, hist, i) = {j \in 1 .. n : Period(r, hist[j].when) = Period(r, hist[i].when)}
        BY <1>1, Zenon DEF OfPeriod
    <2>6. \A j \in 1 .. n : Period(r, hist1[j].when) = Period(r, hist[j].when)
        BY <1>1
    <2>. QED
        BY <1>4, <2>1, <2>2, <2>3, <2>4, <2>5, <2>6, Zenon
<1>6. OfPeriod(r, hist, i) \in SUBSET (1 .. Len(hist)) /\ OfPeriod(r, hist, i) # {}
    BY OfPeriodIs
<1>7. SumUp(hist1, OfPeriod(r, hist, i)) = SumUp(hist, OfPeriod(r, hist, i))
    BY <1>6, SumUpSame DEF hist1
<1>. QED
    BY <1>5, <1>7 DEF hist1

-----------------------------------------------------------------------------
(* The summaries of the periods that are over, in order.                     *)
Overs(f, r, hist, X) ==
    /\ f \in [0 .. Len(hist) -> Seq(X)] /\ f[0] = <<>>
    /\ \A i \in 1 .. Len(hist) :
          f[i] = IF i \notin Lasts(r, hist) THEN f[i - 1]
                 ELSE Append(f[i - 1], SumUp(hist, OfPeriod(r, hist, i)))

LEMMA OversAre ==
    ASSUME NEW r \in {"hours", "days"}, NEW hist \in Seq(Recorded), NEW X,
           \A i \in 1 .. Len(hist) : SumUp(hist, OfPeriod(r, hist, i)) \in X
    PROVE  \E f : Overs(f, r, hist, X) /\ Expected(r, hist) = f[Len(hist)]
<1>. DEFINE n == Len(hist)
            L == Lasts(r, hist)
            U == [i \in 1 .. n |-> SumUp(hist, OfPeriod(r, hist, i))]
            Step(f, i) == IF i = 0 THEN <<>> ELSE IF i \notin Lasts(r, hist) THEN f[i - 1]
                          ELSE Append(f[i - 1], SumUp(hist, OfPeriod(r, hist, i)))
            G == [i \in 1 .. n |-> [s \in Seq(X) |-> IF i \notin L THEN s ELSE Append(s, U[i])]]
            c == CHOOSE f : f = [i \in 0 .. n |-> Step(f, i)]
<1>1. n \in Nat
    OBVIOUS
<1>2. Expected(r, hist) = c[n]
    BY Zenon DEF Expected
<1>3. \A i \in 1 .. n : U[i] \in X
    OBVIOUS
<1>4. \A i \in 1 .. n : \A f : Step(f, i) = IF i \notin L THEN f[i - 1] ELSE Append(f[i - 1], U[i])
    <2>. HIDE DEF L, n
    <2>1. \A i \in 1 .. n : i # 0
        OBVIOUS
    <2>. QED
        BY <2>1, Zenon DEF L
<1>5. \A f : Step(f, 0) = <<>>
    OBVIOUS
<1>. HIDE DEF n, L, U, Step
<1>6. G \in Steps(Seq(X), n)
    BY <1>1, <1>3 DEF Steps
<1>7. PICK f : Recurs(f, Seq(X), <<>>, n, G)
    <2>. HIDE DEF G
    <2>1. PICK Y, b : Y = Seq(X) /\ b = <<>>
        OBVIOUS
    <2>2. b \in Y /\ G \in Steps(Y, n)
        BY <1>6, <2>1
    <2>3. \E f : Recurs(f, Y, b, n, G)
        BY <1>1, <2>2, Recursion
    <2>. QED
        BY <2>1, <2>3
<1>8. /\ f \in [0 .. n -> Seq(X)] /\ f[0] = <<>>
      /\ \A i \in 1 .. n : f[i] = IF i \notin L THEN f[i - 1] ELSE Append(f[i - 1], U[i])
    <2>1. f \in [0 .. n -> Seq(X)] /\ f[0] = <<>> /\ \A i \in 1 .. n : f[i] = G[i][f[i - 1]]
        BY <1>7 DEF Recurs
    <2>2. \A i \in 1 .. n : f[i - 1] \in Seq(X)
        BY <1>1, <2>1
    <2>. QED
        BY <2>1, <2>2
<1>9. ASSUME NEW i \in 0 .. n PROVE f[i] = Step(f, i)
    <2>1. CASE i = 0
        BY <1>5, <1>8, <2>1
    <2>2. CASE i \in 1 .. n
        BY <1>4, <1>8, <2>2
    <2>. QED
        BY <2>1, <2>2
<1>10. f = [i \in 0 .. n |-> Step(f, i)]
    BY <1>8, <1>9
<1>11. c = [i \in 0 .. n |-> Step(c, i)]
    BY <1>10
<1>. HIDE DEF c
<1>12. c[n] = f[n]
    <2>1. c[0] = f[0]
        BY <1>1, <1>5, <1>8, <1>11
    <2>2. ASSUME NEW i \in 1 .. n, c[i - 1] = f[i - 1] PROVE c[i] = f[i]
        <3>1. c[i] = Step(c, i)
            <4>1. i \in 0 .. n
                BY <1>1
            <4>. QED
                BY <1>11, <4>1
        <3>. QED
            BY <1>4, <1>8, <2>2, <3>1
    <2>3. Alike(n, c, f)
        BY <2>1, <2>2 DEF Alike
    <2>. QED
        BY <1>1, <2>3, SameUpTo
<1>13. Overs(f, r, hist, X)
    BY <1>1, <1>8 DEF Overs, n, L, U
<1>. QED
    BY <1>2, <1>12, <1>13 DEF n

(* A sample of a new period adds the summary of the one before.              *)
Grows(r, hist, c, n) ==
    \E X : /\ Expected(r, hist) \in Seq(X)
           /\ n # 0 => SumUp(hist, OfPeriod(r, hist, n)) \in X
           /\ Expected(r, Append(hist, c)) =
                 IF n = 0 \/ Period(r, hist[n].when) = Period(r, c.when) THEN Expected(r, hist)
                 ELSE Append(Expected(r, hist), SumUp(hist, OfPeriod(r, hist, n)))

LEMMA ExpectedGrows ==
    ASSUME NEW r \in {"hours", "days"}, NEW hist \in Seq(Recorded), NEW c \in Recorded,
           InOrder(Append(hist, c)), NEW n, n = Len(hist)
    PROVE  Grows(r, hist, c, n)
<1>. DEFINE hist1 == Append(hist, c)
            X == {SumUp(hist, OfPeriod(r, hist, i)) : i \in 1 .. n}
                    \cup {SumUp(hist1, OfPeriod(r, hist1, i)) : i \in 1 .. n + 1}
<1>1. /\ hist1 \in Seq(Recorded) /\ n \in Nat
      /\ Len(hist1) = n + 1 /\ hist1[n + 1] = c
      /\ \A j \in 1 .. n : hist1[j] = hist[j]
    BY AppendIs
<1>2. ASSUME NEW i \in 1 .. n, i \in Lasts(r, hist1)
      PROVE  SumUp(hist1, OfPeriod(r, hist1, i)) = SumUp(hist, OfPeriod(r, hist, i))
    BY <1>2, EndedIs
<1>. HIDE DEF hist1
<1>3. /\ \A i \in 1 .. n : SumUp(hist, OfPeriod(r, hist, i)) \in X
      /\ \A i \in 1 .. n + 1 : SumUp(hist1, OfPeriod(r, hist1, i)) \in X
    OBVIOUS
<1>. HIDE DEF X
<1>4. PICK f : Overs(f, r, hist, X) /\ Expected(r, hist) = f[n]
    BY <1>3, OversAre
<1>5. PICK f1 : Overs(f1, r, hist1, X) /\ Expected(r, hist1) = f1[n + 1]
    <2>1. \A i \in 1 .. Len(hist1) : SumUp(hist1, OfPeriod(r, hist1, i)) \in X
        BY <1>1, <1>3
    <2>2. \E f1 : Overs(f1, r, hist1, X) /\ Expected(r, hist1) = f1[Len(hist1)]
        BY <1>1, <2>1, OversAre
    <2>. QED
        BY <1>1, <2>2
<1>6. ASSUME NEW i \in 1 .. n + 1
      PROVE  f1[i] = IF i \notin Lasts(r, hist1) THEN f1[i - 1]
                     ELSE Append(f1[i - 1], SumUp(hist1, OfPeriod(r, hist1, i)))
    BY <1>1, <1>5 DEF Overs
<1>7. ASSUME NEW i \in 1 .. n
      PROVE  f[i] = IF i \notin Lasts(r, hist) THEN f[i - 1]
                    ELSE Append(f[i - 1], SumUp(hist, OfPeriod(r, hist, i)))
    BY <1>4 DEF Overs
<1>8. f[0] = <<>> /\ f1[0] = <<>> /\ f[n] \in Seq(X)
    BY <1>1, <1>4, <1>5 DEF Overs
<1>9. f1[n + 1] = f1[n]
    <2>1. n + 1 \in 1 .. n + 1 /\ (n + 1) - 1 = n
        BY <1>1
    <2>2. n + 1 \notin Lasts(r, hist1)
        BY <1>1 DEF Lasts
    <2>. QED
        BY <1>6, <2>1, <2>2
<1>10. CASE n = 0
    BY <1>4, <1>5, <1>8, <1>9, <1>10 DEF hist1, Grows
<1>11. CASE n # 0
    <2>1. n - 1 \in Nat /\ n \in 1 .. n /\ n \in 1 .. n + 1
        BY <1>1, <1>11
    <2>2. f1[n - 1] = f[n - 1]
        <3>1. ASSUME NEW i \in 1 .. n - 1, f1[i - 1] = f[i - 1] PROVE f1[i] = f[i]
            <4>1. i \in 1 .. n /\ i \in 1 .. n + 1
                BY <1>1
            <4>2. i \in Lasts(r, hist1) <=> i \in Lasts(r, hist)
                <5>1. i + 1 \in 1 .. n
                    BY <1>1
                <5>2. hist1[i] = hist[i] /\ hist1[i + 1] = hist[i + 1]
                    BY <1>1, <4>1, <5>1
                <5>. QED
                    BY <1>1, <5>2 DEF Lasts
            <4>. QED
                BY <1>2, <1>6, <1>7, <3>1, <4>1, <4>2
        <3>2. Alike(n - 1, f1, f)
            BY <1>8, <3>1 DEF Alike
        <3>. QED
            BY <2>1, <3>2, SameUpTo
    <2>3. f[n] = f[n - 1]
        <3>1. n \notin Lasts(r, hist)
            BY <1>1 DEF Lasts
        <3>. QED
            BY <1>7, <2>1, <3>1
    <2>4. n \in Lasts(r, hist1) <=> Period(r, hist[n].when) # Period(r, c.when)
        <3>1. hist1[n] = hist[n] /\ hist1[n + 1] = c /\ Len(hist1) - 1 = n
            BY <1>1, <2>1
        <3>. QED
            BY <2>1, <3>1, Zenon DEF Lasts
    <2>5. f1[n] = IF n \notin Lasts(r, hist1) THEN f[n] ELSE Append(f[n], SumUp(hist, OfPeriod(r, hist, n)))
        BY <1>2, <1>6, <2>1, <2>2, <2>3
    <2>6. SumUp(hist, OfPeriod(r, hist, n)) \in X
        BY <1>3, <2>1
    <2>. QED
        BY <1>4, <1>5, <1>8, <1>9, <1>11, <2>4, <2>5, <2>6 DEF hist1, Grows
<1>. QED
    BY <1>10, <1>11
-----------------------------------------------------------------------------
(* The sections of the header.                                               *)
LEMMA OfTwo ==
    ASSUME NEW a \in Int, NEW b \in Int
    PROVE  Min({a, b}) = Least(a, b) /\ Max({a, b}) = IF a < b THEN b ELSE a
<1>1. \E x \in {a, b} : \A y \in {a, b} : x <= y
    OBVIOUS
<1>2. \E x \in {a, b} : \A y \in {a, b} : x >= y
    OBVIOUS
<1>3. Min({a, b}) \in {a, b} /\ \A y \in {a, b} : Min({a, b}) <= y
    BY <1>1, Zenon DEF Min
<1>4. Max({a, b}) \in {a, b} /\ \A y \in {a, b} : Max({a, b}) >= y
    BY <1>2, Zenon DEF Max
<1>5. PICK x, y : x = Min({a, b}) /\ y = Max({a, b})
    OBVIOUS
<1>6. x \in {a, b} /\ x <= a /\ x <= b /\ y \in {a, b} /\ y >= a /\ y >= b
    BY <1>3, <1>4, <1>5
<1>7. x = Least(a, b) /\ y = IF a < b THEN b ELSE a
    BY <1>6 DEF Least
<1>. QED
    BY <1>5, <1>7

LEMMA TheLeast ==
    ASSUME NEW E \in SUBSET Int, NEW x
    PROVE  /\ IsLeast(x, E) => Min(E) = x
           /\ IsGreatest(x, E) => Max(E) = x
<1>1. ASSUME IsLeast(x, E) PROVE Min(E) = x
    <2>1. x \in E /\ \A y \in E : x <= y
        BY <1>1 DEF IsLeast
    <2>2. Min(E) \in E /\ \A y \in E : Min(E) <= y
        BY <2>1, Zenon DEF Min
    <2>3. PICK m : m = Min(E)
        OBVIOUS
    <2>4. m \in E /\ \A y \in E : m <= y
        BY <2>2, <2>3, Zenon
    <2>5. x \in Int /\ m \in Int /\ m <= x /\ x <= m
        BY <2>1, <2>4
    <2>6. m = x
        BY <2>5
    <2>. QED
        BY <2>3, <2>6
<1>2. ASSUME IsGreatest(x, E) PROVE Max(E) = x
    <2>1. x \in E /\ \A y \in E : x >= y
        BY <1>2 DEF IsGreatest
    <2>2. Max(E) \in E /\ \A y \in E : Max(E) >= y
        BY <2>1, Zenon DEF Max
    <2>3. PICK m : m = Max(E)
        OBVIOUS
    <2>4. m \in E /\ \A y \in E : m >= y
        BY <2>2, <2>3, Zenon
    <2>5. x \in Int /\ m \in Int /\ m >= x /\ x >= m
        BY <2>1, <2>4
    <2>6. m = x
        BY <2>5
    <2>. QED
        BY <2>3, <2>6
<1>. QED
    BY <1>1, <1>2

LEMMA OneMore ==
    ASSUME NEW E \in SUBSET Int, NEW x, NEW v \in Int
    PROVE  /\ IsLeast(x, E) => IsLeast(Least(x, v), E \cup {v})
           /\ IsGreatest(x, E) => IsGreatest(IF x < v THEN v ELSE x, E \cup {v})
<1>1. ASSUME IsLeast(x, E) PROVE IsLeast(Least(x, v), E \cup {v})
    <2>1. x \in Int /\ x \in E /\ \A y \in E : y \in Int /\ x <= y
        BY <1>1 DEF IsLeast
    <2>. QED
        BY <2>1 DEF IsLeast, Least
<1>2. ASSUME IsGreatest(x, E) PROVE IsGreatest(IF x < v THEN v ELSE x, E \cup {v})
    <2>1. x \in Int /\ x \in E /\ \A y \in E : y \in Int /\ y <= x
        BY <1>2 DEF IsGreatest
    <2>. QED
        BY <2>1 DEF IsGreatest
<1>. QED
    BY <1>1, <1>2

LEMMA OneOrZero ==
    ASSUME NEW v \in Int
    PROVE  /\ IsLeast(v, {v}) /\ IsGreatest(v, {v})
           /\ IsLeast(Least(0, v), {v, 0}) /\ IsGreatest(IF v < 0 THEN 0 ELSE v, {v, 0})
BY DEF IsLeast, IsGreatest, Least

LEMMA AddIs ==
    ASSUME NEW sect \in Sections, cur \in Recorded, NEW s1, s1 = add(sect)
    PROVE  /\ s1 \in Sections /\ s1.idx = sect.idx /\ s1.count = sect.count
           /\ s1.n = sect.n + 1 /\ s1.sum = sect.sum + cur.val
           /\ s1.min = Least(sect.min, cur.val)
           /\ s1.max = IF sect.max < cur.val THEN cur.val ELSE sect.max
           /\ s1.worst = IF sect.worst < cur.status THEN cur.status ELSE sect.worst
<1>1. /\ sect.n \in Nat /\ sect.min \in Int /\ sect.max \in Int /\ sect.sum \in Int /\ sect.worst \in Nat
      /\ sect.idx \in 0 .. NMax - 1 /\ sect.count \in 0 .. NMax
    BY DEF Sections
<1>2. cur.val \in Int /\ cur.status \in Nat
    BY DEF Recorded
<1>3. PICK lo, hi, w : /\ lo = Least(sect.min, cur.val)
                       /\ hi = (IF sect.max < cur.val THEN cur.val ELSE sect.max)
                       /\ w = (IF sect.worst < cur.status THEN cur.status ELSE sect.worst)
    OBVIOUS
<1>4. lo \in Int /\ hi \in Int /\ w \in Nat /\ sect.n + 1 \in Nat /\ sect.sum + cur.val \in Int
    BY <1>1, <1>2, <1>3 DEF Least
<1>5. Min({sect.min, cur.val}) = lo /\ Max({sect.max, cur.val}) = hi /\ Max({sect.worst, cur.status}) = w
    <2>1. sect.worst \in Int /\ cur.status \in Int
        BY <1>1, <1>2
    <2>2. Min({sect.min, cur.val}) = lo
        BY <1>1, <1>2, <1>3, OfTwo
    <2>3. Max({sect.max, cur.val}) = hi
        BY <1>1, <1>2, <1>3, OfTwo
    <2>4. Max({sect.worst, cur.status}) = w
        BY <1>3, <2>1, OfTwo
    <2>. QED
        BY <2>2, <2>3, <2>4
<1>6. s1 = [idx |-> sect.idx, count |-> sect.count, n |-> sect.n + 1, min |-> lo, max |-> hi,
            sum |-> sect.sum + cur.val, worst |-> w]
    BY <1>5 DEF add, Sections
<1>. QED
    BY <1>1, <1>3, <1>4, <1>6 DEF Sections

LEMMA ResetSectIs ==
    ASSUME NEW sect \in Sections, cur \in Recorded, NEW s1, s1 = reset(sect, cur.val)
    PROVE  /\ s1 \in Sections /\ s1.idx = sect.idx /\ s1.count = sect.count
           /\ s1.n = 0 /\ s1.sum = 0 /\ s1.min = cur.val /\ s1.max = cur.val /\ s1.worst = 0
<1>1. s1 = [idx |-> sect.idx, count |-> sect.count, n |-> 0, min |-> cur.val, max |-> cur.val,
            sum |-> 0, worst |-> 0]
    BY DEF reset, Sections
<1>2. sect.idx \in 0 .. NMax - 1 /\ sect.count \in 0 .. NMax
    BY DEF Sections
<1>3. cur.val \in Int
    BY DEF Recorded
<1>. QED
    BY <1>1, <1>2, <1>3 DEF Sections

LEMMA WrittenIs ==
    ASSUME NEW sect \in Sections, NEW s1, s1 = Written(sect)
    PROVE  /\ s1 \in Sections /\ s1.idx = (sect.idx + 1) % NMax /\ s1.count = Least(sect.count + 1, NMax)
           /\ \A f \in {"n", "min", "max", "sum", "worst"} : s1[f] = sect[f]
<1>1. NMax \in Nat \ {0}
    BY GraphAssumption
<1>2. /\ sect.n \in Nat /\ sect.min \in Int /\ sect.max \in Int /\ sect.sum \in Int /\ sect.worst \in Nat
      /\ sect.idx \in Nat /\ sect.count \in Nat
    BY <1>1 DEF Sections
<1>3. PICK i, k : i = (sect.idx + 1) % NMax /\ k = Least(sect.count + 1, NMax)
    OBVIOUS
<1>4. i \in 0 .. NMax - 1
    <2>1. sect.idx + 1 \in Nat
        BY <1>2
    <2>. QED
        BY <1>1, <1>3, <2>1, DivIs
<1>5. k \in 0 .. NMax
    BY <1>1, <1>2, <1>3 DEF Least
<1>6. Min({sect.count + 1, NMax}) = k
    BY <1>1, <1>2, <1>3, OfTwo
<1>7. s1 = [idx |-> i, count |-> k, n |-> sect.n, min |-> sect.min, max |-> sect.max,
            sum |-> sect.sum, worst |-> sect.worst]
    BY <1>3, <1>6 DEF Written, Sections
<1>. QED
    BY <1>2, <1>3, <1>4, <1>5, <1>7 DEF Sections

LEMMA BegunIs ==
    ASSUME NEW sect \in Sections, cur \in Recorded, NEW s1, s1 = reset(Written(sect), cur.val)
    PROVE  /\ s1 \in Sections /\ s1.idx = (sect.idx + 1) % NMax /\ s1.count = Least(sect.count + 1, NMax)
           /\ s1.n = 0 /\ s1.sum = 0 /\ s1.min = cur.val /\ s1.max = cur.val /\ s1.worst = 0
<1>1. PICK w : w = Written(sect)
    OBVIOUS
<1>2. w \in Sections /\ w.idx = (sect.idx + 1) % NMax /\ w.count = Least(sect.count + 1, NMax)
    BY <1>1, WrittenIs
<1>. QED
    BY <1>1, <1>2, ResetSectIs

(* A sample of the same period is summed up with the others.                 *)
LEMMA SumsMore ==
    ASSUME NEW hist \in Seq(Recorded), cur \in Recorded, NEW n, n = Len(hist),
           NEW S \in SUBSET (1 .. n), NEW sect \in Sections, Sums(sect, hist, S),
           NEW s1, s1 = add(sect)
    PROVE  Sums(s1, Append(hist, cur), S \cup {n + 1})
<1>. DEFINE hist1 == Append(hist, cur)
            V == {hist[j].val : j \in S}
            W == {hist[j].status : j \in S}
            V1 == {hist1[j].val : j \in S \cup {n + 1}}
            W1 == {hist1[j].status : j \in S \cup {n + 1}}
<1>1. /\ s1.n = sect.n + 1 /\ s1.sum = sect.sum + cur.val
      /\ s1.min = Least(sect.min, cur.val)
      /\ s1.max = IF sect.max < cur.val THEN cur.val ELSE sect.max
      /\ s1.worst = IF sect.worst < cur.status THEN cur.status ELSE sect.worst
    BY AddIs
<1>2. /\ hist1 \in Seq(Recorded) /\ n \in Nat /\ hist1[n + 1] = cur
      /\ \A j \in 1 .. n : hist1[j] = hist[j]
    BY AppendIs
<1>3. \A j \in 1 .. n : hist[j].val \in Int /\ hist[j].status \in Nat
    BY SamplesAre
<1>4. cur.val \in Int /\ cur.status \in Nat
    BY DEF Recorded
<1>5. /\ sect.n = Cardinality(S) /\ sect.sum = SumOf(hist, S)
      /\ IsLeast(sect.min, Extremes(hist, S)) /\ IsGreatest(sect.max, Extremes(hist, S))
      /\ IsGreatest(sect.worst, W)
    BY DEF Sums
<1>6. Cardinality(S \cup {n + 1}) = Cardinality(S) + 1
    <2>1. IsFiniteSet(1 .. n)
        BY <1>2, FS_Interval
    <2>2. IsFiniteSet(S)
        BY <2>1, FS_Subset
    <2>3. n + 1 \notin S
        BY <1>2
    <2>. QED
        BY <2>2, <2>3, FS_AddElement
<1>7. SumOf(hist1, S \cup {n + 1}) = SumOf(hist, S) + cur.val
    BY SumsAreOne
<1>. HIDE DEF hist1
<1>8. V1 = V \cup {cur.val} /\ W1 = W \cup {cur.status}
    BY <1>2
<1>9. V \subseteq Int /\ W \subseteq Nat
    BY <1>3
<1>10. (1 \in S \cup {n + 1}) <=> (1 \in S)
    <2>1. S # {}
        BY <1>5 DEF IsGreatest
    <2>2. PICK j : j \in S /\ j \in 1 .. n
        BY <2>1
    <2>3. n + 1 # 1
        BY <1>2, <2>2
    <2>. QED
        BY <2>3
<1>11. Extremes(hist1, S \cup {n + 1}) = Extremes(hist, S) \cup {cur.val}
    <2>1. Extremes(hist1, S \cup {n + 1}) = V1 \cup (IF 1 \in S \cup {n + 1} THEN {0} ELSE {})
        BY Zenon DEF Extremes
    <2>2. Extremes(hist, S) = V \cup (IF 1 \in S THEN {0} ELSE {})
        BY DEF Extremes
    <2>. HIDE DEF V, V1
    <2>. QED
        BY <1>8, <1>10, <2>1, <2>2
<1>12. Extremes(hist, S) \subseteq Int
    <2>1. Extremes(hist, S) = V \cup (IF 1 \in S THEN {0} ELSE {})
        BY DEF Extremes
    <2>. HIDE DEF V
    <2>. QED
        BY <1>9, <2>1
<1>. HIDE DEF V, V1, W, W1
<1>13. /\ IsLeast(s1.min, Extremes(hist1, S \cup {n + 1}))
       /\ IsGreatest(s1.max, Extremes(hist1, S \cup {n + 1}))
    <2>1. PICK E, E1 : E = Extremes(hist, S) /\ E1 = Extremes(hist1, S \cup {n + 1})
        OBVIOUS
    <2>2. E \in SUBSET Int /\ E1 = E \cup {cur.val} /\ IsLeast(sect.min, E) /\ IsGreatest(sect.max, E)
        BY <1>5, <1>11, <1>12, <2>1
    <2>3. IsLeast(Least(sect.min, cur.val), E1)
        BY <1>4, <2>2, OneMore
    <2>4. IsGreatest(IF sect.max < cur.val THEN cur.val ELSE sect.max, E1)
        BY <1>4, <2>2, OneMore
    <2>. QED
        BY <1>1, <2>1, <2>3, <2>4
<1>14. IsGreatest(s1.worst, W1)
    <2>1. W \in SUBSET Int /\ cur.status \in Int
        BY <1>4, <1>9
    <2>. QED
        BY <1>1, <1>5, <1>8, <2>1, OneMore
<1>15. s1.n = Cardinality(S \cup {n + 1}) /\ s1.sum = SumOf(hist1, S \cup {n + 1})
    BY <1>1, <1>5, <1>6, <1>7 DEF hist1
<1>. QED
    BY <1>13, <1>14, <1>15 DEF Sums, W1, hist1

(* The first one of a period; a new header's extremes begin with 0.          *)
LEMMA SumsOne ==
    ASSUME NEW hist \in Seq(Recorded), cur \in Recorded, NEW n, n = Len(hist),
           NEW sect \in Sections, sect.n = 0, sect.sum = 0, sect.worst = 0,
           sect.min = (IF n = 0 THEN 0 ELSE cur.val), sect.max = (IF n = 0 THEN 0 ELSE cur.val),
           NEW s1, s1 = add(sect)
    PROVE  Sums(s1, Append(hist, cur), {n + 1})
<1>. DEFINE hist1 == Append(hist, cur)
            V1 == {hist1[j].val : j \in {n + 1}}
            W1 == {hist1[j].status : j \in {n + 1}}
<1>1. cur.val \in Int /\ cur.status \in Nat
    BY DEF Recorded
<1>2. /\ s1.n = 1 /\ s1.sum = cur.val /\ s1.worst = cur.status
      /\ s1.min = IF n = 0 THEN Least(0, cur.val) ELSE cur.val
      /\ s1.max = IF n = 0 /\ cur.val < 0 THEN 0 ELSE cur.val
    <2>1. /\ s1.n = 0 + 1 /\ s1.sum = 0 + cur.val
          /\ s1.min = Least(sect.min, cur.val)
          /\ s1.max = IF sect.max < cur.val THEN cur.val ELSE sect.max
          /\ s1.worst = IF 0 < cur.status THEN cur.status ELSE 0
        BY AddIs
    <2>2. s1.n = 1 /\ s1.sum = cur.val /\ s1.worst = cur.status
        BY <1>1, <2>1
    <2>3. CASE n = 0
        BY <1>1, <2>1, <2>2, <2>3 DEF Least
    <2>4. CASE n # 0
        BY <1>1, <2>1, <2>2, <2>4 DEF Least
    <2>. QED
        BY <2>3, <2>4
<1>3. hist1 \in Seq(Recorded) /\ n \in Nat /\ hist1[n + 1] = cur
    BY AppendIs
<1>4. SumOf(hist1, {n + 1}) = cur.val
    <2>1. SumOf(hist1, {} \cup {n + 1}) = SumOf(hist, {}) + cur.val /\ SumOf(hist, {}) = 0
        BY SumsAreOne
    <2>2. {} \cup {n + 1} = {n + 1}
        OBVIOUS
    <2>. QED
        BY <1>1, <2>1, <2>2
<1>. HIDE DEF hist1
<1>5. V1 = {cur.val} /\ W1 = {cur.status}
    BY <1>3
<1>6. Extremes(hist1, {n + 1}) = {cur.val} \cup (IF n = 0 THEN {0} ELSE {})
    <2>1. Extremes(hist1, {n + 1}) = V1 \cup (IF 1 \in {n + 1} THEN {0} ELSE {})
        BY Zenon DEF Extremes
    <2>2. (1 \in {n + 1}) <=> (n = 0)
        BY <1>3
    <2>. HIDE DEF V1
    <2>. QED
        BY <1>5, <2>1, <2>2
<1>. HIDE DEF V1, W1
<1>7. /\ IsLeast(s1.min, Extremes(hist1, {n + 1}))
      /\ IsGreatest(s1.max, Extremes(hist1, {n + 1}))
    <2>1. CASE n = 0
        <3>1. Extremes(hist1, {n + 1}) = {cur.val, 0}
            BY <1>6, <2>1
        <3>2. s1.min = Least(0, cur.val) /\ s1.max = IF cur.val < 0 THEN 0 ELSE cur.val
            BY <1>2, <2>1
        <3>. QED
            BY <1>1, <3>1, <3>2, OneOrZero
    <2>2. CASE n # 0
        <3>1. Extremes(hist1, {n + 1}) = {cur.val}
            BY <1>6, <2>2
        <3>2. s1.min = cur.val /\ s1.max = cur.val
            BY <1>2, <2>2
        <3>. QED
            BY <1>1, <3>1, <3>2, OneOrZero
    <2>. QED
        BY <2>1, <2>2
<1>8. IsGreatest(s1.worst, W1)
    BY <1>1, <1>2, <1>5 DEF IsGreatest
<1>9. Cardinality({n + 1}) = 1
    BY FS_Singleton
<1>. QED
    BY <1>2, <1>4, <1>7, <1>8, <1>9 DEF Sums, W1, hist1

LEMMA LastOfPeriod ==
    ASSUME NEW hist \in Seq(Recorded), NEW n, n = Len(hist), n # 0, NEW r
    PROVE  Max(OfPeriod(r, hist, n)) = n
<1>. DEFINE S == OfPeriod(r, hist, n)
<1>1. n \in Nat /\ n \in 1 .. n
    OBVIOUS
<1>2. S \in SUBSET (1 .. n) /\ n \in S
    BY <1>1, OfPeriodIs
<1>. HIDE DEF S
<1>3. Max(S) \in S /\ \A y \in S : y <= Max(S)
    BY <1>1, <1>2, LastIs
<1>4. PICK m : m = Max(S)
    OBVIOUS
<1>5. m \in 1 .. n /\ n <= m
    BY <1>2, <1>3, <1>4
<1>6. m = n
    BY <1>1, <1>5
<1>. QED
    BY <1>4, <1>6 DEF S

(* The header's summary is that of the last period.                          *)
LEMMA SumUpIs ==
    ASSUME NEW hist \in Seq(Recorded), NEW n, n = Len(hist), n # 0,
           NEW r, NEW sect, Sums(sect, hist, OfPeriod(r, hist, n))
    PROVE  SumUp(hist, OfPeriod(r, hist, n)) = summarize(sect, hist[n].when)
<1>. DEFINE S == OfPeriod(r, hist, n)
            W == {hist[j].status : j \in S}
<1>1. n \in Nat /\ n \in 1 .. n
    OBVIOUS
<1>2. S \in SUBSET (1 .. n) /\ n \in S
    BY <1>1, OfPeriodIs
<1>3. \A j \in 1 .. n : hist[j].val \in Int /\ hist[j].status \in Nat
    BY SamplesAre
<1>4. /\ sect.n = Cardinality(S) /\ sect.sum = SumOf(hist, S)
      /\ IsLeast(sect.min, Extremes(hist, S)) /\ IsGreatest(sect.max, Extremes(hist, S))
      /\ IsGreatest(sect.worst, W)
    BY DEF Sums
<1>. HIDE DEF S
<1>5. Max(S) = n
    BY LastOfPeriod DEF S
<1>6. Extremes(hist, S) \subseteq Int /\ W \subseteq Int
    <2>1. \A j \in S : hist[j].val \in Int /\ hist[j].status \in Int
        BY <1>2, <1>3
    <2>2. Extremes(hist, S) \subseteq Int
        BY <2>1 DEF Extremes
    <2>3. W \subseteq Int
        BY <2>1
    <2>. QED
        BY <2>2, <2>3
<1>7. Min(Extremes(hist, S)) = sect.min /\ Max(Extremes(hist, S)) = sect.max /\ Max(W) = sect.worst
    BY <1>4, <1>6, TheLeast
<1>. QED
    BY <1>4, <1>5, <1>7, Zenon DEF SumUp, summarize, S
-----------------------------------------------------------------------------
(* One ring and its section through an Add.                                  *)
(* A ring and its section are what hist makes of them.                       *)
RingOk(r, ring, sect, hist, dirty) ==
    NoDayMissed(hist) =>
        /\ Holds(ring, sect.idx, sect.count, Expected(r, hist), dirty)
        /\ r # "samples" => IF hist = <<>> THEN sect = Section
                            ELSE Sums(sect, hist, OfPeriod(r, hist, Len(hist)))

Header == IF file.h = NoHeader THEN newHeader ELSE file.h
LastAdded == added[Len(added)]

(* The oldest record of an hour or a day is overwritten only when the next   *)
(* sample will roll over, too.                                               *)
Dirty(r) ==
    /\ Unfinished
    /\ r = "samples" \/ (added # <<>> /\ Period(r, now) # Period(r, LastAdded.when))

Counted(r) ==
    \/ r = "samples" /\ wpc \in {"days", "hours", "save"}
    \/ r = "days" /\ wpc \in {"hours", "save"}
    \/ r = "hours" /\ wpc = "save"

GraphTypes ==
    /\ now \in Nat /\ added \in Seq(Recorded) /\ InOrder(added)
    /\ \A i \in 1 .. Len(added) : added[i].when <= now
    /\ wpc \in {"idle", "sample", "days", "hours", "save"}
    /\ DOMAIN file.ring = Rings /\ file = [h |-> file.h, ring |-> file.ring]
    /\ file.h = NoHeader <=> added = <<>>
    /\ Header \in Headers
    /\ added # <<>> => file.h.lastt = LastAdded.when
    /\ wpc # "idle" => mem \in Headers /\ cur \in Recorded /\ cur.when = now

GraphIInv ==
    /\ GraphTypes
    /\ \A r \in Rings : RingOk(r, file.ring[r], Header.sect[r], added, Dirty(r))
    /\ wpc # "idle" =>
          /\ mem.lastt = IF wpc = "save" THEN cur.when ELSE Header.lastt
          /\ \A r \in Rings :
                IF Counted(r) THEN RingOk(r, file.ring[r], mem.sect[r], Append(added, cur), FALSE)
                ELSE mem.sect[r] = Header.sect[r]

LEMMA NoDayMissedBefore ==
    ASSUME NEW hist \in Seq(Recorded), NEW c \in Recorded, NoDayMissed(Append(hist, c)),
           InOrder(Append(hist, c)), NEW n, n = Len(hist)
    PROVE  /\ NoDayMissed(hist)
           /\ n # 0 => /\ c.when - hist[n].when <= DAY - HOUR
                       /\ hist[n].when \in Nat /\ c.when \in Nat /\ hist[n].when <= c.when
<1>. DEFINE hist1 == Append(hist, c)
<1>1. /\ hist1 \in Seq(Recorded) /\ n \in Nat
      /\ Len(hist1) = n + 1 /\ hist1[n + 1] = c
      /\ \A j \in 1 .. n : hist1[j] = hist[j]
    BY AppendIs
<1>2. NoDayMissed(hist1) /\ InOrder(hist1)
    OBVIOUS
<1>. HIDE DEF hist1
<1>3. \A i \in 1 .. n : hist1[i + 1].when - hist1[i].when <= DAY - HOUR
    BY <1>1, <1>2 DEF NoDayMissed
<1>4. NoDayMissed(hist)
    <2>1. ASSUME NEW i \in 1 .. (Len(hist) - 1) PROVE hist[i + 1].when - hist[i].when <= DAY - HOUR
        <3>1. i \in 1 .. n /\ i + 1 \in 1 .. n
            BY <1>1
        <3>. QED
            BY <1>1, <1>3, <3>1
    <2>. QED
        BY <2>1 DEF NoDayMissed
<1>5. ASSUME n # 0 PROVE /\ c.when - hist[n].when <= DAY - HOUR
                         /\ hist[n].when \in Nat /\ c.when \in Nat /\ hist[n].when <= c.when
    <2>1. n \in 1 .. n /\ n \in 1 .. Len(hist1) /\ n + 1 \in 1 .. Len(hist1) /\ n <= n + 1
        BY <1>1, <1>5
    <2>2. hist1[n] = hist[n] /\ hist1[n + 1] = c
        BY <1>1, <2>1
    <2>3. hist1[n].when <= hist1[n + 1].when
        BY <1>2, <2>1 DEF InOrder
    <2>4. hist1[n].when \in Nat /\ hist1[n + 1].when \in Nat
        BY <1>1, <2>1, SamplesAre
    <2>. QED
        BY <1>3, <2>1, <2>2, <2>3, <2>4
<1>. QED
    BY <1>4, <1>5

LEMMA ExpectedIsSeq ==
    ASSUME NEW r \in Rings, NEW hist \in Seq(Recorded)
    PROVE  \E X : Expected(r, hist) \in Seq(X)
<1>1. CASE r = "samples"
    <2>1. Expected(r, hist) = hist
        BY <1>1 DEF Expected
    <2>. QED
        BY <2>1
<1>2. CASE r \in {"hours", "days"}
    <2>. DEFINE X == {SumUp(hist, OfPeriod(r, hist, i)) : i \in 1 .. Len(hist)}
    <2>1. \A i \in 1 .. Len(hist) : SumUp(hist, OfPeriod(r, hist, i)) \in X
        OBVIOUS
    <2>. HIDE DEF X
    <2>2. PICK f : Overs(f, r, hist, X) /\ Expected(r, hist) = f[Len(hist)]
        BY <1>2, <2>1, OversAre
    <2>3. f[Len(hist)] \in Seq(X)
        BY <2>2 DEF Overs
    <2>. QED
        BY <2>2, <2>3
<1>. QED
    BY <1>1, <1>2 DEF Rings

(* The record at the index may be overwritten.                               *)
LEMMA OverwrittenIs ==
    ASSUME NEW r \in Rings, NEW hist \in Seq(Recorded), NEW ring, NEW sect, NEW dirty,
           RingOk(r, ring, sect, hist, dirty), NEW x
    PROVE  RingOk(r, [ring EXCEPT ![sect.idx] = x], sect, hist, TRUE)
<1>. SUFFICES ASSUME NoDayMissed(hist)
     PROVE  Holds([ring EXCEPT ![sect.idx] = x], sect.idx, sect.count, Expected(r, hist), TRUE)
    BY DEF RingOk
<1>1. PICK X0 : Expected(r, hist) \in Seq(X0)
    BY ExpectedIsSeq
<1>2. PICK X : X = X0 \cup {x}
    OBVIOUS
<1>3. Expected(r, hist) \in Seq(X) /\ x \in X
    BY <1>1, <1>2
<1>4. Holds(ring, sect.idx, sect.count, Expected(r, hist), dirty)
    BY DEF RingOk
<1>. QED
    BY <1>3, <1>4, RingIs

LEMMA DirtierIs ==
    ASSUME NEW r, NEW ring, NEW sect, NEW hist, NEW d, NEW e, d => e, RingOk(r, ring, sect, hist, d)
    PROVE  RingOk(r, ring, sect, hist, e)
BY DEF RingOk, Holds

LEMMA SampleIs ==
    ASSUME NEW hist \in Seq(Recorded), cur \in Recorded, InOrder(Append(hist, cur)),
           NEW ring, NEW sect \in Sections, NEW dirty, RingOk("samples", ring, sect, hist, dirty)
    PROVE  RingOk("samples", [ring EXCEPT ![sect.idx] = cur], Written(sect), Append(hist, cur), FALSE)
<1>. SUFFICES ASSUME NoDayMissed(Append(hist, cur))
     PROVE  Holds([ring EXCEPT ![sect.idx] = cur], Written(sect).idx, Written(sect).count, Append(hist, cur), FALSE)
    BY DEF RingOk, Expected
<1>1. NoDayMissed(hist)
    BY NoDayMissedBefore
<1>2. Holds(ring, sect.idx, sect.count, hist, dirty)
    BY <1>1 DEF RingOk, Expected
<1>3. Written(sect).idx = (sect.idx + 1) % NMax /\ Written(sect).count = Least(sect.count + 1, NMax)
    BY WrittenIs
<1>. QED
    BY <1>2, <1>3, RingIs

(* A roll-over, or none, and the sample summed up.                           *)
LEMMA RollIs ==
    ASSUME NEW r \in {"hours", "days"}, NEW hist \in Seq(Recorded), cur \in Recorded,
           InOrder(Append(hist, cur)), NEW n, n = Len(hist),
           NEW ring, NEW sect \in Sections, NEW dirty, RingOk(r, ring, sect, hist, dirty),
           dirty => n # 0 /\ Period(r, hist[n].when) # Period(r, cur.when),
           NEW lastt, n # 0 => lastt = hist[n].when,
           NEW rolls \in BOOLEAN, rolls <=> NewPeriod(r, lastt, cur.when) /\ sect.n > 0,
           NEW ring1, ring1 = (IF rolls THEN [ring EXCEPT ![sect.idx] = summarize(sect, lastt)] ELSE ring),
           NEW s1, s1 = add(IF rolls THEN reset(Written(sect), cur.val) ELSE sect)
    PROVE  RingOk(r, ring1, s1, Append(hist, cur), FALSE)
<1>. DEFINE hist1 == Append(hist, cur)
            S == OfPeriod(r, hist, n)
<1>. SUFFICES ASSUME NoDayMissed(hist1)
     PROVE  /\ Holds(ring1, s1.idx, s1.count, Expected(r, hist1), FALSE)
            /\ Sums(s1, hist1, OfPeriod(r, hist1, n + 1))
    BY AppendIs DEF RingOk
<1>1. /\ NoDayMissed(hist)
      /\ n # 0 => /\ cur.when - hist[n].when <= DAY - HOUR
                  /\ hist[n].when \in Nat /\ cur.when \in Nat /\ hist[n].when <= cur.when
    BY NoDayMissedBefore
<1>2. /\ Holds(ring, sect.idx, sect.count, Expected(r, hist), dirty)
      /\ IF n = 0 THEN sect = Section ELSE Sums(sect, hist, S)
    <2>1. (hist = <<>>) <=> (n = 0)
        OBVIOUS
    <2>2. r # "samples"
        OBVIOUS
    <2>. QED
        BY <1>1, <2>1, <2>2 DEF RingOk
<1>3. PICK X : /\ Expected(r, hist) \in Seq(X)
               /\ n # 0 => SumUp(hist, S) \in X
               /\ Expected(r, hist1) =
                     IF n = 0 \/ Period(r, hist[n].when) = Period(r, cur.when) THEN Expected(r, hist)
                     ELSE Append(Expected(r, hist), SumUp(hist, S))
    <2>1. Grows(r, hist, cur, n)
        BY ExpectedGrows
    <2>. QED
        BY <2>1, Zenon DEF Grows
<1>4. hist1 \in Seq(Recorded) /\ n \in Nat /\ Len(hist1) = n + 1 /\ hist1[n + 1] = cur
    BY AppendIs
<1>5. n # 0 => S \in SUBSET (1 .. n) /\ n \in S
    <2>1. n # 0 => n \in 1 .. Len(hist)
        BY <1>4
    <2>. QED
        BY <2>1, OfPeriodIs
<1>. HIDE DEF S, hist1
<1>6. CASE n = 0
    <2>1. sect = Section
        BY <1>2, <1>6
    <2>2. sect.n = 0 /\ sect.sum = 0 /\ sect.worst = 0 /\ sect.min = 0 /\ sect.max = 0 /\ sect.count = 0
        BY <2>1 DEF Section
    <2>3. ~rolls
        BY <2>2
    <2>4. s1 = add(sect) /\ ring1 = ring
        BY <2>3
    <2>5. Sums(s1, hist1, {n + 1})
        BY <1>6, <2>2, <2>4, SumsOne DEF hist1
    <2>6. OfPeriod(r, hist1, n + 1) = {n + 1}
        <3>1. DOMAIN hist1 = {n + 1}
            BY <1>4, <1>6
        <3>. QED
            BY <3>1 DEF OfPeriod
    <2>7. s1.idx = sect.idx /\ s1.count = sect.count
        BY <2>4, AddIs
    <2>8. Expected(r, hist1) = Expected(r, hist)
        BY <1>3, <1>6
    <2>9. Holds(ring, sect.idx, sect.count, Expected(r, hist), FALSE)
        BY <1>2, <1>6 DEF Holds
    <2>. QED
        BY <2>4, <2>5, <2>6, <2>7, <2>8, <2>9
<1>7. CASE n # 0
    <2>1. Sums(sect, hist, S) /\ lastt = hist[n].when
        BY <1>2, <1>7
    <2>2. sect.n > 0
        <3>1. sect.n = Cardinality(S)
            BY <2>1 DEF Sums
        <3>2. IsFiniteSet(1 .. n)
            BY <1>4, FS_Interval
        <3>3. IsFiniteSet(S)
            BY <1>5, <1>7, <3>2, FS_Subset
        <3>4. Cardinality(S) \in Nat /\ (Cardinality(S) = 0 <=> S = {})
            BY <3>3, FS_CardinalityType, FS_EmptySet
        <3>. QED
            BY <1>5, <1>7, <3>1, <3>4
    <2>3. rolls <=> Period(r, hist[n].when) # Period(r, cur.when)
        <3>1. NewPeriod(r, lastt, cur.when) <=> Period(r, hist[n].when) # Period(r, cur.when)
            BY <1>1, <1>7, <2>1, PeriodsAre
        <3>. QED
            BY <2>2, <3>1
    <2>4. /\ Period(r, hist[n].when) = Period(r, cur.when) => OfPeriod(r, hist1, n + 1) = S \cup {n + 1}
          /\ Period(r, hist[n].when) # Period(r, cur.when) => OfPeriod(r, hist1, n + 1) = {n + 1}
        <3>1. PICK c : c = cur /\ c \in Recorded /\ InOrder(Append(hist, c))
            OBVIOUS
        <3>2. /\ Period(r, hist[n].when) = Period(r, c.when) =>
                    OfPeriod(r, Append(hist, c), n + 1) = OfPeriod(r, hist, n) \cup {n + 1}
              /\ Period(r, hist[n].when) # Period(r, c.when) =>
                    OfPeriod(r, Append(hist, c), n + 1) = {n + 1}
            BY <1>7, <3>1, PeriodGrows
        <3>. QED
            BY <3>1, <3>2 DEF hist1, S
    <2>5. CASE rolls
        <3>1. Period(r, hist[n].when) # Period(r, cur.when)
            BY <2>3, <2>5
        <3>2. summarize(sect, lastt) = SumUp(hist, S)
            BY <1>7, <2>1, SumUpIs DEF S
        <3>3. PICK x \in X : x = SumUp(hist, S)
            BY <1>3, <1>7
        <3>4. ring1 = [ring EXCEPT ![sect.idx] = x]
            BY <2>5, <3>2, <3>3
        <3>5. PICK z : z = reset(Written(sect), cur.val)
            OBVIOUS
        <3>6. /\ z \in Sections /\ z.idx = (sect.idx + 1) % NMax /\ z.count = Least(sect.count + 1, NMax)
              /\ z.n = 0 /\ z.sum = 0 /\ z.min = cur.val /\ z.max = cur.val /\ z.worst = 0
            BY <3>5, BegunIs
        <3>7. s1 = add(z)
            BY <2>5, <3>5
        <3>8. s1.idx = z.idx /\ s1.count = z.count
            BY <3>6, <3>7, AddIs
        <3>9. Sums(s1, hist1, {n + 1})
            BY <1>7, <3>6, <3>7, SumsOne DEF hist1
        <3>10. Expected(r, hist1) = Append(Expected(r, hist), x)
            BY <1>3, <1>7, <3>1, <3>3
        <3>11. Holds(ring1, z.idx, z.count, Append(Expected(r, hist), x), FALSE)
            <4>1. PICK E, i, k : E = Expected(r, hist) /\ i = sect.idx /\ k = sect.count
                OBVIOUS
            <4>2. E \in Seq(X) /\ Holds(ring, i, k, E, dirty)
                BY <1>2, <1>3, <4>1
            <4>3. Holds([ring EXCEPT ![i] = x], (i + 1) % NMax, Least(k + 1, NMax), Append(E, x), FALSE)
                BY <4>2, RingIs
            <4>. QED
                BY <3>4, <3>6, <4>1, <4>3
        <3>. QED
            BY <2>4, <3>1, <3>8, <3>9, <3>10, <3>11
    <2>6. CASE ~rolls
        <3>1. Period(r, hist[n].when) = Period(r, cur.when)
            BY <2>3, <2>6
        <3>2. s1 = add(sect) /\ ring1 = ring
            BY <2>6
        <3>3. s1.idx = sect.idx /\ s1.count = sect.count
            BY <3>2, AddIs
        <3>4. Sums(s1, hist1, S \cup {n + 1})
            BY <1>5, <1>7, <2>1, <3>2, SumsMore DEF hist1
        <3>5. Expected(r, hist1) = Expected(r, hist)
            BY <1>3, <3>1
        <3>6. Holds(ring, sect.idx, sect.count, Expected(r, hist), FALSE)
            BY <1>2, <1>7, <3>1 DEF Holds
        <3>. QED
            BY <2>4, <3>1, <3>2, <3>3, <3>4, <3>5, <3>6
    <2>. QED
        BY <2>5, <2>6
<1>. QED
    BY <1>6, <1>7
-----------------------------------------------------------------------------
(* The file and the header, written in one place.                            *)
LEMMA FileUpdate ==
    ASSUME NEW f, f = [h |-> f.h, ring |-> f.ring], DOMAIN f.ring = Rings,
           NEW r \in Rings, NEW i, NEW x, NEW g, g = [f EXCEPT !.ring[r][i] = x]
    PROVE  /\ g = [h |-> g.h, ring |-> g.ring] /\ g.h = f.h /\ DOMAIN g.ring = Rings
           /\ g.ring[r] = [f.ring[r] EXCEPT ![i] = x]
           /\ \A q \in Rings : q # r => g.ring[q] = f.ring[q]
<1>1. PICK R, h : R = f.ring /\ h = f.h
    OBVIOUS
<1>2. f = [h |-> h, ring |-> R] /\ DOMAIN R = Rings
    BY <1>1
<1>3. g = [h |-> h, ring |-> [R EXCEPT ![r] = [R[r] EXCEPT ![i] = x]]]
    BY <1>2
<1>. QED
    BY <1>1, <1>2, <1>3

LEMMA SectUpdate ==
    ASSUME NEW R \in [Rings -> Sections], NEW r \in Rings, NEW s \in Sections
    PROVE  /\ [R EXCEPT ![r] = s] \in [Rings -> Sections] /\ [R EXCEPT ![r] = s][r] = s
           /\ \A q \in Rings : q # r => [R EXCEPT ![r] = s][q] = R[q]
OBVIOUS

LEMMA HeaderIs ==
    /\ newHeader \in Headers /\ newHeader.lastt = 0 /\ \A r \in Rings : newHeader.sect[r] = Section
    /\ \A m \in Headers : m # NoHeader /\ m.lastt \in Nat /\ \A r \in Rings : m.sect[r] \in Sections
<1>1. NMax \in Nat \ {0}
    BY GraphAssumption
<1>2. Section \in Sections
    BY <1>1 DEF Section, Sections
<1>3. newHeader \in Headers /\ newHeader.lastt = 0 /\ \A r \in Rings : newHeader.sect[r] = Section
    BY <1>2 DEF newHeader, Headers
<1>4. ASSUME NEW m \in Headers PROVE m # NoHeader /\ m.lastt \in Nat /\ \A r \in Rings : m.sect[r] \in Sections
    <2>1. m.lastt \in Nat /\ \A r \in Rings : m.sect[r] \in Sections
        BY DEF Headers
    <2>2. NoHeader.lastt = -1
        BY DEF NoHeader
    <2>. QED
        BY <2>1, <2>2
<1>. QED
    BY <1>3, <1>4

LEMMA NothingExpected ==
    ASSUME NEW r \in Rings PROVE Expected(r, <<>>) = <<>>
<1>1. CASE r = "samples"
    BY <1>1 DEF Expected
<1>2. CASE r \in {"hours", "days"}
    <2>. <<>> \in Seq(Recorded) /\ Len(<<>>) = 0
        OBVIOUS
    <2>1. PICK hist : hist = <<>>
        OBVIOUS
    <2>. hist \in Seq(Recorded) /\ Len(hist) = 0
        BY <2>1
    <2>2. \A i \in 1 .. Len(hist) : SumUp(hist, OfPeriod(r, hist, i)) \in {}
        BY <2>1
    <2>3. PICK f : Overs(f, r, hist, {}) /\ Expected(r, hist) = f[Len(hist)]
        BY <1>2, <2>1, <2>2, OversAre
    <2>. QED
        BY <2>1, <2>3 DEF Overs
<1>. QED
    BY <1>1, <1>2 DEF Rings

(* Without a sample nothing is in a ring.                                    *)
LEMMA NothingIs ==
    ASSUME NEW r \in Rings, NEW ring, ring = [k \in 0 .. NMax - 1 |-> Zero], NEW dirty
    PROVE  RingOk(r, ring, Section, <<>>, dirty)
<1>1. NMax \in Nat \ {0}
    BY GraphAssumption
<1>2. Expected(r, <<>>) = <<>>
    BY NothingExpected
<1>3. Section.idx = 0 /\ Section.count = 0
    BY DEF Section
<1>. QED
    BY <1>1, <1>2, <1>3 DEF RingOk, Holds, Least

LEMMA GraphInitIInv == GraphInit => GraphIInv
<1>. SUFFICES ASSUME GraphInit PROVE GraphIInv
    OBVIOUS
<1>1. file = Empty /\ added = <<>> /\ wpc = "idle" /\ now = DAY
    BY DEF GraphInit
<1>2. /\ file = [h |-> file.h, ring |-> file.ring] /\ file.h = NoHeader /\ DOMAIN file.ring = Rings
      /\ \A r \in Rings : file.ring[r] = [k \in 0 .. NMax - 1 |-> Zero]
    BY <1>1 DEF Empty
<1>3. Header = newHeader
    BY <1>2 DEF Header
<1>4. now \in Nat /\ added \in Seq(Recorded) /\ InOrder(added) /\ Len(added) = 0
    BY <1>1, GraphAssumption DEF InOrder
<1>5. GraphTypes
    BY <1>1, <1>2, <1>3, <1>4, HeaderIs DEF GraphTypes
<1>6. \A r \in Rings : RingOk(r, file.ring[r], Header.sect[r], added, Dirty(r))
    BY <1>1, <1>2, <1>3, HeaderIs, NothingIs
<1>. QED
    BY <1>1, <1>5, <1>6 DEF GraphIInv

(* Readers change nothing of a file.                                         *)
LEMMA ReadersKeep ==
    ASSUME GraphIInv, UNCHANGED <<file, mem, wpc, cur, now, added, torn>>
    PROVE  GraphIInv'
<1>1. Header' = Header /\ (\A r : Dirty(r)' = Dirty(r)) /\ (\A r : Counted(r)' = Counted(r))
    BY DEF Header, Dirty, Unfinished, LastAdded, Counted
<1>2. GraphTypes'
    BY <1>1 DEF GraphIInv, GraphTypes, LastAdded
<1>. QED
    BY <1>1, <1>2 DEF GraphIInv

(* What is dirty stays so while time goes on.                                *)
LEMMA DirtyStays ==
    ASSUME GraphTypes, NEW r \in Rings, Dirty(r), now' \in Nat, now <= now', added' = added, Unfinished'
    PROVE  Dirty(r)'
<1>1. CASE r = "samples"
    BY <1>1 DEF Dirty
<1>2. CASE r \in {"hours", "days"}
    <2>. added # <<>>
        BY <1>2 DEF Dirty
    <2>1. Len(added) \in 1 .. Len(added) /\ now \in Nat
        BY <1>2 DEF GraphTypes
    <2>2. LastAdded.when \in Nat /\ LastAdded.when <= now
        BY <2>1, SamplesAre DEF GraphTypes, LastAdded
    <2>3. Period(r, now) # Period(r, LastAdded.when)
        BY <1>2 DEF Dirty
    <2>4. /\ Period(r, LastAdded.when) \in Nat /\ Period(r, now) \in Nat /\ Period(r, now') \in Nat
          /\ Period(r, LastAdded.when) <= Period(r, now) /\ Period(r, now) <= Period(r, now')
        BY <1>2, <2>1, <2>2, PeriodsAre
    <2>5. Period(r, now') # Period(r, LastAdded.when)
        BY <2>3, <2>4
    <2>. QED
        BY <2>5 DEF Dirty, LastAdded
<1>. QED
    BY <1>1, <1>2 DEF Rings

LEMMA AddOpenKeeps ==
    ASSUME GraphIInv, NEW s \in Samples, NEW dt \in Gaps, AddOpen(s, dt)
    PROVE  GraphIInv'
<1>1. /\ wpc = "idle" /\ wpc' = "sample" /\ now' = now + dt /\ UNCHANGED <<added, torn>>
      /\ cur' = [when |-> now', val |-> s.val, status |-> StoredAs(s.status)]
      /\ file' = IF file.h = NoHeader THEN Empty ELSE file
      /\ mem' = IF file.h = NoHeader THEN newHeader ELSE file.h
    BY DEF AddOpen
<1>2. GraphTypes
    BY DEF GraphIInv
<1>3. dt \in Nat /\ s.val \in Int /\ s.status \in Nat
    BY GraphAssumption
<1>4. now' \in Nat /\ now <= now' /\ cur' \in Recorded /\ cur'.when = now'
    <2>1. now \in Nat
        BY <1>2 DEF GraphTypes
    <2>2. now + dt \in Nat /\ now <= now + dt
        BY <1>3, <2>1
    <2>3. StoredAs(s.status) \in Nat
        BY <1>3 DEF StoredAs, CLEAR
    <2>. QED
        BY <1>1, <1>3, <2>2, <2>3 DEF Recorded
<1>5. /\ file' = [h |-> file'.h, ring |-> file'.ring] /\ DOMAIN file'.ring = Rings
      /\ file'.h = file.h
      /\ file.h = NoHeader => \A r \in Rings : file'.ring[r] = [k \in 0 .. NMax - 1 |-> Zero]
      /\ file.h # NoHeader => file' = file
    <2>1. Empty.h = NoHeader /\ Empty = [h |-> Empty.h, ring |-> Empty.ring] /\ DOMAIN Empty.ring = Rings
          /\ \A r \in Rings : Empty.ring[r] = [k \in 0 .. NMax - 1 |-> Zero]
        BY DEF Empty
    <2>. QED
        BY <1>1, <1>2, <2>1 DEF GraphTypes
<1>6. Header' = Header /\ mem' = Header
    BY <1>1, <1>5 DEF Header
<1>7. GraphTypes'
    <2>1. \A i \in 1 .. Len(added) : added[i].when <= now'
        <3>1. \A i \in 1 .. Len(added) : added[i].when \in Nat /\ added[i].when <= now
            BY <1>2, SamplesAre DEF GraphTypes
        <3>2. now \in Nat
            BY <1>2 DEF GraphTypes
        <3>. QED
            BY <1>4, <3>1, <3>2
    <2>. QED
        BY <1>1, <1>2, <1>4, <1>5, <1>6, <2>1 DEF GraphTypes, LastAdded
<1>8. ASSUME NEW r \in Rings PROVE RingOk(r, file'.ring[r], Header.sect[r], added, Dirty(r)')
    <2>1. CASE file.h = NoHeader
        <3>1. added = <<>> /\ Header = newHeader
            BY <1>2, <2>1 DEF GraphTypes, Header
        <3>2. file'.ring[r] = [k \in 0 .. NMax - 1 |-> Zero]
            BY <1>5, <2>1
        <3>. QED
            BY <3>1, <3>2, HeaderIs, NothingIs
    <2>2. CASE file.h # NoHeader
        <3>1. RingOk(r, file'.ring[r], Header.sect[r], added, Dirty(r))
            BY <1>5, <2>2 DEF GraphIInv
        <3>2. Dirty(r) => Dirty(r)'
            <4>1. Dirty(r) => torn
                BY <1>1 DEF Dirty, Unfinished
            <4>2. torn => Unfinished'
                BY <1>1 DEF Unfinished
            <4>. QED
                BY <1>1, <1>2, <1>4, <4>1, <4>2, DirtyStays
        <3>. QED
            BY <3>1, <3>2, DirtierIs
    <2>. QED
        BY <2>1, <2>2
<1>9. ~Counted("samples")' /\ ~Counted("days")' /\ ~Counted("hours")'
    BY <1>1 DEF Counted
<1>10. \A r \in Rings : ~Counted(r)'
    BY <1>9 DEF Rings
<1>. QED
    BY <1>1, <1>6, <1>7, <1>8, <1>10 DEF GraphIInv

(* The last sample and the one that is added.                                *)
LEMMA NextInOrder ==
    ASSUME GraphTypes, wpc # "idle"
    PROVE  /\ Append(added, cur) \in Seq(Recorded) /\ InOrder(Append(added, cur))
           /\ \A i \in 1 .. Len(Append(added, cur)) : Append(added, cur)[i].when <= now
<1>. DEFINE n == Len(added)
            hist1 == Append(added, cur)
<1>1. added \in Seq(Recorded) /\ cur \in Recorded /\ cur.when = now /\ now \in Nat
    BY DEF GraphTypes
<1>2. /\ hist1 \in Seq(Recorded) /\ n \in Nat
      /\ Len(hist1) = n + 1 /\ hist1[n + 1] = cur
      /\ \A j \in 1 .. n : hist1[j] = added[j]
    BY <1>1, AppendIs
<1>. HIDE DEF hist1, n
<1>3. \A j \in 1 .. n : added[j].when <= now
    BY DEF GraphTypes, n
<1>4. \A j \in 1 .. n + 1 : hist1[j].when <= now
    <2>1. \A j \in 1 .. n + 1 : j \in 1 .. n \/ j = n + 1
        BY <1>2
    <2>. QED
        BY <1>1, <1>2, <1>3, <2>1
<1>5. ASSUME NEW i \in 1 .. n + 1, NEW j \in 1 .. n + 1, i <= j PROVE hist1[i].when <= hist1[j].when
    <2>1. CASE j = n + 1
        BY <1>1, <1>2, <1>4, <2>1
    <2>2. CASE j # n + 1
        <3>1. i \in 1 .. n /\ j \in 1 .. n
            BY <1>2, <1>5, <2>2
        <3>2. added[i].when <= added[j].when
            BY <1>5, <3>1 DEF GraphTypes, InOrder, n
        <3>. QED
            BY <1>2, <3>1, <3>2
    <2>. QED
        BY <2>1, <2>2
<1>. QED
    BY <1>2, <1>4, <1>5 DEF InOrder, hist1
LEMMA AddSampleKeeps == GraphIInv /\ AddSample => GraphIInv'
<1>. SUFFICES ASSUME GraphIInv, AddSample PROVE GraphIInv'
    OBVIOUS
<1>. DEFINE r0 == "samples"
            i == mem.sect["samples"].idx
<1>1. /\ wpc = "sample" /\ wpc' = "days" /\ UNCHANGED <<cur, now, added, torn>>
      /\ file' = [file EXCEPT !.ring["samples"][i] = cur]
      /\ mem' = [mem EXCEPT !.sect["samples"] = Written(@)]
    BY DEF AddSample
<1>2. GraphTypes /\ "samples" \in Rings
    BY DEF GraphIInv, Rings
<1>3. /\ file = [h |-> file.h, ring |-> file.ring] /\ DOMAIN file.ring = Rings
      /\ mem \in Headers /\ cur \in Recorded /\ cur.when = now
      /\ added \in Seq(Recorded) /\ Header \in Headers
    BY <1>1, <1>2 DEF GraphTypes
<1>4. \A r \in Rings : ~Counted(r) /\ mem.sect[r] = Header.sect[r]
    <2>1. \A r \in Rings : ~Counted(r)
        BY <1>1 DEF Counted
    <2>. QED
        BY <1>1, <2>1 DEF GraphIInv
<1>5. mem.lastt = Header.lastt /\ mem.lastt \in Nat
    BY <1>1, <1>3, HeaderIs DEF GraphIInv
<1>6. /\ file' = [h |-> file'.h, ring |-> file'.ring] /\ DOMAIN file'.ring = Rings
      /\ file'.h = file.h /\ file'.ring["samples"] = [file.ring["samples"] EXCEPT ![i] = cur]
      /\ \A q \in Rings : q # "samples" => file'.ring[q] = file.ring[q]
    <2>. HIDE DEF i
    <2>. QED
        BY <1>1, <1>2, <1>3, FileUpdate
<1>7. PICK w : w = Written(mem.sect["samples"])
    OBVIOUS
<1>8. mem.sect["samples"] \in Sections /\ w \in Sections
    <2>1. mem.sect["samples"] \in Sections
        BY <1>2, <1>3, HeaderIs
    <2>. QED
        BY <1>7, <2>1, WrittenIs
<1>9. /\ mem' \in Headers /\ mem'.lastt = mem.lastt /\ mem'.sect["samples"] = w
      /\ \A q \in Rings : q # "samples" => mem'.sect[q] = mem.sect[q]
    <2>1. PICK R : R = mem.sect
        OBVIOUS
    <2>2. mem = [lastt |-> mem.lastt, sect |-> R] /\ R \in [Rings -> Sections]
        BY <1>3, <2>1 DEF Headers
    <2>3. mem' = [lastt |-> mem.lastt, sect |-> [R EXCEPT !["samples"] = w]]
        BY <1>1, <1>7, <2>2
    <2>4. /\ [R EXCEPT !["samples"] = w] \in [Rings -> Sections] /\ [R EXCEPT !["samples"] = w]["samples"] = w
          /\ \A q \in Rings : q # "samples" => [R EXCEPT !["samples"] = w][q] = R[q]
        BY <1>2, <1>8, <2>2, SectUpdate
    <2>. QED
        BY <1>5, <2>1, <2>3, <2>4 DEF Headers
<1>10. Header' = Header /\ LastAdded' = LastAdded
    BY <1>1, <1>6 DEF Header, LastAdded
<1>11. GraphTypes'
    BY <1>1, <1>2, <1>6, <1>9, <1>10 DEF GraphTypes
<1>12. Unfinished' /\ now' \in Nat /\ now <= now'
    BY <1>1, <1>2 DEF Unfinished, GraphTypes
<1>13. ASSUME NEW r \in Rings PROVE RingOk(r, file'.ring[r], Header.sect[r], added, Dirty(r)')
    <2>1. RingOk(r, file.ring[r], Header.sect[r], added, Dirty(r))
        BY DEF GraphIInv
    <2>2. CASE r = "samples"
        <3>1. PICK sect : sect = Header.sect[r] /\ sect.idx = i
            BY <1>2, <1>4, <2>2
        <3>2. RingOk(r, [file.ring[r] EXCEPT ![sect.idx] = cur], sect, added, TRUE)
            BY <1>3, <2>1, <3>1, OverwrittenIs
        <3>3. Dirty(r)'
            BY <1>12, <2>2 DEF Dirty
        <3>. QED
            BY <1>6, <2>2, <3>1, <3>2, <3>3, DirtierIs
    <2>3. CASE r # "samples"
        <3>1. Dirty(r) => Dirty(r)'
            BY <1>1, <1>2, <1>12, DirtyStays
        <3>2. file'.ring[r] = file.ring[r]
            BY <1>6, <2>3
        <3>. QED
            BY <2>1, <3>1, <3>2, DirtierIs
    <2>. QED
        BY <2>2, <2>3
<1>14. RingOk("samples", file'.ring["samples"], mem'.sect["samples"], Append(added, cur), FALSE)
    <2>1. RingOk("samples", file.ring["samples"], Header.sect["samples"], added, Dirty("samples"))
        BY <1>2 DEF GraphIInv
    <2>2. PICK sect, ring, d : /\ sect = mem.sect["samples"] /\ ring = file.ring["samples"]
                               /\ d = Dirty("samples")
        OBVIOUS
    <2>3. sect \in Sections /\ RingOk("samples", ring, sect, added, d)
        BY <1>2, <1>4, <1>8, <2>1, <2>2
    <2>4. InOrder(Append(added, cur))
        BY <1>1, <1>2, NextInOrder
    <2>5. RingOk("samples", [ring EXCEPT ![sect.idx] = cur], Written(sect), Append(added, cur), FALSE)
        BY <1>3, <2>3, <2>4, SampleIs
    <2>. QED
        BY <1>6, <1>7, <1>9, <2>2, <2>5
<1>15. Counted("samples")' /\ \A r \in Rings : r # "samples" => ~Counted(r)'
    BY <1>1 DEF Counted
<1>16. \A r \in Rings : IF Counted(r)' THEN RingOk(r, file'.ring[r], mem'.sect[r], Append(added, cur), FALSE)
                        ELSE mem'.sect[r] = Header.sect[r]
    BY <1>4, <1>9, <1>14, <1>15
<1>. QED
    BY <1>1, <1>5, <1>9, <1>10, <1>11, <1>13, <1>16 DEF GraphIInv

LEMMA RollKeeps ==
    ASSUME GraphIInv, NEW r \in {"hours", "days"}, NEW next,
           r = "days" => next = "hours", r = "hours" => next = "save", Roll(r, next)
    PROVE  GraphIInv'
<1>. DEFINE i == mem.sect[r].idx
            sum == summarize(mem.sect[r], mem.lastt)
<1>1. /\ wpc = r /\ wpc' = next /\ UNCHANGED <<cur, now, added, torn>>
      /\ file' = IF Rolls(r) THEN [file EXCEPT !.ring[r][i] = sum] ELSE file
      /\ mem' = [mem EXCEPT !.sect[r] = add(IF Rolls(r) THEN reset(Written(mem.sect[r]), cur.val) ELSE mem.sect[r]),
                            !.lastt = IF next = "save" THEN cur.when ELSE @]
    BY DEF Roll
<1>2. GraphTypes /\ r \in Rings
    BY DEF GraphIInv, Rings
<1>3. /\ file = [h |-> file.h, ring |-> file.ring] /\ DOMAIN file.ring = Rings
      /\ mem \in Headers /\ cur \in Recorded /\ cur.when = now
      /\ added \in Seq(Recorded) /\ Header \in Headers
    BY <1>1, <1>2 DEF GraphTypes
<1>4. ~Counted(r) /\ mem.sect[r] = Header.sect[r] /\ mem.sect[r] \in Sections
    <2>1. ~Counted(r)
        BY <1>1 DEF Counted
    <2>. QED
        BY <1>1, <1>2, <1>3, <2>1, HeaderIs DEF GraphIInv
<1>5. mem.lastt = Header.lastt /\ mem.lastt \in Nat
    BY <1>1, <1>3, HeaderIs DEF GraphIInv
<1>. HIDE DEF i, sum
<1>6. /\ file' = [h |-> file'.h, ring |-> file'.ring] /\ DOMAIN file'.ring = Rings
      /\ file'.h = file.h
      /\ file'.ring[r] = IF Rolls(r) THEN [file.ring[r] EXCEPT ![i] = sum] ELSE file.ring[r]
      /\ \A q \in Rings : q # r => file'.ring[q] = file.ring[q]
    <2>1. CASE Rolls(r)
        <3>1. file' = [file EXCEPT !.ring[r][i] = sum]
            BY <1>1, <2>1
        <3>. QED
            BY <1>2, <1>3, <2>1, <3>1, FileUpdate
    <2>2. CASE ~Rolls(r)
        BY <1>1, <1>3, <2>2
    <2>. QED
        BY <2>1, <2>2
<1>7. PICK s1 : s1 = add(IF Rolls(r) THEN reset(Written(mem.sect[r]), cur.val) ELSE mem.sect[r])
    OBVIOUS
<1>8. s1 \in Sections
    <2>1. CASE Rolls(r)
        <3>1. PICK z : z = reset(Written(mem.sect[r]), cur.val)
            OBVIOUS
        <3>2. z \in Sections
            BY <1>3, <1>4, <3>1, BegunIs
        <3>. QED
            BY <1>3, <1>7, <2>1, <3>1, <3>2, AddIs
    <2>2. CASE ~Rolls(r)
        <3>1. s1 = add(mem.sect[r])
            BY <1>7, <2>2
        <3>. QED
            BY <1>3, <1>4, <3>1, AddIs
    <2>. QED
        BY <2>1, <2>2
<1>9. PICK t : t = (IF next = "save" THEN cur.when ELSE mem.lastt) /\ t \in Nat
    <2>1. cur.when \in Nat
        BY <1>3 DEF Recorded
    <2>. QED
        BY <1>5, <2>1
<1>10. /\ mem' \in Headers /\ mem'.lastt = t /\ mem'.sect[r] = s1
       /\ \A q \in Rings : q # r => mem'.sect[q] = mem.sect[q]
    <2>1. PICK R : R = mem.sect
        OBVIOUS
    <2>2. mem = [lastt |-> mem.lastt, sect |-> R] /\ R \in [Rings -> Sections]
        BY <1>3, <2>1 DEF Headers
    <2>3. mem' = [lastt |-> t, sect |-> [R EXCEPT ![r] = s1]]
        <3>1. mem' = [mem EXCEPT !.sect[r] = s1, !.lastt = t]
            <4>1. mem = [lastt |-> mem.lastt, sect |-> mem.sect]
                BY <1>3 DEF Headers
            <4>. QED
                BY <1>1, <1>7, <1>9, <4>1
        <3>2. PICK l : l = mem.lastt
            OBVIOUS
        <3>3. mem = [lastt |-> l, sect |-> R]
            BY <2>2, <3>2
        <3>. QED
            BY <3>1, <3>3
    <2>4. /\ [R EXCEPT ![r] = s1] \in [Rings -> Sections] /\ [R EXCEPT ![r] = s1][r] = s1
          /\ \A q \in Rings : q # r => [R EXCEPT ![r] = s1][q] = R[q]
        BY <1>2, <1>8, <2>2, SectUpdate
    <2>. QED
        BY <1>9, <2>1, <2>3, <2>4 DEF Headers
<1>11. Header' = Header /\ LastAdded' = LastAdded
    BY <1>1, <1>6 DEF Header, LastAdded
<1>12. GraphTypes'
    <2>1. wpc' \in {"idle", "sample", "days", "hours", "save"}
        BY <1>1
    <2>. QED
        BY <1>1, <1>2, <1>6, <1>10, <1>11, <2>1 DEF GraphTypes
<1>13. Unfinished' /\ Unfinished /\ now' \in Nat /\ now <= now'
    BY <1>1, <1>2 DEF Unfinished, GraphTypes
<1>14. added # <<>> => mem.lastt = LastAdded.when /\ LastAdded.when \in Nat /\ LastAdded.when <= now
    <2>. SUFFICES ASSUME added # <<>> PROVE mem.lastt = LastAdded.when /\ LastAdded.when \in Nat /\ LastAdded.when <= now
        OBVIOUS
    <2>1. Len(added) \in 1 .. Len(added)
        BY <1>3
    <2>2. Header = file.h
        BY <1>2 DEF GraphTypes, Header
    <2>. QED
        BY <1>2, <1>3, <1>5, <2>1, <2>2, SamplesAre DEF GraphTypes, LastAdded
<1>15. Rolls(r) => added # <<>> /\ Period(r, now) # Period(r, LastAdded.when)
    <2>1. now \in Nat
        BY <1>2 DEF GraphTypes
    <2>2. added = <<>> => ~Rolls(r)
        <3>1. RingOk(r, file.ring[r], Header.sect[r], added, Dirty(r))
            BY <1>2 DEF GraphIInv
        <3>2. NoDayMissed(<<>>)
            BY DEF NoDayMissed
        <3>3. added = <<>> => mem.sect[r] = Section
            BY <1>4, <3>1, <3>2 DEF RingOk
        <3>4. Section.n = 0
            BY DEF Section
        <3>. QED
            BY <3>3, <3>4 DEF Rolls
    <2>. QED
        BY <1>3, <1>14, <2>1, <2>2, PeriodsAre DEF Rolls
<1>16. ASSUME NEW q \in Rings PROVE RingOk(q, file'.ring[q], Header.sect[q], added, Dirty(q)')
    <2>1. RingOk(q, file.ring[q], Header.sect[q], added, Dirty(q))
        BY DEF GraphIInv
    <2>2. CASE q = r /\ Rolls(r)
        <3>1. PICK sect : sect = Header.sect[r] /\ sect.idx = i
            BY <1>4 DEF i
        <3>2. RingOk(r, [file.ring[r] EXCEPT ![sect.idx] = sum], sect, added, TRUE)
            BY <1>2, <1>3, <2>1, <2>2, <3>1, OverwrittenIs
        <3>3. Dirty(r)'
            BY <1>1, <1>11, <1>13, <1>15, <2>2 DEF Dirty
        <3>. QED
            BY <1>6, <2>2, <3>1, <3>2, <3>3, DirtierIs
    <2>3. CASE ~(q = r /\ Rolls(r))
        <3>1. Dirty(q) => Dirty(q)'
            BY <1>1, <1>2, <1>13, DirtyStays
        <3>2. file'.ring[q] = file.ring[q]
            BY <1>6, <2>3
        <3>. QED
            BY <2>1, <3>1, <3>2, DirtierIs
    <2>. QED
        BY <2>2, <2>3
<1>17. RingOk(r, file'.ring[r], mem'.sect[r], Append(added, cur), FALSE)
    <2>1. RingOk(r, file.ring[r], Header.sect[r], added, Dirty(r))
        BY <1>2 DEF GraphIInv
    <2>2. PICK sect, ring, d, n, lastt :
             /\ sect = mem.sect[r] /\ ring = file.ring[r] /\ d = Dirty(r)
             /\ n = Len(added) /\ lastt = mem.lastt
        OBVIOUS
    <2>3. sect \in Sections /\ RingOk(r, ring, sect, added, d)
        BY <1>4, <2>1, <2>2
    <2>4. InOrder(Append(added, cur))
        BY <1>1, <1>2, NextInOrder
    <2>5. (n # 0) <=> (added # <<>>)
        BY <1>3, <2>2
    <2>6. /\ d => n # 0 /\ Period(r, added[n].when) # Period(r, cur.when)
          /\ n # 0 => lastt = added[n].when
        BY <1>3, <1>14, <2>2, <2>5 DEF Dirty, LastAdded
    <2>7. PICK rolls \in BOOLEAN : rolls <=> Rolls(r)
        OBVIOUS
    <2>8. rolls <=> NewPeriod(r, lastt, cur.when) /\ sect.n > 0
        BY <2>2, <2>7 DEF Rolls
    <2>9. PICK ring1 : ring1 = IF rolls THEN [ring EXCEPT ![sect.idx] = summarize(sect, lastt)] ELSE ring
        OBVIOUS
    <2>10. s1 = add(IF rolls THEN reset(Written(sect), cur.val) ELSE sect)
        BY <1>7, <2>2, <2>7
    <2>11. RingOk(r, ring1, s1, Append(added, cur), FALSE)
        BY <1>3, <2>2, <2>3, <2>4, <2>6, <2>8, <2>9, <2>10, RollIs
    <2>12. file'.ring[r] = ring1
        BY <1>6, <2>2, <2>7, <2>9 DEF i, sum
    <2>. QED
        BY <1>10, <2>11, <2>12
<1>18. Counted(r)' /\ \A q \in Rings : q # r => (Counted(q)' <=> Counted(q))
    BY <1>1 DEF Counted, Rings
<1>19. \A q \in Rings : IF Counted(q)' THEN RingOk(q, file'.ring[q], mem'.sect[q], Append(added, cur), FALSE)
                        ELSE mem'.sect[q] = Header.sect[q]
    <2>1. ASSUME NEW q \in Rings, q # r
          PROVE  IF Counted(q) THEN RingOk(q, file.ring[q], mem.sect[q], Append(added, cur), FALSE)
                 ELSE mem.sect[q] = Header.sect[q]
        BY <1>1 DEF GraphIInv
    <2>2. ASSUME NEW q \in Rings, q # r
          PROVE  file'.ring[q] = file.ring[q] /\ mem'.sect[q] = mem.sect[q] /\ (Counted(q)' <=> Counted(q))
        BY <1>6, <1>10, <1>18, <2>2
    <2>. QED
        BY <1>17, <1>18, <2>1, <2>2
<1>20. mem'.lastt = IF wpc' = "save" THEN cur'.when ELSE Header'.lastt
    BY <1>1, <1>5, <1>9, <1>10, <1>11
<1>. QED
    BY <1>1, <1>11, <1>12, <1>16, <1>19, <1>20 DEF GraphIInv

LEMMA SaveKeeps == GraphIInv /\ save => GraphIInv'
<1>. SUFFICES ASSUME GraphIInv, save PROVE GraphIInv'
    OBVIOUS
<1>1. /\ wpc = "save" /\ wpc' = "idle" /\ now' = now /\ torn' = FALSE
      /\ file' = [file EXCEPT !.h = mem] /\ added' = Append(added, cur)
    BY DEF save
<1>2. GraphTypes
    BY DEF GraphIInv
<1>3. /\ file = [h |-> file.h, ring |-> file.ring] /\ DOMAIN file.ring = Rings
      /\ mem \in Headers /\ cur \in Recorded /\ cur.when = now /\ added \in Seq(Recorded)
    BY <1>1, <1>2 DEF GraphTypes
<1>4. file' = [h |-> mem, ring |-> file.ring] /\ file'.h = mem /\ file'.ring = file.ring
    BY <1>1, <1>3
<1>5. mem.lastt = cur.when
    BY <1>1 DEF GraphIInv
<1>6. \A r \in Rings : RingOk(r, file.ring[r], mem.sect[r], Append(added, cur), FALSE)
    <2>1. \A r \in Rings : Counted(r)
        BY <1>1 DEF Counted, Rings
    <2>. QED
        BY <1>1, <2>1 DEF GraphIInv
<1>7. Header' = mem
    BY <1>3, <1>4, HeaderIs DEF Header
<1>8. ~Unfinished'
    BY <1>1 DEF Unfinished
<1>9. added' # <<>> /\ LastAdded' = cur
    BY <1>1, <1>3, AppendIs DEF LastAdded
<1>10. GraphTypes'
    <2>1. /\ added' \in Seq(Recorded) /\ InOrder(added')
          /\ \A i \in 1 .. Len(added') : added'[i].when <= now'
        BY <1>1, <1>2, NextInOrder
    <2>2. file'.h # NoHeader
        BY <1>3, <1>4, HeaderIs
    <2>3. now' \in Nat
        BY <1>1, <1>2 DEF GraphTypes
    <2>. QED
        BY <1>1, <1>3, <1>4, <1>5, <1>7, <1>9, <2>1, <2>2, <2>3 DEF GraphTypes
<1>11. \A r \in Rings : RingOk(r, file'.ring[r], Header'.sect[r], added', Dirty(r)')
    BY <1>1, <1>4, <1>6, <1>7, <1>8, DirtierIs DEF Dirty
<1>. QED
    BY <1>1, <1>10, <1>11 DEF GraphIInv

LEMMA GraphCrashKeeps == GraphIInv /\ Crash => GraphIInv'
<1>. SUFFICES ASSUME GraphIInv, Crash PROVE GraphIInv'
    OBVIOUS
<1>1. /\ wpc # "idle" /\ wpc' = "idle" /\ UNCHANGED <<file, now, added>>
      /\ torn' = (torn \/ wpc # "sample")
    BY DEF Crash
<1>2. wpc \in {"idle", "sample", "days", "hours", "save"}
    BY DEF GraphIInv, GraphTypes
<1>3. Unfinished' <=> Unfinished
    BY <1>1, <1>2 DEF Unfinished
<1>4. Header' = Header /\ LastAdded' = LastAdded /\ \A r : Dirty(r)' <=> Dirty(r)
    BY <1>1, <1>3 DEF Header, LastAdded, Dirty
<1>5. GraphTypes'
    BY <1>1, <1>4 DEF GraphIInv, GraphTypes
<1>6. \A r \in Rings : RingOk(r, file'.ring[r], Header'.sect[r], added', Dirty(r)')
    BY <1>1, <1>4, DirtierIs DEF GraphIInv
<1>. QED
    BY <1>1, <1>5, <1>6 DEF GraphIInv

LEMMA GraphNextIInv == GraphIInv /\ [GraphNext]_graphVars => GraphIInv'
<1>. SUFFICES ASSUME GraphIInv, [GraphNext]_graphVars PROVE GraphIInv'
    OBVIOUS
<1>1. CASE \E s \in Samples, dt \in Gaps : AddOpen(s, dt)
    BY <1>1, AddOpenKeeps
<1>2. CASE AddSample
    BY <1>2, AddSampleKeeps
<1>3. CASE Roll("days", "hours")
    BY <1>3, RollKeeps
<1>4. CASE Roll("hours", "save")
    BY <1>4, RollKeeps
<1>5. CASE save
    BY <1>5, SaveKeeps
<1>6. CASE Crash
    BY <1>6, GraphCrashKeeps
<1>7. CASE \E r \in Rings, ago \in Sinces : GetOpen(r, ago)
    BY <1>7, ReadersKeep DEF GetOpen
<1>8. CASE GetRecord \/ GetReturns
    BY <1>8, ReadersKeep DEF GetRecord, GetReturns
<1>9. CASE UNCHANGED graphVars
    BY <1>9, ReadersKeep DEF graphVars
<1>. QED
    BY <1>1, <1>2, <1>3, <1>4, <1>5, <1>6, <1>7, <1>8, <1>9 DEF GraphNext

LEMMA LastPart ==
    ASSUME NEW X, NEW E \in Seq(X), NEW c \in Nat, c <= Len(E),
           NEW w, w = SubSeq(E, Len(E) - c + 1, Len(E))
    PROVE  /\ Len(w) = c /\ DOMAIN w = 1 .. c
           /\ \A k \in 1 .. c : w[k] = E[(Len(E) - c) + k]
<1>1. PICK l \in Nat : l = Len(E)
    OBVIOUS
<1>2. l - c + 1 \in 1 .. l + 1 /\ l - (l - c + 1) + 1 = c
    BY <1>1
<1>3. w = [k \in 1 .. c |-> E[(l - c + 1) + k - 1]]
    BY <1>1, <1>2
<1>4. \A k \in 1 .. c : (l - c + 1) + k - 1 = (l - c) + k
    OBVIOUS
<1>5. Len(w) = c /\ DOMAIN w = 1 .. c
    BY <1>1, <1>2
<1>. QED
    BY <1>1, <1>3, <1>4, <1>5

LEMMA FileIs == GraphIInv => FileIsTheHistory
<1>. SUFFICES ASSUME GraphIInv, added # <<>>, NoDayMissed(added), NEW r \in Rings
     PROVE  LET want == LastOf(Expected(r, added), NMax)
                sect == file.h.sect[r]
            IN  /\ Len(InRing(r)) = Len(want)
                /\ \A k \in DOMAIN want : (k = 1 /\ Len(want) = NMax /\ Unfinished) \/ InRing(r)[k] = want[k]
                /\ r # "samples" => summarize(sect, file.h.lastt) = HeaderOf(r, added)
    BY DEF FileIsTheHistory
<1>. DEFINE E == Expected(r, added)
            want == LastOf(E, NMax)
            sect == file.h.sect[r]
            slot == sect.idx
            count == sect.count
            ring == file.ring[r]
<1>1. NMax \in Nat \ {0} /\ added \in Seq(Recorded) /\ GraphTypes
    BY GraphAssumption DEF GraphIInv, GraphTypes
<1>2. Header = file.h
    BY <1>1 DEF GraphTypes, Header
<1>3. RingOk(r, ring, sect, added, Dirty(r))
    BY <1>2 DEF GraphIInv
<1>4. /\ Holds(ring, slot, count, E, Dirty(r))
      /\ r # "samples" => Sums(sect, added, OfPeriod(r, added, Len(added)))
    BY <1>3 DEF RingOk
<1>5. PICK X : E \in Seq(X)
    BY <1>1, ExpectedIsSeq
<1>6. Len(E) \in Nat /\ slot \in 0 .. NMax - 1 /\ count = Least(Len(E), NMax)
    BY <1>4, <1>5 DEF Holds
<1>7. Oldest(sect) = First(slot, count)
    BY DEF Oldest, First
<1>8. InRing(r) = [k \in 1 .. count |-> ring[(First(slot, count) + k - 1) % NMax]]
    BY <1>7, Zenon DEF InRing
<1>. HIDE DEF E
<1>9. /\ Len(want) = count /\ DOMAIN want = 1 .. count
      /\ \A k \in 1 .. count : want[k] = E[(Len(E) - count) + k]
    <2>1. Min({NMax, Len(E)}) = count
        <3>1. Min({NMax, Len(E)}) = Least(NMax, Len(E))
            <4>1. PICK a \in Int, b \in Int : a = NMax /\ b = Len(E)
                BY <1>1, <1>6
            <4>2. Min({a, b}) = Least(a, b)
                BY OfTwo
            <4>. QED
                BY <4>1, <4>2
        <3>. QED
            BY <1>1, <1>6, <3>1 DEF Least
    <2>. HIDE DEF count
    <2>2. want = SubSeq(E, Len(E) - count + 1, Len(E))
        BY <2>1 DEF LastOf
    <2>3. count \in Nat /\ count <= Len(E)
        BY <1>1, <1>6 DEF Least
    <2>. HIDE DEF want
    <2>. QED
        BY <1>5, <2>2, <2>3, LastPart
<1>. HIDE DEF want
<1>10. Len(InRing(r)) = count
    <2>. HIDE DEF count
    <2>1. count \in Nat
        BY <1>1, <1>6 DEF Least
    <2>. QED
        BY <1>8, <2>1
<1>11. ASSUME NEW k \in 1 .. count
       PROVE  (k = 1 /\ count = NMax /\ Unfinished) \/ InRing(r)[k] = want[k]
    <2>1. InRing(r)[k] = ring[(First(slot, count) + k - 1) % NMax]
        BY <1>8
    <2>2. \/ ring[(First(slot, count) + (k - 1)) % NMax] = E[(Len(E) - count) + k]
          \/ count = NMax /\ k = 1 /\ Dirty(r)
        BY <1>4 DEF Holds
    <2>. HIDE DEF slot, count, ring, sect
    <2>3. First(slot, count) + k - 1 = First(slot, count) + (k - 1)
        <3>1. First(slot, count) \in Int
            BY <1>6 DEF First
        <3>. QED
            BY <3>1
    <2>4. Dirty(r) => Unfinished
        BY DEF Dirty
    <2>. QED
        BY <1>9, <2>1, <2>2, <2>3, <2>4
<1>12. r # "samples" => summarize(sect, file.h.lastt) = HeaderOf(r, added)
    <2>. SUFFICES ASSUME r # "samples" PROVE summarize(sect, file.h.lastt) = HeaderOf(r, added)
        OBVIOUS
    <2>1. Len(added) # 0 /\ file.h.lastt = added[Len(added)].when
        BY <1>1 DEF GraphTypes, LastAdded
    <2>2. Sums(sect, added, OfPeriod(r, added, Len(added)))
        BY <1>4
    <2>3. PICK n : n = Len(added)
        OBVIOUS
    <2>4. SumUp(added, OfPeriod(r, added, n)) = summarize(sect, added[n].when)
        BY <1>1, <2>1, <2>2, <2>3, SumUpIs
    <2>. QED
        BY <2>1, <2>3, <2>4 DEF HeaderOf
<1>. QED
    BY <1>9, <1>10, <1>11, <1>12 DEF want, E

(* Whenever the process is killed, the file counts the samples whose Add has *)
(* ended, and the summaries of the hours and days that are over; only the    *)
(* oldest record of a full ring may be a newer one (graph/graphd).           *)
THEOREM FilesAreTheHistory == GraphSpec => []FileIsTheHistory
BY GraphInitIInv, GraphNextIInv, FileIs, PTL DEF GraphSpec

-----------------------------------------------------------------------------
(* What a reader finds: E is what had been written into the ring when it     *)
(* began, slot and c the index and the count it read, w how many of the      *)
(* oldest records may have been overwritten since, p how many of the oldest  *)
(* ones it skips, i how many it has read.                                    *)
Want(E, c, k) == E[(Len(E) - c) + k]
SlotAt(slot, c, k) == (First(slot, c) + (k - 1)) % NMax

Kept(ring, slot, c, E, w) ==
    /\ DOMAIN ring = 0 .. NMax - 1 /\ slot \in 0 .. NMax - 1
    /\ c = Least(Len(E), NMax) /\ (c < NMax => slot = c)
    /\ \A k \in 1 .. c : k <= w \/ ring[SlotAt(slot, c, k)] = Want(E, c, k)
    /\ w = 0 => \A j \in c .. NMax - 1 : ring[j] = Zero

Times(E, c) ==
    \A k \in 1 .. c : /\ Want(E, c, k).when \in Nat \ {0}
                      /\ \A l \in k .. c : Want(E, c, k).when <= Want(E, c, l).when

Skips(E, c, p, since) == \A k \in 1 .. p : Want(E, c, k).when <= since

Covers(start, num, slot, c, p, since) ==
    /\ start \in Nat /\ num \in Nat /\ p \in 0 .. c /\ p + num >= c
    /\ \A i \in 0 .. num - 1 :
          IF p + i < c THEN (start + i) % NMax = SlotAt(slot, c, p + i + 1)
          ELSE (start + i) % NMax \in c .. NMax - 1 /\ since > 0

UpTo(E, c, since, q) == q \in 0 .. c /\ \A k \in 1 .. c : Want(E, c, k).when <= since <=> k <= q

Reads(out, E, c, p, i, w, since) ==
    /\ \A k \in 1 .. c : k > w /\ Want(E, c, k).when > since /\ (k - 1) - p < i =>
           \E j \in DOMAIN out : out[j] = Want(E, c, k)
    /\ w = 0 => \A q : UpTo(E, c, since, q) =>
           /\ Len(out) = IF Least(p + i, c) < q THEN 0 ELSE Least(p + i, c) - q
           /\ \A j \in DOMAIN out : out[j] = Want(E, c, q + j)

(* The records of m times round the ring.                                    *)
Laps(m) == NMax * m

LEMMA LapsAre ==
    ASSUME NEW m \in Nat
    PROVE  /\ Laps(m) \in Nat /\ Laps(0) = 0 /\ Laps(m + 1) = Laps(m) + NMax
           /\ Laps(m) < 2 * NMax => Laps(m) = 0 \/ Laps(m) = NMax
<1>1. NMax \in Nat \ {0}
    BY GraphAssumption
<1>2. /\ NMax * m \in Nat /\ NMax * 0 = 0 /\ NMax * 1 = NMax
      /\ NMax * (m + 1) = NMax * m + NMax /\ NMax * 2 = 2 * NMax
    BY <1>1
<1>3. NMax * m < NMax * 2 => m < 2
    BY <1>1, MulLess
<1>4. m < 2 => m = 0 \/ m = 1
    OBVIOUS
<1>5. NMax * m < 2 * NMax => NMax * m = 0 \/ NMax * m = NMax
    BY <1>2, <1>3, <1>4
<1>. QED
    BY <1>2, <1>5 DEF Laps

LEMMA ReadsOne ==
    ASSUME NEW S, NEW out \in Seq(S), NEW E, NEW c \in Nat, NEW p, NEW i \in Nat, NEW w \in Nat, NEW since \in Nat,
           NEW ring, NEW slot, NEW start, NEW num, i < num,
           Kept(ring, slot, c, E, w), Times(E, c), Skips(E, c, p, since),
           Covers(start, num, slot, c, p, since), Reads(out, E, c, p, i, w, since),
           NEW rec, rec = (IF start + i < 0 THEN Zero ELSE ring[(start + i) % NMax]),
           NEW out1, out1 = IF since > 0 /\ rec.when <= since THEN out ELSE Append(out, rec)
    PROVE  Reads(out1, E, c, p, i + 1, w, since) /\ out1 \in Seq(S \cup {rec})
<1>1. /\ start \in Nat /\ num \in Nat /\ p \in 0 .. c /\ p \in Nat /\ i \in 0 .. num - 1
      /\ NMax \in Nat \ {0}
    BY GraphAssumption DEF Covers
<1>2. rec = ring[(start + i) % NMax]
    BY <1>1
<1>3. out1 \in Seq(S \cup {rec})
    <2>1. out \in Seq(S \cup {rec}) /\ rec \in S \cup {rec}
        OBVIOUS
    <2>. QED
        BY <2>1
<1>4. \A j \in DOMAIN out : j \in DOMAIN out1 /\ out1[j] = out[j]
    OBVIOUS
<1>5. out1 = Append(out, rec) => /\ Len(out1) = Len(out) + 1 /\ out1[Len(out) + 1] = rec
                                 /\ DOMAIN out1 = 1 .. Len(out) + 1
    OBVIOUS
<1>6. Len(out) \in Nat /\ DOMAIN out = 1 .. Len(out)
    OBVIOUS
<1>7. p + i < c => /\ p + i + 1 \in 1 .. c /\ (start + i) % NMax = SlotAt(slot, c, p + i + 1)
                   /\ p + i + 1 <= w \/ rec = Want(E, c, p + i + 1)
    <2>. SUFFICES ASSUME p + i < c
         PROVE  /\ p + i + 1 \in 1 .. c /\ (start + i) % NMax = SlotAt(slot, c, p + i + 1)
                /\ p + i + 1 <= w \/ rec = Want(E, c, p + i + 1)
        OBVIOUS
    <2>1. (start + i) % NMax = SlotAt(slot, c, p + i + 1)
        BY <1>1 DEF Covers
    <2>2. PICK k : k = p + i + 1 /\ k \in 1 .. c
        BY <1>1
    <2>3. k <= w \/ ring[SlotAt(slot, c, k)] = Want(E, c, k)
        BY <2>2 DEF Kept
    <2>. QED
        BY <1>2, <2>1, <2>2, <2>3
<1>8. ASSUME NEW k \in 1 .. c, k > w, Want(E, c, k).when > since, (k - 1) - p < i + 1
      PROVE  \E j \in DOMAIN out1 : out1[j] = Want(E, c, k)
    <2>1. CASE (k - 1) - p < i
        <3>1. PICK j \in DOMAIN out : out[j] = Want(E, c, k)
            BY <1>8, <2>1 DEF Reads
        <3>. QED
            BY <1>4, <3>1
    <2>2. CASE ~((k - 1) - p < i)
        <3>1. k = p + i + 1
            BY <1>1, <1>8, <2>2
        <3>2. rec = Want(E, c, k)
            BY <1>1, <1>7, <1>8, <3>1
        <3>3. Want(E, c, k).when \in Nat
            BY DEF Times
        <3>4. out1 = Append(out, rec)
            BY <1>8, <3>2, <3>3
        <3>5. Len(out) + 1 \in DOMAIN out1 /\ out1[Len(out) + 1] = rec
            BY <1>5, <1>6, <3>4
        <3>. QED
            BY <3>2, <3>5
    <2>. QED
        BY <2>1, <2>2
<1>9. ASSUME w = 0, NEW q, UpTo(E, c, since, q)
      PROVE  /\ Len(out1) = IF Least(p + (i + 1), c) < q THEN 0 ELSE Least(p + (i + 1), c) - q
             /\ \A j \in DOMAIN out1 : out1[j] = Want(E, c, q + j)
    <2>1. /\ Len(out) = IF Least(p + i, c) < q THEN 0 ELSE Least(p + i, c) - q
          /\ \A j \in DOMAIN out : out[j] = Want(E, c, q + j)
        BY <1>9 DEF Reads
    <2>2. q \in 0 .. c
        BY <1>9 DEF UpTo
    <2>3. CASE p + i < c
        <3>1. PICK k : k = p + i + 1 /\ k \in 1 .. c /\ rec = Want(E, c, k)
            BY <1>1, <1>7, <1>9, <2>3
        <3>2. rec.when \in Nat \ {0} /\ (rec.when <= since <=> k <= q)
            BY <1>9, <3>1 DEF Times, UpTo
        <3>3. CASE k <= q
            <4>1. out1 = out
                BY <3>2, <3>3
            <4>. QED
                BY <1>1, <2>1, <2>2, <2>3, <3>1, <3>3, <4>1 DEF Least
        <3>4. CASE ~(k <= q)
            <4>1. out1 = Append(out, rec)
                BY <3>1, <3>2, <3>4
            <4>2. Len(out) = p + i - q /\ Len(out) + 1 = k - q
                BY <1>1, <2>1, <2>2, <2>3, <3>1, <3>4 DEF Least
            <4>3. Len(out1) = k - q /\ Least(p + (i + 1), c) = k
                <5>1. Len(out1) = k - q
                    BY <1>5, <4>1, <4>2
                <5>2. p + (i + 1) = k
                    BY <1>1, <3>1
                <5>3. Least(k, c) = k
                    BY <3>1 DEF Least
                <5>. QED
                    BY <5>1, <5>2, <5>3
            <4>4. ASSUME NEW j \in DOMAIN out1 PROVE out1[j] = Want(E, c, q + j)
                <5>1. CASE j = Len(out) + 1
                    <6>1. q + j = k
                        BY <2>2, <3>1, <4>2, <5>1
                    <6>. QED
                        BY <1>5, <3>1, <4>1, <5>1, <6>1
                <5>2. CASE j # Len(out) + 1
                    <6>1. j \in DOMAIN out
                        BY <1>5, <1>6, <4>1, <5>2
                    <6>. QED
                        BY <1>4, <2>1, <6>1
                <5>. QED
                    BY <5>1, <5>2
            <4>. QED
                BY <1>1, <2>2, <3>1, <3>4, <4>3, <4>4
        <3>. QED
            BY <3>3, <3>4
    <2>4. CASE ~(p + i < c)
        <3>1. (start + i) % NMax \in c .. NMax - 1 /\ since > 0
            BY <1>1, <2>4 DEF Covers
        <3>2. rec = Zero
            BY <1>2, <1>9, <3>1 DEF Kept
        <3>3. out1 = out
            BY <3>1, <3>2 DEF Zero
        <3>4. Least(p + (i + 1), c) = c /\ Least(p + i, c) = c
            BY <1>1, <2>4 DEF Least
        <3>. QED
            BY <2>1, <3>3, <3>4
    <2>. QED
        BY <2>3, <2>4
<1>. QED
    BY <1>3, <1>8, <1>9 DEF Reads

(* A record at the index a writer has come to is an old one.                 *)
LEMMA KeptBeside ==
    ASSUME NEW ring, NEW slot, NEW c, NEW E, Len(E) \in Nat, NEW w \in Nat, NEW w1 \in Nat, w <= w1,
           Kept(ring, slot, c, E, w),
           NEW a \in Nat, NEW m \in Nat, NEW at \in 0 .. NMax - 1, slot + a = Laps(m) + at, a + 1 <= w1,
           NEW x
    PROVE  Kept([ring EXCEPT ![at] = x], slot, c, E, w1)
<1>1. /\ NMax \in Nat \ {0} /\ slot \in 0 .. NMax - 1 /\ c \in 0 .. NMax /\ (c < NMax => slot = c)
    BY GraphAssumption DEF Kept, Least
<1>2. ASSUME NEW k \in 1 .. c, ~(k <= w1) PROVE SlotAt(slot, c, k) # at /\ SlotAt(slot, c, k) \in 0 .. NMax - 1
    <2>1. PICK y : y = First(slot, c) + (k - 1)
        OBVIOUS
    <2>2. y \in 0 .. (2 * NMax) - 1 /\ y = (IF c < NMax THEN 0 ELSE slot) + (k - 1)
        <3>1. y = (IF c < NMax THEN 0 ELSE slot) + (k - 1)
            BY <2>1 DEF First
        <3>2. NMax \in Int /\ slot \in Int /\ c \in Int /\ k \in Int /\ 0 <= slot /\ slot <= NMax - 1 /\ c <= NMax /\ 1 <= k /\ k <= c
            BY <1>1
        <3>3. CASE c < NMax
            <4>1. y = 0 + (k - 1)
                BY <3>1, <3>3
            <4>2. 0 <= y /\ y <= (NMax + NMax) - 1 /\ y \in Int
                BY <3>2, <4>1
            <4>. QED
                BY <3>1, <3>2, <4>2
        <3>4. CASE ~(c < NMax)
            <4>1. y = slot + (k - 1)
                BY <3>1, <3>4
            <4>2. 0 <= y /\ y <= (NMax + NMax) - 1 /\ y \in Int
                BY <3>2, <4>1
            <4>. QED
                BY <3>1, <3>2, <4>2
        <3>. QED
            BY <3>3, <3>4
    <2>3. PICK z : z = SlotAt(slot, c, k) /\ z = IF y < NMax THEN y ELSE y - NMax
        BY <1>1, <2>1, <2>2, AroundIs DEF SlotAt
    <2>4. a < NMax - 1 /\ a < k - 1
        BY <1>1, <1>2
    <2>5. Laps(m) \in Nat /\ (Laps(m) < 2 * NMax => Laps(m) = 0 \/ Laps(m) = NMax)
        BY LapsAre
    <2>6. slot + a = at \/ slot + a = NMax + at
        BY <1>1, <2>4, <2>5
    <2>7. z \in 0 .. NMax - 1
        <3>1. PICK n \in Nat : n = NMax
            BY <1>1
        <3>2. y \in 0 .. (2 * n) - 1 /\ z = IF y < n THEN y ELSE y - n
            BY <2>2, <2>3, <3>1
        <3>3. z \in 0 .. n - 1
            BY <3>2
        <3>. QED
            BY <3>1, <3>3
    <2>8. CASE c < NMax
        <3>1. y = 0 + (k - 1) /\ slot = c
            BY <1>1, <2>2, <2>8
        <3>2. z = k - 1
            BY <1>1, <2>3, <2>8, <3>1
        <3>3. z # at
            BY <1>1, <2>4, <2>6, <2>8, <3>1, <3>2
        <3>. QED
            BY <2>3, <2>7, <3>3
    <2>9. CASE ~(c < NMax)
        <3>1. y = slot + (k - 1)
            BY <2>2, <2>9
        <3>2. z # at
            BY <1>1, <2>3, <2>4, <2>6, <3>1
        <3>. QED
            BY <2>3, <2>7, <3>2
    <2>. QED
        BY <2>8, <2>9
<1>3. ASSUME NEW k \in 1 .. c, ~(k <= w1) PROVE [ring EXCEPT ![at] = x][SlotAt(slot, c, k)] = Want(E, c, k)
    <2>1. ring[SlotAt(slot, c, k)] = Want(E, c, k)
        BY <1>1, <1>3 DEF Kept
    <2>. QED
        BY <1>2, <1>3, <2>1 DEF Kept
<1>4. w1 # 0
    OBVIOUS
<1>. QED
    BY <1>3, <1>4 DEF Kept

LEMMA KeptMore ==
    ASSUME NEW ring, NEW slot, NEW c, NEW E, Len(E) \in Nat, NEW w \in Nat, NEW w1 \in Nat, w <= w1,
           Kept(ring, slot, c, E, w)
    PROVE  Kept(ring, slot, c, E, w1)
<1>1. c \in Int
    BY GraphAssumption DEF Kept, Least
<1>. QED
    BY <1>1 DEF Kept

LEMMA ReadsMore ==
    ASSUME NEW out, NEW E, NEW c \in Nat, NEW p, NEW i, NEW since, NEW w \in Nat, NEW w1 \in Nat, w <= w1,
           Reads(out, E, c, p, i, w, since)
    PROVE  Reads(out, E, c, p, i, w1, since)
<1>1. w1 = 0 => w = 0
    OBVIOUS
<1>2. \A k \in 1 .. c : k > w1 => k > w
    OBVIOUS
<1>. QED
    BY <1>1, <1>2, Zenon DEF Reads

(* Round the ring.                                                           *)
LEMMA RoundIs ==
    ASSUME NEW slot \in Nat, NEW a \in Nat, NEW m \in Nat, NEW at \in 0 .. NMax - 1, slot + a = Laps(m) + at
    PROVE  \E n \in Nat : slot + (a + 1) = Laps(n) + ((at + 1) % NMax)
<1>1. NMax \in Nat \ {0}
    BY GraphAssumption
<1>2. PICK y : y = at + 1 /\ y \in 0 .. (2 * NMax) - 1
    BY <1>1
<1>3. y % NMax = IF y < NMax THEN y ELSE y - NMax
    BY <1>1, <1>2, AroundIs
<1>4. Laps(m) \in Nat /\ Laps(m + 1) = Laps(m) + NMax
    BY LapsAre
<1>5. CASE y < NMax
    <2>1. slot + (a + 1) = Laps(m) + y
        <3>1. PICK l \in Nat, x \in Nat : l = Laps(m) /\ x = at
            BY <1>1, <1>4
        <3>2. slot + a = l + x /\ y = x + 1
            BY <1>2, <3>1
        <3>3. slot + (a + 1) = l + y
            BY <3>2
        <3>. QED
            BY <3>1, <3>3
    <2>. QED
        BY <1>2, <1>3, <1>5, <2>1
<1>6. CASE ~(y < NMax)
    <2>1. y = NMax /\ y % NMax = 0
        BY <1>1, <1>2, <1>3, <1>6
    <2>2. slot + (a + 1) = Laps(m + 1) + 0 /\ m + 1 \in Nat
        BY <1>1, <1>2, <1>4, <2>1
    <2>. QED
        BY <1>2, <2>1, <2>2
<1>. QED
    BY <1>5, <1>6

(* Where Get begins and how much it reads: the newest records of a ring.     *)
SkipOf(c, since, ago) == IF since = 0 \/ ago >= c THEN 0 ELSE c - ago

LEMMA RemIs ==
    ASSUME NEW d \in Nat \ {0}, NEW x \in 0 .. (2 * d) - 1
    PROVE  Rem(x, d) = IF x < d THEN x ELSE x - d
<1>1. x % d = IF x < d THEN x ELSE x - d
    BY AroundIs
<1>2. ~(x < 0)
    OBVIOUS
<1>. QED
    BY <1>1, <1>2 DEF Rem

LEMMA StartIsFull ==
    ASSUME NEW r \in Rings, NEW sect, NEW slot \in 0 .. NMax - 1, sect.idx = slot, sect.count = NMax,
           NEW since \in Nat \ {0}, NEW ago \in 0 .. NMax, ago = Ago(r, since),
           NEW range, range = IF r = "samples" THEN getSamples(sect, since) ELSE getSummy(r, sect, since)
    PROVE  range.num = ago /\ range.start = IF slot >= ago THEN slot - ago ELSE slot - ago + NMax
<1>1. NMax \in Nat \ {0}
    BY GraphAssumption
<1>2. Oldest(sect) = slot
    BY <1>1 DEF Oldest
<1>3. CASE r = "samples"
    <2>1. range.num = ago /\ range.start = IF slot - ago >= 0 THEN slot - ago ELSE SinceFull(sect, ago)
        <3>1. ~(sect.count < NMax) /\ since # 0
            BY <1>1
        <3>. QED
            BY <1>3, <3>1 DEF getSamples
    <2>2. slot - ago < 0 => SinceFull(sect, ago) = slot - ago + NMax
        <3>. SUFFICES ASSUME slot - ago < 0 PROVE SinceFull(sect, ago) = slot - ago + NMax
            OBVIOUS
        <3>1. PICK x : x = slot - ago + NMax
            OBVIOUS
        <3>2. x \in 0 .. (2 * NMax) - 1 /\ x < NMax
            BY <1>1, <3>1
        <3>3. Rem(x, NMax) = x
            BY <1>1, <3>2, RemIs
        <3>. QED
            BY <3>1, <3>3 DEF SinceFull
    <2>. QED
        BY <1>1, <2>1, <2>2
<1>4. CASE r # "samples"
    <2>1. range.num = ago /\ range.start = Rem(slot + NMax - ago, NMax)
        BY <1>2, <1>4 DEF getSummy
    <2>2. PICK x : x = slot + NMax - ago
        OBVIOUS
    <2>3. x \in 0 .. (2 * NMax) - 1
        BY <1>1, <2>2
    <2>4. Rem(x, NMax) = IF x < NMax THEN x ELSE x - NMax
        BY <1>1, <2>3, RemIs
    <2>. QED
        BY <1>1, <2>1, <2>2, <2>4
<1>. QED
    BY <1>3, <1>4

LEMMA CoversAll ==
    ASSUME NEW r \in Rings, NEW sect, NEW slot \in 0 .. NMax - 1, NEW c \in 0 .. NMax,
           sect.idx = slot, sect.count = c, c < NMax => slot = c,
           NEW range, range = IF r = "samples" THEN getSamples(sect, 0) ELSE getSummy(r, sect, 0)
    PROVE  Covers(range.start, range.num, slot, c, 0, 0)
<1>1. NMax \in Nat \ {0}
    BY GraphAssumption
<1>2. Oldest(sect) = First(slot, c)
    BY DEF Oldest, First
<1>3. range = [start |-> First(slot, c), num |-> c]
    <2>1. CASE r = "samples"
        BY <1>2, <2>1 DEF getSamples
    <2>2. CASE r # "samples"
        BY <1>2, <2>2 DEF getSummy
    <2>. QED
        BY <2>1, <2>2
<1>4. First(slot, c) \in Nat /\ c \in Nat
    BY <1>1 DEF First
<1>5. ASSUME NEW i \in 0 .. c - 1
      PROVE  0 + i < c /\ (First(slot, c) + i) % NMax = SlotAt(slot, c, 0 + i + 1)
    <2>1. (0 + i + 1) - 1 = i /\ 0 + i < c
        BY <1>4
    <2>. QED
        BY <2>1 DEF SlotAt
<1>6. range.start = First(slot, c) /\ range.num = c
    BY <1>3
<1>. QED
    BY <1>4, <1>5, <1>6 DEF Covers

LEMMA CoversFull ==
    ASSUME NEW slot \in 0 .. NMax - 1, NEW since \in Nat \ {0}, NEW ago \in 0 .. NMax,
           NEW start, start = IF slot >= ago THEN slot - ago ELSE slot - ago + NMax
    PROVE  Covers(start, ago, slot, NMax, NMax - ago, since)
<1>1. NMax \in Nat \ {0}
    BY GraphAssumption
<1>2. start \in 0 .. NMax - 1
    <2>1. PICK n \in Nat \ {0} : n = NMax
        BY <1>1
    <2>. QED
        BY <2>1
<1>3. First(slot, NMax) = slot
    BY <1>1 DEF First
<1>4. ASSUME NEW i \in 0 .. ago - 1
      PROVE  (NMax - ago) + i < NMax /\ (start + i) % NMax = SlotAt(slot, NMax, (NMax - ago) + i + 1)
    <2>1. PICK x \in Int : x = start + i
        BY <1>2
    <2>2. PICK y \in Int : y = slot + (((NMax - ago) + i + 1) - 1)
        BY <1>1
    <2>3. x \in 0 .. (2 * NMax) - 1 /\ y \in 0 .. (2 * NMax) - 1 /\ (NMax - ago) + i < NMax
        BY <1>1, <1>2, <2>1, <2>2
    <2>4. /\ x % NMax = IF x < NMax THEN x ELSE x - NMax
          /\ y % NMax = IF y < NMax THEN y ELSE y - NMax
        BY <1>1, <2>3, AroundIs
    <2>5. y = IF slot >= ago THEN x + NMax ELSE x
        BY <1>1, <2>1, <2>2
    <2>6. x % NMax = y % NMax
        <3>1. PICK n \in Nat \ {0} : n = NMax
            BY <1>1
        <3>2. CASE slot >= ago
            <4>1. y = x + n /\ y < 2 * n /\ x >= 0
                BY <2>3, <2>5, <3>1, <3>2
            <4>2. x < n /\ ~(y < n)
                BY <4>1
            <4>. QED
                BY <2>4, <3>1, <4>1, <4>2
        <3>3. CASE ~(slot >= ago)
            BY <2>5, <3>3
        <3>. QED
            BY <3>2, <3>3
    <2>. QED
        BY <1>3, <2>1, <2>2, <2>3, <2>6 DEF SlotAt
<1>5. NMax - ago \in 0 .. NMax /\ (NMax - ago) + ago >= NMax /\ ago \in Nat
    BY <1>1
<1>. QED
    BY <1>2, <1>4, <1>5 DEF Covers

(* A ring that is not full is only read so far back for samples.             *)
LEMMA CoversFew ==
    ASSUME NEW sect, NEW c \in 0 .. NMax - 1, sect.idx = c, sect.count = c,
           NEW since \in Nat \ {0}, NEW ago \in 0 .. NMax, ago = Ago("samples", since),
           NEW range, range = getSamples(sect, since)
    PROVE  Covers(range.start, range.num, c, c, SkipOf(c, since, ago), since)
<1>1. NMax \in Nat \ {0}
    BY GraphAssumption
<1>2. range.num = ago /\ range.start = IF c - ago >= 0 THEN c - ago ELSE 0
    <2>1. sect.count < NMax /\ since # 0
        BY <1>1
    <2>. QED
        BY <2>1 DEF getSamples
<1>3. PICK p : p = SkipOf(c, since, ago)
    OBVIOUS
<1>4. p = range.start /\ p \in 0 .. c /\ p + ago >= c /\ (ago > c => p = 0) /\ (ago <= c => p = c - ago)
    BY <1>1, <1>2, <1>3 DEF SkipOf
<1>5. First(c, c) = 0
    BY <1>1 DEF First
<1>6. ASSUME NEW i \in 0 .. ago - 1
      PROVE  IF p + i < c THEN (p + i) % NMax = SlotAt(c, c, p + i + 1)
             ELSE (p + i) % NMax \in c .. NMax - 1 /\ since > 0
    <2>1. CASE p + i < c
        <3>1. 0 + ((p + i + 1) - 1) = p + i
            BY <1>4
        <3>. QED
            BY <1>5, <2>1, <3>1 DEF SlotAt
    <2>2. CASE ~(p + i < c)
        <3>1. PICK x : x = p + i
            OBVIOUS
        <3>2. x \in c .. NMax - 1 /\ x \in 0 .. (2 * NMax) - 1 /\ x < NMax
            BY <1>1, <1>4, <2>2, <3>1
        <3>3. x % NMax = x
            BY <1>1, <3>2, AroundIs
        <3>. QED
            BY <2>2, <3>1, <3>2, <3>3
    <2>. QED
        BY <2>1, <2>2
<1>7. p \in Nat /\ ago \in Nat
    BY <1>1, <1>4
<1>8. Covers(p, ago, c, c, p, since)
    BY <1>4, <1>6, <1>7 DEF Covers
<1>. QED
    BY <1>2, <1>3, <1>4, <1>8

LEMMA CoversIs ==
    ASSUME NEW r \in Rings, NEW sect, NEW slot \in 0 .. NMax - 1, NEW c \in 0 .. NMax,
           sect.idx = slot, sect.count = c, c < NMax => slot = c,
           NEW since \in Nat, NEW ago \in Nat, ago = Ago(r, since),
           since > 0 => ago <= NMax /\ (r = "samples" \/ c = NMax),
           NEW range, range = IF r = "samples" THEN getSamples(sect, since) ELSE getSummy(r, sect, since)
    PROVE  Covers(range.start, range.num, slot, c, SkipOf(c, since, ago), since)
<1>1. NMax \in Nat \ {0}
    BY GraphAssumption
<1>2. CASE since = 0
    <2>1. SkipOf(c, since, ago) = 0
        BY <1>2 DEF SkipOf
    <2>2. Covers(range.start, range.num, slot, c, 0, 0)
        BY <1>2, CoversAll
    <2>. QED
        BY <1>2, <2>1, <2>2
<1>3. CASE since # 0 /\ c = NMax
    <2>1. since \in Nat \ {0} /\ ago \in 0 .. NMax
        BY <1>3
    <2>2. range.num = ago /\ range.start = IF slot >= ago THEN slot - ago ELSE slot - ago + NMax
        BY <1>3, <2>1, StartIsFull
    <2>3. SkipOf(c, since, ago) = NMax - ago
        BY <1>1, <1>3, <2>1 DEF SkipOf
    <2>4. Covers(range.start, ago, slot, NMax, NMax - ago, since)
        BY <2>1, <2>2, CoversFull
    <2>. QED
        BY <1>3, <2>2, <2>3, <2>4
<1>4. CASE since # 0 /\ c # NMax
    <2>1. since \in Nat \ {0} /\ ago \in 0 .. NMax /\ c \in 0 .. NMax - 1 /\ slot = c /\ r = "samples"
        BY <1>1, <1>4
    <2>2. range = getSamples(sect, since) /\ ago = Ago("samples", since)
        BY <2>1
    <2>3. Covers(range.start, range.num, c, c, SkipOf(c, since, ago), since)
        BY <2>1, <2>2, CoversFew
    <2>. QED
        BY <2>1, <2>3
<1>. QED
    BY <1>2, <1>3, <1>4

-----------------------------------------------------------------------------
(* The records of a ring are of different periods, which are over.           *)
Top(r, last) == IF r = "samples" THEN last ELSE Period(r, last) - 1

Spaced(r, E, last) ==
    \A k \in 1 .. Len(E) :
        /\ E[k].when \in Nat \ {0} /\ E[k].when <= last
        /\ Period(r, E[k].when) + (Len(E) - k) <= Top(r, last)
        /\ \A l \in k .. Len(E) : E[k].when <= E[l].when

LEMMA PeriodIs ==
    ASSUME NEW r \in Rings, NEW t \in Nat, NEW u \in Nat, t <= u
    PROVE  /\ Period(r, t) \in Nat /\ Period(r, u) \in Nat /\ Period(r, t) <= Period(r, u)
           /\ r = "samples" => Period(r, t) = t
<1>1. CASE r = "samples"
    <2>1. Period(r, t) = t \div 1 /\ Period(r, u) = u \div 1
        BY <1>1 DEF Period, Unit
    <2>2. t \div 1 = t /\ u \div 1 = u
        OBVIOUS
    <2>. QED
        BY <2>1, <2>2
<1>2. CASE r \in {"hours", "days"}
    BY <1>2, PeriodsAre
<1>. QED
    BY <1>1, <1>2 DEF Rings

LEMMA TopGrows ==
    ASSUME NEW r \in Rings, NEW t \in Nat, NEW u \in Nat, t <= u
    PROVE  Top(r, t) \in Int /\ Top(r, u) \in Int /\ Top(r, t) <= Top(r, u)
BY PeriodIs DEF Top

LEMMA SpacedLater ==
    ASSUME NEW r \in Rings, NEW X, NEW E \in Seq(X), NEW last \in Nat, NEW last1 \in Nat, last <= last1, Spaced(r, E, last)
    PROVE  Spaced(r, E, last1)
<1>1. Top(r, last) \in Int /\ Top(r, last1) \in Int /\ Top(r, last) <= Top(r, last1) /\ Len(E) \in Nat
    BY TopGrows
<1>2. ASSUME NEW k \in 1 .. Len(E)
      PROVE  /\ E[k].when \in Nat \ {0} /\ E[k].when <= last1
             /\ Period(r, E[k].when) + (Len(E) - k) <= Top(r, last1)
             /\ \A l \in k .. Len(E) : E[k].when <= E[l].when
    <2>1. PICK t : t = E[k].when
        OBVIOUS
    <2>2. /\ t \in Nat \ {0} /\ t <= last /\ Period(r, t) + (Len(E) - k) <= Top(r, last)
          /\ \A l \in k .. Len(E) : t <= E[l].when
        BY <2>1 DEF Spaced
    <2>3. Period(r, t) \in Nat
        BY <2>2, PeriodIs
    <2>4. t <= last1 /\ Period(r, t) + (Len(E) - k) <= Top(r, last1)
        BY <1>1, <2>2, <2>3
    <2>. QED
        BY <2>1, <2>2, <2>4
<1>. QED
    BY <1>2 DEF Spaced

LEMMA SpacedMore ==
    ASSUME NEW r \in Rings, NEW X, NEW E \in Seq(X), NEW x \in X, NEW last \in Nat, NEW last1 \in Nat,
           x.when \in Nat \ {0}, x.when <= last1, Period(r, x.when) <= Top(r, last1),
           Len(E) # 0 => Spaced(r, E, last) /\ last <= x.when /\ Top(r, last) < Top(r, last1)
    PROVE  Spaced(r, Append(E, x), last1)
<1>1. PICK E1, n : E1 = Append(E, x) /\ n = Len(E)
    OBVIOUS
<1>2. /\ n \in Nat /\ Len(E1) = n + 1 /\ E1[n + 1] = x
      /\ \A j \in 1 .. n : E1[j] = E[j]
    BY <1>1
<1>3. PICK tx \in Nat \ {0} : tx = x.when
    OBVIOUS
<1>4. Period(r, tx) \in Nat /\ Top(r, last) \in Int /\ Top(r, last1) \in Int
    <2>1. \A u \in Nat : Period(r, u) \in Nat
        BY PeriodIs
    <2>2. \A u \in Nat : Top(r, u) \in Int
        BY TopGrows
    <2>. QED
        BY <2>1, <2>2
<1>5. ASSUME NEW k \in 1 .. n
      PROVE  /\ E1[k].when \in Nat \ {0} /\ E1[k].when <= last1
             /\ Period(r, E1[k].when) + ((n + 1) - k) <= Top(r, last1)
             /\ \A l \in k .. n + 1 : E1[k].when <= E1[l].when
    <2>1. Spaced(r, E, last) /\ last <= tx /\ Top(r, last) < Top(r, last1)
        BY <1>1, <1>2, <1>3
    <2>2. PICK t : t = E[k].when
        OBVIOUS
    <2>3. /\ t \in Nat \ {0} /\ t <= last /\ Period(r, t) + (n - k) <= Top(r, last)
          /\ \A l \in k .. n : t <= E[l].when
        BY <1>1, <2>1, <2>2 DEF Spaced
    <2>4. Period(r, t) \in Nat
        BY <2>3, PeriodIs
    <2>5. t <= last1 /\ Period(r, t) + ((n + 1) - k) <= Top(r, last1) /\ t <= tx
        BY <1>2, <1>3, <1>4, <2>1, <2>3, <2>4
    <2>6. ASSUME NEW l \in k .. n + 1 PROVE t <= E1[l].when
        <3>1. CASE l = n + 1
            BY <1>2, <1>3, <2>5, <3>1
        <3>2. CASE l # n + 1
            <4>1. l \in k .. n /\ l \in 1 .. n
                BY <1>2, <3>2
            <4>. QED
                BY <1>2, <2>3, <4>1
        <3>. QED
            BY <3>1, <3>2
    <2>. QED
        BY <1>2, <2>2, <2>3, <2>5, <2>6
<1>6. /\ E1[n + 1].when = tx /\ tx <= last1 /\ Period(r, tx) + ((n + 1) - (n + 1)) <= Top(r, last1)
      /\ \A l \in n + 1 .. n + 1 : tx <= E1[l].when
    BY <1>2, <1>3, <1>4
<1>7. \A k \in 1 .. n + 1 :
        /\ E1[k].when \in Nat \ {0} /\ E1[k].when <= last1
        /\ Period(r, E1[k].when) + ((n + 1) - k) <= Top(r, last1)
        /\ \A l \in k .. n + 1 : E1[k].when <= E1[l].when
    <2>. TAKE k \in 1 .. n + 1
    <2>1. k \in 1 .. n \/ k = n + 1
        BY <1>2
    <2>2. CASE k = n + 1
        BY <1>3, <1>6, <2>2
    <2>. QED
        BY <1>5, <2>1, <2>2
<1>. QED
    BY <1>1, <1>2, <1>7 DEF Spaced

Quotient(d, x, q) == q \in Nat /\ \E b \in 0 .. d - 1 : x = d * q + b

LEMMA QuotientIs ==
    ASSUME NEW d \in Nat \ {0}, NEW x \in Nat PROVE Quotient(d, x, x \div d)
<1>1. x \div d \in Nat /\ x % d \in 0 .. d - 1 /\ x = d * (x \div d) + (x % d)
    BY DivIs
<1>. QED
    BY <1>1, Zenon DEF Quotient

Between(U, p, a, q) == \E g \in Nat : U * q = U * p + U + U * a + g

LEMMA ApartIs ==
    ASSUME NEW U \in Nat \ {0}, NEW p \in Nat, NEW a \in Nat, NEW q \in Nat, p + 1 + a <= q
    PROVE  Between(U, p, a, q)
<1>1. PICK k \in Int : k = q - (p + 1 + a)
    OBVIOUS
<1>2. k \in Nat /\ q = p + 1 + a + k
    BY <1>1
<1>3. U * (p + 1 + a + k) = U * p + U + U * a + U * k /\ U * k \in Nat
    BY <1>2
<1>. QED
    BY <1>2, <1>3, Zenon DEF Between

LEMMA BeforeThen ==
    ASSUME NEW U \in Nat \ {0}, NEW P \in Nat, NEW A \in Nat, NEW G \in Nat, NEW since \in Nat, NEW n \in Nat, NEW t \in Nat,
           NEW b \in 0 .. U - 1, NEW d \in 0 .. U - 1, NEW e \in 0 .. U - 1,
           n = P + U + A + G + e, t = P + d, n - since + U - 1 = A + b
    PROVE  t <= since
OBVIOUS

(* What is so many periods before the last one is old.                       *)
LEMMA LongAgo ==
    ASSUME NEW r \in Rings, NEW t \in Nat, now \in Nat, NEW since \in Nat, since <= now,
           NEW ago, ago = Ago(r, since), Period(r, t) + ago <= Top(r, now)
    PROVE  t <= since /\ ago \in Nat
<1>1. CASE r = "samples"
    <2>1. ago = (now - since + 1 - 1) \div 1 /\ (now - since + 1 - 1) \div 1 = now - since
        BY <1>1 DEF Ago, Unit
    <2>2. Period(r, t) = t /\ Top(r, now) = now
        BY <1>1, PeriodIs DEF Top
    <2>. QED
        BY <2>1, <2>2
<1>2. CASE r \in {"hours", "days"}
    <2>1. PICK U \in Nat \ {0} : U = Unit(r)
        BY <1>2, GraphAssumption DEF Unit
    <2>2. PICK x \in Nat : x = now - since + U - 1
        OBVIOUS
    <2>3. ago = x \div U /\ Period(r, t) = t \div U /\ Top(r, now) = (now \div U) - 1
        BY <1>2, <2>1, <2>2 DEF Ago, Period, Top
    <2>4. ago \in Nat /\ \E b \in 0 .. U - 1 : x = U * ago + b
        <3>1. Quotient(U, x, ago)
            BY <2>3, QuotientIs
        <3>. QED
            BY <3>1, Zenon DEF Quotient
    <2>5. PICK p : p = Period(r, t) /\ p \in Nat /\ \E d \in 0 .. U - 1 : t = U * p + d
        <3>1. Quotient(U, t, Period(r, t))
            BY <2>3, QuotientIs
        <3>. QED
            BY <3>1, Zenon DEF Quotient
    <2>6. PICK q : q = now \div U /\ q \in Nat /\ \E e \in 0 .. U - 1 : now = U * q + e
        <3>1. Quotient(U, now, now \div U)
            BY QuotientIs
        <3>. QED
            BY <3>1, Zenon DEF Quotient
    <2>7. p + 1 + ago <= q
        BY <2>3, <2>4, <2>5, <2>6
    <2>8. PICK G \in Nat : U * q = U * p + U + U * ago + G
        <3>1. Between(U, p, ago, q)
            BY <2>4, <2>5, <2>6, <2>7, ApartIs
        <3>. QED
            BY <3>1, Zenon DEF Between
    <2>9. PICK P, A \in Nat : P = U * p /\ A = U * ago
        BY <2>4, <2>5
    <2>10. PICK b, d, e \in 0 .. U - 1 : x = A + b /\ t = P + d /\ now = U * q + e
        BY <2>4, <2>5, <2>6, <2>9
    <2>11. now = P + U + A + G + e /\ now - since + U - 1 = A + b
        BY <2>2, <2>8, <2>9, <2>10
    <2>12. t <= since
        BY <2>10, <2>11, BeforeThen
    <2>. QED
        BY <2>4, <2>12
<1>. QED
    BY <1>1, <1>2 DEF Rings

LEMMA SkipsOld ==
    ASSUME NEW r \in Rings, NEW X, NEW E \in Seq(X), NEW last \in Nat, Spaced(r, E, last), now \in Nat, last <= now,
           NEW c \in Nat, c <= Len(E), NEW since \in Nat, since <= now, NEW ago \in Nat, ago = Ago(r, since)
    PROVE  Skips(E, c, SkipOf(c, since, ago), since) /\ Times(E, c)
<1>1. Len(E) \in Nat /\ \A k \in 1 .. c : (Len(E) - c) + k \in 1 .. Len(E)
    OBVIOUS
<1>2. Spaced(r, E, now)
    BY SpacedLater
<1>3. ASSUME NEW k \in 1 .. SkipOf(c, since, ago) PROVE Want(E, c, k).when <= since
    <2>1. ago < c /\ k \in 1 .. c - ago /\ k \in 1 .. c
        BY <1>3 DEF SkipOf
    <2>2. PICK j, t : j = (Len(E) - c) + k /\ t = E[j].when
        OBVIOUS
    <2>3. j \in 1 .. Len(E)
        BY <1>1, <2>1, <2>2
    <2>4. t \in Nat /\ Period(r, t) + (Len(E) - j) <= Top(r, now)
        BY <1>2, <2>2, <2>3 DEF Spaced
    <2>5. Period(r, t) \in Nat /\ Top(r, now) \in Int
        BY <2>4, PeriodIs, TopGrows
    <2>6. ago <= Len(E) - j
        BY <1>1, <2>1, <2>2
    <2>7. Period(r, t) + ago <= Top(r, now)
        BY <1>1, <2>3, <2>4, <2>5, <2>6
    <2>8. t <= since
        BY <2>4, <2>7, LongAgo
    <2>. QED
        BY <2>2, <2>8 DEF Want
<1>4. ASSUME NEW k \in 1 .. c
      PROVE  /\ Want(E, c, k).when \in Nat \ {0}
             /\ \A l \in k .. c : Want(E, c, k).when <= Want(E, c, l).when
    <2>1. PICK j : j = (Len(E) - c) + k /\ j \in 1 .. Len(E)
        BY <1>1
    <2>2. E[j].when \in Nat \ {0} /\ \A l \in j .. Len(E) : E[j].when <= E[l].when
        BY <1>2, <2>1 DEF Spaced
    <2>3. \A l \in k .. c : (Len(E) - c) + l \in j .. Len(E)
        BY <1>1, <2>1
    <2>. QED
        BY <2>1, <2>2, <2>3 DEF Want
<1>. QED
    BY <1>3, <1>4 DEF Skips, Times

(* Every sample keeps the records apart.                                     *)
LEMMA SpacedGrows ==
    ASSUME NEW r \in Rings, NEW hist \in Seq(Recorded), NEW c \in Recorded, InOrder(Append(hist, c)),
           c.when > 0, NEW n, n = Len(hist), NEW last \in Nat, n # 0 => last = hist[n].when,
           n # 0 => last > 0 /\ last < c.when /\ Spaced(r, Expected(r, hist), last)
    PROVE  Spaced(r, Expected(r, Append(hist, c)), c.when)
<1>. DEFINE hist1 == Append(hist, c)
<1>1. n \in Nat /\ (n = 0 <=> hist = <<>>)
    OBVIOUS
<1>2. PICK t \in Nat \ {0} : t = c.when
    BY DEF Recorded
<1>3. n = 0 => Expected(r, hist) = <<>>
    BY <1>1, NothingExpected
<1>4. CASE r = "samples"
    <2>1. Expected(r, hist1) = Append(hist, c) /\ Expected(r, hist) = hist
        BY <1>4 DEF Expected
    <2>2. Top(r, t) = t /\ Top(r, last) = last /\ Period(r, t) = t
        BY <1>4, PeriodIs DEF Top
    <2>3. c.when \in Nat \ {0} /\ c.when <= t /\ Period(r, c.when) <= Top(r, t)
        BY <1>2, <2>2
    <2>4. Len(hist) # 0 => Spaced(r, hist, last) /\ last <= c.when /\ Top(r, last) < Top(r, t)
        BY <1>2, <2>1, <2>2
    <2>5. Spaced(r, Append(hist, c), t)
        BY <2>3, <2>4, SpacedMore
    <2>. QED
        BY <1>2, <2>1, <2>5
<1>5. CASE r \in {"hours", "days"}
    <2>. HIDE DEF hist1
    <2>1. Grows(r, hist, c, n)
        BY <1>5, ExpectedGrows
    <2>2. PICK X : /\ Expected(r, hist) \in Seq(X)
                   /\ n # 0 => SumUp(hist, OfPeriod(r, hist, n)) \in X
                   /\ Expected(r, Append(hist, c)) =
                         IF n = 0 \/ Period(r, hist[n].when) = Period(r, c.when) THEN Expected(r, hist)
                         ELSE Append(Expected(r, hist), SumUp(hist, OfPeriod(r, hist, n)))
        BY <2>1, Zenon DEF Grows
    <2>3. PICK E, E1 : E = Expected(r, hist) /\ E1 = Expected(r, Append(hist, c)) /\ E \in Seq(X)
        BY <2>2
    <2>4. CASE n = 0
        <3>1. E1 = <<>>
            BY <1>3, <2>2, <2>3, <2>4
        <3>2. Spaced(r, E1, c.when)
            BY <3>1 DEF Spaced
        <3>. QED
            BY <2>3, <3>2
    <2>5. CASE n # 0 /\ Period(r, last) = Period(r, t)
        <3>1. E1 = E
            BY <1>2, <2>2, <2>3, <2>5
        <3>2. Spaced(r, E, t)
            BY <1>2, <2>3, <2>5, SpacedLater
        <3>. QED
            BY <1>2, <2>3, <3>1, <3>2
    <2>6. CASE n # 0 /\ Period(r, last) # Period(r, t)
        <3>1. PICK x \in X : x = SumUp(hist, OfPeriod(r, hist, n)) /\ E1 = Append(E, x)
            BY <1>2, <2>2, <2>3, <2>6
        <3>2. x.when = last
            <4>1. Max(OfPeriod(r, hist, n)) = n
                BY <2>6, LastOfPeriod
            <4>2. SumUp(hist, OfPeriod(r, hist, n)).when = hist[Max(OfPeriod(r, hist, n))].when
                BY DEF SumUp
            <4>. QED
                BY <2>6, <3>1, <4>1, <4>2
        <3>3. last <= t /\ last \in Nat \ {0}
            BY <1>2, <2>6
        <3>4. Period(r, last) \in Nat /\ Period(r, t) \in Nat /\ Period(r, last) <= Period(r, t)
            BY <3>3, PeriodIs
        <3>5. Top(r, t) = Period(r, t) - 1 /\ Top(r, last) = Period(r, last) - 1
            BY <1>5 DEF Top
        <3>6. Period(r, x.when) <= Top(r, t) /\ Top(r, last) < Top(r, t)
            BY <2>6, <3>2, <3>4, <3>5
        <3>7. x.when \in Nat \ {0} /\ x.when <= t /\ last <= x.when /\ Spaced(r, E, last)
            BY <2>3, <2>6, <3>2, <3>3
        <3>8. Spaced(r, Append(E, x), t)
            BY <2>3, <3>6, <3>7, SpacedMore
        <3>. QED
            BY <1>2, <2>3, <3>1, <3>8
    <2>. QED
        BY <2>4, <2>5, <2>6
<1>. QED
    BY <1>4, <1>5 DEF Rings

-----------------------------------------------------------------------------
(* What remains of a sequence without its first w elements.                  *)
Rest(r, seq, n, w) ==
    /\ DOMAIN r = 1 .. Len(r) /\ Len(r) \in 0 .. n /\ (w <= n => Len(r) = n - w) /\ (Len(r) # 0 => w <= n)
    /\ \A k \in 1 .. Len(r) : r[k] = seq[w + k]

LEMMA WithoutIs ==
    ASSUME NEW X, NEW seq \in Seq(X), NEW w \in Nat
    PROVE  /\ SubSeq(seq, w + 1, Len(seq)) \in Seq(X)
           /\ Rest(SubSeq(seq, w + 1, Len(seq)), seq, Len(seq), w)
<1>1. PICK n \in Nat : n = Len(seq)
    OBVIOUS
<1>2. PICK r : r = SubSeq(seq, w + 1, n)
    OBVIOUS
<1>3. CASE w <= n
    <2>1. PICK m \in Nat : m = n - w
        BY <1>3
    <2>0. PICK lo \in Nat : lo = w + 1
        OBVIOUS
    <2>2. w + 1 \in 1 .. n + 1 /\ n - lo + 1 = m /\ m <= n
        BY <1>3, <2>0, <2>1
    <2>9. r = SubSeq(seq, lo, n) /\ lo \in 1 .. n + 1
        BY <1>2, <2>0, <2>2
    <2>3. r = [k \in 1 .. m |-> seq[lo + k - 1]]
        BY <1>1, <2>2, <2>9
    <2>4. \A k \in 1 .. m : lo + k - 1 = w + k
        BY <2>0
    <2>5. Len(r) = m /\ DOMAIN r = 1 .. m /\ r \in Seq(X)
        BY <1>1, <1>2, <2>1, <2>2
    <2>6. \A k \in 1 .. m : r[k] = seq[w + k]
        BY <2>3, <2>4
    <2>7. m \in 0 .. n
        BY <2>2
    <2>8. Rest(r, seq, n, w)
        BY <1>3, <2>1, <2>5, <2>6, <2>7 DEF Rest
    <2>. QED
        BY <1>1, <1>2, <2>5, <2>8
<1>4. CASE ~(w <= n)
    <2>1. r = <<>>
        BY <1>1, <1>2, <1>4
    <2>2. r \in Seq(X) /\ Len(r) = 0 /\ DOMAIN r = 1 .. 0
        BY <2>1
    <2>3. 0 \in 0 .. n
        OBVIOUS
    <2>4. Rest(r, seq, n, w)
        BY <1>4, <2>2, <2>3 DEF Rest
    <2>. QED
        BY <1>1, <1>2, <2>2, <2>4
<1>. QED
    BY <1>3, <1>4

(* What is newer in a sequence in the order of time.                         *)
Ordered(seq, n) == \A k \in 1 .. n : seq[k].when \in Nat /\ \A l \in k .. n : seq[k].when <= seq[l].when

WithoutOld(v, seq, n, q) ==
    /\ q \in 0 .. n /\ \A k \in 1 .. n : seq[k].when <= reader.since <=> k <= q
    /\ Len(v) = n - q /\ DOMAIN v = 1 .. n - q
    /\ \A j \in 1 .. n - q : v[j] = seq[q + j]

LEMMA NewerIs ==
    ASSUME NEW X, NEW seq \in Seq(X), NEW n, n = Len(seq), reader.since \in Nat, Ordered(seq, n)
    PROVE  Newer(seq) \in Seq(X) /\ \E q : WithoutOld(Newer(seq), seq, n, q)
<1>0. \A k \in 1 .. n : seq[k].when \in Nat /\ \A l \in k .. n : seq[k].when <= seq[l].when
    BY DEF Ordered
<1>. DEFINE T == {k \in 1 .. n : seq[k].when <= reader.since}
<1>1. n \in Nat /\ DOMAIN seq = 1 .. n
    OBVIOUS
<1>2. PICK q \in 0 .. n : T = 1 .. q
    <2>1. CASE T = {}
        <3>1. T = 1 .. 0
            BY <2>1
        <3>. QED
            BY <1>1, <3>1
    <2>2. CASE T # {}
        <3>1. T \in SUBSET (0 .. n)
            OBVIOUS
        <3>. HIDE DEF T
        <3>2. PICK q : q \in T /\ \A k \in T : k <= q
            BY <1>1, <2>2, <3>1, HighestIs
        <3>. USE DEF T
        <3>3. ASSUME NEW k \in 1 .. q PROVE k \in T
            <4>1. k \in 1 .. n /\ q \in k .. n /\ q \in 1 .. n
                BY <1>1, <3>2
            <4>2. seq[k].when \in Nat /\ seq[q].when \in Nat /\ seq[k].when <= seq[q].when /\ seq[q].when <= reader.since
                BY <1>0, <3>2, <4>1
            <4>3. seq[k].when <= reader.since
                BY <4>2
            <4>. QED
                BY <4>1, <4>3
        <3>4. T \subseteq 1 .. q /\ q \in 0 .. n
            BY <1>1, <3>2
        <3>5. T = 1 .. q
            BY <3>3, <3>4
        <3>. QED
            BY <3>4, <3>5
    <2>. QED
        BY <2>1, <2>2
<1>3. \A k \in 1 .. n : seq[k].when <= reader.since <=> k <= q
    <2>1. \A k \in 1 .. n : k \in T <=> k \in 1 .. q
        BY <1>2
    <2>2. \A k \in 1 .. n : k \in 1 .. q <=> k <= q
        BY <1>1
    <2>. QED
        BY <2>1, <2>2
<1>4. Cardinality({k \in DOMAIN seq : seq[k].when <= reader.since}) = q
    <2>1. {k \in DOMAIN seq : seq[k].when <= reader.since} = 1 .. q
        BY <1>1, <1>2
    <2>2. q \in Int /\ 1 \in Int
        BY <1>1
    <2>3. Cardinality(1 .. q) = IF 1 > q THEN 0 ELSE q - 1 + 1
        BY <2>2, FS_Interval
    <2>4. Cardinality(1 .. q) = q
        BY <2>2, <2>3
    <2>. QED
        BY <2>1, <2>4
<1>. HIDE DEF T
<1>5. PICK w : w = Newer(seq)
    OBVIOUS
<1>6. w = SubSeq(seq, q + 1, Len(seq))
    BY <1>4, <1>5 DEF Newer
<1>7. w \in Seq(X) /\ Rest(w, seq, n, q)
    BY <1>6, WithoutIs
<1>8. Len(w) = n - q /\ DOMAIN w = 1 .. n - q /\ \A j \in 1 .. n - q : w[j] = seq[q + j]
    BY <1>1, <1>7 DEF Rest
<1>11. WithoutOld(w, seq, n, q)
    BY <1>3, <1>8 DEF WithoutOld
<1>. QED
    BY <1>5, <1>7, <1>11

LEMMA SameSeq ==
    ASSUME NEW X, NEW a \in Seq(X), NEW Y, NEW b \in Seq(Y), Len(a) = Len(b), \A j \in 1 .. Len(a) : a[j] = b[j]
    PROVE  a = b
<1>1. PICK n \in Nat : n = Len(a)
    OBVIOUS
<1>2. a = [j \in 1 .. n |-> a[j]] /\ b = [j \in 1 .. n |-> b[j]]
    BY <1>1
<1>. QED
    BY <1>1, <1>2

(* The newest c records of all that were written.                            *)
LEMMA WantedIs ==
    ASSUME NEW X, NEW E \in Seq(X), NEW c, c = Least(Len(E), NMax)
    PROVE  /\ Len(LastOf(E, NMax)) = c /\ LastOf(E, NMax) \in Seq(X) /\ c \in Nat /\ c <= Len(E)
           /\ \A k \in 1 .. c : LastOf(E, NMax)[k] = Want(E, c, k)
<1>1. NMax \in Nat \ {0} /\ Len(E) \in Nat /\ c \in Nat /\ c <= Len(E)
    BY GraphAssumption DEF Least
<1>2. Min({NMax, Len(E)}) = c
    <2>1. PICK a \in Int, b \in Int : a = NMax /\ b = Len(E)
        BY <1>1
    <2>2. Min({a, b}) = Least(a, b)
        BY OfTwo
    <2>3. Least(a, b) = c
        BY <1>1, <2>1 DEF Least
    <2>. QED
        BY <2>1, <2>2, <2>3
<1>3. PICK w : w = LastOf(E, NMax)
    OBVIOUS
<1>4. w = SubSeq(E, Len(E) - c + 1, Len(E))
    BY <1>2, <1>3 DEF LastOf
<1>5. Len(w) = c /\ \A k \in 1 .. c : w[k] = E[(Len(E) - c) + k]
    BY <1>1, <1>4, LastPart
<1>6. w \in Seq(X)
    BY <1>1, <1>4
<1>. QED
    BY <1>1, <1>3, <1>5, <1>6 DEF Want

LEMMA DoneIs ==
    ASSUME NEW X, NEW E \in Seq(X), NEW c, c = Least(Len(E), NMax), NEW w \in Nat,
           NEW p \in 0 .. c, NEW i \in Nat, p + i >= c,
           NEW since \in Nat, since = reader.since, NEW S, NEW out \in Seq(S),
           Times(E, c), Skips(E, c, p, since), Reads(out, E, c, p, i, w, since),
           NEW want, want = LastOf(E, NMax)
    PROVE  /\ w = 0 => out = Newer(want)
           /\ \A k \in DOMAIN Newer(SubSeq(want, w + 1, Len(want))) :
                 Contains(out, Newer(SubSeq(want, w + 1, Len(want)))[k])
<1>1. /\ Len(want) = c /\ want \in Seq(X) /\ c \in Nat
      /\ \A k \in 1 .. c : want[k] = Want(E, c, k)
    BY WantedIs
<1>2. Ordered(want, c)
    <2>1. ASSUME NEW k \in 1 .. c PROVE want[k].when \in Nat /\ \A l \in k .. c : want[k].when <= want[l].when
        <3>1. Want(E, c, k).when \in Nat \ {0} /\ \A l \in k .. c : Want(E, c, k).when <= Want(E, c, l).when
            BY DEF Times
        <3>2. \A l \in k .. c : l \in 1 .. c
            BY <1>1
        <3>. QED
            BY <1>1, <3>1, <3>2
    <2>. QED
        BY <2>1 DEF Ordered
<1>3. ASSUME w = 0 PROVE out = Newer(want)
    <2>1. PICK v : v = Newer(want) /\ v \in Seq(X) /\ \E q : WithoutOld(v, want, c, q)
        BY <1>1, <1>2, NewerIs
    <2>2. PICK q : WithoutOld(v, want, c, q)
        BY <2>1
    <2>3. /\ q \in 0 .. c /\ \A k \in 1 .. c : want[k].when <= since <=> k <= q
          /\ Len(v) = c - q /\ \A j \in 1 .. c - q : v[j] = want[q + j]
        BY <2>2 DEF WithoutOld
    <2>4. UpTo(E, c, since, q)
        BY <1>1, <2>3 DEF UpTo
    <2>5. /\ Len(out) = IF Least(p + i, c) < q THEN 0 ELSE Least(p + i, c) - q
          /\ \A j \in DOMAIN out : out[j] = Want(E, c, q + j)
        BY <1>3, <2>4 DEF Reads
    <2>6. Least(p + i, c) = c
        BY <1>1 DEF Least
    <2>7. Len(out) = c - q
        BY <1>1, <2>3, <2>5, <2>6
    <2>8. ASSUME NEW j \in 1 .. Len(out) PROVE out[j] = v[j]
        <3>1. j \in 1 .. c - q /\ q + j \in 1 .. c /\ j \in DOMAIN out
            BY <1>1, <2>3, <2>7
        <3>2. out[j] = want[q + j]
            BY <1>1, <2>5, <3>1
        <3>. QED
            BY <2>3, <3>1, <3>2
    <2>9. Len(out) = Len(v)
        BY <2>3, <2>7
    <2>10. out = v
        BY <2>1, <2>8, <2>9, SameSeq
    <2>. QED
        BY <2>1, <2>10
<1>4. PICK r : r = SubSeq(want, w + 1, Len(want))
    OBVIOUS
<1>5. r \in Seq(X) /\ Rest(r, want, c, w)
    BY <1>1, <1>4, WithoutIs
<1>0. PICK n \in Nat : n = Len(r)
    BY <1>5
<1>6. /\ n <= c /\ (n # 0 => n = c - w)
      /\ \A k \in 1 .. n : r[k] = want[w + k] /\ w + k \in 1 .. c
    <2>1. n \in 0 .. c /\ (n # 0 => n = c - w) /\ \A k \in 1 .. n : r[k] = want[w + k]
        BY <1>0, <1>1, <1>5 DEF Rest
    <2>2. \A k \in 1 .. n : w + k \in 1 .. c
        BY <1>1, <2>1
    <2>. QED
        BY <1>1, <2>1, <2>2
<1>7. Ordered(r, n)
    <2>1. ASSUME NEW k \in 1 .. n PROVE r[k].when \in Nat /\ \A l \in k .. n : r[k].when <= r[l].when
        <3>1. w + k \in 1 .. c /\ r[k] = want[w + k]
            BY <1>6
        <3>2. ASSUME NEW l \in k .. n PROVE r[k].when <= r[l].when
            <4>1. l \in 1 .. n /\ w + l \in (w + k) .. c /\ r[l] = want[w + l]
                BY <1>0, <1>6
            <4>. QED
                BY <1>2, <3>1, <4>1 DEF Ordered
        <3>. QED
            BY <1>2, <3>1, <3>2 DEF Ordered
    <2>. QED
        BY <2>1 DEF Ordered
<1>8. PICK v : v = Newer(r) /\ \E q : WithoutOld(v, r, n, q)
    BY <1>0, <1>5, <1>7, NewerIs
<1>9. PICK q : WithoutOld(v, r, n, q)
    BY <1>8
<1>10. /\ q \in 0 .. n /\ \A k \in 1 .. n : r[k].when <= since <=> k <= q
       /\ DOMAIN v = 1 .. n - q /\ \A j \in 1 .. n - q : v[j] = r[q + j]
    BY <1>9 DEF WithoutOld
<1>11. ASSUME NEW j \in DOMAIN v PROVE Contains(out, v[j])
    <2>1. PICK l : l = q + j /\ l \in 1 .. n /\ ~(l <= q) /\ v[j] = r[l]
        BY <1>0, <1>10
    <2>2. w + l \in 1 .. c /\ r[l] = want[w + l]
        BY <1>6, <2>1
    <2>3. PICK k \in 1 .. c : k = w + l
        BY <2>2
    <2>4. r[l] = Want(E, c, k)
        BY <1>1, <2>2, <2>3
    <2>5. k > w
        BY <1>1, <2>1, <2>3
    <2>6. Want(E, c, k).when > since
        <3>1. ~(r[l].when <= since) /\ r[l].when \in Nat
            BY <1>7, <1>10, <2>1 DEF Ordered
        <3>. QED
            BY <2>4, <3>1
    <2>7. (k - 1) - p < i
        BY <1>1
    <2>8. PICK h \in DOMAIN out : out[h] = Want(E, c, k)
        BY <2>5, <2>6, <2>7 DEF Reads
    <2>9. h \in 1 .. Len(out)
        BY <2>8
    <2>. QED
        BY <2>1, <2>4, <2>8, <2>9 DEF Contains
<1>. QED
    BY <1>3, <1>4, <1>8, <1>11

-----------------------------------------------------------------------------
(* The invariant of a reader: what was added when it began, and the records  *)
(* that were expected then, are in the ring it reads, and in what it has     *)
(* read, but for the oldest ones that have been overwritten since.  The      *)
(* header's index is as many records further round the ring.                 *)
Begun == SubSeq(added, 1, reader.had)
Found == Expected(reader.r, Begun)
Late  == IF Unfinished THEN 1 ELSE 0

ReaderTypes ==
    /\ reader = [pc |-> "read", r |-> reader.r, since |-> reader.since, i |-> reader.i,
                 out |-> reader.out, sect |-> reader.sect, range |-> reader.range, ago |-> reader.ago,
                 had |-> reader.had, before |-> reader.before, touched |-> reader.touched]
    /\ reader.r \in Rings /\ reader.since \in Nat /\ reader.i \in Nat /\ reader.ago \in Nat
    /\ reader.before \in Nat /\ reader.before <= writes
    /\ reader.had \in 1 .. Len(added) /\ reader.sect \in Sections
    /\ \E S : reader.out \in Seq(S)

WriterAt ==
    \E a, m \in Nat : /\ reader.sect.idx + a = Laps(m) + Header.sect[reader.r].idx
                      /\ a + Late <= Overwritten

RingIsKept ==
    NoDayMissed(Begun) =>
        Kept(file.ring[reader.r], reader.sect.idx, reader.sect.count, Found, Overwritten)

SkipsNow == SkipOf(reader.sect.count, reader.since, reader.ago)

Finds ==
    NoDayMissed(Begun) /\ InReach =>
        /\ Times(Found, reader.sect.count)
        /\ Skips(Found, reader.sect.count, SkipsNow, reader.since)
        /\ Covers(reader.range.start, reader.range.num, reader.sect.idx, reader.sect.count, SkipsNow, reader.since)
        /\ Reads(reader.out, Found, reader.sect.count, SkipsNow, reader.i, Overwritten, reader.since)

SlotsAhead ==
    wpc # "idle" => \A r \in Rings : \/ mem.sect[r].idx = Header.sect[r].idx
                                     \/ mem.sect[r].idx = (Header.sect[r].idx + 1) % NMax

Later == added # <<>> => LastAdded.when > 0 /\ (wpc # "idle" => LastAdded.when < cur.when)

AllSpaced == added # <<>> => \A r \in Rings : Spaced(r, Expected(r, added), LastAdded.when)

WriterOk == writes \in Nat /\ now >= DAY /\ SlotsAhead /\ Later /\ AllSpaced
ReaderOk == reader = NoReader \/ (ReaderTypes /\ WriterAt /\ RingIsKept /\ Finds)
ReadIInv == GraphIInv /\ WriterOk /\ ReaderOk

LEMMA FoundIsSeq ==
    ASSUME GraphTypes, ReaderTypes
    PROVE  /\ Begun \in Seq(Recorded) /\ Len(Begun) = reader.had
           /\ Len(Found) \in Nat /\ \E X : Found \in Seq(X)
<1>1. added \in Seq(Recorded) /\ reader.had \in 1 .. Len(added) /\ reader.r \in Rings
    BY DEF GraphTypes, ReaderTypes
<1>2. Begun \in Seq(Recorded) /\ Len(Begun) = reader.had
    BY <1>1 DEF Begun
<1>3. PICK X : Found \in Seq(X)
    BY <1>1, <1>2, ExpectedIsSeq DEF Found
<1>. QED
    BY <1>2, <1>3

LEMMA OverwrittenGrows ==
    ASSUME ReaderTypes, reader' = reader, writes \in Nat, writes' \in Nat, writes <= writes'
    PROVE  /\ Overwritten \in Nat /\ Overwritten' \in Nat
           /\ Overwritten <= Overwritten' /\ (writes < writes' => Overwritten + 1 <= Overwritten')
<1>1. reader.before \in Nat /\ reader.before <= writes
    BY DEF ReaderTypes
<1>2. PICK t \in Nat : t = IF reader.touched THEN 1 ELSE 0
    OBVIOUS
<1>3. Overwritten = writes - reader.before + t /\ Overwritten' = writes' - reader.before + t
    BY <1>2 DEF Overwritten
<1>4. PICK b, x, y \in Nat : b = reader.before /\ x = writes /\ y = writes'
    BY <1>1
<1>5. b <= x /\ x <= y
    BY <1>1, <1>4
<1>6. /\ x - b + t \in Nat /\ y - b + t \in Nat
      /\ x - b + t <= y - b + t /\ (x < y => x - b + t + 1 <= y - b + t)
    BY <1>2, <1>4, <1>5
<1>. QED
    BY <1>3, <1>4, <1>6

(* What was there when the reader began.                                     *)
LEMMA BegunStays ==
    ASSUME ReaderTypes, reader' = reader, added \in Seq(Recorded),
           NEW c \in Recorded, added' = added \/ added' = Append(added, c)
    PROVE  Begun' = Begun /\ Found' = Found /\ reader.had \in 1 .. Len(added')
<1>1. PICK h \in Nat : h = reader.had /\ h \in 1 .. Len(added)
    BY DEF ReaderTypes
<1>2. CASE added' = Append(added, c)
    <2>1. SubSeq(Append(added, c), 1, h) = SubSeq(added, 1, h)
        BY <1>1
    <2>2. h \in 1 .. Len(Append(added, c))
        BY <1>1
    <2>. QED
        BY <1>1, <1>2, <2>1, <2>2 DEF Begun, Found
<1>3. CASE added' = added
    BY <1>1, <1>3 DEF Begun, Found
<1>. QED
    BY <1>2, <1>3

LEMMA TypesStay ==
    ASSUME ReaderTypes, reader' = reader, reader.had \in 1 .. Len(added'), writes \in Nat, writes' \in Nat, writes <= writes'
    PROVE  ReaderTypes'
<1>1. reader.before \in Nat /\ reader.before <= writes
    BY DEF ReaderTypes
<1>2. reader.before <= writes'
    BY <1>1
<1>. QED
    BY <1>2 DEF ReaderTypes

(* What a writer does to the ring, and the header, of a reader.              *)
LEMMA WriterKeeps ==
    ASSUME GraphTypes, ReaderTypes, WriterAt, RingIsKept, Finds, reader' = reader, Begun' = Begun, Found' = Found,
           writes \in Nat, writes' \in Nat, writes <= writes',
           \/ file'.ring[reader.r] = file.ring[reader.r]
           \/ /\ Unfinished \/ writes < writes'
              /\ \E x : file'.ring[reader.r] = [file.ring[reader.r] EXCEPT ![Header.sect[reader.r].idx] = x]
    PROVE  RingIsKept' /\ Finds'
<1>1. PICK w, w1 \in Nat : w = Overwritten /\ w1 = Overwritten' /\ w <= w1 /\ (writes < writes' => w + 1 <= w1)
    BY OverwrittenGrows
<1>2. PICK E, slot, c, ring, at : /\ E = Found /\ slot = reader.sect.idx /\ c = reader.sect.count
                                  /\ ring = file.ring[reader.r] /\ at = Header.sect[reader.r].idx
    OBVIOUS
<1>3. c \in Nat /\ Len(E) \in Nat /\ at \in 0 .. NMax - 1
    <2>1. reader.sect \in Sections /\ reader.r \in Rings
        BY DEF ReaderTypes
    <2>2. Header.sect[reader.r] \in Sections
        BY <2>1, HeaderIs DEF GraphTypes
    <2>3. NMax \in Nat
        BY GraphAssumption
    <2>4. c \in 0 .. NMax /\ at \in 0 .. NMax - 1
        BY <1>2, <2>1, <2>2 DEF Sections
    <2>. QED
        BY <1>2, <2>3, <2>4, FoundIsSeq
<1>4. NoDayMissed(Begun) => Kept(file'.ring[reader.r], slot, c, E, w1)
    <2>. SUFFICES ASSUME NoDayMissed(Begun) PROVE Kept(file'.ring[reader.r], slot, c, E, w1)
        OBVIOUS
    <2>1. Kept(ring, slot, c, E, w)
        BY <1>1, <1>2 DEF RingIsKept
    <2>2. CASE file'.ring[reader.r] = ring
        <3>1. Kept(ring, slot, c, E, w1)
            BY <1>1, <1>3, <2>1, KeptMore
        <3>. QED
            BY <2>2, <3>1
    <2>3. CASE /\ Unfinished \/ writes < writes'
               /\ \E x : file'.ring[reader.r] = [ring EXCEPT ![at] = x]
        <3>1. PICK x : file'.ring[reader.r] = [ring EXCEPT ![at] = x]
            BY <2>3
        <3>2. PICK a, m \in Nat : slot + a = Laps(m) + at /\ a + Late <= w
            BY <1>1, <1>2 DEF WriterAt
        <3>3. a + 1 <= w1
            <4>1. CASE Unfinished
                <5>1. a + 1 <= w
                    BY <3>2, <4>1 DEF Late
                <5>. QED
                    BY <1>1, <5>1
            <4>2. CASE ~Unfinished /\ writes < writes'
                <5>1. a + 0 <= w
                    BY <3>2, <4>2 DEF Late
                <5>2. w + 1 <= w1
                    BY <1>1, <4>2
                <5>. QED
                    BY <1>1, <5>1, <5>2
            <4>. QED
                BY <2>3, <4>1, <4>2
        <3>4. Kept([ring EXCEPT ![at] = x], slot, c, E, w1)
            BY <1>1, <1>3, <2>1, <3>2, <3>3, KeptBeside
        <3>. QED
            BY <3>1, <3>4
    <2>. QED
        BY <1>2, <2>2, <2>3
<1>5. RingIsKept'
    BY <1>1, <1>2, <1>4 DEF RingIsKept
<1>6. SkipsNow' = SkipsNow /\ InReach' = InReach
    BY DEF SkipsNow, InReach
<1>7. Finds'
    <2>. SUFFICES ASSUME NoDayMissed(Begun), InReach
         PROVE  /\ Times(E, c) /\ Skips(E, c, SkipsNow, reader.since)
                /\ Covers(reader.range.start, reader.range.num, slot, c, SkipsNow, reader.since)
                /\ Reads(reader.out, E, c, SkipsNow, reader.i, w1, reader.since)
        BY <1>1, <1>2, <1>6 DEF Finds
    <2>1. /\ Times(E, c) /\ Skips(E, c, SkipsNow, reader.since)
          /\ Covers(reader.range.start, reader.range.num, slot, c, SkipsNow, reader.since)
          /\ Reads(reader.out, E, c, SkipsNow, reader.i, w, reader.since)
        BY <1>1, <1>2 DEF Finds
    <2>2. Reads(reader.out, E, c, SkipsNow, reader.i, w1, reader.since)
        BY <1>1, <1>3, <2>1, ReadsMore
    <2>. QED
        BY <2>1, <2>2
<1>. QED
    BY <1>5, <1>7

LEMMA LateIs == Late \in {0, 1} /\ (Unfinished <=> Late = 1)
BY DEF Late

LEMMA AtStays ==
    ASSUME ReaderTypes, WriterAt, reader' = reader, writes \in Nat, writes' \in Nat, writes <= writes',
           Header'.sect[reader.r].idx = Header.sect[reader.r].idx,
           (Unfinished' => Unfinished) \/ writes < writes'
    PROVE  WriterAt'
<1>1. PICK a, m \in Nat : /\ reader.sect.idx + a = Laps(m) + Header.sect[reader.r].idx
                         /\ a + Late <= Overwritten
    BY DEF WriterAt
<1>2. PICK w \in Nat, w1 \in Nat : w = Overwritten /\ w1 = Overwritten' /\ w <= w1 /\ (writes < writes' => w + 1 <= w1)
    BY OverwrittenGrows
<1>3. PICK l \in {0, 1}, l1 \in {0, 1} : l = Late /\ l1 = Late' /\ (l1 <= l \/ writes < writes')
    BY DEF Late
<1>4. a + l1 <= w1
    BY <1>1, <1>2, <1>3
<1>5. reader'.sect.idx + a = Laps(m) + Header'.sect[reader'.r].idx
    BY <1>1
<1>. QED
    BY <1>2, <1>3, <1>4, <1>5 DEF WriterAt

LEMMA AtMoves ==
    ASSUME ReaderTypes, WriterAt, reader' = reader, writes \in Nat, writes' = writes, Unfinished, ~Unfinished',
           Header \in Headers,
           \/ Header'.sect[reader.r].idx = Header.sect[reader.r].idx
           \/ Header'.sect[reader.r].idx = (Header.sect[reader.r].idx + 1) % NMax
    PROVE  WriterAt'
<1>1. PICK a, m \in Nat : /\ reader.sect.idx + a = Laps(m) + Header.sect[reader.r].idx
                         /\ a + 1 <= Overwritten
    BY DEF WriterAt, Late
<1>2. CASE Header'.sect[reader.r].idx = Header.sect[reader.r].idx
    BY <1>2, AtStays
<1>3. CASE Header'.sect[reader.r].idx = (Header.sect[reader.r].idx + 1) % NMax
    <2>1. PICK slot, at : slot = reader.sect.idx /\ at = Header.sect[reader.r].idx
        OBVIOUS
    <2>2. at \in 0 .. NMax - 1 /\ slot \in 0 .. NMax - 1
        <3>1. Header.sect[reader.r] \in Sections /\ reader.sect \in Sections
            BY HeaderIs DEF ReaderTypes
        <3>. QED
            BY <2>1, <3>1 DEF Sections
    <2>3. PICK n \in Nat : slot + (a + 1) = Laps(n) + ((at + 1) % NMax)
        <3>1. slot \in Nat
            BY <2>2, GraphAssumption
        <3>. QED
            BY <1>1, <2>1, <2>2, <3>1, RoundIs
    <2>4. Late' = 0 /\ Overwritten' = Overwritten
        BY DEF Late, Overwritten
    <2>5. PICK b \in Nat : b = a + 1
        OBVIOUS
    <2>6. b + 0 <= Overwritten
        BY <1>1, <2>5
    <2>7. reader'.sect.idx + b = Laps(n) + Header'.sect[reader'.r].idx
        BY <1>3, <2>1, <2>3, <2>5
    <2>8. b + Late' <= Overwritten'
        BY <2>4, <2>6
    <2>. QED
        BY <2>7, <2>8 DEF WriterAt
<1>. QED
    BY <1>2, <1>3

(* A reader at the step of a writer that adds nothing yet.                   *)
LEMMA ReaderBeside ==
    ASSUME GraphTypes, WriterOk, ReaderOk, reader' = reader, added' = added, writes' \in Nat, writes <= writes',
           Header' = Header, (Unfinished' => Unfinished) \/ writes < writes',
           \A r \in Rings :
              \/ reader # NoReader => file'.ring[r] = file.ring[r]
              \/ /\ Unfinished \/ writes < writes'
                 /\ \E x : file'.ring[r] = [file.ring[r] EXCEPT ![Header.sect[r].idx] = x]
    PROVE  ReaderOk'
<1>. SUFFICES ASSUME reader # NoReader PROVE ReaderOk'
    BY DEF ReaderOk
<1>1. ReaderTypes /\ WriterAt /\ RingIsKept /\ Finds
    BY DEF ReaderOk
<1>2. Begun' = Begun /\ Found' = Found /\ reader.had \in 1 .. Len(added') /\ reader.r \in Rings
    BY <1>1 DEF Begun, Found, ReaderTypes
<1>3. writes \in Nat
    BY DEF WriterOk
<1>4. ReaderTypes'
    BY <1>1, <1>2, <1>3, TypesStay
<1>5. WriterAt'
    BY <1>1, <1>3, AtStays
<1>6. RingIsKept' /\ Finds'
    BY <1>1, <1>2, <1>3, WriterKeeps
<1>. QED
    BY <1>4, <1>5, <1>6 DEF ReaderOk

LEMMA AddOpenReads ==
    ASSUME OneAMinute, ReadIInv, NEW s \in Samples, NEW dt \in Gaps, AddOpen(s, dt)
    PROVE  WriterOk' /\ ReaderOk'
<1>1. /\ wpc = "idle" /\ wpc' = "sample" /\ now' = now + dt /\ UNCHANGED <<reader, added, writes, torn>>
      /\ cur' = [when |-> now', val |-> s.val, status |-> StoredAs(s.status)]
      /\ file' = IF file.h = NoHeader THEN Empty ELSE file
      /\ mem' = IF file.h = NoHeader THEN newHeader ELSE file.h
    BY DEF AddOpen
<1>2. GraphTypes /\ WriterOk /\ ReaderOk
    BY DEF ReadIInv, GraphIInv
<1>3. dt \in Nat \ {0} /\ DAY \in Nat \ {0}
    BY GraphAssumption DEF OneAMinute
<1>4. now \in Nat /\ now' \in Nat /\ now < now' /\ now >= DAY /\ now' >= DAY /\ writes \in Nat
    <2>1. now \in Nat /\ now >= DAY /\ writes \in Nat
        BY <1>2 DEF GraphTypes, WriterOk
    <2>2. now' = now + dt
        BY <1>1
    <2>. QED
        BY <1>3, <2>1, <2>2
<1>5. file'.h = file.h /\ Header' = Header /\ mem' = Header /\ LastAdded' = LastAdded
    <2>1. Empty.h = NoHeader
        BY DEF Empty
    <2>. QED
        BY <1>1, <2>1 DEF Header, LastAdded
<1>6. SlotsAhead'
    BY <1>5 DEF SlotsAhead
<1>7. Later'
    <2>. SUFFICES ASSUME added # <<>> PROVE LastAdded.when > 0 /\ LastAdded.when < now'
        BY <1>1, <1>5 DEF Later
    <2>1. LastAdded.when > 0
        BY <1>2 DEF WriterOk, Later
    <2>2. LastAdded.when \in Nat /\ LastAdded.when <= now
        <3>1. added \in Seq(Recorded) /\ \A i \in 1 .. Len(added) : added[i].when <= now
            BY <1>2 DEF GraphTypes
        <3>2. Len(added) \in 1 .. Len(added)
            BY <3>1
        <3>. QED
            BY <3>1, <3>2, SamplesAre DEF LastAdded
    <2>. QED
        BY <1>4, <2>1, <2>2
<1>8. AllSpaced'
    BY <1>1, <1>2, <1>5 DEF WriterOk, AllSpaced
<1>9. reader # NoReader => file' = file
    <2>. SUFFICES ASSUME reader # NoReader PROVE file.h # NoHeader
        BY <1>1
    <2>1. ReaderTypes
        BY <1>2 DEF ReaderOk
    <2>2. reader.had \in 1 .. Len(added) /\ added \in Seq(Recorded)
        BY <1>2, <2>1 DEF ReaderTypes, GraphTypes
    <2>3. added # <<>>
        BY <2>2
    <2>. QED
        BY <1>2, <2>3 DEF GraphTypes
<1>10. Unfinished' <=> Unfinished
    BY <1>1 DEF Unfinished
<1>11. ReaderOk'
    BY <1>1, <1>2, <1>4, <1>5, <1>9, <1>10, ReaderBeside
<1>. QED
    BY <1>1, <1>4, <1>6, <1>7, <1>8, <1>11 DEF WriterOk

LEMMA AddSampleReads ==
    ASSUME ReadIInv, AddSample
    PROVE  WriterOk' /\ ReaderOk'
<1>. DEFINE i == mem.sect["samples"].idx
<1>1. /\ wpc = "sample" /\ wpc' = "days" /\ UNCHANGED <<cur, reader, now, added, torn>> /\ writes' = writes + 1
      /\ file' = [file EXCEPT !.ring["samples"][i] = cur]
      /\ mem' = [mem EXCEPT !.sect["samples"] = Written(@)]
    BY DEF AddSample
<1>2. GraphTypes /\ WriterOk /\ ReaderOk /\ "samples" \in Rings
    BY DEF ReadIInv, GraphIInv, Rings
<1>3. /\ file = [h |-> file.h, ring |-> file.ring] /\ DOMAIN file.ring = Rings
      /\ mem \in Headers /\ Header \in Headers
    BY <1>1, <1>2 DEF GraphTypes
<1>4. \A r \in Rings : mem.sect[r] = Header.sect[r]
    <2>1. \A r \in Rings : ~Counted(r)
        BY <1>1 DEF Counted
    <2>. QED
        BY <1>1, <2>1 DEF ReadIInv, GraphIInv
<1>5. writes \in Nat /\ writes' \in Nat /\ writes < writes' /\ writes <= writes'
    BY <1>1, <1>2 DEF WriterOk
<1>6. /\ file'.h = file.h /\ file'.ring["samples"] = [file.ring["samples"] EXCEPT ![i] = cur]
      /\ \A q \in Rings : q # "samples" => file'.ring[q] = file.ring[q]
    <2>. HIDE DEF i
    <2>. QED
        BY <1>1, <1>2, <1>3, FileUpdate
<1>7. Header' = Header /\ LastAdded' = LastAdded
    BY <1>1, <1>6 DEF Header, LastAdded
<1>8. SlotsAhead'
    <2>1. PICK w : w = Written(mem.sect["samples"])
        OBVIOUS
    <2>2. mem.sect["samples"] \in Sections
        BY <1>2, <1>3, HeaderIs
    <2>3. w.idx = (Header.sect["samples"].idx + 1) % NMax
        BY <1>2, <1>4, <2>1, <2>2, WrittenIs
    <2>4. mem'.sect["samples"] = w /\ \A q \in Rings : q # "samples" => mem'.sect[q] = mem.sect[q]
        <3>1. PICK R : R = mem.sect
            OBVIOUS
        <3>2. mem = [lastt |-> mem.lastt, sect |-> R] /\ R \in [Rings -> Sections]
            BY <1>3, <3>1 DEF Headers
        <3>3. mem' = [lastt |-> mem.lastt, sect |-> [R EXCEPT !["samples"] = w]]
            BY <1>1, <2>1, <3>2
        <3>. QED
            BY <1>2, <3>1, <3>2, <3>3
    <2>. QED
        BY <1>4, <1>7, <2>3, <2>4 DEF SlotsAhead
<1>9. Later' /\ AllSpaced'
    BY <1>1, <1>2, <1>7 DEF WriterOk, Later, AllSpaced
<1>10. \A r \in Rings :
              \/ file'.ring[r] = file.ring[r]
              \/ \E x : file'.ring[r] = [file.ring[r] EXCEPT ![Header.sect[r].idx] = x]
    BY <1>2, <1>4, <1>6
<1>11. ReaderOk'
    BY <1>1, <1>2, <1>5, <1>7, <1>10, ReaderBeside
<1>. QED
    BY <1>1, <1>2, <1>5, <1>8, <1>9, <1>11 DEF WriterOk

LEMMA RollReads ==
    ASSUME ReadIInv, NEW r \in {"hours", "days"}, NEW next,
           r = "days" => next = "hours", r = "hours" => next = "save", Roll(r, next)
    PROVE  WriterOk' /\ ReaderOk'
<1>. DEFINE i == mem.sect[r].idx
            sum == summarize(mem.sect[r], mem.lastt)
<1>1. /\ wpc = r /\ wpc' = next /\ UNCHANGED <<cur, reader, now, added, writes, torn>>
      /\ file' = IF Rolls(r) THEN [file EXCEPT !.ring[r][i] = sum] ELSE file
      /\ mem' = [mem EXCEPT !.sect[r] = add(IF Rolls(r) THEN reset(Written(mem.sect[r]), cur.val) ELSE mem.sect[r]),
                            !.lastt = IF next = "save" THEN cur.when ELSE @]
    BY DEF Roll
<1>2. GraphTypes /\ WriterOk /\ ReaderOk /\ r \in Rings
    BY DEF ReadIInv, GraphIInv, Rings
<1>3. /\ file = [h |-> file.h, ring |-> file.ring] /\ DOMAIN file.ring = Rings
      /\ mem \in Headers /\ cur \in Recorded /\ Header \in Headers
    BY <1>1, <1>2 DEF GraphTypes
<1>4. mem.sect[r] = Header.sect[r] /\ mem.sect[r] \in Sections
    <2>1. ~Counted(r)
        BY <1>1 DEF Counted
    <2>. QED
        BY <1>1, <1>2, <1>3, <2>1, HeaderIs DEF ReadIInv, GraphIInv
<1>. HIDE DEF i, sum
<1>6. /\ file'.h = file.h
      /\ file'.ring[r] = file.ring[r] \/ file'.ring[r] = [file.ring[r] EXCEPT ![i] = sum]
      /\ \A q \in Rings : q # r => file'.ring[q] = file.ring[q]
    <2>1. CASE Rolls(r)
        <3>1. file' = [file EXCEPT !.ring[r][i] = sum]
            BY <1>1, <2>1
        <3>. QED
            BY <1>2, <1>3, <2>1, <3>1, FileUpdate
    <2>2. CASE ~Rolls(r)
        BY <1>1, <1>3, <2>2
    <2>. QED
        BY <2>1, <2>2
<1>7. Header' = Header /\ LastAdded' = LastAdded
    BY <1>1, <1>6 DEF Header, LastAdded
<1>8. SlotsAhead'
    <2>1. PICK s1 : s1 = add(IF Rolls(r) THEN reset(Written(mem.sect[r]), cur.val) ELSE mem.sect[r])
        OBVIOUS
    <2>2. s1.idx = Header.sect[r].idx \/ s1.idx = (Header.sect[r].idx + 1) % NMax
        <3>1. CASE Rolls(r)
            <4>1. PICK z : z = reset(Written(mem.sect[r]), cur.val)
                OBVIOUS
            <4>2. z \in Sections /\ z.idx = (mem.sect[r].idx + 1) % NMax
                BY <1>3, <1>4, <4>1, BegunIs
            <4>3. s1 = add(z)
                BY <2>1, <3>1, <4>1
            <4>4. s1.idx = z.idx
                BY <1>3, <4>2, <4>3, AddIs
            <4>. QED
                BY <1>4, <4>2, <4>4
        <3>2. CASE ~Rolls(r)
            <4>1. s1 = add(mem.sect[r])
                BY <2>1, <3>2
            <4>2. s1.idx = mem.sect[r].idx
                BY <1>3, <1>4, <4>1, AddIs
            <4>. QED
                BY <1>4, <4>2
        <3>. QED
            BY <3>1, <3>2
    <2>3. mem'.sect[r] = s1 /\ \A q \in Rings : q # r => mem'.sect[q] = mem.sect[q]
        <3>1. PICK R, l : R = mem.sect /\ l = mem.lastt
            OBVIOUS
        <3>2. mem = [lastt |-> l, sect |-> R] /\ R \in [Rings -> Sections]
            BY <1>3, <3>1 DEF Headers
        <3>3. PICK t : mem' = [mem EXCEPT !.sect[r] = s1, !.lastt = t]
            BY <1>1, <2>1
        <3>4. mem' = [lastt |-> t, sect |-> [R EXCEPT ![r] = s1]]
            BY <3>2, <3>3
        <3>. QED
            BY <1>2, <3>1, <3>2, <3>4
    <2>4. \A q \in Rings : q # r => mem.sect[q].idx = Header.sect[q].idx \/ mem.sect[q].idx = (Header.sect[q].idx + 1) % NMax
        BY <1>1, <1>2 DEF WriterOk, SlotsAhead
    <2>. QED
        BY <1>7, <2>2, <2>3, <2>4 DEF SlotsAhead
<1>9. Later' /\ AllSpaced'
    BY <1>1, <1>2, <1>7 DEF WriterOk, Later, AllSpaced
<1>10. \A q \in Rings :
              \/ file'.ring[q] = file.ring[q]
              \/ \E x : file'.ring[q] = [file.ring[q] EXCEPT ![Header.sect[q].idx] = x]
    <2>. TAKE q \in Rings
    <2>1. CASE q = r
        BY <1>2, <1>4, <1>6, <2>1 DEF i
    <2>2. CASE q # r
        BY <1>6, <2>2
    <2>. QED
        BY <2>1, <2>2
<1>11. Unfinished /\ Unfinished' /\ writes' \in Nat /\ writes <= writes'
    BY <1>1, <1>2 DEF Unfinished, WriterOk
<1>12. ReaderOk'
    BY <1>1, <1>2, <1>7, <1>10, <1>11, ReaderBeside
<1>. QED
    BY <1>1, <1>2, <1>8, <1>9, <1>12 DEF WriterOk

LEMMA SaveReads ==
    ASSUME ReadIInv, save
    PROVE  WriterOk' /\ ReaderOk'
<1>1. /\ wpc = "save" /\ wpc' = "idle" /\ UNCHANGED <<reader, now, writes>> /\ torn' = FALSE
      /\ file' = [file EXCEPT !.h = mem] /\ added' = Append(added, cur)
    BY DEF save
<1>2. GraphTypes /\ WriterOk /\ ReaderOk
    BY DEF ReadIInv, GraphIInv
<1>3. /\ file = [h |-> file.h, ring |-> file.ring] /\ DOMAIN file.ring = Rings /\ Header \in Headers
      /\ mem \in Headers /\ cur \in Recorded /\ cur.when = now /\ added \in Seq(Recorded)
      /\ now \in Nat /\ now >= DAY
    BY <1>1, <1>2 DEF GraphTypes, WriterOk
<1>4. file'.h = mem /\ file'.ring = file.ring
    BY <1>1, <1>3
<1>5. Header' = mem
    BY <1>3, <1>4, HeaderIs DEF Header
<1>6. Unfinished /\ ~Unfinished'
    BY <1>1 DEF Unfinished
<1>7. added' # <<>> /\ LastAdded' = cur
    BY <1>1, <1>3, AppendIs DEF LastAdded
<1>8. SlotsAhead'
    BY <1>1 DEF SlotsAhead
<1>9. Later' /\ cur.when > 0
    <2>1. cur.when > 0
        BY <1>3, GraphAssumption
    <2>. QED
        BY <1>1, <1>7, <2>1 DEF Later
<1>10. AllSpaced'
    <2>1. ASSUME NEW r \in Rings PROVE Spaced(r, Expected(r, Append(added, cur)), cur.when)
        <3>1. PICK n : n = Len(added) /\ (n # 0 <=> added # <<>>)
            BY <1>3
        <3>2. PICK last \in Nat : n # 0 => last = added[n].when
            <4>1. CASE n = 0
                BY <4>1
            <4>2. CASE n # 0
                <5>1. n \in 1 .. Len(added)
                    BY <1>3, <3>1, <4>2
                <5>2. added[n].when \in Nat
                    BY <1>3, <5>1, SamplesAre
                <5>. QED
                    BY <5>2
            <4>. QED
                BY <4>1, <4>2
        <3>3. n # 0 => last > 0 /\ last < cur.when /\ Spaced(r, Expected(r, added), last)
            BY <1>1, <1>2, <3>1, <3>2 DEF WriterOk, Later, AllSpaced, LastAdded
        <3>4. InOrder(Append(added, cur))
            BY <1>1, <1>2, NextInOrder
        <3>. QED
            BY <1>3, <1>9, <3>1, <3>2, <3>3, <3>4, SpacedGrows
    <2>. QED
        BY <1>1, <1>7, <2>1 DEF AllSpaced
<1>11. WriterOk'
    BY <1>1, <1>2, <1>8, <1>9, <1>10 DEF WriterOk
<1>12. ReaderOk'
    <2>. SUFFICES ASSUME reader # NoReader PROVE ReaderOk'
        BY <1>1 DEF ReaderOk
    <2>1. ReaderTypes /\ WriterAt /\ RingIsKept /\ Finds
        BY <1>2 DEF ReaderOk
    <2>2. Begun' = Begun /\ Found' = Found /\ reader.had \in 1 .. Len(added')
        BY <1>1, <1>3, <2>1, BegunStays
    <2>3. writes \in Nat /\ writes' \in Nat /\ writes <= writes' /\ reader' = reader /\ reader.r \in Rings
        BY <1>1, <1>2, <2>1 DEF WriterOk, ReaderTypes
    <2>4. ReaderTypes'
        BY <2>1, <2>2, <2>3, TypesStay
    <2>5. WriterAt'
        <3>1. \/ Header'.sect[reader.r].idx = Header.sect[reader.r].idx
              \/ Header'.sect[reader.r].idx = (Header.sect[reader.r].idx + 1) % NMax
            BY <1>1, <1>2, <1>5, <2>3 DEF WriterOk, SlotsAhead
        <3>. QED
            BY <1>1, <1>3, <1>6, <2>1, <2>3, <3>1, AtMoves
    <2>6. RingIsKept' /\ Finds'
        BY <1>2, <1>4, <2>1, <2>2, <2>3, WriterKeeps
    <2>. QED
        BY <2>4, <2>5, <2>6 DEF ReaderOk
<1>. QED
    BY <1>11, <1>12

LEMMA CrashReads ==
    ASSUME ReadIInv, Crash
    PROVE  WriterOk' /\ ReaderOk'
<1>1. wpc' = "idle" /\ reader' = NoReader /\ UNCHANGED <<file, now, added, writes>>
    BY DEF Crash
<1>2. WriterOk
    BY DEF ReadIInv
<1>3. SlotsAhead' /\ Later' /\ AllSpaced'
    BY <1>1, <1>2 DEF WriterOk, SlotsAhead, Later, AllSpaced, LastAdded
<1>. QED
    BY <1>1, <1>2, <1>3 DEF WriterOk, ReaderOk

-----------------------------------------------------------------------------
(* A reader begins.                                                          *)
LEMMA AgoIs ==
    ASSUME NEW r \in Rings, now \in Nat, NEW since \in Nat, since <= now
    PROVE  Ago(r, since) \in Nat
<1>1. PICK U \in Nat \ {0} : U = Unit(r)
    BY GraphAssumption DEF Unit, Rings
<1>2. PICK x \in Nat : x = now - since + U - 1
    OBVIOUS
<1>3. x \div U \in Nat
    BY DivIs
<1>. QED
    BY <1>1, <1>2, <1>3 DEF Ago

LEMMA StartReads ==
    ASSUME NEW E, NEW c \in Nat, NEW p \in 0 .. c, NEW w \in Nat, NEW since \in Nat, Times(E, c), Skips(E, c, p, since)
    PROVE  Reads(<<>>, E, c, p, 0, w, since)
<1>1. \A k \in 1 .. p : Want(E, c, k).when <= since
    BY DEF Skips
<1>2. \A k \in 1 .. c : Want(E, c, k).when \in Nat
    BY DEF Times
<1>3. ASSUME NEW k \in 1 .. c, (k - 1) - p < 0 PROVE ~(Want(E, c, k).when > since)
    <2>1. k \in 1 .. p
        BY <1>3
    <2>2. Want(E, c, k).when <= since /\ Want(E, c, k).when \in Nat
        BY <1>1, <1>2, <2>1
    <2>. QED
        BY <2>2
<1>4. ASSUME NEW q, UpTo(E, c, since, q) PROVE 0 = IF Least(p + 0, c) < q THEN 0 ELSE Least(p + 0, c) - q
    <2>1. q \in 0 .. c /\ \A k \in 1 .. c : Want(E, c, k).when <= since <=> k <= q
        BY <1>4 DEF UpTo
    <2>2. p <= q
        <3>1. CASE p = 0
            BY <2>1, <3>1
        <3>2. CASE p # 0
            <4>1. p \in 1 .. p /\ p \in 1 .. c
                BY <3>2
            <4>. QED
                BY <1>1, <2>1, <4>1
        <3>. QED
            BY <3>1, <3>2
    <2>3. Least(p + 0, c) = p
        BY DEF Least
    <2>. QED
        BY <2>1, <2>2, <2>3
<1>5. Len(<<>>) = 0 /\ DOMAIN <<>> = {}
    OBVIOUS
<1>. QED
    BY <1>3, <1>4, <1>5 DEF Reads

LEMMA SkipIs ==
    ASSUME NEW c \in Nat, NEW since, NEW ago \in Nat
    PROVE  SkipOf(c, since, ago) \in 0 .. c
BY DEF SkipOf

LEMMA OpenedIs ==
    ASSUME GraphIInv, WriterOk, NEW r \in Rings, file.h # NoHeader,
           NEW slot, NEW c, NEW E, NEW last, NEW w \in Nat,
           slot = file.h.sect[r].idx, c = file.h.sect[r].count,
           E = Expected(r, added), last = LastAdded.when,
           Unfinished => w = 1
    PROVE  /\ slot \in 0 .. NMax - 1 /\ c \in 0 .. NMax /\ c \in Nat /\ Header.sect[r].idx = slot
           /\ file.h.sect[r] \in Sections
           /\ (\E X : E \in Seq(X)) /\ last \in Nat /\ last <= now /\ now \in Nat /\ Spaced(r, E, last)
           /\ Len(added) \in 1 .. Len(added) /\ SubSeq(added, 1, Len(added)) = added
           /\ NoDayMissed(added) => Kept(file.ring[r], slot, c, E, w) /\ c <= Len(E) /\ (c < NMax => slot = c)
<1>1. GraphTypes /\ RingOk(r, file.ring[r], Header.sect[r], added, Dirty(r)) /\ Header = file.h
    BY DEF GraphIInv, Header
<1>2. added # <<>> /\ added \in Seq(Recorded) /\ Header \in Headers
    BY <1>1 DEF GraphTypes
<1>3. file.h.sect[r] \in Sections
    BY <1>1, <1>2, HeaderIs
<1>4. slot \in 0 .. NMax - 1 /\ c \in 0 .. NMax /\ c \in Nat
    <2>1. NMax \in Nat
        BY GraphAssumption
    <2>2. slot \in 0 .. NMax - 1 /\ c \in 0 .. NMax
        BY <1>3 DEF Sections
    <2>. QED
        BY <2>1, <2>2
<1>5. Len(added) \in 1 .. Len(added) /\ SubSeq(added, 1, Len(added)) = added
    BY <1>2
<1>6. last \in Nat /\ last <= now /\ now \in Nat
    BY <1>1, <1>2, <1>5, SamplesAre DEF GraphTypes, LastAdded
<1>7. Spaced(r, E, last)
    BY <1>2 DEF WriterOk, AllSpaced
<1>8. PICK X : E \in Seq(X)
    BY <1>2, ExpectedIsSeq
<1>9. ASSUME NoDayMissed(added) PROVE Kept(file.ring[r], slot, c, E, w) /\ c <= Len(E) /\ (c < NMax => slot = c)
    <2>1. PICK ring, d : ring = file.ring[r] /\ d = Dirty(r) /\ (d => w = 1)
        BY DEF Dirty
    <2>2. Holds(ring, slot, c, E, d)
        BY <1>1, <1>9, <2>1 DEF RingOk
    <2>3. /\ DOMAIN ring = 0 .. NMax - 1
          /\ slot \in 0 .. NMax - 1 /\ c = Least(Len(E), NMax) /\ (c < NMax => slot = c)
          /\ \A k \in 1 .. c : ring[SlotAt(slot, c, k)] = Want(E, c, k) \/ (k = 1 /\ d)
          /\ \A j \in c .. NMax - 1 : ring[j] = Zero \/ (d /\ j = slot)
        BY <2>2 DEF Holds, SlotAt, Want
    <2>4. \A k \in 1 .. c : k <= w \/ ring[SlotAt(slot, c, k)] = Want(E, c, k)
        BY <2>1, <2>3
    <2>5. w = 0 => \A j \in c .. NMax - 1 : ring[j] = Zero
        BY <2>1, <2>3
    <2>6. Kept(ring, slot, c, E, w)
        BY <2>3, <2>4, <2>5 DEF Kept
    <2>7. c <= Len(E)
        <3>1. NMax \in Nat /\ Len(E) \in Nat
            BY <1>8, GraphAssumption
        <3>. QED
            BY <2>3, <3>1 DEF Least
    <2>. QED
        BY <2>1, <2>3, <2>6, <2>7
<1>. QED
    BY <1>1, <1>3, <1>4, <1>5, <1>6, <1>7, <1>8, <1>9

LEMMA GetOpenReads ==
    ASSUME ReadIInv, NEW r \in Rings, NEW back \in Sinces, GetOpen(r, back)
    PROVE  ReaderOk'
<1>. DEFINE since == IF back = 0 THEN 0 ELSE now - back
            sect  == file.h.sect[r]
            range == IF r = "samples" THEN getSamples(sect, since) ELSE getSummy(r, sect, since)
            touched == torn \/ wpc \in {"days", "hours", "save"}
<1>1. /\ file.h # NoHeader /\ UNCHANGED <<file, mem, wpc, cur, now, added, writes, torn>>
      /\ reader' = [pc |-> "read", r |-> r, since |-> since, i |-> 0, out |-> <<>>, sect |-> sect,
                    range |-> range, ago |-> Ago(r, since),
                    had |-> Len(added), before |-> writes, touched |-> touched]
    BY DEF GetOpen
<1>2. GraphIInv /\ WriterOk /\ writes \in Nat /\ now \in Nat /\ now >= DAY
    BY DEF ReadIInv, WriterOk, GraphIInv, GraphTypes
<1>3. PICK t \in Nat : t = since /\ t <= now
    <2>1. back \in 0 .. DAY /\ DAY \in Nat
        BY GraphAssumption
    <2>2. since \in Nat /\ since <= now
        BY <1>2, <2>1
    <2>. QED
        BY <2>2
<1>. HIDE DEF since, sect, range, touched
<1>4. PICK ago \in Nat : ago = Ago(r, t)
    BY <1>2, <1>3, AgoIs
<1>5. PICK slot, c, E, last : /\ slot = sect.idx /\ c = sect.count /\ E = Expected(r, added)
                              /\ last = LastAdded.when
    OBVIOUS
<1>6. PICK w \in {0, 1} : w = IF Unfinished THEN 1 ELSE 0
    OBVIOUS
<1>7. /\ slot \in 0 .. NMax - 1 /\ c \in 0 .. NMax /\ c \in Nat /\ Header.sect[r].idx = slot
      /\ sect \in Sections
      /\ (\E X : E \in Seq(X)) /\ last \in Nat /\ last <= now /\ Spaced(r, E, last)
      /\ Len(added) \in 1 .. Len(added) /\ SubSeq(added, 1, Len(added)) = added
      /\ NoDayMissed(added) => Kept(file.ring[r], slot, c, E, w) /\ c <= Len(E) /\ (c < NMax => slot = c)
    <2>1. w \in Nat /\ (Unfinished => w = 1)
        BY <1>6
    <2>. QED
        BY <1>1, <1>2, <1>5, <2>1, OpenedIs DEF sect
<1>8. Header' = Header /\ Unfinished' = Unfinished /\ Late' = w /\ (touched <=> Unfinished)
    BY <1>1, <1>6 DEF Header, Unfinished, Late, touched
<1>9. /\ reader'.r = r /\ reader'.since = t /\ reader'.i = 0 /\ reader'.out = <<>> /\ reader'.sect = sect
      /\ reader'.range = range /\ reader'.ago = ago /\ reader'.had = Len(added) /\ reader'.before = writes
      /\ (reader'.touched <=> touched)
    BY <1>1, <1>3, <1>4
<1>10. ReaderTypes'
    <2>1. reader' = [pc |-> "read", r |-> reader'.r, since |-> reader'.since, i |-> reader'.i,
                 out |-> reader'.out, sect |-> reader'.sect, range |-> reader'.range, ago |-> reader'.ago,
                 had |-> reader'.had, before |-> reader'.before, touched |-> reader'.touched]
        BY <1>1
    <2>2. <<>> \in Seq({}) /\ writes <= writes
        BY <1>2
    <2>. QED
        BY <1>1, <1>2, <1>7, <1>9, <2>1, <2>2 DEF ReaderTypes
<1>11. Begun' = added /\ Found' = E
    BY <1>1, <1>5, <1>7, <1>9 DEF Begun, Found
<1>12. Overwritten' = w
    <2>1. Overwritten' = writes - writes + (IF touched THEN 1 ELSE 0)
        BY <1>1, <1>9 DEF Overwritten
    <2>. QED
        BY <1>2, <1>6, <1>8, <2>1
<1>13. WriterAt'
    <2>1. Laps(0) = 0
        BY LapsAre
    <2>2. slot + 0 = Laps(0) + slot /\ 0 + w <= w
        BY <1>7, <2>1, GraphAssumption
    <2>3. reader'.sect.idx + 0 = Laps(0) + Header'.sect[reader'.r].idx /\ 0 + Late' <= Overwritten'
        BY <1>5, <1>7, <1>8, <1>9, <1>12, <2>2
    <2>. QED
        BY <2>3 DEF WriterAt
<1>14. RingIsKept'
    BY <1>1, <1>5, <1>7, <1>9, <1>11, <1>12 DEF RingIsKept
<1>15. Finds'
    <2>. SUFFICES ASSUME NoDayMissed(added), InReach'
         PROVE  /\ Times(E, c) /\ Skips(E, c, SkipOf(c, t, ago), t)
                /\ Covers(range.start, range.num, slot, c, SkipOf(c, t, ago), t)
                /\ Reads(<<>>, E, c, SkipOf(c, t, ago), 0, w, t)
        BY <1>5, <1>9, <1>11, <1>12 DEF Finds, SkipsNow
    <2>1. t > 0 => ago <= NMax /\ (r = "samples" \/ c = NMax)
        BY <1>5, <1>9 DEF InReach
    <2>2. range = IF r = "samples" THEN getSamples(sect, t) ELSE getSummy(r, sect, t)
        BY <1>3 DEF range
    <2>3. Covers(range.start, range.num, slot, c, SkipOf(c, t, ago), t)
        BY <1>4, <1>5, <1>7, <2>1, <2>2, CoversIs
    <2>4. Times(E, c) /\ Skips(E, c, SkipOf(c, t, ago), t)
        BY <1>2, <1>3, <1>4, <1>7, SkipsOld
    <2>5. Reads(<<>>, E, c, SkipOf(c, t, ago), 0, w, t)
        BY <1>7, <2>4, SkipIs, StartReads
    <2>. QED
        BY <2>3, <2>4, <2>5
<1>. QED
    BY <1>10, <1>13, <1>14, <1>15 DEF ReaderOk

(* A reader goes on.                                                         *)
LEMMA GetRecordReads ==
    ASSUME ReadIInv, GetRecord
    PROVE  ReaderOk'
<1>. DEFINE pos == reader.range.start + reader.i
            rec == RecordAt(pos)
            out1 == IF reader.since > 0 /\ rec.when <= reader.since THEN reader.out ELSE Append(reader.out, rec)
<1>1. /\ reader.pc = "read" /\ reader.i < reader.range.num
      /\ reader' = [reader EXCEPT !.i = @ + 1, !.out = out1]
      /\ UNCHANGED <<file, mem, wpc, cur, now, added, writes, torn>>
    BY DEF GetRecord
<1>2. GraphTypes /\ ReaderTypes /\ WriterAt /\ RingIsKept /\ Finds
    <2>1. NoReader.pc # "read"
        BY DEF NoReader
    <2>. QED
        BY <1>1, <2>1 DEF ReadIInv, ReaderOk, GraphIInv
<1>3. rec = IF pos < 0 THEN Zero ELSE file.ring[reader.r][pos % NMax]
    BY DEF RecordAt
<1>. HIDE DEF pos, rec, out1
<1>4. reader = [pc |-> "read", r |-> reader.r, since |-> reader.since, i |-> reader.i,
                 out |-> reader.out, sect |-> reader.sect, range |-> reader.range, ago |-> reader.ago,
                 had |-> reader.had, before |-> reader.before, touched |-> reader.touched]
    BY <1>2 DEF ReaderTypes
<1>5. /\ reader'.r = reader.r /\ reader'.since = reader.since /\ reader'.i = reader.i + 1 /\ reader'.out = out1
      /\ reader'.sect = reader.sect /\ reader'.range = reader.range /\ reader'.ago = reader.ago
      /\ reader'.had = reader.had /\ reader'.before = reader.before /\ reader'.touched = reader.touched
      /\ reader' = [pc |-> "read", r |-> reader'.r, since |-> reader'.since, i |-> reader'.i,
                 out |-> reader'.out, sect |-> reader'.sect, range |-> reader'.range, ago |-> reader'.ago,
                 had |-> reader'.had, before |-> reader'.before, touched |-> reader'.touched]
    BY <1>1, <1>4
<1>6. Begun' = Begun /\ Found' = Found /\ SkipsNow' = SkipsNow /\ (InReach' <=> InReach)
    BY <1>1, <1>5 DEF Begun, Found, SkipsNow, InReach
<1>7. Overwritten' = Overwritten /\ Header' = Header /\ Late' = Late
    BY <1>1, <1>5 DEF Overwritten, Header, Late, Unfinished
<1>8. PICK S : reader.out \in Seq(S)
    BY <1>2 DEF ReaderTypes
<1>9. out1 \in Seq(S \cup {rec})
    <2>1. reader.out \in Seq(S \cup {rec}) /\ rec \in S \cup {rec}
        BY <1>8
    <2>. QED
        BY <2>1 DEF out1
<1>10. ReaderTypes'
    <2>1. reader'.i \in Nat
        BY <1>2, <1>5 DEF ReaderTypes
    <2>. QED
        BY <1>1, <1>2, <1>5, <1>9, <2>1 DEF ReaderTypes
<1>11. WriterAt'
    BY <1>2, <1>5, <1>7 DEF WriterAt
<1>12. RingIsKept'
    BY <1>1, <1>2, <1>5, <1>6, <1>7 DEF RingIsKept
<1>13. Finds'
    <2>. SUFFICES ASSUME NoDayMissed(Begun), InReach
         PROVE  Finds'
        BY <1>6 DEF Finds
    <2>1. PICK E, slot, c, ring, p, i, since, start, num, w, out :
             /\ E = Found /\ slot = reader.sect.idx /\ c = reader.sect.count
             /\ ring = file.ring[reader.r] /\ p = SkipsNow /\ i = reader.i /\ since = reader.since
             /\ start = reader.range.start /\ num = reader.range.num /\ w = Overwritten /\ out = reader.out
        OBVIOUS
    <2>2. /\ Times(E, c) /\ Skips(E, c, p, since) /\ Covers(start, num, slot, c, p, since)
          /\ Reads(out, E, c, p, i, w, since)
        BY <1>2, <2>1 DEF Finds
    <2>3. Kept(ring, slot, c, E, w)
        BY <1>2, <2>1 DEF RingIsKept
    <2>4. i \in Nat /\ since \in Nat /\ i < num /\ out \in Seq(S)
        BY <1>1, <1>2, <1>8, <2>1 DEF ReaderTypes
    <2>5. c \in Nat
        <3>1. NMax \in Nat /\ reader.sect \in Sections
            BY <1>2, GraphAssumption DEF ReaderTypes
        <3>2. c \in 0 .. NMax
            BY <2>1, <3>1 DEF Sections
        <3>. QED
            BY <3>1, <3>2
    <2>6. w \in Nat
        <3>1. PICK b \in Nat, x \in Nat, t \in Nat : b = reader.before /\ x = writes /\ t = (IF reader.touched THEN 1 ELSE 0) /\ b <= x
            BY <1>2 DEF ReaderTypes, ReadIInv, WriterOk
        <3>2. w = x - b + t
            BY <2>1, <3>1 DEF Overwritten
        <3>. QED
            BY <3>1, <3>2
    <2>7. /\ rec = IF start + i < 0 THEN Zero ELSE ring[(start + i) % NMax]
          /\ out1 = IF since > 0 /\ rec.when <= since THEN out ELSE Append(out, rec)
        BY <1>3, <2>1 DEF pos, out1
    <2>8. Reads(out1, E, c, p, i + 1, w, since)
        BY <2>2, <2>3, <2>4, <2>5, <2>6, <2>7, ReadsOne
    <2>. QED
        BY <1>5, <1>6, <1>7, <2>1, <2>2, <2>8 DEF Finds
<1>. QED
    BY <1>10, <1>11, <1>12, <1>13 DEF ReaderOk

LEMMA ReadInit == GraphInit => ReadIInv
<1>. SUFFICES ASSUME GraphInit PROVE ReadIInv
    OBVIOUS
<1>1. writes = 0 /\ now = DAY /\ wpc = "idle" /\ added = <<>> /\ reader = NoReader
    BY DEF GraphInit
<1>2. WriterOk /\ ReaderOk
    BY <1>1, GraphAssumption DEF WriterOk, ReaderOk, SlotsAhead, Later, AllSpaced
<1>. QED
    BY <1>2, GraphInitIInv DEF ReadIInv

(* What a reader leaves alone.                                               *)
LEMMA WriterRests ==
    ASSUME WriterOk, UNCHANGED <<file, mem, wpc, cur, now, added, writes>>
    PROVE  WriterOk'
BY DEF WriterOk, SlotsAhead, Later, AllSpaced, LastAdded, Header

LEMMA ReadNext == OneAMinute /\ ReadIInv /\ [GraphNext]_graphVars => ReadIInv'
<1>. SUFFICES ASSUME OneAMinute, ReadIInv, [GraphNext]_graphVars PROVE WriterOk' /\ ReaderOk'
    BY GraphNextIInv DEF ReadIInv
<1>0. WriterOk
    BY DEF ReadIInv
<1>1. CASE \E s \in Samples, dt \in Gaps : AddOpen(s, dt)
    BY <1>1, AddOpenReads
<1>2. CASE AddSample
    BY <1>2, AddSampleReads
<1>3. CASE Roll("days", "hours")
    BY <1>3, RollReads
<1>4. CASE Roll("hours", "save")
    BY <1>4, RollReads
<1>5. CASE save
    BY <1>5, SaveReads
<1>6. CASE Crash
    BY <1>6, CrashReads
<1>7. CASE \E r \in Rings, ago \in Sinces : GetOpen(r, ago)
    <2>1. UNCHANGED <<file, mem, wpc, cur, now, added, writes>>
        BY <1>7 DEF GetOpen
    <2>. QED
        BY <1>0, <1>7, <2>1, WriterRests, GetOpenReads
<1>8. CASE GetRecord
    <2>1. UNCHANGED <<file, mem, wpc, cur, now, added, writes>>
        BY <1>8 DEF GetRecord
    <2>. QED
        BY <1>0, <1>8, <2>1, WriterRests, GetRecordReads
<1>9. CASE GetReturns
    <2>1. UNCHANGED <<file, mem, wpc, cur, now, added, writes>> /\ reader' = NoReader
        BY <1>9 DEF GetReturns
    <2>. QED
        BY <1>0, <2>1, WriterRests DEF ReaderOk
<1>10. CASE UNCHANGED graphVars
    <2>1. UNCHANGED <<file, mem, wpc, cur, now, added, writes, torn, reader>>
        BY <1>10 DEF graphVars
    <2>2. ReaderOk'
        BY <2>1 DEF ReadIInv, ReaderOk, ReaderTypes, WriterAt, RingIsKept, Finds, Begun, Found, Late, Unfinished,
                    Overwritten, Header, SkipsNow, InReach
    <2>. QED
        BY <1>0, <2>1, <2>2, WriterRests
<1>. QED
    BY <1>1, <1>2, <1>3, <1>4, <1>5, <1>6, <1>7, <1>8, <1>9, <1>10 DEF GraphNext

LEMMA ReadIsDone == ReadIInv => ReadersSeeTheHistory
<1>. SUFFICES ASSUME ReadIInv, GetDone, InReach, NoDayMissed(added), NEW want, want = LastOf(Found, NMax)
     PROVE  /\ Overwritten = 0 => reader.out = Newer(want)
            /\ \A k \in DOMAIN Newer(SubSeq(want, Overwritten + 1, Len(want))) :
                  Contains(reader.out, Newer(SubSeq(want, Overwritten + 1, Len(want)))[k])
    BY DEF ReadersSeeTheHistory, Found, Begun
<1>1. GraphTypes /\ ReaderTypes /\ WriterAt /\ RingIsKept /\ Finds /\ reader.i >= reader.range.num /\ writes \in Nat
    <2>1. NoReader.pc # "read"
        BY DEF NoReader
    <2>. QED
        BY <2>1 DEF ReadIInv, ReaderOk, WriterOk, GraphIInv, GetDone
<1>2. NoDayMissed(Begun)
    <2>1. PICK h \in 1 .. Len(added) : h = reader.had
        BY <1>1 DEF ReaderTypes
    <2>2. added \in Seq(Recorded)
        BY <1>1 DEF GraphTypes
    <2>3. PICK n \in Nat : n = Len(added)
        BY <2>2
    <2>4. Begun = SubSeq(added, 1, h)
        BY <2>1 DEF Begun
    <2>5. Len(Begun) = h /\ \A i \in 1 .. h : Begun[i] = added[i]
        BY <2>1, <2>2, <2>4
    <2>6. ASSUME NEW i \in 1 .. h - 1 PROVE Begun[i + 1].when - Begun[i].when <= DAY - HOUR
        <3>1. i \in 1 .. n - 1 /\ i \in 1 .. h /\ i + 1 \in 1 .. h
            BY <2>1, <2>3
        <3>2. added[i + 1].when - added[i].when <= DAY - HOUR
            BY <2>3, <3>1 DEF NoDayMissed
        <3>3. Begun[i] = added[i] /\ Begun[i + 1] = added[i + 1]
            BY <2>5, <3>1
        <3>. QED
            BY <3>2, <3>3
    <2>. QED
        BY <2>5, <2>6 DEF NoDayMissed
<1>3. PICK E, slot, c, p, i, since, start, num, w, out :
         /\ E = Found /\ slot = reader.sect.idx /\ c = reader.sect.count
         /\ p = SkipsNow /\ i = reader.i /\ since = reader.since
         /\ start = reader.range.start /\ num = reader.range.num /\ w = Overwritten /\ out = reader.out
    OBVIOUS
<1>4. /\ Times(E, c) /\ Skips(E, c, p, since) /\ Covers(start, num, slot, c, p, since)
      /\ Reads(out, E, c, p, i, w, since)
    BY <1>1, <1>2, <1>3 DEF Finds
<1>5. c = Least(Len(E), NMax)
    BY <1>1, <1>2, <1>3 DEF RingIsKept, Kept
<1>6. i \in Nat /\ since \in Nat /\ i >= num
    BY <1>1, <1>3 DEF ReaderTypes
<1>7. PICK X, S : E \in Seq(X) /\ out \in Seq(S)
    BY <1>1, <1>3, FoundIsSeq DEF ReaderTypes
<1>8. w \in Nat
    <2>1. PICK b \in Nat, x \in Nat, t \in Nat : b = reader.before /\ x = writes /\ t = (IF reader.touched THEN 1 ELSE 0) /\ b <= x
        BY <1>1 DEF ReaderTypes
    <2>2. w = x - b + t
        BY <1>3, <2>1 DEF Overwritten
    <2>. QED
        BY <2>1, <2>2
<1>9. p \in 0 .. c /\ p + i >= c
    <2>1. c \in Nat
        <3>1. NMax \in Nat /\ Len(E) \in Nat
            BY <1>7, GraphAssumption
        <3>. QED
            BY <1>5, <3>1 DEF Least
    <2>2. p \in 0 .. c /\ p + num >= c /\ num \in Nat
        BY <1>4 DEF Covers
    <2>. QED
        BY <1>6, <2>1, <2>2
<1>10. /\ w = 0 => out = Newer(want)
       /\ \A k \in DOMAIN Newer(SubSeq(want, w + 1, Len(want))) :
             Contains(out, Newer(SubSeq(want, w + 1, Len(want)))[k])
    <2>1. since = reader.since /\ want = LastOf(E, NMax)
        BY <1>3
    <2>. QED
        BY <1>4, <1>5, <1>6, <1>7, <1>8, <1>9, <2>1, DoneIs
<1>. QED
    BY <1>3, <1>10

(* Whatever is added while it reads, and wherever the process was killed     *)
(* before, a Get that reaches back no further than its ring returns what was *)
(* in the file when it began and is newer than it asks for: all of it and in *)
(* its order when no Add has come between, and all but as many of the oldest *)
(* records as Adds have come otherwise (graph/graphd, Get).                  *)
THEOREM ReadersSeeWhatIsHeld == OneAMinute /\ GraphSpec => []ReadersSeeTheHistory
<1>. SUFFICES ASSUME OneAMinute PROVE GraphSpec => []ReadersSeeTheHistory
    OBVIOUS
<1>1. ReadIInv /\ [GraphNext]_graphVars => ReadIInv'
    BY ReadNext
<1>. QED
    BY <1>1, ReadInit, ReadIsDone, PTL DEF GraphSpec
=============================================================================
