---------------------------- MODULE MonelProofs -----------------------------
(* Proofs about the elements, for any trees and aliases and any number of    *)
(* users: first that the marks of overrides are right but where calls met,   *)
(* then that the statuses add up however overrides change.                   *)
EXTENDS Monel, TLAPS
-----------------------------------------------------------------------------
(* The trees.  What is under an element is its children and all of theirs.   *)
LEMMA UnderIs ==
    ASSUME NEW m \in Mons
    PROVE  /\ Under[m] \subseteq Mons /\ Range(Down[m]) \subseteq Under[m] /\ Complete(Under[m])
           /\ \A S \in SUBSET Mons : Range(Down[m]) \subseteq S /\ Complete(S) => Under[m] \subseteq S
<1>1. \A x \in Mons : Range(Down[x]) \subseteq Mons
    BY MonelAssumption DEF Range
<1>2. Under[m] = {c \in Mons : \A S \in SUBSET Mons : Range(Down[m]) \subseteq S /\ Complete(S) => c \in S}
    BY DEF Under
<1>3. Range(Down[m]) \subseteq Under[m]
    BY <1>1, <1>2
<1>4. ASSUME NEW x \in Under[m], NEW c \in Range(Down[x]) PROVE c \in Under[m]
    <2>1. x \in Mons /\ c \in Mons
        BY <1>1, <1>2, <1>4
    <2>2. ASSUME NEW S \in SUBSET Mons, Range(Down[m]) \subseteq S, Complete(S) PROVE c \in S
        <3>1. x \in S
            BY <1>2, <2>2
        <3>. QED
            BY <1>4, <2>2, <3>1 DEF Complete
    <2>. QED
        BY <1>2, <2>1, <2>2
<1>5. Complete(Under[m])
    BY <1>4 DEF Complete
<1>. QED
    BY <1>2, <1>3, <1>5

(* An element and all that is under it.                                      *)
Below(m) == {m} \cup Under[m]

(* A step down stays below.                                                  *)
LEMMA ChildrenAreBelow ==
    ASSUME NEW m \in Mons, NEW x \in Below(m), NEW c \in Range(Down[x])
    PROVE  x \in Mons /\ c \in Under[m]
BY UnderIs DEF Below, Complete

(* From further down there is less to see.                                   *)
LEMMA BelowIsLess ==
    ASSUME NEW m \in Mons, NEW x \in Below(m)
    PROVE  Below(x) \subseteq Below(m)
<1>1. x \in Mons /\ Range(Down[x]) \subseteq Under[m] /\ Under[m] \subseteq Mons /\ Complete(Under[m])
    BY UnderIs, ChildrenAreBelow DEF Below
<1>2. Under[x] \subseteq Under[m]
    BY <1>1, UnderIs
<1>. QED
    BY <1>2 DEF Below

(* What is under an element has its parent there, or is its child.           *)
LEMMA ParentIsBelow ==
    ASSUME NEW m \in Mons, NEW x \in Under[m]
    PROVE  \E p \in Below(m) : x \in Range(Down[p])
<1>. DEFINE S == {y \in Under[m] : \E p \in Below(m) : y \in Range(Down[p])}
<1>1. Under[m] \subseteq Mons /\ Range(Down[m]) \subseteq Under[m]
    BY UnderIs
<1>2. S \in SUBSET Mons /\ Range(Down[m]) \subseteq S
    BY <1>1 DEF Below
<1>3. ASSUME NEW y \in S, NEW c \in Range(Down[y]) PROVE c \in S
    <2>1. y \in Below(m)
        BY DEF Below
    <2>2. c \in Under[m]
        BY <2>1, <1>3, ChildrenAreBelow
    <2>. QED
        BY <2>1, <2>2
<1>4. Complete(S)
    BY <1>3 DEF Complete
<1>. HIDE DEF S
<1>5. Under[m] \subseteq S
    BY <1>2, <1>4, UnderIs
<1>. QED
    BY <1>5 DEF S

(* The trees have no cycles,                                                 *)
LEMMA NotUnderItself ==
    ASSUME NEW m \in Mons
    PROVE  m \notin Under[m]
<1>. SUFFICES ASSUME m \in Under[m] PROVE FALSE
    OBVIOUS
<1>1. Below(m) = Under[m] /\ Under[m] \in SUBSET Mons /\ Under[m] # {}
    BY UnderIs DEF Below
<1>2. PICK x \in Under[m] : \A p \in Under[m] : x \notin Range(Down[p])
    BY <1>1, TreeAssumption
<1>. QED
    BY <1>1, <1>2, ParentIsBelow

(* and are trees.                                                            *)
LEMMA OneParent ==
    ASSUME NEW p \in Mons, NEW q \in Mons, NEW c \in Range(Down[p]), c \in Range(Down[q])
    PROVE  p = q
<1>1. PICK i \in DOMAIN Down[p] : Down[p][i] = c
    BY DEF Range
<1>2. PICK j \in DOMAIN Down[q] : Down[q][j] = c
    BY DEF Range
<1>. QED
    BY <1>1, <1>2, TreeAssumption

(* Children are not below one another, nor is an element below its child.    *)
LEMMA ChildrenAreApart ==
    ASSUME NEW m \in Mons, NEW i \in DOMAIN Down[m]
    PROVE  /\ Down[m][i] \in Mons /\ m \notin Below(Down[m][i])
           /\ \A j \in DOMAIN Down[m] : i # j => Down[m][j] \notin Below(Down[m][i])
<1>. DEFINE a == Down[m][i]
<1>1. a \in Range(Down[m]) /\ a \in Mons
    BY MonelAssumption DEF Range
<1>. HIDE DEF a
<1>2. a \in Below(m) /\ m \in Below(m) /\ a \in Under[m]
    BY <1>1, UnderIs DEF Below
<1>3. Under[a] \subseteq Under[m]
    <2>1. Range(Down[a]) \subseteq Under[m] /\ Under[m] \subseteq Mons /\ Complete(Under[m])
        BY <1>2, UnderIs, ChildrenAreBelow
    <2>. QED
        BY <1>1, <2>1, UnderIs
<1>4. m \notin Below(a)
    BY <1>2, <1>3, NotUnderItself DEF Below
<1>5. ASSUME NEW j \in DOMAIN Down[m], i # j, Down[m][j] \in Below(a) PROVE FALSE
    <2>1. Down[m][j] # a
        BY <1>5, TreeAssumption DEF a
    <2>2. Down[m][j] \in Range(Down[m]) /\ Down[m][j] \in Under[a]
        BY <1>5, <2>1 DEF Below, Range
    <2>3. PICK p \in Below(a) : Down[m][j] \in Range(Down[p])
        BY <1>1, <2>2, ParentIsBelow
    <2>4. p \in Mons
        BY <1>1, UnderIs DEF Below
    <2>5. p = m
        BY <2>2, <2>3, <2>4, OneParent
    <2>. QED
        BY <1>4, <2>3, <2>5
<1>. QED
    BY <1>1, <1>4, <1>5 DEF a
-----------------------------------------------------------------------------
(* The invariant.  Types:                                                    *)
Items == {"visit", "mark", "clear"} \X Mons

OverrideTypes ==
    /\ overrides \in Nat
    /\ override \in [Mons -> Nat] /\ ancInOv \in [Mons -> BOOLEAN]
    /\ op \in [Users -> {None} \cup (Calls \X Mons)]
    /\ walk \in [Users -> Seq(Items)]
    /\ inoverride \subseteq Mons /\ timers \subseteq Mons \X Nat
    /\ met \in [Users -> SUBSET Mons]
    /\ looked \in [Users -> Nat] /\ \A u \in Users : looked[u] <= overrides

(* the calls at work on overrides, each at its element, have met,            *)
At(u, n) == op[u] \in {<<"set", n>>, <<"setting", n>>, <<"del", n>>, <<"deleting", n>>}

AllMet == \A u, v \in Users, m, n \in Mons : u # v /\ At(u, m) /\ At(v, n) => n \in met[u]

(* a walk belongs to a call, and keeps below its element;                    *)
WalksInCalls ==
    \A u \in Users : walk[u] # <<>> =>
        \E n \in Mons :
            /\ op[u] \in {<<"setting", n>>, <<"deleting", n>>}
            /\ \A e \in Range(walk[u]) : e[2] \in Below(n) /\ (e[1] # "visit" => e[2] \in Under[n])

(* what is left of it are trees of which none is below another, so that an   *)
(* element is not walked over twice,                                         *)
Apart(w) == \A i, j \in DOMAIN w : i # j => w[j][2] \notin Below(w[i][2])

(* and what it will assign is what the parent's override says, or the call   *)
(* has met one that reaches the element as well;                             *)
Value(m) == IF Inherited(m) THEN "mark" ELSE "clear"

Meets(u, c) == \E n \in met[u] : c \in Under[n]

Right(u, e) == e[1] # "visit" =>
    \E p \in Mons : e[2] \in Range(Down[p]) /\ (e[1] = Value(p) \/ Meets(u, e[2]))

WalksAreRight == \A u \in Users : Apart(walk[u]) /\ \A e \in Range(walk[u]) : Right(u, e)

(* a child has the mark its parent's override asks for, or will have, or was *)
(* marked by a call that met another;                                        *)
Owed(u, p, c) ==
    \/ op[u] \in {<<"set", p>>, <<"del", p>>}
    \/ <<"visit", p>> \in Range(walk[u])
    \/ <<Value(p), c>> \in Range(walk[u])

Contested(what, m) == <<what, m>> \in contested

Marked ==
    \A p \in Mons : \A c \in Range(Down[p]) :
        ancInOv[c] = Inherited(p) \/ Contested("mark", c) \/ \E u \in Users : Owed(u, p, c)

RootsAreNot == \A m \in Mons : (\A p \in Mons : m \notin Range(Down[p])) => ~ancInOv[m]

(* the list likewise;                                                        *)
Listed ==
    \A m \in Mons :
        \/ m \in inoverride <=> override[m] # 0
        \/ Contested("list", m)
        \/ \E u \in Users : op[u] \in {<<"set", m>>, <<"del", m>>}

(* and until it is changed, the override is what the call made it, or the    *)
(* call has met another at this element.                                     *)
Changed ==
    \A u \in Users, m \in Mons :
        /\ op[u] = <<"set", m>> => override[m] # 0 \/ m \in met[u]
        /\ op[u] = <<"del", m>> => override[m] = 0 \/ m \in met[u]

OverridesInv ==
    OverrideTypes /\ AllMet /\ WalksInCalls /\ WalksAreRight /\ Marked /\ RootsAreNot /\ Listed /\ Changed

(* A timer that is about to remove an override found one expired.            *)
FoundExpired ==
    \A u \in Users, m \in Mons :
        op[u] = <<"expired", m>> => override[m] \in expired \cup {0} \/ override[m] > looked[u]

TimersInv == FoundExpired /\ OverridesExpire
-----------------------------------------------------------------------------
(* At the start there are no overrides, marks, walks or timers.              *)
LEMMA OverridesStart == Init => OverridesInv /\ TimersInv
<1>. SUFFICES ASSUME Init PROVE OverridesInv /\ TimersInv
    OBVIOUS
<1>1. /\ \A u \in Users : op[u] = None /\ walk[u] = <<>> /\ met[u] = {} /\ looked[u] = 0
      /\ \A m \in Mons : override[m] = 0 /\ ancInOv[m] = FALSE
      /\ inoverride = {} /\ timers = {} /\ overrides = 0
    BY DEF Init
<1>2. OverrideTypes
    BY <1>1 DEF Init, OverrideTypes
<1>3. \A u \in Users : DOMAIN walk[u] = {} /\ Range(walk[u]) = {}
    BY <1>1 DEF Range
<1>4. \A m \in Mons : ~Inherited(m)
    BY <1>1 DEF Inherited
<1>5. \A p \in Mons : Range(Down[p]) \subseteq Mons
    BY MonelAssumption DEF Range
<1>6. Marked /\ RootsAreNot
    <2>1. \A p \in Mons : \A c \in Range(Down[p]) : c \in Mons /\ ancInOv[c] = FALSE /\ Inherited(p) = FALSE
        BY <1>1, <1>4, <1>5 DEF Inherited
    <2>. QED
        BY <1>1, <2>1 DEF Marked, RootsAreNot
<1>7. WalksAreRight /\ WalksInCalls
    BY <1>1, <1>3 DEF WalksAreRight, WalksInCalls, Apart
<1>8. \A m \in Mons, call \in Calls : None # <<call, m>>
    BY MonelAssumption
<1>9. Listed /\ Changed /\ AllMet /\ FoundExpired
    BY <1>1, <1>8 DEF Listed, Changed, AllMet, At, FoundExpired, Calls
<1>10. OverridesExpire
    BY <1>1, MonelAssumption DEF OverridesExpire
<1>. QED
    BY <1>2, <1>6, <1>7, <1>9, <1>10 DEF OverridesInv, TimersInv

(* A sequence without its first element.                                     *)
LEMMA TailIs ==
    ASSUME NEW T, NEW w \in Seq(T), w # <<>>
    PROVE  /\ Tail(w) \in Seq(T) /\ Len(w) \in Nat \ {0} /\ Len(Tail(w)) = Len(w) - 1
           /\ \A k \in 1..(Len(w) - 1) : Tail(w)[k] = w[k + 1]
OBVIOUS

(* Two sequences joined.                                                     *)
LEMMA JoinedIs ==
    ASSUME NEW T, NEW s \in Seq(T), NEW v \in Seq(T)
    PROVE  /\ s \o v \in Seq(T) /\ Len(s \o v) = Len(s) + Len(v) /\ DOMAIN (s \o v) = 1..(Len(s) + Len(v))
           /\ \A k \in 1..Len(s) : (s \o v)[k] = s[k]
           /\ \A k \in (Len(s) + 1)..(Len(s) + Len(v)) : (s \o v)[k] = v[k - Len(s)]
OBVIOUS

(* What a walk is when its first element has been replaced.                  *)
LEMMA Replaced ==
    ASSUME NEW T, NEW w \in Seq(T), w # <<>>, NEW s \in Seq(T), NEW r, r = s \o Tail(w)
    PROVE  /\ r \in Seq(T) /\ DOMAIN r = 1..(Len(s) + Len(w) - 1)
           /\ \A k \in 1..Len(s) : r[k] = s[k]
           /\ \A k \in (Len(s) + 1)..(Len(s) + Len(w) - 1) :
                  k - Len(s) + 1 \in 2..Len(w) /\ r[k] = w[k - Len(s) + 1]
<1>1. PICK v \in Seq(T) : v = Tail(w) /\ Len(v) = Len(w) - 1 /\ \A k \in 1..(Len(w) - 1) : v[k] = w[k + 1]
    BY TailIs
<1>2. Len(w) \in Nat \ {0} /\ Len(s) \in Nat
    BY TailIs
<1>3. /\ r \in Seq(T) /\ DOMAIN r = 1..(Len(s) + Len(v))
      /\ \A k \in 1..Len(s) : r[k] = s[k]
      /\ \A k \in (Len(s) + 1)..(Len(s) + Len(v)) : r[k] = v[k - Len(s)]
    BY <1>1, JoinedIs, Zenon
<1>4. ASSUME NEW k \in (Len(s) + 1)..(Len(s) + Len(w) - 1)
      PROVE  k - Len(s) + 1 \in 2..Len(w) /\ r[k] = w[k - Len(s) + 1]
    <2>1. k \in (Len(s) + 1)..(Len(s) + Len(v)) /\ k - Len(s) \in 1..(Len(w) - 1)
        BY <1>1, <1>2
    <2>2. r[k] = v[k - Len(s)] /\ v[k - Len(s)] = w[k - Len(s) + 1]
        BY <1>1, <1>3, <2>1
    <2>. QED
        BY <1>2, <2>1, <2>2
<1>5. DOMAIN r = 1..(Len(s) + Len(w) - 1)
    BY <1>1, <1>2, <1>3
<1>. QED
    BY <1>3, <1>4, <1>5

(* Members of a walk after its first element was replaced.                   *)
LEMMA ReplacedRange ==
    ASSUME NEW w \in Seq(Items), w # <<>>, NEW s \in Seq(Items), NEW r, r = s \o Tail(w)
    PROVE  /\ Range(s) \subseteq Range(r)
           /\ \A e \in Range(w) : e # Head(w) => e \in Range(r)
           /\ \A e \in Range(r) : e \in Range(s) \/ \E k \in 2..Len(w) : e = w[k]
<1>1. /\ r \in Seq(Items) /\ DOMAIN r = 1..(Len(s) + Len(w) - 1)
      /\ \A k \in 1..Len(s) : r[k] = s[k]
      /\ \A k \in (Len(s) + 1)..(Len(s) + Len(w) - 1) :
             k - Len(s) + 1 \in 2..Len(w) /\ r[k] = w[k - Len(s) + 1]
    BY Replaced
<1>2. /\ Len(w) \in Nat \ {0} /\ Len(s) \in Nat /\ DOMAIN w = 1..Len(w) /\ DOMAIN s = 1..Len(s)
      /\ Head(w) = w[1]
    OBVIOUS
<1>3. Range(s) \subseteq Range(r)
    BY <1>1, <1>2 DEF Range
<1>4. ASSUME NEW e \in Range(w), e # Head(w) PROVE e \in Range(r)
    <2>1. PICK k \in 2..Len(w) : e = w[k]
        BY <1>2, <1>4 DEF Range
    <2>2. /\ k + Len(s) - 1 \in (Len(s) + 1)..(Len(s) + Len(w) - 1)
          /\ (k + Len(s) - 1) - Len(s) + 1 = k
        BY <1>2
    <2>3. r[k + Len(s) - 1] = e /\ k + Len(s) - 1 \in DOMAIN r
        BY <1>1, <1>2, <2>1, <2>2
    <2>. QED
        BY <2>3 DEF Range
<1>5. ASSUME NEW e \in Range(r), e \notin Range(s) PROVE \E k \in 2..Len(w) : e = w[k]
    <2>1. PICK k \in 1..(Len(s) + Len(w) - 1) : e = r[k]
        BY <1>1 DEF Range
    <2>2. k \notin 1..Len(s)
        BY <1>1, <1>2, <1>5, <2>1 DEF Range
    <2>3. k \in (Len(s) + 1)..(Len(s) + Len(w) - 1)
        BY <1>2, <2>2
    <2>. QED
        BY <1>1, <2>1, <2>3
<1>. QED
    BY <1>3, <1>4, <1>5

(* What is to be assigned to the children, in their order.                   *)
LEMMA ItemsFor ==
    ASSUME NEW d \in Seq(Mons), NEW v \in {"mark", "clear"}, NEW s, s = [i \in DOMAIN d |-> <<v, d[i]>>]
    PROVE  s \in Seq(Items) /\ DOMAIN s = DOMAIN d /\ \A i \in DOMAIN s : s[i] = <<v, d[i]>>
<1>1. PICK n \in Nat : DOMAIN d = 1..n /\ n = Len(d)
    OBVIOUS
<1>2. s = [i \in 1..n |-> <<v, d[i]>>] /\ \A i \in 1..n : <<v, d[i]>> \in Items
    BY <1>1 DEF Items
<1>3. s \in Seq(Items) /\ DOMAIN s = 1..n /\ Len(s) = n
    BY <1>2
<1>. QED
    BY <1>1, <1>3

(* ovPropDown goes from an element to its children, and they and what is     *)
(* left stay apart.                                                          *)
LEMMA ChildrenFor ==
    ASSUME NEW m \in Mons, NEW w \in Seq(Items), w # <<>>, Head(w) = <<"visit", m>>, Apart(w),
           NEW s \in Seq(Items), DOMAIN s = DOMAIN Down[m], \A i \in DOMAIN s : s[i][2] = Down[m][i],
           NEW r, r = s \o Tail(w)
    PROVE  r \in Seq(Items) /\ Apart(r)
<1>1. DOMAIN s = DOMAIN Down[m] /\ Len(s) \in Nat /\ DOMAIN s = 1..Len(s)
    OBVIOUS
<1>2. /\ r \in Seq(Items) /\ DOMAIN r = 1..(Len(s) + Len(w) - 1)
      /\ \A k \in 1..Len(s) : r[k] = s[k]
      /\ \A k \in (Len(s) + 1)..(Len(s) + Len(w) - 1) :
             k - Len(s) + 1 \in 2..Len(w) /\ r[k] = w[k - Len(s) + 1]
    BY Replaced
<1>3. Len(w) \in Nat \ {0} /\ DOMAIN w = 1..Len(w) /\ w[1] = <<"visit", m>> /\ w[1][2] = m
    OBVIOUS
<1>4. ASSUME NEW i \in 1..Len(s)
      PROVE  /\ r[i][2] = Down[m][i] /\ r[i][2] \in Mons /\ m \notin Below(r[i][2])
             /\ Below(r[i][2]) \subseteq Below(m) /\ r[i][2] \in Range(Down[m])
             /\ \A j \in 1..Len(s) : i # j => r[j][2] \notin Below(r[i][2])
    <2>1. \A j \in 1..Len(s) : r[j][2] = Down[m][j]
        BY <1>1, <1>2
    <2>2. /\ Down[m][i] \in Mons /\ m \notin Below(Down[m][i])
          /\ \A j \in DOMAIN Down[m] : i # j => Down[m][j] \notin Below(Down[m][i])
        BY <1>1, ChildrenAreApart
    <2>3. Down[m][i] \in Range(Down[m]) /\ Down[m][i] \in Below(m)
        <3>1. Down[m][i] \in Range(Down[m])
            BY <1>1 DEF Range
        <3>. QED
            BY <3>1, UnderIs DEF Below
    <2>4. Below(Down[m][i]) \subseteq Below(m)
        BY <2>3, BelowIsLess
    <2>. QED
        BY <1>1, <2>1, <2>2, <2>3, <2>4
<1>5. ASSUME NEW i \in (Len(s) + 1)..(Len(s) + Len(w) - 1)
      PROVE  /\ r[i][2] \in Mons /\ r[i][2] \notin Below(m) /\ m \notin Below(r[i][2])
             /\ \A j \in (Len(s) + 1)..(Len(s) + Len(w) - 1) : i # j => r[j][2] \notin Below(r[i][2])
    <2>1. PICK k \in 2..Len(w) : k = i - Len(s) + 1 /\ r[i] = w[k]
        BY <1>2
    <2>2. k \in DOMAIN w /\ 1 \in DOMAIN w /\ k # 1 /\ w[k] \in Items
        BY <1>3
    <2>3. w[k][2] \in Mons /\ w[k][2] \notin Below(m) /\ m \notin Below(w[k][2])
        BY <1>3, <2>2 DEF Apart, Items
    <2>4. ASSUME NEW j \in (Len(s) + 1)..(Len(s) + Len(w) - 1), i # j PROVE r[j][2] \notin Below(r[i][2])
        <3>1. PICK l \in 2..Len(w) : l = j - Len(s) + 1 /\ r[j] = w[l]
            BY <1>2
        <3>2. l \in DOMAIN w /\ l # k
            BY <1>1, <1>3, <2>1, <2>4, <3>1
        <3>. QED
            BY <2>1, <2>2, <3>1, <3>2 DEF Apart
    <2>. QED
        BY <2>1, <2>3, <2>4
<1>6. ASSUME NEW i \in DOMAIN r, NEW j \in DOMAIN r, i # j PROVE r[j][2] \notin Below(r[i][2])
    <2>1. CASE i \in 1..Len(s) /\ j \in 1..Len(s)
        BY <1>4, <1>6, <2>1
    <2>2. CASE i \in 1..Len(s) /\ j \notin 1..Len(s)
        <3>1. j \in (Len(s) + 1)..(Len(s) + Len(w) - 1)
            BY <1>1, <1>2, <1>3, <2>2
        <3>. QED
            BY <1>4, <1>5, <2>2, <3>1
    <2>3. CASE i \notin 1..Len(s) /\ j \in 1..Len(s)
        <3>1. i \in (Len(s) + 1)..(Len(s) + Len(w) - 1)
            BY <1>1, <1>2, <1>3, <2>3
        <3>2. /\ r[i][2] \in Mons /\ r[i][2] \notin Below(m) /\ m \notin Below(r[i][2])
              /\ r[j][2] \in Below(m) /\ r[j][2] \in Range(Down[m])
            BY <1>4, <1>5, <2>3, <3>1 DEF Below
        <3>3. SUFFICES ASSUME r[j][2] \in Under[r[i][2]] PROVE FALSE
            BY <3>2 DEF Below
        <3>4. PICK p \in Below(r[i][2]) : r[j][2] \in Range(Down[p])
            BY <3>2, <3>3, ParentIsBelow
        <3>5. p \in Mons
            BY <3>2, UnderIs DEF Below
        <3>6. p = m
            BY <3>2, <3>4, <3>5, OneParent
        <3>. QED
            BY <3>2, <3>4, <3>6
    <2>4. CASE i \notin 1..Len(s) /\ j \notin 1..Len(s)
        <3>1. i \in (Len(s) + 1)..(Len(s) + Len(w) - 1) /\ j \in (Len(s) + 1)..(Len(s) + Len(w) - 1)
            BY <1>1, <1>2, <1>3, <2>4
        <3>. QED
            BY <1>5, <1>6, <3>1
    <2>. QED
        BY <2>1, <2>2, <2>3, <2>4
<1>. QED
    BY <1>2, <1>6 DEF Apart

(* An element that has its mark is visited next; what is left is elsewhere.  *)
LEMMA VisitFor ==
    ASSUME NEW m \in Mons, NEW w \in Seq(Items), w # <<>>, Head(w)[2] = m, Apart(w),
           NEW r, r = <<<<"visit", m>>>> \o Tail(w)
    PROVE  /\ r \in Seq(Items) /\ Apart(r)
           /\ \A k \in 2..Len(w) : w[k][2] \notin Below(m)
<1>1. PICK s \in Seq(Items) : s = <<<<"visit", m>>>> /\ Len(s) = 1 /\ s[1] = <<"visit", m>>
    <2>1. PICK e \in Items : e = <<"visit", m>>
        BY DEF Items
    <2>2. <<e>> \in Seq(Items) /\ Len(<<e>>) = 1 /\ <<e>>[1] = e
        OBVIOUS
    <2>. QED
        BY <2>1, <2>2
<1>2. /\ r \in Seq(Items) /\ DOMAIN r = 1..(Len(s) + Len(w) - 1)
      /\ \A k \in 1..Len(s) : r[k] = s[k]
      /\ \A k \in (Len(s) + 1)..(Len(s) + Len(w) - 1) :
             k - Len(s) + 1 \in 2..Len(w) /\ r[k] = w[k - Len(s) + 1]
    BY <1>1, Replaced
<1>3. Len(w) \in Nat \ {0} /\ DOMAIN w = 1..Len(w) /\ w[1][2] = m
    OBVIOUS
<1>4. DOMAIN r = DOMAIN w /\ \A k \in DOMAIN w : r[k][2] = w[k][2]
    <2>1. DOMAIN r = DOMAIN w
        BY <1>1, <1>2, <1>3
    <2>2. r[1][2] = w[1][2]
        BY <1>1, <1>2, <1>3
    <2>3. ASSUME NEW k \in 2..Len(w) PROVE r[k] = w[k]
        BY <1>1, <1>2, <1>3
    <2>. QED
        BY <1>3, <2>1, <2>2, <2>3
<1>5. ASSUME NEW i \in DOMAIN r, NEW k \in DOMAIN r, i # k PROVE r[k][2] \notin Below(r[i][2])
    <2>1. w[k][2] \notin Below(w[i][2])
        BY <1>4, <1>5 DEF Apart
    <2>2. r[k][2] = w[k][2] /\ r[i][2] = w[i][2]
        BY <1>4
    <2>. QED
        BY <2>1, <2>2, Zenon
<1>6. \A k \in 2..Len(w) : k \in DOMAIN w /\ 1 \in DOMAIN w /\ k # 1
    BY <1>3
<1>. QED
    BY <1>2, <1>3, <1>5, <1>6, Zenon DEF Apart
-----------------------------------------------------------------------------
(* What the elements' goroutines do, and the clock, changes no override.     *)
LEMMA AsideKeeps ==
    ASSUME OverridesInv,
           UNCHANGED <<override, ancInOv, op, walk, inoverride, timers, overrides, met, contested, looked>>
    PROVE  OverridesInv'
<1>1. OverrideTypes' /\ WalksInCalls' /\ AllMet'
    BY DEF OverridesInv, OverrideTypes, WalksInCalls, AllMet, At
<1>2. \A p \in Mons : Inherited(p)' = Inherited(p) /\ Value(p)' = Value(p)
    BY DEF Inherited, Value
<1>3. \A u, e : Right(u, e)' <=> Right(u, e)
    BY <1>2 DEF Right, Meets
<1>4. WalksAreRight'
    BY <1>3 DEF OverridesInv, WalksAreRight
<1>5. \A u \in Users, p \in Mons : \A c : Owed(u, p, c)' <=> Owed(u, p, c)
    BY <1>2 DEF Owed
<1>6. Marked' /\ RootsAreNot'
    BY <1>2, <1>5 DEF OverridesInv, Marked, RootsAreNot, Contested
<1>7. Listed' /\ Changed'
    BY DEF OverridesInv, Listed, Changed, Contested
<1>. QED
    BY <1>1, <1>4, <1>6, <1>7 DEF OverridesInv

(* A call that is not walking has no walk.                                   *)
LEMMA NoWalk ==
    ASSUME OverridesInv, NEW u \in Users, \A m \in Mons : op[u] \notin {<<"setting", m>>, <<"deleting", m>>}
    PROVE  walk[u] = <<>> /\ Range(walk[u]) = {}
<1>1. walk[u] = <<>>
    BY DEF OverridesInv, WalksInCalls
<1>. QED
    BY <1>1 DEF Range

(* A call that walks is at work on an override, above what it has left.      *)
LEMMA WalkIsAt ==
    ASSUME OverridesInv, NEW u \in Users, NEW e \in Range(walk[u])
    PROVE  \E n \in Mons : At(u, n) /\ e[2] \in Below(n) /\ (e[1] # "visit" => e[2] \in Under[n])
<1>1. walk[u] # <<>>
    BY DEF Range
<1>. QED
    BY <1>1 DEF OverridesInv, WalksInCalls, At

(* The calls the model takes to be at work are these.                        *)
LEMMA WritingIs ==
    ASSUME OverrideTypes, NEW u \in Users
    PROVE  /\ \A n \in Mons : At(u, n) => u \in Writing /\ op[u][2] = n
           /\ u \in Writing => op[u][2] \in Mons /\ At(u, op[u][2])
<1>1. op[u] \in {None} \cup (Calls \X Mons)
    BY DEF OverrideTypes
<1>2. \A n \in Mons, call \in Calls : None # <<call, n>>
    BY MonelAssumption
<1>3. ASSUME NEW n \in Mons, At(u, n) PROVE u \in Writing /\ op[u][2] = n
    <2>1. PICK call \in {"set", "setting", "del", "deleting"} : op[u] = <<call, n>>
        BY <1>3 DEF At
    <2>2. op[u] # None
        BY <1>2, <2>1 DEF Calls
    <2>. QED
        BY <2>1, <2>2 DEF Writing
<1>4. ASSUME u \in Writing PROVE op[u][2] \in Mons /\ At(u, op[u][2])
    <2>1. PICK call \in Calls, n \in Mons : op[u] = <<call, n>>
        BY <1>1, <1>4 DEF Writing
    <2>. QED
        BY <1>4, <2>1 DEF Writing, At
<1>. QED
    BY <1>3, <1>4

(* An empty walk is right.                                                   *)
LEMMA EmptyIsRight == Apart(<<>>) /\ Range(<<>>) = {}
BY DEF Apart, Range

(* A call ends, or goes on to what does not change an override.              *)
LEMMA CallKeeps ==
    ASSUME OverridesInv, NEW u \in Users, NEW o \in {None} \cup ({"expire", "expired"} \X Mons),
           op' = [op EXCEPT ![u] = o], walk[u] = <<>>,
           \A m \in Mons : op[u] \notin {<<"set", m>>, <<"del", m>>},
           met' = met \/ met' = [met EXCEPT ![u] = {}],
           timers' \subseteq Mons \X Nat,
           looked' = looked \/ looked' = [looked EXCEPT ![u] = overrides],
           UNCHANGED <<override, ancInOv, walk, inoverride, overrides, contested>>
    PROVE  OverridesInv'
<1>1. op'[u] = o /\ \A v \in Users : v # u => op'[v] = op[v] /\ met'[v] = met[v]
    BY DEF OverridesInv, OverrideTypes
<1>2. OverrideTypes'
    <2>1. o \in {None} \cup (Calls \X Mons)
        BY DEF Calls
    <2>2. op' \in [Users -> {None} \cup (Calls \X Mons)] /\ met' \in [Users -> SUBSET Mons]
        BY <2>1 DEF OverridesInv, OverrideTypes
    <2>3. looked' \in [Users -> Nat] /\ \A v \in Users : looked'[v] <= overrides
        <3>1. overrides \in Nat /\ looked \in [Users -> Nat] /\ \A v \in Users : looked[v] <= overrides
            BY DEF OverridesInv, OverrideTypes
        <3>2. CASE looked' = looked
            BY <3>1, <3>2
        <3>3. CASE looked' = [looked EXCEPT ![u] = overrides]
            BY <3>1, <3>3
        <3>. QED
            BY <3>2, <3>3
    <2>. QED
        BY <2>2, <2>3 DEF OverridesInv, OverrideTypes
<1>3. \A m \in Mons, call \in Calls : None # <<call, m>>
    BY MonelAssumption
<1>4. \A m \in Mons : ~At(u, m)' /\ o # <<"set", m>> /\ o # <<"del", m>>
    BY <1>1, <1>3 DEF At, Calls
<1>5. AllMet'
    BY <1>1, <1>4 DEF OverridesInv, AllMet, At
<1>6. Range(walk[u]) = {}
    BY EmptyIsRight
<1>7. WalksInCalls'
    BY <1>1, <1>6 DEF OverridesInv, WalksInCalls
<1>8. \A p \in Mons : Inherited(p)' = Inherited(p) /\ Value(p)' = Value(p)
    BY DEF Inherited, Value
<1>9. WalksAreRight'
    <2>1. ASSUME NEW v \in Users, NEW e \in Range(walk[v]) PROVE Right(v, e)'
        BY <1>1, <1>6, <1>8, <2>1 DEF OverridesInv, WalksAreRight, Right, Meets
    <2>. QED
        BY <2>1 DEF OverridesInv, WalksAreRight
<1>10. \A v \in Users, p \in Mons : \A c : Owed(v, p, c) => Owed(v, p, c)'
    BY <1>1, <1>6, <1>8 DEF Owed
<1>11. Marked' /\ RootsAreNot'
    BY <1>8, <1>10 DEF OverridesInv, Marked, RootsAreNot, Contested
<1>12. Listed'
    BY <1>1 DEF OverridesInv, Listed, Contested
<1>13. Changed'
    BY <1>1, <1>4 DEF OverridesInv, Changed
<1>. QED
    BY <1>2, <1>5, <1>7, <1>9, <1>11, <1>12, <1>13 DEF OverridesInv

(* An override is set or removed; the walk and the list are to follow.  All  *)
(* the calls at work meet this one, and what they have yet to assign may be  *)
(* out of date.                                                              *)
LEMMA ChangeKeeps ==
    ASSUME OverridesInv, NEW u \in Users, NEW m \in Mons, NEW n \in Nat, NEW call \in {"set", "del"},
           op' = [op EXCEPT ![u] = <<call, m>>],
           \A x \in Mons : op[u] \notin {<<"set", x>>, <<"setting", x>>, <<"del", x>>, <<"deleting", x>>},
           override' = [override EXCEPT ![m] = n], call = "set" <=> n # 0,
           Meet(u, m),
           overrides' \in {overrides, overrides + 1},
           looked' = looked \/ looked' = [looked EXCEPT ![u] = 0],
           UNCHANGED <<ancInOv, walk, inoverride, timers, contested>>
    PROVE  OverridesInv'
<1>1. op'[u] = <<call, m>> /\ \A v \in Users : v # u => op'[v] = op[v]
    BY DEF OverridesInv, OverrideTypes
<1>2. OverrideTypes /\ walk[u] = <<>> /\ Range(walk[u]) = {}
    BY NoWalk DEF OverridesInv
<1>3. met'[u] = {op[x][2] : x \in Writing}
      /\ \A v \in Users : v # u => met'[v] = IF v \in Writing THEN met[v] \cup {m} ELSE met[v]
    BY DEF Meet
<1>4. /\ \A v \in Users : v # u => met[v] \subseteq met'[v]
      /\ \A v \in Users, x \in Mons : v # u /\ At(v, x) => m \in met'[v] /\ x \in met'[u]
    <2>1. \A v \in Users : v # u => met[v] \subseteq met'[v]
        BY <1>3
    <2>2. ASSUME NEW v \in Users, NEW x \in Mons, v # u, At(v, x) PROVE m \in met'[v] /\ x \in met'[u]
        <3>1. v \in Writing /\ op[v][2] = x
            BY <1>2, <2>2, WritingIs
        <3>. QED
            BY <1>3, <2>2, <3>1
    <2>. QED
        BY <2>1, <2>2
<1>5. OverrideTypes'
    <2>1. op' \in [Users -> {None} \cup (Calls \X Mons)]
        BY <1>2 DEF OverrideTypes, Calls
    <2>2. met' \in [Users -> SUBSET Mons]
        <3>1. \A v \in Users : met'[v] \subseteq Mons
            <4>1. \A x \in Writing : op[x][2] \in Mons
                BY <1>2, WritingIs DEF Writing
            <4>2. \A v \in Users : met[v] \subseteq Mons
                BY <1>2 DEF OverrideTypes
            <4>3. met'[u] \subseteq Mons
                BY <1>3, <4>1
            <4>4. ASSUME NEW v \in Users, v # u PROVE met'[v] \subseteq Mons
                BY <1>3, <4>2, <4>4
            <4>. QED
                BY <4>3, <4>4
        <3>. QED
            BY <3>1 DEF Meet
    <2>3. overrides' \in Nat /\ looked' \in [Users -> Nat] /\ \A v \in Users : looked'[v] <= overrides'
        <3>1. /\ overrides \in Nat /\ overrides <= overrides' /\ overrides' \in Nat
              /\ looked \in [Users -> Nat] /\ \A v \in Users : looked[v] <= overrides
            BY <1>2 DEF OverrideTypes
        <3>2. looked' \in [Users -> Nat] /\ \A v \in Users : looked'[v] \in {0, looked[v]}
            BY <3>1
        <3>. QED
            BY <3>1, <3>2
    <2>. QED
        BY <1>2, <2>1, <2>2, <2>3 DEF OverrideTypes
<1>6. AllMet'
    <2>1. ASSUME NEW v \in Users, NEW w \in Users, NEW x \in Mons, NEW y \in Mons, v # w, At(v, x)', At(w, y)'
          PROVE  y \in met'[v]
        <3>1. CASE v = u
            <4>1. At(w, y)
                BY <1>1, <2>1, <3>1 DEF At
            <4>. QED
                BY <1>4, <2>1, <3>1, <4>1
        <3>2. CASE w = u
            <4>1. At(v, x) /\ y = m
                BY <1>1, <2>1, <3>2 DEF At
            <4>. QED
                BY <1>4, <2>1, <3>2, <4>1
        <3>3. CASE v # u /\ w # u
            <4>1. At(v, x) /\ At(w, y)
                BY <1>1, <2>1, <3>3 DEF At
            <4>2. y \in met[v]
                BY <2>1, <4>1 DEF OverridesInv, AllMet
            <4>. QED
                BY <1>4, <3>3, <4>2
        <3>. QED
            BY <3>1, <3>2, <3>3
    <2>. QED
        BY <2>1 DEF AllMet
<1>7. WalksInCalls'
    BY <1>1, <1>2 DEF OverridesInv, WalksInCalls
<1>8. override'[m] = n /\ \A p \in Mons : p # m => /\ override'[p] = override[p]
                                                  /\ Inherited(p)' = Inherited(p) /\ Value(p)' = Value(p)
    BY <1>2 DEF OverrideTypes, Inherited, Value
<1>9. WalksAreRight'
    <2>1. ASSUME NEW v \in Users, NEW e \in Range(walk[v]), e[1] # "visit" PROVE Right(v, e)'
        <3>1. v # u
            BY <1>2, <2>1
        <3>2. PICK p \in Mons : e[2] \in Range(Down[p]) /\ (e[1] = Value(p) \/ Meets(v, e[2]))
            BY <2>1 DEF OverridesInv, WalksAreRight, Right
        <3>3. Meets(v, e[2]) => Meets(v, e[2])'
            BY <1>4, <3>1 DEF Meets
        <3>4. CASE p = m
            <4>1. e[2] \in Under[m]
                BY <3>2, <3>4, UnderIs
            <4>2. m \in met'[v]
                BY <1>4, <2>1, <3>1, WalkIsAt
            <4>. QED
                BY <3>2, <4>1, <4>2 DEF Right, Meets
        <3>5. CASE p # m
            BY <1>8, <3>2, <3>3, <3>5 DEF Right
        <3>. QED
            BY <3>4, <3>5
    <2>2. ASSUME NEW v \in Users, NEW e \in Range(walk[v]) PROVE Right(v, e)'
        BY <2>1, <2>2 DEF Right
    <2>. QED
        BY <2>2 DEF OverridesInv, WalksAreRight
<1>10. \A c : Owed(u, m, c)'
    BY <1>1 DEF Owed
<1>11. \A v \in Users, p \in Mons : \A c : p # m /\ Owed(v, p, c) => Owed(v, p, c)'
    BY <1>1, <1>2, <1>8 DEF Owed
<1>12. Marked' /\ RootsAreNot'
    BY <1>8, <1>10, <1>11 DEF OverridesInv, Marked, RootsAreNot, Contested
<1>13. Listed'
    <2>1. \A x \in Mons, v \in Users :
              x # m /\ op[v] \in {<<"set", x>>, <<"del", x>>} => op'[v] \in {<<"set", x>>, <<"del", x>>}
        BY <1>1
    <2>. QED
        BY <1>1, <1>8, <2>1 DEF OverridesInv, Listed, Contested
<1>14. Changed'
    <2>1. ASSUME NEW v \in Users, NEW x \in Mons,
                 \/ op'[v] = <<"set", x>> /\ override'[x] = 0
                 \/ op'[v] = <<"del", x>> /\ override'[x] # 0
          PROVE  x \in met'[v]
        <3>1. CASE v = u
            BY <1>1, <1>8, <2>1, <3>1
        <3>2. CASE v # u /\ x = m
            BY <1>1, <1>4, <2>1, <3>2 DEF At
        <3>3. CASE v # u /\ x # m
            BY <1>1, <1>4, <1>8, <2>1, <3>3 DEF OverridesInv, Changed
        <3>. QED
            BY <3>1, <3>2, <3>3
    <2>. QED
        BY <2>1 DEF Changed
<1>. QED
    BY <1>5, <1>6, <1>7, <1>9, <1>12, <1>13, <1>14 DEF OverridesInv

(* The list, and the beginning of the walk.                                  *)
LEMMA ListKeeps ==
    ASSUME OverridesInv, NEW u \in Users, NEW m \in Mons, ListOverride(u, m)
    PROVE  OverridesInv'
<1>1. /\ op[u] \in {<<"set", m>>, <<"del", m>>}
      /\ op'[u] \in {<<"setting", m>>, <<"deleting", m>>} /\ walk'[u] = <<<<"visit", m>>>>
      /\ \A v \in Users : v # u => op'[v] = op[v] /\ walk'[v] = walk[v]
      /\ UNCHANGED <<override, ancInOv, timers, overrides, met, looked>>
    BY DEF ListOverride, OverridesInv, OverrideTypes
<1>2. walk[u] = <<>> /\ Range(walk[u]) = {}
    BY <1>1, NoWalk
<1>3. <<<<"visit", m>>>> \in Seq(Items)
    BY DEF Items
<1>4. op' \in [Users -> {None} \cup (Calls \X Mons)] /\ inoverride' \subseteq Mons
    <2>1. PICK o : o \in {<<"setting", m>>, <<"deleting", m>>} /\ op' = [op EXCEPT ![u] = o]
        BY DEF ListOverride
    <2>2. o \in Calls \X Mons
        BY <2>1 DEF Calls
    <2>3. op \in [Users -> {None} \cup (Calls \X Mons)] /\ inoverride \subseteq Mons
        BY DEF OverridesInv, OverrideTypes
    <2>4. op' \in [Users -> {None} \cup (Calls \X Mons)]
        BY <2>1, <2>2, <2>3
    <2>. QED
        BY <2>3, <2>4 DEF ListOverride
<1>5. OverrideTypes'
    BY <1>1, <1>3, <1>4 DEF ListOverride, OverridesInv, OverrideTypes
<1>6. AllMet'
    <2>1. ASSUME NEW v \in Users, NEW x \in Mons, At(v, x)' PROVE At(v, x)
        BY <1>1, <2>1 DEF At
    <2>. QED
        BY <1>1, <2>1 DEF OverridesInv, AllMet
<1>7. Apart(walk'[u]) /\ Range(walk'[u]) = {<<"visit", m>>}
    BY <1>1 DEF Apart, Range
<1>8. WalksInCalls'
    <2>1. \A e \in Range(walk'[u]) : e[2] \in Below(m) /\ e[1] = "visit"
        BY <1>7 DEF Below
    <2>2. ASSUME NEW v \in Users, v # u, walk'[v] # <<>>
          PROVE  \E n \in Mons :
                    /\ op'[v] \in {<<"setting", n>>, <<"deleting", n>>}
                    /\ \A e \in Range(walk'[v]) : e[2] \in Below(n) /\ (e[1] # "visit" => e[2] \in Under[n])
        BY <1>1, <2>2 DEF OverridesInv, WalksInCalls
    <2>. QED
        BY <1>1, <2>1, <2>2 DEF WalksInCalls
<1>9. \A p \in Mons : Inherited(p)' = Inherited(p) /\ Value(p)' = Value(p)
    BY <1>1 DEF Inherited, Value
<1>10. WalksAreRight'
    <2>1. \A v, e : Right(v, e)' <=> Right(v, e)
        BY <1>1, <1>9 DEF Right, Meets
    <2>2. ASSUME NEW v \in Users, v # u PROVE Apart(walk'[v]) /\ \A e \in Range(walk'[v]) : Right(v, e)'
        BY <1>1, <2>1, <2>2 DEF OverridesInv, WalksAreRight
    <2>3. \A e \in Range(walk'[u]) : Right(u, e)'
        BY <1>7 DEF Right
    <2>. QED
        BY <1>7, <2>2, <2>3 DEF WalksAreRight
<1>11. ASSUME NEW v \in Users, NEW p \in Mons, NEW c, Owed(v, p, c) PROVE Owed(v, p, c)'
    <2>1. CASE v = u
        <3>1. p = m
            BY <1>1, <1>2, <1>11, <2>1 DEF Owed
        <3>. QED
            BY <1>7, <2>1, <3>1 DEF Owed
    <2>2. CASE v # u
        BY <1>1, <1>9, <1>11, <2>2 DEF Owed
    <2>. QED
        BY <2>1, <2>2
<1>12. \A c : Contested("mark", c)' <=> Contested("mark", c)
    BY DEF ListOverride, Contest, Contested
<1>13. Marked' /\ RootsAreNot'
    BY <1>1, <1>9, <1>11, <1>12 DEF OverridesInv, Marked, RootsAreNot
<1>14. Listed'
    <2>1. (m \in inoverride' <=> override[m] # 0) \/ Contested("list", m)'
        <3>1. CASE m \in met[u]
            BY <3>1 DEF ListOverride, Contest, Contested
        <3>2. CASE m \notin met[u]
            <4>1. (op[u] = <<"set", m>> => override[m] # 0) /\ (op[u] = <<"del", m>> => override[m] = 0)
                BY <3>2 DEF OverridesInv, Changed
            <4>2. CASE op[u] = <<"set", m>> /\ inoverride' = inoverride \cup {m}
                <5>1. override[m] # 0
                    BY <4>1, <4>2
                <5>. QED
                    BY <4>2, <5>1
            <4>3. CASE op[u] = <<"del", m>> /\ inoverride' = inoverride \ {m}
                <5>1. override[m] = 0
                    BY <4>1, <4>3
                <5>. QED
                    BY <4>3, <5>1
            <4>. QED
                BY <4>2, <4>3 DEF ListOverride
        <3>. QED
            BY <3>1, <3>2
    <2>2. ASSUME NEW x \in Mons, x # m
          PROVE  /\ x \in inoverride' <=> x \in inoverride
                 /\ Contested("list", x) => Contested("list", x)'
                 /\ \A v \in Users : op[v] \in {<<"set", x>>, <<"del", x>>} => op'[v] = op[v]
        <3>1. Contested("list", x) => Contested("list", x)'
            BY <2>2 DEF ListOverride, Contest, Contested
        <3>2. x \in inoverride' <=> x \in inoverride
            BY <2>2 DEF ListOverride
        <3>3. \A v \in Users : op[v] \in {<<"set", x>>, <<"del", x>>} => op'[v] = op[v]
            BY <1>1, <2>2
        <3>. QED
            BY <3>1, <3>2, <3>3
    <2>. QED
        BY <1>1, <2>1, <2>2 DEF OverridesInv, Listed
<1>15. Changed'
    BY <1>1 DEF OverridesInv, Changed
<1>. QED
    BY <1>5, <1>6, <1>8, <1>10, <1>13, <1>14, <1>15 DEF OverridesInv

(* The walk: the children of an element are next, with what it says.         *)
LEMMA VisitKeeps ==
    ASSUME OverridesInv, NEW u \in Users, NEW m \in Mons, Visit(u, m)
    PROVE  OverridesInv'
<1>1. PICK w \in Seq(Items) : w = walk[u] /\ w # <<>> /\ Head(w) = <<"visit", m>> /\ Apart(w)
    BY DEF Visit, OverridesInv, OverrideTypes, WalksAreRight
<1>2. UNCHANGED <<override, ancInOv, op, inoverride, timers, overrides, met, contested, looked>>
    BY DEF Visit, pkg, hist
<1>3. Down[m] \in Seq(Mons) /\ Value(m) \in {"mark", "clear"}
    BY MonelAssumption DEF Value
<1>4. PICK s \in Seq(Items) : /\ s = [i \in DOMAIN Down[m] |-> <<Value(m), Down[m][i]>>]
                              /\ DOMAIN s = DOMAIN Down[m]
                              /\ \A i \in DOMAIN s : s[i] = <<Value(m), Down[m][i]>>
    <2>1. PICK s : s = [i \in DOMAIN Down[m] |-> <<Value(m), Down[m][i]>>]
        OBVIOUS
    <2>2. s \in Seq(Items) /\ DOMAIN s = DOMAIN Down[m] /\ \A i \in DOMAIN s : s[i] = <<Value(m), Down[m][i]>>
        BY <1>3, <2>1, ItemsFor
    <2>. QED
        BY <2>1, <2>2, Zenon
<1>5. walk' = [walk EXCEPT ![u] = s \o Tail(w)]
    BY <1>1, <1>4 DEF Visit, Value
<1>6. PICK r : r = s \o Tail(w)
    OBVIOUS
<1>7. r \in Seq(Items) /\ Apart(r)
    <2>1. \A i \in DOMAIN s : s[i][2] = Down[m][i]
        BY <1>4
    <2>. QED
        BY <1>1, <1>4, <1>6, <2>1, ChildrenFor
<1>8. /\ Range(s) \subseteq Range(r)
      /\ \A e \in Range(w) : e # <<"visit", m>> => e \in Range(r)
      /\ \A e \in Range(r) : e \in Range(s) \/ \E k \in 2..Len(w) : e = w[k]
    <2>1. /\ Range(s) \subseteq Range(r)
          /\ \A e \in Range(w) : e # Head(w) => e \in Range(r)
          /\ \A e \in Range(r) : e \in Range(s) \/ \E k \in 2..Len(w) : e = w[k]
        BY <1>1, <1>6, ReplacedRange, Zenon
    <2>. QED
        BY <1>1, <2>1, Zenon
<1>9. /\ \A e \in Range(s) : \E c \in Range(Down[m]) : e = <<Value(m), c>>
      /\ \A c \in Range(Down[m]) : <<Value(m), c>> \in Range(s)
    BY <1>4 DEF Range
<1>10. <<"visit", m>> \in Range(w) /\ \A k \in 2..Len(w) : w[k] \in Range(w)
    BY <1>1 DEF Range
<1>11. /\ walk'[u] = r /\ walk' \in [Users -> Seq(Items)]
       /\ \A v \in Users : v # u => walk'[v] = walk[v]
    BY <1>5, <1>6, <1>7 DEF OverridesInv, OverrideTypes
<1>12. OverrideTypes' /\ AllMet'
    BY <1>2, <1>11 DEF OverridesInv, OverrideTypes, AllMet, At
<1>13. WalksInCalls'
    <2>1. PICK n \in Mons :
              /\ op[u] \in {<<"setting", n>>, <<"deleting", n>>}
              /\ \A e \in Range(w) : e[2] \in Below(n) /\ (e[1] # "visit" => e[2] \in Under[n])
        BY <1>1 DEF OverridesInv, WalksInCalls
    <2>2. ASSUME NEW e \in Range(r) PROVE e[2] \in Below(n) /\ (e[1] # "visit" => e[2] \in Under[n])
        <3>1. CASE e \in Range(s)
            <4>1. PICK c \in Range(Down[m]) : e = <<Value(m), c>>
                BY <1>9, <3>1
            <4>2. m \in Below(n)
                BY <1>10, <2>1
            <4>3. c \in Under[n]
                BY <4>1, <4>2, ChildrenAreBelow
            <4>. QED
                BY <4>1, <4>3 DEF Below
        <3>2. CASE \E k \in 2..Len(w) : e = w[k]
            BY <1>10, <2>1, <3>2
        <3>. QED
            BY <1>8, <3>1, <3>2
    <2>3. ASSUME NEW v \in Users, v # u, walk'[v] # <<>>
          PROVE  \E x \in Mons :
                    /\ op'[v] \in {<<"setting", x>>, <<"deleting", x>>}
                    /\ \A e \in Range(walk'[v]) : e[2] \in Below(x) /\ (e[1] # "visit" => e[2] \in Under[x])
        BY <1>2, <1>11, <2>3 DEF OverridesInv, WalksInCalls
    <2>. QED
        BY <1>2, <1>11, <2>1, <2>2, <2>3 DEF WalksInCalls
<1>14. \A p \in Mons : Inherited(p)' = Inherited(p) /\ Value(p)' = Value(p)
    BY <1>2 DEF Inherited, Value
<1>15. WalksAreRight'
    <2>1. \A v, e : Right(v, e)' <=> Right(v, e)
        BY <1>2, <1>14 DEF Right, Meets
    <2>2. ASSUME NEW e \in Range(r) PROVE Right(u, e)
        <3>1. CASE e \in Range(s)
            BY <1>9, <3>1 DEF Right
        <3>2. CASE \E k \in 2..Len(w) : e = w[k]
            BY <1>1, <1>10, <3>2 DEF OverridesInv, WalksAreRight
        <3>. QED
            BY <1>8, <3>1, <3>2
    <2>3. ASSUME NEW v \in Users, v # u PROVE Apart(walk'[v]) /\ \A e \in Range(walk'[v]) : Right(v, e)'
        BY <1>11, <2>1, <2>3 DEF OverridesInv, WalksAreRight
    <2>. QED
        BY <1>7, <1>11, <2>1, <2>2, <2>3 DEF WalksAreRight
<1>16. ASSUME NEW v \in Users, NEW p \in Mons, NEW c \in Range(Down[p]), Owed(v, p, c) PROVE Owed(v, p, c)'
    <2>1. CASE v # u
        BY <1>2, <1>11, <1>14, <1>16, <2>1 DEF Owed
    <2>2. CASE v = u /\ p = m
        BY <1>8, <1>9, <1>11, <1>14, <2>2 DEF Owed
    <2>3. CASE v = u /\ p # m
        <3>1. <<"visit", p>> # <<"visit", m>> /\ <<Value(p), c>> # <<"visit", m>>
            BY <2>3 DEF Value
        <3>2. \/ op'[u] \in {<<"set", p>>, <<"del", p>>}
              \/ <<"visit", p>> \in Range(r)
              \/ <<Value(p), c>> \in Range(r)
            BY <1>1, <1>2, <1>8, <1>16, <2>3, <3>1 DEF Owed
        <3>. QED
            BY <1>11, <1>14, <2>3, <3>2 DEF Owed
    <2>. QED
        BY <2>1, <2>2, <2>3
<1>17. Marked' /\ RootsAreNot'
    BY <1>2, <1>14, <1>16 DEF OverridesInv, Marked, RootsAreNot, Contested
<1>18. Listed' /\ Changed'
    BY <1>2 DEF OverridesInv, Listed, Changed, Contested
<1>. QED
    BY <1>12, <1>13, <1>15, <1>17, <1>18 DEF OverridesInv

(* A child gets its mark, which is the one of its parent unless the call has *)
(* met another that reaches it, and its children are next.                   *)
LEMMA AssignKeeps ==
    ASSUME OverridesInv, NEW u \in Users, NEW m \in Mons, Assign(u, m)
    PROVE  OverridesInv'
<1>1. PICK w \in Seq(Items) : /\ w = walk[u] /\ w # <<>> /\ Apart(w)
                              /\ Head(w) \in {<<"mark", m>>, <<"clear", m>>}
    BY DEF Assign, OverridesInv, OverrideTypes, WalksAreRight
<1>2. UNCHANGED <<override, op, inoverride, timers, overrides, met, looked>>
    BY DEF Assign, pkg
<1>3. PICK s : s = <<<<"visit", m>>>>
    OBVIOUS
<1>4. s \in Seq(Items) /\ Range(s) = {<<"visit", m>>}
    BY <1>3 DEF Items, Range
<1>5. PICK r : r = s \o Tail(w)
    OBVIOUS
<1>6. walk'[u] = r /\ \A v \in Users : v # u => walk'[v] = walk[v]
    BY <1>1, <1>3, <1>5 DEF Assign, OverridesInv, OverrideTypes
<1>7. r \in Seq(Items) /\ Apart(r) /\ \A k \in 2..Len(w) : w[k][2] \notin Below(m)
    <2>1. Head(w)[2] = m
        BY <1>1
    <2>. QED
        BY <1>1, <1>3, <1>5, <2>1, VisitFor
<1>8. /\ <<"visit", m>> \in Range(r)
      /\ \A e \in Range(w) : e # Head(w) => e \in Range(r)
      /\ \A e \in Range(r) : e = <<"visit", m>> \/ \E k \in 2..Len(w) : e = w[k]
    <2>1. /\ Range(s) \subseteq Range(r)
          /\ \A e \in Range(w) : e # Head(w) => e \in Range(r)
          /\ \A e \in Range(r) : e \in Range(s) \/ \E k \in 2..Len(w) : e = w[k]
        BY <1>1, <1>4, <1>5, ReplacedRange, Zenon
    <2>. QED
        BY <1>4, <2>1, Zenon
<1>9. Head(w) \in Range(w) /\ \A k \in 2..Len(w) : w[k] \in Range(w) /\ w[k] \in Items
    BY <1>1 DEF Range
<1>10. PICK q \in Mons : m \in Range(Down[q]) /\ (Head(w)[1] = Value(q) \/ Meets(u, m))
    <2>1. Right(u, Head(w)) /\ Head(w)[1] # "visit" /\ Head(w)[2] = m
        BY <1>1, <1>9 DEF OverridesInv, WalksAreRight
    <2>. QED
        BY <2>1 DEF Right
<1>11. /\ Meets(u, m) \/ ancInOv'[m] = Inherited(q)
       /\ \A x \in Mons : x # m => ancInOv'[x] = ancInOv[x]
       /\ ancInOv' \in [Mons -> BOOLEAN]
    <2>1. Inherited(q) \in BOOLEAN
        BY DEF Inherited, OverridesInv, OverrideTypes
    <2>2. Meets(u, m) \/ (Head(w)[1] = "mark") = Inherited(q)
        BY <1>10, <2>1 DEF Value
    <2>3. ancInOv' = [ancInOv EXCEPT ![m] = (Head(w)[1] = "mark")]
        BY <1>1 DEF Assign
    <2>. QED
        BY <2>1, <2>2, <2>3 DEF OverridesInv, OverrideTypes
<1>12. \A p \in Mons : p # m => Inherited(p)' = Inherited(p) /\ Value(p)' = Value(p)
    BY <1>2, <1>11 DEF Inherited, Value
<1>13. \A c \in Range(Down[m]) : c \in Under[m] /\ c \in Mons
    BY UnderIs
<1>14. m \notin Range(Down[m]) /\ q # m
    BY <1>10, <1>13, NotUnderItself
<1>15. PICK n \in Mons :
           /\ op[u] \in {<<"setting", n>>, <<"deleting", n>>}
           /\ \A e \in Range(w) : e[2] \in Below(n) /\ (e[1] # "visit" => e[2] \in Under[n])
    BY <1>1 DEF OverridesInv, WalksInCalls
<1>16. m \in Below(n) /\ At(u, n)
    BY <1>1, <1>9, <1>15 DEF At
<1>17. OverrideTypes' /\ AllMet'
    <2>1. walk' \in [Users -> Seq(Items)]
        BY <1>1, <1>3, <1>5, <1>7 DEF Assign, OverridesInv, OverrideTypes
    <2>. QED
        BY <1>2, <1>11, <2>1 DEF OverridesInv, OverrideTypes, AllMet, At
<1>18. WalksInCalls'
    <2>1. ASSUME NEW e \in Range(r) PROVE e[2] \in Below(n) /\ (e[1] # "visit" => e[2] \in Under[n])
        BY <1>8, <1>9, <1>15, <1>16, <2>1
    <2>2. ASSUME NEW v \in Users, v # u, walk'[v] # <<>>
          PROVE  \E x \in Mons :
                    /\ op'[v] \in {<<"setting", x>>, <<"deleting", x>>}
                    /\ \A e \in Range(walk'[v]) : e[2] \in Below(x) /\ (e[1] # "visit" => e[2] \in Under[x])
        BY <1>2, <1>6, <2>2 DEF OverridesInv, WalksInCalls
    <2>. QED
        BY <1>2, <1>6, <1>15, <2>1, <2>2 DEF WalksInCalls
<1>19. \A v, c : Meets(v, c)' <=> Meets(v, c)
    BY <1>2 DEF Meets
<1>20. WalksAreRight'
    <2>1. ASSUME NEW e \in Range(r) PROVE Right(u, e)'
        <3>1. CASE e = <<"visit", m>>
            BY <3>1 DEF Right
        <3>2. CASE \E k \in 2..Len(w) : e = w[k]
            <4>1. PICK k \in 2..Len(w) : e = w[k]
                BY <3>2
            <4>2. Right(u, e) /\ e[2] \notin Below(m)
                BY <1>1, <1>7, <1>9, <4>1 DEF OverridesInv, WalksAreRight
            <4>3. ASSUME NEW p \in Mons, e[2] \in Range(Down[p]) PROVE p # m
                BY <1>13, <4>2, <4>3 DEF Below
            <4>. QED
                BY <1>12, <1>19, <4>2, <4>3 DEF Right
        <3>. QED
            BY <1>8, <3>1, <3>2
    <2>2. ASSUME NEW v \in Users, v # u, NEW e \in Range(walk[v]), e[1] # "visit" PROVE Right(v, e)'
        <3>1. PICK p \in Mons : e[2] \in Range(Down[p]) /\ (e[1] = Value(p) \/ Meets(v, e[2]))
            BY <2>2 DEF OverridesInv, WalksAreRight, Right
        <3>2. CASE p = m
            <4>1. e[2] \in Under[n]
                BY <1>16, <3>1, <3>2, ChildrenAreBelow
            <4>2. n \in met[v]
                BY <1>16, <2>2, WalkIsAt DEF OverridesInv, AllMet
            <4>3. Meets(v, e[2])'
                BY <1>2, <4>1, <4>2 DEF Meets
            <4>. QED
                BY <3>1, <4>3 DEF Right
        <3>3. CASE p # m
            BY <1>12, <1>19, <3>1, <3>3 DEF Right
        <3>. QED
            BY <3>2, <3>3
    <2>3. ASSUME NEW v \in Users, v # u PROVE Apart(walk'[v]) /\ \A e \in Range(walk'[v]) : Right(v, e)'
        <3>1. ASSUME NEW e \in Range(walk[v]) PROVE Right(v, e)'
            BY <2>2, <2>3, <3>1 DEF Right
        <3>. QED
            BY <1>6, <2>3, <3>1 DEF OverridesInv, WalksAreRight
    <2>. QED
        BY <1>6, <1>7, <2>1, <2>3 DEF WalksAreRight
<1>21. (Meets(u, m) => Contested("mark", m)') /\ \A c \in Mons : c # m /\ Contested("mark", c) => Contested("mark", c)'
    BY DEF Assign, Contest, Contested, Meets
<1>22. ASSUME NEW v \in Users, NEW p \in Mons, NEW c \in Range(Down[p]), p # m, c # m, Owed(v, p, c)
       PROVE  Owed(v, p, c)'
    <2>1. CASE v # u
        BY <1>2, <1>6, <1>12, <1>22, <2>1 DEF Owed
    <2>2. CASE v = u
        <3>1. <<"visit", p>> # Head(w) /\ <<Value(p), c>> # Head(w)
            BY <1>1, <1>22
        <3>2. \/ op'[u] \in {<<"set", p>>, <<"del", p>>}
              \/ <<"visit", p>> \in Range(r)
              \/ <<Value(p), c>> \in Range(r)
            BY <1>1, <1>2, <1>8, <1>22, <2>2, <3>1 DEF Owed
        <3>. QED
            BY <1>6, <1>12, <1>22, <2>2, <3>2 DEF Owed
    <2>. QED
        BY <2>1, <2>2
<1>23. ASSUME NEW p \in Mons, NEW c \in Range(Down[p]), (ancInOv[c] # Inherited(p))', ~Contested("mark", c)'
       PROVE  \E v \in Users : Owed(v, p, c)'
    <2>1. CASE p = m
        BY <1>6, <1>8, <2>1 DEF Owed
    <2>2. CASE p # m
        <3>1. c # m
            <4>1. c = m => p = q
                BY <1>10, OneParent
            <4>. QED
                BY <1>11, <1>12, <1>21, <1>23, <2>2, <4>1
        <3>2. c \in Mons
            BY UnderIs
        <3>3. PICK v \in Users : Owed(v, p, c)
            BY <1>11, <1>12, <1>21, <1>23, <2>2, <3>1, <3>2 DEF OverridesInv, Marked
        <3>. QED
            BY <1>22, <2>2, <3>1, <3>3
    <2>. QED
        BY <2>1, <2>2
<1>24. Marked'
    BY <1>23 DEF Marked
<1>25. RootsAreNot'
    BY <1>10, <1>11 DEF OverridesInv, RootsAreNot
<1>26. Listed' /\ Changed'
    <2>1. \A x : Contested("list", x)' <=> Contested("list", x)
        BY DEF Assign, Contest, Contested
    <2>. QED
        BY <1>2, <2>1 DEF OverridesInv, Listed, Changed
<1>. QED
    BY <1>17, <1>18, <1>20, <1>24, <1>25, <1>26 DEF OverridesInv
-----------------------------------------------------------------------------
(* An override is set, by a call that has just begun.                        *)
LEMMA SetKeeps ==
    ASSUME OverridesInv, NEW u \in Users, NEW m \in Mons, SetOverride(u, m)
    PROVE  OverridesInv'
<1>1. \A x \in Mons, call \in Calls : op[u] # <<call, x>>
    BY MonelAssumption DEF SetOverride
<1>2. overrides + 1 \in Nat /\ overrides + 1 # 0
    BY DEF OverridesInv, OverrideTypes
<1>3. /\ op' = [op EXCEPT ![u] = <<"set", m>>] /\ Meet(u, m)
      /\ override' = [override EXCEPT ![m] = overrides + 1] /\ overrides' = overrides + 1
      /\ UNCHANGED <<ancInOv, walk, inoverride, timers, contested, looked>>
    BY DEF SetOverride, pkg
<1>4. \A x \in Mons : op[u] \notin {<<"set", x>>, <<"setting", x>>, <<"del", x>>, <<"deleting", x>>}
    BY <1>1 DEF Calls
<1>. QED
    BY <1>2, <1>3, <1>4, ChangeKeeps

(* An override is removed, by a user or because its time has come.           *)
LEMMA DelKeeps ==
    ASSUME OverridesInv, NEW u \in Users, NEW m \in Mons, DelOverride(u, m)
    PROVE  OverridesInv'
<1>1. \A x \in Mons, call \in Calls : None # <<call, x>>
    BY MonelAssumption
<1>2. op[u] \in {None, <<"expired", m>>}
    BY DEF DelOverride
<1>3. \A x \in Mons, call \in Calls \ {"expired"} : op[u] # <<call, x>>
    BY <1>1, <1>2
<1>4. /\ op' = [op EXCEPT ![u] = <<"del", m>>] /\ Meet(u, m)
      /\ override' = [override EXCEPT ![m] = 0] /\ overrides' \in {overrides, overrides + 1}
      /\ looked' = [looked EXCEPT ![u] = 0]
      /\ UNCHANGED <<ancInOv, walk, inoverride, timers, contested>>
    BY DEF DelOverride, pkg
<1>5. \A x \in Mons : op[u] \notin {<<"set", x>>, <<"setting", x>>, <<"del", x>>, <<"deleting", x>>}
    BY <1>3 DEF Calls
<1>. QED
    BY <1>4, <1>5, ChangeKeeps

(* The walk is over, and the call with it but for the time of expiry.        *)
LEMMA EndKeeps ==
    ASSUME OverridesInv, NEW u \in Users, NEW m \in Mons, EndWalk(u, m)
    PROVE  OverridesInv'
<1>1. PICK o \in {None, <<"expire", m>>} : op' = [op EXCEPT ![u] = o]
    BY DEF EndWalk
<1>2. op[u] \in {<<"setting", m>>, <<"deleting", m>>} /\ walk[u] = <<>>
    BY DEF EndWalk
<1>3. \A x \in Mons : op[u] \notin {<<"set", x>>, <<"del", x>>}
    BY <1>2
<1>4. o \in {None} \cup ({"expire", "expired"} \X Mons)
    OBVIOUS
<1>5. /\ met' = [met EXCEPT ![u] = {}] /\ timers' = timers /\ timers \subseteq Mons \X Nat
      /\ UNCHANGED <<override, ancInOv, walk, inoverride, overrides, contested, looked>>
    BY DEF EndWalk, pkg, OverridesInv, OverrideTypes
<1>. QED
    BY <1>1, <1>2, <1>3, <1>4, <1>5, CallKeeps

(* A timer is set for the override there is now.                             *)
LEMMA TimerKeeps ==
    ASSUME OverridesInv, NEW u \in Users, NEW m \in Mons, setOverrideExpire(u, m)
    PROVE  OverridesInv'
<1>1. op[u] = <<"expire", m>> /\ op' = [op EXCEPT ![u] = None]
    BY DEF setOverrideExpire
<1>2. \A x \in Mons : op[u] \notin {<<"set", x>>, <<"setting", x>>, <<"del", x>>, <<"deleting", x>>}
    BY <1>1
<1>3. walk[u] = <<>>
    BY <1>2, NoWalk
<1>4. timers' \subseteq Mons \X Nat
    BY DEF setOverrideExpire, OverridesInv, OverrideTypes
<1>5. UNCHANGED <<override, ancInOv, walk, inoverride, overrides, met, contested, looked>>
    BY DEF setOverrideExpire, pkg, hist
<1>. QED
    BY <1>1, <1>2, <1>3, <1>4, <1>5, CallKeeps

(* A timer goes off, and looks whether its time has come.                    *)
LEMMA ExpireKeeps ==
    ASSUME OverridesInv, NEW u \in Users, NEW t \in timers, overrideExpire(u, t)
    PROVE  OverridesInv'
<1>1. \A x \in Mons, call \in Calls : None # <<call, x>>
    BY MonelAssumption
<1>2. t[1] \in Mons /\ op[u] = None
    BY DEF overrideExpire, OverridesInv, OverrideTypes
<1>3. PICK o \in {None, <<"expired", t[1]>>} : op' = [op EXCEPT ![u] = o]
    <2>1. op' = op => op' = [op EXCEPT ![u] = None]
        BY <1>2 DEF OverridesInv, OverrideTypes
    <2>. QED
        BY <2>1 DEF overrideExpire
<1>4. \A x \in Mons : op[u] \notin {<<"set", x>>, <<"setting", x>>, <<"del", x>>, <<"deleting", x>>}
    BY <1>1, <1>2 DEF Calls
<1>5. walk[u] = <<>>
    BY <1>4, NoWalk
<1>6. o \in {None} \cup ({"expire", "expired"} \X Mons)
    BY <1>2
<1>7. /\ timers' \subseteq Mons \X Nat
      /\ looked' = looked \/ looked' = [looked EXCEPT ![u] = overrides]
      /\ UNCHANGED <<override, ancInOv, walk, inoverride, overrides, met, contested>>
    BY DEF overrideExpire, pkg, OverridesInv, OverrideTypes
<1>. QED
    BY <1>3, <1>4, <1>5, <1>6, <1>7, CallKeeps

(* What the elements' goroutines, the clock and stuttering leave alone.      *)
LEMMA AsideLeaves ==
    ASSUME [Next]_vars,
           ~\E u \in Users : \/ Continue(u) \/ \E m \in Mons : SetOverride(u, m) \/ DelOverride(u, m)
                             \/ \E t \in timers : overrideExpire(u, t)
    PROVE  /\ UNCHANGED <<override, ancInOv, op, walk, inoverride, timers, overrides, met, contested, looked>>
           /\ expired \subseteq expired'
<1>. DEFINE Aside == /\ UNCHANGED <<override, ancInOv, op, walk, inoverride, timers, overrides, met, contested, looked>>
                     /\ expired \subseteq expired'
<1>1. ASSUME NEW m \in Mons, Proceed(m) PROVE Aside
    <2>1. ASSUME \/ ReUpdate(m) \/ determineAggrStatus(m) \/ Determined(m) \/ commonUpdate(m)
          PROVE  Aside
        BY <2>1 DEF ReUpdate, determineAggrStatus, Determined, commonUpdate, Propagated, pkg, usr, hist
    <2>2. ASSUME NEW c \in Mons, ReadChild(m, c) \/ checkDepends(m, c) \/ ReadSummary(m, c) PROVE Aside
        BY <2>2 DEF ReadChild, checkDepends, ReadSummary, pkg, usr, hist
    <2>. QED
        BY <1>1, <2>1, <2>2 DEF Proceed
<1>2. ASSUME NEW m \in Mons, NEW st \in Reports, Update(m, st) PROVE Aside
    BY <1>2 DEF Update, pkg, usr, hist
<1>3. ASSUME NEW g \in marking, updateIsDown(g) PROVE Aside
    BY <1>3 DEF updateIsDown, usr, hist
<1>4. ASSUME NEW id, TimePasses(id) PROVE Aside
    BY <1>4 DEF TimePasses, pkg, hist
<1>5. ASSUME UNCHANGED vars PROVE Aside
    BY <1>5 DEF vars, pkg, usr, hist
<1>. QED
    BY <1>1, <1>2, <1>3, <1>4, <1>5 DEF Next

(* Every step of the elements and of the users.                              *)
LEMMA OverridesNext == ASSUME OverridesInv, [Next]_vars PROVE OverridesInv'
<1>1. ASSUME NEW u \in Users, Continue(u) PROVE OverridesInv'
    BY <1>1, ListKeeps, VisitKeeps, AssignKeeps, EndKeeps, TimerKeeps, DelKeeps DEF Continue
<1>2. ASSUME NEW u \in Users, NEW m \in Mons, SetOverride(u, m) \/ DelOverride(u, m) PROVE OverridesInv'
    BY <1>2, SetKeeps, DelKeeps
<1>3. ASSUME NEW u \in Users, NEW t \in timers, overrideExpire(u, t) PROVE OverridesInv'
    BY <1>3, ExpireKeeps
<1>. QED
    BY <1>1, <1>2, <1>3, AsideLeaves, AsideKeeps

(* The timers.  What a call of one user does leaves those of the others.     *)
LEMMA TimersNext == ASSUME OverridesInv, TimersInv, [Next]_vars PROVE TimersInv'
<1>1. OverrideTypes /\ Timed \subseteq Mons
    BY MonelAssumption DEF OverridesInv
<1>2. \A x \in Mons, call \in Calls : None # <<call, x>>
    BY MonelAssumption
<1>. DEFINE Will(m) == \E u \in Users : op[u] \in {"set", "setting", "expire", "expired"} \X {m}
<1>3. ASSUME NEW u \in Users, NEW m \in Mons, ListOverride(u, m) PROVE TimersInv'
    <2>1. /\ UNCHANGED <<override, timers, expired, looked>>
          /\ \/ op[u] = <<"set", m>> /\ op'[u] = <<"setting", m>>
             \/ op[u] = <<"del", m>> /\ op'[u] = <<"deleting", m>>
          /\ \A v \in Users : v # u => op'[v] = op[v]
        BY <1>1, <1>3 DEF ListOverride, OverrideTypes
    <2>2. \A x : Will(x) => Will(x)'
        BY <2>1
    <2>3. FoundExpired'
        BY <2>1 DEF TimersInv, FoundExpired
    <2>. QED
        BY <2>1, <2>2, <2>3 DEF TimersInv, OverridesExpire
<1>4. ASSUME NEW u \in Users, NEW m \in Mons, Visit(u, m) \/ Assign(u, m) PROVE TimersInv'
    <2>1. UNCHANGED <<override, timers, expired, looked, op>>
        BY <1>4 DEF Visit, Assign, hist
    <2>. QED
        BY <2>1 DEF TimersInv, FoundExpired, OverridesExpire
<1>5. ASSUME NEW u \in Users, NEW m \in Mons, EndWalk(u, m) PROVE TimersInv'
    <2>1. /\ UNCHANGED <<override, timers, expired, looked>>
          /\ \A v \in Users : v # u => op'[v] = op[v]
          /\ \/ op[u] = <<"setting", m>> /\ op'[u] = (IF m \in Timed THEN <<"expire", m>> ELSE None)
             \/ op[u] = <<"deleting", m>> /\ op'[u] = None
        BY <1>1, <1>5 DEF EndWalk, OverrideTypes
    <2>2. \A x \in Timed : Will(x) => Will(x)'
        BY <2>1
    <2>3. \A x \in Mons : op'[u] # <<"expired", x>>
        BY <1>2, <2>1 DEF Calls
    <2>4. FoundExpired'
        BY <2>1, <2>3 DEF TimersInv, FoundExpired
    <2>. QED
        BY <2>1, <2>2, <2>4 DEF TimersInv, OverridesExpire
<1>6. ASSUME NEW u \in Users, NEW m \in Mons, setOverrideExpire(u, m) PROVE TimersInv'
    <2>1. /\ UNCHANGED <<override, expired, looked>>
          /\ timers \subseteq timers' /\ (override[m] # 0 => <<m, override[m]>> \in timers')
          /\ \A v \in Users : v # u => op'[v] = op[v]
          /\ op[u] = <<"expire", m>> /\ op'[u] = None
        BY <1>1, <1>6 DEF setOverrideExpire, OverrideTypes, hist
    <2>2. \A x \in Timed : x # m /\ Will(x) => Will(x)'
        BY <2>1
    <2>3. \A x \in Mons : op'[u] # <<"expired", x>>
        BY <1>2, <2>1 DEF Calls
    <2>4. FoundExpired'
        BY <2>1, <2>3 DEF TimersInv, FoundExpired
    <2>. QED
        BY <2>1, <2>2, <2>4 DEF TimersInv, OverridesExpire
<1>7. ASSUME NEW u \in Users, NEW m \in Mons, SetOverride(u, m) PROVE TimersInv'
    <2>1. /\ UNCHANGED <<timers, expired, looked>>
          /\ op[u] = None /\ op'[u] = <<"set", m>> /\ \A v \in Users : v # u => op'[v] = op[v]
          /\ override'[m] = overrides + 1 /\ \A x \in Mons : x # m => override'[x] = override[x]
        BY <1>1, <1>7 DEF SetOverride, OverrideTypes
    <2>2. \A x \in Timed : Will(x) => Will(x)'
        BY <1>1, <1>2, <2>1 DEF Calls
    <2>3. Will(m)'
        BY <2>1
    <2>4. \A v \in Users : override'[m] > looked[v]
        BY <1>1, <2>1 DEF OverrideTypes
    <2>5. FoundExpired'
        BY <2>1, <2>4 DEF TimersInv, FoundExpired
    <2>6. OverridesExpire'
        BY <1>1, <2>1, <2>2, <2>3 DEF TimersInv, OverridesExpire
    <2>. QED
        BY <2>5, <2>6 DEF TimersInv
<1>8. ASSUME NEW u \in Users, NEW m \in Mons, DelOverride(u, m) PROVE TimersInv'
    <2>1. /\ UNCHANGED <<timers, expired>>
          /\ op[u] \in {None, <<"expired", m>>} /\ op'[u] = <<"del", m>>
          /\ \A v \in Users : v # u => op'[v] = op[v] /\ looked'[v] = looked[v]
          /\ override'[m] = 0 /\ \A x \in Mons : x # m => override'[x] = override[x]
        BY <1>1, <1>8 DEF DelOverride, OverrideTypes
    <2>2. ASSUME NEW x \in Timed, x # m, Will(x) PROVE Will(x)'
        <3>1. PICK v \in Users : op[v] \in {"set", "setting", "expire", "expired"} \X {x}
            BY <2>2
        <3>2. v # u
            BY <1>1, <1>2, <2>1, <2>2, <3>1 DEF Calls
        <3>. QED
            BY <2>1, <3>1, <3>2
    <2>3. FoundExpired'
        BY <2>1 DEF TimersInv, FoundExpired
    <2>4. OverridesExpire'
        BY <1>1, <2>1, <2>2 DEF TimersInv, OverridesExpire
    <2>. QED
        BY <2>3, <2>4 DEF TimersInv
<1>9. ASSUME NEW u \in Users, NEW t \in timers, overrideExpire(u, t) PROVE TimersInv'
    <2>1. PICK m \in Mons, id \in Nat : t = <<m, id>>
        BY <1>1 DEF OverrideTypes
    <2>2. /\ UNCHANGED <<override, expired>> /\ timers' = timers \ {t} /\ id \in expired
          /\ op[u] = None /\ \A v \in Users : v # u => op'[v] = op[v] /\ looked'[v] = looked[v]
          /\ \/ override[m] \in expired /\ op'[u] = <<"expired", m>>
             \/ override[m] \notin expired /\ op'[u] = None
        BY <1>1, <1>9, <2>1 DEF overrideExpire, HasExpired, OverrideTypes
    <2>3. \A x \in Timed : Will(x) => Will(x)'
        BY <1>1, <1>2, <2>2 DEF Calls
    <2>4. \A x \in Mons : op'[u] = <<"expired", x>> => x = m /\ override[m] \in expired
        BY <1>2, <2>2 DEF Calls
    <2>5. FoundExpired'
        BY <2>2, <2>4 DEF TimersInv, FoundExpired
    <2>6. ASSUME override[m] = id PROVE Will(m)'
        <3>1. op'[u] = <<"expired", m>>
            BY <2>2, <2>6
        <3>2. op'[u] \in {"set", "setting", "expire", "expired"} \X {m}
            BY <3>1
        <3>. QED
            BY <3>2
    <2>7. ASSUME NEW x \in Timed PROVE (override[x] = 0 \/ <<x, override[x]>> \in timers \/ Will(x))'
        <3>1. <<x, override[x]>> = t => x = m /\ override[m] = id
            BY <2>1
        <3>. QED
            BY <2>2, <2>3, <2>6, <3>1 DEF TimersInv, OverridesExpire
    <2>. QED
        BY <2>5, <2>7 DEF TimersInv, OverridesExpire
<1>10. ASSUME UNCHANGED <<override, op, timers, looked>>, expired \subseteq expired' PROVE TimersInv'
    BY <1>10 DEF TimersInv, FoundExpired, OverridesExpire
<1>. QED
    BY <1>3, <1>4, <1>5, <1>6, <1>7, <1>8, <1>9, <1>10, AsideLeaves DEF Continue

(* Both are invariants, as TLC finds too.                                    *)
LEMMA OverridesHold == Spec => [](OverridesInv /\ TimersInv)
<1>1. Init => OverridesInv /\ TimersInv
    BY OverridesStart
<1>2. OverridesInv /\ TimersInv /\ [Next]_vars => (OverridesInv /\ TimersInv)'
    BY OverridesNext, TimersNext
<1>. QED
    BY <1>1, <1>2, PTL DEF Spec
-----------------------------------------------------------------------------
(* A settled child is marked as its parent asks for, which is settled too.   *)
LEMMA SettledIsRight ==
    ASSUME OverridesInv, NEW p \in Mons, NEW m \in Range(Down[p]), Settled(m)
    PROVE  m \in Mons /\ Settled(p) /\ ancInOv[m] = Inherited(p)
<1>1. m \in Under[p] /\ m \in Mons
    BY UnderIs
<1>2. \A a \in Mons : p = a \/ p \in Under[a] => m \in Under[a]
    BY ChildrenAreBelow DEF Below
<1>3. \A u \in Writing : op[u][2] \in Mons /\ u \in Users
    BY WritingIs DEF OverridesInv, Writing
<1>4. Settled(p)
    BY <1>1, <1>2, <1>3 DEF Settled
<1>5. ASSUME NEW u \in Users, Owed(u, p, m) PROVE FALSE
    <2>1. PICK n \in Mons : At(u, n) /\ m \in Under[n]
        <3>1. CASE op[u] \in {<<"set", p>>, <<"del", p>>}
            BY <1>1, <3>1 DEF At
        <3>2. CASE <<"visit", p>> \in Range(walk[u])
            <4>1. PICK n \in Mons : At(u, n) /\ p \in Below(n)
                BY <3>2, WalkIsAt
            <4>. QED
                BY <1>2, <4>1 DEF Below
        <3>3. CASE <<Value(p), m>> \in Range(walk[u])
            <4>1. Value(p) # "visit"
                BY DEF Value
            <4>. QED
                BY <3>3, <4>1, WalkIsAt
        <3>. QED
            BY <1>5, <3>1, <3>2, <3>3 DEF Owed
    <2>2. u \in Writing /\ op[u][2] = n
        BY <2>1, WritingIs DEF OverridesInv
    <2>. QED
        BY <2>1, <2>2 DEF Settled
<1>6. ~Contested("mark", m)
    BY <1>1 DEF Settled, Contested
<1>. QED
    BY <1>1, <1>4, <1>5, <1>6 DEF OverridesInv, Marked

(* An override is in force above an element if it is at the parent or above. *)
LEMMA AncestorsAre ==
    ASSUME NEW p \in Mons, NEW m \in Range(Down[p])
    PROVE  AncestorInOv(m) <=> override[p] # 0 \/ AncestorInOv(p)
<1>1. m \in Under[p]
    BY UnderIs
<1>2. ASSUME NEW a \in Mons, p \in Under[a] PROVE m \in Under[a]
    BY <1>2, ChildrenAreBelow DEF Below
<1>3. ASSUME NEW a \in Mons, m \in Under[a] PROVE a = p \/ p \in Under[a]
    <2>1. PICK q \in Below(a) : m \in Range(Down[q])
        BY <1>3, ParentIsBelow
    <2>2. q \in Mons
        BY UnderIs DEF Below
    <2>3. q = p
        BY <2>1, <2>2, OneParent
    <2>. QED
        BY <2>1, <2>3 DEF Below
<1>. QED
    BY <1>1, <1>2, <1>3 DEF AncestorInOv

(* Then the marks of all generations are: a settled element is marked        *)
(* exactly when an override is in force above it.                            *)
LEMMA MarksHold == ASSUME OverridesInv PROVE MarksAreRight
<1>. DEFINE S == {x \in Mons : Settled(x) /\ ancInOv[x] # AncestorInOv(x)}
<1>. SUFFICES ASSUME S # {} PROVE FALSE
    BY DEF MarksAreRight
<1>1. S \in SUBSET Mons /\ S # {}
    OBVIOUS
<1>2. \A x \in S : x \in Mons /\ Settled(x) /\ ancInOv[x] # AncestorInOv(x)
    OBVIOUS
<1>3. \A x \in Mons : Settled(x) /\ x \notin S => ancInOv[x] = AncestorInOv(x)
    OBVIOUS
<1>. HIDE DEF S
<1>4. PICK m \in S : \A p \in S : m \notin Range(Down[p])
    BY <1>1, TreeAssumption
<1>5. CASE \E p \in Mons : m \in Range(Down[p])
    <2>1. PICK p \in Mons : m \in Range(Down[p])
        BY <1>5
    <2>2. Settled(p) /\ ancInOv[m] = Inherited(p)
        BY <1>2, <2>1, SettledIsRight
    <2>3. ancInOv[p] = AncestorInOv(p)
        BY <1>3, <1>4, <2>1, <2>2
    <2>4. AncestorInOv(m) <=> override[p] # 0 \/ AncestorInOv(p)
        BY <2>1, AncestorsAre
    <2>5. AncestorInOv(m) \in BOOLEAN /\ Inherited(p) \in BOOLEAN
        BY DEF AncestorInOv, Inherited, OverridesInv, OverrideTypes
    <2>6. ancInOv[m] = AncestorInOv(m)
        BY <2>2, <2>3, <2>4, <2>5 DEF Inherited
    <2>. QED
        BY <1>2, <2>6
<1>6. CASE \A p \in Mons : m \notin Range(Down[p])
    <2>1. ancInOv[m] = FALSE
        BY <1>2, <1>6 DEF OverridesInv, RootsAreNot, OverrideTypes
    <2>2. ASSUME NEW a \in Mons, m \in Under[a] PROVE FALSE
        BY <1>6, <2>2, ParentIsBelow, UnderIs DEF Below
    <2>3. AncestorInOv(m) = FALSE
        BY <2>2 DEF AncestorInOv
    <2>. QED
        BY <1>2, <2>1, <2>3
<1>. QED
    BY <1>5, <1>6

(* However many calls set and remove overrides at once, and timers with      *)
(* them, an element knows of the overrides above it, and the list is right   *)
(* about it, when no call that reaches it is under way and the last one that *)
(* wrote its mark met no other there (SetOverride, DelOverride, ovPropDown). *)
THEOREM OverridesReach == Spec => []OverridesAreKnown
<1>1. ASSUME OverridesInv PROVE ListIsRight
    <2>1. ASSUME NEW u \in Users, NEW m \in Mons, op[u] \in {<<"set", m>>, <<"del", m>>}
          PROVE  u \in Writing /\ op[u][2] = m
        BY <1>1, <2>1, WritingIs DEF OverridesInv, At
    <2>. QED
        BY <1>1, <2>1 DEF ListIsRight, OverridesInv, Listed, Contested
<1>2. OverridesInv => OverridesAreKnown
    BY <1>1, MarksHold DEF OverridesAreKnown
<1>. QED
    BY <1>2, OverridesHold, PTL

(* An element that changes makes no notification when there is an override   *)
(* above it (maybeNotify), unless a call that reaches it is under way or was *)
(* met by another when it marked it.                                         *)
THEOREM NoNoticeUnderOverride == Spec => QuietUnderOverride
<1>1. ASSUME OverridesInv, [Next]_vars, notice' # notice, Settled(notice'[1]) PROVE ~AncestorInOv(notice'[1])
    <2>1. PICK m \in Mons : Propagated(m)
        <3>1. ASSUME NEW m \in Mons, Proceed(m), ~Propagated(m) PROVE FALSE
            BY <1>1, <3>1 DEF Proceed, commonUpdate, ReUpdate, determineAggrStatus, Determined, ReadChild,
                              checkDepends, ReadSummary
        <3>2. ASSUME NEW m \in Mons, NEW st \in Reports, Update(m, st) PROVE FALSE
            BY <1>1, <3>2 DEF Update
        <3>3. ASSUME NEW u \in Users, NEW m \in Mons,
                     \/ ListOverride(u, m) \/ Visit(u, m) \/ Assign(u, m) \/ EndWalk(u, m)
                     \/ setOverrideExpire(u, m) \/ SetOverride(u, m) \/ DelOverride(u, m)
              PROVE  FALSE
            BY <1>1, <3>3 DEF ListOverride, Visit, Assign, EndWalk, setOverrideExpire, SetOverride, DelOverride
        <3>4. ASSUME NEW u \in Users, NEW t \in timers, overrideExpire(u, t) PROVE FALSE
            BY <1>1, <3>4 DEF overrideExpire
        <3>5. ASSUME NEW g \in marking, updateIsDown(g) PROVE FALSE
            BY <1>1, <3>5 DEF updateIsDown
        <3>6. ASSUME NEW id, TimePasses(id) PROVE FALSE
            BY <1>1, <3>6 DEF TimePasses
        <3>7. vars' # vars
            BY <1>1 DEF vars
        <3>. QED
            BY <1>1, <3>1, <3>2, <3>3, <3>4, <3>5, <3>6, <3>7 DEF Next, Continue
    <2>2. notice' = <<m, ov[m]>> /\ ~ancInOv[m]
        BY <1>1, <2>1 DEF Propagated, Notifies
    <2>3. ancInOv[m] = AncestorInOv(m)
        BY <1>1, <2>2, MarksHold DEF MarksAreRight
    <2>. QED
        BY <2>2, <2>3
<1>2. OverridesInv /\ [Next]_vars => [notice' # notice /\ Settled(notice'[1]) => ~AncestorInOv(notice'[1])]_vars
    BY <1>1
<1>. QED
    BY <1>2, OverridesHold, PTL DEF Spec, QuietUnderOverride

(* A timed override that is in force has its timer, or a call at work that   *)
(* will set one or remove it, whatever other calls and timers do meanwhile   *)
(* (setOverrideExpire, overrideExpire).                                      *)
THEOREM TimedOverridesEnd == Spec => []OverridesExpire
BY OverridesHold, PTL DEF TimersInv

(* A timer removes no override that was there when it looked and had not     *)
(* expired, with any number of users at work (overrideExpire, DelOverride).  *)
THEOREM OnlyExpiredAreRemoved == Spec => ExpiredIsRemoved
<1>1. TimersInv => [\A u \in Users, m \in Mons :
          op[u] = <<"expired", m>> /\ op'[u] # op[u]
          => override[m] \in expired \cup {0} \/ override[m] > looked[u]]_vars
    BY DEF TimersInv, FoundExpired
<1>. QED
    BY <1>1, OverridesHold, PTL DEF Spec, ExpiredIsRemoved
-----------------------------------------------------------------------------
(* Statuses and counts: what every change adds up to, in any graph of        *)
(* groups and aliases.                                                       *)

(* What the others see of an element: while it is at work they wait, so it   *)
(* is the status it began with.                                              *)
Shown(c) == IF Free(c) THEN ov[c] ELSE was[c]

Seen(m) == [c \in Kids[m] |-> Shown(c)]

Wanted(m) == checkOverride(m, raw[m], AggrOv(m, Seen(m)))

(* An element that is to update those above it, or has begun to;             *)
Telling(p) == p \in upward \/ phase[p] \in {"reupdate", "redepend", "sum"}

(* one that will have to look again, because of another,                     *)
Told(m) == m \in upward \/ \E p \in Mons : m \in Ups[p] /\ Telling(p)

(* or because its override is being changed.                                 *)
Asked(m) == \E u \in Users : op[u] \in {<<"set", m>>, <<"setting", m>>, <<"del", m>>, <<"deleting", m>>}

Plain == {m \in Mons : Needs[m] = {}}

Shapes ==
    /\ DOMAIN raw = Mons /\ DOMAIN ov = Mons /\ DOMAIN summary = Mons /\ DOMAIN override = Mons
    /\ DOMAIN phase = Mons /\ DOMAIN todo = Mons /\ DOMAIN got = Mons /\ DOMAIN was = Mons
    /\ DOMAIN op = Users /\ upward \subseteq Mons
    /\ \A m \in Mons : phase[m] \in Phases /\ got[m] = [c \in DOMAIN got[m] |-> got[m][c]]

(* A service has no children to read; no element has read any before it      *)
(* begins, and what it has read is as it is seen, or it will look again.     *)
ReadsSound(m) ==
    /\ phase[m] \in {"update", "depend"} => m \in Services
    /\ Free(m) => todo[m] = {}
    /\ Free(m) \/ Depending(m) => got[m] = <<>>
    /\ Determining(m) => /\ DOMAIN got[m] \cup todo[m] = Kids[m]
                         /\ \A c \in DOMAIN got[m] : got[m][c][2] = Shown(c) \/ Told(m)

(* So is the status it determines, and that it has when it is done.          *)
StatusSound(m) ==
    m \in Plain =>
        /\ Depending(m) => todo[m] = {} /\ (ov[m] = AggrOv(m, Seen(m)) \/ Told(m))
        /\ phase[m] = "sum" => ov[m] = Wanted(m) \/ Told(m)
        /\ Free(m) => ov[m] = Wanted(m) \/ Told(m) \/ Asked(m)

(* The counts of a service go with its status; those of a group are treated  *)
(* as its status is.                                                         *)
SummarySound(m) ==
    /\ m \in Services \cup Countstop => summary[m] = Only(Shown(m))
    /\ m \notin Services \cup Countstop /\ override[m] = 0 =>
        /\ phase[m] = "sum" => /\ DOMAIN got[m] \cup todo[m] = Kids[m]
                               /\ \A c \in DOMAIN got[m] : got[m][c] = summary[c] \/ Told(m)
        /\ Free(m) => \/ summary[m] = SumOf([c \in Kids[m] |-> summary[c]])
                      \/ Told(m) \/ Asked(m)

Sound(m) == ReadsSound(m) /\ StatusSound(m) /\ SummarySound(m)

SumsInv == Shapes /\ \A m \in Mons : Sound(m)
-----------------------------------------------------------------------------
(* What DoneConfig computes from the leaves up is well defined: the bodies   *)
(* of FirstOv and FirstSummary,                                              *)
FirstBody(b, m, h) ==
    IF b THEN (IF m \in Services THEN UNKNOWN ELSE calcAggrStatus(Grav[m], MAXSTATUS, h))
    ELSE (IF m \in Services \cup Countstop THEN Only(FirstOv[m]) ELSE SumOf(h))

(* computed for some of the elements.                                        *)
Closed(S) == S \subseteq Mons /\ \A x \in S : Kids[x] \subseteq S

FirstOn(b, S, f) == f = [x \in S |-> FirstBody(b, x, [k \in Kids[x] |-> f[k]])]

(* The children alone decide.                                                *)
LEMMA SameKids ==
    ASSUME NEW b, NEW m, NEW f, NEW g, \A k \in Kids[m] : f[k] = g[k]
    PROVE  FirstBody(b, m, [k \in Kids[m] |-> f[k]]) = FirstBody(b, m, [k \in Kids[m] |-> g[k]])
<1>1. [k \in Kids[m] |-> f[k]] = [k \in Kids[m] |-> g[k]]
    OBVIOUS
<1>. QED
    BY <1>1, Zenon

(* Where two solutions meet they are the same.                               *)
LEMMA FirstIsOne ==
    ASSUME NEW b, NEW S, NEW R, NEW f, NEW g, Closed(S), Closed(R), FirstOn(b, S, f), FirstOn(b, R, g)
    PROVE  \A x \in S \cap R : f[x] = g[x]
<1>. DEFINE D == {x \in S \cap R : f[x] # g[x]}
<1>1. SUFFICES ASSUME D # {} PROVE FALSE
    OBVIOUS
<1>2. D \in SUBSET Mons
    BY DEF Closed
<1>3. PICK m \in D : Kids[m] \cap D = {}
    BY <1>1, <1>2, KidsAssumption
<1>4. \A k \in Kids[m] : f[k] = g[k]
    BY <1>3 DEF Closed
<1>5. f[m] = FirstBody(b, m, [k \in Kids[m] |-> f[k]]) /\ g[m] = FirstBody(b, m, [k \in Kids[m] |-> g[k]])
    <2>1. m \in S /\ m \in R
        BY <1>3
    <2>2. ASSUME NEW T, NEW h, FirstOn(b, T, h), m \in T
          PROVE  h[m] = FirstBody(b, m, [k \in Kids[m] |-> h[k]])
        <3>1. PICK h0 : h0 = [x \in T |-> FirstBody(b, x, [k \in Kids[x] |-> h[k]])]
            OBVIOUS
        <3>2. h0[m] = FirstBody(b, m, [k \in Kids[m] |-> h[k]])
            BY <2>2, <3>1, Zenon
        <3>. QED
            BY <2>2, <3>1, <3>2, Zenon DEF FirstOn
    <2>3. f[m] = FirstBody(b, m, [k \in Kids[m] |-> f[k]])
        BY <2>1, <2>2, Zenon
    <2>4. g[m] = FirstBody(b, m, [k \in Kids[m] |-> g[k]])
        BY <2>1, <2>2, Zenon
    <2>. QED
        BY <2>3, <2>4
<1>6. f[m] = g[m]
    BY <1>4, <1>5, SameKids, Zenon
<1>. QED
    BY <1>3, <1>6

(* There is one for all.                                                     *)
LEMMA FirstExists == ASSUME NEW b PROVE \E f : FirstOn(b, Mons, f)
<1>. DEFINE Good == {x \in Mons : \E S, f : Closed(S) /\ x \in S /\ FirstOn(b, S, f)}
            F == [x \in Good |-> CHOOSE v : \E S, f : Closed(S) /\ x \in S /\ FirstOn(b, S, f) /\ v = f[x]]
<1>1. ASSUME NEW S, NEW f, Closed(S), FirstOn(b, S, f), NEW x \in S PROVE x \in Good /\ F[x] = f[x]
    <2>1. x \in Good
        BY <1>1 DEF Closed
    <2>2. PICK v : v = F[x]
        OBVIOUS
    <2>3. \E R, g : Closed(R) /\ x \in R /\ FirstOn(b, R, g) /\ v = g[x]
        <3>1. \E w : \E R, g : Closed(R) /\ x \in R /\ FirstOn(b, R, g) /\ w = g[x]
            BY <1>1
        <3>2. v = CHOOSE w : \E R, g : Closed(R) /\ x \in R /\ FirstOn(b, R, g) /\ w = g[x]
            BY <2>1, <2>2
        <3>. QED
            BY <3>1, <3>2, Zenon
    <2>4. v = f[x]
        BY <1>1, <2>3, FirstIsOne
    <2>. QED
        BY <2>1, <2>2, <2>4
<1>2. \A x \in Good : \E S, f : Closed(S) /\ x \in S /\ FirstOn(b, S, f)
    OBVIOUS
<1>3. F = [x \in Good |-> F[x]] /\ Good \subseteq Mons
    OBVIOUS
<1>. HIDE DEF Good, F
<1>4. \A T, h : FirstOn(b, T, h) => \A x \in T : h[x] = FirstBody(b, x, [k \in Kids[x] |-> h[k]])
    BY Zenon DEF FirstOn
<1>5. Closed(Good)
    <2>1. ASSUME NEW x \in Good, NEW k \in Kids[x] PROVE k \in Good
        <3>1. PICK S, f : Closed(S) /\ x \in S /\ FirstOn(b, S, f)
            BY <1>2
        <3>2. k \in S
            BY <2>1, <3>1 DEF Closed
        <3>. QED
            BY <1>1, <3>1, <3>2
    <2>. QED
        BY <1>3, <2>1 DEF Closed
<1>6. ASSUME NEW x \in Good PROVE F[x] = FirstBody(b, x, [k \in Kids[x] |-> F[k]])
    <2>1. PICK S, f : Closed(S) /\ x \in S /\ FirstOn(b, S, f)
        BY <1>2
    <2>2. F[x] = f[x] /\ f[x] = FirstBody(b, x, [k \in Kids[x] |-> f[k]])
        <3>1. F[x] = f[x]
            BY <1>1, <2>1
        <3>. QED
            BY <1>4, <2>1, <3>1, Zenon
    <2>3. \A k \in Kids[x] : F[k] = f[k]
        BY <1>1, <2>1 DEF Closed
    <2>. QED
        BY <2>2, <2>3, SameKids, Zenon
<1>7. Good = Mons
    <2>1. SUFFICES ASSUME Mons \ Good # {} PROVE FALSE
        BY <1>3
    <2>2. PICK m \in Mons \ Good : Kids[m] \cap (Mons \ Good) = {}
        BY <2>1, KidsAssumption
    <2>3. Kids[m] \subseteq Good
        BY <2>2, MonelAssumption
    <2>. DEFINE R == Good \cup {m}
                g == [x \in R |-> IF x = m THEN FirstBody(b, m, [k \in Kids[m] |-> F[k]]) ELSE F[x]]
    <2>4. Closed(R)
        BY <1>5, <2>2, <2>3 DEF Closed
    <2>5. ASSUME NEW x \in R PROVE g[x] = FirstBody(b, x, [k \in Kids[x] |-> g[k]])
        <3>1. Kids[x] \subseteq Good /\ m \notin Good
            BY <1>5, <2>2, <2>3, <2>5 DEF Closed
        <3>2. \A k \in Kids[x] : g[k] = F[k]
            BY <3>1
        <3>3. FirstBody(b, x, [k \in Kids[x] |-> g[k]]) = FirstBody(b, x, [k \in Kids[x] |-> F[k]])
            BY <3>2, SameKids, Zenon
        <3>4. CASE x = m
            BY <3>3, <3>4
        <3>5. CASE x # m
            <4>1. x \in Good /\ g[x] = F[x]
                BY <2>5, <3>5
            <4>. QED
                BY <1>6, <3>3, <4>1, Zenon
        <3>. QED
            BY <3>4, <3>5
    <2>6. g = [x \in R |-> g[x]]
        OBVIOUS
    <2>. HIDE DEF R, g
    <2>7. FirstOn(b, R, g)
        <3>1. [x \in R |-> g[x]] = [x \in R |-> FirstBody(b, x, [k \in Kids[x] |-> g[k]])]
            BY <2>5, Zenon
        <3>. QED
            BY <2>6, <3>1, Zenon DEF FirstOn
    <2>8. m \in Good
        BY <1>1, <2>4, <2>7 DEF R
    <2>. QED
        BY <2>2, <2>8
<1>8. FirstOn(b, Good, F)
    <2>1. [x \in Good |-> F[x]] = [x \in Good |-> FirstBody(b, x, [k \in Kids[x] |-> F[k]])]
        BY <1>6, Zenon
    <2>. QED
        BY <1>3, <2>1, Zenon DEF FirstOn
<1>. QED
    BY <1>7, <1>8

(* So FirstOv and FirstSummary are what their definitions say.               *)
LEMMA FirstIs ==
    /\ FirstOv = [m \in Mons |-> IF m \in Services THEN UNKNOWN
                                 ELSE calcAggrStatus(Grav[m], MAXSTATUS, [k \in Kids[m] |-> FirstOv[k]])]
    /\ FirstSummary = [m \in Mons |-> IF m \in Services \cup Countstop THEN Only(FirstOv[m])
                                      ELSE SumOf([k \in Kids[m] |-> FirstSummary[k]])]
<1>1. \E f : f = [m \in Mons |-> IF m \in Services THEN UNKNOWN
                                 ELSE calcAggrStatus(Grav[m], MAXSTATUS, [k \in Kids[m] |-> f[k]])]
    <2>1. PICK f : FirstOn(TRUE, Mons, f)
        BY FirstExists
    <2>. QED
        BY <2>1, Zenon DEF FirstOn, FirstBody
<1>2. \E f : f = [m \in Mons |-> IF m \in Services \cup Countstop THEN Only(FirstOv[m])
                                 ELSE SumOf([k \in Kids[m] |-> f[k]])]
    <2>1. PICK f : FirstOn(FALSE, Mons, f)
        BY FirstExists
    <2>. QED
        BY <2>1, Zenon DEF FirstOn, FirstBody
<1>3. FirstOv = [m \in Mons |-> IF m \in Services THEN UNKNOWN
                               ELSE calcAggrStatus(Grav[m], MAXSTATUS, [k \in Kids[m] |-> FirstOv[k]])]
    BY <1>1, Zenon DEF FirstOv
<1>4. FirstSummary = [m \in Mons |-> IF m \in Services \cup Countstop THEN Only(FirstOv[m])
                                    ELSE SumOf([k \in Kids[m] |-> FirstSummary[k]])]
    BY <1>2, Zenon DEF FirstSummary
<1>. QED
    BY <1>3, <1>4

(* At the start all is as DoneConfig has made it.                            *)
LEMMA SumsStart == Init => SumsInv
<1>. SUFFICES ASSUME Init PROVE SumsInv
    OBVIOUS
<1>1. /\ \A m \in Mons : Free(m) /\ override[m] = 0 /\ todo[m] = {} /\ got[m] = <<>>
      /\ ov = FirstOv /\ raw = FirstOv /\ summary = FirstSummary
    BY DEF Init, Free
<1>2. Shapes
    <2>1. DOMAIN FirstOv = Mons /\ DOMAIN FirstSummary = Mons
        BY FirstIs
    <2>2. <<>> = [c \in DOMAIN <<>> |-> <<>>[c]]
        OBVIOUS
    <2>3. \A m \in Mons : phase[m] \in Phases /\ got[m] = [c \in DOMAIN got[m] |-> got[m][c]]
        BY <1>1, <2>2 DEF Free, Phases
    <2>. QED
        BY <2>1, <2>3 DEF Init, Shapes
<1>3. ASSUME NEW m \in Mons PROVE Sound(m)
    <2>1. phase[m] = "free" /\ ~Determining(m) /\ ~Depending(m)
        BY <1>1 DEF Free, Determining, Depending
    <2>2. ReadsSound(m)
        BY <1>1, <2>1 DEF ReadsSound
    <2>3. Seen(m) = [c \in Kids[m] |-> FirstOv[c]]
        <3>1. \A c \in Kids[m] : Shown(c) = FirstOv[c]
            BY <1>1, MonelAssumption DEF Shown
        <3>. QED
            BY <3>1 DEF Seen
    <2>4. FirstOv[m] = IF m \in Services THEN UNKNOWN
                       ELSE calcAggrStatus(Grav[m], MAXSTATUS, [k \in Kids[m] |-> FirstOv[k]])
        BY FirstIs, Zenon
    <2>5. ov[m] = AggrOv(m, Seen(m))
        BY <1>1, <2>3, <2>4, Zenon DEF AggrOv
    <2>6. StatusSound(m)
        BY <1>1, <2>1, <2>5 DEF StatusSound, Wanted, checkOverride
    <2>7. FirstSummary[m] = IF m \in Services \cup Countstop THEN Only(FirstOv[m])
                            ELSE SumOf([k \in Kids[m] |-> FirstSummary[k]])
        BY FirstIs, Zenon
    <2>8. Shown(m) = FirstOv[m]
        BY <1>1 DEF Shown
    <2>9. SummarySound(m)
        <3>1. CASE m \in Services \cup Countstop
            BY <1>1, <2>7, <2>8, <3>1 DEF SummarySound
        <3>2. CASE m \notin Services \cup Countstop
            BY <1>1, <2>1, <2>7, <3>2 DEF SummarySound
        <3>. QED
            BY <3>1, <3>2
    <2>. QED
        BY <2>2, <2>6, <2>9 DEF Sound
<1>. QED
    BY <1>2, <1>3 DEF SumsInv

(* An element that a step leaves alone stays sound, if whatever it reads     *)
(* stays as it is or it is told.                                             *)
LEMMA LeftAlone ==
    ASSUME NEW m \in Mons, Sound(m),
           phase'[m] = phase[m], todo'[m] = todo[m], got'[m] = got[m], was'[m] = was[m],
           raw'[m] = raw[m], ov'[m] = ov[m], summary'[m] = summary[m], override'[m] = override[m],
           Told(m) => Told(m)', Asked(m) => Asked(m)' \/ Told(m)',
           Told(m)' \/ \A c \in Kids[m] : Shown(c)' = Shown(c) /\ summary'[c] = summary[c]
    PROVE  Sound(m)'
<1>1. /\ Free(m)' = Free(m) /\ Determining(m)' = Determining(m) /\ Depending(m)' = Depending(m)
      /\ Shown(m)' = Shown(m)
    BY DEF Free, Determining, Depending, Shown
<1>2. Kids[m] \subseteq Mons
    BY MonelAssumption
<1>3. CASE Told(m)'
    BY <1>1, <1>3 DEF Sound, ReadsSound, StatusSound, SummarySound
<1>4. CASE \A c \in Kids[m] : Shown(c)' = Shown(c) /\ summary'[c] = summary[c]
    <2>1. Seen(m)' = Seen(m)
        BY <1>4 DEF Seen
    <2>2. AggrOv(m, Seen(m))' = AggrOv(m, Seen(m))
        BY <2>1, Zenon DEF AggrOv
    <2>3. Wanted(m)' = Wanted(m)
        BY <2>2 DEF Wanted, checkOverride
    <2>4. SumOf([c \in Kids[m] |-> summary'[c]]) = SumOf([c \in Kids[m] |-> summary[c]])
        <3>1. [c \in Kids[m] |-> summary'[c]] = [c \in Kids[m] |-> summary[c]]
            BY <1>4
        <3>. QED
            BY <3>1, Zenon
    <2>5. ReadsSound(m)'
        BY <1>1, <1>4 DEF Sound, ReadsSound
    <2>6. StatusSound(m)'
        BY <1>1, <2>2, <2>3 DEF Sound, StatusSound
    <2>7. SummarySound(m)'
        BY <1>1, <1>4, <2>4 DEF Sound, SummarySound
    <2>. QED
        BY <2>5, <2>6, <2>7 DEF Sound
<1>. QED
    BY <1>3, <1>4

(* A step of one element, and what it has to leave as it is.                 *)
OnlyAt(a) ==
    /\ \A x \in Mons \ {a} : /\ phase'[x] = phase[x] /\ todo'[x] = todo[x] /\ got'[x] = got[x]
                             /\ was'[x] = was[x] /\ raw'[x] = raw[x] /\ ov'[x] = ov[x]
                             /\ summary'[x] = summary[x]
    /\ UNCHANGED <<override, op>>

(* Then the others stay sound: who reads it is told.                         *)
LEMMA ElementKeeps ==
    ASSUME SumsInv, NEW a \in Mons, OnlyAt(a), Shapes', Sound(a)',
           upward \ {a} \subseteq upward',
           Telling(a) => Telling(a)' \/ Ups[a] \subseteq upward',
           (Shown(a)' = Shown(a) /\ summary'[a] = summary[a]) \/ Ups[a] \subseteq upward'
    PROVE  SumsInv'
<1>1. \A x \in Mons \ {a} : (Telling(x) => Telling(x)') /\ Shown(x)' = Shown(x) /\ summary'[x] = summary[x]
    BY DEF OnlyAt, Telling, Shown, Free
<1>2. ASSUME NEW m \in Mons, m # a PROVE Sound(m)'
    <2>1. Told(m) => Told(m)'
        BY <1>1, <1>2 DEF Told
    <2>2. Asked(m) => Asked(m)'
        BY DEF OnlyAt, Asked
    <2>3. ASSUME a \in Kids[m], Ups[a] \subseteq upward' PROVE Told(m)'
        <3>1. m \in Ups[a] \/ \E p \in Ups[a] : m \in Ups[p]
            BY <2>3, KidsAssumption
        <3>2. Ups[a] \subseteq Mons
            BY MonelAssumption
        <3>. QED
            BY <2>3, <3>1, <3>2 DEF Told, Telling
    <2>4. Told(m)' \/ \A c \in Kids[m] : Shown(c)' = Shown(c) /\ summary'[c] = summary[c]
        <3>1. Kids[m] \subseteq Mons
            BY MonelAssumption
        <3>. QED
            BY <1>1, <2>3, <3>1
    <2>5. /\ phase'[m] = phase[m] /\ todo'[m] = todo[m] /\ got'[m] = got[m] /\ was'[m] = was[m]
          /\ raw'[m] = raw[m] /\ ov'[m] = ov[m] /\ summary'[m] = summary[m] /\ override'[m] = override[m]
        BY <1>2 DEF OnlyAt
    <2>6. Sound(m)
        BY DEF SumsInv
    <2>. QED
        BY <2>1, <2>2, <2>4, <2>5, <2>6, LeftAlone
<1>. QED
    BY <1>2 DEF SumsInv

(* A step of a user: an override changes only while the element is at rest,  *)
(* and the element is to look again.                                         *)
LEMMA UserKeeps ==
    ASSUME SumsInv, Shapes', UNCHANGED <<status, lock>>, upward \subseteq upward',
           \A m \in Mons : override'[m] = override[m] \/ (Free(m) /\ Asked(m)'),
           \A m \in Mons : Asked(m) => Asked(m)' \/ m \in upward'
    PROVE  SumsInv'
<1>1. UNCHANGED <<raw, ov, summary, phase, todo, got, was>>
    BY DEF status, lock
<1>2. \A x \in Mons : (Telling(x) => Telling(x)') /\ Shown(x)' = Shown(x)
    BY <1>1 DEF Telling, Shown, Free
<1>3. \A m \in Mons : Told(m) => Told(m)'
    BY <1>2 DEF Told
<1>4. ASSUME NEW m \in Mons PROVE Sound(m)'
    <2>1. Sound(m)
        BY DEF SumsInv
    <2>2. Kids[m] \subseteq Mons
        BY MonelAssumption
    <2>3. CASE override'[m] = override[m]
        <3>1. Told(m) => Told(m)'
            BY <1>3
        <3>2. Asked(m) => Asked(m)' \/ Told(m)'
            BY DEF Told
        <3>3. \A c \in Kids[m] : Shown(c)' = Shown(c) /\ summary'[c] = summary[c]
            BY <1>1, <1>2, <2>2
        <3>. QED
            BY <1>1, <2>1, <2>3, <3>1, <3>2, <3>3, LeftAlone
    <2>4. CASE Free(m) /\ Asked(m)'
        <3>1. Free(m)' /\ ~Determining(m)' /\ ~Depending(m)' /\ phase'[m] = "free"
            BY <1>1, <2>4 DEF Free, Determining, Depending
        <3>2. ReadsSound(m)'
            BY <1>1, <2>1, <2>4, <3>1 DEF Sound, ReadsSound
        <3>3. StatusSound(m)'
            BY <2>4, <3>1 DEF StatusSound
        <3>4. SummarySound(m)'
            BY <1>1, <1>2, <2>1, <2>4, <3>1 DEF Sound, SummarySound
        <3>. QED
            BY <3>2, <3>3, <3>4 DEF Sound
    <2>. QED
        BY <2>3, <2>4
<1>. QED
    BY <1>4 DEF SumsInv
-----------------------------------------------------------------------------
(* A service reports.                                                        *)
LEMMA UpdateKeeps ==
    ASSUME SumsInv, NEW m \in Mons, NEW st, Update(m, st)
    PROVE  SumsInv'
<1>1. /\ m \in Services /\ Kids[m] = {} /\ Free(m) /\ Sound(m) /\ Shapes
      /\ UNCHANGED <<ov, summary, override, todo, got, upward, op>>
    BY DEF Update, SumsInv, Services, usr
<1>2. /\ OnlyAt(m) /\ Shapes' /\ phase'[m] = "update" /\ was'[m] = ov[m]
    BY <1>1 DEF Update, OnlyAt, Shapes, Phases
<1>3. todo[m] = {} /\ got[m] = <<>>
    BY <1>1 DEF Sound, ReadsSound
<1>4. Shown(m)' = Shown(m) /\ Determining(m)' /\ ~Free(m)' /\ ~Depending(m)'
    BY <1>1, <1>2 DEF Shown, Free, Determining, Depending
<1>5. ReadsSound(m)'
    BY <1>1, <1>2, <1>3, <1>4 DEF ReadsSound
<1>6. StatusSound(m)'
    BY <1>2, <1>4 DEF StatusSound
<1>7. SummarySound(m)'
    BY <1>1, <1>4 DEF Sound, SummarySound
<1>8. Telling(m) => Telling(m)'
    BY <1>1 DEF Telling, Free
<1>. QED
    BY <1>1, <1>2, <1>4, <1>5, <1>6, <1>7, <1>8, ElementKeeps DEF Sound

(* An element looks again.                                                   *)
LEMMA ReUpdateKeeps ==
    ASSUME SumsInv, NEW m \in Mons, ReUpdate(m)
    PROVE  SumsInv'
<1>1. /\ Free(m) /\ Sound(m) /\ Shapes /\ UNCHANGED <<raw, ov, summary, override, got, op>>
      /\ upward' = upward \ {m}
    BY DEF ReUpdate, SumsInv, usr, status
<1>2. OnlyAt(m) /\ Shapes' /\ phase'[m] = "reupdate" /\ was'[m] = ov[m] /\ todo'[m] = Kids[m]
    BY <1>1 DEF ReUpdate, OnlyAt, Shapes, Phases
<1>3. got[m] = <<>>
    BY <1>1 DEF Sound, ReadsSound
<1>4. Shown(m)' = Shown(m) /\ Determining(m)' /\ ~Free(m)' /\ ~Depending(m)' /\ Telling(m)'
    BY <1>1, <1>2 DEF Shown, Free, Determining, Depending, Telling
<1>5. ReadsSound(m)'
    BY <1>1, <1>2, <1>3, <1>4 DEF ReadsSound
<1>6. StatusSound(m)'
    BY <1>2, <1>4 DEF StatusSound
<1>7. SummarySound(m)'
    BY <1>1, <1>2, <1>4 DEF Sound, SummarySound
<1>. QED
    BY <1>1, <1>2, <1>4, <1>5, <1>6, <1>7, ElementKeeps DEF Sound

(* It reads a child, which is at rest.                                       *)
LEMMA ReadChildKeeps ==
    ASSUME SumsInv, NEW m \in Mons, NEW c \in Mons, ReadChild(m, c)
    PROVE  SumsInv'
<1>1. /\ Determining(m) /\ c \in todo[m] /\ Free(c) /\ Sound(m) /\ Shapes
      /\ UNCHANGED <<raw, ov, summary, override, phase, was, upward, op>>
    BY DEF ReadChild, SumsInv, usr, status
<1>2. /\ todo'[m] = todo[m] \ {c}
      /\ DOMAIN got'[m] = DOMAIN got[m] \cup {c} /\ got'[m] = [x \in DOMAIN got'[m] |-> got'[m][x]]
      /\ \A x \in DOMAIN got'[m] :
            (x \in DOMAIN got[m] /\ got'[m][x] = got[m][x]) \/ (x = c /\ got'[m][x] = <<raw[c], ov[c]>>)
    <2>1. got'[m] = Also(got[m], c, <<raw[c], ov[c]>>) /\ got[m] = [x \in DOMAIN got[m] |-> got[m][x]]
        BY <1>1 DEF ReadChild, Shapes
    <2>2. todo'[m] = todo[m] \ {c}
        BY <1>1 DEF ReadChild, Shapes
    <2>3. got'[m] = [x \in DOMAIN got[m] \cup {c} |-> IF x = c THEN <<raw[c], ov[c]>> ELSE got[m][x]]
        BY <2>1 DEF Also
    <2>4. DOMAIN got'[m] = DOMAIN got[m] \cup {c} /\ got'[m] = [x \in DOMAIN got'[m] |-> got'[m][x]]
        BY <2>3
    <2>5. \A x \in DOMAIN got'[m] :
             (x \in DOMAIN got[m] /\ got'[m][x] = got[m][x]) \/ (x = c /\ got'[m][x] = <<raw[c], ov[c]>>)
        BY <2>3
    <2>. QED
        BY <2>2, <2>4, <2>5
<1>3. OnlyAt(m) /\ Shapes'
    BY <1>1, <1>2 DEF ReadChild, OnlyAt, Shapes
<1>4. /\ \A x : Shown(x)' = Shown(x)
      /\ Told(m)' = Told(m) /\ Telling(m)' = Telling(m)
      /\ Determining(m)' /\ ~Free(m)' /\ ~Depending(m)' /\ phase'[m] # "sum" /\ phase'[m] = phase[m]
    BY <1>1 DEF Shown, Free, Told, Telling, Determining, Depending
<1>5. ReadsSound(m)'
    <2>1. DOMAIN got'[m] \cup todo'[m] = Kids[m]
        BY <1>1, <1>2 DEF Sound, ReadsSound
    <2>2. ASSUME NEW x \in DOMAIN got'[m] PROVE got'[m][x][2] = Shown(x) \/ Told(m)
        BY <1>1, <1>2 DEF Sound, ReadsSound, Shown
    <2>. QED
        BY <1>1, <1>4, <2>1, <2>2 DEF Sound, ReadsSound
<1>6. StatusSound(m)'
    BY <1>4 DEF StatusSound
<1>7. SummarySound(m)'
    BY <1>1, <1>4 DEF Sound, SummarySound
<1>. QED
    BY <1>1, <1>3, <1>4, <1>5, <1>6, <1>7, ElementKeeps DEF Sound

(* It combines what it has read.                                             *)
LEMMA DetermineKeeps ==
    ASSUME SumsInv, NEW m \in Mons, determineAggrStatus(m)
    PROVE  SumsInv'
<1>1. /\ Determining(m) /\ todo[m] = {} /\ Sound(m) /\ Shapes
      /\ UNCHANGED <<summary, override, was, upward, op>>
    BY DEF determineAggrStatus, SumsInv, usr
<1>2. /\ phase'[m] = (IF phase[m] = "update" THEN "depend" ELSE "redepend")
      /\ todo'[m] = Needs[m] /\ got'[m] = <<>>
      /\ raw'[m] = AggrRaw(m, [c \in DOMAIN got[m] |-> got[m][c][1]])
      /\ ov'[m] = AggrOv(m, [c \in DOMAIN got[m] |-> got[m][c][2]])
    BY <1>1 DEF determineAggrStatus, Shapes
<1>3. OnlyAt(m) /\ Shapes'
    <2>1. <<>> = [c \in DOMAIN <<>> |-> <<>>[c]]
        OBVIOUS
    <2>2. phase'[m] \in Phases /\ got'[m] = [c \in DOMAIN got'[m] |-> got'[m][c]]
        BY <1>2, <2>1 DEF Phases
    <2>3. OnlyAt(m)
        BY <1>1 DEF determineAggrStatus, OnlyAt, Shapes
    <2>4. \A x \in Mons : phase'[x] \in Phases /\ got'[x] = [c \in DOMAIN got'[x] |-> got'[x][c]]
        BY <1>1, <2>2, <2>3 DEF OnlyAt, Shapes
    <2>. QED
        BY <1>1, <2>3, <2>4 DEF determineAggrStatus, Shapes
<1>4. /\ ~Determining(m)' /\ ~Free(m)' /\ ~Free(m) /\ Depending(m)' /\ phase'[m] # "sum"
      /\ Shown(m)' = Shown(m) /\ (Telling(m) => Telling(m)')
    BY <1>1, <1>2 DEF Free, Shown, Telling, Determining, Depending
<1>5. m \notin Kids[m] /\ Kids[m] \subseteq Mons
    BY MonelAssumption
<1>6. Told(m) => Told(m)'
    BY <1>1, <1>3, <1>4 DEF Told, Telling, OnlyAt
<1>7. Seen(m)' = Seen(m)
    <2>1. \A c \in Kids[m] : Shown(c)' = Shown(c)
        BY <1>3, <1>5 DEF OnlyAt, Shown, Free
    <2>. QED
        BY <2>1 DEF Seen
<1>8. m \in Services => raw'[m] = raw[m]
    BY <1>2 DEF AggrRaw
<1>9. AggrOv(m, Seen(m))' = AggrOv(m, Seen(m))
    <2>1. AggrOv(m, Seen(m))' = IF m \in Services THEN raw'[m] ELSE calcAggrStatus(Grav[m], MAXSTATUS, Seen(m)')
        BY DEF AggrOv
    <2>2. AggrOv(m, Seen(m)) = IF m \in Services THEN raw[m] ELSE calcAggrStatus(Grav[m], MAXSTATUS, Seen(m))
        BY DEF AggrOv
    <2>. QED
        BY <1>7, <1>8, <2>1, <2>2, Zenon
<1>10. ov'[m] = AggrOv(m, Seen(m)) \/ Told(m)
    <2>1. DOMAIN got[m] = Kids[m] /\ \A c \in Kids[m] : got[m][c][2] = Shown(c) \/ Told(m)
        BY <1>1 DEF Sound, ReadsSound
    <2>2. CASE \A c \in Kids[m] : got[m][c][2] = Shown(c)
        <3>1. [c \in DOMAIN got[m] |-> got[m][c][2]] = Seen(m)
            BY <2>1, <2>2 DEF Seen
        <3>. QED
            BY <1>2, <3>1
    <2>. QED
        BY <2>1, <2>2
<1>11. ReadsSound(m)'
    <2>1. phase'[m] = "depend" => m \in Services
        BY <1>1, <1>2 DEF Sound, ReadsSound
    <2>. QED
        BY <1>2, <1>4, <2>1 DEF ReadsSound, Determining
<1>12. StatusSound(m)'
    BY <1>2, <1>4, <1>6, <1>9, <1>10 DEF StatusSound, Plain
<1>13. SummarySound(m)'
    BY <1>1, <1>4 DEF Sound, SummarySound
<1>. QED
    BY <1>1, <1>3, <1>4, <1>11, <1>12, <1>13, ElementKeeps DEF Sound

(* It depends on another, which is at rest.                                  *)
LEMMA DependsKeeps ==
    ASSUME SumsInv, NEW m \in Mons, NEW d \in Mons, checkDepends(m, d)
    PROVE  SumsInv'
<1>1. /\ Depending(m) /\ d \in todo[m] /\ Sound(m) /\ Shapes
      /\ UNCHANGED <<raw, summary, override, phase, got, was, upward, op>>
    BY DEF checkDepends, SumsInv, usr
<1>2. m \notin Plain
    BY <1>1 DEF Sound, StatusSound
<1>3. OnlyAt(m) /\ Shapes'
    BY <1>1 DEF checkDepends, OnlyAt, Shapes
<1>4. /\ ~Determining(m)' /\ ~Free(m)' /\ ~Free(m) /\ phase'[m] # "sum" /\ phase'[m] = phase[m]
      /\ Shown(m)' = Shown(m) /\ Telling(m)' = Telling(m)
    BY <1>1 DEF Free, Shown, Telling, Determining, Depending
<1>5. ReadsSound(m)'
    BY <1>1, <1>4 DEF Sound, ReadsSound, Depending
<1>6. StatusSound(m)'
    BY <1>2 DEF StatusSound, Plain
<1>7. SummarySound(m)'
    BY <1>1, <1>4 DEF Sound, SummarySound
<1>. QED
    BY <1>1, <1>3, <1>4, <1>5, <1>6, <1>7, ElementKeeps DEF Sound

(* Its status is determined.  When that is a service's which has not         *)
(* changed, no one sees a difference.                                        *)
LEMMA DeterminedKeeps ==
    ASSUME SumsInv, NEW m \in Mons, Determined(m)
    PROVE  SumsInv'
<1>. DEFINE o == checkOverride(m, raw[m], ov[m])
<1>1. /\ Depending(m) /\ todo[m] = {} /\ Sound(m) /\ Shapes /\ ov' = [ov EXCEPT ![m] = o]
      /\ UNCHANGED <<raw, summary, override, got, upward, op>>
    BY DEF Determined, SumsInv, usr
<1>2. got[m] = <<>> /\ ov'[m] = o /\ ~Free(m) /\ ~Determining(m)
    BY <1>1 DEF Sound, ReadsSound, Shapes, Depending, Determining, Free
<1>3. \/ /\ phase[m] = "depend" /\ o = was[m] /\ phase' = [phase EXCEPT ![m] = "free"]
         /\ was' = [was EXCEPT ![m] = UNKNOWN] /\ todo' = todo
      \/ /\ phase' = [phase EXCEPT ![m] = "sum"] /\ todo' = [todo EXCEPT ![m] = Summed(m)] /\ was' = was
    BY DEF Determined
<1>. HIDE DEF o
<1>4. OnlyAt(m) /\ Shapes'
    BY <1>1, <1>3 DEF OnlyAt, Shapes, Phases
<1>5. Shown(m)' = Shown(m) /\ (Telling(m) => Telling(m)')
    BY <1>1, <1>2, <1>3 DEF Free, Shown, Telling, Shapes
<1>6. Told(m) => Told(m)'
    BY <1>1, <1>4, <1>5 DEF Told, Telling, OnlyAt
<1>7. m \notin Kids[m] /\ Kids[m] \subseteq Mons
    BY MonelAssumption
<1>8. Seen(m)' = Seen(m)
    <2>1. \A c \in Kids[m] : Shown(c)' = Shown(c)
        BY <1>4, <1>7 DEF OnlyAt, Shown, Free
    <2>. QED
        BY <2>1 DEF Seen
<1>9. Wanted(m)' = Wanted(m)
    <2>1. AggrOv(m, Seen(m))' = AggrOv(m, Seen(m))
        BY <1>1, <1>8, Zenon DEF AggrOv
    <2>. QED
        BY <1>1, <2>1 DEF Wanted, checkOverride
<1>10. m \in Plain => ov'[m] = Wanted(m) \/ Told(m)
    <2>1. ASSUME m \in Plain, ov[m] = AggrOv(m, Seen(m)) PROVE o = Wanted(m)
        BY <2>1 DEF o, Wanted
    <2>. QED
        BY <1>1, <1>2, <2>1 DEF Sound, StatusSound
<1>11. CASE phase'[m] = "free"
    <2>1. phase[m] = "depend" /\ todo'[m] = {} /\ m \in Services
        BY <1>1, <1>3, <1>11 DEF Shapes, Sound, ReadsSound
    <2>2. Free(m)' /\ ~Determining(m)' /\ ~Depending(m)'
        BY <1>11 DEF Free, Determining, Depending
    <2>3. ReadsSound(m)'
        BY <1>1, <1>2, <1>11, <2>1, <2>2 DEF ReadsSound
    <2>4. StatusSound(m)'
        BY <1>6, <1>9, <1>10, <1>11, <2>2 DEF StatusSound, Plain
    <2>5. SummarySound(m)'
        BY <1>1, <1>5, <2>1 DEF Sound, SummarySound
    <2>. QED
        BY <1>1, <1>4, <1>5, <2>3, <2>4, <2>5, ElementKeeps DEF Sound
<1>12. CASE phase'[m] = "sum"
    <2>1. todo'[m] = Summed(m)
        BY <1>1, <1>3, <1>12 DEF Shapes
    <2>2. ~Free(m)' /\ ~Determining(m)' /\ ~Depending(m)'
        BY <1>12 DEF Free, Determining, Depending
    <2>3. ReadsSound(m)'
        BY <1>12, <2>2 DEF ReadsSound
    <2>4. StatusSound(m)'
        BY <1>6, <1>9, <1>10, <1>12, <2>2 DEF StatusSound, Plain
    <2>5. SummarySound(m)'
        <3>1. m \in Services \cup Countstop => summary'[m] = Only(Shown(m)')
            BY <1>1, <1>5 DEF Sound, SummarySound
        <3>2. m \notin Countstop /\ override[m] = 0 => DOMAIN got'[m] = {} /\ todo'[m] = Kids[m]
            BY <1>1, <1>2, <2>1 DEF Summed
        <3>. QED
            BY <1>1, <2>2, <3>1, <3>2 DEF SummarySound
    <2>. QED
        BY <1>1, <1>4, <1>5, <2>3, <2>4, <2>5, ElementKeeps DEF Sound
<1>. QED
    BY <1>1, <1>3, <1>11, <1>12 DEF Shapes

(* It reads the counts of a child.                                           *)
LEMMA ReadSummaryKeeps ==
    ASSUME SumsInv, NEW m \in Mons, NEW c \in Mons, ReadSummary(m, c)
    PROVE  SumsInv'
<1>1. /\ phase[m] = "sum" /\ c \in todo[m] /\ Sound(m) /\ Shapes
      /\ UNCHANGED <<raw, ov, summary, override, phase, was, upward, op>>
    BY DEF ReadSummary, SumsInv, usr, status
<1>2. /\ todo'[m] = todo[m] \ {c}
      /\ DOMAIN got'[m] = DOMAIN got[m] \cup {c} /\ got'[m] = [x \in DOMAIN got'[m] |-> got'[m][x]]
      /\ \A x \in DOMAIN got'[m] :
            (x \in DOMAIN got[m] /\ got'[m][x] = got[m][x]) \/ (x = c /\ got'[m][x] = summary[c])
    <2>1. got'[m] = Also(got[m], c, summary[c]) /\ todo'[m] = todo[m] \ {c}
        BY <1>1 DEF ReadSummary, Shapes
    <2>2. got'[m] = [x \in DOMAIN got[m] \cup {c} |-> IF x = c THEN summary[c] ELSE got[m][x]]
        BY <2>1 DEF Also
    <2>3. DOMAIN got'[m] = DOMAIN got[m] \cup {c} /\ got'[m] = [x \in DOMAIN got'[m] |-> got'[m][x]]
        BY <2>2
    <2>4. \A x \in DOMAIN got'[m] :
             (x \in DOMAIN got[m] /\ got'[m][x] = got[m][x]) \/ (x = c /\ got'[m][x] = summary[c])
        BY <2>2
    <2>. QED
        BY <2>1, <2>3, <2>4
<1>3. OnlyAt(m) /\ Shapes'
    BY <1>1, <1>2 DEF ReadSummary, OnlyAt, Shapes
<1>4. /\ \A x : Shown(x)' = Shown(x)
      /\ Told(m)' = Told(m) /\ Telling(m)' = Telling(m)
      /\ ~Free(m)' /\ ~Determining(m)' /\ ~Depending(m)' /\ phase'[m] = "sum"
    BY <1>1 DEF Shown, Free, Told, Telling, Determining, Depending
<1>5. Wanted(m)' = Wanted(m)
    <2>1. Seen(m)' = Seen(m)
        BY <1>4 DEF Seen
    <2>2. AggrOv(m, Seen(m))' = AggrOv(m, Seen(m))
        BY <1>1, <2>1, Zenon DEF AggrOv
    <2>. QED
        BY <1>1, <2>2 DEF Wanted, checkOverride
<1>6. ReadsSound(m)'
    BY <1>4 DEF ReadsSound
<1>7. StatusSound(m)'
    BY <1>1, <1>4, <1>5 DEF Sound, StatusSound, Plain
<1>8. SummarySound(m)'
    <2>1. m \notin Services \cup Countstop /\ override[m] = 0 =>
              /\ DOMAIN got'[m] \cup todo'[m] = Kids[m]
              /\ \A x \in DOMAIN got'[m] : got'[m][x] = summary[x] \/ Told(m)
        BY <1>1, <1>2 DEF Sound, SummarySound
    <2>. QED
        BY <1>1, <1>4, <2>1 DEF Sound, SummarySound
<1>. QED
    BY <1>1, <1>3, <1>4, <1>6, <1>7, <1>8, ElementKeeps DEF Sound

(* It is done, its new status is seen, and all that read it are told.        *)
LEMMA PropagatedKeeps ==
    ASSUME SumsInv, NEW m \in Mons, Propagated(m)
    PROVE  SumsInv'
<1>1. /\ phase[m] = "sum" /\ todo[m] = {} /\ Sound(m) /\ Shapes
      /\ UNCHANGED <<raw, ov, override, todo, op>> /\ upward' = upward \cup Ups[m]
    BY DEF Propagated, SumsInv, usr, Upwards
<1>2. /\ summary'[m] = Summary(m, SumOf(got[m]))
      /\ phase'[m] = "free" /\ got'[m] = <<>> /\ was'[m] = UNKNOWN
    BY <1>1 DEF Propagated, Shapes
<1>3. OnlyAt(m) /\ Shapes'
    <2>1. <<>> = [c \in DOMAIN <<>> |-> <<>>[c]]
        OBVIOUS
    <2>2. phase'[m] \in Phases /\ got'[m] = [c \in DOMAIN got'[m] |-> got'[m][c]]
        BY <1>2, <2>1 DEF Phases
    <2>3. OnlyAt(m)
        BY <1>1 DEF Propagated, OnlyAt, Shapes
    <2>4. \A x \in Mons : phase'[x] \in Phases /\ got'[x] = [c \in DOMAIN got'[x] |-> got'[x][c]]
        BY <1>1, <2>2, <2>3 DEF OnlyAt, Shapes
    <2>5. upward' \subseteq Mons
        BY <1>1, MonelAssumption DEF Shapes
    <2>. QED
        BY <1>1, <2>3, <2>4, <2>5 DEF Propagated, Shapes
<1>4. Free(m)' /\ ~Determining(m)' /\ ~Depending(m)' /\ Shown(m)' = ov[m]
    BY <1>1, <1>2 DEF Free, Determining, Depending, Shown
<1>5. Told(m) => Told(m)'
    BY <1>1, <1>3 DEF Told, Telling, OnlyAt
<1>6. m \notin Kids[m] /\ Kids[m] \subseteq Mons
    BY MonelAssumption
<1>7. \A c \in Kids[m] : Shown(c)' = Shown(c) /\ summary'[c] = summary[c]
    BY <1>3, <1>6 DEF OnlyAt, Shown, Free
<1>8. Wanted(m)' = Wanted(m)
    <2>1. Seen(m)' = Seen(m)
        BY <1>7 DEF Seen
    <2>2. AggrOv(m, Seen(m))' = AggrOv(m, Seen(m))
        BY <1>1, <2>1, Zenon DEF AggrOv
    <2>. QED
        BY <1>1, <2>2 DEF Wanted, checkOverride
<1>9. ReadsSound(m)'
    BY <1>1, <1>2, <1>4 DEF ReadsSound
<1>10. StatusSound(m)'
    BY <1>1, <1>2, <1>4, <1>5, <1>8 DEF Sound, StatusSound, Plain
<1>11. SummarySound(m)'
    <2>1. CASE m \in Services \cup Countstop
        BY <1>2, <1>4, <2>1 DEF SummarySound, Summary
    <2>2. CASE m \notin Services \cup Countstop /\ override[m] = 0
        <3>1. DOMAIN got[m] = Kids[m] /\ \A c \in Kids[m] : got[m][c] = summary[c] \/ Told(m)
            BY <1>1, <2>2 DEF Sound, SummarySound
        <3>2. CASE \A c \in Kids[m] : got[m][c] = summary[c]
            <4>1. got[m] = [c \in Kids[m] |-> summary'[c]]
                BY <1>1, <1>7, <3>1, <3>2 DEF Shapes
            <4>2. summary'[m] = SumOf([c \in Kids[m] |-> summary'[c]])
                BY <1>2, <2>2, <4>1, Zenon DEF Summary
            <4>. QED
                BY <1>1, <1>2, <1>4, <2>2, <4>2 DEF SummarySound
        <3>3. CASE Told(m)
            BY <1>1, <1>2, <1>4, <1>5, <2>2, <3>3 DEF SummarySound
        <3>. QED
            BY <3>1, <3>2, <3>3
    <2>3. CASE m \notin Services \cup Countstop /\ override[m] # 0
        BY <1>1, <2>3 DEF SummarySound
    <2>. QED
        BY <2>1, <2>2, <2>3
<1>. QED
    BY <1>1, <1>3, <1>9, <1>10, <1>11, ElementKeeps DEF Sound
-----------------------------------------------------------------------------
(* What users and timers do.                                                 *)
LEMMA UsersKeep ==
    ASSUME SumsInv, NEW u \in Users,
           \/ Continue(u) \/ \E m \in Mons : SetOverride(u, m) \/ DelOverride(u, m)
           \/ \E t \in timers : overrideExpire(u, t)
    PROVE  SumsInv'
<1>1. Shapes
    BY DEF SumsInv
<1>2. \A m \in Mons : <<"expire", m>> \notin {<<"set", m>>, <<"setting", m>>, <<"del", m>>, <<"deleting", m>>}
    OBVIOUS
<1>3. ASSUME UNCHANGED <<status, lock, override, upward>>, DOMAIN op' = Users,
             \A v \in Users \ {u} : op'[v] = op[v],
             \/ op'[u] = op[u]
             \/ \E m \in Mons : op[u] = <<"set", m>> /\ op'[u] = <<"setting", m>>
             \/ \E m \in Mons : op[u] = <<"del", m>> /\ op'[u] = <<"deleting", m>>
             \/ op[u] = None \/ \E m \in Mons : op[u] = <<"expire", m>>
      PROVE  SumsInv'
    <2>1. Shapes'
        BY <1>1, <1>3 DEF Shapes, status, lock
    <2>2. \A m \in Mons, call \in Calls : None # <<call, m>>
        BY MonelAssumption
    <2>3. ASSUME NEW m \in Mons, Asked(m) PROVE Asked(m)'
        <3>1. PICK v \in Users : op[v] \in {<<"set", m>>, <<"setting", m>>, <<"del", m>>, <<"deleting", m>>}
            BY <2>3 DEF Asked
        <3>2. op'[v] \in {<<"set", m>>, <<"setting", m>>, <<"del", m>>, <<"deleting", m>>}
            BY <1>3, <2>2, <3>1 DEF Calls
        <3>. QED
            BY <3>2 DEF Asked
    <2>. QED
        BY <1>3, <2>1, <2>3, UserKeeps
<1>4. ASSUME NEW m \in Mons, ListOverride(u, m) PROVE SumsInv'
    BY <1>1, <1>3, <1>4 DEF ListOverride, Shapes
<1>5. ASSUME NEW m \in Mons, Visit(u, m) \/ Assign(u, m) PROVE SumsInv'
    <2>1. UNCHANGED <<status, lock, override, upward, op>>
        BY <1>5 DEF Visit, Assign
    <2>. QED
        BY <1>1, <1>3, <2>1 DEF Shapes
<1>6. ASSUME NEW m \in Mons, setOverrideExpire(u, m) PROVE SumsInv'
    BY <1>1, <1>3, <1>6 DEF setOverrideExpire, Shapes
<1>7. ASSUME NEW t \in timers, overrideExpire(u, t) PROVE SumsInv'
    BY <1>1, <1>3, <1>7 DEF overrideExpire, Shapes
<1>8. ASSUME NEW m \in Mons, EndWalk(u, m) PROVE SumsInv'
    <2>1. /\ UNCHANGED <<status, lock, override>> /\ upward' = upward \cup {m}
          /\ op[u] \in {<<"setting", m>>, <<"deleting", m>>}
          /\ DOMAIN op' = Users /\ \A v \in Users \ {u} : op'[v] = op[v]
        BY <1>1, <1>8 DEF EndWalk, Shapes
    <2>2. Shapes'
        BY <1>1, <2>1 DEF Shapes, status, lock
    <2>3. ASSUME NEW x \in Mons, Asked(x) PROVE Asked(x)' \/ x \in upward'
        <3>1. PICK v \in Users : op[v] \in {<<"set", x>>, <<"setting", x>>, <<"del", x>>, <<"deleting", x>>}
            BY <2>3 DEF Asked
        <3>2. CASE v = u
            BY <2>1, <3>1, <3>2
        <3>3. CASE v # u
            BY <2>1, <3>1, <3>3 DEF Asked
        <3>. QED
            BY <3>2, <3>3
    <2>. QED
        BY <2>1, <2>2, <2>3, UserKeeps
<1>9. ASSUME NEW m \in Mons, SetOverride(u, m) \/ DelOverride(u, m) PROVE SumsInv'
    <2>1. PICK call \in {"set", "del"} :
              /\ \E n : override' = [override EXCEPT ![m] = n]
              /\ op' = [op EXCEPT ![u] = <<call, m>>]
              /\ Free(m) /\ UNCHANGED <<status, lock, upward>>
              /\ op[u] = None \/ op[u] = <<"expired", m>>
        <3>1. CASE SetOverride(u, m)
            BY <3>1 DEF SetOverride
        <3>2. CASE DelOverride(u, m)
            BY <3>2 DEF DelOverride
        <3>. QED
            BY <1>9, <3>1, <3>2
    <2>2. Shapes'
        BY <1>1, <2>1 DEF Shapes, status, lock
    <2>3. Asked(m)'
        BY <1>1, <2>1 DEF Shapes, Asked
    <2>4. ASSUME NEW x \in Mons PROVE override'[x] = override[x] \/ (Free(x) /\ Asked(x)')
        BY <1>1, <2>1, <2>3 DEF Shapes
    <2>5. ASSUME NEW x \in Mons, Asked(x) PROVE Asked(x)'
        <3>1. PICK v \in Users : op[v] \in {<<"set", x>>, <<"setting", x>>, <<"del", x>>, <<"deleting", x>>}
            BY <2>5 DEF Asked
        <3>2. \A call2 \in Calls : None # <<call2, x>>
            BY MonelAssumption
        <3>3. v # u
            BY <2>1, <3>1, <3>2 DEF Calls
        <3>. QED
            BY <1>1, <2>1, <3>1, <3>3 DEF Asked, Shapes
    <2>. QED
        BY <2>1, <2>2, <2>4, <2>5, UserKeeps
<1>. QED
    BY <1>4, <1>5, <1>6, <1>7, <1>8, <1>9 DEF Continue

(* Every step.                                                               *)
LEMMA SumsNext == ASSUME SumsInv, [Next]_vars PROVE SumsInv'
<1>1. ASSUME NEW m \in Mons, Proceed(m) PROVE SumsInv'
    BY <1>1, ReUpdateKeeps, DetermineKeeps, DeterminedKeeps, PropagatedKeeps, ReadChildKeeps, DependsKeeps,
       ReadSummaryKeeps DEF Proceed, commonUpdate
<1>2. ASSUME NEW m \in Mons, NEW st \in Reports, Update(m, st) PROVE SumsInv'
    BY <1>2, UpdateKeeps
<1>3. ASSUME NEW u \in Users,
             \/ Continue(u) \/ \E m \in Mons : SetOverride(u, m) \/ DelOverride(u, m)
             \/ \E t \in timers : overrideExpire(u, t)
      PROVE  SumsInv'
    BY <1>3, UsersKeep
<1>4. ASSUME UNCHANGED <<status, override, lock, upward, op>> PROVE SumsInv'
    <2>1. Shapes'
        BY <1>4 DEF SumsInv, Shapes, status, lock
    <2>2. \A m \in Mons : Asked(m) => Asked(m)'
        BY <1>4 DEF Asked
    <2>. QED
        BY <1>4, <2>1, <2>2, UserKeeps
<1>5. ASSUME NEW g \in marking, updateIsDown(g) PROVE SumsInv'
    BY <1>4, <1>5 DEF updateIsDown, usr
<1>6. ASSUME NEW id, TimePasses(id) PROVE SumsInv'
    BY <1>4, <1>6 DEF TimePasses
<1>7. ASSUME UNCHANGED vars PROVE SumsInv'
    BY <1>4, <1>7 DEF vars, usr
<1>. QED
    BY <1>1, <1>2, <1>3, <1>5, <1>6, <1>7 DEF Next

(* When all is quiet, every element has the status that its children's add   *)
(* up to, and the counts are the sums of its children's counts (andUpwards), *)
(* however many reports and overrides overtook one another, in any graph.    *)
THEOREM AllAddsUp == Spec => []AddsUp
<1>1. Init => SumsInv
    BY SumsStart
<1>2. SumsInv /\ [Next]_vars => SumsInv'
    BY SumsNext
<1>3. ASSUME SumsInv, Quiet PROVE StatusesAddUp /\ SummariesAddUp
    <2>1. \A m \in Mons : Free(m) /\ ~Telling(m) /\ ~Told(m) /\ phase[m] = "free"
        BY <1>3 DEF Quiet, Free, Told, Telling
    <2>2. \A m \in Mons : ~Asked(m)
        <3>1. \A m \in Mons, call \in Calls : None # <<call, m>>
            BY MonelAssumption
        <3>. QED
            BY <1>3, <3>1 DEF Quiet, Idle, Asked, Calls
    <2>3. \A m \in Mons : Sound(m) /\ Shown(m) = ov[m]
        BY <1>3, <2>1 DEF SumsInv, Shown
    <2>4. ASSUME NEW m \in Mons, Needs[m] = {} PROVE ov[m] = Current(m)
        <3>1. ov[m] = Wanted(m)
            BY <2>1, <2>2, <2>3, <2>4 DEF Sound, StatusSound, Plain
        <3>2. Kids[m] \subseteq Mons
            BY MonelAssumption
        <3>3. Seen(m) = [c \in Kids[m] |-> ov[c]]
            BY <2>3, <3>2 DEF Seen
        <3>. QED
            BY <3>1, <3>3, Zenon DEF Wanted, Current
    <2>5. ASSUME NEW m \in Mons
          PROVE  /\ Kids[m] = {} => summary[m] = Only(ov[m])
                 /\ Kids[m] # {} /\ m \notin Countstop /\ override[m] = 0
                       => summary[m] = SumOf([c \in Kids[m] |-> summary[c]])
        BY <2>1, <2>2, <2>3 DEF Sound, SummarySound, Services
    <2>. QED
        BY <2>4, <2>5 DEF StatusesAddUp, SummariesAddUp
<1>4. SumsInv => AddsUp
    BY <1>3 DEF AddsUp, StatusesAddUp, SummariesAddUp
<1>. QED
    BY <1>1, <1>2, <1>4, PTL DEF Spec
=============================================================================
