--------------------------- MODULE ResolverProofs ---------------------------
(* Proofs about the resolver, for any monitors, names, zones, servers and    *)
(* queues: that a name which was asked for is being looked up, and that the  *)
(* worker counts its queries right.                                          *)
EXTENDS Resolver, FiniteSetTheorems, FunctionTheorems, TLAPS

(* The ids of queries.  There are enough that are not in use.                *)
LEMMA NewIdsAre ==
    ASSUME NEW used, IsFiniteSet(used), NEW D, IsFiniteSet(D)
    PROVE  NewIds(used, D) \in Injection(D, (1..(Cardinality(used) + Cardinality(D))) \ used)
<1>. DEFINE u == Cardinality(used)
            d == Cardinality(D)
            F == (1..(u + d)) \ used
<1>1. u \in Nat /\ d \in Nat /\ ExistsBijection(1..d, D)
    BY FS_CardinalityType
<1>2. IsFiniteSet(1..(u + d)) /\ Cardinality(1..(u + d)) = u + d
    <2>1. 1 \in Int /\ u + d \in Int
        BY <1>1
    <2>2. IsFiniteSet(1..(u + d)) /\ Cardinality(1..(u + d)) = IF 1 > u + d THEN 0 ELSE (u + d) - 1 + 1
        BY <2>1, FS_Interval
    <2>. QED
        BY <1>1, <2>2
<1>3. /\ Cardinality((1..(u + d)) \cap used) \in Nat
      /\ Cardinality((1..(u + d)) \cap used) <= u
    <2>1. /\ IsFiniteSet((1..(u + d)) \cap used)
          /\ Cardinality((1..(u + d)) \cap used) <= Cardinality(used)
        BY FS_Intersection
    <2>. QED
        BY <2>1, FS_CardinalityType
<1>4. IsFiniteSet(F) /\ Cardinality(F) = Cardinality(1..(u + d)) - Cardinality((1..(u + d)) \cap used)
    BY <1>2, FS_Difference
<1>5. Cardinality(F) \in Nat /\ d <= Cardinality(F) /\ ExistsBijection(1..Cardinality(F), F)
    BY <1>1, <1>2, <1>3, <1>4, FS_CardinalityType
<1>6. ExistsInjection(1..d, 1..Cardinality(F))
    BY <1>1, <1>5, Fun_NatInjLeq
<1>7. ExistsInjection(D, 1..d)
    BY <1>1, Fun_ExistsBijEquiv
<1>8. ExistsInjection(1..Cardinality(F), F)
    BY <1>5, Fun_ExistsBijEquiv
<1>9. ExistsInjection(D, F)
    BY <1>6, <1>7, <1>8, Fun_ExistsInjTransitive
<1>10. \E ids \in Injection(D, F) : TRUE
    BY <1>9, Fun_ExistsInj
<1>. QED
    BY <1>10, Zenon DEF NewIds

(* Queries that are sent with them are new ones, as many as there are ids.   *)
NewSent(ids, typ) == {[qid |-> ids[d], typ |-> typ[d], ns |-> nsn] : d \in DOMAIN ids}

Fresh(ids, S, D) ==
    /\ ids \in [D -> Nat \ {0}]
    /\ \A d, e \in D : ids[d] = ids[e] => d = e
    /\ \A q \in S, d \in D : q.qid # ids[d]

Counted(S, T, n) == IsFiniteSet(S \cup T) /\ Cardinality(S \cup T) = Cardinality(S) + n

LEMMA NewSentAre ==
    ASSUME NEW S, IsFiniteSet(S), NEW D, IsFiniteSet(D), NEW typ,
           NEW ids, ids = NewIds(Ids(S), D)
    PROVE  Fresh(ids, S, D) /\ Counted(S, NewSent(ids, typ), Cardinality(D))
<1>. DEFINE used == Ids(S)
            T == NewSent(ids, typ)
<1>1. IsFiniteSet(used)
    <2>1. [q \in S |-> q.qid] \in Surjection(S, used)
        BY DEF Surjection, Ids
    <2>. QED
        BY <2>1, FS_Surjection
<1>2. ids \in Injection(D, (1..(Cardinality(used) + Cardinality(D))) \ used)
    BY <1>1, NewIdsAre
<1>3. ids \in [D -> (1..(Cardinality(used) + Cardinality(D))) \ used] /\ IsInjective(ids)
    BY <1>2 DEF Injection
<1>4. Cardinality(used) \in Nat /\ Cardinality(D) \in Nat /\ Cardinality(S) \in Nat
    BY <1>1, FS_CardinalityType
<1>5. \A d \in D : ids[d] \in Nat \ {0} /\ ids[d] \notin used
    <2>. DEFINE N == Cardinality(used) + Cardinality(D)
    <2>1. N \in Nat
        BY <1>4
    <2>. HIDE DEF N, used
    <2>2. \A x \in (1..N) \ used : x \in Nat \ {0} /\ x \notin used
        BY <2>1
    <2>3. ids \in [D -> (1..N) \ used]
        BY <1>3 DEF N
    <2>. QED
        BY <2>2, <2>3
<1>6. ids \in [D -> Nat \ {0}]
    BY <1>3, <1>5
<1>7. \A d, e \in D : ids[d] = ids[e] => d = e
    BY <1>3 DEF IsInjective
<1>8. \A q \in S, d \in D : q.qid # ids[d]
    BY <1>5 DEF Ids
<1>9. T = {[qid |-> ids[d], typ |-> typ[d], ns |-> nsn] : d \in D}
    BY <1>3 DEF NewSent
<1>10. IsFiniteSet(T) /\ Cardinality(T) = Cardinality(D)
    <2>. DEFINE f == [d \in D |-> [qid |-> ids[d], typ |-> typ[d], ns |-> nsn]]
    <2>1. \A d, e \in D : f[d] = f[e] => d = e
        BY <1>7
    <2>2. f \in [D -> T] /\ \A t \in T : \E d \in D : f[d] = t
        BY <1>9
    <2>3. f \in Bijection(D, T)
        BY <2>1, <2>2 DEF Bijection, Injection, Surjection, IsInjective
    <2>4. ExistsBijection(D, T)
        BY <2>3 DEF ExistsBijection
    <2>. QED
        BY <2>4, FS_Bijection
<1>11. S \cap T = {}
    BY <1>8, <1>9
<1>12. IsFiniteSet(S \cup T) /\ Cardinality(S \cup T) = Cardinality(S) + Cardinality(T) - Cardinality(S \cap T)
    BY <1>10, FS_Union
<1>13. Cardinality(S \cap T) = 0
    BY <1>11, FS_EmptySet
<1>. QED
    BY <1>4, <1>6, <1>7, <1>8, <1>10, <1>12, <1>13 DEF Fresh, Counted
-----------------------------------------------------------------------------
(* The invariant.  Of the cache, its entries and what is queued for it:      *)
Families == SUBSET {4, 6}
Results  == [fqdn : Names, addrs : Families, expired : BOOLEAN]
Entries  == [prefm : Families, result : Results \cup {None}]

CacheTypes ==
    /\ cache \in [Names -> Entries \cup {None}]
    /\ needWhen \subseteq Names
    /\ todo \in Seq([name : Names, prefm : Families])
    /\ got \in Seq([name : Names, prefm : Families, res : Results])

CacheInv == CacheTypes /\ AskedIsOnTheWay

(* a monitor that holds a result knows its name;                             *)
IpInv ==
    /\ ip \in [Ips -> [fqdn : Names \cup {None}, cache : Families \cup {None}]]
    /\ \A i \in Ips : ip[i].cache # None => ip[i].fqdn \in Names

(* of the worker: a pending query waits for an answer, and what it notes as  *)
(* underway is one of those it has sent, or nothing;                         *)
SentQueries == [qid : Nat \ {0}, typ : {4, 6}, ns : Nat]

PendQs == {pq \in [name : Names, zname : Names, prefm : Families \ {{}}, tries : Int, underway : Nat,
                   res : Results \cup {None}, sent : SUBSET SentQueries] :
              \/ pq.underway = 0
              \/ \E q \in pq.sent : q.qid = pq.underway}

(* an id belongs to one query of one of them, and all are counted.           *)
OneOwner ==
    \A pq1, pq2 \in pending : \A q1 \in pq1.sent, q2 \in pq2.sent :
        q1.qid = q2.qid => pq1 = pq2 /\ q1 = q2

WorkerInv ==
    /\ pending \subseteq PendQs /\ nsn \in Nat
    /\ \A pq \in pending : pq.sent # {}
    /\ OneOwner
    /\ IsFiniteSet(Sent) /\ nqueries = Cardinality(Sent)

ResolverInv == CacheInv /\ IpInv /\ WorkerInv
-----------------------------------------------------------------------------
LEMMA ResolverStart == Init => ResolverInv
<1>1. SUFFICES ASSUME Init PROVE ResolverInv
    OBVIOUS
<1>2. CacheInv
    BY <1>1 DEF Init, CacheInv, CacheTypes, AskedIsOnTheWay
<1>3. IpInv
    BY <1>1 DEF Init, IpInv
<1>4. Sent = {}
    BY <1>1 DEF Init, Sent
<1>5. WorkerInv
    BY <1>1, <1>4, FS_EmptySet DEF Init, WorkerInv, OneOwner
<1>. QED
    BY <1>2, <1>3, <1>5 DEF ResolverInv

(* What joins a queue is in it, and what was in it stays.                    *)
LEMMA Joins ==
    ASSUME NEW T, NEW s \in Seq(T), NEW x \in T
    PROVE  /\ Append(s, x) \in Seq(T)
           /\ Len(s) + 1 \in DOMAIN Append(s, x) /\ Append(s, x)[Len(s) + 1] = x
           /\ \A k \in DOMAIN s : k \in DOMAIN Append(s, x) /\ Append(s, x)[k] = s[k]
    OBVIOUS

(* What leaves it is the first.                                              *)
LEMMA Leaves ==
    ASSUME NEW T, NEW s \in Seq(T), s # <<>>
    PROVE  /\ Tail(s) \in Seq(T) /\ Head(s) \in T
           /\ \A k \in DOMAIN s : s[k] = Head(s) \/ (k - 1 \in DOMAIN Tail(s) /\ Tail(s)[k - 1] = s[k])
    OBVIOUS

(* A name stays on the way as long as the queue, the worker's queries and    *)
(* its results keep what they have.                                          *)
Queued(n)  == \E k \in DOMAIN todo : todo[k].name = n /\ todo[k].prefm # {}
LookedUp(n) == \E pq \in pending : pq.name = n
Found(n)   == \E k \in DOMAIN got : got[k].name = n

LEMMA OnTheWayIs == \A n : OnTheWay(n) <=> Queued(n) \/ LookedUp(n) \/ Found(n)
    BY DEF OnTheWay, Queued, LookedUp, Found

(* A request notes in the entry what it asks for if it puts that into the    *)
(* queue, and nothing otherwise.                                             *)
LEMMA RequestKeeps ==
    ASSUME CacheInv, NEW n \in Names, NEW entry \in Entries, NEW want \in Families,
           request(n, entry, want), UNCHANGED <<got, pending>>
    PROVE  CacheInv'
<1>. DEFINE m == entry.prefm \cup want
            x == [name |-> n, prefm |-> m]
            e == [entry EXCEPT !.prefm = Remembered(m)]
<1>1. m \in Families /\ x \in [name : Names, prefm : Families]
    BY DEF Entries, Families
<1>2. /\ needWhen' = needWhen \ {n}
      /\ todo' = IF Len(todo) < QueueMax THEN Append(todo, x) ELSE todo
      /\ cache' = [cache EXCEPT ![n] = e]
    BY DEF request, query
<1>3. Remembered(m) = IF Len(todo) < QueueMax THEN m ELSE {}
    BY DEF Remembered
<1>4. e \in Entries /\ e.result = entry.result /\ e.prefm = Remembered(m)
    BY <1>1, <1>3 DEF Entries, Families
<1>5. /\ cache \in [Names -> Entries \cup {None}] /\ needWhen \subseteq Names
      /\ todo \in Seq([name : Names, prefm : Families])
      /\ got \in Seq([name : Names, prefm : Families, res : Results])
    BY DEF CacheInv, CacheTypes
<1>6. CacheTypes'
    <2>1. todo' \in Seq([name : Names, prefm : Families])
        BY <1>1, <1>2, <1>5, Joins
    <2>2. cache' \in [Names -> Entries \cup {None}]
        BY <1>2, <1>4, <1>5
    <2>3. needWhen' \subseteq Names /\ got' = got
        BY <1>2, <1>5
    <2>. QED
        BY <1>5, <2>1, <2>2, <2>3 DEF CacheTypes, Families, Results, Entries
<1>7. ASSUME NEW c \in Names, OnTheWay(c) PROVE OnTheWay(c)'
    <2>1. \A k \in DOMAIN todo : k \in DOMAIN todo' /\ todo'[k] = todo[k]
        BY <1>1, <1>2, <1>5, Joins
    <2>2. Queued(c) => Queued(c)'
        BY <2>1 DEF Queued
    <2>. QED
        BY <1>7, <2>2 DEF OnTheWay, Queued
<1>8. ASSUME Len(todo) < QueueMax, m # {} PROVE OnTheWay(n)'
    <2>1. Len(todo) + 1 \in DOMAIN todo' /\ todo'[Len(todo) + 1] = x
        BY <1>1, <1>2, <1>5, <1>8, Joins
    <2>2. x.name = n /\ x.prefm # {}
        BY <1>8
    <2>. QED
        BY <2>1, <2>2 DEF OnTheWay
<1>9. ASSUME NEW c \in Names, cache'[c] # None, cache'[c].prefm # {}, cache'[c].result = None
      PROVE  OnTheWay(c)'
    <2>1. CASE c = n
        <3>1. cache'[c] = e
            BY <1>2, <1>5, <2>1
        <3>2. Remembered(m) # {}
            BY <1>4, <1>9, <3>1
        <3>. QED
            BY <1>3, <1>8, <2>1, <3>2
    <2>2. CASE c # n
        <3>1. cache'[c] = cache[c]
            BY <1>2, <1>5, <2>2
        <3>. QED
            BY <1>7, <1>9, <3>1 DEF CacheInv, AskedIsOnTheWay
    <2>. QED
        BY <2>1, <2>2
<1>10. AskedIsOnTheWay'
    BY <1>9 DEF AskedIsOnTheWay
<1>. QED
    BY <1>6, <1>10 DEF CacheInv

(* So do the callers of request.                                             *)
LEMMA RefreshKeeps ==
    ASSUME CacheInv, NEW n \in Names, refresh(n), UNCHANGED <<got, pending>>
    PROVE  CacheInv'
<1>1. CASE cache[n] = None
    BY <1>1 DEF refresh, CacheInv, CacheTypes, AskedIsOnTheWay, OnTheWay
<1>2. CASE cache[n] # None
    <2>1. cache[n] \in Entries /\ {} \in Families
        BY <1>2 DEF CacheInv, CacheTypes, Families
    <2>2. request(n, cache[n], {})
        BY <1>2 DEF refresh
    <2>. QED
        BY <2>1, <2>2, RequestKeeps
<1>. QED
    BY <1>1, <1>2

LEMMA AskKeeps ==
    ASSUME CacheInv, NEW i \in Ips, Request(i), UNCHANGED <<got, pending>>
    PROVE  CacheInv'
<1>1. NameOf[i] \in Names /\ Pref[i] \in Families
    BY ResolverAssumption DEF Families
<1>2. CASE UNCHANGED <<cache, needWhen, todo>>
    BY <1>2 DEF CacheInv, CacheTypes, AskedIsOnTheWay, OnTheWay
<1>3. CASE cache[NameOf[i]] # None /\ request(NameOf[i], cache[NameOf[i]], Pref[i])
    <2>1. cache[NameOf[i]] \in Entries
        BY <1>1, <1>3 DEF CacheInv, CacheTypes
    <2>. QED
        BY <1>1, <1>3, <2>1, RequestKeeps
<1>. QED
    BY <1>2, <1>3 DEF Request

-----------------------------------------------------------------------------
(* What is not the worker's changes nothing of it.                           *)
LEMMA WorkerAside == ASSUME WorkerInv, UNCHANGED <<pending, nqueries, nsn>> PROVE WorkerInv'
    BY DEF WorkerInv, OneOwner, Sent

LEMMA CacheAside == ASSUME CacheInv, UNCHANGED <<cache, needWhen, todo, got, pending>> PROVE CacheInv'
    BY DEF CacheInv, CacheTypes, AskedIsOnTheWay, OnTheWay

(* A monitor takes a result.                                                 *)
LEMMA UseKeeps ==
    ASSUME CacheInv, IpInv, NEW i \in Ips, NEW name \in Names, NEW addrs \in Families, NEW expired,
           Use(i, name, addrs, expired), UNCHANGED <<got, pending>>
    PROVE  CacheInv' /\ IpInv'
<1>1. CacheInv'
    <2>1. CASE expired
        BY <2>1, RefreshKeeps DEF Use
    <2>2. CASE ~expired
        BY <2>2, CacheAside DEF Use
    <2>. QED
        BY <2>1, <2>2
<1>2. IpInv'
    <2>. DEFINE new == [cache |-> addrs, fqdn |-> IF ip[i].fqdn = None THEN name ELSE ip[i].fqdn]
    <2>1. ip' = [ip EXCEPT ![i] = new]
        BY DEF Use
    <2>2. ip[i].fqdn \in Names \cup {None}
        BY DEF IpInv
    <2>3. new \in [fqdn : Names \cup {None}, cache : Families \cup {None}] /\ new.fqdn \in Names
        BY <2>2
    <2>4. ip' \in [Ips -> [fqdn : Names \cup {None}, cache : Families \cup {None}]]
        BY <2>1, <2>3 DEF IpInv
    <2>5. ASSUME NEW j \in Ips, ip'[j].cache # None PROVE ip'[j].fqdn \in Names
        <3>1. CASE j = i
            BY <2>1, <2>3, <3>1 DEF IpInv
        <3>2. CASE j # i
            BY <2>1, <2>5, <3>2 DEF IpInv
        <3>. QED
            BY <3>1, <3>2
    <2>. QED
        BY <2>4, <2>5 DEF IpInv, Families
<1>. QED
    BY <1>1, <1>2

LEMMA AddrKeeps ==
    ASSUME ResolverInv, NEW i \in Ips, Addr(i)
    PROVE  CacheInv' /\ IpInv'
<1>. DEFINE e == Get(useName(i))
<1>1. CacheInv /\ IpInv /\ UNCHANGED <<got, pending>>
    BY DEF ResolverInv, Addr, wvars
<1>2. useName(i) \in Names
    BY <1>1, ResolverAssumption DEF IpInv, useName
<1>3. e \in Results \cup {None}
    <2>1. cache[useName(i)] \in Entries \cup {None}
        BY <1>1, <1>2 DEF CacheInv, CacheTypes
    <2>. QED
        BY <2>1 DEF Get, Entries
<1>4. CASE Request(i) /\ UNCHANGED ip
    BY <1>1, <1>4, AskKeeps DEF IpInv
<1>5. CASE e # None /\ Use(i, e.fqdn, e.addrs, e.expired)
    <2>1. e.fqdn \in Names /\ e.addrs \in Families
        BY <1>3, <1>5 DEF Results
    <2>. QED
        BY <1>1, <1>5, <2>1, UseKeeps
<1>6. CASE ip[i].cache # None /\ \E expired \in BOOLEAN : Use(i, ip[i].fqdn, ip[i].cache, expired)
    <2>1. ip[i].fqdn \in Names /\ ip[i].cache \in Families
        BY <1>1, <1>6 DEF IpInv
    <2>2. PICK expired \in BOOLEAN : Use(i, ip[i].fqdn, ip[i].cache, expired)
        BY <1>6
    <2>. QED
        BY <1>1, <2>1, <2>2, UseKeeps
<1>. QED
    BY <1>4, <1>5, <1>6 DEF Addr

(* What monitors do.                                                         *)
LEMMA IpsKeep ==
    ASSUME ResolverInv, NEW i \in Ips, IpStep(i)
    PROVE  ResolverInv'
<1>1. CacheInv /\ IpInv /\ WorkerInv
    BY DEF ResolverInv
<1>2. UNCHANGED <<got, pending, nqueries, nsn>>
    BY DEF IpStep, Config, RequestNew, Addr, WillNeedIn, wvars
<1>3. WorkerInv'
    BY <1>1, <1>2, WorkerAside
<1>4. CASE Config(i)
    <2>1. Request(i) /\ UNCHANGED ip
        BY <1>4 DEF Config
    <2>2. CacheInv'
        BY <1>1, <1>2, <2>1, AskKeeps
    <2>. QED
        BY <1>1, <1>3, <2>1, <2>2 DEF ResolverInv, IpInv
<1>5. CASE RequestNew(i)
    <2>1. request(NameOf[i], NewEntry, Pref[i]) /\ UNCHANGED ip
        BY <1>5 DEF RequestNew
    <2>2. NameOf[i] \in Names /\ Pref[i] \in Families /\ NewEntry \in Entries
        BY ResolverAssumption DEF NewEntry, Entries, Families
    <2>3. CacheInv'
        BY <1>1, <1>2, <2>1, <2>2, RequestKeeps
    <2>. QED
        BY <1>1, <1>3, <2>1, <2>3 DEF ResolverInv, IpInv
<1>6. CASE Addr(i)
    BY <1>3, <1>6, AddrKeeps DEF ResolverInv
<1>7. CASE WillNeedIn(i)
    <2>1. /\ needWhen' = needWhen \cup {ip[i].fqdn} /\ ip[i].fqdn \in Names
          /\ UNCHANGED <<cache, todo, got, ip, pending>>
        BY <1>1, <1>7 DEF WillNeedIn, IpInv, wvars
    <2>2. CacheInv'
        BY <1>1, <2>1 DEF CacheInv, CacheTypes, AskedIsOnTheWay, OnTheWay
    <2>. QED
        BY <1>1, <1>3, <2>1, <2>2 DEF ResolverInv, IpInv
<1>. QED
    BY <1>4, <1>5, <1>6, <1>7 DEF IpStep

(* The janitor, and time.                                                    *)
LEMMA MaintKeeps == ASSUME ResolverInv, cacheMaint PROVE ResolverInv'
<1>1. /\ CacheInv /\ IpInv /\ WorkerInv
      /\ UNCHANGED <<got, ip, pending, nqueries, nsn>>
    BY DEF ResolverInv, cacheMaint, wvars
<1>2. PICK n \in needWhen : refresh(n)
    BY DEF cacheMaint
<1>3. n \in Names
    BY <1>1 DEF CacheInv, CacheTypes
<1>. QED
    BY <1>1, <1>2, <1>3, RefreshKeeps, WorkerAside DEF ResolverInv, IpInv

LEMMA ExpireKeeps == ASSUME ResolverInv, NEW r \in Stored, Expire(r) PROVE ResolverInv'
<1>1. /\ CacheInv /\ IpInv /\ WorkerInv
      /\ UNCHANGED <<needWhen, todo, got, ip, pending, nqueries, nsn>>
      /\ cache' = [n \in Names |-> IF cache[n] = None THEN None ELSE [cache[n] EXCEPT !.result = Later(r, @)]]
    BY DEF ResolverInv, Expire, wvars
<1>2. r \in Results
    <2>1. PICK n \in Names : r = Get(n) /\ r # None
        BY DEF Stored
    <2>2. cache[n] \in Entries \cup {None}
        BY <1>1 DEF CacheInv, CacheTypes
    <2>. QED
        BY <2>1, <2>2 DEF Get, Entries
<1>3. [r EXCEPT !.expired = TRUE] \in Results
    BY <1>2 DEF Results
<1>4. ASSUME NEW n \in Names
      PROVE  /\ cache'[n] \in Entries \cup {None}
             /\ cache'[n] # None => cache[n] # None /\ cache'[n].prefm = cache[n].prefm
             /\ cache[n] # None /\ cache'[n].result = None => cache[n].result = None
    <2>1. CASE cache[n] = None
        BY <1>1, <2>1
    <2>2. CASE cache[n] # None
        <3>1. cache[n] \in Entries
            BY <1>1, <2>2 DEF CacheInv, CacheTypes
        <3>2. cache'[n] = [cache[n] EXCEPT !.result = Later(r, cache[n].result)]
            BY <1>1, <2>2
        <3>3. /\ Later(r, cache[n].result) \in Results \cup {None}
              /\ Later(r, cache[n].result) = None => cache[n].result = None
            <4>1. None \notin Results
                BY ResolverAssumption DEF Results, Families
            <4>2. cache[n].result \in Results \cup {None}
                BY <3>1 DEF Entries
            <4>. QED
                BY <1>3, <4>1, <4>2, Zenon DEF Later
        <3>. QED
            BY <2>2, <3>1, <3>2, <3>3 DEF Entries
    <2>. QED
        BY <2>1, <2>2
<1>5. CacheInv'
    <2>1. CacheTypes'
        BY <1>1, <1>4 DEF CacheInv, CacheTypes, Entries, Results, Families
    <2>2. AskedIsOnTheWay'
        BY <1>1, <1>4 DEF CacheInv, AskedIsOnTheWay, OnTheWay
    <2>. QED
        BY <2>1, <2>2 DEF CacheInv
<1>. QED
    BY <1>1, <1>5, WorkerAside DEF ResolverInv, IpInv

LEMMA FewFamilies == \A F \in Families : IsFiniteSet(F) /\ Cardinality(F) \in Nat
<1>1. IsFiniteSet({4}) /\ {4, 6} = {4} \cup {6}
    BY FS_Singleton
<1>2. IsFiniteSet({4, 6})
    BY <1>1, FS_AddElement
<1>. QED
    BY <1>2, FS_Subset, FS_CardinalityType DEF Families

(* A result is put into the cache; the entry then has one.                   *)
LEMMA AddCacheKeeps == ASSUME ResolverInv, addCache PROVE ResolverInv'
<1>1. /\ CacheInv /\ IpInv /\ WorkerInv /\ got # <<>>
      /\ UNCHANGED <<needWhen, todo, ip, pending, nqueries, nsn>>
    BY DEF ResolverInv, addCache, wvars
<1>. DEFINE g == Head(got)
<1>2. /\ Tail(got) \in Seq([name : Names, prefm : Families, res : Results])
      /\ g \in [name : Names, prefm : Families, res : Results]
      /\ \A k \in DOMAIN got : got[k] = g \/ (k - 1 \in DOMAIN Tail(got) /\ Tail(got)[k - 1] = got[k])
    BY <1>1, Leaves DEF CacheInv, CacheTypes
<1>3. cache[g.name] \in Entries \cup {None}
    BY <1>1, <1>2 DEF CacheInv, CacheTypes
<1>4. ASSUME NEW ce \in Entries, Store(ce) PROVE CacheInv'
    <2>. DEFINE k == Kept(ce.result)
                new == [prefm |-> ce.prefm \cup g.prefm, result |-> IF Size(k) <= Size(g.res) THEN g.res ELSE k]
    <2>1. cache' = [cache EXCEPT ![g.name] = new] /\ got' = Tail(got)
        BY <1>4 DEF Store
    <2>2. None \notin Results
        BY ResolverAssumption DEF Results, Families
    <2>3. k \in Results \cup {None}
        BY DEF Kept, Entries
    <2>4. Size(g.res) \in Nat
        <3>1. g.res.addrs \in SUBSET {4, 6}
            BY <1>2 DEF Results, Families
        <3>2. Cardinality(g.res.addrs) \in Nat
            BY <3>1, FewFamilies DEF Families
        <3>. QED
            BY <3>2 DEF Size
    <2>5. new.result \in Results
        <3>1. k = None => Size(k) <= Size(g.res)
            BY <2>4 DEF Size
        <3>. QED
            BY <1>2, <2>3, <3>1
    <2>6. new \in Entries
        BY <1>2, <2>5 DEF Entries, Families
    <2>7. CacheTypes'
        BY <1>1, <1>2, <2>1, <2>6 DEF CacheInv, CacheTypes, Entries, Results, Families
    <2>8. ASSUME NEW n \in Names, n # g.name, OnTheWay(n) PROVE OnTheWay(n)'
        <3>1. Found(n) => Found(n)'
            BY <1>2, <2>1, <2>8 DEF Found
        <3>. QED
            BY <1>1, <2>8, <3>1 DEF OnTheWay, Found
    <2>9. AskedIsOnTheWay'
        <3>1. ASSUME NEW n \in Names, cache'[n] # None, cache'[n].prefm # {}, cache'[n].result = None
              PROVE  OnTheWay(n)'
            <4>1. n # g.name
                BY <1>1, <2>1, <2>2, <2>5, <3>1 DEF CacheInv, CacheTypes
            <4>2. cache'[n] = cache[n]
                BY <1>1, <2>1, <4>1 DEF CacheInv, CacheTypes
            <4>. QED
                BY <1>1, <2>8, <3>1, <4>1, <4>2 DEF CacheInv, AskedIsOnTheWay
        <3>. QED
            BY <3>1 DEF AskedIsOnTheWay
    <2>. QED
        BY <2>7, <2>9 DEF CacheInv
<1>5. NewEntry \in Entries
    BY DEF NewEntry, Entries, Families
<1>6. CacheInv'
    <2>1. CASE Store(NewEntry)
        BY <1>4, <1>5, <2>1
    <2>2. CASE cache[g.name] # None /\ Store(cache[g.name])
        BY <1>3, <1>4, <2>2
    <2>3. CASE UNCHANGED <<cache, got>>
        BY <1>1, <2>3, CacheAside
    <2>. QED
        BY <2>1, <2>2, <2>3 DEF addCache
<1>. QED
    BY <1>1, <1>6, WorkerAside DEF ResolverInv, IpInv

-----------------------------------------------------------------------------
(* The worker has a query underway for a pending one, or gives it up.        *)
PendRecs == [name : Names, zname : Names, prefm : Families \ {{}}, tries : Int, underway : Nat,
             res : Results \cup {None}, sent : SUBSET SentQueries]

LEMMA PendQsAre ==
    \A pq : pq \in PendQs <=> /\ pq \in PendRecs
                              /\ pq.underway = 0 \/ \E q \in pq.sent : q.qid = pq.underway
    BY DEF PendQs, PendRecs

LEMMA MaxIs == ASSUME NEW F \in Families \ {{}} PROVE Max(F) \in F
<1>1. \E x \in F : \A y \in F : x >= y
    <2>1. CASE 6 \in F
        BY <2>1 DEF Families
    <2>2. CASE 6 \notin F
        BY <2>2 DEF Families
    <2>. QED
        BY <2>1, <2>2
<1>. QED
    BY <1>1 DEF Max

LEMMA SendFor ==
    ASSUME NEW pq \in PendRecs, NEW ids \in [pq.prefm -> Nat \ {0}], nsn \in Nat,
           NEW new, new = sendQueryZone(pq, ids)
    PROVE  /\ new \in PendQs /\ new.name = pq.name
           /\ new.sent = pq.sent \cup Queries(ids) /\ Queries(ids) # {}
<1>1. pq.prefm \in Families \ {{}} /\ Max(pq.prefm) \in pq.prefm
    BY MaxIs DEF PendRecs
<1>2. new = [pq EXCEPT !.tries = pq.tries - 1, !.sent = pq.sent \cup Queries(ids), !.underway = ids[Max(pq.prefm)]]
    BY <1>1 DEF sendQueryZone
<1>3. Queries(ids) = {[qid |-> ids[t], typ |-> t, ns |-> nsn] : t \in pq.prefm}
    BY DEF Queries
<1>4. Queries(ids) \subseteq SentQueries
    BY <1>1, <1>3 DEF SentQueries, Families
<1>5. [qid |-> ids[Max(pq.prefm)], typ |-> Max(pq.prefm), ns |-> nsn] \in Queries(ids)
    BY <1>1, <1>3
<1>6. ids[Max(pq.prefm)] \in Nat
    BY <1>1
<1>7. pq.tries - 1 \in Int /\ pq.sent \cup Queries(ids) \in SUBSET SentQueries
    BY <1>4 DEF PendRecs
<1>8. new \in PendRecs /\ new.name = pq.name /\ new.sent = pq.sent \cup Queries(ids) /\ new.underway = ids[Max(pq.prefm)]
    BY <1>2, <1>6, <1>7 DEF PendRecs
<1>9. \E q \in new.sent : q.qid = new.underway
    BY <1>5, <1>8
<1>. QED
    BY <1>5, <1>8, <1>9, PendQsAre

(* What done hands on goes by the name that was asked.                       *)
LEMMA DoneIs ==
    ASSUME NEW pq \in PendRecs, done(pq)
    PROVE  /\ got' \in Seq([name : Names, prefm : Families, res : Results])
           /\ 1 \in DOMAIN got' /\ got'[1].name = pq.name
<1>1. pq.name \in Names /\ pq.prefm \in Families /\ pq.res \in Results \cup {None}
    BY DEF PendRecs
<1>2. Final(pq) \in Results
    BY <1>1 DEF Final, Result, Results, Families
<1>. DEFINE names == <<pq.name>> \o (IF Final(pq).fqdn = pq.name THEN <<>> ELSE <<Final(pq).fqdn>>)
<1>3. got' = [k \in DOMAIN names |-> [name |-> names[k], prefm |-> pq.prefm, res |-> Final(pq)]]
    BY DEF done
<1>4. Final(pq).fqdn \in Names
    BY <1>2 DEF Results
<1>5. names \in Seq(Names) /\ 1 \in DOMAIN names /\ names[1] = pq.name
    <2>1. CASE Final(pq).fqdn = pq.name
        BY <1>1, <2>1
    <2>2. CASE Final(pq).fqdn # pq.name
        BY <1>1, <1>4, <2>2
    <2>. QED
        BY <2>1, <2>2
<1>. HIDE DEF names
<1>6. \A k \in DOMAIN names : names[k] \in Names
    BY <1>5
<1>7. DOMAIN names = 1..Len(names) /\ Len(names) \in Nat
    BY <1>5
<1>. QED
    BY <1>1, <1>2, <1>3, <1>5, <1>6, <1>7

(* While the worker has no result to add, a name is on the way in the queue  *)
(* or with a server.                                                         *)
LEMMA CacheWaits ==
    ASSUME CacheInv, Free, UNCHANGED <<cache, needWhen>>, CacheTypes',
           \A n \in Names : Queued(n) \/ LookedUp(n) => OnTheWay(n)'
    PROVE  CacheInv'
<1>1. \A n : ~Found(n)
    BY DEF Free, Found
<1>. QED
    BY <1>1, OnTheWayIs DEF CacheInv, AskedIsOnTheWay

(* A query ends, by an answer or a timeout.                                  *)
LEMMA SentWithout ==
    ASSUME WorkerInv, NEW pq \in pending, NEW q \in pq.sent
    PROVE  /\ q \in Sent /\ \A other \in pending : q \in other.sent => other = pq
           /\ Sent \ {q} = (UNION {other.sent : other \in pending \ {pq}}) \cup (pq.sent \ {q})
           /\ IsFiniteSet(Sent \ {q}) /\ Cardinality(Sent \ {q}) = nqueries - 1
<1>1. q \in Sent
    BY DEF Sent
<1>2. \A other \in pending : q \in other.sent => other = pq
    BY DEF WorkerInv, OneOwner
<1>3. Sent \ {q} = (UNION {other.sent : other \in pending \ {pq}}) \cup (pq.sent \ {q})
    BY <1>2 DEF Sent
<1>. QED
    BY <1>1, <1>2, <1>3, FS_RemoveElement DEF WorkerInv

LEMMA OneLess ==
    ASSUME WorkerInv, NEW pq \in pending, NEW q \in pq.sent,
           NEW new \in PendQs, new.sent = pq.sent \ {q},
           pending' = Pending(pq, new), nqueries' = nqueries - 1, nsn' = nsn
    PROVE  WorkerInv'
<1>1. \A x : x \in pending' <=> (x \in pending /\ x # pq) \/ (x = new /\ new.sent # {})
    BY DEF Pending
<1>2. Sent' = Sent \ {q}
    <2>1. Sent' = UNION {other.sent : other \in pending'}
        BY DEF Sent
    <2>2. UNION {other.sent : other \in pending'} = (UNION {other.sent : other \in pending \ {pq}}) \cup new.sent
        BY <1>1
    <2>. QED
        BY <2>1, <2>2, SentWithout
<1>3. IsFiniteSet(Sent') /\ nqueries' = Cardinality(Sent')
    BY <1>2, SentWithout
<1>4. OneOwner'
    <2>1. ASSUME NEW x \in pending', NEW y \in pending', NEW qx \in x.sent, NEW qy \in y.sent, qx.qid = qy.qid
          PROVE  x = y /\ qx = qy
        <3>1. \A z \in pending' : z = new \/ (z \in pending /\ z # pq)
            BY <1>1
        <3>. QED
            BY <2>1, <3>1 DEF WorkerInv, OneOwner
    <2>. QED
        BY <2>1 DEF OneOwner
<1>5. pending' \subseteq PendQs /\ nsn' \in Nat /\ \A z \in pending' : z.sent # {}
    BY <1>1 DEF WorkerInv
<1>. QED
    BY <1>3, <1>4, <1>5 DEF WorkerInv, PendQs, SentQueries, Results, Families

(* It was the last, and the result is handed on; or others are underway.     *)
LEMMA StillOnTheWay ==
    ASSUME CacheInv, Free, NEW pq \in pending, NEW new, new.name = pq.name,
           pending' = Pending(pq, new), UNCHANGED <<cache, needWhen, todo>>,
           \/ /\ got' \in Seq([name : Names, prefm : Families, res : Results])
              /\ 1 \in DOMAIN got' /\ got'[1].name = pq.name
           \/ got' = got /\ new.sent # {}
    PROVE  CacheInv'
<1>1. CacheTypes'
    BY DEF CacheInv, CacheTypes, Entries, Results, Families
<1>2. ASSUME NEW n \in Names, Queued(n) \/ LookedUp(n) PROVE OnTheWay(n)'
    <2>1. CASE Queued(n)
        BY <2>1 DEF Queued, OnTheWay
    <2>2. CASE \E other \in pending : other.name = n /\ other # pq
        BY <2>2 DEF OnTheWay, Pending
    <2>3. CASE pq.name = n /\ 1 \in DOMAIN got' /\ got'[1].name = pq.name
        BY <2>3 DEF OnTheWay
    <2>4. CASE pq.name = n /\ new.sent # {}
        BY <2>4 DEF OnTheWay, Pending
    <2>. QED
        BY <1>2, <2>1, <2>2, <2>3, <2>4 DEF LookedUp
<1>. QED
    BY <1>1, <1>2, CacheWaits

(* An answer, to the one that waits for it or to the last of two.            *)
LEMMA AnswerKeeps ==
    ASSUME ResolverInv, NEW pq \in pending, NEW q \in pq.sent, processResult(pq, q)
    PROVE  ResolverInv'
<1>. DEFINE new == Answered(pq, q)
            end == IF new.underway = 0 /\ new.res = None THEN [new EXCEPT !.res = Final(new)] ELSE new
<1>1. /\ CacheInv /\ IpInv /\ WorkerInv /\ Free
      /\ pending' = Pending(pq, end) /\ nqueries' = nqueries - 1 /\ nsn' = nsn
      /\ UNCHANGED <<cache, needWhen, todo, ip>>
      /\ IF new.underway = 0 THEN done(new) ELSE UNCHANGED got
    BY DEF ResolverInv, processResult
<1>2. pq \in PendRecs /\ (pq.underway = 0 \/ \E r \in pq.sent : r.qid = pq.underway)
    BY <1>1, PendQsAre DEF WorkerInv
<1>3. /\ new \in PendRecs /\ new.name = pq.name /\ new.sent = pq.sent \ {q}
      /\ new.underway = IF pq.underway = q.qid THEN 0 ELSE pq.underway
    <2>. DEFINE addrs == IF q.typ \in Has[pq.zname] THEN {q.typ} ELSE {}
                res == IF addrs = {} THEN pq.res ELSE IF pq.res = None THEN Result(pq.zname, addrs)
                       ELSE Result(pq.res.fqdn, pq.res.addrs \cup addrs)
    <2>1. new = [pq EXCEPT !.sent = pq.sent \ {q}, !.underway = IF pq.underway = q.qid THEN 0 ELSE pq.underway,
                           !.res = res]
        BY DEF Answered
    <2>2. addrs \in Families
        <3>1. q.typ \in {4, 6}
            BY <1>2 DEF PendRecs, SentQueries
        <3>. QED
            BY <3>1 DEF Families
    <2>3. res \in Results \cup {None}
        <3>1. pq.zname \in Names /\ pq.res \in Results \cup {None}
            BY <1>2 DEF PendRecs
        <3>2. addrs # {} => Result(pq.zname, addrs) \in Results
            BY <2>2, <3>1 DEF Result, Results
        <3>3. pq.res # None => Result(pq.res.fqdn, pq.res.addrs \cup addrs) \in Results
            BY <2>2, <3>1 DEF Result, Results, Families
        <3>. QED
            BY <3>1, <3>2, <3>3
    <2>. HIDE DEF res, new
    <2>4. (pq.sent \ {q}) \in SUBSET SentQueries /\ pq.underway \in Nat
        BY <1>2 DEF PendRecs
    <2>. QED
        BY <1>2, <2>1, <2>3, <2>4 DEF PendRecs
<1>4. new.underway = 0 \/ \E r \in new.sent : r.qid = new.underway
    BY <1>2, <1>3
<1>5. end \in PendQs /\ end.name = pq.name /\ end.sent = pq.sent \ {q}
    <2>1. CASE new.underway = 0 /\ new.res = None
        <3>1. Final(new) \in Results
            BY <1>3, <2>1 DEF PendRecs, Final, Result, Results, Families
        <3>. QED
            BY <1>3, <2>1, <3>1, PendQsAre DEF PendRecs
    <2>2. CASE ~ (new.underway = 0 /\ new.res = None)
        BY <1>3, <1>4, <2>2, PendQsAre
    <2>. QED
        BY <2>1, <2>2
<1>6. WorkerInv'
    BY <1>1, <1>5, OneLess
<1>7. CacheInv'
    <2>1. CASE new.underway = 0
        BY <1>1, <1>3, <1>5, <2>1, DoneIs, StillOnTheWay
    <2>2. CASE new.underway # 0
        BY <1>1, <1>3, <1>4, <1>5, <2>2, StillOnTheWay
    <2>. QED
        BY <2>1, <2>2
<1>. QED
    BY <1>1, <1>6, <1>7 DEF ResolverInv, IpInv

(* A query times out, and is sent again or was the last try.                 *)
LEMMA TimeoutKeeps ==
    ASSUME ResolverInv, NEW pq \in pending, NEW q \in pq.sent, Timeout(pq, q)
    PROVE  ResolverInv'
<1>. DEFINE left == [pq EXCEPT !.sent = pq.sent \ {q}]
            ids  == NewIds(Ids(Sent \ {q}), pq.prefm)
            more == sendQueryZone(left, ids)
            end  == [left EXCEPT !.underway = 0, !.res = Final(pq)]
<1>1. /\ CacheInv /\ IpInv /\ WorkerInv /\ Free /\ nsn \in Nat
      /\ UNCHANGED <<cache, needWhen, todo, ip, nsn>>
    BY DEF ResolverInv, Timeout, WorkerInv
<1>2. pq \in PendRecs
    BY <1>1, PendQsAre DEF WorkerInv
<1>3. left \in PendRecs /\ left.name = pq.name /\ left.sent = pq.sent \ {q} /\ left.prefm = pq.prefm
    BY <1>2 DEF PendRecs
<1>4. CASE pending' = Pending(pq, more) /\ nqueries' = nqueries - 1 + Cardinality(pq.prefm) /\ UNCHANGED got
    <2>. DEFINE S == Sent \ {q}
                typ == [t \in pq.prefm |-> t]
    <2>1. pq.prefm \in Families
        BY <1>2 DEF PendRecs
    <2>2. IsFiniteSet(pq.prefm) /\ Cardinality(pq.prefm) \in Nat
        BY <2>1, FewFamilies
    <2>3. /\ IsFiniteSet(S) /\ Cardinality(S) = nqueries - 1
          /\ S = (UNION {other.sent : other \in pending \ {pq}}) \cup (pq.sent \ {q})
        BY <1>1, SentWithout
    <2>4. /\ ids \in [pq.prefm -> Nat \ {0}]
          /\ \A d, e \in pq.prefm : ids[d] = ids[e] => d = e
          /\ \A p \in S, d \in pq.prefm : p.qid # ids[d]
          /\ IsFiniteSet(S \cup NewSent(ids, typ))
          /\ Cardinality(S \cup NewSent(ids, typ)) = Cardinality(S) + Cardinality(pq.prefm)
        <3>. HIDE DEF S, typ, ids
        <3>1. ids = NewIds(Ids(S), pq.prefm)
            BY DEF ids, S
        <3>2. IsFiniteSet(S) /\ IsFiniteSet(pq.prefm)
            BY <2>2, <2>3 DEF S
        <3>3. Fresh(ids, S, pq.prefm) /\ Counted(S, NewSent(ids, typ), Cardinality(pq.prefm))
            BY <3>1, <3>2, NewSentAre
        <3>. QED
            BY <3>3 DEF Fresh, Counted
    <2>. HIDE DEF ids
    <2>5. NewSent(ids, typ) = Queries(ids) /\ Queries(ids) = {[qid |-> ids[t], typ |-> t, ns |-> nsn] : t \in pq.prefm}
        BY <2>4 DEF NewSent, Queries
    <2>6. /\ more \in PendQs /\ more.name = pq.name
          /\ more.sent = (pq.sent \ {q}) \cup Queries(ids) /\ more.sent # {}
        <3>. HIDE DEF left
        <3>1. ids \in [left.prefm -> Nat \ {0}]
            BY <1>3, <2>4
        <3>. QED
            BY <1>1, <1>3, <3>1, SendFor
    <2>. HIDE DEF more
    <2>7. pending' = (pending \ {pq}) \cup {more}
        BY <1>4, <2>6 DEF Pending
    <2>8. Sent' = S \cup Queries(ids)
        <3>1. Sent' = UNION {other.sent : other \in pending'}
            BY DEF Sent
        <3>2. UNION {other.sent : other \in pending'} = (UNION {other.sent : other \in pending \ {pq}}) \cup more.sent
            BY <2>7
        <3>. QED
            BY <2>3, <2>6, <3>1, <3>2
    <2>9. OneOwner'
        <3>1. ASSUME NEW x \in pending', NEW y \in pending', NEW qx \in x.sent, NEW qy \in y.sent, qx.qid = qy.qid
              PROVE  x = y /\ qx = qy
            <4>1. \A z \in pending' : z = more \/ (z \in pending /\ z # pq /\ z.sent \subseteq S)
                BY <2>3, <2>7
            <4>2. \A r \in more.sent : (r \in pq.sent /\ r \in S) \/ r \in Queries(ids)
                BY <2>3, <2>6
            <4>3. \A r \in S, s \in Queries(ids) : r.qid # s.qid
                BY <2>4, <2>5
            <4>4. \A r, s \in Queries(ids) : r.qid = s.qid => r = s
                BY <2>4, <2>5
            <4>5. \A z \in pending : \A r \in z.sent, s \in pq.sent : r.qid = s.qid => z = pq /\ r = s
                BY <1>1 DEF WorkerInv, OneOwner
            <4>6. CASE x # more /\ y # more
                BY <1>1, <3>1, <4>1, <4>6 DEF WorkerInv, OneOwner
            <4>7. CASE x = more /\ y = more
                BY <3>1, <4>2, <4>3, <4>4, <4>5, <4>7
            <4>8. CASE (x = more /\ y # more) \/ (x # more /\ y = more)
                BY <3>1, <4>1, <4>2, <4>3, <4>5, <4>8
            <4>. QED
                BY <4>6, <4>7, <4>8
        <3>. QED
            BY <3>1 DEF OneOwner
    <2>10. nqueries' = Cardinality(Sent') /\ IsFiniteSet(Sent')
        <3>1. Cardinality(S) + Cardinality(pq.prefm) = nqueries - 1 + Cardinality(pq.prefm)
            BY <2>3
        <3>. QED
            BY <1>4, <2>4, <2>5, <2>8, <3>1
    <2>11. /\ pending' \subseteq PendQs /\ nsn' \in Nat
           /\ \A z \in pending' : z.sent # {}
        BY <1>1, <2>6, <2>7 DEF WorkerInv
    <2>12. WorkerInv'
        BY <2>9, <2>10, <2>11 DEF WorkerInv, PendQs, SentQueries, Results, Families
    <2>13. CacheInv'
        BY <1>1, <1>4, <2>6, StillOnTheWay
    <2>. QED
        BY <1>1, <2>12, <2>13 DEF ResolverInv, IpInv
<1>5. CASE pending' = Pending(pq, end) /\ nqueries' = nqueries - 1 /\ done(end)
    <2>1. Final(pq) \in Results
        BY <1>2 DEF PendRecs, Final, Result, Results, Families
    <2>2. end \in PendRecs /\ end.name = pq.name /\ end.sent = pq.sent \ {q} /\ end.underway = 0
        BY <1>3, <2>1 DEF PendRecs
    <2>3. end \in PendQs
        BY <2>2, PendQsAre
    <2>. HIDE DEF end
    <2>4. WorkerInv'
        BY <1>1, <1>5, <2>2, <2>3, OneLess
    <2>5. CacheInv'
        BY <1>1, <1>5, <2>2, DoneIs, StillOnTheWay
    <2>. QED
        BY <1>1, <2>4, <2>5 DEF ResolverInv, IpInv
<1>. QED
    BY <1>4, <1>5 DEF Timeout

(* The worker takes a query and asks in every zone.                          *)
LEMMA TakeKeeps == ASSUME ResolverInv, TakeQuery PROVE ResolverInv'
<1>. DEFINE name  == Head(todo).name
            prefm == Head(todo).prefm
            zones == Zones[name]
<1>1. /\ CacheInv /\ IpInv /\ WorkerInv /\ Free /\ todo # <<>>
      /\ makeQueries(name, prefm)
      /\ nqueries' = nqueries + Len(zones) * Cardinality(prefm)
      /\ todo' = Tail(todo)
      /\ UNCHANGED <<cache, needWhen, got, ip, nsn>>
    BY DEF ResolverInv, TakeQuery
<1>2. /\ todo' \in Seq([name : Names, prefm : Families])
      /\ name \in Names /\ prefm \in Families
      /\ \A k \in DOMAIN todo : todo[k] = Head(todo) \/ (k - 1 \in DOMAIN todo' /\ todo'[k - 1] = todo[k])
    <2>1. todo \in Seq([name : Names, prefm : Families])
        BY <1>1 DEF CacheInv, CacheTypes
    <2>2. Head(todo) \in [name : Names, prefm : Families]
        BY <1>1, <2>1, Leaves
    <2>. QED
        BY <1>1, <2>1, <2>2, Leaves
<1>3. CacheTypes'
    BY <1>1, <1>2 DEF CacheInv, CacheTypes, Entries, Results, Families
<1>4. zones \in Seq(Names) /\ zones # <<>>
    BY <1>2, ResolverAssumption
<1>5. Len(zones) \in Nat /\ DOMAIN zones = 1..Len(zones) /\ 1 \in DOMAIN zones
    BY <1>4
<1>6. \A n \in Names : Queued(n) => Queued(n)' \/ (n = name /\ prefm # {})
    BY <1>2 DEF Queued
<1>7. CASE prefm = {}
    <2>1. UNCHANGED <<pending, nqueries>>
        <3>1. Cardinality(prefm) = 0
            BY <1>7, FS_EmptySet
        <3>2. Len(zones) * Cardinality(prefm) = 0
            BY <1>5, <3>1
        <3>3. nqueries \in Nat
            BY <1>1, FS_CardinalityType DEF WorkerInv
        <3>. QED
            BY <1>1, <1>7, <3>2, <3>3 DEF makeQueries
    <2>2. \A n \in Names : Queued(n) \/ LookedUp(n) => OnTheWay(n)'
        BY <1>6, <1>7, <2>1 DEF Queued, LookedUp, OnTheWay
    <2>3. CacheInv'
        BY <1>1, <1>3, <2>2, CacheWaits
    <2>. QED
        BY <1>1, <2>1, <2>3, WorkerAside DEF ResolverInv, IpInv
<1>8. CASE prefm # {}
    <2>. DEFINE D    == (DOMAIN zones) \X prefm
                ids  == NewIds(Ids(Sent), D)
                typ  == [d \in D |-> d[2]]
                one(k) == [t \in prefm |-> ids[<<k, t>>]]
                new(k) == sendQueryZone(NewQuery(name, zones[k], prefm), one(k))
                sent(k) == {[qid |-> ids[<<k, t>>], typ |-> t, ns |-> nsn] : t \in prefm}
    <2>1. pending' = pending \cup {new(k) : k \in DOMAIN zones}
        BY <1>1, <1>8 DEF makeQueries
    <2>2. IsFiniteSet(D) /\ Cardinality(D) = Len(zones) * Cardinality(prefm)
        <3>1. 1 \in Int /\ Len(zones) \in Int /\ 1 <= Len(zones)
            BY <1>5
        <3>2. IsFiniteSet(1..Len(zones)) /\ Cardinality(1..Len(zones)) = Len(zones)
            BY <3>1, FS_Interval
        <3>3. IsFiniteSet(prefm)
            BY <1>2, FewFamilies
        <3>. HIDE DEF prefm, zones
        <3>. QED
            BY <1>5, <3>2, <3>3, FS_Product
    <2>3. Fresh(ids, Sent, D) /\ Counted(Sent, NewSent(ids, typ), Cardinality(D))
        <3>1. IsFiniteSet(Sent)
            BY <1>1 DEF WorkerInv
        <3>. HIDE DEF D, typ
        <3>. QED
            BY <2>2, <3>1, NewSentAre
    <2>. HIDE DEF ids
    <2>4. /\ ids \in [D -> Nat \ {0}]
          /\ \A k, l \in DOMAIN zones : \A t, u \in prefm : ids[<<k, t>>] = ids[<<l, u>>] => k = l /\ t = u
          /\ \A q \in Sent : \A k \in DOMAIN zones : \A t \in prefm : q.qid # ids[<<k, t>>]
        <3>1. \A k \in DOMAIN zones : \A t \in prefm : <<k, t>> \in D
            OBVIOUS
        <3>. HIDE DEF D, zones, prefm
        <3>. QED
            BY <2>3, <3>1 DEF Fresh
    <2>5. ASSUME NEW k \in DOMAIN zones
          PROVE  new(k) \in PendQs /\ new(k).name = name /\ new(k).sent = sent(k) /\ sent(k) # {}
        <3>1. NewQuery(name, zones[k], prefm) \in PendRecs
            <4>1. name \in Names /\ prefm \in Families \ {{}}
                BY <1>2, <1>4, <1>8 DEF Families
            <4>2. TRIES \in Int
                BY ResolverAssumption
            <4>. HIDE DEF prefm, zones
            <4>3. zones[k] \in Names
                BY <1>4
            <4>. QED
                BY <4>1, <4>2, <4>3 DEF NewQuery, PendRecs
        <3>2. one(k) \in [prefm -> Nat \ {0}]
            BY <2>4
        <3>3. /\ NewQuery(name, zones[k], prefm).prefm = prefm
              /\ NewQuery(name, zones[k], prefm).name = name
              /\ NewQuery(name, zones[k], prefm).sent = {}
            BY DEF NewQuery
        <3>4. nsn \in Nat
            BY <1>1 DEF WorkerInv
        <3>5. Queries(one(k)) = sent(k)
            BY <3>2 DEF Queries
        <3>. DEFINE pq == NewQuery(name, zones[k], prefm)
                    ks == one(k)
        <3>. HIDE DEF one, sent, pq, ks
        <3>6. pq \in PendRecs /\ ks \in [pq.prefm -> Nat \ {0}] /\ new(k) = sendQueryZone(pq, ks)
            BY <3>1, <3>2, <3>3 DEF pq, ks
        <3>7. /\ new(k) \in PendQs /\ new(k).name = pq.name
              /\ new(k).sent = pq.sent \cup Queries(ks) /\ Queries(ks) # {}
            BY <3>4, <3>6, SendFor
        <3>8. /\ new(k) \in PendQs /\ new(k).name = name
              /\ new(k).sent = {} \cup Queries(one(k)) /\ Queries(one(k)) # {}
            BY <3>3, <3>7 DEF pq, ks
        <3>. QED
            BY <3>5, <3>8
    <2>. HIDE DEF new
    <2>6. ASSUME NEW k \in DOMAIN zones, NEW x
           PROVE  x \in new(k).sent <=> \E t \in prefm : x = [qid |-> ids[<<k, t>>], typ |-> t, ns |-> nsn]
        <3>1. x \in sent(k) <=> \E t \in prefm : x = [qid |-> ids[<<k, t>>], typ |-> t, ns |-> nsn]
            OBVIOUS
        <3>. HIDE DEF sent
        <3>2. new(k).sent = sent(k)
            BY <2>5
        <3>. QED
            BY <3>1, <3>2, Zenon
    <2>7. Sent' = Sent \cup NewSent(ids, typ)
        <3>1. ASSUME NEW x
              PROVE  x \in Sent' <=> x \in Sent \/ \E k \in DOMAIN zones : x \in new(k).sent
            BY <2>1 DEF Sent
        <3>2. ASSUME NEW x
              PROVE  x \in NewSent(ids, typ) <=> \E d \in D : x = [qid |-> ids[d], typ |-> d[2], ns |-> nsn]
            BY <2>4 DEF NewSent
        <3>3. ASSUME NEW x
              PROVE  (\E k \in DOMAIN zones : x \in new(k).sent)
                        <=> \E d \in D : x = [qid |-> ids[d], typ |-> d[2], ns |-> nsn]
            <4>1. ASSUME NEW k \in DOMAIN zones, x \in new(k).sent
                  PROVE  \E d \in D : x = [qid |-> ids[d], typ |-> d[2], ns |-> nsn]
                <5>1. PICK t \in prefm : x = [qid |-> ids[<<k, t>>], typ |-> t, ns |-> nsn]
                    BY <2>6, <4>1
                <5>2. <<k, t>> \in D /\ <<k, t>>[2] = t
                    OBVIOUS
                <5>. QED
                    BY <5>1, <5>2
            <4>2. ASSUME NEW d \in D, x = [qid |-> ids[d], typ |-> d[2], ns |-> nsn]
                  PROVE  \E k \in DOMAIN zones : x \in new(k).sent
                <5>1. d = <<d[1], d[2]>> /\ d[1] \in DOMAIN zones /\ d[2] \in prefm
                    OBVIOUS
                <5>2. x = [qid |-> ids[<<d[1], d[2]>>], typ |-> d[2], ns |-> nsn]
                    BY <4>2, <5>1
                <5>. QED
                    BY <2>6, <5>1, <5>2
            <4>. QED
                BY <4>1, <4>2
        <3>. QED
            BY <3>1, <3>2, <3>3
    <2>8. IsFiniteSet(Sent') /\ nqueries' = Cardinality(Sent')
        BY <1>1, <2>2, <2>3, <2>7 DEF Counted, WorkerInv
    <2>9. OneOwner'
        <3>1. ASSUME NEW x \in pending', NEW y \in pending', NEW qx \in x.sent, NEW qy \in y.sent, qx.qid = qy.qid
              PROVE  x = y /\ qx = qy
            <4>1. CASE x \in pending /\ y \in pending
                BY <1>1, <3>1, <4>1 DEF WorkerInv, OneOwner
            <4>2. ASSUME NEW z \in pending, NEW r \in z.sent, NEW k \in DOMAIN zones, NEW s \in new(k).sent
                  PROVE  r.qid # s.qid
                <5>1. r \in Sent
                    BY DEF Sent
                <5>2. PICK t \in prefm : s = [qid |-> ids[<<k, t>>], typ |-> t, ns |-> nsn]
                    BY <2>6
                <5>. QED
                    BY <2>4, <5>1, <5>2
            <4>3. ASSUME NEW k \in DOMAIN zones, NEW l \in DOMAIN zones, NEW r \in new(k).sent, NEW s \in new(l).sent,
                         r.qid = s.qid
                  PROVE  new(k) = new(l) /\ r = s
                <5>1. PICK t \in prefm : r = [qid |-> ids[<<k, t>>], typ |-> t, ns |-> nsn]
                    BY <2>6
                <5>2. PICK u \in prefm : s = [qid |-> ids[<<l, u>>], typ |-> u, ns |-> nsn]
                    BY <2>6
                <5>3. k = l /\ t = u
                    BY <2>4, <4>3, <5>1, <5>2
                <5>. QED
                    BY <5>1, <5>2, <5>3
            <4>4. \A z \in pending' : z \in pending \/ \E k \in DOMAIN zones : z = new(k)
                BY <2>1
            <4>. QED
                BY <3>1, <4>1, <4>2, <4>3, <4>4
        <3>. QED
            BY <3>1 DEF OneOwner
    <2>10. pending' \subseteq PendQs /\ nsn' \in Nat /\ \A z \in pending' : z.sent # {}
        BY <1>1, <2>1, <2>5 DEF WorkerInv
    <2>11. WorkerInv'
        BY <2>8, <2>9, <2>10 DEF WorkerInv, PendQs, SentQueries, Results, Families
    <2>12. ASSUME NEW n \in Names, Queued(n) \/ LookedUp(n) PROVE OnTheWay(n)'
        <3>1. new(1) \in pending' /\ new(1).name = name
            BY <1>5, <2>1, <2>5
        <3>2. CASE LookedUp(n)
            BY <2>1, <3>2 DEF LookedUp, OnTheWay
        <3>3. CASE Queued(n)'
            BY <3>3 DEF Queued, OnTheWay
        <3>4. CASE n = name
            BY <3>1, <3>4 DEF OnTheWay
        <3>. QED
            BY <1>6, <2>12, <3>2, <3>3, <3>4
    <2>13. CacheInv'
        BY <1>1, <1>3, <2>12, CacheWaits
    <2>. QED
        BY <1>1, <2>11, <2>13 DEF ResolverInv, IpInv
<1>. QED
    BY <1>7, <1>8

-----------------------------------------------------------------------------
(* Every step.                                                               *)
LEMMA ResolverNext == ASSUME ResolverInv, [Next]_vars PROVE ResolverInv'
<1>1. ASSUME UNCHANGED <<cache, needWhen, todo, got, ip, pending, nqueries>>, nsn' \in Nat PROVE ResolverInv'
    <2>1. CacheInv'
        BY <1>1, CacheAside DEF ResolverInv
    <2>2. WorkerInv'
        BY <1>1 DEF ResolverInv, WorkerInv, OneOwner, Sent
    <2>. QED
        BY <1>1, <2>1, <2>2 DEF ResolverInv, IpInv
<1>2. nsn \in Nat
    BY DEF ResolverInv, WorkerInv
<1>3. CASE EndTimeouts
    <2>1. NextServer \in Nat
        BY <1>2, ResolverAssumption DEF NextServer
    <2>. QED
        BY <1>1, <1>2, <1>3, <2>1 DEF EndTimeouts
<1>4. ASSUME NEW n \in Names, TimedOut(n) PROVE ResolverInv'
    BY <1>1, <1>2, <1>4 DEF TimedOut, BeginTimeouts
<1>5. CASE Silence
    BY <1>1, <1>2, <1>5 DEF Silence
<1>6. CASE UNCHANGED vars
    BY <1>1, <1>2, <1>6 DEF vars, wvars
<1>7. CASE WorkerStep
    BY <1>3, <1>7, AddCacheKeeps, TakeKeeps, TimeoutKeeps DEF WorkerStep
<1>8. ASSUME NEW typ \in {4, 6}, Receive(typ) PROVE ResolverInv'
    BY <1>8, AnswerKeeps DEF Receive
<1>. QED
    BY <1>4, <1>5, <1>6, <1>7, <1>8, IpsKeep, MaintKeeps, ExpireKeeps DEF Next

LEMMA ResolverHolds == Spec => []ResolverInv
<1>1. Init => ResolverInv
    BY ResolverStart
<1>2. ResolverInv /\ [Next]_vars => ResolverInv'
    BY ResolverNext
<1>. QED
    BY <1>1, <1>2, PTL DEF Spec

(* An entry that has asked for addresses and has no result is being looked   *)
(* up: in the queue, with a server, or with the worker that adds the result  *)
(* (request, makeQueries, processResult, timeouts, addCache), whatever other *)
(* goroutine has replaced the entry, and however full the queue is.          *)
THEOREM NamesAreLookedUp == Spec => []AskedIsOnTheWay
<1>1. ResolverInv => AskedIsOnTheWay
    BY DEF ResolverInv, CacheInv
<1>. QED
    BY <1>1, ResolverHolds, PTL

(* The worker counts the queries that are underway, and gives no id to two   *)
(* (sendQuery, processResult, timeouts, nextqid).                            *)
THEOREM QueriesAreCounted == Spec => []CountsWhatIsPending
<1>1. ResolverInv => CountsWhatIsPending
    BY DEF ResolverInv, WorkerInv, OneOwner, Sent, CountsWhatIsPending
<1>. QED
    BY <1>1, ResolverHolds, PTL
=============================================================================
