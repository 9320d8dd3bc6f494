------------------------------ MODULE Resolver ------------------------------
(* The resolver (resolv/): the cache of names, the queue of queries, one     *)
(* worker that sends them and takes the answers, the janitor that refreshes  *)
(* names ahead of their use, and the monitors (IPs) that ask for addresses.  *)
(*                                                                           *)
(* A lost answer is one that is never taken; an answer that comes twice or   *)
(* too late finds no pending query and changes nothing.  Names that end in a *)
(* dot are their own zone.  The cache holds copies of results; in the code a *)
(* late answer also changes a result that is in the cache already, one step  *)
(* before it is put there again.                                             *)
(*                                                                           *)
(* A goroutine that looks an entry up uses it in the same step.  Another may *)
(* replace the entry in between, as newCacheE does; what the first does then *)
(* with the lost entry is what it would have done just before.               *)
(*                                                                           *)
(* Left out: underway of a cache entry and updated, which nothing reads; the *)
(* delay between queries (xdelay); the numbers of idle workers and drops.    *)
EXTENDS Integers, FiniteSets, Sequences, FiniteSetsExt, SequencesExt

CONSTANTS
    Ips,        \* monitors with an address to find
    NameOf,     \* [Ips -> Names]
    Pref,       \* [Ips -> SUBSET {4, 6}]: ipvpref
    Names,      \* the names that are asked for and their zones
    Zones,      \* [Names -> Seq(Names)]: a name with each search domain
    Has,        \* [Names -> SUBSET {4, 6}]: what the servers know of a zone
    Servers,    \* number of name servers
    Alive,      \* those that answer
    QueueMax,   \* BOUND: capacity of todo (1000)
    MaxQueries, \* BOUND: most queries underway (256)
    TRIES,      \* 3
    None

ASSUME ResolverAssumption ==
    /\ NameOf \in [Ips -> Names]
    /\ Pref \in [Ips -> (SUBSET {4, 6}) \ {{}}]
    /\ Zones \in [Names -> Seq(Names) \ {<<>>}]
    /\ Has \in [Names -> SUBSET {4, 6}]
    /\ Servers \in Nat \ {0} /\ Alive \subseteq 0..(Servers - 1)
    /\ None \notin [fqdn : Names, addrs : SUBSET {4, 6}, expired : BOOLEAN]
    /\ QueueMax \in Nat \ {0} /\ MaxQueries \in Nat \ {0} /\ TRIES \in Nat \ {0}

VARIABLES
    cache,      \* cacheEntry: prefm, result
    needWhen,   \* the names to refresh (when it is time, the janitor finds out)
    todo,       \* the queue of queries
    pending,    \* pendQ: name, zname, prefm, tries, underway, res, and sent: qid, typ, ns
    nqueries,   \* how many the worker believes are underway
    nsn,        \* the name server in use
    quiet,      \* nothing was received for SERVERDEAD
    got,        \* results that done has still to put into the cache
    visit,      \* qids that timeouts has still to look at
    nto,        \* timeouts has found one
    at,         \* where each monitor is: "config", "create" (newCacheE), "idle"
    creating,   \* the worker has found no entry for the first of got
    ip          \* IP: fqdn, and the addresses of cache, the result it holds

wvars == <<pending, nqueries, nsn, quiet, visit, nto>>
vars  == <<cache, needWhen, todo, got, creating, at, ip, wvars>>

(* A cacheResult: fqdn, addrs, and whether it has expired.                   *)
Result(n, a) == [fqdn |-> n, addrs |-> a, expired |-> FALSE]
NewEntry == [prefm |-> {}, result |-> None]

Init ==
    /\ cache = [n \in Names |-> None]
    /\ needWhen = {} /\ todo = <<>> /\ pending = {} /\ nqueries = 0
    /\ nsn = 0 /\ quiet = FALSE /\ got = <<>> /\ creating = FALSE /\ visit = {} /\ nto = FALSE
    /\ at = [i \in Ips |-> "config"]
    /\ ip = [i \in Ips |-> [fqdn |-> None, cache |-> None]]

-----------------------------------------------------------------------------
(* A query is queued or it is dropped; if it is, the entry forgets what it   *)
(* has asked for.                                                            *)
query(n, prefm) ==
    todo' = IF Len(todo) < QueueMax THEN Append(todo, [name |-> n, prefm |-> prefm]) ELSE todo

BugRemembered(prefm) == prefm    \* though its query was dropped
Remembered(prefm) == IF Len(todo) < QueueMax THEN prefm ELSE {}

request(n, entry, want) ==
    LET m == entry.prefm \cup want IN
    /\ needWhen' = needWhen \ {n}
    /\ query(n, m)
    /\ cache' = [cache EXCEPT ![n] = [entry EXCEPT !.prefm = Remembered(m)]]

(* refresh repeats the last question, whatever that was.                     *)
refresh(n) ==
    IF cache[n] = None THEN UNCHANGED <<cache, needWhen, todo>> ELSE request(n, cache[n], {})

(* A monitor asks for an address, first when it is configured.               *)
Request(i) ==
    LET n == NameOf[i] IN
    \/ /\ cache[n] = None
       /\ at' = [at EXCEPT ![i] = "create"]
       /\ UNCHANGED <<cache, needWhen, todo>>
    \/ /\ cache[n] # None
       /\ at' = [at EXCEPT ![i] = "idle"]
       /\ IF Pref[i] \subseteq cache[n].prefm THEN UNCHANGED <<cache, needWhen, todo>>
          ELSE request(n, cache[n], Pref[i])

Config(i) ==
    /\ at[i] = "config"
    /\ Request(i)
    /\ UNCHANGED <<got, creating, ip, wvars>>

(* newCacheE puts a new entry there, whatever is there by now.               *)
RequestNew(i) ==
    /\ at[i] = "create"
    /\ at' = [at EXCEPT ![i] = "idle"]
    /\ request(NameOf[i], NewEntry, Pref[i])
    /\ UNCHANGED <<got, creating, ip, wvars>>

Get(n) == IF cache[n] = None THEN None ELSE cache[n].result

useName(i) == IF ip[i].fqdn # None THEN ip[i].fqdn ELSE NameOf[i]

(* The result an IP holds counts when the cache has none; it may be of any   *)
(* age then.                                                                 *)
Use(i, name, addrs, expired) ==
    /\ ip' = [ip EXCEPT ![i] = [cache |-> addrs, fqdn |-> IF @.fqdn = None THEN name ELSE @.fqdn]]
    /\ IF expired THEN refresh(name) ELSE UNCHANGED <<cache, needWhen, todo>>

Addr(i) ==
    LET e == Get(useName(i)) IN
    /\ at[i] = "idle"
    /\ UNCHANGED <<got, creating, wvars>>
    /\ \/ e = None /\ ip[i].cache = None /\ Request(i) /\ UNCHANGED ip
       \/ e # None /\ Use(i, e.fqdn, e.addrs, e.expired) /\ UNCHANGED at
       \/ /\ e = None /\ ip[i].cache # None /\ UNCHANGED at
          /\ \E expired \in BOOLEAN : Use(i, ip[i].fqdn, ip[i].cache, expired)

(* Done with its test, a monitor puts an address that will have expired when *)
(* it runs again on the janitor's list; which do is left open.               *)
WillNeedIn(i) ==
    /\ at[i] = "idle"
    /\ ip[i].cache # None /\ ip[i].cache \cap Pref[i] # {}
    /\ needWhen' = needWhen \cup {ip[i].fqdn}
    /\ UNCHANGED <<cache, todo, got, creating, at, ip, wvars>>

cacheMaint ==
    /\ \E n \in needWhen : refresh(n)
    /\ UNCHANGED <<got, creating, at, ip, wvars>>

-----------------------------------------------------------------------------
(* The worker.  It owns its socket and its pending queries; what it shares   *)
(* with the others is the cache.                                             *)
Free == got = <<>>
InTick == visit # {} \/ nto

(* sendQueryZone notes either query in underway4, so that the second         *)
(* replaces the first; underway6 is never set.                               *)
Sent == UNION {pq.sent : pq \in pending}

Ids(queries) == {q.qid : q \in queries}

(* nextqid: ids that no query underway has, a new one for every query.       *)
BugNewIds(used, D) == [d \in D |-> Min((1..(Cardinality(used) + 1)) \ used)]    \* one for all
NewIds(used, D) ==
    CHOOSE ids \in Injection(D, (1..(Cardinality(used) + Cardinality(D))) \ used) : TRUE

Queries(ids) == {[qid |-> ids[t], typ |-> t, ns |-> nsn] : t \in DOMAIN ids}

sendQueryZone(pq, ids) ==
    [pq EXCEPT !.tries = @ - 1,
               !.sent = @ \cup Queries(ids),
               !.underway = IF pq.prefm = {} THEN @ ELSE ids[Max(pq.prefm)]]

(* makeQueries: one query for every zone.                                    *)
NewQuery(name, zone, prefm) ==
    [name |-> name, zname |-> zone, prefm |-> prefm, tries |-> TRIES, underway |-> 0, res |-> None, sent |-> {}]

makeQueries(name, prefm) ==
    LET zones == Zones[name]
        ids   == NewIds(Ids(Sent), (DOMAIN zones) \X prefm)
    IN  pending' = IF prefm = {} THEN pending
                   ELSE pending \cup {sendQueryZone(NewQuery(name, zones[k], prefm), [t \in prefm |-> ids[<<k, t>>]])
                                      : k \in DOMAIN zones}

TakeQuery ==
    /\ Free /\ ~ InTick /\ todo # <<>> /\ nqueries < MaxQueries
    /\ makeQueries(Head(todo).name, Head(todo).prefm)
    /\ nqueries' = nqueries + Len(Zones[Head(todo).name]) * Cardinality(Head(todo).prefm)
    /\ todo' = Tail(todo)
    /\ UNCHANGED <<cache, needWhen, got, creating, at, ip, nsn, quiet, visit, nto>>

(* A pendQ that has no query underway is no longer in the map.               *)
Pending(old, new) == (pending \ {old}) \cup (IF new.sent = {} THEN {} ELSE {new})

(* done: an error is a result without addresses.  Result adds it to the      *)
(* cache under the name that was asked and under its zone.                   *)
Final(pq) == IF pq.res = None THEN Result(pq.name, {}) ELSE pq.res

done(pq) ==
    LET names == <<pq.name>> \o (IF Final(pq).fqdn = pq.name THEN <<>> ELSE <<Final(pq).fqdn>>) IN
    got' = [k \in DOMAIN names |-> [name |-> names[k], prefm |-> pq.prefm, res |-> Final(pq)]]

(* processResult: the answer to one query.                                   *)
Answered(pq, q) ==
    LET addrs == IF q.typ \in Has[pq.zname] THEN {q.typ} ELSE {} IN
    [pq EXCEPT !.sent = @ \ {q},
               !.underway = IF @ = q.qid THEN 0 ELSE @,
               !.res = IF addrs = {} THEN @ ELSE IF @ = None THEN Result(pq.zname, addrs)
                       ELSE Result(@.fqdn, @.addrs \cup addrs)]

processResult(pq, q) ==
    LET new == Answered(pq, q) IN
    /\ Free /\ ~ InTick /\ q.ns \in Alive
    /\ pending' = Pending(pq, IF new.underway = 0 /\ new.res = None THEN [new EXCEPT !.res = Final(new)] ELSE new)
    /\ nqueries' = nqueries - 1
    /\ quiet' = FALSE
    /\ UNCHANGED <<cache, needWhen, todo, creating, at, ip, nsn, visit, nto>>
    /\ IF new.underway = 0 THEN done(new) ELSE UNCHANGED got

(* timeouts walks over a map that grows under the walk: it may or may not    *)
(* come to the queries it sends again, which keep the time of the first.     *)
(* Old are the pendQs that are older than QUERYTIMEOUT.                      *)
BeginTimeouts(Old) ==
    /\ Free /\ ~ InTick /\ Old # {}
    /\ visit' = Ids(UNION {pq.sent : pq \in Old})
    /\ UNCHANGED <<cache, needWhen, todo, got, creating, at, ip, pending, nqueries, nsn, quiet, nto>>

Timeout(pq, q) ==
    LET left == [pq EXCEPT !.sent = @ \ {q}]
        more == sendQueryZone(left, NewIds(Ids(Sent \ {q}), pq.prefm))
        end  == [left EXCEPT !.underway = 0, !.res = Final(pq)]
    IN  /\ Free /\ q.qid \in visit
        /\ nto' = TRUE
        /\ UNCHANGED <<cache, needWhen, todo, creating, at, ip, nsn, quiet>>
        /\ \/ /\ pq.tries > 0
              /\ pending' = Pending(pq, more)
              /\ nqueries' = nqueries - 1 + Cardinality(pq.prefm)
              /\ \E seen \in SUBSET (more.sent \ left.sent) :
                    visit' = (visit \ {q.qid}) \cup Ids(seen)
              /\ UNCHANGED got
           \/ /\ pq.tries <= 0
              /\ pending' = Pending(pq, end)
              /\ nqueries' = nqueries - 1
              /\ visit' = visit \ {q.qid}
              /\ done(end)

BugNextServer == nsn    \* stays with a dead server
NextServer == (nsn + 1) % Servers

EndTimeouts ==
    /\ Free /\ visit = {} /\ nto
    /\ nto' = FALSE
    /\ nsn' = IF quiet THEN NextServer ELSE nsn
    /\ quiet' = FALSE
    /\ UNCHANGED <<cache, needWhen, todo, got, creating, at, ip, pending, nqueries, visit>>

(* addCache: a full result that has not expired is not replaced by less.     *)
Kept(r) == IF r # None /\ r.expired THEN None ELSE r
Size(r) == IF r = None THEN 0 ELSE Cardinality(r.addrs)

Store(ce) ==
    LET g == Head(got)
        k == Kept(ce.result)
    IN  /\ cache' = [cache EXCEPT ![g.name] = [prefm  |-> ce.prefm \cup g.prefm,
                                               result |-> IF Size(k) <= Size(g.res) THEN g.res ELSE k]]
        /\ got' = Tail(got)
        /\ creating' = FALSE

addCache ==
    /\ got # <<>>
    /\ LET ce == cache[Head(got).name] IN
       \/ creating /\ Store(NewEntry)
       \/ ~ creating /\ ce # None /\ Store(ce)
       \/ ~ creating /\ ce = None /\ creating' = TRUE /\ UNCHANGED <<cache, got>>
    /\ UNCHANGED <<needWhen, todo, at, ip, wvars>>

-----------------------------------------------------------------------------
(* Time: a result expires; when a tick begins, nothing has come for          *)
(* SERVERDEAD.  By then every query that an earlier server was asked has     *)
(* been given up, since QUERYTIMEOUT and a second for every further try are  *)
(* less than that.                                                           *)
Stored == {Get(n) : n \in Names} \ {None}
Later(r, res) == IF res = r THEN [r EXCEPT !.expired = TRUE] ELSE res

Expire(r) ==
    /\ ~ r.expired
    /\ cache' = [n \in Names |-> IF cache[n] = None THEN None ELSE [cache[n] EXCEPT !.result = Later(r, @)]]
    /\ UNCHANGED <<needWhen, todo, got, creating, at, ip, wvars>>

Silence ==
    /\ visit # {} /\ ~ nto /\ ~ quiet /\ quiet' = TRUE
    /\ \A q \in Sent : q.ns = nsn
    /\ UNCHANGED <<cache, needWhen, todo, got, creating, at, ip, pending, nqueries, nsn, visit, nto>>

WorkerStep ==
    \/ addCache \/ TakeQuery
    \/ (\E pq \in pending : \E q \in pq.sent : Timeout(pq, q)) \/ EndTimeouts

Receive(typ) == \E pq \in pending : \E q \in pq.sent : q.typ = typ /\ processResult(pq, q)

TimedOut(n) == \E Old \in SUBSET pending : (\E pq \in Old : pq.name = n) /\ BeginTimeouts(Old)

IpStep(i) == Config(i) \/ RequestNew(i) \/ Addr(i) \/ WillNeedIn(i)

Next ==
    \/ \E i \in Ips : IpStep(i)
    \/ cacheMaint
    \/ WorkerStep
    \/ \E typ \in {4, 6} : Receive(typ)
    \/ Silence
    \/ \E n \in Names : TimedOut(n)
    \/ \E r \in Stored : Expire(r)

(* Goroutines run, monitors ask again and again, time passes; a server that  *)
(* is dead is silent for SERVERDEAD; and of the answers of the servers that  *)
(* are alive not every one is lost or late.                                  *)
Fairness ==
    /\ \A i \in Ips : WF_vars(IpStep(i))
    /\ WF_vars(cacheMaint)
    /\ WF_vars(WorkerStep) /\ SF_vars(nsn \notin Alive /\ Silence)
    /\ \A typ \in {4, 6} : SF_vars(Receive(typ))
    /\ \A n \in Names : SF_vars(TimedOut(n)) /\ WF_vars(\E r \in Stored : Expire(r))

Spec == Init /\ [][Next]_vars /\ Fairness

-----------------------------------------------------------------------------
(* Request does not ask again for the families an entry has in prefm, so an  *)
(* entry that has some and no result must have its query on the way: in the  *)
(* queue, with a name server, or with the worker that adds the result.       *)
OnTheWay(n) ==
    \/ \E k \in DOMAIN todo : todo[k].name = n /\ todo[k].prefm # {}
    \/ \E pq \in pending : pq.name = n
    \/ \E k \in DOMAIN got : got[k].name = n

AskedIsOnTheWay ==
    \A n \in Names : cache[n] # None /\ cache[n].prefm # {} /\ cache[n].result = None => OnTheWay(n)

(* The worker takes no new query while it believes that too many are         *)
(* underway: sends, answers, late answers and timeouts keep the number true, *)
(* and no two queries have one id.                                           *)
CountsWhatIsPending ==
    /\ nqueries = Cardinality(Sent)
    /\ \A q1, q2 \in Sent : q1.qid = q2.qid => q1 = q2

(* As long as the queue is never full, the cache keeps getting addresses     *)
(* that have not expired for every monitor: whatever answers are lost or     *)
(* late, whichever goroutine replaces the cache entry of another, and while  *)
(* a name server is dead (request, timeouts, addCache).  A refused refresh   *)
(* leaves an entry that asks for nothing: the name is never looked up again, *)
(* while the monitor keeps using the expired result.                         *)
(* It does not hold for a monitor whose first result was an error and whose  *)
(* name is not its own zone.  An error goes by the name that was asked,      *)
(* which the monitor keeps looking at; a later answer goes by the zone, and  *)
(* from then on only the entry of the zone is refreshed.                     *)
Knows(i) ==
    LET r == Get(useName(i)) IN r # None /\ ~ r.expired /\ r.addrs \cap Pref[i] # {}

ByZone(i) == ip[i].fqdn # None => Zones[ip[i].fqdn] = <<ip[i].fqdn>>

FoundAgain ==
    [](Len(todo) < QueueMax) => \A i \in Ips : []ByZone(i) => []<>Knows(i)

=============================================================================
