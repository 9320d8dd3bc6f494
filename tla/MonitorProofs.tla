--------------------------- MODULE MonitorProofs ---------------------------
(* Proofs about the monitors: the pool of pings, for every number of         *)
(* workers and services and every size of the channel; the rates that the    *)
(* snmp monitor computes, for every width of a counter and everything a      *)
(* device may count; and the tests of the others, for any times and limits,  *)
(* agents' systems and length of a run.                                      *)
EXTENDS PingPool, Snmp, Probes, FiniteSetTheorems, TLAPS

(* What is appended to a queue is in it with all that was.                   *)
LEMMA ToSetAppend ==
    ASSUME NEW S, NEW s \in Seq(S), NEW x \in S
    PROVE  ToSet(Append(s, x)) = ToSet(s) \cup {x}
<1>1. /\ Append(s, x) \in Seq(S) /\ DOMAIN Append(s, x) = 1..(Len(s) + 1)
      /\ DOMAIN s = 1..Len(s) /\ Len(s) \in Nat
    OBVIOUS
<1>2. \A i \in 1..Len(s) : Append(s, x)[i] = s[i]
    OBVIOUS
<1>3. Append(s, x)[Len(s) + 1] = x
    OBVIOUS
<1>4. 1..(Len(s) + 1) = 1..Len(s) \cup {Len(s) + 1}
    BY <1>1
<1>5. ToSet(Append(s, x)) \subseteq ToSet(s) \cup {x}
    <2>. SUFFICES ASSUME NEW i \in 1..Len(s) \cup {Len(s) + 1}
         PROVE  Append(s, x)[i] \in ToSet(s) \cup {x}
        BY <1>1, <1>4, Zenon DEF ToSet
    <2>1. CASE i \in 1..Len(s)
        <3>1. Append(s, x)[i] = s[i] /\ s[i] \in ToSet(s)
            BY <1>1, <1>2, <2>1, Zenon DEF ToSet
        <3>. QED
            BY <3>1
    <2>2. CASE i = Len(s) + 1
        BY <1>3, <2>2, Zenon
    <2>. QED
        BY <2>1, <2>2
<1>6. \A i \in 1..Len(s) : s[i] \in ToSet(Append(s, x))
    BY <1>1, <1>2, <1>4, Zenon DEF ToSet
<1>7. x \in ToSet(Append(s, x))
    BY <1>1, <1>3, <1>4, Zenon DEF ToSet
<1>8. ToSet(s) \subseteq ToSet(Append(s, x))
    BY <1>1, <1>6, Zenon DEF ToSet
<1>. QED
    BY <1>5, <1>7, <1>8

(* What is taken off a queue is its head and nothing else.                   *)
LEMMA ToSetTail ==
    ASSUME NEW S, NEW s \in Seq(S), s # <<>>
    PROVE  ToSet(s) = {Head(s)} \cup ToSet(Tail(s))
<1>1. /\ DOMAIN s = 1..Len(s) /\ DOMAIN Tail(s) = 1..(Len(s) - 1)
      /\ Len(s) \in Nat \ {0} /\ Head(s) = s[1]
    OBVIOUS
<1>2. \A i \in 1..(Len(s) - 1) : Tail(s)[i] = s[i + 1] /\ i + 1 \in 1..Len(s)
    OBVIOUS
<1>3. \A i \in 2..Len(s) : i - 1 \in 1..(Len(s) - 1) /\ Tail(s)[i - 1] = s[i]
    BY <1>1, <1>2
<1>4. 1..Len(s) = {1} \cup 2..Len(s) /\ \A i \in 1..(Len(s) - 1) : i + 1 \in 2..Len(s)
    BY <1>1
<1>5. ASSUME NEW i \in 1..Len(s) PROVE s[i] \in {Head(s)} \cup ToSet(Tail(s))
    <2>1. CASE i = 1
        BY <1>1, <2>1
    <2>2. CASE i \in 2..Len(s)
        BY <1>1, <1>3, <2>2, Zenon DEF ToSet
    <2>. QED
        BY <1>4, <2>1, <2>2
<1>6. ASSUME NEW i \in 1..(Len(s) - 1) PROVE Tail(s)[i] \in ToSet(s)
    BY <1>1, <1>2, Zenon DEF ToSet
<1>7. Head(s) \in ToSet(s)
    <2>1. 1 \in DOMAIN s
        BY <1>1
    <2>. QED
        BY <1>1, <2>1, Zenon DEF ToSet
<1>. QED
    BY <1>1, <1>5, <1>6, <1>7, Zenon DEF ToSet
-----------------------------------------------------------------------------
(* The pool of pings.  Who gathers has the lock, who reads has given it      *)
(* back, and who waits has nothing to report: otherwise what a worker takes  *)
(* would replace what it still had.                                          *)
WorkerState == [pc : {"lock", "take", "start", "gather", "read"},
                underway : [Addrs -> Seq(Pinged)], nping : Nat]

PoolTypeOK ==
    /\ running \subseteq Pinged /\ sending \in [Pinged -> Nat] /\ pingChan \in Seq(Pinged)
    /\ justOne \in PingWorkers \cup {NoWorker}
    /\ worker \in [PingWorkers -> WorkerState]

GatherersHaveTheLock ==
    \A w \in PingWorkers : worker[w].pc \in {"take", "start", "gather"} => justOne = w

ReadersHaveNoLock == \A w \in PingWorkers : worker[w].pc = "read" => justOne # w

WaitersHaveNothing ==
    \A w \in PingWorkers : worker[w].pc \in {"lock", "take"} => worker[w].underway = NoPings

PoolIInv ==
    /\ PoolTypeOK
    /\ GatherersHaveTheLock
    /\ ReadersHaveNoLock
    /\ WaitersHaveNothing
    /\ NoPingIsForgotten

(* Who will report a service.                                                *)
HasIt(w, s) == s \in ToSet(worker[w].underway[AddrOf[s]])

WithSomebody(s) ==
    sending[s] > 0 \/ s \in ToSet(pingChan) \/ \E w \in PingWorkers : HasIt(w, s)

(* NoPingIsForgotten in these words.                                         *)
LEMMA NoPingIsForgottenMeans ==
    NoPingIsForgotten <=> Stuck \/ \A s \in running : WithSomebody(s)
BY DEF NoPingIsForgotten, WithSomebody, HasIt

(* Every service's address is one of the addresses.                          *)
LEMMA AddrOfInAddrs == \A s \in Pinged : AddrOf[s] \in Addrs
BY DEF Addrs

(* addPing adds one service to the list of its address.                      *)
LEMMA AddPing ==
    ASSUME NEW uw \in [Addrs -> Seq(Pinged)], NEW s \in Pinged
    PROVE  /\ addPing(uw, s) \in [Addrs -> Seq(Pinged)]
           /\ s \in ToSet(addPing(uw, s)[AddrOf[s]])
           /\ \A a \in Addrs : ToSet(uw[a]) \subseteq ToSet(addPing(uw, s)[a])
<1>1. AddrOf[s] \in Addrs /\ uw[AddrOf[s]] \in Seq(Pinged)
    BY AddrOfInAddrs
<1>2. addPing(uw, s) = [uw EXCEPT ![AddrOf[s]] = Append(uw[AddrOf[s]], s)]
    BY DEF addPing
<1>3. Append(uw[AddrOf[s]], s) \in Seq(Pinged)
    BY <1>1
<1>4. ToSet(Append(uw[AddrOf[s]], s)) = ToSet(uw[AddrOf[s]]) \cup {s}
    BY <1>1, ToSetAppend
<1>5. /\ addPing(uw, s) \in [Addrs -> Seq(Pinged)]
      /\ addPing(uw, s)[AddrOf[s]] = Append(uw[AddrOf[s]], s)
      /\ \A a \in Addrs : a # AddrOf[s] => addPing(uw, s)[a] = uw[a]
    BY <1>1, <1>2, <1>3
<1>. QED
    BY <1>4, <1>5

(* With nothing to report every list is empty.                               *)
LEMMA NothingType == NoPings \in [Addrs -> Seq(Pinged)]
BY DEF NoPings

(* The invariant holds when argus starts (init, Init).                       *)
LEMMA InitPool == PingInit => PoolIInv
<1>. SUFFICES ASSUME PingInit PROVE PoolIInv
    OBVIOUS
<1>1. PoolTypeOK
    BY NothingType DEF PingInit, WorkerState, PoolTypeOK, Waiting
<1>2. GatherersHaveTheLock /\ ReadersHaveNoLock /\ WaitersHaveNothing
    BY DEF PingInit, Waiting, GatherersHaveTheLock, ReadersHaveNoLock, WaitersHaveNothing
<1>3. NoPingIsForgotten
    BY DEF PingInit, NoPingIsForgotten
<1>. QED
    BY <1>1, <1>2, <1>3 DEF PoolIInv

(* What a sender does.                                                       *)
LEMMA SendersKeepPool ==
    ASSUME PoolIInv, NEW s \in Pinged, StartPing(s) \/ Send(s) \/ AbortPing(s)
    PROVE  PoolIInv'
<1>. USE DEF PoolIInv
<1>1. sending[s] \in Nat
    BY DEF WorkerState, PoolTypeOK
<1>2. CASE StartPing(s)
    <2>1. PoolTypeOK'
        BY <1>1, <1>2 DEF StartPing, WorkerState, PoolTypeOK
    <2>2. GatherersHaveTheLock' /\ ReadersHaveNoLock' /\ WaitersHaveNothing'
        BY <1>2 DEF StartPing, GatherersHaveTheLock, ReadersHaveNoLock, WaitersHaveNothing
    <2>3. \A q \in Pinged : WithSomebody(q) => WithSomebody(q)'
        BY <1>2 DEF StartPing, WorkerState, PoolTypeOK, WithSomebody, HasIt
    <2>4. WithSomebody(s)'
        BY <1>1, <1>2 DEF StartPing, WorkerState, PoolTypeOK, WithSomebody
    <2>5. NoPingIsForgotten'
        BY <1>2, <2>3, <2>4, NoPingIsForgottenMeans DEF StartPing, Stuck, WorkerState, PoolTypeOK, NoPingIsForgotten, WithSomebody, HasIt
    <2>. QED
        BY <2>1, <2>2, <2>5
<1>3. CASE Send(s)
    <2>1. pingChan' = Append(pingChan, s) /\ pingChan' \in Seq(Pinged)
        BY <1>3 DEF Send, WorkerState, PoolTypeOK
    <2>2. ToSet(pingChan') = ToSet(pingChan) \cup {s}
        BY <2>1, ToSetAppend DEF WorkerState, PoolTypeOK
    <2>3. PoolTypeOK'
        BY <1>1, <1>3, <2>1 DEF Send, WorkerState, PoolTypeOK
    <2>4. GatherersHaveTheLock' /\ ReadersHaveNoLock' /\ WaitersHaveNothing'
        BY <1>3 DEF Send, GatherersHaveTheLock, ReadersHaveNoLock, WaitersHaveNothing
    <2>5. \A q \in Pinged : WithSomebody(q) => WithSomebody(q)'
        BY <1>3, <2>2 DEF Send, WorkerState, PoolTypeOK, WithSomebody, HasIt
    <2>6. NoPingIsForgotten'
        BY <1>3, <2>5 DEF Send, Stuck, WorkerState, PoolTypeOK, NoPingIsForgotten, WithSomebody, HasIt
    <2>. QED
        BY <2>3, <2>4, <2>6
<1>4. CASE AbortPing(s)
    BY <1>4 DEF AbortPing, WorkerState, PoolTypeOK, GatherersHaveTheLock, ReadersHaveNoLock, WaitersHaveNothing,
                NoPingIsForgotten, Stuck
<1>. QED
    BY <1>2, <1>3, <1>4

(* A record with these fields is the state of a worker.                      *)
LEMMA WorkerStates ==
    \A pc \in {"lock", "take", "start", "gather", "read"}, uw \in [Addrs -> Seq(Pinged)], n \in Nat :
        [pc |-> pc, underway |-> uw, nping |-> n] \in WorkerState
BY DEF WorkerState

(* What a worker has become, and that the others are as they were.           *)
Becomes(w, pc, uw) ==
    /\ worker' \in [PingWorkers -> WorkerState]
    /\ worker'[w].pc = pc /\ worker'[w].underway = uw
    /\ \A v \in PingWorkers : v # w => worker'[v] = worker[v]

(* A step of a worker leaves the others alone, and one that is stuck with    *)
(* the lock stays so.                                                        *)
OnlyWorker(w) ==
    /\ \A v \in PingWorkers : v # w => worker'[v] = worker[v]
    /\ justOne' # justOne => justOne = NoWorker \/ worker[w].pc \in {"take", "start", "gather"}

(* When a worker died with the lock, no step of the others gives it back.    *)
LEMMA StuckStays ==
    ASSUME PoolIInv, NEW w \in PingWorkers, OnlyWorker(w), Stuck,
           worker[w].pc = "lock" => justOne = NoWorker
    PROVE  Stuck'
<1>1. justOne \in PingWorkers /\ w # justOne
    BY DEF PoolIInv, WorkerState, PoolTypeOK, Stuck
<1>2. justOne' = justOne
    BY <1>1 DEF PoolIInv, WorkerState, PoolTypeOK, OnlyWorker, Stuck, GatherersHaveTheLock
<1>3. worker'[justOne] = worker[justOne]
    BY <1>1 DEF OnlyWorker
<1>. QED
    BY <1>2, <1>3 DEF Stuck

(* A worker gets the lock.                                                   *)
LEMMA LockKeepsPool ==
    ASSUME PoolIInv, NEW w \in PingWorkers, Lock(w)
    PROVE  PoolIInv'
<1>. USE DEF PoolIInv, Lock
<1>n. \A v \in PingWorkers : v # NoWorker
    BY PingAssumption
<1>1. PoolTypeOK'
    BY DEF WorkerState, PoolTypeOK
<1>2. GatherersHaveTheLock'
    BY <1>n DEF WorkerState, PoolTypeOK, GatherersHaveTheLock
<1>2a. ReadersHaveNoLock' /\ WaitersHaveNothing'
    BY <1>n DEF WorkerState, PoolTypeOK, ReadersHaveNoLock, WaitersHaveNothing
<1>3. \A q \in Pinged, v \in PingWorkers : HasIt(v, q)' <=> HasIt(v, q)
    BY DEF WorkerState, PoolTypeOK, HasIt
<1>4. NoPingIsForgotten'
    BY <1>3 DEF WorkerState, PoolTypeOK, NoPingIsForgotten, HasIt, Stuck
<1>. QED
    BY <1>1, <1>2, <1>2a, <1>4

(* It takes the first service from the channel.                              *)
LEMMA TakeKeepsPool ==
    ASSUME PoolIInv, NEW w \in PingWorkers, Take(w)
    PROVE  PoolIInv'
<1>. USE DEF PoolIInv, Take
<1>. DEFINE uw == addPing(NoPings, Head(pingChan))
<1>0. PICK s \in Pinged : s = Head(pingChan)
    BY DEF PoolTypeOK
<1>1. Tail(pingChan) \in Seq(Pinged)
    BY DEF PoolTypeOK
<1>2. /\ uw \in [Addrs -> Seq(Pinged)]
      /\ s \in ToSet(uw[AddrOf[s]])
    BY <1>0, AddPing, NothingType
<1>3. ToSet(pingChan) = {s} \cup ToSet(pingChan')
    BY <1>0, ToSetTail DEF WorkerState, PoolTypeOK
<1>4. Becomes(w, "start", uw)
    BY <1>2 DEF Becomes, WorkerState, PoolTypeOK
<1>. HIDE DEF uw
<1>5. PoolTypeOK'
    BY <1>1, <1>2, <1>4 DEF Becomes, WorkerState, PoolTypeOK
<1>6. GatherersHaveTheLock' /\ ReadersHaveNoLock' /\ WaitersHaveNothing'
    BY <1>4 DEF Becomes, WorkerState, PoolTypeOK, GatherersHaveTheLock, ReadersHaveNoLock, WaitersHaveNothing
<1>7. \A q \in Pinged : ~HasIt(w, q)
    BY AddrOfInAddrs DEF HasIt, WaitersHaveNothing, NoPings, ToSet
<1>8. \A q \in Pinged, v \in PingWorkers : v # w => (HasIt(v, q)' <=> HasIt(v, q))
    BY <1>4 DEF Becomes, WorkerState, PoolTypeOK, HasIt
<1>9. HasIt(w, s)'
    BY <1>2, <1>4 DEF Becomes, HasIt
<1>10. \A q \in Pinged : WithSomebody(q) => WithSomebody(q)'
    BY <1>3, <1>7, <1>8, <1>9 DEF WorkerState, PoolTypeOK, WithSomebody
<1>11. Stuck => Stuck'
    BY <1>4, StuckStays DEF Becomes, OnlyWorker, WorkerState, PoolTypeOK
<1>12. NoPingIsForgotten'
    BY <1>10, <1>11, NoPingIsForgottenMeans DEF WorkerState, PoolTypeOK, NoPingIsForgotten, WithSomebody, HasIt
<1>. QED
    BY <1>5, <1>6, <1>12

(* fping starts, or nothing more comes for a second.                         *)
LEMMA GatheringKeepsPool ==
    ASSUME PoolIInv, NEW w \in PingWorkers, StartFping(w) \/ Gathered(w)
    PROVE  PoolIInv'
<1>. USE DEF PoolIInv, StartFping, Gathered
<1>n. w # NoWorker /\ justOne = w
    BY PingAssumption DEF GatherersHaveTheLock
<1>1. PoolTypeOK'
    BY DEF WorkerState, PoolTypeOK
<1>2. \A v \in PingWorkers : /\ v # w => worker'[v] = worker[v]
                             /\ worker'[v].underway = worker[v].underway
    BY DEF WorkerState, PoolTypeOK
<1>3. /\ worker[w].pc \in {"start", "gather"}
      /\ worker'[w].pc = IF worker[w].pc = "start" THEN "gather" ELSE "read"
      /\ worker[w].pc = "start" => justOne' = w
      /\ worker[w].pc = "gather" => justOne' = NoWorker
    BY <1>n DEF WorkerState, PoolTypeOK
<1>4. GatherersHaveTheLock' /\ ReadersHaveNoLock' /\ WaitersHaveNothing'
    BY <1>n, <1>2, <1>3, PingAssumption DEF WorkerState, PoolTypeOK, GatherersHaveTheLock, ReadersHaveNoLock, WaitersHaveNothing
<1>5. ~Stuck
    BY <1>n, <1>3 DEF Stuck
<1>6. NoPingIsForgotten'
    BY <1>2, <1>5 DEF NoPingIsForgotten
<1>. QED
    BY <1>1, <1>4, <1>6

(* It cannot be started: the worker waits for the lock it has.               *)
LEMMA FpingFailsKeepsPool ==
    ASSUME PoolIInv, NEW w \in PingWorkers, CannotRunFping(w)
    PROVE  PoolIInv'
<1>. USE DEF PoolIInv, CannotRunFping
<1>n. w # NoWorker /\ justOne = w
    BY PingAssumption DEF GatherersHaveTheLock
<1>1. PoolTypeOK'
    BY NothingType DEF WorkerState, PoolTypeOK, Waiting
<1>2. GatherersHaveTheLock' /\ ReadersHaveNoLock' /\ WaitersHaveNothing'
    BY DEF WorkerState, PoolTypeOK, Waiting, GatherersHaveTheLock, ReadersHaveNoLock, WaitersHaveNothing
<1>3. NoPingIsForgotten'
    BY <1>n DEF WorkerState, PoolTypeOK, Waiting, NoPingIsForgotten, Stuck
<1>. QED
    BY <1>1, <1>2, <1>3

(* One more service from the channel; the last one gives the lock back.      *)
LEMMA GatherKeepsPool ==
    ASSUME PoolIInv, NEW w \in PingWorkers, Gather(w)
    PROVE  PoolIInv'
<1>. USE DEF PoolIInv, Gather
<1>. DEFINE uw == addPing(worker[w].underway, Head(pingChan))
            full == worker[w].nping + 1 >= MAXPING
<1>n. w # NoWorker /\ justOne = w
    BY PingAssumption DEF GatherersHaveTheLock
<1>0. PICK s \in Pinged : s = Head(pingChan)
    BY DEF PoolTypeOK
<1>1. Tail(pingChan) \in Seq(Pinged)
    BY DEF PoolTypeOK
<1>2. /\ uw \in [Addrs -> Seq(Pinged)]
      /\ s \in ToSet(uw[AddrOf[s]])
      /\ \A a \in Addrs : ToSet(worker[w].underway[a]) \subseteq ToSet(uw[a])
    BY <1>0, AddPing DEF WorkerState, PoolTypeOK
<1>3. ToSet(pingChan) = {s} \cup ToSet(pingChan')
    BY <1>0, ToSetTail DEF WorkerState, PoolTypeOK
<1>f. /\ full \in BOOLEAN
      /\ worker' = [worker EXCEPT ![w].underway = uw, ![w].nping = worker[w].nping + 1,
                                  ![w].pc = IF full THEN "read" ELSE worker[w].pc]
      /\ justOne' = IF full THEN NoWorker ELSE justOne
    OBVIOUS
<1>. HIDE DEF full, uw
<1>4. Becomes(w, IF full THEN "read" ELSE "gather", uw)
    <2>1. worker'[w] = [worker[w] EXCEPT !.underway = uw, !.nping = worker[w].nping + 1,
                                         !.pc = IF full THEN "read" ELSE worker[w].pc]
        BY <1>f DEF PoolTypeOK
    <2>2. worker[w] \in WorkerState
        BY DEF PoolTypeOK
    <2>3. worker'[w] \in WorkerState
        <3>1. /\ worker[w].nping + 1 \in Nat
              /\ (IF full THEN "read" ELSE worker[w].pc) \in {"lock", "take", "start", "gather", "read"}
            BY <2>2 DEF WorkerState
        <3>2. worker'[w] = [pc |-> IF full THEN "read" ELSE worker[w].pc, underway |-> uw,
                            nping |-> worker[w].nping + 1]
            BY <2>1, <2>2 DEF WorkerState
        <3>. QED
            BY <1>2, <3>1, <3>2, WorkerStates
    <2>4. \A v \in PingWorkers : v # w => worker'[v] = worker[v]
        BY <1>f DEF PoolTypeOK
    <2>5. worker' \in [PingWorkers -> WorkerState]
        BY <1>f, <2>3, <2>4 DEF PoolTypeOK
    <2>6. worker'[w].pc = (IF full THEN "read" ELSE "gather") /\ worker'[w].underway = uw
        BY <2>1, <2>2 DEF WorkerState
    <2>. QED
        BY <2>4, <2>5, <2>6 DEF Becomes
<1>5. PoolTypeOK'
    BY <1>1, <1>2, <1>4 DEF Becomes, WorkerState, PoolTypeOK
<1>6. GatherersHaveTheLock' /\ ReadersHaveNoLock' /\ WaitersHaveNothing'
    BY <1>n, <1>4 DEF Becomes, WorkerState, PoolTypeOK, GatherersHaveTheLock, ReadersHaveNoLock, WaitersHaveNothing
<1>7. \A q \in Pinged, v \in PingWorkers : HasIt(v, q) => HasIt(v, q)'
    BY <1>2, <1>4, AddrOfInAddrs DEF Becomes, WorkerState, PoolTypeOK, HasIt
<1>8. HasIt(w, s)'
    BY <1>2, <1>4 DEF Becomes, HasIt
<1>9. \A q \in Pinged : WithSomebody(q) => WithSomebody(q)'
    BY <1>3, <1>7, <1>8 DEF WorkerState, PoolTypeOK, WithSomebody
<1>10. ~Stuck
    BY <1>n DEF Stuck
<1>11. NoPingIsForgotten'
    BY <1>9, <1>10, NoPingIsForgottenMeans DEF WorkerState, PoolTypeOK, NoPingIsForgotten, WithSomebody, HasIt
<1>. QED
    BY <1>5, <1>6, <1>11

(* Results: those they are about are no longer under test.                   *)
LEMMA ReadingKeepsPool ==
    ASSUME PoolIInv, NEW w \in PingWorkers, Finish(w) \/ \E a \in Addrs : pingResult(w, a)
    PROVE  PoolIInv'
<1>. USE DEF PoolIInv
<1>1. worker[w].pc = "read" /\ justOne # w
    BY DEF Finish, pingResult, ReadersHaveNoLock
<1>2. CASE Finish(w)
    <2>1. PoolTypeOK'
        BY <1>2, NothingType DEF Finish, WorkerState, PoolTypeOK, Waiting
    <2>2. GatherersHaveTheLock' /\ ReadersHaveNoLock' /\ WaitersHaveNothing'
        BY <1>1, <1>2 DEF Finish, Waiting, WorkerState, PoolTypeOK, GatherersHaveTheLock, ReadersHaveNoLock, WaitersHaveNothing
    <2>3. \A q \in running' : ~HasIt(w, q)
        BY <1>2, AddrOfInAddrs DEF Finish, WorkerState, PoolTypeOK, Unanswered, HasIt
    <2>4. \A q \in Pinged, v \in PingWorkers : v # w => (HasIt(v, q)' <=> HasIt(v, q))
        BY <1>2 DEF Finish, WorkerState, PoolTypeOK, HasIt
    <2>5. \A q \in running' : WithSomebody(q) => WithSomebody(q)'
        BY <1>2, <2>3, <2>4 DEF Finish, WorkerState, PoolTypeOK, WithSomebody
    <2>6. Stuck => Stuck'
        BY <1>1, <1>2, StuckStays DEF Finish, OnlyWorker, WorkerState, PoolTypeOK
    <2>7. running' \subseteq running
        BY <1>2 DEF Finish
    <2>8. NoPingIsForgotten'
        BY <2>5, <2>6, <2>7, NoPingIsForgottenMeans DEF NoPingIsForgotten, WithSomebody, HasIt
    <2>. QED
        BY <2>1, <2>2, <2>8
<1>3. ASSUME NEW a \in Addrs, pingResult(w, a) PROVE PoolIInv'
    <2>. USE <1>3
    <2>1. Becomes(w, "read", [worker[w].underway EXCEPT ![a] = <<>>])
        <3>. DEFINE uw == [worker[w].underway EXCEPT ![a] = <<>>]
        <3>1. worker[w] \in WorkerState /\ uw \in [Addrs -> Seq(Pinged)]
            BY DEF PoolTypeOK, WorkerState
        <3>2. worker' = [worker EXCEPT ![w].underway = uw]
            BY <3>1 DEF pingResult, PoolTypeOK
        <3>. HIDE DEF uw
        <3>3. Becomes(w, "read", uw)
            BY <1>1, <3>1, <3>2 DEF Becomes, PoolTypeOK, WorkerState
        <3>. QED
            BY <3>3 DEF uw
    <2>2. PoolTypeOK'
        BY <2>1 DEF Becomes, pingResult, WorkerState, PoolTypeOK
    <2>3. GatherersHaveTheLock' /\ ReadersHaveNoLock' /\ WaitersHaveNothing'
        BY <1>1, <2>1 DEF Becomes, pingResult, WorkerState, PoolTypeOK, GatherersHaveTheLock, ReadersHaveNoLock, WaitersHaveNothing
    <2>4. \A q \in running' : HasIt(w, q) => HasIt(w, q)'
        BY <2>1, AddrOfInAddrs DEF Becomes, pingResult, WorkerState, PoolTypeOK, HasIt
    <2>5. \A q \in Pinged, v \in PingWorkers : v # w => (HasIt(v, q)' <=> HasIt(v, q))
        BY <2>1 DEF Becomes, HasIt
    <2>6. \A q \in running' : WithSomebody(q) => WithSomebody(q)'
        BY <2>4, <2>5 DEF pingResult, WorkerState, PoolTypeOK, WithSomebody
    <2>7. Stuck => Stuck'
        BY <1>1, <2>1, StuckStays DEF Becomes, pingResult, OnlyWorker, WorkerState, PoolTypeOK
    <2>8. running' \subseteq running
        BY DEF pingResult
    <2>9. NoPingIsForgotten'
        BY <2>6, <2>7, <2>8, NoPingIsForgottenMeans DEF NoPingIsForgotten, WithSomebody, HasIt
    <2>. QED
        BY <2>2, <2>3, <2>9
<1>. QED
    BY <1>2, <1>3

(* Every step of senders and workers keeps it.                               *)
LEMMA NextKeepsPool == PoolIInv /\ [PingNext]_pingVars => PoolIInv'
<1>. SUFFICES ASSUME PoolIInv, [PingNext]_pingVars PROVE PoolIInv'
    OBVIOUS
<1>1. CASE UNCHANGED pingVars
    BY <1>1 DEF pingVars, PoolIInv, WorkerState, PoolTypeOK, GatherersHaveTheLock, ReadersHaveNoLock,
                WaitersHaveNothing, NoPingIsForgotten, Stuck
<1>2. CASE PingNext
    BY <1>2, SendersKeepPool, LockKeepsPool, TakeKeepsPool, GatheringKeepsPool, FpingFailsKeepsPool,
       GatherKeepsPool, ReadingKeepsPool DEF PingNext, PoolStep
<1>. QED
    BY <1>1, <1>2

(* Whatever the number of workers, the size of the channel and the services  *)
(* that share an address: a test that runs is always with somebody who will  *)
(* report it, unless fping could not be run and the lock is lost (Start,     *)
(* worker, ping, addMore, processResult).                                    *)
THEOREM PingsAreKept == PingSpec => []NoPingIsForgotten
<1>1. PoolIInv => NoPingIsForgotten
    BY DEF PoolIInv
<1>. QED
    BY InitPool, NextKeepsPool, <1>1, PTL DEF PingSpec
-----------------------------------------------------------------------------
(* What a counter shows after it counted n more: it may have gone round.     *)
LEMMA CounterGoesRound ==
    ASSUME NEW c \in 0..CounterMax, NEW n \in Nat, NEW r, r = (c + n) % (CounterMax + 1)
    PROVE  /\ r \in 0..CounterMax /\ r <= c + n
           /\ r < c => r + CounterMax + 1 <= c + n
<1>1. \A a \in Nat, b \in Nat \ {0} : a % b \in 0..(b - 1) /\ a % b <= a
    OBVIOUS
<1>2. ASSUME NEW a \in Nat, NEW b \in Nat \ {0}, a % b # a PROVE a % b <= a - b
    BY <1>2
<1>3. c + n \in Nat /\ CounterMax + 1 \in Nat \ {0} /\ c \in Nat /\ CounterMax \in Nat
    BY SnmpAssumption
<1>4. r \in 0..((CounterMax + 1) - 1) /\ r <= c + n
    BY <1>1, <1>3
<1>5. r # c + n => r <= (c + n) - (CounterMax + 1)
    BY <1>2, <1>3
<1>. QED
    BY <1>3, <1>4, <1>5

(* The invariant.  Types:                                                    *)
Sample == [total : Nat, boot : Nat, up : Nat, ours : BOOLEAN, junk : BOOLEAN, lost : BOOLEAN]

SnmpTypeOK ==
    /\ dev \in [boot : Nat, up : Nat, at : Numbers, counter : 0..CounterMax, total : Nat, moved : Nat]
    /\ snmp \in [oid : {0} \cup Numbers, descOid : {0} \cup Numbers, uptime : Nat]
    /\ calc \in [Lastv : 0..CounterMax, Lastt : Nat, of : Sample]
    /\ second \in Nat

(* the number and the description are those of one interface, and a test     *)
(* knows it;                                                                 *)
Found ==
    /\ snmp.oid # 0 => snmp.oid = snmp.descOid
    /\ poll = "get" => snmp.oid # 0

(* the sample is of our interface, from this boot or an earlier one, and the *)
(* uptime was not seen to go back since;                                     *)
SampleIsOurs ==
    /\ calc.of.ours /\ calc.of.boot <= dev.boot
    /\ calc.Lastt # 0 /\ ~calc.of.lost => calc.of.up <= snmp.uptime

(* and our interface has counted since the sample what the counter shows, a  *)
(* whole turn more when it shows less than then, or all it shows when it was *)
(* reset.                                                                    *)
CountedSince ==
    calc.Lastt # 0 /\ ~calc.of.junk =>
        LET passed == dev.total - calc.of.total IN
        IF calc.of.boot # dev.boot THEN passed >= dev.counter
        ELSE IF dev.counter < calc.Lastv THEN passed >= CounterMax + 1 - calc.Lastv + dev.counter
        ELSE passed >= dev.counter - calc.Lastv

SnmpIInv == SnmpTypeOK /\ Found /\ SampleIsOurs /\ CountedSince /\ RatesAreTrue

(* Before anything is asked no sample is held and no rate was computed.      *)
LEMMA SnmpStart == SnmpInit => SnmpIInv
BY SnmpAssumption DEF SnmpInit, SnmpIInv, SnmpTypeOK, Sample, NoSample, Numbers, Found, SampleIsOurs,
   CountedSince, RatesAreTrue

(* A second passes and the interface counts.                                 *)
LEMMA SecondKeeps ==
    ASSUME SnmpIInv, NEW n \in Increments, Second(n)
    PROVE  SnmpIInv'
<1>1. n \in Nat /\ dev.counter \in 0..CounterMax /\ dev.total \in Nat
    BY SnmpAssumption DEF SnmpIInv, SnmpTypeOK
<1>2. PICK r : r = (dev.counter + n) % (CounterMax + 1)
    OBVIOUS
<1>3. /\ r \in 0..CounterMax /\ r <= dev.counter + n
      /\ r < dev.counter => r + CounterMax + 1 <= dev.counter + n
    BY <1>1, <1>2, CounterGoesRound
<1>4. dev' = [boot |-> dev.boot, up |-> dev.up + 1, at |-> dev.at, counter |-> r,
              total |-> dev.total + n, moved |-> dev.moved]
    BY <1>2 DEF Second, SnmpIInv, SnmpTypeOK
<1>5. UNCHANGED <<snmp, calc, poll, delta>> /\ second' = second + 1
    BY DEF Second
<1>6. SnmpTypeOK'
    BY <1>1, <1>3, <1>4, <1>5 DEF SnmpIInv, SnmpTypeOK
<1>7. CountedSince'
    <2>1. dev'.boot = dev.boot /\ dev'.counter = r /\ dev'.total = dev.total + n
        BY <1>4
    <2>2. calc.Lastv \in 0..CounterMax /\ CounterMax \in Nat /\ calc.of.total \in Nat
        BY SnmpAssumption DEF SnmpIInv, SnmpTypeOK, Sample
    <2>. QED
        BY <1>1, <1>3, <1>5, <2>1, <2>2 DEF SnmpIInv, CountedSince
<1>8. Found' /\ SampleIsOurs' /\ RatesAreTrue'
    BY <1>4, <1>5 DEF SnmpIInv, Found, SampleIsOurs, RatesAreTrue
<1>. QED
    BY <1>6, <1>7, <1>8 DEF SnmpIInv

(* A reboot resets the counter: all it will show was counted since.          *)
LEMMA RebootKeeps ==
    ASSUME SnmpIInv, Reboot
    PROVE  SnmpIInv'
<1>1. PICK at \in Numbers : dev' = [dev EXCEPT !.boot = @ + 1, !.up = 0, !.counter = 0, !.at = at]
    BY DEF Reboot
<1>2. dev' = [boot |-> dev.boot + 1, up |-> 0, at |-> at, counter |-> 0,
              total |-> dev.total, moved |-> dev.moved]
    BY <1>1 DEF SnmpIInv, SnmpTypeOK
<1>3. UNCHANGED <<snmp, calc, second, poll, delta>>
    BY DEF Reboot
<1>4. SnmpTypeOK'
    BY <1>2, <1>3, SnmpAssumption DEF SnmpIInv, SnmpTypeOK
<1>5. CountedSince'
    <2>1. calc.of.total \in Nat /\ calc.of.boot \in Nat /\ calc.of.boot <= dev.boot /\ dev.boot \in Nat
          /\ calc.Lastv \in 0..CounterMax /\ CounterMax \in Nat /\ dev.total \in Nat /\ dev.counter \in 0..CounterMax
        BY SnmpAssumption DEF SnmpIInv, SnmpTypeOK, Sample, SampleIsOurs
    <2>2. calc.Lastt # 0 /\ ~calc.of.junk => dev.total - calc.of.total >= 0
        BY <2>1 DEF SnmpIInv, CountedSince
    <2>3. calc.of.boot # dev'.boot /\ dev'.counter = 0 /\ dev'.total = dev.total
        BY <1>2, <2>1
    <2>. QED
        BY <1>3, <2>2, <2>3 DEF CountedSince
<1>6. Found' /\ SampleIsOurs' /\ RatesAreTrue'
    BY <1>2, <1>3 DEF SnmpIInv, SnmpTypeOK, Sample, Found, SampleIsOurs, RatesAreTrue
<1>. QED
    BY <1>4, <1>5, <1>6 DEF SnmpIInv

(* The device gives its interfaces other numbers; the counters go on.        *)
LEMMA RenumberKeeps ==
    ASSUME SnmpIInv, Renumber
    PROVE  SnmpIInv'
<1>1. dev' = [boot |-> dev.boot, up |-> dev.up, at |-> 3 - dev.at, counter |-> dev.counter,
              total |-> dev.total, moved |-> dev.moved + 1]
    BY DEF Renumber, SnmpIInv, SnmpTypeOK
<1>2. UNCHANGED <<snmp, calc, second, poll, delta>>
    BY DEF Renumber
<1>3. SnmpTypeOK'
    BY <1>1, <1>2 DEF SnmpIInv, SnmpTypeOK, Numbers
<1>. QED
    BY <1>1, <1>2, <1>3 DEF SnmpIInv, CountedSince, Found, SampleIsOurs, RatesAreTrue

(* A restart of argus forgets the uptime, and notes that.                    *)
LEMMA RestartsKeeps ==
    ASSUME SnmpIInv, Restarts
    PROVE  SnmpIInv'
<1>1. PICK o \in Sample : o = calc.of
    BY DEF SnmpIInv, SnmpTypeOK
<1>2. /\ calc' = [calc EXCEPT !.of = [o EXCEPT !.lost = TRUE]]
      /\ snmp' = [oid |-> 0, descOid |-> 0, uptime |-> 0] /\ poll' = "idle"
      /\ UNCHANGED <<dev, second, delta>>
    BY <1>1 DEF Restarts, SnmpIInv, SnmpTypeOK
<1>3. PICK a \in BOOLEAN : a = TRUE
    OBVIOUS
<1>4. [o EXCEPT !.lost = a] = [total |-> o.total, boot |-> o.boot, up |-> o.up, ours |-> o.ours,
                               junk |-> o.junk, lost |-> a]
    BY DEF Sample
<1>5. PICK k \in Sample : /\ k = [o EXCEPT !.lost = a] /\ k.total = o.total /\ k.boot = o.boot
                          /\ k.up = o.up /\ k.ours = o.ours /\ k.junk = o.junk /\ k.lost
    BY <1>3, <1>4 DEF Sample
<1>6. calc' = [Lastv |-> calc.Lastv, Lastt |-> calc.Lastt, of |-> k]
    BY <1>2, <1>3, <1>5 DEF SnmpIInv, SnmpTypeOK
<1>7. SnmpTypeOK'
    <2>1. calc' \in [Lastv : 0..CounterMax, Lastt : Nat, of : Sample]
        BY <1>6 DEF SnmpIInv, SnmpTypeOK
    <2>2. snmp' \in [oid : {0} \cup Numbers, descOid : {0} \cup Numbers, uptime : Nat]
        BY <1>2
    <2>. QED
        BY <1>2, <2>1, <2>2 DEF SnmpIInv, SnmpTypeOK
<1>8. /\ calc'.Lastv = calc.Lastv /\ calc'.Lastt = calc.Lastt /\ calc'.of = k
      /\ snmp'.oid = 0
    BY <1>2, <1>6
<1>9. Found' /\ RatesAreTrue'
    BY <1>2, <1>8 DEF SnmpIInv, Found, RatesAreTrue
<1>10. SampleIsOurs'
    BY <1>1, <1>2, <1>5, <1>8 DEF SnmpIInv, SampleIsOurs
<1>11. CountedSince'
    BY <1>1, <1>2, <1>5, <1>8 DEF SnmpIInv, CountedSince
<1>. QED
    BY <1>7, <1>9, <1>10, <1>11 DEF SnmpIInv

(* A test begins, fails, or finds another interface under the number; an     *)
(* uptime that went back drops the sample.                                   *)
LEMMA PollKeeps ==
    ASSUME SnmpIInv, GetValues \/ autoDiscover \/ NoAnswer
    PROVE  SnmpIInv'
<1>1. UNCHANGED <<dev, calc, second, delta>> /\ snmp'.uptime = snmp.uptime
    BY DEF GetValues, autoDiscover, NoAnswer, SnmpIInv, SnmpTypeOK
<1>2. SnmpTypeOK'
    BY <1>1 DEF GetValues, autoDiscover, NoAnswer, SnmpIInv, SnmpTypeOK, Numbers
<1>3. Found'
    <2>1. CASE GetValues
        BY <2>1 DEF GetValues, SnmpIInv, Found
    <2>2. CASE NoAnswer
        BY <2>2 DEF NoAnswer, SnmpIInv, Found
    <2>3. CASE autoDiscover
        <3>1. snmp'.oid = dev.at /\ snmp'.descOid = dev.at /\ dev.at \in {1, 2}
            BY <2>3 DEF autoDiscover, SnmpIInv, SnmpTypeOK, Numbers
        <3>. QED
            BY <3>1 DEF Found
    <2>. QED
        BY <2>1, <2>2, <2>3
<1>4. SampleIsOurs' /\ CountedSince' /\ RatesAreTrue'
    BY <1>1 DEF SnmpIInv, SampleIsOurs, CountedSince, RatesAreTrue
<1>. QED
    BY <1>2, <1>3, <1>4 DEF SnmpIInv

(* The sample a test goes on with, after it saw the uptime: none, or one of  *)
(* which the uptime does not say that the device rebooted.                   *)
LEMMA UptimeSeen ==
    ASSUME SnmpIInv, NEW c, c = AfterUptime
    PROVE  /\ c \in [Lastv : 0..CounterMax, Lastt : Nat, of : Sample] /\ c.of = calc.of
           /\ c.Lastt # 0 => c = calc /\ (calc.of.lost \/ calc.of.up <= dev.up)
<1>1. ASSUME NEW r, r = [calc EXCEPT !.Lastt = 0, !.Lastv = 0]
      PROVE  r = [Lastv |-> 0, Lastt |-> 0, of |-> calc.of]
    BY <1>1 DEF SnmpIInv, SnmpTypeOK
<1>2. CASE Rebooted(dev.up)
    <2>1. c = [Lastv |-> 0, Lastt |-> 0, of |-> calc.of]
        BY <1>1, <1>2, Zenon DEF AfterUptime, ResetRateCalc
    <2>. QED
        BY <2>1, SnmpAssumption DEF SnmpIInv, SnmpTypeOK
<1>3. CASE ~Rebooted(dev.up)
    <2>1. c = calc
        BY <1>3 DEF AfterUptime
    <2>2. dev.up >= snmp.uptime /\ calc.of.up \in Nat /\ dev.up \in Nat /\ snmp.uptime \in Nat
        BY <1>3 DEF Rebooted, SnmpIInv, SnmpTypeOK, Sample
    <2>. QED
        BY <2>1, <2>2 DEF SnmpIInv, SnmpTypeOK, SampleIsOurs
<1>. QED
    BY <1>2, <1>3

(* An answer without the description: its uptime is seen and no value is.    *)
LEMMA NoDescriptionKeeps ==
    ASSUME SnmpIInv, NoDescription
    PROVE  SnmpIInv'
<1>1. PICK c : c = AfterUptime
    OBVIOUS
<1>2. /\ c \in [Lastv : 0..CounterMax, Lastt : Nat, of : Sample] /\ c.of = calc.of
      /\ c.Lastt # 0 => c = calc /\ (calc.of.lost \/ calc.of.up <= dev.up)
    BY <1>1, UptimeSeen
<1>3. /\ calc' = c /\ snmp' = [oid |-> snmp.oid, descOid |-> snmp.descOid, uptime |-> dev.up]
      /\ poll' = "idle" /\ UNCHANGED <<dev, second, delta>>
    BY <1>1 DEF NoDescription, SnmpIInv, SnmpTypeOK
<1>4. SnmpTypeOK'
    BY <1>2, <1>3 DEF SnmpIInv, SnmpTypeOK
<1>5. Found' /\ RatesAreTrue'
    BY <1>3 DEF SnmpIInv, Found, RatesAreTrue
<1>6. SampleIsOurs'
    BY <1>2, <1>3 DEF SnmpIInv, SampleIsOurs
<1>7. CountedSince'
    BY <1>2, <1>3 DEF SnmpIInv, CountedSince
<1>. QED
    BY <1>4, <1>5, <1>6, <1>7 DEF SnmpIInv

(* The number has become another interface's: it is forgotten, and the       *)
(* sample with it.                                                           *)
LEMMA ReconfiguredKeeps ==
    ASSUME SnmpIInv, Reconfigured
    PROVE  SnmpIInv'
<1>1. /\ calc' = [Lastv |-> 0, Lastt |-> 0, of |-> calc.of]
      /\ snmp' = [oid |-> 0, descOid |-> snmp.descOid, uptime |-> dev.up]
      /\ poll' = "idle" /\ UNCHANGED <<dev, second, delta>>
    BY DEF Reconfigured, ResetRateCalc, SnmpIInv, SnmpTypeOK
<1>2. SnmpTypeOK'
    BY <1>1, SnmpAssumption DEF SnmpIInv, SnmpTypeOK
<1>3. Found' /\ RatesAreTrue'
    BY <1>1 DEF SnmpIInv, Found, RatesAreTrue
<1>4. SampleIsOurs' /\ CountedSince'
    BY <1>1 DEF SnmpIInv, SampleIsOurs, CountedSince
<1>. QED
    BY <1>2, <1>3, <1>4 DEF SnmpIInv

(* A value is measured.  The sample before it is good, or it is skipped.     *)
LEMMA MeasuredKeeps ==
    ASSUME SnmpIInv, NEW junk \in BOOLEAN, Measured(junk)
    PROVE  SnmpIInv'
<1>1. PICK c : c = AfterUptime
    OBVIOUS
<1>2. /\ c \in [Lastv : 0..CounterMax, Lastt : Nat, of : Sample] /\ c.of = calc.of
      /\ c.Lastt # 0 => c = calc /\ (calc.of.lost \/ calc.of.up <= dev.up)
    BY <1>1, UptimeSeen
<1>3. snmp.oid = dev.at
    BY DEF Measured, SnmpIInv, Found
<1>4. PICK v \in 0..CounterMax : v = IF junk THEN 0 ELSE dev.counter
    BY SnmpAssumption DEF SnmpIInv, SnmpTypeOK
<1>5. PICK o \in Sample : o = [total |-> dev.total, boot |-> dev.boot, up |-> dev.up,
                               ours |-> TRUE, junk |-> junk, lost |-> FALSE]
    BY DEF SnmpIInv, SnmpTypeOK, Sample
<1>6. rateCalc(c, v, o)
    <2>1. [total |-> dev.total, boot |-> dev.boot, up |-> dev.up,
           ours |-> snmp.oid = dev.at, junk |-> junk, lost |-> FALSE] = o
        BY <1>3, <1>5
    <2>2. (IF junk \/ snmp.oid # dev.at THEN 0 ELSE dev.counter) = v
        BY <1>3, <1>4
    <2>3. rateCalc(AfterUptime, IF junk \/ snmp.oid # dev.at THEN 0 ELSE dev.counter,
                   [total |-> dev.total, boot |-> dev.boot, up |-> dev.up,
                    ours |-> snmp.oid = dev.at, junk |-> junk, lost |-> FALSE])
        BY DEF Measured
    <2>. QED
        BY <1>1, <2>1, <2>2, <2>3
<1>7. /\ snmp' = [oid |-> snmp.oid, descOid |-> snmp.descOid, uptime |-> dev.up]
      /\ poll' = "idle" /\ UNCHANGED <<dev, second>>
    BY DEF Measured, SnmpIInv, SnmpTypeOK
<1>8. o.total = dev.total /\ o.boot = dev.boot /\ o.up = dev.up /\ o.ours /\ o.junk = junk /\ ~o.lost
    BY <1>5
<1>9. calc' = c \/ calc' = [Lastv |-> v, Lastt |-> second, of |-> o]
    BY <1>6 DEF rateCalc, Sampled
<1>10. calc' = c => c.Lastt # 0 \/ calc' = [Lastv |-> v, Lastt |-> second, of |-> o]
    BY <1>6 DEF rateCalc, Sampled
<1>11. SnmpTypeOK'
    BY <1>2, <1>7, <1>9 DEF SnmpIInv, SnmpTypeOK
<1>12. Found'
    BY <1>7 DEF SnmpIInv, Found
<1>13. SampleIsOurs'
    <2>1. CASE calc' = c
        BY <1>2, <1>7, <2>1 DEF SnmpIInv, SampleIsOurs
    <2>2. CASE calc' = [Lastv |-> v, Lastt |-> second, of |-> o]
        BY <1>7, <1>8, <2>2 DEF SnmpIInv, SnmpTypeOK, SampleIsOurs
    <2>. QED
        BY <1>9, <2>1, <2>2
<1>14. CountedSince'
    <2>1. CASE calc' = c
        BY <1>2, <1>7, <2>1 DEF SnmpIInv, CountedSince
    <2>2. CASE calc' = [Lastv |-> v, Lastt |-> second, of |-> o]
        BY <1>4, <1>7, <1>8, <2>2 DEF SnmpIInv, SnmpTypeOK, CountedSince
    <2>. QED
        BY <1>9, <2>1, <2>2
<1>15. RatesAreTrue'
    <2>1. CASE Skips(c, v)
        BY <1>6, <2>1 DEF rateCalc, SnmpIInv, RatesAreTrue
    <2>2. CASE ~Skips(c, v)
        <3>1. c.Lastt # 0 /\ c = calc /\ (calc.of.lost \/ calc.of.up <= dev.up)
            BY <1>2, <2>2 DEF Skips
        <3>2. delta' = [dv |-> Grown(calc, v), lastv |-> calc.Lastv, from |-> calc.of, to |-> o]
            BY <1>6, <2>2, <3>1 DEF rateCalc
        <3>3. /\ delta'.dv = Grown(calc, v) /\ delta'.lastv = calc.Lastv
              /\ delta'.from = calc.of /\ delta'.to = o
            BY <3>2
        <3>4. ~(v < calc.Lastv /\ calc.Lastv < HalfMax)
            BY <2>2, <3>1 DEF Skips
        <3>5. /\ calc.of.total \in Nat /\ calc.of.boot \in Nat /\ calc.of.up \in Nat
              /\ calc.Lastv \in 0..CounterMax /\ CounterMax \in Nat /\ HalfMax \in Nat
              /\ dev.counter \in 0..CounterMax /\ dev.total \in Nat /\ dev.up \in Nat /\ dev.boot \in Nat
            BY SnmpAssumption DEF SnmpIInv, SnmpTypeOK, Sample
        <3>6. delta'.from.ours /\ delta'.to.ours
            BY <1>8, <3>3 DEF SnmpIInv, SampleIsOurs
        <3>7. delta'.from.boot = delta'.to.boot \/ UnseenReboot(delta')
            BY <1>8, <3>1, <3>3, <3>5 DEF UnseenReboot
        <3>8. ASSUME ~calc.of.junk, ~junk
              PROVE  \/ delta'.dv <= PassedBetween(delta')
                     \/ UnseenReboot(delta') /\ delta'.lastv >= HalfMax
            <4>1. v = dev.counter
                BY <1>4, <3>8
            <4>2. PassedBetween(delta') = dev.total - calc.of.total
                BY <1>8, <3>3 DEF PassedBetween
            <4>3. CASE calc.of.boot = dev.boot
                BY <3>1, <3>3, <3>5, <3>8, <4>1, <4>2, <4>3 DEF SnmpIInv, CountedSince, Grown
            <4>4. CASE calc.of.boot # dev.boot
                <5>1. dev.total - calc.of.total >= dev.counter
                    BY <3>1, <3>8, <4>4 DEF SnmpIInv, CountedSince
                <5>2. CASE v < calc.Lastv
                    BY <1>8, <3>3, <3>4, <3>5, <3>7, <4>4, <5>2
                <5>3. CASE ~(v < calc.Lastv)
                    BY <3>3, <3>5, <4>1, <4>2, <5>1, <5>3 DEF Grown
                <5>. QED
                    BY <5>2, <5>3
            <4>. QED
                BY <4>3, <4>4
        <3>. QED
            BY <1>8, <3>3, <3>6, <3>7, <3>8 DEF RatesAreTrue
    <2>. QED
        BY <2>1, <2>2
<1>. QED
    BY <1>11, <1>12, <1>13, <1>14, <1>15 DEF SnmpIInv

(* rateCalc, verifyResults: for any counter, what is reported was counted by *)
(* our interface between two samples, but for two exceptions the code does   *)
(* not see, however often the device reboots, renumbers its interfaces or    *)
(* goes round, and argus restarts.                                           *)
THEOREM RatesCounted == SnmpSpec => []RatesAreTrue
<1>1. SnmpIInv /\ [SnmpNext]_snmpVars => SnmpIInv'
    <2>. SUFFICES ASSUME SnmpIInv, [SnmpNext]_snmpVars PROVE SnmpIInv'
        OBVIOUS
    <2>1. CASE UNCHANGED snmpVars
        BY <2>1 DEF snmpVars, SnmpIInv, SnmpTypeOK, Found, SampleIsOurs, CountedSince, RatesAreTrue
    <2>2. CASE Value \/ NoNumber
        BY <2>2, MeasuredKeeps DEF Value, NoNumber
    <2>. QED
        BY <2>1, <2>2, SecondKeeps, RebootKeeps, RenumberKeeps, RestartsKeeps, PollKeeps,
           NoDescriptionKeeps, ReconfiguredKeeps DEF SnmpNext
<1>2. SnmpIInv => RatesAreTrue
    BY DEF SnmpIInv
<1>. QED
    BY <1>1, <1>2, SnmpStart, PTL DEF SnmpSpec
-----------------------------------------------------------------------------
(* The types of a test and of a verdict.                                     *)
ProbeState == [pc : {"idle", "asked"}, at : Addresses, asked : Int, redirects : Int,
               started : Int, idx : Addresses, os : Int]

VerdictState == [up : BOOLEAN, heard : BOOLEAN, of : Int \X Int, before : Int \X Int]

ProbesTypeOK ==
    /\ host \in [at : [Addresses -> Conditions], os : Int]
    /\ probe \in [Services -> ProbeState] /\ verdict \in [Services -> VerdictState]
    /\ webCache \in [of : Int \X Int, created : Int, creator : Int]
    /\ time \in Int /\ refused \in [Services -> Nat]

(* A test that waits for an answer asked the address that is next, and that  *)
(* stays so until it fails.                                                  *)
AsksNext(pr) == pr.pc = "asked" => pr.at = pr.idx

(* The failures in a row: the other address failed last, before it this one. *)
FailedBefore(p) ==
    /\ refused[p] >= 1 => host.at[1 - probe[p].idx] \in Left
    /\ refused[p] >= 2 => host.at[probe[p].idx] \in Left

NotWithoutHearing(v) == v.up => v.heard \/ (kind \in {"toeof", "url"} /\ ~expects)

ProbesIInv ==
    /\ ProbesTypeOK
    /\ \A p \in Services : AsksNext(probe[p]) /\ FailedBefore(p) /\ NotWithoutHearing(verdict[p])
    /\ kind = "none" => \A p \in Services : refused[p] = 0 /\ ~verdict[p].up

(* At first nothing was asked, and no service is up.                         *)
LEMMA ProbesStart == ProbesInit => ProbesIInv
<1>. SUFFICES ASSUME ProbesInit PROVE ProbesIInv
    OBVIOUS
<1>1. -Delay \in Int
    BY ProbesAssumption
<1>2. \A p \in Services : /\ probe[p] = [pc |-> "idle", at |-> 0, asked |-> 0, redirects |-> 0,
                                         started |-> -Delay, idx |-> 0, os |-> 0]
                          /\ verdict[p] = [up |-> FALSE, heard |-> FALSE, of |-> Nobody, before |-> Nobody]
                          /\ refused[p] = 0
    BY DEF ProbesInit
<1>3. probe \in [Services -> ProbeState]
    BY <1>1 DEF ProbesInit, ProbeState, Addresses
<1>4. verdict \in [Services -> VerdictState]
    BY DEF ProbesInit, VerdictState, Nobody
<1>5. host \in [at : [Addresses -> Conditions], os : Int] /\ refused \in [Services -> Nat]
    BY DEF ProbesInit, Conditions
<1>6. webCache \in [of : Int \X Int, created : Int, creator : Int] /\ time \in Int
    BY DEF ProbesInit, NoEntry, Nobody
<1>. QED
    BY <1>2, <1>3, <1>4, <1>5, <1>6 DEF ProbesIInv, ProbesTypeOK, AsksNext, FailedBefore, NotWithoutHearing

(* A test that is over is at the address of before.                          *)
LEMMA DoneIs ==
    ASSUME NEW pr \in ProbeState, NEW r, r = Done(pr)
    PROVE  r \in ProbeState /\ r.pc = "idle" /\ r.idx = pr.idx /\ r.started = pr.started
BY DEF ProbeState, Done

(* Of the two addresses the other one is next.                               *)
LEMMA TryAnotherIs ==
    ASSUME NEW pr \in ProbeState, NEW r, r = TryAnother(pr)
    PROVE  r \in ProbeState /\ r.pc = pr.pc /\ r.idx = 1 - pr.idx /\ r.started = pr.started
<1>1. Cardinality(Addresses) = 2
    <2>1. IsFiniteSet({0}) /\ Cardinality({0}) = 1
        BY FS_Singleton
    <2>2. Addresses = {0} \cup {1} /\ 1 \notin {0}
        BY DEF Addresses
    <2>. QED
        BY <2>1, <2>2, FS_AddElement
<1>2. pr.idx \in {0, 1}
    BY DEF ProbeState, Addresses
<1>3. (pr.idx + 1) % 2 = 1 - pr.idx
    BY <1>2
<1>4. 1 - pr.idx \in {0, 1}
    BY <1>2
<1>. QED
    BY <1>1, <1>3, <1>4 DEF ProbeState, TryAnother, Addresses

(* A test that asks, asks the address that is next.                          *)
LEMMA AskedIs ==
    ASSUME NEW pr \in ProbeState, NEW t \in Int, NEW r,
           r = [pr EXCEPT !.pc = "asked", !.at = pr.idx, !.asked = t]
    PROVE  r \in ProbeState /\ r.pc = "asked" /\ r.idx = pr.idx /\ r.at = pr.idx
BY DEF ProbeState

(* A test that begins, and one that is redirected, are at the address of     *)
(* before.                                                                   *)
LEMMA SameAddress ==
    ASSUME NEW pr \in ProbeState, NEW t \in Int
    PROVE  /\ \A r : r = [pr EXCEPT !.started = t, !.redirects = 0] => r \in ProbeState /\ r.idx = pr.idx
           /\ \A r : r = [pr EXCEPT !.redirects = @ + 1] => r \in ProbeState /\ r.idx = pr.idx
<1>1. ASSUME NEW r, r = [pr EXCEPT !.started = t, !.redirects = 0]
      PROVE  r \in ProbeState /\ r.idx = pr.idx
    <2>1. r = [pc |-> pr.pc, at |-> pr.at, asked |-> pr.asked, redirects |-> 0,
               started |-> t, idx |-> pr.idx, os |-> pr.os]
        BY <1>1 DEF ProbeState
    <2>. QED
        BY <2>1 DEF ProbeState
<1>2. ASSUME NEW r, r = [pr EXCEPT !.redirects = @ + 1]
      PROVE  r \in ProbeState /\ r.idx = pr.idx
    <2>1. pr.redirects \in Int
        BY DEF ProbeState
    <2>2. r = [pc |-> pr.pc, at |-> pr.at, asked |-> pr.asked, redirects |-> pr.redirects + 1,
               started |-> pr.started, idx |-> pr.idx, os |-> pr.os]
        BY <1>2 DEF ProbeState
    <2>. QED
        BY <2>1, <2>2 DEF ProbeState
<1>. QED
    BY <1>1, <1>2

(* What a step of a service does: its test goes on at the same address, its  *)
(* failures are forgotten, or it moves from an address that failed.          *)
ProbeStep(p) ==
    \E r \in ProbeState :
        /\ probe' = [probe EXCEPT ![p] = r] /\ AsksNext(r)
        /\ \/ refused' = [refused EXCEPT ![p] = 0]
           \/ refused' = refused /\ r.idx = probe[p].idx
           \/ /\ refused' = [refused EXCEPT ![p] = @ + 1] /\ r.idx = 1 - probe[p].idx
              /\ host.at[probe[p].idx] \in Left

VerdictStep(p) ==
    \/ verdict' = verdict
    \/ \E v \in VerdictState : verdict' = [verdict EXCEPT ![p] = v] /\ NotWithoutHearing(v)

(* A verdict, up only when there was an answer or none is needed.            *)
LEMMA VerdictIs ==
    ASSUME ProbesTypeOK, NEW p \in Services, NEW u \in BOOLEAN, NEW h \in BOOLEAN, NEW o \in Int \X Int,
           Verdict(p, u, h, o), u => h \/ (kind \in {"toeof", "url"} /\ ~expects)
    PROVE  VerdictStep(p)
<1>1. PICK v : v = [up |-> u, heard |-> h, of |-> o, before |-> verdict[p].of]
    OBVIOUS
<1>2. v \in VerdictState /\ v.up = u /\ v.heard = h
    BY <1>1 DEF ProbesTypeOK, VerdictState
<1>3. verdict' = [verdict EXCEPT ![p] = v]
    BY <1>1 DEF Verdict, ProbesTypeOK
<1>. QED
    BY <1>2, <1>3 DEF VerdictStep, NotWithoutHearing

(* A test that fails.                                                        *)
LEMMA DownIs ==
    ASSUME ProbesTypeOK, NEW p \in Services, Down(p)
    PROVE  VerdictStep(p)
<1>1. PICK w \in VerdictState : w = verdict[p]
    BY DEF ProbesTypeOK
<1>2. PICK v : v = [w EXCEPT !.up = FALSE, !.heard = FALSE]
    OBVIOUS
<1>3. v \in VerdictState /\ ~v.up
    BY <1>2 DEF VerdictState
<1>4. verdict' = [verdict EXCEPT ![p] = v]
    BY <1>1, <1>2 DEF Down, ProbesTypeOK
<1>. QED
    BY <1>3, <1>4 DEF VerdictStep, NotWithoutHearing

(* A connection is refused, or the question is asked.                        *)
LEMMA ConnectSteps ==
    ASSUME ProbesTypeOK, NEW p \in Services, NEW pr \in ProbeState, pr.idx = probe[p].idx, Connect(p, pr)
    PROVE  ProbeStep(p) /\ VerdictStep(p)
<1>1. CASE kind \in Streams /\ host.at[pr.idx] = "dead"
    <2>1. PICK d \in ProbeState : d = Done(pr) /\ d.pc = "idle" /\ d.idx = pr.idx
        BY DoneIs
    <2>2. PICK r \in ProbeState : r = TryAnother(d) /\ r.pc = "idle" /\ r.idx = 1 - pr.idx
        BY <2>1, TryAnotherIs
    <2>3. Down(p) /\ probe' = [probe EXCEPT ![p] = r] /\ refused' = [refused EXCEPT ![p] = @ + 1]
        BY <1>1, <2>1, <2>2 DEF Connect, Refused
    <2>4. AsksNext(r) /\ host.at[probe[p].idx] \in Left
        BY <1>1, <2>2 DEF AsksNext, Left
    <2>. QED
        BY <2>2, <2>3, <2>4, DownIs DEF ProbeStep
<1>2. CASE ~(kind \in Streams /\ host.at[pr.idx] = "dead")
    <2>1. time \in Int
        BY DEF ProbesTypeOK
    <2>2. PICK r : r = [pr EXCEPT !.pc = "asked", !.at = pr.idx, !.asked = time]
        OBVIOUS
    <2>3. r \in ProbeState /\ r.pc = "asked" /\ r.idx = pr.idx /\ r.at = pr.idx
        BY <2>1, <2>2, AskedIs
    <2>4. probe' = [probe EXCEPT ![p] = r] /\ refused' = refused /\ verdict' = verdict
        BY <1>2, <2>2 DEF Connect
    <2>. QED
        BY <2>3, <2>4 DEF ProbeStep, VerdictStep, AsksNext
<1>. QED
    BY <1>1, <1>2

(* A test ends with a verdict on what was answered.                          *)
LEMMA JudgedSteps ==
    ASSUME ProbesTypeOK, NEW p \in Services, NEW u \in BOOLEAN, Judged(p, u),
           u => Heard(Answer(p)) \/ (kind \in {"toeof", "url"} /\ ~expects)
    PROVE  ProbeStep(p) /\ VerdictStep(p)
<1>1. probe[p] \in ProbeState /\ Mine(p) \in Int \X Int /\ Heard(Answer(p)) \in BOOLEAN
    BY DEF ProbesTypeOK, ProbeState, Services, Mine, Heard
<1>2. VerdictStep(p)
    BY <1>1, VerdictIs DEF Judged
<1>3. PICK r \in ProbeState : r = Done(probe[p]) /\ r.pc = "idle" /\ r.idx = probe[p].idx
    BY <1>1, DoneIs
<1>4. probe' = [probe EXCEPT ![p] = r] /\ refused' = [refused EXCEPT ![p] = 0]
    BY <1>3 DEF Judged
<1>. QED
    BY <1>2, <1>3, <1>4 DEF ProbeStep, AsksNext

(* A failure moves on, of the monitors whose failures do, from an address    *)
(* that is one of those they leave.                                          *)
LEMMA FailedSteps ==
    ASSUME ProbesTypeOK, NEW p \in Services, AsksNext(probe[p]), probe[p].pc = "asked", TestFailed(p),
           kind \in {"udp", "dns"} => Answer(p) \in Left
    PROVE  ProbeStep(p) /\ VerdictStep(p)
<1>1. probe[p] \in ProbeState
    BY DEF ProbesTypeOK
<1>2. VerdictStep(p)
    BY DownIs DEF TestFailed
<1>3. PICK d \in ProbeState : d = Done(probe[p]) /\ d.pc = "idle" /\ d.idx = probe[p].idx
    BY <1>1, DoneIs
<1>4. CASE kind \in {"udp", "dns"}
    <2>1. PICK r \in ProbeState : r = TryAnother(d) /\ r.pc = "idle" /\ r.idx = 1 - probe[p].idx
        BY <1>3, TryAnotherIs
    <2>2. probe' = [probe EXCEPT ![p] = r] /\ refused' = [refused EXCEPT ![p] = @ + 1]
        BY <1>3, <1>4, <2>1 DEF TestFailed
    <2>3. host.at[probe[p].idx] \in Left /\ AsksNext(r)
        BY <1>4, <2>1 DEF AsksNext, Answer
    <2>. QED
        BY <1>2, <2>1, <2>2, <2>3 DEF ProbeStep
<1>5. CASE kind \notin {"udp", "dns"}
    <2>1. probe' = [probe EXCEPT ![p] = d] /\ refused' = [refused EXCEPT ![p] = 0]
        BY <1>3, <1>5 DEF TestFailed
    <2>. QED
        BY <1>2, <1>3, <2>1 DEF ProbeStep, AsksNext
<1>. QED
    BY <1>4, <1>5

(* A step of a service keeps the invariant.                                  *)
LEMMA ServiceStepKeeps ==
    ASSUME ProbesIInv, NEW p \in Services, ProbeStep(p), VerdictStep(p), kind # "none",
           UNCHANGED <<kind, expects, host, time>>,
           webCache' \in [of : Int \X Int, created : Int, creator : Int]
    PROVE  ProbesIInv'
<1>1. ProbesTypeOK /\ \A q \in Services : AsksNext(probe[q]) /\ FailedBefore(q) /\ NotWithoutHearing(verdict[q])
    BY DEF ProbesIInv
<1>2. PICK r \in ProbeState :
          /\ probe' = [probe EXCEPT ![p] = r] /\ AsksNext(r)
          /\ \/ refused' = [refused EXCEPT ![p] = 0]
             \/ refused' = refused /\ r.idx = probe[p].idx
             \/ /\ refused' = [refused EXCEPT ![p] = @ + 1] /\ r.idx = 1 - probe[p].idx
                /\ host.at[probe[p].idx] \in Left
    BY DEF ProbeStep
<1>3. ProbesTypeOK'
    BY <1>1, <1>2 DEF ProbesTypeOK, VerdictStep
<1>4. ASSUME NEW q \in Services PROVE AsksNext(probe[q])'
    BY <1>1, <1>2 DEF ProbesTypeOK, AsksNext
<1>5. Left' = Left
    BY DEF Left
<1>6. ASSUME NEW q \in Services PROVE FailedBefore(q)'
    <2>1. CASE q # p
        BY <1>1, <1>2, <1>5, <2>1 DEF ProbesTypeOK, FailedBefore
    <2>2. CASE q = p
        <3>1. probe'[p] = r /\ refused[p] \in Nat /\ host' = host
            BY <1>1, <1>2 DEF ProbesTypeOK
        <3>2. CASE refused' = [refused EXCEPT ![p] = 0]
            BY <1>1, <2>2, <3>2 DEF ProbesTypeOK, FailedBefore
        <3>3. CASE refused' = refused /\ r.idx = probe[p].idx
            BY <1>1, <1>5, <2>2, <3>1, <3>3 DEF FailedBefore
        <3>4. CASE /\ refused' = [refused EXCEPT ![p] = @ + 1] /\ r.idx = 1 - probe[p].idx
                   /\ host.at[probe[p].idx] \in Left
            <4>1. probe[p].idx \in Int /\ 1 - (1 - probe[p].idx) = probe[p].idx /\ refused'[p] = refused[p] + 1
                BY <1>1, <3>4 DEF ProbesTypeOK, ProbeState, Addresses
            <4>. QED
                BY <1>1, <1>5, <2>2, <3>1, <3>4, <4>1 DEF FailedBefore
        <3>. QED
            BY <1>2, <3>2, <3>3, <3>4
    <2>. QED
        BY <2>1, <2>2
<1>7. ASSUME NEW q \in Services PROVE NotWithoutHearing(verdict[q])'
    BY <1>1 DEF ProbesTypeOK, VerdictStep, NotWithoutHearing
<1>. QED
    BY <1>3, <1>4, <1>6, <1>7 DEF ProbesIInv

(* A step of a test, of each kind.                                           *)
ServiceStep(p) ==
    /\ ProbeStep(p) /\ VerdictStep(p) /\ kind # "none"
    /\ UNCHANGED <<kind, expects, host, time>>
    /\ webCache' \in [of : Int \X Int, created : Int, creator : Int]

(* A test starts.                                                            *)
LEMMA StartSteps ==
    ASSUME ProbesTypeOK, NEW p \in Services, AsksNext(probe[p]), StartTest(p)
    PROVE  ServiceStep(p)
<1>1. /\ kind # "none" /\ UNCHANGED <<kind, expects, host, time>> /\ webCache' = webCache
      /\ probe[p] \in ProbeState /\ probe[p].pc = "idle" /\ time \in Int
    BY DEF StartTest, Asking, Streams, ProbesTypeOK
<1>2. webCache' \in [of : Int \X Int, created : Int, creator : Int]
    BY <1>1 DEF ProbesTypeOK
<1>3. PICK s : s = [probe[p] EXCEPT !.started = time]
    OBVIOUS
<1>4. s \in ProbeState /\ s.pc = "idle" /\ s.idx = probe[p].idx
    BY <1>1, <1>3 DEF ProbeState
<1>5. ASSUME kind = "url", StartCached(p)
      PROVE  ProbeStep(p) /\ VerdictStep(p)
    <2>1. probe' = [probe EXCEPT ![p] = s] /\ refused' = refused
        BY <1>3, <1>5 DEF StartCached
    <2>2. ProbeStep(p)
        BY <1>4, <2>1 DEF ProbeStep, AsksNext
    <2>3. PICK c \in {"good", "bad"} : Verdict(p, IsExpected(c), TRUE, webCache.of)
        BY <1>5 DEF StartCached
    <2>4. webCache.of \in Int \X Int
        BY DEF ProbesTypeOK
    <2>5. IsExpected(c) \in BOOLEAN
        BY DEF IsExpected
    <2>6. VerdictStep(p)
        BY <2>3, <2>4, <2>5, VerdictIs
    <2>. QED
        BY <2>2, <2>6
<1>6. ASSUME NoAddress(p)
      PROVE  ProbeStep(p) /\ VerdictStep(p)
    <2>1. VerdictStep(p)
        BY <1>6, DownIs DEF NoAddress, VerdictStep
    <2>2. PICK r \in ProbeState : r = TryAnother(s) /\ r.pc = "idle"
        BY <1>4, TryAnotherIs
    <2>3. refused' = [refused EXCEPT ![p] = 0]
        BY <1>6 DEF NoAddress
    <2>4. probe' = [probe EXCEPT ![p] = r] \/ probe' = [probe EXCEPT ![p] = s]
        BY <1>3, <1>6, <2>2 DEF NoAddress
    <2>. QED
        BY <1>4, <2>1, <2>2, <2>3, <2>4 DEF ProbeStep, AsksNext
<1>7. ASSUME Connect(p, [probe[p] EXCEPT !.started = time, !.redirects = 0])
      PROVE  ProbeStep(p) /\ VerdictStep(p)
    <2>1. PICK r : r = [probe[p] EXCEPT !.started = time, !.redirects = 0]
        OBVIOUS
    <2>2. r \in ProbeState /\ r.idx = probe[p].idx
        BY <1>1, <2>1, SameAddress
    <2>3. Connect(p, r)
        BY <1>7, <2>1
    <2>. QED
        BY <2>2, <2>3, ConnectSteps
<1>8. ProbeStep(p) /\ VerdictStep(p)
    BY <1>5, <1>6, <1>7, Zenon DEF StartTest
<1>. QED
    BY <1>1, <1>2, <1>8 DEF ServiceStep

(* What the host answered, where it was asked.                               *)
LEMMA AnswerIs ==
    ASSUME ProbesTypeOK, NEW p \in Services, AsksNext(probe[p]), probe[p].pc = "asked"
    PROVE  /\ Answer(p) \in Conditions /\ Answer(p) = host.at[probe[p].idx]
           /\ ~Silent(Answer(p)) => Heard(Answer(p))
           /\ IsExpected(Answer(p)) => Heard(Answer(p)) \/ ~expects
           /\ IsExpected(Answer(p)) \in BOOLEAN
<1>1. Answer(p) \in Conditions /\ Answer(p) = host.at[probe[p].idx]
    BY DEF ProbesTypeOK, ProbeState, AsksNext, Answer
<1>2. ~Silent(Answer(p)) => Heard(Answer(p))
    BY <1>1 DEF Conditions, Silent, Heard
<1>. QED
    BY <1>1, <1>2 DEF IsExpected, Heard

(* What tcp, udp and dns make of the answer.                                 *)
LEMMA AskedSteps ==
    ASSUME ProbesTypeOK, NEW p \in Services, AsksNext(probe[p]), probe[p].pc = "asked",
           TCPAnswered(p) \/ UDPAnswered(p) \/ DNSAnswered(p)
    PROVE  ProbeStep(p) /\ VerdictStep(p)
<1>1. PICK c \in Conditions : /\ c = Answer(p)
                              /\ ~Silent(c) => Heard(c)
                              /\ IsExpected(c) => Heard(c) \/ ~expects
                              /\ IsExpected(c) \in BOOLEAN
    BY AnswerIs
<1>2. \/ TestFailed(p) /\ (kind \in {"udp", "dns"} => c \in Left)
      \/ Judged(p, IsExpected(c)) /\ (IsExpected(c) => Heard(c) \/ (kind \in {"toeof", "url"} /\ ~expects))
    <2>1. CASE TCPAnswered(p)
        BY <1>1, <2>1 DEF TCPAnswered
    <2>2. CASE UDPAnswered(p)
        <3>1. kind = "udp" /\ kind \notin Streams /\ kind # "dns"
            BY <2>2 DEF UDPAnswered, Streams
        <3>2. c \in {"mute", "dead"} \/ (c = "odd" /\ Verify) => TestFailed(p) /\ c \in Left
            BY <1>1, <2>2, <3>1 DEF UDPAnswered, Left
        <3>3. ~(c \in {"mute", "dead"} \/ (c = "odd" /\ Verify)) => Judged(p, IsExpected(c)) /\ Heard(c)
            BY <1>1, <2>2, <3>1 DEF UDPAnswered, Heard, Conditions
        <3>. QED
            BY <3>2, <3>3
    <2>3. CASE DNSAnswered(p)
        <3>1. kind = "dns" /\ kind \notin Streams
            BY <2>3 DEF DNSAnswered, Streams
        <3>2. Silent(c) => TestFailed(p) /\ c \in Left
            BY <1>1, <2>3, <3>1 DEF DNSAnswered, Left, Silent
        <3>. QED
            BY <1>1, <2>3, <3>2 DEF DNSAnswered
    <2>. QED
        BY <2>1, <2>2, <2>3
<1>. QED
    BY <1>1, <1>2, FailedSteps, JudgedSteps

(* A page is judged, asked for again, or given up.                           *)
LEMMA PageSteps ==
    ASSUME ProbesTypeOK, NEW p \in Services, AsksNext(probe[p]), probe[p].pc = "asked", URLAnswered(p)
    PROVE  /\ ProbeStep(p) /\ VerdictStep(p)
           /\ webCache' \in [of : Int \X Int, created : Int, creator : Int]
<1>1. PICK c \in Conditions : c = Answer(p) /\ (IsExpected(c) => Heard(c) \/ ~expects) /\ IsExpected(c) \in BOOLEAN
    BY AnswerIs
<1>2. probe[p] \in ProbeState /\ Mine(p) \in Int \X Int /\ time \in Int /\ p \in Int
    BY DEF ProbesTypeOK, ProbeState, Services, Mine
<1>3. webCache' \in [of : Int \X Int, created : Int, creator : Int]
    BY <1>2 DEF URLAnswered, ProbesTypeOK
<1>4. CASE c = "moved"
    <2>1. Redirected(p)
        BY <1>1, <1>4 DEF URLAnswered
    <2>2. ASSUME Judged(p, FALSE) PROVE ProbeStep(p) /\ VerdictStep(p)
        BY <2>2, JudgedSteps
    <2>3. ASSUME Connect(p, [probe[p] EXCEPT !.redirects = @ + 1])
          PROVE  ProbeStep(p) /\ VerdictStep(p)
        <3>1. PICK r : r = [probe[p] EXCEPT !.redirects = @ + 1]
            OBVIOUS
        <3>2. r \in ProbeState /\ r.idx = probe[p].idx
            BY <1>2, <3>1, SameAddress
        <3>3. Connect(p, r)
            BY <2>3, <3>1
        <3>. QED
            BY <3>2, <3>3, ConnectSteps
    <2>4. ProbeStep(p) /\ VerdictStep(p)
        BY <2>1, <2>2, <2>3, Zenon DEF Redirected
    <2>. QED
        BY <1>3, <2>4
<1>5. CASE c # "moved"
    <2>1. Judged(p, IsExpected(c)) /\ kind = "url"
        BY <1>1, <1>5 DEF URLAnswered
    <2>. QED
        BY <1>1, <1>3, <2>1, JudgedSteps
<1>. QED
    BY <1>4, <1>5

(* The agent answers, and perhaps says that its OS is another one.           *)
LEMMA AgentSteps ==
    ASSUME ProbesTypeOK, NEW p \in Services, AsksNext(probe[p]), probe[p].pc = "asked", AgentAnswered(p)
    PROVE  ProbeStep(p) /\ VerdictStep(p)
<1>1. PICK c \in Conditions : c = Answer(p) /\ (~Silent(c) => Heard(c)) /\ IsExpected(c) \in BOOLEAN
    BY AnswerIs
<1>2. probe[p] \in ProbeState /\ Mine(p) \in Int \X Int /\ host.os \in Int
    BY DEF ProbesTypeOK, ProbeState, Services, Mine
<1>3. Heard(c) \in BOOLEAN /\ Silent(c) \in BOOLEAN
    BY DEF Heard, Silent
<1>4. ASSUME NEW o \in Int, NEW r, r = [probe[p] EXCEPT !.os = o], probe' = [probe EXCEPT ![p] = Done(r)]
      PROVE  ProbeStep(p)
    <2>1. r \in ProbeState /\ r.idx = probe[p].idx
        BY <1>2, <1>4 DEF ProbeState
    <2>2. PICK d \in ProbeState : d = Done(r) /\ d.pc = "idle" /\ d.idx = probe[p].idx
        BY <2>1, DoneIs
    <2>3. refused' = [refused EXCEPT ![p] = 0]
        BY DEF AgentAnswered
    <2>. QED
        BY <1>4, <2>2, <2>3 DEF ProbeStep, AsksNext
<1>5. PICK os \in Int : os = IF probe[p].os = 0 THEN host.os ELSE probe[p].os
    BY <1>2 DEF ProbeState
<1>6. CASE Silent(c) \/ os \notin OSes \/ os = host.os
    <2>1. /\ Verdict(p, ~Silent(c) /\ os \in OSes /\ IsExpected(c), Heard(c), Mine(p))
          /\ probe' = [probe EXCEPT ![p] = Done(IF Silent(c) THEN @ ELSE [@ EXCEPT !.os = os])]
        BY <1>1, <1>5, <1>6 DEF AgentAnswered
    <2>2. PICK u \in BOOLEAN : u = (~Silent(c) /\ os \in OSes /\ IsExpected(c))
        BY <1>1, <1>3
    <2>3. Verdict(p, u, Heard(c), Mine(p)) /\ (u => Heard(c))
        BY <1>1, <2>1, <2>2
    <2>4. VerdictStep(p)
        BY <1>2, <1>3, <2>3, VerdictIs
    <2>5. PICK o \in Int : o = IF Silent(c) THEN probe[p].os ELSE os
        BY <1>2 DEF ProbeState
    <2>6. PICK r : r = [probe[p] EXCEPT !.os = o]
        OBVIOUS
    <2>7. r = IF Silent(c) THEN probe[p] ELSE [probe[p] EXCEPT !.os = os]
        BY <1>2, <2>5, <2>6 DEF ProbeState
    <2>8. probe' = [probe EXCEPT ![p] = Done(r)]
        BY <2>1, <2>7
    <2>. QED
        BY <1>4, <2>4, <2>6, <2>8
<1>7. CASE ~(Silent(c) \/ os \notin OSes \/ os = host.os)
    <2>1. /\ probe' = [probe EXCEPT ![p] = Done([probe[p] EXCEPT !.os = host.os])]
          /\ verdict' = verdict
        BY <1>1, <1>5, <1>7 DEF AgentAnswered, ProbesTypeOK
    <2>. QED
        BY <1>2, <1>4, <2>1 DEF VerdictStep
<1>. QED
    BY <1>6, <1>7

(* A test ends, of any kind.                                                 *)
LEMMA EndSteps ==
    ASSUME ProbesTypeOK, NEW p \in Services, AsksNext(probe[p]), EndTest(p)
    PROVE  ServiceStep(p)
<1>1. /\ kind # "none" /\ UNCHANGED <<kind, expects, host, time>> /\ probe[p].pc = "asked"
      /\ webCache \in [of : Int \X Int, created : Int, creator : Int]
    BY DEF EndTest, TCPAnswered, UDPAnswered, DNSAnswered, URLAnswered, AgentAnswered, ProbesTypeOK
<1>2. CASE TCPAnswered(p) \/ UDPAnswered(p) \/ DNSAnswered(p)
    BY <1>1, <1>2, AskedSteps DEF ServiceStep, TCPAnswered, UDPAnswered, DNSAnswered
<1>3. CASE URLAnswered(p)
    BY <1>1, <1>3, PageSteps DEF ServiceStep
<1>4. CASE AgentAnswered(p)
    BY <1>1, <1>4, AgentSteps DEF ServiceStep, AgentAnswered
<1>. QED
    BY <1>2, <1>3, <1>4 DEF EndTest

(* A test that asks no host.                                                 *)
LEMMA LocalSteps ==
    ASSUME ProbesTypeOK, NEW p \in Services, AsksNext(probe[p]), StartLocal(p)
    PROVE  ServiceStep(p)
<1>1. /\ kind # "none" /\ UNCHANGED <<kind, expects, host, time>>
      /\ webCache' \in [of : Int \X Int, created : Int, creator : Int]
      /\ probe[p] \in ProbeState /\ time \in Int /\ <<time, p>> \in Int \X Int
    BY DEF StartLocal, ProbesTypeOK, Services
<1>2. PICK s : s = [probe[p] EXCEPT !.started = time]
    OBVIOUS
<1>3. s \in ProbeState /\ s.pc = probe[p].pc /\ s.idx = probe[p].idx /\ s.at = probe[p].at
    BY <1>1, <1>2 DEF ProbeState
<1>4. probe' = [probe EXCEPT ![p] = s] /\ refused' = refused
    BY <1>2 DEF StartLocal
<1>5. ProbeStep(p)
    BY <1>3, <1>4 DEF ProbeStep, AsksNext
<1>6. \/ verdict' = verdict
      \/ Down(p)
      \/ \E u \in BOOLEAN : Verdict(p, u, TRUE, <<time, p>>)
    <2>1. PICK c \in {"good", "bad", "fails"} :
              CASE kind = "compute" /\ c = "fails" -> UNCHANGED verdict
                [] kind \in {"prog", "database"} /\ c = "fails" -> Down(p)
                [] kind \in {"darpwatch", "isforced"} -> Verdict(p, c = "good", TRUE, <<time, p>>)
                [] OTHER -> Verdict(p, IsExpected(c), TRUE, <<time, p>>)
        BY DEF StartLocal
    <2>2. IsExpected(c) \in BOOLEAN /\ (c = "good") \in BOOLEAN
        BY DEF IsExpected
    <2>3. CASE kind = "compute" /\ c = "fails"
        BY <2>1, <2>3
    <2>4. CASE kind \in {"prog", "database"} /\ c = "fails"
        BY <2>1, <2>4
    <2>5. CASE kind \in {"darpwatch", "isforced"}
        BY <2>1, <2>2, <2>5
    <2>6. CASE ~(kind = "compute" /\ c = "fails") /\ ~(kind \in {"prog", "database"} /\ c = "fails")
               /\ kind \notin {"darpwatch", "isforced"}
        BY <2>1, <2>2, <2>6
    <2>. QED
        BY <2>3, <2>4, <2>5, <2>6
<1>7. VerdictStep(p)
    <2>1. CASE \E u \in BOOLEAN : Verdict(p, u, TRUE, <<time, p>>)
        BY <1>1, <2>1, VerdictIs
    <2>. QED
        BY <1>6, <2>1, DownIs DEF VerdictStep
<1>. QED
    BY <1>1, <1>5, <1>7 DEF ServiceStep

(* The configuration, the clock and what becomes of the host.                *)
LEMMA SurroundingsKeep ==
    ASSUME ProbesIInv, Seconds \/ Changed \/ \E k \in Kinds, e \in BOOLEAN : Configured(k, e)
    PROVE  ProbesIInv'
<1>1. ProbesTypeOK /\ \A p \in Services : AsksNext(probe[p]) /\ FailedBefore(p) /\ NotWithoutHearing(verdict[p])
    BY DEF ProbesIInv
<1>2. probe' = probe /\ verdict' = verdict /\ webCache' = webCache
    BY DEF Seconds, Changed, Configured
<1>3. CASE Seconds
    <2>1. ProbesTypeOK' /\ UNCHANGED <<kind, expects, host, refused>>
        BY <1>1, <1>3 DEF Seconds, ProbesTypeOK
    <2>. QED
        BY <1>2, <2>1 DEF ProbesIInv, AsksNext, FailedBefore, NotWithoutHearing, Left
<1>4. CASE Changed
    <2>1. host' \in [at : [Addresses -> Conditions], os : Int]
        <3>1. host \in [at : [Addresses -> Conditions], os : Int]
            BY <1>1 DEF ProbesTypeOK
        <3>2. ASSUME NEW a \in Addresses, NEW c \in Conditions, host' = [host EXCEPT !.at[a] = c]
              PROVE  host' \in [at : [Addresses -> Conditions], os : Int]
            BY <3>1, <3>2
        <3>3. ASSUME host' = [host EXCEPT !.os = 3 - @]
              PROVE  host' \in [at : [Addresses -> Conditions], os : Int]
            <4>1. host.os \in Int
                BY <3>1
            <4>. QED
                BY <3>1, <3>3, <4>1
        <3>. QED
            BY <1>4, <3>2, <3>3 DEF Changed
    <2>2. /\ UNCHANGED <<kind, expects, time>> /\ refused' = [p \in Services |-> 0]
        BY <1>4 DEF Changed
    <2>3. ProbesTypeOK'
        BY <1>1, <1>2, <2>1, <2>2 DEF ProbesTypeOK
    <2>4. \A p \in Services : refused'[p] = 0
        BY <2>2
    <2>. QED
        BY <1>1, <1>2, <2>2, <2>3, <2>4 DEF ProbesIInv, AsksNext, FailedBefore, NotWithoutHearing
<1>5. CASE \E k \in Kinds, e \in BOOLEAN : Configured(k, e)
    <2>1. kind = "none" /\ UNCHANGED <<host, time, refused>>
        BY <1>5 DEF Configured
    <2>2. \A p \in Services : refused'[p] = 0 /\ ~verdict'[p].up
        BY <1>2, <2>1 DEF ProbesIInv
    <2>3. ProbesTypeOK'
        BY <1>1, <1>2, <2>1 DEF ProbesTypeOK
    <2>. QED
        BY <1>1, <1>2, <2>2, <2>3 DEF ProbesIInv, AsksNext, FailedBefore, NotWithoutHearing
<1>. QED
    BY <1>3, <1>4, <1>5

(* Every step keeps the invariant.                                           *)
LEMMA ProbesKeep == ProbesIInv /\ [ProbesNext]_probesVars => ProbesIInv'
<1>. SUFFICES ASSUME ProbesIInv, [ProbesNext]_probesVars PROVE ProbesIInv'
    OBVIOUS
<1>1. CASE UNCHANGED probesVars
    BY <1>1 DEF probesVars, ProbesIInv, ProbesTypeOK, AsksNext, FailedBefore, NotWithoutHearing, Left
<1>2. ASSUME NEW p \in Testing, StartTest(p) \/ EndTest(p) \/ StartLocal(p)
      PROVE  ProbesIInv'
    <2>1. p \in Services /\ ProbesTypeOK /\ AsksNext(probe[p])
        BY DEF Testing, Services, ProbesIInv
    <2>2. ServiceStep(p)
        BY <1>2, <2>1, StartSteps, EndSteps, LocalSteps
    <2>. QED
        BY <2>1, <2>2, ServiceStepKeeps DEF ServiceStep
<1>. QED
    BY <1>1, <1>2, SurroundingsKeep DEF ProbesNext

(* TryAnother: no more tests in a row fail than there are addresses that do  *)
(* not work, unless none does.  The other address failed before this one.    *)
THEOREM FailuresLeaveTheAddress == ProbesSpec => []FailuresMoveOn
<1>1. ProbesIInv => FailuresMoveOn
    <2>. SUFFICES ASSUME ProbesIInv, NEW bad, bad = {a \in Addresses : host.at[a] \in Left},
                         bad # Addresses, NEW p \in Services
                  PROVE  refused[p] <= Cardinality(bad)
        BY DEF FailuresMoveOn
    <2>1. probe[p].idx \in {0, 1} /\ refused[p] \in Nat /\ FailedBefore(p)
        BY DEF ProbesIInv, ProbesTypeOK, ProbeState, Addresses
    <2>2. IsFiniteSet(Addresses)
        <3>1. IsFiniteSet({0}) /\ Addresses = {0} \cup {1}
            BY FS_Singleton DEF Addresses
        <3>. QED
            BY <3>1, FS_AddElement
    <2>3. bad \subseteq Addresses /\ IsFiniteSet(bad) /\ Cardinality(bad) \in Nat
        BY <2>2, FS_Subset, FS_CardinalityType
    <2>4. refused[p] < 2
        <3>1. SUFFICES ASSUME refused[p] >= 2 PROVE FALSE
            BY <2>1
        <3>2. host.at[1 - probe[p].idx] \in Left /\ host.at[probe[p].idx] \in Left
            BY <2>1, <3>1 DEF FailedBefore
        <3>3. \A a \in Addresses : a = probe[p].idx \/ a = 1 - probe[p].idx
            BY <2>1 DEF Addresses
        <3>4. \A a \in Addresses : host.at[a] \in Left
            BY <3>2, <3>3
        <3>. QED
            BY <3>4
    <2>5. CASE refused[p] = 0
        BY <2>3, <2>5
    <2>6. CASE refused[p] = 1
        <3>1. 1 - probe[p].idx \in bad
            BY <2>1, <2>6 DEF FailedBefore, Addresses
        <3>2. Cardinality(bad) # 0
            BY <2>3, <3>1, FS_EmptySet
        <3>. QED
            BY <2>3, <2>6, <3>2
    <2>. QED
        BY <2>1, <2>4, <2>5, <2>6
<1>. QED
    BY <1>1, ProbesStart, ProbesKeep, PTL DEF ProbesSpec

(* testAndCompare, Read: whatever the monitor, what is up was heard, except  *)
(* for what is read to its end and compared to nothing.                      *)
THEOREM UpOnlyWhenHeard == ProbesSpec => []UpWasHeard
<1>1. ProbesIInv => UpWasHeard
    BY DEF ProbesIInv, NotWithoutHearing, UpWasHeard
<1>. QED
    BY <1>1, ProbesStart, ProbesKeep, PTL DEF ProbesSpec
-----------------------------------------------------------------------------
(* A test that is judged is no later than the last one of its service, and   *)
(* is not the one that waits for an answer.                                  *)
Earlier(o, prs) ==
    \A p \in Services : o[2] = p =>
        /\ o[1] <= prs[p].started
        /\ prs[p].pc = "asked" => o[1] < prs[p].started

(* The page is its creator's.  A service that judged the other's copy was    *)
(* tested since it was made.                                                 *)
CopyIsKnown ==
    /\ webCache # NoEntry => webCache.of[2] = webCache.creator /\ webCache.creator \in Services
    /\ webCache.created <= time
    /\ Earlier(webCache.of, probe)
    /\ \A p \in Services :
          verdict[p].of = webCache.of /\ webCache.of[2] # p /\ webCache # NoEntry =>
              webCache.created <= probe[p].started

NewIInv ==
    /\ \A p \in Services : probe[p].pc = "asked" => kind \in Asking
    /\ CopyIsKnown
    /\ \A p \in Services : Earlier(verdict[p].of, probe)
    /\ EachTestIsNew

(* What is judged stays; or it is the test o.                                *)
SameOf(p) == verdict'[p].of = verdict[p].of /\ verdict'[p].before = verdict[p].before
NextOf(p, o) == verdict'[p].of = o /\ verdict'[p].before = verdict[p].of

(* A test goes on, begins, or ends.                                          *)
GoesOn(p) ==
    /\ probe[p].pc = "asked" /\ probe'[p].started = probe[p].started
    /\ SameOf(p) /\ webCache' = webCache

Begins(p) ==
    /\ probe[p].pc # "asked"
    /\ probe'[p].started = time /\ time >= probe[p].started + Delay
    /\ webCache' = webCache
    /\ \/ SameOf(p)
       \/ probe'[p].pc # "asked" /\ NextOf(p, <<time, p>>)
       \/ probe'[p].pc # "asked" /\ NextOf(p, webCache.of) /\ checkCached(p)

EndsWith(p) ==
    /\ probe[p].pc = "asked" /\ probe'[p].pc # "asked"
    /\ probe'[p].started = probe[p].started
    /\ SameOf(p) \/ NextOf(p, Mine(p))
    /\ webCache' = webCache \/ webCache' = [of |-> Mine(p), created |-> time, creator |-> p]

Elsewhere(p) == \A q \in Services \ {p} : probe'[q] = probe[q] /\ SameOf(q)

TestStep(p) ==
    /\ Elsewhere(p) /\ time' = time /\ kind' = kind
    /\ probe'[p].pc = "asked" => kind \in Asking
    /\ GoesOn(p) \/ Begins(p) \/ EndsWith(p)

(* The parts of a test's end: its verdict, or none.                          *)
LEMMA VerdictOf ==
    ASSUME ProbesTypeOK, NEW p \in Services, NEW u, NEW h, NEW o, Verdict(p, u, h, o)
    PROVE  NextOf(p, o) /\ \A q \in Services \ {p} : SameOf(q)
<1>1. DOMAIN verdict = Services
    BY DEF ProbesTypeOK
<1>2. /\ verdict'[p] = [up |-> u, heard |-> h, of |-> o, before |-> verdict[p].of]
      /\ \A q \in Services \ {p} : verdict'[q] = verdict[q]
    BY <1>1 DEF Verdict
<1>. QED
    BY <1>2 DEF NextOf, SameOf

LEMMA DownOf ==
    ASSUME ProbesTypeOK, NEW p \in Services, Down(p)
    PROVE  \A q \in Services : SameOf(q)
<1>1. PICK w \in VerdictState : w = verdict[p]
    BY DEF ProbesTypeOK
<1>2. PICK v : v = [w EXCEPT !.up = FALSE, !.heard = FALSE]
    OBVIOUS
<1>3. v.of = w.of /\ v.before = w.before
    BY <1>2 DEF VerdictState
<1>4. verdict' = [verdict EXCEPT ![p] = v] /\ DOMAIN verdict = Services
    BY <1>1, <1>2 DEF Down, ProbesTypeOK
<1>5. verdict'[p] = v /\ \A q \in Services \ {p} : verdict'[q] = verdict[q]
    BY <1>4
<1>. QED
    BY <1>1, <1>3, <1>5 DEF SameOf

(* What a step does to a test, and to no other.                              *)
LEMMA ProbeOf ==
    ASSUME ProbesTypeOK, NEW p \in Services, NEW r, probe' = [probe EXCEPT ![p] = r]
    PROVE  probe'[p] = r /\ \A q \in Services \ {p} : probe'[q] = probe[q]
BY DEF ProbesTypeOK

LEMMA ConnectOf ==
    ASSUME ProbesTypeOK, NEW p \in Services, NEW pr \in ProbeState, Connect(p, pr)
    PROVE  /\ probe'[p].started = pr.started /\ \A q \in Services \ {p} : probe'[q] = probe[q]
           /\ \A q \in Services : SameOf(q)
<1>1. CASE kind \in Streams /\ host.at[pr.idx] = "dead"
    <2>1. PICK d \in ProbeState : d = Done(pr) /\ d.started = pr.started
        BY DoneIs
    <2>2. PICK r \in ProbeState : r = TryAnother(d) /\ r.started = pr.started
        BY <2>1, TryAnotherIs
    <2>3. Down(p) /\ probe' = [probe EXCEPT ![p] = r]
        BY <1>1, <2>1, <2>2 DEF Connect, Refused
    <2>. QED
        BY <2>2, <2>3, DownOf, ProbeOf
<1>2. CASE ~(kind \in Streams /\ host.at[pr.idx] = "dead")
    <2>1. PICK r : r = [pr EXCEPT !.pc = "asked", !.at = pr.idx, !.asked = time]
        OBVIOUS
    <2>2. r.started = pr.started
        BY <2>1 DEF ProbeState
    <2>3. probe' = [probe EXCEPT ![p] = r] /\ verdict' = verdict
        BY <1>2, <2>1 DEF Connect
    <2>. QED
        BY <2>2, <2>3, ProbeOf DEF SameOf
<1>. QED
    BY <1>1, <1>2

LEMMA StartIs ==
    ASSUME ProbesTypeOK, NEW p \in Services, StartTest(p)
    PROVE  TestStep(p)
<1>1. /\ kind \in Asking /\ probe[p].pc = "idle" /\ time >= probe[p].started + Delay
      /\ UNCHANGED <<kind, webCache, time>>
    BY DEF StartTest
<1>2. time \in Int /\ probe[p] \in ProbeState
    BY DEF ProbesTypeOK
<1>3. PICK r : r = [probe[p] EXCEPT !.started = time]
    OBVIOUS
<1>4. r \in ProbeState /\ r.started = time /\ r.pc = "idle"
    BY <1>1, <1>2, <1>3 DEF ProbeState
<1>5. CASE checkCached(p) /\ StartCached(p)
    <2>1. probe' = [probe EXCEPT ![p] = r]
        BY <1>3, <1>5 DEF StartCached, ProbesTypeOK
    <2>2. NextOf(p, webCache.of) /\ \A q \in Services \ {p} : SameOf(q)
        BY <1>5, VerdictOf DEF StartCached
    <2>3. probe'[p] = r /\ \A q \in Services \ {p} : probe'[q] = probe[q]
        BY <2>1, ProbeOf
    <2>. QED
        BY <1>1, <1>4, <1>5, <2>2, <2>3 DEF TestStep, Begins, Elsewhere
<1>6. CASE NoAddress(p)
    <2>1. \A q \in Services : SameOf(q)
        BY <1>6, DownOf DEF NoAddress, SameOf
    <2>2. PICK t : t = IF kind = "udp" THEN TryAnother(r) ELSE r
        OBVIOUS
    <2>3. t.started = time /\ t.pc = "idle"
        BY <1>4, <2>2, TryAnotherIs
    <2>4. probe' = [probe EXCEPT ![p] = t]
        BY <1>3, <1>6, <2>2 DEF NoAddress, ProbesTypeOK
    <2>5. probe'[p] = t /\ \A q \in Services \ {p} : probe'[q] = probe[q]
        BY <2>4, ProbeOf
    <2>. QED
        BY <1>1, <2>1, <2>3, <2>5 DEF TestStep, Begins, Elsewhere
<1>7. CASE Connect(p, [probe[p] EXCEPT !.started = time, !.redirects = 0])
    <2>1. PICK t : t = [probe[p] EXCEPT !.started = time, !.redirects = 0]
        OBVIOUS
    <2>2. t \in ProbeState
        BY <1>2, <2>1, SameAddress
    <2>3. t.started = time
        BY <1>2, <2>1 DEF ProbeState
    <2>4. /\ probe'[p].started = time /\ \A q \in Services \ {p} : probe'[q] = probe[q]
          /\ \A q \in Services : SameOf(q)
        BY <1>7, <2>1, <2>2, <2>3, ConnectOf
    <2>. QED
        BY <1>1, <2>4 DEF TestStep, Begins, Elsewhere
<1>. QED
    BY <1>5, <1>6, <1>7 DEF StartTest

LEMMA LocalIs ==
    ASSUME ProbesTypeOK, NewIInv, NEW p \in Services, StartLocal(p)
    PROVE  TestStep(p)
<1>1. /\ kind \in {"prog", "database", "self", "darpwatch", "isforced", "compute"}
      /\ time >= probe[p].started + Delay
      /\ UNCHANGED <<kind, webCache, time>>
    BY DEF StartLocal
<1>2. kind \notin Asking
    BY <1>1 DEF Asking, Streams
<1>3. probe[p].pc # "asked"
    BY <1>2 DEF NewIInv
<1>4. PICK r : r = [probe[p] EXCEPT !.started = time]
    OBVIOUS
<1>5. r.started = time /\ r.pc # "asked"
    BY <1>3, <1>4 DEF ProbesTypeOK, ProbeState
<1>6. probe' = [probe EXCEPT ![p] = r]
    BY <1>4 DEF StartLocal, ProbesTypeOK
<1>7. probe'[p] = r /\ \A q \in Services \ {p} : probe'[q] = probe[q]
    BY <1>6, ProbeOf
<1>8. /\ SameOf(p) \/ NextOf(p, <<time, p>>)
      /\ \A q \in Services \ {p} : SameOf(q)
    <2>1. \/ verdict' = verdict
          \/ Down(p)
          \/ \E u, h : Verdict(p, u, h, <<time, p>>)
        BY DEF StartLocal
    <2>. QED
        BY <2>1, DownOf, VerdictOf DEF SameOf
<1>. QED
    BY <1>1, <1>3, <1>5, <1>7, <1>8 DEF TestStep, Begins, Elsewhere

(* A test that is over, with a verdict or without.                           *)
LEMMA OverIs ==
    ASSUME ProbesTypeOK, NEW p \in Services, probe[p].pc = "asked", UNCHANGED <<kind, time>>,
           NEW r, r.pc = "idle", r.started = probe[p].started, probe' = [probe EXCEPT ![p] = r],
           SameOf(p) \/ NextOf(p, Mine(p)), \A q \in Services \ {p} : SameOf(q),
           webCache' = webCache \/ webCache' = [of |-> Mine(p), created |-> time, creator |-> p]
    PROVE  TestStep(p)
<1>1. probe'[p] = r /\ \A q \in Services \ {p} : probe'[q] = probe[q]
    BY ProbeOf
<1>. QED
    BY <1>1 DEF TestStep, EndsWith, Elsewhere

LEMMA JudgedIs ==
    ASSUME ProbesTypeOK, NEW p \in Services, NEW u, Judged(p, u),
           probe[p].pc = "asked", UNCHANGED <<kind, time>>,
           webCache' = webCache \/ webCache' = [of |-> Mine(p), created |-> time, creator |-> p]
    PROVE  TestStep(p)
<1>1. PICK r \in ProbeState : r = Done(probe[p]) /\ r.pc = "idle" /\ r.started = probe[p].started
    BY DoneIs DEF ProbesTypeOK
<1>2. probe' = [probe EXCEPT ![p] = r]
    BY <1>1 DEF Judged, ProbesTypeOK
<1>3. NextOf(p, Mine(p)) /\ \A q \in Services \ {p} : SameOf(q)
    BY VerdictOf DEF Judged
<1>. QED
    BY <1>1, <1>2, <1>3, OverIs

LEMMA FailedIs ==
    ASSUME ProbesTypeOK, NEW p \in Services, TestFailed(p),
           probe[p].pc = "asked", UNCHANGED <<kind, time, webCache>>
    PROVE  TestStep(p)
<1>1. PICK d \in ProbeState : d = Done(probe[p]) /\ d.pc = "idle" /\ d.started = probe[p].started
    BY DoneIs DEF ProbesTypeOK
<1>2. PICK r : r = IF kind \in {"udp", "dns"} THEN TryAnother(d) ELSE d
    OBVIOUS
<1>3. r.pc = "idle" /\ r.started = probe[p].started
    BY <1>1, <1>2, TryAnotherIs
<1>4. probe' = [probe EXCEPT ![p] = r]
    BY <1>1, <1>2 DEF TestFailed, ProbesTypeOK
<1>5. \A q \in Services : SameOf(q)
    BY DownOf DEF TestFailed
<1>. QED
    BY <1>3, <1>4, <1>5, OverIs

LEMMA RedirectedIs ==
    ASSUME ProbesTypeOK, NewIInv, NEW p \in Services, Redirected(p),
           probe[p].pc = "asked", UNCHANGED <<kind, time, webCache>>
    PROVE  TestStep(p)
<1>1. CASE Judged(p, FALSE)
    BY <1>1, JudgedIs
<1>2. CASE Connect(p, [probe[p] EXCEPT !.redirects = @ + 1])
    <2>1. PICK t : t = [probe[p] EXCEPT !.redirects = @ + 1]
        OBVIOUS
    <2>2. t \in ProbeState
        BY <2>1, SameAddress DEF ProbesTypeOK
    <2>3. t.started = probe[p].started
        BY <2>1 DEF ProbesTypeOK, ProbeState
    <2>4. /\ probe'[p].started = probe[p].started /\ \A q \in Services \ {p} : probe'[q] = probe[q]
          /\ \A q \in Services : SameOf(q)
        BY <1>2, <2>1, <2>2, <2>3, ConnectOf
    <2>5. kind \in Asking
        BY DEF NewIInv
    <2>. QED
        BY <2>4, <2>5 DEF TestStep, GoesOn, Elsewhere
<1>. QED
    BY <1>1, <1>2 DEF Redirected

LEMMA AgentIs ==
    ASSUME ProbesTypeOK, NEW p \in Services, AgentAnswered(p),
           probe[p].pc = "asked", UNCHANGED <<kind, time>>
    PROVE  TestStep(p)
<1>1. probe[p] \in ProbeState /\ host.os \in Int
    BY DEF ProbesTypeOK
<1>2. PICK os : os = IF probe[p].os = 0 THEN host.os ELSE probe[p].os
    OBVIOUS
<1>3. os \in Int
    BY <1>1, <1>2 DEF ProbeState
<1>4. \A x \in Int : \A r : r = [probe[p] EXCEPT !.os = x] => r \in ProbeState /\ r.started = probe[p].started
    BY <1>1 DEF ProbeState
<1>5. webCache' = webCache
    BY DEF AgentAnswered
<1>6. \/ /\ \E u, h : Verdict(p, u, h, Mine(p))
         /\ \/ probe' = [probe EXCEPT ![p] = Done(probe[p])]
            \/ probe' = [probe EXCEPT ![p] = Done([probe[p] EXCEPT !.os = os])]
      \/ /\ verdict' = verdict
         /\ probe' = [probe EXCEPT ![p] = Done([probe[p] EXCEPT !.os = host.os])]
    BY <1>2 DEF AgentAnswered, ProbesTypeOK
<1>7. \E d \in ProbeState : d.started = probe[p].started /\ probe' = [probe EXCEPT ![p] = Done(d)]
    BY <1>1, <1>3, <1>4, <1>6
<1>8. PICK d \in ProbeState : d.started = probe[p].started /\ probe' = [probe EXCEPT ![p] = Done(d)]
    BY <1>7
<1>9. PICK r \in ProbeState : r = Done(d) /\ r.pc = "idle" /\ r.started = probe[p].started
    BY <1>8, DoneIs
<1>10. SameOf(p) \/ NextOf(p, Mine(p))
    BY <1>6, VerdictOf DEF SameOf
<1>11. \A q \in Services \ {p} : SameOf(q)
    BY <1>6, VerdictOf DEF SameOf
<1>. QED
    BY <1>5, <1>8, <1>9, <1>10, <1>11, OverIs

LEMMA EndIs ==
    ASSUME ProbesTypeOK, NewIInv, NEW p \in Services, EndTest(p)
    PROVE  TestStep(p)
<1>1. probe[p].pc = "asked" /\ UNCHANGED <<kind, time>>
    BY DEF EndTest
<1>2. CASE TCPAnswered(p)
    BY <1>1, <1>2, JudgedIs, FailedIs DEF TCPAnswered
<1>3. CASE UDPAnswered(p)
    BY <1>1, <1>3, JudgedIs, FailedIs DEF UDPAnswered
<1>4. CASE DNSAnswered(p)
    BY <1>1, <1>4, JudgedIs, FailedIs DEF DNSAnswered
<1>5. CASE URLAnswered(p)
    BY <1>1, <1>5, JudgedIs, RedirectedIs DEF URLAnswered
<1>6. CASE AgentAnswered(p)
    BY <1>1, <1>6, AgentIs
<1>. QED
    BY <1>2, <1>3, <1>4, <1>5, <1>6 DEF EndTest

(* What was earlier stays so, and so is what is judged now.                  *)
LEMMA EarlierKept ==
    ASSUME ProbesTypeOK, Delay >= 1, NEW p \in Services, TestStep(p)
    PROVE  /\ \A o \in Int \X Int : Earlier(o, probe) => Earlier(o, probe')
           /\ EndsWith(p) => Earlier(Mine(p), probe')
           /\ Begins(p) /\ probe'[p].pc # "asked" => Earlier(<<time, p>>, probe')
<1>1. /\ \A q \in Services : probe[q].started \in Int
      /\ time \in Int /\ Delay \in Int
    BY ProbesAssumption DEF ProbesTypeOK, ProbeState
<1>2. \A q \in Services \ {p} : probe'[q] = probe[q]
    BY DEF TestStep, Elsewhere
<1>3. \/ probe'[p].started = probe[p].started /\ (probe'[p].pc = "asked" => probe[p].pc = "asked")
      \/ probe'[p].started > probe[p].started
    BY <1>1 DEF TestStep, GoesOn, Begins, EndsWith
<1>4. ASSUME NEW o \in Int \X Int, Earlier(o, probe) PROVE Earlier(o, probe')
    <2>1. o[1] \in Int
        OBVIOUS
    <2>2. probe'[p].started \in Int
        BY <1>1, <1>3 DEF TestStep, GoesOn, Begins, EndsWith
    <2>3. o[2] = p => o[1] <= probe'[p].started /\ (probe'[p].pc = "asked" => o[1] < probe'[p].started)
        BY <1>1, <1>3, <1>4, <2>1, <2>2 DEF Earlier
    <2>4. \A q \in Services \ {p} : o[2] = q =>
              o[1] <= probe'[q].started /\ (probe'[q].pc = "asked" => o[1] < probe'[q].started)
        BY <1>2, <1>4 DEF Earlier
    <2>. QED
        BY <2>3, <2>4 DEF Earlier
<1>5. EndsWith(p) => Earlier(Mine(p), probe')
    BY <1>1 DEF EndsWith, Earlier, Mine
<1>6. Begins(p) /\ probe'[p].pc # "asked" => Earlier(<<time, p>>, probe')
    BY <1>1 DEF Begins, Earlier
<1>. QED
    BY <1>4, <1>5, <1>6

(* A copy is not used for two tests of a service: it is too old by then.     *)
LEMMA CopiesAge ==
    ASSUME ProbesTypeOK, NewIInv, Delay >= HTTP_Cache \/ Delay >= Frequency,
           NEW p \in Services, Begins(p), checkCached(p)
    PROVE  webCache.of # verdict[p].of
<1>. SUFFICES ASSUME webCache.of = verdict[p].of PROVE FALSE
    OBVIOUS
<1>1. /\ webCache # NoEntry /\ webCache.creator # p
      /\ webCache.created + HTTP_Cache > time
      /\ webCache.created + Frequency > time
    BY DEF checkCached
<1>2. webCache.created <= probe[p].started
    BY <1>1 DEF NewIInv, CopyIsKnown
<1>3. time >= probe[p].started + Delay
    BY DEF Begins
<1>4. /\ webCache.created \in Int /\ time \in Int /\ probe[p].started \in Int
      /\ Delay \in Int /\ HTTP_Cache \in Int /\ Frequency \in Int
    BY ProbesAssumption DEF ProbesTypeOK, ProbeState
<1>. QED
    BY <1>1, <1>2, <1>3, <1>4

(* What is judged now is not what was judged last.                           *)
LEMMA NextIsNew ==
    ASSUME ProbesTypeOK, NewIInv, Delay >= 1, Delay >= HTTP_Cache \/ Delay >= Frequency,
           NEW p \in Services, TestStep(p)
    PROVE  SameOf(p) \/ verdict'[p].of # verdict'[p].before
<1>1. /\ probe[p].started \in Int /\ time \in Int /\ Delay \in Int
      /\ verdict[p].of \in Int \X Int /\ Earlier(verdict[p].of, probe)
    BY ProbesAssumption DEF ProbesTypeOK, ProbeState, VerdictState, NewIInv
<1>2. CASE GoesOn(p)
    BY <1>2 DEF GoesOn
<1>3. CASE EndsWith(p)
    <2>1. verdict[p].of # Mine(p)
        BY <1>1, <1>3 DEF Earlier, EndsWith, Mine
    <2>. QED
        BY <1>3, <2>1 DEF EndsWith, NextOf
<1>4. CASE Begins(p)
    <2>1. verdict[p].of # <<time, p>>
        BY <1>1, <1>4 DEF Earlier, Begins
    <2>2. checkCached(p) => webCache.of # verdict[p].of
        BY <1>4, CopiesAge
    <2>. QED
        BY <1>4, <2>1, <2>2 DEF Begins, NextOf
<1>. QED
    BY <1>2, <1>3, <1>4 DEF TestStep

LEMMA TestStepKeeps ==
    ASSUME ProbesTypeOK, NewIInv, Delay >= 1, Delay >= HTTP_Cache \/ Delay >= Frequency,
           NEW p \in Services, TestStep(p)
    PROVE  NewIInv'
<1>1. /\ \A q \in Services : probe[q].started \in Int /\ verdict[q].of \in Int \X Int
      /\ time \in Int /\ Delay \in Int
      /\ webCache.of \in Int \X Int /\ webCache.created \in Int
    BY ProbesAssumption DEF ProbesTypeOK, ProbeState, VerdictState
<1>2. /\ \A q \in Services \ {p} : probe'[q] = probe[q] /\ SameOf(q)
      /\ time' = time /\ kind' = kind
    BY DEF TestStep, Elsewhere
<1>3. \A q \in Services : probe'[q].pc = "asked" => kind' \in Asking
    BY <1>2 DEF TestStep, NewIInv
<1>4. \A q \in Services : Earlier(verdict[q].of, probe')
    BY <1>1, EarlierKept DEF NewIInv
<1>5. Earlier(webCache.of, probe')
    BY <1>1, EarlierKept DEF NewIInv, CopyIsKnown
<1>6. Earlier(verdict'[p].of, probe')
    <2>1. CASE GoesOn(p)
        BY <1>4, <2>1 DEF GoesOn, SameOf
    <2>2. CASE Begins(p)
        BY <1>4, <1>5, <2>2, EarlierKept DEF Begins, SameOf, NextOf
    <2>3. CASE EndsWith(p)
        BY <1>4, <2>3, EarlierKept DEF EndsWith, SameOf, NextOf
    <2>. QED
        BY <2>1, <2>2, <2>3 DEF TestStep
<1>7. \A q \in Services : Earlier(verdict'[q].of, probe')
    BY <1>2, <1>4, <1>6 DEF SameOf
<1>8. EachTestIsNew'
    <2>1. ASSUME NEW q \in Services, verdict'[q].of # Nobody PROVE verdict'[q].of # verdict'[q].before
        BY <1>2, <2>1, NextIsNew DEF SameOf, NewIInv, EachTestIsNew
    <2>. QED
        BY <2>1 DEF EachTestIsNew
<1>9. CASE webCache' = webCache
    <2>1. ASSUME NEW q \in Services, verdict'[q].of = webCache.of, webCache.of[2] # q, webCache # NoEntry
          PROVE  webCache.created <= probe'[q].started
        <3>1. webCache.created <= time
            BY DEF NewIInv, CopyIsKnown
        <3>2. CASE verdict'[q].of = verdict[q].of
            <4>1. webCache.created <= probe[q].started
                BY <2>1, <3>2 DEF NewIInv, CopyIsKnown
            <4>2. probe'[q].started = probe[q].started \/ probe'[q].started = time
                BY <1>2 DEF TestStep, GoesOn, Begins, EndsWith
            <4>. QED
                BY <3>1, <4>1, <4>2
        <3>3. CASE verdict'[q].of # verdict[q].of
            <4>1. q = p /\ ~SameOf(p)
                BY <1>2, <3>3 DEF SameOf
            <4>2. CASE Begins(p)
                BY <3>1, <4>1, <4>2 DEF Begins
            <4>3. CASE ~Begins(p)
                <5>1. verdict'[p].of = Mine(p)
                    BY <4>1, <4>3 DEF TestStep, GoesOn, EndsWith, NextOf
                <5>. QED
                    BY <2>1, <4>1, <5>1 DEF Mine
            <4>. QED
                BY <4>2, <4>3
        <3>. QED
            BY <3>2, <3>3
    <2>2. CopyIsKnown'
        BY <1>2, <1>5, <1>9, <2>1 DEF NewIInv, CopyIsKnown
    <2>. QED
        BY <1>3, <1>7, <1>8, <2>2 DEF NewIInv
<1>10. CASE webCache' # webCache
    <2>1. EndsWith(p) /\ webCache' = [of |-> Mine(p), created |-> time, creator |-> p]
        BY <1>10 DEF TestStep, GoesOn, Begins, EndsWith
    <2>2. webCache'.of = Mine(p) /\ webCache'.created = time /\ webCache'.creator = p /\ Mine(p)[2] = p
        BY <2>1 DEF Mine
    <2>3. Earlier(webCache'.of, probe')
        BY <2>1, <2>2, EarlierKept
    <2>4. ASSUME NEW q \in Services, verdict'[q].of = webCache'.of, webCache'.of[2] # q PROVE FALSE
        <3>1. q # p /\ verdict[q].of = Mine(p)
            BY <1>2, <2>2, <2>4 DEF SameOf
        <3>2. Earlier(Mine(p), probe)
            BY <3>1 DEF NewIInv
        <3>. QED
            BY <1>1, <2>1, <3>2 DEF Earlier, EndsWith, Mine
    <2>5. CopyIsKnown'
        BY <1>1, <1>2, <2>2, <2>3, <2>4 DEF CopyIsKnown
    <2>. QED
        BY <1>3, <1>7, <1>8, <2>5 DEF NewIInv
<1>. QED
    BY <1>9, <1>10

LEMMA NewStart == ProbesInit => NewIInv
<1>. SUFFICES ASSUME ProbesInit PROVE NewIInv
    OBVIOUS
<1>1. /\ \A q \in Services : probe[q].pc = "idle" /\ verdict[q].of = Nobody
      /\ webCache = NoEntry /\ time = 1
    BY DEF ProbesInit
<1>2. Earlier(Nobody, probe) /\ webCache.of = Nobody /\ webCache.created = 0
    BY <1>1 DEF Earlier, Nobody, NoEntry, Services
<1>. QED
    BY <1>1, <1>2 DEF NewIInv, CopyIsKnown, EachTestIsNew

(* The retries and the tests are at least as far apart as one of the times   *)
(* for which a copy of a page is used; by default they are all 60 seconds.   *)
PausesOutlastCopies == Delay >= 1 /\ (Delay >= HTTP_Cache \/ Delay >= Frequency)

LEMMA NewKept ==
    ASSUME PausesOutlastCopies, ProbesTypeOK, NewIInv, [ProbesNext]_probesVars
    PROVE  NewIInv'
<1>1. CASE UNCHANGED <<kind, probe, webCache, time, verdict>>
    BY <1>1 DEF NewIInv, CopyIsKnown, Earlier, EachTestIsNew
<1>2. ASSUME NEW p \in Testing, StartTest(p) \/ EndTest(p) \/ StartLocal(p) PROVE NewIInv'
    <2>1. p \in Services
        BY DEF Testing, Services
    <2>. QED
        BY <1>2, <2>1, StartIs, EndIs, LocalIs, TestStepKeeps DEF PausesOutlastCopies
<1>3. CASE \E k \in Kinds, e \in BOOLEAN : Configured(k, e)
    <2>1. kind = "none" /\ UNCHANGED <<probe, webCache, time, verdict>>
        BY <1>3 DEF Configured
    <2>2. kind \notin Asking
        BY <2>1 DEF Asking, Streams
    <2>3. \A q \in Services : probe[q].pc # "asked"
        BY <2>2 DEF NewIInv
    <2>. QED
        BY <2>1, <2>3 DEF NewIInv, CopyIsKnown, Earlier, EachTestIsNew
<1>4. CASE Seconds
    <2>1. time' = time + 1 /\ UNCHANGED <<kind, probe, webCache, verdict>>
        BY <1>4 DEF Seconds
    <2>2. webCache.created <= time'
        BY <2>1 DEF ProbesTypeOK, NewIInv, CopyIsKnown
    <2>. QED
        BY <2>1, <2>2 DEF NewIInv, CopyIsKnown, Earlier, EachTestIsNew
<1>5. Changed \/ UNCHANGED probesVars => UNCHANGED <<kind, probe, webCache, time, verdict>>
    BY DEF Changed, probesVars
<1>. QED
    BY <1>1, <1>2, <1>3, <1>4, <1>5 DEF ProbesNext

(* checkCached, addCached: while tests are as far apart as copies last, none *)
(* judges again what its service judged before, for any of these times.      *)
THEOREM TestsAreNew == PausesOutlastCopies /\ ProbesSpec => []EachTestIsNew
<1>. SUFFICES ASSUME PausesOutlastCopies PROVE ProbesSpec => []EachTestIsNew
    OBVIOUS
<1>1. ProbesIInv /\ NewIInv /\ [ProbesNext]_probesVars => (ProbesIInv /\ NewIInv)'
    BY ProbesKeep, NewKept DEF ProbesIInv
<1>2. ProbesIInv /\ NewIInv => EachTestIsNew
    BY DEF NewIInv
<1>. QED
    BY <1>1, <1>2, ProbesStart, NewStart, PTL DEF ProbesSpec
=============================================================================
