---------------------------- MODULE SchedProofs ----------------------------
(* Proofs about Sched, for every set of tasks, workers and clients, every    *)
(* queue capacity and every period.                                          *)
EXTENDS Sched, TLAPS

(* The inductive invariant.  OneEntryPerTask, FiledUnderWhen and NoTaskLost  *)
(* need to know that a live task never has when = 0, the value that makes    *)
(* the main loop drop a request, and that the clock has not gone back past   *)
(* its start, which is what keeps NextSlot positive.                         *)
ClockAhead == StartTime <= now

LiveTasksHaveATime == \A t \in created \ removed : when[t] # 0

EntriesHaveATime == \A e \in schedule : e[1] # 0

IInv ==
    /\ TypeOK
    /\ ClockAhead
    /\ LiveTasksHaveATime
    /\ EntriesHaveATime
    /\ LocteIsFiled
    /\ OneEntryPerTask
    /\ FiledUnderWhen
    /\ NoTaskLost
----------------------------------------------------------------------------
(* Appending to a queue keeps what is in it and adds one element.            *)
LEMMA ContainsAppend ==
    ASSUME NEW S, NEW s \in Seq(S), NEW x \in S, NEW y
    PROVE  Contains(Append(s, x), y) <=> Contains(s, y) \/ x = y
<1>1. Append(s, x) \in Seq(S) /\ Len(Append(s, x)) = Len(s) + 1
    OBVIOUS
<1>2. \A i \in 1..Len(s) : Append(s, x)[i] = s[i]
    OBVIOUS
<1>3. Append(s, x)[Len(s) + 1] = x
    OBVIOUS
<1>. QED
    BY <1>1, <1>2, <1>3 DEF Contains

(* Taking the head of a queue loses nothing but the head.                    *)
LEMMA ContainsTail ==
    ASSUME NEW S, NEW s \in Seq(S), s # <<>>, NEW y, Contains(s, y)
    PROVE  Head(s) = y \/ Contains(Tail(s), y)
<1>1. PICK i \in 1..Len(s) : s[i] = y
    BY DEF Contains
<1>2. CASE i = 1
    BY <1>1, <1>2
<1>3. CASE i # 1
    <2>1. i - 1 \in 1..Len(Tail(s)) /\ Tail(s)[i - 1] = s[i]
        BY <1>3
    <2>. QED
        BY <1>1, <2>1 DEF Contains
<1>. QED
    BY <1>2, <1>3

(* The product of natural numbers is a natural number.                       *)
LEMMA ProductNat == \A a, b \in Nat : a * b \in Nat
    OBVIOUS

(* Dividing a natural number by a positive one gives a natural number.       *)
LEMMA QuotientNat == \A a \in Nat, b \in Nat \ {0} : a \div b \in Nat
    OBVIOUS

(* A slot computed by ReScheduleSamePrio is a moment after the epoch, so it  *)
(* is never mistaken for the 0 that means "do not schedule".                 *)
LEMMA SlotsPositive ==
    ASSUME TypeOK, ClockAhead, NEW t \in Tasks, NEW delay \in Nat, NEW w \in Slots(t, delay)
    PROVE  w \in Nat /\ w > 0
<1>1. now \in Nat /\ Phase[t] \in Nat /\ Freq[t] \in Nat \ {0} /\ Phase[t] <= now
    BY TimeAssumption DEF TypeOK, ClockAhead
<1>2. (now - Phase[t]) \div Freq[t] \in Nat
    BY <1>1
<1>3. NextSlot(t) \in Nat /\ NextSlot(t) > 0
    BY <1>1, <1>2, ProductNat DEF NextSlot
<1>4. Wanted(t, delay) \in Nat /\ Wanted(t, delay) > 0
    BY <1>1, <1>3 DEF Wanted
<1>. QED
    BY <1>4, TimeAssumption DEF Slots

(* The smoothed run time of sched.go:136-139 stays a natural number.         *)
LEMMA SmoothedNat ==
    ASSUME NEW old \in Nat, NEW exp \in Nat
    PROVE  Smoothed(old, exp) \in Nat
BY DEF Smoothed

(* ReSchedule keeps the types of the run time and the priority.              *)
LEMMA ReScheduleTypes ==
    ASSUME TypeOK, NEW th, NEW t \in Tasks, NEW delay, NEW exp \in Nat,
           ReSchedule(th, t, delay, exp)
    PROVE  xdt' \in [Tasks -> Nat] /\ prio' \in [Tasks -> 0..2]
<1>1. xdt[t] \in Nat /\ prio[t] \in 0..2 /\ xdt \in [Tasks -> Nat] /\ prio \in [Tasks -> 0..2]
    BY DEF TypeOK
<1>. DEFINE x == Smoothed(xdt[t], exp)
<1>2. x \in Nat
    BY <1>1, SmoothedNat
<1>3. PrioFor(prio[t], x) \in 0..2
    BY <1>1 DEF PrioFor
<1>4. xdt' = [xdt EXCEPT ![t] = x] /\ prio' = [prio EXCEPT ![t] = PrioFor(prio[t], x)]
    BY DEF ReSchedule
<1>. HIDE DEF x
<1>. QED
    BY <1>1, <1>2, <1>3, <1>4
----------------------------------------------------------------------------
USE DEF Threads

(* The scheduler starts in the invariant.                                    *)
LEMMA InitInvariant == Init => IInv
<1>. SUFFICES ASSUME Init PROVE IInv
    OBVIOUS
<1>1. TypeOK
    <2>1. lane \in [Lanes -> Seq(Tasks)] /\ schedchan \in Seq(Tasks)
        BY DEF Init
    <2>2. Len(schedchan) <= SchedCap /\ \A l \in Lanes : Len(lane[l]) <= LaneCap[l]
        BY QueueAssumption DEF Init
    <2>3. now \in Nat /\ dispatchAt \in 0..now /\ created \subseteq Tasks /\ removed \subseteq created
        BY TimeAssumption DEF Init
    <2>4. /\ when \in [Tasks -> Int] /\ xdt \in [Tasks -> Nat]
          /\ prio \in [Tasks -> 0..2] /\ locte \in [Tasks -> Int]
        BY DEF Init
    <2>5. schedule \subseteq Int \X Tasks /\ stopped \in BOOLEAN /\ deferred \in BOOLEAN /\ calls \in Nat
        BY DEF Init
    <2>6. /\ sending \in [Threads -> Tasks \cup {NoTask}]
          /\ running \in [Workers -> Tasks \cup {NoTask}]
        BY DEF Init
    <2>. QED
        BY <2>1, <2>2, <2>3, <2>4, <2>5, <2>6 DEF TypeOK
<1>2. ClockAhead /\ LiveTasksHaveATime /\ EntriesHaveATime
    BY TimeAssumption DEF Init, ClockAhead, LiveTasksHaveATime, EntriesHaveATime
<1>3. LocteIsFiled /\ OneEntryPerTask /\ FiledUnderWhen /\ NoTaskLost
    BY DEF Init, LocteIsFiled, OneEntryPerTask, FiledUnderWhen, NoTaskLost
<1>. QED
    BY <1>1, <1>2, <1>3 DEF IInv

(* What the ways of asking the main loop for a task have in common: a new    *)
(* time is written and the pointer is in hand.                               *)
Asks(th, t, w) ==
    /\ sending[th] = NoTask
    /\ sending' = [sending EXCEPT ![th] = t]
    /\ when' = [when EXCEPT ![t] = w]
    /\ w = 0 => t \in removed'
    /\ created \subseteq created' /\ created' \subseteq created \cup {t}
    /\ removed \subseteq removed' /\ removed' \subseteq created'
    /\ xdt' \in [Tasks -> Nat]
    /\ prio' \in [Tasks -> 0..2]
    /\ calls' \in Nat
    /\ \A v \in Workers : running'[v] = running[v] \/ running[v] = t
    /\ running' \in [Workers -> Tasks \cup {NoTask}]
    /\ UNCHANGED <<now, mainVars, chanVars, stopped>>

(* Everything the invariant says of the schedule still holds, because the    *)
(* task is now Requested.                                                    *)
LEMMA AsksPreserves ==
    ASSUME IInv, NEW th \in Threads, NEW t \in Tasks, NEW w \in Int, Asks(th, t, w)
    PROVE  IInv'
<1>. USE DEF IInv, Asks, mainVars, chanVars
<1>n. NoTask \notin Tasks
    BY TasksAssumption
<1>1. TypeOK'
    BY DEF TypeOK
<1>2. ClockAhead' /\ EntriesHaveATime' /\ LocteIsFiled' /\ OneEntryPerTask'
    BY DEF ClockAhead, EntriesHaveATime, LocteIsFiled, OneEntryPerTask
<1>3. LiveTasksHaveATime'
    BY DEF LiveTasksHaveATime, TypeOK
<1>4. \A u \in Tasks : Requested(u) => Requested(u)'
    BY <1>n DEF Requested, Contains, TypeOK
<1>5. Requested(t)'
    BY DEF Requested, TypeOK
<1>6. FiledUnderWhen'
    BY <1>4, <1>5 DEF FiledUnderWhen, TypeOK
<1>7. ASSUME NEW u \in Tasks, u # t, Held(u) PROVE Held(u)'
    BY <1>4, <1>7 DEF Held, Contains, TypeOK
<1>8. NoTaskLost'
    BY <1>5, <1>7 DEF NoTaskLost, Held, TypeOK
<1>. QED
    BY <1>1, <1>2, <1>3, <1>6, <1>8

(* Replacing the contents of one lane by a sequence that fits.               *)
LEMMA LaneReplaced ==
    ASSUME TypeOK, NEW l \in Lanes, NEW q \in Seq(Tasks), Len(q) <= LaneCap[l],
           lane' = [lane EXCEPT ![l] = q]
    PROVE  /\ lane' \in [Lanes -> Seq(Tasks)]
           /\ \A k \in Lanes : Len(lane'[k]) <= LaneCap[k]
           /\ lane'[l] = q
           /\ \A k \in Lanes : k # l => lane'[k] = lane[k]
BY DEF TypeOK

(* sendWork puts the task in one lane, within its capacity, and disturbs     *)
(* nothing that is queued.                                                   *)
LEMMA SendWorkKeeps ==
    ASSUME TypeOK, NEW t \in Tasks, sendWork(t)
    PROVE  /\ lane' \in [Lanes -> Seq(Tasks)]
           /\ \A k \in Lanes : Len(lane'[k]) <= LaneCap[k]
           /\ \A u, k : k \in Lanes /\ Contains(lane[k], u) => Contains(lane'[k], u)
           /\ \E k \in Lanes : Contains(lane'[k], t)
<1>1. PICK l \in Open(t) : lane' = [lane EXCEPT ![l] = Append(@, t)]
    BY DEF sendWork
<1>2. prio[t] \in 0..2
    BY DEF TypeOK
<1>3. l \in 0..prio[t] /\ Len(lane[l]) < LaneCap[l]
    BY DEF Open
<1>4. l \in Lanes
    BY <1>2, <1>3 DEF Lanes
<1>5. lane[l] \in Seq(Tasks)
    BY <1>4 DEF TypeOK
<1>. DEFINE q == Append(lane[l], t)
<1>6. q \in Seq(Tasks) /\ Len(q) = Len(lane[l]) + 1
    BY <1>5
<1>7. LaneCap[l] \in Nat /\ Len(lane[l]) \in Nat
    BY <1>4, <1>5, QueueAssumption
<1>8. Len(q) <= LaneCap[l]
    BY <1>3, <1>6, <1>7
<1>9. lane' = [lane EXCEPT ![l] = q]
    BY <1>1
<1>10. \A u : Contains(q, u) <=> Contains(lane[l], u) \/ t = u
    BY <1>5, ContainsAppend
<1>. HIDE DEF q
<1>11. /\ lane' \in [Lanes -> Seq(Tasks)] /\ lane'[l] = q
       /\ \A k \in Lanes : Len(lane'[k]) <= LaneCap[k]
       /\ \A k \in Lanes : k # l => lane'[k] = lane[k]
    BY <1>4, <1>6, <1>8, <1>9, LaneReplaced
<1>12. \A u, k : k \in Lanes /\ Contains(lane[k], u) => Contains(lane'[k], u)
    BY <1>10, <1>11
<1>13. Contains(lane'[l], t)
    BY <1>10, <1>11
<1>. QED
    BY <1>4, <1>11, <1>12, <1>13

(* A step that moves a task between requests, queues and workers, and leaves *)
(* the times and the schedule alone.                                         *)
LEMMA MovePreserves ==
    ASSUME IInv, TypeOK',
           UNCHANGED <<taskVars, locte, schedule, deferred>>, now <= now',
           \A u \in Tasks : Requested(u) => Requested(u)',
           \A u \in Tasks : Held(u) => Held(u)'
    PROVE  IInv'
<1>. USE DEF IInv, taskVars
<1>1. ClockAhead'
    BY TimeAssumption DEF ClockAhead, TypeOK
<1>2. LiveTasksHaveATime' /\ EntriesHaveATime' /\ LocteIsFiled' /\ OneEntryPerTask'
    BY DEF LiveTasksHaveATime, EntriesHaveATime, LocteIsFiled, OneEntryPerTask
<1>3. FiledUnderWhen'
    BY DEF FiledUnderWhen
<1>4. NoTaskLost'
    BY DEF NoTaskLost, TypeOK
<1>. QED
    BY <1>1, <1>2, <1>3, <1>4

(* Every step keeps it: one step of the proof per action.                    *)
LEMMA NextInvariant == IInv /\ [Next]_vars => IInv'
<1>. SUFFICES ASSUME IInv, [Next]_vars PROVE IInv'
    OBVIOUS
<1>. USE DEF taskVars, mainVars, chanVars, threadVars
<1>n. NoTask \notin Tasks /\ Periodic \subseteq Tasks
    BY TasksAssumption
<1>t. TypeOK /\ ClockAhead
    BY DEF IInv
<1>1. ASSUME NEW th \in Threads, NEW t \in Tasks, New(th, t) PROVE IInv'
    <2>1. PICK w \in Slots(t, 0) : when' = [when EXCEPT ![t] = w]
        BY <1>1 DEF New, ReSchedule, ReScheduleSamePrio
    <2>2. w \in Nat /\ w > 0
        BY <1>t, SlotsPositive
    <2>3. ReSchedule(th, t, 0, 0)
        BY <1>1 DEF New
    <2>4. xdt' \in [Tasks -> Nat] /\ prio' \in [Tasks -> 0..2]
        BY <1>t, <2>3, ReScheduleTypes
    <2>6. sending[th] = NoTask /\ sending' = [sending EXCEPT ![th] = t]
        BY <1>1, <2>3 DEF New, Ready, ReSchedule, ReScheduleSamePrio
    <2>7. /\ created' = created \cup {t}
          /\ UNCHANGED <<now, removed, mainVars, chanVars, running, stopped, calls>>
        BY <1>1 DEF New
    <2>8. removed' \subseteq created' /\ calls' \in Nat /\ running' \in [Workers -> Tasks \cup {NoTask}]
        BY <1>t, <2>7 DEF TypeOK
    <2>9. Asks(th, t, w)
        BY <2>1, <2>2, <2>4, <2>6, <2>7, <2>8 DEF Asks
    <2>. QED
        BY <2>2, <2>9, AsksPreserves
<1>2. ASSUME NEW th \in Threads, NEW t \in Tasks, NEW unix \in 1..Horizon, At(th, t, unix)
      PROVE  IInv'
    <2>1. unix \in Int /\ unix # 0
        BY TimeAssumption
    <2>2. Asks(th, t, unix)
        BY <1>2, <1>t, <2>1 DEF Asks, At, Ready, TypeOK
    <2>. QED
        BY <2>1, <2>2, AsksPreserves
<1>3. ASSUME NEW th \in Threads, NEW t \in Tasks, CallReSchedule(th, t) PROVE IInv'
    <2>1. PICK delay \in Delays, exp \in RunTimes : ReSchedule(th, t, delay, exp)
        BY <1>3 DEF CallReSchedule
    <2>2. PICK w \in Slots(t, delay) : when' = [when EXCEPT ![t] = w]
        BY <2>1 DEF ReSchedule, ReScheduleSamePrio
    <2>3. delay \in Nat /\ exp \in Nat
        BY TimeAssumption
    <2>4. w \in Nat /\ w > 0
        BY <1>t, <2>3, SlotsPositive
    <2>5. xdt' \in [Tasks -> Nat] /\ prio' \in [Tasks -> 0..2]
        BY <1>t, <2>1, <2>3, ReScheduleTypes
    <2>7. sending[th] = NoTask /\ sending' = [sending EXCEPT ![th] = t]
        BY <1>3, <2>1 DEF CallReSchedule, Call, Ready, ReSchedule, ReScheduleSamePrio
    <2>8. /\ t \in created /\ calls' = calls + 1
          /\ UNCHANGED <<now, created, removed, mainVars, chanVars, running, stopped>>
        BY <1>3 DEF CallReSchedule, Call
    <2>9. removed' \subseteq created' /\ calls' \in Nat /\ running' \in [Workers -> Tasks \cup {NoTask}]
        BY <1>t, <2>8 DEF TypeOK
    <2>10. Asks(th, t, w)
        BY <2>2, <2>4, <2>5, <2>7, <2>8, <2>9 DEF Asks
    <2>. QED
        BY <2>4, <2>10, AsksPreserves
<1>4. ASSUME NEW th \in Threads, NEW t \in Tasks, Remove(th, t) PROVE IInv'
    <2>1. when' = [when EXCEPT ![t] = 0] /\ removed' = removed \cup {t}
        BY <1>4 DEF Remove
    <2>2. sending[th] = NoTask /\ sending' = [sending EXCEPT ![th] = t]
        BY <1>4 DEF Remove, Call, Ready
    <2>3. /\ t \in created /\ calls' = calls + 1
          /\ UNCHANGED <<now, created, xdt, prio, mainVars, chanVars, running, stopped>>
        BY <1>4 DEF Remove, Call
    <2>4. removed' \subseteq created' /\ calls' \in Nat /\ running' \in [Workers -> Tasks \cup {NoTask}]
        BY <1>t, <2>1, <2>3 DEF TypeOK
    <2>5. xdt' \in [Tasks -> Nat] /\ prio' \in [Tasks -> 0..2]
        BY <1>t, <2>3 DEF TypeOK
    <2>7. Asks(th, t, 0)
        BY <2>1, <2>2, <2>3, <2>4, <2>5 DEF Asks
    <2>. QED
        BY <2>7, AsksPreserves
<1>5. ASSUME NEW th \in Threads, NEW t \in Tasks, ASAPDeferred(th, t) PROVE IInv'
    <2>1. PICK w \in Slots(t, 1) : when' = [when EXCEPT ![t] = w]
        BY <1>5 DEF ASAPDeferred, ReScheduleSamePrio
    <2>2. w \in Nat /\ w > 0
        BY <1>t, SlotsPositive
    <2>3. sending[th] = NoTask /\ sending' = [sending EXCEPT ![th] = t]
        BY <1>5 DEF ASAPDeferred, Call, Ready, ReScheduleSamePrio
    <2>4. /\ t \in created /\ calls' = calls + 1
          /\ UNCHANGED <<now, created, xdt, prio, removed, mainVars, chanVars, running, stopped>>
        BY <1>5 DEF ASAPDeferred, Call
    <2>5. removed' \subseteq created' /\ calls' \in Nat /\ running' \in [Workers -> Tasks \cup {NoTask}]
        BY <1>t, <2>4 DEF TypeOK
    <2>6. xdt' \in [Tasks -> Nat] /\ prio' \in [Tasks -> 0..2]
        BY <1>t, <2>4 DEF TypeOK
    <2>8. Asks(th, t, w)
        BY <2>1, <2>2, <2>3, <2>4, <2>5, <2>6 DEF Asks
    <2>. QED
        BY <2>2, <2>8, AsksPreserves
<1>6. ASSUME NEW w \in Workers, Return(w) PROVE IInv'
    <2>1. /\ running[w] \in Tasks /\ sending[w] = NoTask
          /\ running' = [running EXCEPT ![w] = NoTask]
          /\ UNCHANGED <<now, created, xdt, prio, removed, mainVars, chanVars, stopped, calls>>
        BY <1>6, <1>t DEF Return, TypeOK
    <2>2. CASE ReScheduleSamePrio(w, running[w], 0)
        <3>1. PICK v \in Slots(running[w], 0) : when' = [when EXCEPT ![running[w]] = v]
            BY <2>2 DEF ReScheduleSamePrio
        <3>2. v \in Nat /\ v > 0
            BY <1>t, <2>1, SlotsPositive
        <3>4. sending' = [sending EXCEPT ![w] = running[w]]
            BY <2>2 DEF ReScheduleSamePrio
        <3>5. removed' \subseteq created' /\ calls' \in Nat /\ xdt' \in [Tasks -> Nat] /\ prio' \in [Tasks -> 0..2]
            BY <1>t, <2>1 DEF TypeOK
        <3>6. /\ running' \in [Workers -> Tasks \cup {NoTask}]
              /\ \A x \in Workers : running'[x] = running[x] \/ running[x] = running[w]
            BY <1>t, <2>1 DEF TypeOK
        <3>7. Asks(w, running[w], v)
            BY <2>1, <3>1, <3>2, <3>4, <3>5, <3>6 DEF Asks
        <3>. QED
            BY <2>1, <3>2, <3>7, AsksPreserves
    <2>3. CASE running[w] \notin Periodic /\ UNCHANGED <<when, sending>>
        <3>2. TypeOK'
            BY <1>t, <2>1, <2>3 DEF TypeOK
        <3>3. \A u \in Tasks : Requested(u) => Requested(u)'
            BY <2>1, <2>3 DEF Requested, Contains
        <3>4. \A v \in Workers : running[v] \in Periodic => running'[v] = running[v]
            BY <1>t, <2>1, <2>3 DEF TypeOK
        <3>5. ASSUME NEW u \in Periodic, Held(u) PROVE Held(u)'
            BY <1>n, <2>1, <3>3, <3>4, <3>5 DEF Held
        <3>6. NoTaskLost'
            BY <2>1, <3>5 DEF NoTaskLost, IInv
        <3>. QED
            BY <2>1, <2>3, <3>2, <3>3, <3>6 DEF IInv, ClockAhead, LiveTasksHaveATime,
               EntriesHaveATime, LocteIsFiled, OneEntryPerTask, FiledUnderWhen
    <2>. QED
        BY <1>6, <2>2, <2>3 DEF Return
<1>7. ASSUME NEW th \in Threads, NEW t \in Tasks, ASAPSent(th, t) PROVE IInv'
    <2>1. /\ calls' = calls + 1
          /\ UNCHANGED <<now, taskVars, mainVars, schedchan, threadVars, stopped>>
        BY <1>7 DEF ASAPSent, Call
    <2>2. /\ lane' \in [Lanes -> Seq(Tasks)]
          /\ \A k \in Lanes : Len(lane'[k]) <= LaneCap[k]
          /\ \A u, k : k \in Lanes /\ Contains(lane[k], u) => Contains(lane'[k], u)
        BY <1>t, <1>7, SendWorkKeeps DEF ASAPSent
    <2>4. TypeOK'
        BY <1>t, <2>1, <2>2 DEF TypeOK
    <2>5. \A u \in Tasks : Requested(u) => Requested(u)'
        BY <2>1 DEF Requested, Contains
    <2>7. \A u \in Tasks : Held(u) => Held(u)'
        BY <2>1, <2>2, <2>5 DEF Held
    <2>8. now <= now'
        BY <1>t, <2>1 DEF TypeOK
    <2>. QED
        BY <2>1, <2>4, <2>5, <2>7, <2>8, MovePreserves
<1>8. ASSUME NEW th \in Threads, SendRequest(th) PROVE IInv'
    <2>1. /\ sending[th] \in Tasks /\ Len(schedchan) < SchedCap
          /\ schedchan' = Append(schedchan, sending[th])
          /\ sending' = [sending EXCEPT ![th] = NoTask]
          /\ UNCHANGED <<now, taskVars, mainVars, lane, running, stopped, calls>>
        BY <1>8, <1>t DEF SendRequest, TypeOK
    <2>2. schedchan \in Seq(Tasks) /\ schedchan' \in Seq(Tasks) /\ Len(schedchan') <= SchedCap
        BY <1>t, <2>1, QueueAssumption DEF TypeOK
    <2>3. TypeOK'
        BY <1>t, <2>1, <2>2 DEF TypeOK
    <2>4. \A u \in Tasks : Contains(schedchan', u) <=> Contains(schedchan, u) \/ sending[th] = u
        BY <2>1, <2>2, ContainsAppend
    <2>5. \A u \in Tasks : Requested(u) => Requested(u)'
        BY <1>t, <2>1, <2>4 DEF Requested, TypeOK
    <2>6. \A u \in Tasks : Held(u) => Held(u)'
        BY <2>1, <2>5 DEF Held
    <2>. QED
        BY <2>1, <2>3, <2>5, <2>6, <1>t, MovePreserves DEF TypeOK
<1>9. ASSUME NEW w \in Workers, Receive(w) PROVE IInv'
    <2>1. Serves[w] \in Lanes /\ lane[Serves[w]] \in Seq(Tasks) /\ lane[Serves[w]] # <<>>
        BY <1>9, <1>t, QueueAssumption DEF Receive, TypeOK
    <2>2. /\ running[w] = NoTask
          /\ running' = [running EXCEPT ![w] = Head(lane[Serves[w]])]
          /\ lane' = [lane EXCEPT ![Serves[w]] = Tail(lane[Serves[w]])]
          /\ UNCHANGED <<now, taskVars, mainVars, schedchan, sending, stopped, calls>>
        BY <1>9, <1>t, QueueAssumption DEF Receive, TypeOK
    <2>3. /\ Head(lane[Serves[w]]) \in Tasks /\ Tail(lane[Serves[w]]) \in Seq(Tasks)
          /\ Len(Tail(lane[Serves[w]])) <= Len(lane[Serves[w]])
        BY <2>1
    <2>4. TypeOK'
        <3>1. lane' \in [Lanes -> Seq(Tasks)] /\ \A l \in Lanes : Len(lane'[l]) <= LaneCap[l]
            <4>1. Len(Tail(lane[Serves[w]])) <= LaneCap[Serves[w]]
                BY <1>t, <2>1, <2>3, QueueAssumption DEF TypeOK
            <4>. QED
                BY <1>t, <2>1, <2>2, <2>3, <4>1, LaneReplaced
        <3>. QED
            BY <1>t, <2>2, <2>3, <3>1 DEF TypeOK
    <2>5. \A u \in Tasks : Requested(u) => Requested(u)'
        BY <2>2 DEF Requested, Contains
    <2>6. \A u \in Tasks : Contains(lane[Serves[w]], u)
                             => running'[w] = u \/ Contains(lane'[Serves[w]], u)
        BY <1>t, <2>1, <2>2, ContainsTail DEF TypeOK
    <2>7. \A u \in Tasks, l \in Lanes : l # Serves[w] => lane'[l] = lane[l]
        BY <1>t, <2>2 DEF TypeOK
    <2>8. ASSUME NEW u \in Tasks, Held(u) PROVE Held(u)'
        <3>1. CASE Requested(u)
            BY <2>5, <3>1 DEF Held
        <3>2. CASE \E e \in schedule : e[2] = u
            BY <2>2, <3>2 DEF Held
        <3>3. CASE \E l \in Lanes : Contains(lane[l], u)
            BY <2>1, <2>6, <2>7, <3>3 DEF Held
        <3>4. CASE \E v \in Workers : running[v] = u
            <4>1. PICK v \in Workers : running[v] = u
                BY <3>4
            <4>2. v # w
                BY <1>n, <2>2, <4>1
            <4>3. running'[v] = u
                BY <1>t, <2>2, <4>1, <4>2 DEF TypeOK
            <4>. QED
                BY <4>3 DEF Held
        <3>. QED
            BY <2>8, <3>1, <3>2, <3>3, <3>4 DEF Held
    <2>9. now <= now'
        BY <1>t, <2>2 DEF TypeOK
    <2>. QED
        BY <2>2, <2>4, <2>5, <2>8, <2>9, MovePreserves
<1>10. ASSUME HandleRequest PROVE IInv'
    <2>0. schedchan \in Seq(Tasks) /\ schedchan # <<>>
        BY <1>10, <1>t DEF HandleRequest, TypeOK
    <2>0a. PICK t \in Tasks : t = Head(schedchan)
        BY <2>0
    <2>1. /\ schedchan \in Seq(Tasks) /\ schedchan # <<>> /\ t = Head(schedchan)
          /\ schedchan' = Tail(schedchan)
          /\ locte' = [locte EXCEPT ![t] = when[t]]
          /\ schedule' = del(t) \cup {<<when[x], x>> : x \in {y \in {t} : when[y] # 0}}
          /\ UNCHANGED <<now, taskVars, dispatchAt, deferred, lane, threadVars, stopped, calls>>
        BY <1>10, <2>0, <2>0a DEF HandleRequest
    <2>2. schedchan' \in Seq(Tasks) /\ Len(schedchan') <= SchedCap
        <3>1. Len(schedchan) \in Nat /\ Len(schedchan) <= SchedCap /\ SchedCap \in Nat
            BY <1>t, <2>1, QueueAssumption DEF TypeOK
        <3>2. Tail(schedchan) \in Seq(Tasks) /\ Len(Tail(schedchan)) = Len(schedchan) - 1
            BY <2>1
        <3>. QED
            BY <2>1, <3>1, <3>2
    <2>3. schedule' = del(t) \cup (IF when[t] # 0 THEN {<<when[t], t>>} ELSE {})
        BY <2>1
    <2>4. TypeOK'
        <3>1. schedule' \subseteq Int \X Tasks
            <4>1. del(t) \subseteq Int \X Tasks /\ <<when[t], t>> \in Int \X Tasks
                BY <1>t DEF TypeOK, del
            <4>. QED
                BY <2>3, <4>1, Zenon
        <3>2. locte' \in [Tasks -> Int]
            BY <1>t, <2>1 DEF TypeOK
        <3>. QED
            BY <1>t, <2>1, <2>2, <3>1, <3>2 DEF TypeOK, taskVars, threadVars
    <2>5. ClockAhead' /\ LiveTasksHaveATime'
        BY <1>t, <2>1 DEF ClockAhead, LiveTasksHaveATime, IInv
    <2>6. EntriesHaveATime' /\ OneEntryPerTask'
        <3>1. \A e \in schedule' : e \in del(t) \/ (when[t] # 0 /\ e = <<when[t], t>>)
            BY <2>3
        <3>2. EntriesHaveATime'
            BY <3>1 DEF EntriesHaveATime, IInv, del
        <3>3. \A e \in schedule : e = <<e[1], e[2]>> /\ e[2] \in Tasks
            BY <1>t DEF TypeOK
        <3>4. ~deferred => \A e \in del(t) : e[2] # t
            BY <3>3 DEF OneEntryPerTask, IInv, del
        <3>5. locte'[t] = when[t] /\ \A u \in Tasks : u # t => locte'[u] = locte[u]
            BY <1>t, <2>1 DEF TypeOK
        <3>6. deferred' = deferred
            BY <2>1
        <3>7. OneEntryPerTask'
            BY <3>1, <3>3, <3>4, <3>5, <3>6 DEF OneEntryPerTask, IInv, del
        <3>. QED
            BY <3>2, <3>7
    <2>7. LocteIsFiled'
        BY <1>t, <2>1, <2>3 DEF LocteIsFiled, IInv, del, TypeOK
    <2>8. \A u \in Tasks : u # t /\ Requested(u) => Requested(u)'
        BY <2>1, ContainsTail DEF Requested
    <2>9. FiledUnderWhen'
        BY <1>t, <2>1, <2>8 DEF FiledUnderWhen, IInv, TypeOK
    <2>10. ASSUME NEW u \in Tasks, u # t, Held(u) PROVE Held(u)'
        <3>1. ASSUME NEW e \in schedule, e[2] = u PROVE e \in schedule'
            <4>1. e # <<locte[t], t>>
                BY <2>10, <3>1
            <4>. QED
                BY <2>3, <3>1, <4>1 DEF del
        <3>2. UNCHANGED <<lane, running>>
            BY <2>1 DEF threadVars
        <3>. QED
            BY <2>8, <2>10, <3>1, <3>2 DEF Held
    <2>11. when[t] # 0 => Held(t)'
        <3>1. when[t] # 0 => <<when[t], t>> \in schedule' /\ <<when[t], t>>[2] = t
            BY <2>3
        <3>. QED
            BY <3>1 DEF Held
    <2>12. NoTaskLost'
        <3>1. SUFFICES ASSUME NEW u \in (created \cap Periodic) \ removed PROVE Held(u)'
            BY <2>1 DEF NoTaskLost
        <3>2. u \in Tasks /\ Held(u) /\ when[u] # 0
            BY <1>t DEF NoTaskLost, IInv, LiveTasksHaveATime, TypeOK
        <3>. QED
            BY <2>10, <2>11, <3>2
    <2>. QED
        BY <2>4, <2>5, <2>6, <2>7, <2>9, <2>12 DEF IInv
<1>11. ASSUME NEW e \in schedule, DispatchOne(e) PROVE IInv'
    <2>1. /\ e \in Int \X Tasks /\ dispatchAt # 0
          /\ locte' = [locte EXCEPT ![e[2]] = 0]
          /\ UNCHANGED <<now, taskVars, schedchan, threadVars, stopped, calls>>
        BY <1>11, <1>t DEF DispatchOne, LocteCleared, TypeOK
    <2>2. \A u \in Tasks : Requested(u) => Requested(u)'
        BY <2>1 DEF Requested, Contains
    <2>3. FiledUnderWhen'
        BY <1>t, <2>1, <2>2 DEF FiledUnderWhen, IInv, TypeOK
    <2>4. ClockAhead' /\ LiveTasksHaveATime'
        BY <2>1 DEF ClockAhead, LiveTasksHaveATime, IInv
    <2>5. CASE sendWork(e[2]) /\ schedule' = schedule \ {e} /\ UNCHANGED <<dispatchAt, deferred>>
        <3>1. e[2] \in Tasks /\ sendWork(e[2])
            BY <2>1, <2>5
        <3>2. /\ lane' \in [Lanes -> Seq(Tasks)]
              /\ \A k \in Lanes : Len(lane'[k]) <= LaneCap[k]
              /\ \A u, k : k \in Lanes /\ Contains(lane[k], u) => Contains(lane'[k], u)
              /\ \E k \in Lanes : Contains(lane'[k], e[2])
            BY <1>t, <3>1, SendWorkKeeps
        <3>3. TypeOK'
            <4>1. locte' \in [Tasks -> Int] /\ schedule' \subseteq Int \X Tasks
                BY <1>t, <2>1, <2>5 DEF TypeOK
            <4>. QED
                BY <1>t, <2>1, <2>5, <3>2, <4>1 DEF TypeOK
        <3>6. \A u \in Tasks : Held(u) => Held(u)'
            BY <2>1, <2>2, <2>5, <3>2 DEF Held
        <3>7. NoTaskLost'
            BY <2>1, <3>6, <1>t DEF NoTaskLost, IInv, TypeOK
        <3>8. EntriesHaveATime'
            BY <2>5 DEF EntriesHaveATime, IInv
        <3>9. OneEntryPerTask'
            <4>1. SUFFICES ASSUME ~deferred, NEW f \in schedule, f # e
                           PROVE  locte'[f[2]] = f[1]
                BY <2>5 DEF OneEntryPerTask
            <4>2. /\ locte[f[2]] = f[1] /\ locte[e[2]] = e[1]
                  /\ f = <<f[1], f[2]>> /\ e = <<e[1], e[2]>> /\ f[2] \in Tasks
                BY <1>t, <4>1 DEF OneEntryPerTask, IInv, TypeOK
            <4>3. f[2] # e[2]
                BY <4>1, <4>2
            <4>. QED
                BY <2>1, <4>2, <4>3, <1>t DEF TypeOK
        <3>10. LocteIsFiled'
            BY <1>t, <2>1, <2>5 DEF LocteIsFiled, IInv, TypeOK
        <3>. QED
            BY <2>3, <2>4, <3>3, <3>7, <3>8, <3>9, <3>10 DEF IInv
    <2>6. CASE dispatchAt' = 0 /\ deferred' = TRUE /\ UNCHANGED <<schedule, lane>>
        <3>1. TypeOK'
            BY <1>t, <2>1, <2>6 DEF TypeOK
        <3>2. \A u \in Tasks : Held(u) => Held(u)'
            BY <2>1, <2>2, <2>6 DEF Held
        <3>3. NoTaskLost'
            BY <2>1, <3>2, <1>t DEF NoTaskLost, IInv, TypeOK
        <3>4. EntriesHaveATime' /\ OneEntryPerTask'
            BY <2>6 DEF EntriesHaveATime, OneEntryPerTask, IInv
        <3>5. LocteIsFiled'
            BY <1>t, <2>1, <2>6 DEF LocteIsFiled, IInv, TypeOK
        <3>. QED
            BY <2>3, <2>4, <3>1, <3>3, <3>4, <3>5 DEF IInv
    <2>. QED
        BY <1>11, <2>5, <2>6 DEF DispatchOne, WithoutEntry
<1>12. ASSUME Tick \/ Stop \/ BeginDispatch \/ EndDispatch \/ UNCHANGED vars PROVE IInv'
    <2>1. UNCHANGED <<taskVars, locte, schedule, deferred, chanVars, threadVars>> /\ now <= now'
        BY <1>12, <1>t DEF Tick, Stop, BeginDispatch, EndDispatch, vars, TypeOK
    <2>2. TypeOK'
        <3>1. /\ now' \in Nat /\ dispatchAt' \in 0..now' /\ stopped' \in BOOLEAN
              /\ calls' = calls
            <4>1. CASE Tick
                BY <1>t, <4>1 DEF Tick, TypeOK
            <4>2. CASE Stop
                BY <1>t, <4>2 DEF Stop, TypeOK
            <4>3. CASE BeginDispatch
                BY <1>t, <4>3 DEF BeginDispatch, TypeOK
            <4>4. CASE EndDispatch
                BY <1>t, <4>4 DEF EndDispatch, TypeOK
            <4>5. CASE UNCHANGED vars
                BY <1>t, <4>5 DEF vars, TypeOK
            <4>. QED
                BY <1>12, <4>1, <4>2, <4>3, <4>4, <4>5
        <3>. QED
            BY <1>t, <2>1, <3>1 DEF TypeOK
    <2>3. \A u \in Tasks : (Requested(u) => Requested(u)') /\ (Held(u) => Held(u)')
        BY <2>1 DEF Requested, Held, Contains
    <2>. QED
        BY <2>1, <2>2, <2>3, MovePreserves
<1>. QED
    BY <1>1, <1>2, <1>3, <1>4, <1>5, <1>6, <1>7, <1>8, <1>9, <1>10, <1>11, <1>12
       DEF Next, ThreadStep, MainStep
----------------------------------------------------------------------------
(* The inductive invariant holds whenever the scheduler runs (sched.go:36-330). *)
THEOREM Invariance == Spec => []IInv
<1>. QED
    BY InitInvariant, NextInvariant, PTL DEF Spec

(* The scheduler's variables keep their types and its channels never hold    *)
(* more than their capacity (sched.go:36-67).                                *)
THEOREM TypeCorrect == Spec => []TypeOK
<1>1. IInv => TypeOK
    BY DEF IInv
<1>. QED
    BY Invariance, <1>1, PTL

(* No interleaving of callers, main loop, dispatch and workers, and no full  *)
(* queue, loses a periodic task (New, ASAP, dispatch and worker, sched.go).  *)
THEOREM PeriodicTasksAreKept == Spec => []NoTaskLost
<1>1. IInv => NoTaskLost
    BY DEF IInv
<1>. QED
    BY Invariance, <1>1, PTL

(* Until a dispatch is refused by full queues, no task is filed twice: add,  *)
(* del and dispatch (sched.go:365-438) keep locte and the buckets in step.   *)
THEOREM OneEntry == Spec => []OneEntryPerTask
<1>1. IInv => OneEntryPerTask
    BY DEF IInv
<1>. QED
    BY Invariance, <1>1, PTL

(* `when', written by any goroutine, and the bucket the main loop chose can  *)
(* differ only while a request is under way (sched.go:156-186, 307-313).     *)
THEOREM FiledWhereAsked == Spec => []FiledUnderWhen
<1>1. IInv => FiledUnderWhen
    BY DEF IInv
<1>. QED
    BY Invariance, <1>1, PTL

(* A removal that has been handled leaves no entry behind (sched.go:183-186, *)
(* 307-313), until a dispatch is refused by full queues.                     *)
THEOREM RemovalSettles == Spec => []RemoveSettles
<1>1. IInv => RemoveSettles
    BY DEF IInv, TypeOK, RemoveSettles, EntriesHaveATime, OneEntryPerTask, FiledUnderWhen
<1>. QED
    BY Invariance, <1>1, PTL
============================================================================
