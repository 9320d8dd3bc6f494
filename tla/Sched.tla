------------------------------- MODULE Sched -------------------------------
(* The task scheduler, sched/sched.go.                                       *)
(*                                                                           *)
(* A task (type D) says when it wants to run by writing its own field `when' *)
(* and then sending its pointer down `schedchan'; the two are separate       *)
(* steps, the second may block, and any goroutine may do it for any task.    *)
(* The main loop is the only reader of schedchan and the only owner of the   *)
(* schedule, a list of buckets sorted by time.  On a tick it moves the due   *)
(* tasks into one of three worker channels, and the workers run them.        *)
(*                                                                           *)
(* A lane is a worker channel, numbered by the priority that prefers it:     *)
(* 2 = priochan, 1 = expresschan, 0 = workchan.                              *)
EXTENDS Integers, Sequences, FiniteSets

CONSTANTS
    Tasks,          \* the D objects
    NoTask,         \* the nil pointer
    Periodic,           \* tasks with auto = true: rescheduled by the worker
    Once,           \* tasks made by At(): run at one moment, handle not kept
    HighPrio,       \* tasks created with Conf.Prio
    Freq, Phase,    \* period and offset of the tasks made by New()
    Workers,        \* worker goroutines
    Serves,         \* the lane each worker reads
    Clients,        \* every other goroutine that uses the package
    LaneCap,        \* capacity of each lane
    SchedCap,       \* capacity of schedchan
    HOUR, JITTER,   \* 3600 and 4 in the code
    EXPRESS_LIMIT,  \* expected run time below which a task is "express"
    Delays,         \* the delays callers ask for
    RunTimes,       \* the run times callers report
    StartTime, Horizon, \* BOUND: the clock runs from one to the other
    MaxCalls        \* BOUND: API calls on existing tasks

Lanes   == 0..2
Threads == Workers \cup Clients

ASSUME TasksAssumption ==
    /\ NoTask \notin Tasks
    /\ Periodic \subseteq Tasks
    /\ Once \subseteq Tasks
    /\ HighPrio \subseteq Tasks
    /\ Periodic \cap Once = {}
    /\ Workers \cap Clients = {}

ASSUME TimeAssumption ==
    /\ Freq \in [Tasks -> Nat \ {0}]
    /\ Phase \in [Tasks -> Nat]
    /\ \A t \in Tasks : Phase[t] < Freq[t] /\ Freq[t] <= StartTime
    /\ StartTime \in Nat \ {0}
    /\ Horizon \in Nat
    /\ HOUR \in Nat \ {0}
    /\ JITTER \in Nat
    /\ JITTER < HOUR
    /\ Delays \subseteq Nat
    /\ RunTimes \subseteq Nat
    /\ EXPRESS_LIMIT \in Nat

ASSUME QueueAssumption ==
    /\ Serves \in [Workers -> Lanes]
    /\ LaneCap \in [Lanes -> Nat \ {0}]
    /\ SchedCap \in Nat \ {0}
    /\ MaxCalls \in Nat

VARIABLES
    now,        \* clock.Unix()
    created,    \* tasks handed to the scheduler so far
    when,       \* D.when; 0 means "do not schedule"
    xdt, prio,  \* D.xdt, the smoothed run time, and D.prio
    locte,      \* D.locte: the time of the bucket it points to, 0 for nil
    schedule,   \* the buckets: pairs <<time, task>>
    schedchan,  \* requests for the main loop, in order
    lane,       \* the three worker channels
    sending,    \* the task each goroutine is about to send on schedchan
    running,    \* the task each worker is running
    dispatchAt, \* the clock dispatch() read when it began, 0 if it is not running
    stopped,    \* stopchan is closed
    deferred,   \* WorkDefer: a dispatch has found the queues full
    removed,    \* HISTORY: tasks Remove() was called on
    calls       \* BOUND: API calls made

taskVars == <<created, when, xdt, prio, removed>>
mainVars == <<locte, schedule, dispatchAt, deferred>>
chanVars == <<schedchan, lane>>
threadVars == <<sending, running>>
vars == <<now, taskVars, mainVars, chanVars, threadVars, stopped, calls>>

Contains(s, t) == \E i \in 1..Len(s) : s[i] = t
----------------------------------------------------------------------------
(* The arithmetic of ReSchedule and ReScheduleSamePrio.  The code's loop     *)
(* `for d.when < now' is never entered: the slot is already later than now.  *)
(* An operator named Bug... is a mistake a later edit could make.  The model *)
(* does not use it: it is there to show that a property below would fail.    *)
NextSlot(t) == ((now - Phase[t]) \div Freq[t]) * Freq[t] + Freq[t] + Phase[t]

Wanted(t, delay) == IF delay > 0 THEN now + delay ELSE NextSlot(t)

Slots(t, delay) ==
    LET w == Wanted(t, delay)
    IN  IF w % HOUR = 0 THEN {w + j : j \in 1..JITTER} ELSE {w}

Smoothed(old, exp) == (3 * (IF old = 0 THEN exp ELSE old) + exp) \div 4

PrioFor(old, x) ==
    IF old = 2 THEN 2
    ELSE IF x # 0 /\ x < EXPRESS_LIMIT THEN 1 ELSE 0

(* Send d.when and then the pointer: the goroutine is now at the channel     *)
(* send, which SendRequest completes.                                        *)
BugReScheduleUnsent(th, t, delay) ==
    /\ \E w \in Slots(t, delay) : when' = [when EXCEPT ![t] = w]
    /\ UNCHANGED sending

ReScheduleSamePrio(th, t, delay) ==
    /\ \E w \in Slots(t, delay) : when' = [when EXCEPT ![t] = w]
    /\ sending' = [sending EXCEPT ![th] = t]

ReSchedule(th, t, delay, exp) ==
    /\ xdt'  = [xdt EXCEPT ![t] = Smoothed(xdt[t], exp)]
    /\ prio' = [prio EXCEPT ![t] = PrioFor(prio[t], Smoothed(xdt[t], exp))]
    /\ ReScheduleSamePrio(th, t, delay)

(* The lanes sendWork would try that have room; it takes the first one,      *)
(* falling through from the task's own priority to workchan.                 *)
Open(t) == {l \in 0..prio[t] : Len(lane[l]) < LaneCap[l]}

Refused(t) == Open(t) = {}

sendWork(t) ==
    \E l \in Open(t) :
        /\ \A k \in Open(t) : k <= l
        /\ lane' = [lane EXCEPT ![l] = Append(@, t)]
----------------------------------------------------------------------------
Init ==
    /\ now = StartTime
    /\ created = {}
    /\ when = [t \in Tasks |-> 0]
    /\ xdt = [t \in Tasks |-> 0]
    /\ prio = [t \in Tasks |-> IF t \in HighPrio \cup Once THEN 2 ELSE 0]
    /\ locte = [t \in Tasks |-> 0]
    /\ schedule = {}
    /\ schedchan = <<>>
    /\ lane = [l \in Lanes |-> <<>>]
    /\ sending = [th \in Threads |-> NoTask]
    /\ running = [w \in Workers |-> NoTask]
    /\ dispatchAt = 0
    /\ stopped = FALSE
    /\ deferred = FALSE
    /\ removed = {}
    /\ calls = 0

Tick ==
    /\ now < Horizon
    /\ now' = now + 1
    /\ UNCHANGED <<taskVars, mainVars, chanVars, threadVars, stopped, calls>>

(* A goroutine may start a call when it is not blocked in another; a worker  *)
(* makes calls from within the task it runs.                                 *)
Ready(th) ==
    /\ sending[th] = NoTask
    /\ th \in Workers => running[th] # NoTask

New(th, t) ==
    /\ Ready(th)
    /\ t \notin created \cup Once
    /\ created' = created \cup {t}
    /\ ReSchedule(th, t, 0, 0)
    /\ UNCHANGED <<now, removed, mainVars, chanVars, running, stopped, calls>>

At(th, t, unix) ==
    /\ Ready(th)
    /\ t \in Once \ created
    /\ created' = created \cup {t}
    /\ when' = [when EXCEPT ![t] = unix]
    /\ sending' = [sending EXCEPT ![th] = t]
    /\ UNCHANGED <<now, xdt, prio, removed, mainVars, chanVars, running, stopped, calls>>

(* Calls on a task somebody holds the pointer of.                            *)
Call(th, t) ==
    /\ Ready(th)
    /\ t \in created \ Once
    /\ calls < MaxCalls
    /\ calls' = calls + 1

CallReSchedule(th, t) ==
    /\ Call(th, t)
    /\ \E delay \in Delays, exp \in RunTimes : ReSchedule(th, t, delay, exp)
    /\ UNCHANGED <<now, created, removed, mainVars, chanVars, running, stopped>>

Remove(th, t) ==
    /\ Call(th, t)
    /\ when' = [when EXCEPT ![t] = 0]
    /\ sending' = [sending EXCEPT ![th] = t]
    /\ removed' = removed \cup {t}
    /\ UNCHANGED <<now, created, xdt, prio, mainVars, chanVars, running, stopped>>

ASAPSent(th, t) ==
    /\ Call(th, t)
    /\ sendWork(t)
    /\ UNCHANGED <<now, taskVars, mainVars, schedchan, threadVars, stopped>>

ASAPDeferred(th, t) ==
    /\ Call(th, t)
    /\ Refused(t)
    /\ ReScheduleSamePrio(th, t, 1)
    /\ UNCHANGED <<now, created, xdt, prio, removed, mainVars, chanVars, running, stopped>>

(* The blocking send that ends New, At, ReSchedule and Remove.               *)
SendRequest(th) ==
    /\ sending[th] # NoTask
    /\ Len(schedchan) < SchedCap
    /\ schedchan' = Append(schedchan, sending[th])
    /\ sending' = [sending EXCEPT ![th] = NoTask]
    /\ UNCHANGED <<now, taskVars, mainVars, lane, running, stopped, calls>>

Stop ==
    /\ ~stopped
    /\ stopped' = TRUE
    /\ UNCHANGED <<now, taskVars, mainVars, chanVars, threadVars, calls>>
----------------------------------------------------------------------------
(* The main loop.  After Stop, the `break' in the stopchan case leaves only  *)
(* the select statement, so the loop goes on exactly as before.              *)
BugDelForgets(t) == schedule

del(t) == {e \in schedule : e # <<locte[t], t>>}

HandleRequest ==
    /\ dispatchAt = 0
    /\ schedchan # <<>>
    /\ schedchan' = Tail(schedchan)
    /\ LET t == Head(schedchan)
       IN  /\ locte' = [locte EXCEPT ![t] = when[t]]
           /\ schedule' = del(t) \cup {<<when[x], x>> : x \in {y \in {t} : when[y] # 0}}
    /\ UNCHANGED <<now, taskVars, dispatchAt, deferred, lane, threadVars, stopped, calls>>

BugDueLate(time) == {e \in schedule : e[1] < time}

Due(time) == {e \in schedule : e[1] <= time}

BeginDispatch ==
    /\ dispatchAt = 0
    /\ Due(now) # {}
    /\ dispatchAt' = now
    /\ UNCHANGED <<now, taskVars, locte, schedule, deferred, chanVars, threadVars, stopped, calls>>

(* The next entry: any task of the earliest bucket, in map order.            *)
IsNext(e) ==
    /\ e \in Due(dispatchAt)
    /\ \A f \in Due(dispatchAt) : e[1] <= f[1]

LocteCleared(t) == [locte EXCEPT ![t] = 0]

WithoutEntry(e) == schedule \ {e}

DispatchOne(e) ==
    /\ dispatchAt # 0
    /\ IsNext(e)
    /\ locte' = LocteCleared(e[2])
    /\ \/ /\ sendWork(e[2])
          /\ schedule' = WithoutEntry(e)
          /\ UNCHANGED <<dispatchAt, deferred>>
       \/ /\ Refused(e[2])          \* queue full - take a break...
          /\ dispatchAt' = 0
          /\ deferred' = TRUE
          /\ UNCHANGED <<schedule, lane>>
    /\ UNCHANGED <<now, taskVars, schedchan, threadVars, stopped, calls>>

BugEndDispatch ==
    /\ dispatchAt # 0
    /\ schedule = {}
    /\ dispatchAt' = 0
    /\ UNCHANGED <<now, taskVars, locte, schedule, deferred, chanVars, threadVars, stopped, calls>>

EndDispatch ==
    /\ dispatchAt # 0
    /\ Due(dispatchAt) = {}
    /\ dispatchAt' = 0
    /\ UNCHANGED <<now, taskVars, locte, schedule, deferred, chanVars, threadVars, stopped, calls>>
----------------------------------------------------------------------------
(* Workers.  A crash of the task is recovered by run() and is a return.      *)
Receive(w) ==
    /\ running[w] = NoTask
    /\ sending[w] = NoTask
    /\ lane[Serves[w]] # <<>>
    /\ running' = [running EXCEPT ![w] = Head(lane[Serves[w]])]
    /\ lane' = [lane EXCEPT ![Serves[w]] = Tail(@)]
    /\ UNCHANGED <<now, taskVars, mainVars, schedchan, sending, stopped, calls>>

Return(w) ==
    /\ running[w] # NoTask
    /\ sending[w] = NoTask
    /\ running' = [running EXCEPT ![w] = NoTask]
    /\ \/ /\ running[w] \in Periodic
          /\ ReScheduleSamePrio(w, running[w], 0)
       \/ /\ running[w] \notin Periodic
          /\ UNCHANGED <<when, sending>>
    /\ UNCHANGED <<now, created, xdt, prio, removed, mainVars, chanVars, stopped, calls>>

ThreadStep(th) ==
    \/ SendRequest(th)
    \/ \E t \in Tasks :
        \/ New(th, t)
        \/ \E unix \in 1..Horizon : At(th, t, unix)
        \/ CallReSchedule(th, t)
        \/ Remove(th, t)
        \/ ASAPSent(th, t)
        \/ ASAPDeferred(th, t)

MainStep == HandleRequest \/ BeginDispatch \/ (\E e \in schedule : DispatchOne(e)) \/ EndDispatch

Next ==
    \/ Tick
    \/ Stop
    \/ MainStep
    \/ \E th \in Threads : ThreadStep(th)
    \/ \E w \in Workers : Receive(w) \/ Return(w)

Spec == Init /\ [][Next]_vars

(* The clock advances; select chooses at random among ready cases, so both   *)
(* cases of the main loop are strongly fair; a goroutine blocked on a full   *)
(* channel waits in Go's FIFO queue, so its send is strongly fair; workers   *)
(* run, and the task they run returns.                                       *)
Fairness ==
    /\ WF_vars(Tick)
    /\ SF_vars(HandleRequest)
    /\ SF_vars(BeginDispatch)
    /\ WF_vars(\E e \in schedule : DispatchOne(e))
    /\ WF_vars(EndDispatch)
    /\ \A th \in Threads : SF_vars(SendRequest(th))
    /\ \A w \in Workers : WF_vars(Receive(w)) /\ SF_vars(Return(w))

FairSpec == Spec /\ Fairness
----------------------------------------------------------------------------
TypeOK ==
    /\ now \in Nat
    /\ created \subseteq Tasks
    /\ removed \subseteq created
    /\ when \in [Tasks -> Int]
    /\ xdt \in [Tasks -> Nat]
    /\ prio \in [Tasks -> 0..2]
    /\ locte \in [Tasks -> Int]
    /\ schedule \subseteq Int \X Tasks
    /\ schedchan \in Seq(Tasks) /\ Len(schedchan) <= SchedCap
    /\ lane \in [Lanes -> Seq(Tasks)]
    /\ \A l \in Lanes : Len(lane[l]) <= LaneCap[l]
    /\ sending \in [Threads -> Tasks \cup {NoTask}]
    /\ running \in [Workers -> Tasks \cup {NoTask}]
    /\ dispatchAt \in 0..now
    /\ stopped \in BOOLEAN
    /\ deferred \in BOOLEAN
    /\ calls \in Nat

(* A request for the task is on its way to the main loop.                    *)
Requested(t) ==
    \/ Contains(schedchan, t)
    \/ \E th \in Threads : sending[th] = t

(* A task has at most one entry in the schedule, and points to it, in every  *)
(* order of reschedules, removals and dispatches, until a dispatch finds the *)
(* queues full.  From then on it need not: the entry left behind at          *)
(* sched.go:428-433 has no locte, a later request files the task a second    *)
(* time, and dispatching the leftover then clears the locte of the second.   *)
OneEntryPerTask ==
    ~deferred => \A e \in schedule : locte[e[2]] = e[1]

(* A task is filed under the time its `when' says, unless a request that     *)
(* will correct this is on its way: the writer of `when' and the main loop   *)
(* never disagree for good.                                                  *)
FiledUnderWhen ==
    \A t \in Tasks : locte[t] # 0 /\ locte[t] # when[t] => Requested(t)

(* What locte points at is really in the schedule.                           *)
LocteIsFiled ==
    \A t \in Tasks : locte[t] # 0 => <<locte[t], t>> \in schedule

(* Remove is final for the schedule once it has been handled and nobody has  *)
(* asked for the task since: no entry is left that could still dispatch it,  *)
(* unless a dispatch has found the queues full.                              *)
RemoveSettles ==
    ~deferred => \A e \in schedule : when[e[2]] = 0 => Requested(e[2])

(* A periodic task that was not removed is never lost: it is requested, in   *)
(* the schedule, queued for a worker or running (New, worker, dispatch).     *)
Held(t) ==
    \/ Requested(t)
    \/ \E e \in schedule : e[2] = t
    \/ \E l \in Lanes : Contains(lane[l], t)
    \/ \E w \in Workers : running[w] = t

NoTaskLost == \A t \in (created \cap Periodic) \ removed : Held(t)

(* A goroutine blocked on a full schedchan gets through: the main loop never *)
(* waits for a worker, so schedchan always drains.                           *)
BlockedSendersProceed ==
    \A th \in Threads : sending[th] # NoTask ~> sending[th] = NoTask

(* Work that is due reaches a worker, even when every queue was full, unless *)
(* it is removed or put off to a later time first.                           *)
DueWorkRuns ==
    \A t \in Tasks :
        (\E e \in schedule : e[2] = t /\ e[1] <= now)
            ~> (t \in removed \/ when[t] > now \/ \E w \in Workers : running[w] = t)
============================================================================
