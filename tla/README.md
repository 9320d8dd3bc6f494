# Argus 5 in TLA+

Argus monitors services: it runs tests on a schedule, keeps a tree of
monitored elements with a status each, tells people when something goes down,
and can share the work between several servers (darp). It is one Go program
with many goroutines, mutexes and channels, and a directory of small state
files. This directory holds TLA+ modules that model its core, TLC
configurations that check them on small instances, and proofs that TLAPS
checks for every instance.

Paths below are relative to `src/src/argus/` unless they say otherwise.

    tlc -workers 2 -config MCSched.cfg MCSched     # a run
    tlapm SchedProofs.tla                          # the proofs of a module

## 1. The system

| component | keeps | does | interacts with |
|---|---|---|---|
| scheduler `sched/` | the schedule (buckets of tasks by time), request channel, three worker channels | New, At, ReSchedule, Remove, ASAP, dispatch | services, notifications, overrides, statistics all run as its tasks |
| services `service/` | per service: running, tries, results, statuses per server, baselines | Start, Pass/Fail, SetResult, Done, CheckNow | started by the scheduler, uses a monitor, updates its monel, tells darp masters |
| monitors `monitor/*` | little; ping and compute have pools | one test of one service | service, resolver, external programs |
| monitored elements ("monels") `monel/`, `group/`, `alias/` | status, status with overrides, counts, override, marks, statistics; the maps of down and overridden elements | Update, UpUpdate, SetOverride, DelOverride, Recycle, Persist, Restore | services below, notifications above |
| notifications `notify/` | notifications by number, the active ones, queues by destination; a file each, a counter file | New, Update, ack, maintenance, transmit, discard | monels, users, mail or pager programs |
| distributed argus `darp/` | which servers are up, a message queue per master | slave to master updates, combination of statuses | services, API server |
| resolver `resolv/` | cache of names, list of what to refresh, queries under way | Request, Refresh, Result, workers | monitors, darp |
| graph storage `graph/` | ring files of samples, hours and days | Add, Get | services, API |
| configuration `construct/`, `configure/`, `config/` | inherited values | read, reload | makes everything |
| API and web `api/`, `web/`, `users/`, `sec/` | sessions | requests into all of the above | |
| daemon `src/src/cmd/argusd` | | start, stop and reload order | |

How they interact. The scheduler's main loop is the only goroutine that
touches the schedule; everything else reaches it through a channel. A task
runs on a worker and calls into a service; its result goes to the monel under
that monel's lock, and from there a new goroutine takes it to each parent. In
a change of status the monel, still locked, creates or updates notifications,
which blocks if the notification worker's channel is full. That worker calls
users' programs with the package lock held. Each hour and at the end the
monels save themselves and their notifications.

### What is hard in it, and what correctness means

* Scheduler: a task writes its own time and *then* sends a request; requests
  overtake dispatches; all channels are bounded. No task may be lost, filed
  twice or filed under a stale time; blocked senders must get through; due
  work must run.
* Monels: goroutines of different changes overtake each other, children are
  read one lock at a time, overrides walk the tree unlocked. Once things are
  quiet a parent must agree with its children; locks must not be waited for
  in a circle; nobody is notified below an override; a timer of an old
  override must not remove a new one.
* Notifications: user, timeout, status change and discard meet on one
  notification; the worker may end a pass early; the process may end between
  two writes; files are saved by three parties under different locks. What is
  acked stays acked and is never sent again; what is not is sent, escalated
  and finally timed out; numbers are not given out twice.
* Combination of statuses: quorums with unknown and absent members; when one
  member gets worse the whole must not get better.
* Services: `running` is a latch that only Done opens, and a test may never be
  done; two tests, or two servers, report at the same time.
* Monitors: an answer may be another test's (a shared page, another interface
  under the same number, a counter that was reset), or no answer at all.
* Ping pool: a lock that is taken in one function and released in another,
  with returns in between; every test in the pool must get a result.
* Resolver: a query is refused when the queue is full, an entry is created
  twice, an answer comes after its timeout, a name server is dead. What was
  asked for must be on its way, and addresses must be found again and again.
* Darp: messages are dropped when the queue is full, lost when a connection
  ends; a late disconnect follows a reconnect. A master must not keep an old
  status for another reason, nor take a slave that is there for gone.
* Graph files: readers under a different lock than writers, and a header that
  is written after the samples it counts.
* Baselines and expressions: long sequences of legal steps (gaps, resets,
  restarts, new periods; operators, functions, brackets) through one small
  machine, which must never be left with a hole.
* Reload and stop: elements are removed while updates are on their way;
  parts are stopped while others use them.

PROJECT.json lists these hazards with their lines and the properties that
cover them.

## 2. Plan

Done, in this order: 1. `Sched` and its proofs. 2. `AggrStatus`. 3. `Notify`.
4. `Monel`. 5. `Service` and its proofs. 6. `PingPool`. 7. `Resolver`.
8. `Feed`, what a connection between servers promises, and `Darp`, which
implements it. 9. `Graph`. 10. `Expr`, `Snmp`, `Hwab` and `Probes`: what the
monitors and the services make of an answer. `MCComponents` runs the parts
that share no state.

Composition: `Service` uses `AggrStatus` for the combination of servers and
has the ends of a ping test that `PingPool` produces; `Monel` uses
`AggrStatus`; `Darp` instantiates `Feed`.

Proved since: `Notify`, all five of its safety properties; `PingPool`; `Darp`,
both AgreedWhenQuiet and the refinement of `Feed`; `Snmp`; `Probes`;
`Monel`, its overrides and AddsUp; `Resolver`; the aggregates of `AggrStatus`;
`Hwab`; `Graph`, both what the file holds and what its readers see.

What would come next: `MonelReload` (Recycle and the order of its locks), if
the tree of `Monel` becomes a variable.

## 3. The modules

### Sched (sched/sched.go)

One action per call (`New`, `At`, `CallReSchedule`, `Remove`, `ASAPSent`,
`ASAPDeferred`), per case of the main loop (`HandleRequest`, dispatch) and per
step of a worker (`Receive`, `Return`). `Threads` are the worker goroutines
and all others; a thread that is at the blocking `schedchan <- d` has the task
in `sending`. `when` is written when the call is made and `SendRequest` puts
the pointer in the channel later. Dispatch is one action per task
(`BeginDispatch`, `DispatchOne`, `EndDispatch`), because workers run between
them. The code's buckets (a time and a map of tasks) are pairs
`<<time, task>>`, and `locte` holds the time of the bucket a task points to.
The three channels are `lane[0..2]`; `sendWork` takes the first that has room.

`Stop` sets a flag and nothing else: the `break` at line 306 leaves the
`select` and not the loop, so the drain loop at line 320 ("shutting down,
discard requests") is never reached and scheduling goes on.

Left out: `autotune` (the set of workers is a constant), the counters, and
`clock.Unix()` is a variable that advances by one.

### AggrStatus (monel/transition.go, darp/status.go)

`calcAggrStatus` and `CalcAggrStatus` as functions of a function from members
to statuses. The code counts members per status in an array and scans it with
a running sum; `Cumulative` is that sum. `Aggregates` has the members change one
at a time, for the properties of the two functions.

### Notify (notify/, monel/persist.go, argus/persist.go)

One instance of the package: `note` is what is in memory, `file`, `notno` and
`listed` are on disk, `byid` and `actives` are the two maps. The worker's
place in its loop is `wpc`; it holds the package lock except in "idle" and
"ready". `MonelFree` says that the monel is not inside a call: all its actions
need its lock, and it keeps it while it waits to send (`outbox`). A user's ack
is `LookUp` and then `UserAck`, which do not hold the package lock together.
`SaveNote` and `SaveRename` are the two halves of a save by one of `Savers`, the
monel's persist and `Stop`, neither of which locks the notification. `Stop`
saves what is registered one by one with the package lock held for reading
(`stopping`): what needs it for writing, as the worker does, waits, but a user's
`LookUp` reads too, so acks fall between the halves. `Crash` may happen at any point and clears the memory; `Restart` and
`Load` read what the disk has.

`StillActive` is the loop in which runQueues drops what is no longer active
from what it took, written as a function of the place in the list.

Three facts the code's order decides are kept: `ack` writes the file before it
marks the destinations; `GiveUp` is the early return of runQueues; `Discard`
removes a notification from the maps and leaves the monel to forget it in a
goroutine (`removing`).

Abstracted: one monel; an update concerns one of its notifications at a time;
the send table is a constant; marking a notification sent and acking it
automatically is one step; a save by `ack` is one step; the
temporary file a save writes first is not a state. The last two hide that two
saves of one notification share the name of the temporary file
(argus/persist.go:42) and that the janitor takes "5.tmp" for number 0 and
removes it.

### Monel (monel/transition.go, override.go, depends.go)

`phase[m]` is what the goroutine that holds `m.Lock` is doing: reading the
children (`ReadChild`), computing (`determineAggrStatus`), reading the
dependencies (`checkDepends`), deciding (`Determined`), reading the children's
counts (`ReadSummary`), and finishing (`commonUpdate`). Each reading step waits
for the other element's lock with its own held, as `child.Status()` does. The
goroutines that have yet to start at an element are the sets `upward`
(`UpUpdate`) and `marking` (`updateIsDown`). A user's call is `op[u]` and, for
the walk down the tree, the list `walk[u]` of what is left to do. `Users` are
all goroutines that change overrides, those of the scheduler that run
overrideExpire among them, so that any number of calls overlap: users with each
other, and with a timer between its look (`HasExpired`) and its DelOverride.

Two calls that overlap and both reach an element can leave its mark, or its place
in the list, wrong: each writes what it read, in either order. Three history
variables say where that may be: `met[u]` are the elements of the calls that
overlapped u's, `contested` the marks and places that were last written by a
call that met another which reaches them, and `looked[u]` the overrides there
were when a timer found one expired. OverridesAreKnown is about what is not
contested. It does not except calls that overlap elsewhere in the tree, nor a
mark which one call alone wrote afterwards.

Abstracted: the goroutine of andUpwards visits its targets in order, here each
of them is pending by itself; two pending goroutines with the same target are
one; the ReUpdate at the end of SetOverride is such a goroutine too. Alarm,
texts, statistics and times are functions of the status or not modelled. The
tree is constant, and it is a tree (TreeAssumption): New is given one parent,
which exists already, and Init adds the element to it once. `Under`, what
ovPropDown reaches, is the least set that holds the children and with each
element its children.

`Kids` is what an element reads and `Ups` whom it tells: an alias of a group
reads the group's children itself, and is told by the group, not by them
(KidsAssumption). A parent's raw status may lag behind its children's, since a
change of raw status that does not change the status with overrides is not
passed on (transition.go:15-40). AddsUp is therefore about the status with
overrides, given the raw status that the element has. Elements begin as
DoneConfig leaves them when every child is done before those that read it
(`FirstOv`, `FirstSummary`).

### Service (service/service.go, with darp/status.go and the ends of ping)

A service as three kinds of goroutines see it. A worker that comes to start it
either takes the latch (`BeginTest`: the locked section of tasRunning) or is
refused, looks at the age of the test without a lock (`CheckAge`) and may
`Abort` it, which for ping means Done. A tester carries the test through
`step`: testing, then SetResult (`SetResult`, `SendUpdate`), then SetResultFor
(`setResultForL` and `Update`), then `Done`. A slave's request does the last
two for the slave's status. `val` is the local variable that goes along.
`aborts` is a history variable: how many tests were given up, each of which may
still be going on.

The scheduler is abstract: a start may come at any time, which is what `Sched`
gives an automatic task that is not removed. What reschedule asks for only
moves that time and is left out. So are the clock (`old` says that a running
test was started more than 900 seconds ago), `ready`, the tests to run after
this one, results and reasons, and persistence.

### PingPool (monitor/ping/ping.go)

A test (`StartPing`) puts the service in `running` and a goroutine of the
scheduler at the channel (`sending`); `Send` succeeds when there is room. A
pool worker goes from "lock" through "start" (it has one test), gathers with
`addMore`, starts fping and gives the lock back, and then handles lines until
fping ends. `Unanswered` are the tests it fails at the end. `AbortPing` is what
Service does to a test that is 900 seconds old: the service is free, its test
stays in the pool. The error returns of ping() are a step of their own, which
leaves the lock where it is (`justOne`). `underway` are the tests a worker has,
a list for each address, as fping's lines name addresses and not services.

### Resolver (resolv/)

`cache` maps names to entries; `todo` is the channel of queries, `pending` the
worker's map, with the queries each lookup has underway in `sent`. The worker's
handler of a tick is not one step: `visit` is what the range over the map has
still to come to, and a query that is sent again may be visited or not, as Go
leaves open. Putting a result into the cache is `got` and `addCache`, one name
at a time, since the entry may be made by a monitor in between. A monitor's
`Request` finds no entry in one step and creates it in the next (`RequestNew`),
which replaces whatever is there by then. `Addr` and `WillNeedIn` are the calls
of a test, `cacheMaint` the janitor. Lost and late answers need no action: they
are never received, or find nothing pending.

Abstracted: packets, addresses (a family is there or not), the pacing between
queries. Ids are only distinct from those in use (`NewIds`) and never run out. `Expire` stands for a TTL. The code's
`sendQueryZone` stores the id of the IPv6 query in the field of the IPv4 one
(resolv.go:242); so does the model.

### Feed and Darp (darp/darp.go, darp/client.go, api/)

`Darp` has a client goroutine per master on the slave and a goroutine per
connection on the master. `link[m][c]` is a connection with the request and the
answer in flight; "shut" means that the slave has closed it and the master has
not noticed, "dead" that neither knows. `Connected` is what the master does on
every request, `Disco` when a goroutine notices the end. `missed` is a history
variable that records what the code drops: an update for a full queue
(darp.go:296), one whose request failed.

`Feed` promises less: a bag of updates on the way to each master, each of which
is served at most once or lost, in any order. The mapping counts, for each
status, what is queued and what is sent and not yet served. Order is not
promised, because the goroutine of an old connection may serve its last request
after a new connection has carried a newer one.

### Graph (graph/graphd/)

`file` is the file as it is on disk, `h` the writer's copy of the header. An
`Add` goes through `AddOpen`, `AddSample`, `Roll` for days and for hours, and
`save`; a `Get` is `GetOpen` (header), `GetRecord` for each record and
`GetReturns`. Two locks are taken, by name and by file name (`LockOf`); in the
run they differ, as hashes of two strings do. `Crash` may come between any two
writes. `added` is what a reader may expect: the samples whose Add has ended.
`Expected` is the reference: the samples themselves, or one summary (`SumUp`) for
each hour or day that is over, in order.

### Expr (expr/expr.go)

An expression grows token by token through every text that is well formed, and
those with a bracket too many (`Operand`, `Operator`, `Bracket`, ...). For each
of them `Calc` is the code: `parse`, Dijkstra's two stacks, and `RunExprF`, the
stack machine, over pairs for fractions. `Meaning` is the reference: a recursive
function that splits an expression at its loosest operator, with the code's
precedences (`*` over `/` over `%` over `+` and `-`).

### Snmp (monitor/snmp/snmp.go, rateCalc of service/testing.go)

The device counts, reboots and renumbers its interfaces; argus restarts. A test
is one action for each way it can end (`NoAnswer`, `NoDescription`,
`Reconfigured`, `Value`, `NoNumber`) after discovery. Each sample carries, as a
history, what it really was a sample of; `delta` holds the two samples of the
rate that was reported last.

### Hwab (service/hwab.go)

A baseline with its lists C and D, the bucket counter, laps and phase. Values
are Naught, Some or NaN: the code takes 0 for "not known" and a negative
variance gives NaN. `AddAt` is a value; `AfterWindows` is its loop over the windows that ended since
the last one, `addWindow` one turn of it. `Lengths` are the periods, in windows,
that the configuration may have. `Restored` a restart with the period of the new configuration,
`PersistHwab` and `apiHwabReset` what their names say. A NaN in the saved data
makes json.Marshal fail, so that the file is empty.

### Probes (monitor/*)

One test of each of the other monitors, in the steps in which the world may
change between them: resolve, connect, send, read, judge. A host has two
addresses that answer ("good"), answer otherwise ("odd"), accept and stay silent
("mute") or refuse ("dead"). `Configured` picks the kind of monitor. `webCache`
is the page cache that two services share; the agent first asks for the
operating system. `verdict` records what a verdict was based on.

## 4. The runs

| run | instance | what it shows |
|---|---|---|
| `sched` | 1 periodic and 1 one-shot task, 1 client, 2 workers on two lanes, all capacities 1, clock 3..5, 1 call | OneEntryPerTask, RemoveSettles, NoTaskLost, BlockedSendersProceed, DueWorkRuns |
| `notify` | 1 number, 2 destinations with a delay and an escalation, 1 ack, 1 update, 1 save, 1 stop, 1 crash, clock 1..3 | ActivesAreRegistered, AckIsFinal, QueuedOncePerStep, FilesAreNotReused, AckedStaysQuiet |
| `notify_live` | 2 notifications, 2 destinations queued at different times, channel of 1, timeouts and discarding, 1 ack, clock 1..3 | QueuedIsSent, UnackedTimesOut, SendersProceed |
| `monel` | group over two services of which one depends on the other, alias of the group, 2 reports, 1 user, 2 calls that set or remove an override of the group; the alias has countstop | AddsUp, HoldersProceed |
| `monel_override` | chain of three, the upper two with countstop, 2 users (symmetric), 2 calls that set or remove an override, and the timers' removals, 1 report | OverridesAreKnown, OverridesExpire, QuietUnderOverride, ExpiredIsRemoved |
| `service` | ping, 1 worker, 2 testers, 1 slave, 1 retry, verdicts clear and critical, gravity ietf | OneTestAtATime, DownMeansRetriesSpent, MastersAgree, StaleStatusHeals |
| `resolver_live` | 2 monitors of one name, 2 name servers of which the first is dead, 3 tries, 1 query underway, queue of 2 | FoundAgain |
| `darp` | 1 master from which the configuration is fetched, queue of 2, 2 connections, 3 updates, 3 faults | AgreedWhenQuiet, AtMostOnce (refines Feed), SeenAsItIs |
| `components` | see below | AskedIsOnTheWay, CountsWhatIsPending, FileIsTheHistory, ReadersSeeTheHistory, WorthWhatItMeans, RatesAreTrue, BaselineIsWhole, EachTestIsNew, FailuresMoveOn, UpWasHeard, NoPingIsForgotten, GroupIsMedian, WorseIsNeverBetter |
| `monel_isdown` | the chain, 2 reports | violated: IsDownIsCurrent |
| `notify_ack_lock` | 2 notifications, 1 ack | violated: AckHoldsPackageLock |
| `ping_lock` | 3 services at 2 addresses, channel of 1, 2 workers | violated: LockIsReleased |

`components` checks the safety of eight parts that share no state with each
other: the initial state picks one (`part`), only its actions happen, and the
others stay as they began, so that the state space is the sum and not the
product. The parts are: the resolver with a host that has IPv4 only, asked for
under its name and, by a monitor for IPv6, under its zone's name, two tries and
a queue of one; a graph file with rings of
2 records, hours of 4 and days of 12 time units, 3 samples, one crash, one
reader; every expression of at most 7 tokens over a number, a variable, a group
and a service, 4 operators, 2 functions and 8 aggregates; an interface counter
modulo 8 with one reboot, renumbering, restart and lost test each; baselines of
2 and 3 buckets over 6 windows, with a reset and two restarts; two services of
each of twelve kinds of monitor over 5 seconds; the ping pool; and three members
of a group or three servers.

The bounds are small and enough for the cases they are for. With capacities of
one, every channel is full in some state and refuses work in others; a second
entry for a task needs one task and two requests; a task and a rival fill every
lane. In `notify` the clock reaches the second step of the send table and the
time when a notification is discarded before it would time out; the timeout
itself is in `notify_live`. In `monel` two reports, of one service or of two,
go up to a group and on to an alias that reads the services too, so that
goroutines overtake each other and an override that is set and removed
meanwhile.
In `monel_override` two calls are enough for two walks over the same elements,
and for an override set while a timer that has looked is about to remove it; a
timer's removal is not counted, so that three calls follow each other where an
override expires. The two overrides are nested or follow each other on one
element, which an old timer needs to meet a new override. In `service` a second tester is needed only
after an abort, when the late Done of the first clears the latch of the second;
one retry makes a silent failure and a reported one. In `darp` three updates
fill the queue while one is on its way, two connections let an old one outlive
the client that made it, and three faults give one to each of them and one more.
A ring of 2 goes round with the third sample, and a day of three hours ends
within the gaps. A counter modulo 8 goes round, and is in either half at a
reboot. Seven tokens are enough for three operators in every order and for a
function or a bracket with an operator inside and one outside. Nothing is
counted in `service` or the resolver, so they need no bound on time or on the
number of tests.

Every property was seen to fail on a variant of the model: the operators named
`Bug...` are mistakes a later edit of the code could make (a request not sent,
a reset forgotten, a guard dropped), and PROJECT.json says which of them
breaks which property.

Deadlock is checked in `notify`, `service` and `resolver_live`. In the other
runs the bounded numbers of calls, reports or faults end, and the system rests.

### Assumptions of the runs

`Probes` assumes that the tests of a service are at least HTTP_Cache or
Frequency seconds apart, which EachTestIsNew says: with a retry delay that is
shorter than both, the code spends the retries on one cached page.
`FoundAgain` is about executions in which the queue of 1000 queries never
fills, and about monitors whose first result was not an error (see section 5).
`ReadersSeeTheHistory` lets a reader miss one of the oldest records for each
writer that has been there since it read the header, and asks that it read
no more than a whole ring back. It is true of samples that are at least a
minute apart (`OneAMinute`; the run's are 2 and 7 apart), as getSamples takes
them to be: it goes back one record a minute. `NoPingIsForgotten` holds as long as fping can be
run.

### Fairness

* `Sched`: the main loop's `select` picks among ready cases at random, so a
  request and a tick are both served again and again (strong fairness of
  HandleRequest and BeginDispatch). A goroutine blocked on a channel is in the
  channel's FIFO queue (strong fairness of SendRequest). Workers run, and the
  tests they run return: monitors have timeouts.
* `Notify`: the same for the worker's two cases (strong fairness of Work and
  BeginMaintenance) and for the sender on notechan. runQueues ranges over a
  Go map, whose order is random, so a destination that is ripe again and again
  is taken at some time (strong fairness of TakeQueue for each destination).
  Saves that have begun end, and with them `Stop` and the monel's persist.
  Nothing is assumed of users, crashes, the janitor or discards' goroutines.
* `Service`: a result that was sent is stored and handed on (weak fairness of
  setResultForL and Update), since the goroutine that does it waits for nothing
  but the element's lock. Nothing is assumed of starts, of the end of tests, of
  the ping pool, which may stop for good (`ping_lock`), or of slaves.
  StaleStatusHeals says in its own premises that results go on being sent, that
  the slaves fall quiet, and that no two tests of the service run at once for
  ever.
* `Resolver`: the worker, the janitor and the monitors go on; queries time out
  and results expire, since both are times on the clock; a server that is dead is
  silent for SERVERDEAD at some time; of the answers of a
  server that is alive, not every one is lost (strong fairness of Receive, for
  each family).
* `Darp`: clients and the goroutines of the master go on (weak fairness); a
  select that finds both the queue and the ping timer ready takes the queue
  again and again (strong fairness of SendQueued); the end of a connection is
  noticed at some time. Faults are not fair and their number is bounded: "in
  the end" is after the last.
* `PingPool`: workers go on, since fping is killed after its timeout, and the
  senders at a channel are served in order (strong fairness of Send).

`Monel` states no liveness; that its goroutines do not wait for each other in
a circle is the invariant HoldersProceed.

## 5. What the runs found

Three runs expect a violation.

* `monel_isdown`: the goroutines that write the map of down elements are not
  ordered (transition.go:70, 91). A service that goes down and up quickly can
  stay in the report of down elements until it changes again.
* `notify_ack_lock`: `ack` says that both locks are held; the web page and the
  API hold one. The worker may be iterating over the map `actives` while the
  ack deletes from it.
* `ping_lock`: the worker that gathers takes a lock which "is released in
  ping(), below" (ping.go:162), and ping() has three returns before that. After
  one of them no worker gathers again, the channel fills, and the goroutines of
  the scheduler that start a ping block for good.

Seen while modelling, and left as the code has them:

* After a refused dispatch the entry stays with no `locte`, and a later
  request files the task a second time (sched.go:428-433). OneEntryPerTask and
  RemoveSettles are therefore stated up to the first refusal.
* A save by the monel's persist or by Stop that overlaps an ack writes the
  notification back as active (persist.go:85-103, notify.go:226); AckIsFinal
  leaves such acks out.
* An override that a user sets between overrideExpire's check and its
  DelOverride is removed (override.go:62-75). ExpiredIsRemoved excepts just that:
  what a timer removes has expired, is gone, or was set after the timer looked.
* Two calls that both reach an element, one of which read the parent before the
  other changed it, can write its mark in the wrong order (override.go:100-117);
  likewise the list, for two calls on one element. Below an override a
  notification is then possible. OverridesAreKnown and QuietUnderOverride except
  the elements that two overlapping calls wrote last (`contested`), and hold for
  all others.
* The janitor can remove the file of a notification that is being created or
  loaded (notify.go:325-356).
* A change of raw status alone is not passed up (transition.go:15-40). A group
  with gravity "up" that is in override, and one of whose children is down but
  shown as depending on another, stays critical when it should be shown as in
  override, until a status with overrides changes below it.
* A dependency's recovery does not bring its dependents back
  (transition.go:133); AddsUp is about the other elements.
* CalcAggrStatus counts servers of unknown status in the quorum and for no
  severity: unknown, clear and warning make a warning, two unknown and a
  critical are clear.
* A monitor that ends its test inside Start has its next time overwritten: Done
  asks for the retry delay or the frequency, then the worker files the task
  under its next slot (sched.go:344). Only ping, whose tests end later, is
  tested again after the retry delay.
* Once ping has given a test up, the late Done of that test clears the latch of
  the next one (ping.go:114-117, service.go:233). OneTestAtATime therefore bounds
  the tests that are on by the number given up, and one;
  DownMeansRetriesSpent and MastersAgree are stated up to the first abort, since
  after it two tests share Tries and p.Statuses without a lock. While two of them
  overlap again and again, the element can stay behind p.Statuses:
  StaleStatusHeals is about services whose tests do not overlap for ever.
* A ping that is lost because fping cannot be run is given up after 900 seconds,
  but the service need not be tested again: the pool has stopped (`ping_lock`),
  and the goroutines that start pings block.
* A service with gravity "self" takes on the status of whichever server
  reported last, since a slave's status is passed as `mystatus`
  (service.go:354, status.go:15).
* With one retry two failures are silent: SetResult keeps quiet for
  Retries + 1 failures (service.go:314).
* A task that is removed while it runs, and is automatic, is filed again by the
  worker that ran it (sched.go:184, 344).
* A ping that was aborted stays in the pool, and its late result ends the next
  test of the service.

Resolver:

* The id of an IPv6 query is kept where the one of the IPv4 query was
  (resolv.go:242), so that a lookup for both is done with the answer to one.
* A query that is sent again keeps the time of the first (resolv.go:346), so
  each further try has until the next tick.
* A refresh that finds the queue full leaves an entry that asks for nothing;
  nobody refreshes the name again, and the monitor keeps the old addresses.
* A monitor whose first result was an error goes on looking at the entry under
  the name as it was asked, which is not refreshed once the zone has one.

Darp:

* An update that was dropped or lost is not sent again until the status
  changes. The timeout given to Get is ignored. A status 404 is an answer like
  any other.
* The goroutine of an old connection may store an older status over a newer.

Graph files and the sending of graph data:

* Add and Get take different locks (graphd.go:285). With `since` set, Get of
  hours and days returns nothing until the ring is full, and uses the size of
  the ring of samples; a time before the ring gives a negative offset. For
  samples it goes back as many records as minutes (graphd.go:321), so that with
  more than one sample a minute it begins too late and leaves some out.
* The extremes of the first hour and day include 0. An hour is not rolled over
  after 23 hours or more that end in the same hour of the day.
* The loop that gathers data for a master spins until it has graphMaxSend
  values, since its `break`s leave the select (service/graph.go:109); and
  apiAddGraphData never advances its index, so that a request with data does
  not end (service/graph.go:126).

Values:

* Expr: `*` binds tighter than `/` and `%`, unlike in C; a "(" that is not
  closed is not reported by parse; "tan" is the sine; a minus sign without a
  left operand is an error; SUM and its like, which unlike NSUM are to wait for
  members that are not ready, never do: resultList (expr.go:341) never says
  that one is not.
* Snmp: the check against a jump compares a value with itself; when
  a counter goes round, what it has counted since is left out of the rate
  (testing.go:299); the uptime is forgotten by a restart, so that a reboot meanwhile is
  taken for a counter that went round, if it was in its upper half.
* Hwab: rounding can leave a variance below zero; its root is NaN, which
  spreads to the neighbours and cannot be saved (the error of json.Marshal is
  ignored and the file is empty). A value that is always 0 never ends the first
  period. A reset while the baseline is more than a period behind the clock
  gives a negative index (hwab.go:472) and ends the worker; the model steps
  over that case. A period shorter than a window, which the configuration may
  ask for (hwab.go:62), has no buckets, and the first index divides by zero;
  HwabAssumption leaves it out. For values above the baseline the deviation is
  negative, so only low ones alarm (hwab.go:172).
* Probes: a service that reads to the end takes silence for an empty answer,
  and is up if it expects nothing; a redirect is followed with the old path
  (httpSend gets the file and does not use it); tcp and the agent do not try
  another address after one that accepts and is silent.

## 6. What is proved

`SchedProofs` proves, for any tasks, workers, clients, capacities, periods and
times that satisfy the assumptions of `Sched`, that the specification keeps
TypeOK, NoTaskLost, OneEntryPerTask, FiledUnderWhen and RemoveSettles.

The argument is one inductive invariant, `IInv`. The properties are not
inductive by themselves. That a task points to its entry (OneEntryPerTask)
survives HandleRequest only because `locte`, when not nil, is the time of a
real entry (LocteIsFiled); that the schedule and `when` agree unless a request
is on its way survives the handling of the last request only because that
request files the task under the `when` it then has; NoTaskLost survives a
request for a task whose `when` is zero only because an automatic task that
was not removed has a time (LiveTasksHaveATime), which in turn needs slots to
be positive, hence the clock to be at least a period. `NextInvariant` has one
step for each action; lemmas say what appending to and taking from a channel
does to the set of its members, what a slot and a smoothed time can be, and
what sendWork leaves as it was.

The assumptions: a period is positive and not longer than the time on the
clock at the start, a phase is less than the period, capacities are positive.

`ServiceProofs` proves, for any workers, testers, slaves, number of retries and
gravity, TypeOK, OneTestAtATime, DownMeansRetriesSpent and MastersAgree of
`Service`. For the last two the invariant says that until an abort one test is on
while the latch is set and none otherwise (Alone), and adds two facts about the
tester on its way from SetResult to p.Statuses: what it carries agrees with
Tries (CarriedIsCounted), and when it comes to store it the masters have it
(StoredWasSent). `OwnPreserves` uses Alone to look at that one tester only;
every other step is one the testers do not see (`AsidePreserves`).
OneTestAtATime counts, across aborts and late Dones: a start finds the latch
clear and sets it, an end takes one test away with the latch it clears, which
may be another's, and an abort clears a latch and is counted (OneMore, OneLess,
GivenUp).
`Extremes` and `AggregateIsStatus` say that the combination of statuses is a
status. It assumes that a server is not its own slave, that testers and
slaves are different goroutines, and that there are finitely many testers, and
one.

`NotifyProofs` proves the five safety properties of `Notify` for any number of
notifications, any send table, timing and destinations. Its invariant has two
parts. The first (Base) says what is a notification: the maps, the queues, the
batch, the saves in progress and the destination's turn name notifications that
exist (Known), and every number in use, in memory, on disk or remembered as
acked, is at most the counter and not the one New is about to give out
(Numbers). The second says that memory, file and each half-done save of one number
are of one make (Agree) and that what was acked outside of a save is acked in
all three (AckHolds). Numbers and Agree give NumbersGivenOnce, a property of
steps: no file is replaced by that of another notification. ActivesAreRegistered and
AckIsFinal are not inductive without them: a crash forgets the memory and a
restart believes the file, so the file must be known to carry the ack, and a
save that began before must not bring the old status back. AckedAreNotSent
follows for the steps of runQueues, since what is taken is active.

QueuedOncePerStep takes a third invariant, OncePerStep: without renotify the
copies of a notification in a destination's queue are no more than the steps it
has taken that name the destination, whether it is routable or not, and what
was forgotten has no copy, so that the number of a forgotten one brings none
along. maybeQueue adds a copy for the step it takes and no other (StepsQueued);
dropping and taking from a queue only makes copies fewer. `CountedSteps` and
the lemmas before it count places in a sequence after an append.

`MonelProofs` proves OverridesAreKnown, QuietUnderOverride, OverridesExpire and
ExpiredIsRemoved for trees of any shape and any number of elements, overrides
and users, whose calls and timers overlap as they like. The statuses of the
elements change meanwhile. Marked is the heart of the invariant: a child has the
mark its parent asks for (Inherited), or some walk owes it one (Owed: the
override of the parent has just changed, or the walk has yet to visit the
parent, or holds the mark for this child and it is the right one), or the mark
was last written by one of two calls that met (Contested). A mark which a walk
holds is right when it is assigned, or the walk's call met one that reaches the
child (WalksAreRight). There are two ways in which it could go wrong. Another
call could change the parent in between: then the two have met, which holds of
any two calls that are at work (AllMet). Or the walk itself could, which it does
not, since the elements it still has to visit are roots of separate trees
(Apart). The first lemmas show that a tree falls apart into an element and the
trees of its children. Where no call is at work nothing is owed, and from one
generation to all of them it is two steps without induction (`SettledIsRight`,
`AncestorsAre`): the parent of a settled element is settled, so of the settled
elements whose mark is wrong one would have no parent among them, and its
parent's mark and override would make its own right. For the timers, FoundExpired relates what overrideExpire
saw to the override that is there: the same, none, or one set later; and
OverridesExpire is inductive, since the call that sets an override ends by
setting its timer, which ends only with the override or for another one.

It also proves AddsUp, for any graph of groups and aliases without a circle, any
dependencies, users, reports and overrides, one at a time or not. SumsInv says
of each element that its status, or the part of its children's that it has read,
is what the others see of those children now (Shown), or that it will look
again: because it or one that tells it has an update to come (Told), or because
its own override is being changed by a call that ends with one (Asked). What
others see of an element that is at work is the status it had before, since
they wait for its lock; so an element that finishes changes what is seen in one
step, and in the same step puts those who read it into `upward`. A step of one
element can disturb only those that read it (ElementKeeps, LeftAlone). For the
initial state, FirstOv and FirstSummary are recursive functions over the graph:
that they are what their definitions say (FirstIs) is shown by taking a least
element where it fails, with KidsAssumption and no induction theorem.

`DarpProofs` proves AgreedWhenQuiet for any masters, connections, size of queue
and number of updates, and then that `Darp` implements `Feed` (AtMostOnce),
step by step. The invariant says of each connection which requests and answers
it may hold while it is a client's and after it was left (Connections), that a
client has a connection unless it dials, and where the newest status is
(Newest): last in the queue, or in the request that was not served yet, or with
the master, unless something was dropped for it. AgreedWhenQuiet is the last
of the three. For the refinement each action has a lemma that says what
it does to the number of updates that are carried to a master with a given
status (`Carried`): the places in the queue and the connections it is on.

`MonitorProofs` proves NoPingIsForgotten for any pool, services, addresses and
size of the channel. It needs to know that only the holder of the lock gathers,
that who reads fping's lines has given it back, and that a worker that waits
has nothing underway: what it takes would replace it.

It also proves RatesAreTrue of `Snmp`, for a counter of any width and any traffic.
The sample before is of our interface (SampleIsOurs), and between it and now
the interface counted what the counter shows, plus one turn when it shows less
(CountedSince). That is what `rateCalc` computes, or less; a reset that looks
like a turn is one of the two exceptions the property names.

And it proves the three invariants of `Probes`, for any times and limits.
FailuresMoveOn: a test that waits asked the address that is next (AsksNext), and
the address that is *not* next was the last to fail, the other one before it
(FailedBefore). So with two failures in a row both do not work, and the
property is about hosts of which one does. UpWasHeard needs only what a test
has heard so far. EachTestIsNew, under PausesOutlastCopies (section 4), needs to
know whose test fetched the copy in the cache, that no test asks for a page with
the number of an earlier one (Earlier), and that a service that judged the
other's copy has been tested since it was made (CopyIsKnown): its next test
finds the copy too old.

`DataProofs` is about what is made of statuses and values.

* GroupIsMedian and WorseIsNeverBetter hold for any number of members
  and every gravity. The code's scan stops at the first severity at which the
  running sum reaches the quorum; a change for the worse of one member moves
  one voter from the sums of some severities and none into any, so the scan
  cannot stop earlier. That is counted with sets of voters, not by adding up.
* BaselineIsWhole holds for any lengths of the period, any number of windows
  at once, and any saves, restarts, resets and changed periods. Whole says
  that after the first period no bucket is unknown. A restart of the same period
  keeps that; of another it must begin again, and the saved file is one that
  was whole for the period it notes (SavedIsWhole), which InitHwab compares. The
  loop over the windows is a recursive function; that each turn keeps Whole
  carries over to the loop by the order of the numbers.
* FileIsTheHistory holds for rings of any size, any lengths of hour and day
  that divide, any samples, readers and kills. The invariant (GraphIInv) is
  about the header that counts and all three rings, at every point of Add: a
  ring holds the last of the expected records up to the header's place (Holds)
  and the header sums up the hour and day underway (Sums), both of the samples
  whose Add has ended; the writer's copy is that of one sample more for the
  rings which Add has been through (Counted). The record at the place that is
  written next is not counted, except in a full ring, where it is the oldest:
  it may be spoiled (Dirty) while an Add is unfinished, and stays so after a kill
  until an Add ends. That this is one record and not more, though one kill may
  follow another, is because the header on disk did not move: the next Add
  writes to the same place. The record of an hour or a day is spoiled only if
  the next sample is in another one (the second half of Dirty), so that the
  next Add does write there again.
  Sums and expected records over a longer history are those over a shorter one
  (SumsAreOne, and the lemmas on `Expected`), shown by comparing recursive
  functions place by place (SameUpTo).
* ReadersSeeTheHistory holds, for the same constants, when samples are at least
  a minute apart (OneAMinute). The invariant (ReadIInv) relates a reader to
  what was added when it began. Its ring still holds those records (Kept) but
  for the first Overwritten ones, because the header's place is at most so many
  steps further round the ring than the one it read, and one less while an
  Add is unfinished (WriterAt): a writer writes at that place, which is
  therefore among the records given up (KeptBeside). Where Get begins and how much
  it reads covers the newest records of the ring once, in order, and behind
  them only empty places (Covers, for each of the cases of getSamples and
  getSummy); what it leaves out in front is too old. That is where a minute
  comes in: the expected records of a ring are of different minutes, hours or
  days, all of them over (Spaced), so the record that is n places from the end
  is at least n units old (LongAgo). What it has read so far (Reads) is what it
  should have up to there, record by record (ReadsOne), and at the end that is
  what the property asks for (DoneIs).

`ResolverProofs` proves AskedIsOnTheWay and CountsWhatIsPending for any
monitors, names, zones, servers and capacities. An entry notes what it asks for
in the step that queues it, or not at all, and no step takes a name off the way
before there is a result in its entry. For that a pending query must not lose
its last request to a server without a result: what it notes as underway is one
of its requests or nothing (PendQs), so the answer to the last one ends it.
That the worker counts right needs that an id belongs to one request of one
pending query (OneOwner): else an answer would end two. A send adds as many as
there are families and zones, because there are always enough new ids for an
injection into them (NewIdsAre, NewSentAre).

What is assumed of the constants: `NotifyAssumption`: there are finitely many
numbers, `None` is none of the others' values, the send table is not empty, and
times are not negative; `MonelAssumption` and `TreeAssumption`: constants have their
types, `None` is not a call, children have one parent and no tree is circular;
`KidsAssumption`: no element is among its own children's children, and who reads
an element is told of its changes, by it or by one it tells;
`DarpAssumption`: a queue has room for one, connections
are finitely many and have positive numbers, and a ping is not a status;
`ResolverAssumption`: every name has a zone, there is a server and room for a
query, and `None` is not a result;
`PingAssumption`: the value for "no worker" is not a worker; `SnmpAssumption`
and `ProbesAssumption`: counters and times are numbers;
`AggregatesAssumption`: there are finitely many members, one of which asks;
`HwabAssumption`: a period has at least one window and a gap is a number of
them; `GraphAssumption`: values are integers, time does not go back, a ring has
room for one record, a day is a number of whole hours, and nobody asks for a
time before the clock began. TLC evaluates all of
them in the runs. PausesOutlastCopies and OneAMinute are not assumed but the
premises of one theorem each, which TLC's constants satisfy.

Some invariants are proved and not checked by a run of their own (TypeOK,
FiledUnderWhen, NotifyTypes): they are parts of what the other properties rest
on.

Only model-checked:

* All liveness, which needs fairness, and HoldersProceed, which is about which
  locks are waited for in a circle of any length.
* WorthWhatItMeans: what two recursive definitions, of an expression's value and
  of its meaning, compute for expressions of any length takes an induction over
  their structure.

## 7. What is not modelled

* The life cycle of elements: Recycle, Stop and the registration of names
  (monel/monel.go, service/new.go). They change the tree, which is a constant
  of `Monel`; Recycle takes locks in the opposite order of an update.
* Statistics (monel/stats.go): counts of seconds in each status, rolled over by
  one task.
* The comparisons of one value with what is expected (service/testing.go) are
  pure functions of it; `Probes` leaves their outcome open. The sender of graph
  data is one goroutine with one loop; its faults are in section 5.
* Configuration (construct/, configure/, config/): read once by one goroutine;
  what it makes are the constants of the modules.
* Pages, users, sessions and secrets; the daemon's order of start and stop; the
  agent and the control program; the requests the telephony monitors build for
  the udp and tcp monitors: input and output, with no state that other parts
  share.
* Inside modelled parts: autotune of the scheduler, the temporary file of a
  save, the resolver's Stop and its delay between queries, sessions of SNMP
  version 3, tokens of expressions as text and functions that are not rational.
