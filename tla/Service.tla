------------------------------ MODULE Service ------------------------------
(* One service (service/service.go): the latch that lets one test run at a   *)
(* time, retries, the report to the masters, and the way a result takes to   *)
(* the monitored element, on a server that other servers report to as well.  *)
(*                                                                           *)
(* The scheduler starts the service again and again (module Sched); what the *)
(* service asks it for changes the time of the next start and nothing here,  *)
(* where a start may come at any time.  A test runs on a goroutine of its    *)
(* own, a tester: for most monitors that is the scheduler's worker, for ping *)
(* a goroutine of the ping pool.                                             *)
(*                                                                           *)
(* An operator named Bug... is a mistake a later edit could make; the model  *)
(* does not use it, it is there to show that a property would fail.          *)
EXTENDS AggrStatus

CONSTANTS
    Workers,    \* scheduler workers that come to start the service
    Testers,    \* BOUND: goroutines on which its tests run
    Me,         \* darp.MyId
    Slaves,     \* the servers that report to this one
    Retries,    \* Cf.Retries
    Severity,   \* Cf.Severity
    Verdicts,   \* the statuses a test can end with
    Grav,       \* Cf.DARP_Gravity
    Pooled      \* the monitor is ping: Abort ends the test, the pool may lose it

Servers == {Me} \cup Slaves

ASSUME ServiceAssumption ==
    /\ Me \notin Slaves
    /\ IsFiniteSet(Testers) /\ Testers # {}
    /\ Testers \cap Slaves = {}
    /\ Retries \in Nat
    /\ Severity \in CLEAR..CRITICAL
    /\ Verdicts \subseteq CLEAR..CRITICAL
    /\ Grav \in Gravity
    /\ Pooled \in BOOLEAN

VARIABLES
    running,    \* a test has been started and is not done
    old,        \* and that was more than 900 seconds ago
    tries,      \* Tries
    statuses,   \* p.Statuses
    up,         \* darp: the servers that are up
    at,         \* where each worker is in Start: "idle", "refused", "aborting"
    step,       \* what each tester and each slave's connection does next
    val,        \* the status it carries, UNKNOWN when it carries none
    mon,        \* the status the element was last updated with
    told,       \* the status the masters were last sent
    aborts      \* HISTORY: how often Abort ended a test, the number of testers at most

vars == <<running, old, tries, statuses, up, at, step, val, mon, told, aborts>>

Reporters == Testers \cup Slaves

(* Whose status a reporter reports.                                          *)
Host(r) == IF r \in Slaves THEN r ELSE Me

Steps == {"idle", "testing", "telling", "storing", "updating", "done"}

TypeOK ==
    /\ running \in BOOLEAN
    /\ old \in BOOLEAN
    /\ tries \in 0..(Retries + 1)
    /\ statuses \in [Servers -> UNKNOWN..CRITICAL]
    /\ up \in [Servers -> BOOLEAN] /\ up[Me]
    /\ at \in [Workers -> {"idle", "refused", "aborting"}]
    /\ step \in [Reporters -> Steps]
    /\ val \in [Reporters -> UNKNOWN..CRITICAL]
    /\ mon \in UNKNOWN..CRITICAL
    /\ told \in UNKNOWN..CRITICAL
    /\ aborts \in 0..Cardinality(Testers)

Init ==
    /\ running = FALSE
    /\ old = FALSE
    /\ tries = 0
    /\ statuses = [s \in Servers |-> UNKNOWN]
    /\ up = [s \in Servers |-> s = Me]
    /\ at = [w \in Workers |-> "idle"]
    /\ step = [r \in Reporters |-> "idle"]
    /\ val = [r \in Reporters |-> UNKNOWN]
    /\ mon = UNKNOWN
    /\ told = UNKNOWN
    /\ aborts = 0

Goes(r, from, to) ==
    /\ step[r] = from
    /\ step' = [step EXCEPT ![r] = to]
----------------------------------------------------------------------------
(* Start.  tasRunning is one section of the element's lock.                  *)
BugAlwaysFree == TRUE

Free == ~running

BeginTest(t) ==
    /\ Free
    /\ Goes(t, "idle", "testing")
    /\ running' = TRUE
    /\ UNCHANGED <<old, tries, statuses, up, at, val, mon, told, aborts>>

(* It is running already, or the configured schedule does not permit it.     *)
Refuse(w) ==
    /\ at[w] = "idle"
    /\ at' = [at EXCEPT ![w] = "refused"]
    /\ UNCHANGED <<running, old, tries, statuses, up, step, val, mon, told, aborts>>

TooLong == running /\ old

(* The look at how long the test has been running takes no lock.  Only       *)
(* ping's Abort does something.                                              *)
CheckAge(w) ==
    /\ at[w] = "refused"
    /\ at' = [at EXCEPT ![w] = IF TooLong /\ Pooled THEN "aborting" ELSE "idle"]
    /\ UNCHANGED <<running, old, tries, statuses, up, step, val, mon, told, aborts>>

Abort(w) ==
    /\ at[w] = "aborting"
    /\ at' = [at EXCEPT ![w] = "idle"]
    /\ running' = FALSE
    /\ old' = FALSE
    /\ aborts' = IF aborts < Cardinality(Testers) THEN aborts + 1 ELSE aborts
    /\ UNCHANGED <<tries, statuses, up, step, val, mon, told>>

Age ==
    /\ running /\ ~old
    /\ old' = TRUE
    /\ UNCHANGED <<running, tries, statuses, up, at, step, val, mon, told, aborts>>
----------------------------------------------------------------------------
(* The test.  A ping that was handed to the pool is lost when fping cannot   *)
(* be started: nobody calls Done.  How the pool fares after that is its own  *)
(* matter and not part of this module.                                       *)
Lose(t) ==
    /\ Pooled
    /\ Goes(t, "testing", "idle")
    /\ UNCHANGED <<running, old, tries, statuses, up, at, val, mon, told, aborts>>

(* No result: a name is still being resolved, a value is to be skipped.      *)
Skip(t) ==
    /\ Goes(t, "testing", "done")
    /\ UNCHANGED <<running, old, tries, statuses, up, at, val, mon, told, aborts>>

BugSilentUntil == Retries - 1

SilentUntil == Retries

(* The retries of SetResult; n is what it finds in Tries.                    *)
SetResult(t, status, n) ==
    /\ \/ /\ status = CLEAR
          /\ tries' = 0
          /\ Goes(t, "testing", "telling")
          /\ val' = [val EXCEPT ![t] = status]
       \/ /\ status # CLEAR
          /\ n <= SilentUntil
          /\ tries' = n + 1
          /\ Goes(t, "testing", "done")
          /\ UNCHANGED val
       \/ /\ status # CLEAR
          /\ n > SilentUntil
          /\ tries' = n
          /\ Goes(t, "testing", "telling")
          /\ val' = [val EXCEPT ![t] = status]
    /\ UNCHANGED <<running, old, statuses, up, at, mon, told, aborts>>

Result(t) == \E status \in Verdicts : SetResult(t, status, tries)

NoMoreRetries == Retries + 1

FailNow(t) == SetResult(t, Severity, NoMoreRetries)

BugIsNews(t) == val[t] # mon

IsNews(t) == val[t] # statuses[Me]

BugAfterSend(t) == IF IsNews(t) THEN "storing" ELSE "done"

AfterSend(t) == "storing"

SendUpdate(t) ==
    /\ Goes(t, "telling", AfterSend(t))
    /\ told' = IF IsNews(t) THEN val[t] ELSE told
    /\ UNCHANGED <<running, old, tries, statuses, up, at, val, mon, aborts>>

Done(t) ==
    /\ Goes(t, "done", "idle")
    /\ running' = FALSE
    /\ old' = FALSE
    /\ UNCHANGED <<tries, statuses, up, at, val, mon, told, aborts>>
----------------------------------------------------------------------------
(* darp.AggrStatus; up[s] is what GetStatuses says of server s.              *)
Combined(status, sts) ==
    IF Slaves = {} THEN status ELSE CalcAggrStatus(Grav, status, sts, up)

(* SetResultFor, which tests and the slaves' requests come to: one locked    *)
(* section combines the statuses, another one hands the outcome on.          *)
setResultForL(r) ==
    /\ Goes(r, "storing", "updating")
    /\ statuses' = [statuses EXCEPT ![Host(r)] = val[r]]
    /\ val' = [val EXCEPT ![r] = Combined(val[r], statuses')]
    /\ UNCHANGED <<running, old, tries, up, at, mon, told, aborts>>

Update(r) ==
    /\ Goes(r, "updating", IF r \in Slaves THEN "idle" ELSE "done")
    /\ mon' = val[r]
    /\ val' = [val EXCEPT ![r] = UNKNOWN]
    /\ UNCHANGED <<running, old, tries, statuses, up, at, told, aborts>>

(* The slave's request (service/api.go), and what darp knows of the slave.   *)
SlaveReport(s) ==
    /\ Goes(s, "idle", "storing")
    /\ \E status \in Verdicts : val' = [val EXCEPT ![s] = status]
    /\ UNCHANGED <<running, old, tries, statuses, up, at, mon, told, aborts>>

UpOrDown(s) ==
    /\ up' = [up EXCEPT ![s] = ~@]
    /\ UNCHANGED <<running, old, tries, statuses, at, step, val, mon, told, aborts>>
----------------------------------------------------------------------------
WorkerStep(w) == Refuse(w) \/ CheckAge(w) \/ Abort(w)

TesterStep(t) ==
    \/ Lose(t) \/ Skip(t) \/ Result(t) \/ FailNow(t)
    \/ SendUpdate(t) \/ setResultForL(t) \/ Update(t) \/ Done(t)

SlaveStep(s) == SlaveReport(s) \/ setResultForL(s) \/ Update(s) \/ UpOrDown(s)

Next ==
    \/ Age
    \/ \E w \in Workers : WorkerStep(w)
    \/ \E t \in Testers : BeginTest(t) \/ TesterStep(t)
    \/ \E s \in Slaves : SlaveStep(s)

Spec == Init /\ [][Next]_vars

(* A result that was sent is stored and handed on: the goroutine that does   *)
(* waits for nothing but the lock of the element.  Nothing is assumed of     *)
(* starts, of the end of tests, of the pool of pings or of the slaves.       *)
Fairness == \A t \in Testers : WF_vars(setResultForL(t)) /\ WF_vars(Update(t))

FairSpec == Spec /\ Fairness
----------------------------------------------------------------------------
Testing(t) == step[t] # "idle"

(* A service is tested by one goroutine at a time, and the latch is set as   *)
(* long as it is: that is what lets tests use Tries, ready and the state of  *)
(* their monitors without a lock.  A test that is given up goes on if ping   *)
(* has not lost it, and its Done clears the latch of the test that runs by   *)
(* then; still no more tests are on than were given up, and one.             *)
OneTestAtATime ==
    Cardinality({t \in Testers : Testing(t)}) <= aborts + (IF running THEN 1 ELSE 0)

(* A status that is not clear stands in p.Statuses only while the retries    *)
(* are used up: a failure is reported after them, or at once by FailNow, and *)
(* the count starts again only with a clear result.                          *)
DownMeansRetriesSpent ==
    /\ aborts = 0
    /\ \A t \in Testers : step[t] \notin {"telling", "storing"}
    /\ statuses[Me] \notin {UNKNOWN, CLEAR}
    => tries = Retries + 1

(* The masters are sent changes only, compared with a status that is stored  *)
(* later: once it is stored, they were sent the status this server has.      *)
MastersAgree ==
    (aborts = 0 /\ \A t \in Testers : step[t] # "storing") => told = statuses[Me]

Agreed == Combined(statuses[Me], statuses)

(* Two reports may hand on their outcomes in the wrong order, and a server   *)
(* that comes or goes changes the outcome unseen; the status the element     *)
(* then has is wrong.  Because every reported result is handed on, changed   *)
(* or not, it comes right with the service's own tests once the other        *)
(* servers are quiet and no two tests of the service run at once.            *)
StaleStatusHeals ==
    /\ <>[][\A s \in Slaves : ~SlaveReport(s) /\ ~UpOrDown(s)]_vars
    /\ <>[](\A t, u \in Testers : Testing(t) /\ Testing(u) => t = u)
    /\ []<><<\E t \in Testers : SendUpdate(t)>>_vars
    => []<>(mon = Agreed)
=============================================================================
