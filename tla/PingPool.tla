------------------------------ MODULE PingPool ------------------------------
(* The ping monitor (monitor/ping/ping.go).  A test sends the service to a   *)
(* channel and ends; a pool of workers gathers what is in the channel and    *)
(* gives it to one fping, whose lines are the results.  Only one worker at a *)
(* time gathers.  The workers of the scheduler are the senders: they block   *)
(* when the channel is full.                                                 *)
EXTENDS Integers, Sequences, FiniteSets, SequencesExt

CONSTANTS
    Pinged,         \* the services
    AddrOf,         \* services -> addresses
    PingWorkers,
    QUEUESIZE, MAXPING,
    MaxAborts       \* BOUND

VARIABLES
    running,        \* the services under test
    sending,        \* services -> how many senders of it are at the channel
    pingChan,
    justOne,        \* who has the lock, or NoWorker
    worker,         \* pc; underway: the services to report, by address; nping
    aborts

pingVars == <<running, sending, pingChan, justOne, worker, aborts>>

NoWorker == "none"
Addrs    == {AddrOf[s] : s \in Pinged}
NoPings  == [a \in Addrs |-> <<>>]
Waiting  == [pc |-> "lock", underway |-> NoPings, nping |-> 0]

ASSUME PingAssumption == NoWorker \notin PingWorkers

PingInit ==
    /\ running = {} /\ sending = [s \in Pinged |-> 0] /\ pingChan = <<>>
    /\ justOne = NoWorker /\ worker = [w \in PingWorkers |-> Waiting] /\ aborts = 0

-----------------------------------------------------------------------------
(* A test; when the name cannot be resolved it ends at once.                 *)
StartPing(s) ==
    /\ s \notin running
    /\ running' = running \cup {s}
    /\ sending' = [sending EXCEPT ![s] = @ + 1]
    /\ UNCHANGED <<pingChan, justOne, worker, aborts>>

Send(s) ==
    /\ sending[s] > 0 /\ Len(pingChan) < QUEUESIZE
    /\ sending' = [sending EXCEPT ![s] = @ - 1]
    /\ pingChan' = Append(pingChan, s)
    /\ UNCHANGED <<running, justOne, worker, aborts>>

(* A test that runs for 900 seconds is declared ended, and stays in the pool.*)
AbortPing(s) ==
    /\ s \in running /\ aborts < MaxAborts
    /\ aborts' = aborts + 1 /\ running' = running \ {s}
    /\ UNCHANGED <<sending, pingChan, justOne, worker>>

-----------------------------------------------------------------------------
Lock(w) ==
    /\ worker[w].pc = "lock" /\ justOne = NoWorker
    /\ justOne' = w
    /\ worker' = [worker EXCEPT ![w].pc = "take"]
    /\ UNCHANGED <<running, sending, pingChan, aborts>>

addPing(uw, s) == [uw EXCEPT ![AddrOf[s]] = Append(@, s)]

Take(w) ==
    /\ worker[w].pc = "take" /\ pingChan # <<>>
    /\ worker' = [worker EXCEPT ![w].pc = "start", ![w].underway = addPing(NoPings, Head(pingChan))]
    /\ pingChan' = Tail(pingChan)
    /\ UNCHANGED <<running, sending, justOne, aborts>>

StartFping(w) ==
    /\ worker[w].pc = "start"
    /\ worker' = [worker EXCEPT ![w].pc = "gather"]
    /\ UNCHANGED <<running, sending, pingChan, justOne, aborts>>

(* "cannot run fping": ping returns with the lock and without a result.      *)
CannotRunFping(w) ==
    /\ worker[w].pc = "start"
    /\ worker' = [worker EXCEPT ![w] = Waiting]
    /\ UNCHANGED <<running, sending, pingChan, justOne, aborts>>

(* addMore, until nothing has come for a second.                             *)
Gather(w) ==
    /\ worker[w].pc = "gather" /\ pingChan # <<>>
    /\ worker' = [worker EXCEPT ![w].underway = addPing(@, Head(pingChan)),
                                ![w].nping = @ + 1,
                                ![w].pc = IF worker[w].nping + 1 >= MAXPING THEN "read" ELSE @]
    /\ pingChan' = Tail(pingChan)
    /\ justOne' = IF worker[w].nping + 1 >= MAXPING THEN NoWorker ELSE justOne
    /\ UNCHANGED <<running, sending, aborts>>

Gathered(w) ==
    /\ worker[w].pc = "gather" /\ pingChan = <<>>
    /\ worker' = [worker EXCEPT ![w].pc = "read"]
    /\ justOne' = NoWorker
    /\ UNCHANGED <<running, sending, pingChan, aborts>>

(* processResult: one line for all the services of an address.               *)
pingResult(w, a) ==
    /\ worker[w].pc = "read" /\ worker[w].underway[a] # <<>>
    /\ running' = running \ ToSet(worker[w].underway[a])
    /\ worker' = [worker EXCEPT ![w].underway[a] = <<>>]
    /\ UNCHANGED <<sending, pingChan, justOne, aborts>>

(* fping is done, or killed after TIMEOUT: what is left did not answer.      *)
BugUnanswered(w) == {}
Unanswered(w) == UNION {ToSet(worker[w].underway[a]) : a \in Addrs}

Finish(w) ==
    /\ worker[w].pc = "read"
    /\ running' = running \ Unanswered(w)
    /\ worker' = [worker EXCEPT ![w] = Waiting]
    /\ UNCHANGED <<sending, pingChan, justOne, aborts>>

PoolStep(w) ==
    \/ Lock(w) \/ Take(w) \/ StartFping(w) \/ CannotRunFping(w)
    \/ Gather(w) \/ Gathered(w) \/ Finish(w)
    \/ \E a \in Addrs : pingResult(w, a)

PingNext ==
    \/ \E s \in Pinged : StartPing(s) \/ Send(s) \/ AbortPing(s)
    \/ \E w \in PingWorkers : PoolStep(w)

(* A worker goes on when it can, fping ends (TIMEOUT), and the senders at a  *)
(* channel are served in order.                                              *)
PingSpec ==
    /\ PingInit /\ [][PingNext]_pingVars
    /\ \A w \in PingWorkers : WF_pingVars(PoolStep(w))
    /\ \A s \in Pinged : SF_pingVars(Send(s))

-----------------------------------------------------------------------------
(* A worker that holds the lock and waits for it.                            *)
Stuck == justOne # NoWorker /\ worker[justOne].pc = "lock"

(* Every test that runs is with somebody who will report it, whatever else  *)
(* is queued, whoever is gathering and whichever tests were aborted, as long *)
(* as fping could be run (Start, worker, ping).                              *)
NoPingIsForgotten ==
    \A s \in running :
        \/ sending[s] > 0 \/ s \in ToSet(pingChan)
        \/ \E w \in PingWorkers : s \in ToSet(worker[w].underway[AddrOf[s]])
        \/ Stuck

(* "lock is released in ping(), below" (ping.go:162): a worker that took the *)
(* lock and work gives the lock back.                                        *)
LockIsReleased ==
    \A w \in PingWorkers : justOne = w /\ worker[w].pc = "start" ~> justOne # w
=============================================================================
