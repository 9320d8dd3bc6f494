------------------------------- MODULE Probes -------------------------------
(* The tests of the monitors: services of one kind test one host, which      *)
(* has two addresses.  A test asks the address that is next and waits for an *)
(* answer, and the host may change meanwhile.  Web pages are shared through  *)
(* a cache, so that one request serves both services.                        *)
(*                                                                           *)
(* Left out: the protocols' bytes; how names are resolved (see Resolver);    *)
(* what becomes of a verdict (see Service); ping (see PingPool) and snmp     *)
(* (see Snmp).                                                               *)
EXTENDS Integers, FiniteSets

CONSTANTS
    Kinds,          \* of monitor
    OSes,           \* the agent has a command for; the host may run 1 or 2
    Verify,         \* verify_response_ip, of udp
    HTTP_Cache, Frequency, Deadline,     \* in seconds
    Delay,          \* at least this is between two tests of a service
    MAXREDIRECT,
    MaxSecond, MaxChanges   \* BOUND

ASSUME ProbesAssumption ==
    /\ OSes \subseteq Int /\ Verify \in BOOLEAN
    /\ {HTTP_Cache, Frequency, Deadline, Delay, MAXREDIRECT} \subseteq Int

VARIABLES
    kind, expects,  \* the configuration; whether an answer is compared to anything
    host,           \* addresses -> what the host does there; os
    changes,
    probe,          \* services -> its test: pc, at, asked, redirects; idx and os, which stay
    webCache,       \* of the page: of (the test that fetched it), created, creator
    time,
    verdict,        \* services -> HISTORY: the last call, what it says, what it has heard
    refused         \* services -> HISTORY: tests in a row that had to try another address

probesVars == <<kind, expects, host, changes, probe, webCache, time, verdict, refused>>

Services   == {1, 2}
Addresses  == {0, 1}
Conditions == {"good", "bad", "moved", "mute", "odd", "dead"}
Nobody     == <<0, 0>>                  \* a test: when it began, and whose
NoEntry    == [of |-> Nobody, created |-> 0, creator |-> 0]
Streams    == {"tcp", "toeof", "url", "agent"}       \* on a connection
Asking     == Streams \cup {"udp", "dns"}

ProbesInit ==
    /\ kind = "none" /\ expects = TRUE
    /\ host = [at |-> [a \in Addresses |-> "good"], os |-> 1] /\ changes = 0
    /\ probe = [p \in Services |-> [pc |-> "idle", at |-> 0, asked |-> 0, redirects |-> 0,
                                    started |-> -Delay, idx |-> 0, os |-> 0]]
    /\ webCache = NoEntry /\ time = 1
    /\ verdict = [p \in Services |-> [up |-> FALSE, heard |-> FALSE, of |-> Nobody, before |-> Nobody]]
    /\ refused = [p \in Services |-> 0]

Configured(k, e) ==
    /\ kind = "none" /\ kind' = k /\ expects' = e
    /\ UNCHANGED <<host, changes, probe, webCache, time, verdict, refused>>

(* A test ends, with a verdict or with none; of is the test whose answer it  *)
(* judges, before the one that was judged before.                            *)
Verdict(p, up, heard, of) ==
    verdict' = [verdict EXCEPT ![p] = [up |-> up, heard |-> heard, of |-> of, before |-> @.of]]
Down(p) == verdict' = [verdict EXCEPT ![p].up = FALSE, ![p].heard = FALSE]
Mine(p) == <<probe[p].started, p>>
Done(pr) == [pr EXCEPT !.pc = "idle"]

TryAnother(pr) == [pr EXCEPT !.idx = (@ + 1) % Cardinality(Addresses)]

(* CheckValue: what the host answered is as expected.                        *)
IsExpected(c) == c = "good" \/ ~expects

-----------------------------------------------------------------------------
BugCheckCached(p) ==
    /\ HTTP_Cache > 0 /\ webCache # NoEntry /\ webCache.creator # p
    /\ webCache.created + HTTP_Cache > time
checkCached(p) ==
    /\ HTTP_Cache > 0 /\ webCache # NoEntry /\ webCache.creator # p
    /\ webCache.created + HTTP_Cache > time
    /\ webCache.created + Frequency > time

StartCached(p) ==
    /\ \E c \in {"good", "bad"} : Verdict(p, IsExpected(c), TRUE, webCache.of)
    /\ probe' = [probe EXCEPT ![p].started = time]
    /\ UNCHANGED refused

(* The name cannot be resolved, or not yet.  Only udp tries another address. *)
NoAddress(p) ==
    /\ \/ Down(p)                       \* FailNow
       \/ UNCHANGED verdict             \* still resolving
    /\ probe' = [probe EXCEPT ![p] = IF kind = "udp" THEN TryAnother([@ EXCEPT !.started = time])
                                     ELSE [@ EXCEPT !.started = time]]
    /\ refused' = [refused EXCEPT ![p] = 0]

(* Connect, or a datagram.  A connection may be refused.                     *)
BugRefused(pr) == Done(pr)
Refused(pr) == TryAnother(Done(pr))

Connect(p, pr) ==
    IF kind \in Streams /\ host.at[pr.idx] = "dead"
    THEN /\ Down(p)
         /\ probe' = [probe EXCEPT ![p] = Refused(pr)]
         /\ refused' = [refused EXCEPT ![p] = @ + 1]
    ELSE /\ probe' = [probe EXCEPT ![p] = [pr EXCEPT !.pc = "asked", !.at = pr.idx, !.asked = time]]
         /\ UNCHANGED <<verdict, refused>>

StartTest(p) ==
    /\ kind \in Asking /\ probe[p].pc = "idle" /\ time >= probe[p].started + Delay
    /\ IF kind = "url" /\ checkCached(p) THEN StartCached(p)
       ELSE \/ NoAddress(p)
            \/ Connect(p, [probe[p] EXCEPT !.started = time, !.redirects = 0])
    /\ UNCHANGED <<kind, expects, host, changes, webCache, time>>

-----------------------------------------------------------------------------
Answer(p) == host.at[probe[p].at]
BugSilent(c) == c \in {"mute", "dead"}
Silent(c) == c \in {"mute", "odd", "dead"}      \* odd: breaks off, or answers from elsewhere
Heard(c)  == c \in {"good", "bad", "moved"} \/ (c = "odd" /\ kind = "udp" /\ ~Verify)

(* The test ends: there was an answer, or there was none.                    *)
Judged(p, up) ==
    /\ Verdict(p, up, Heard(Answer(p)), Mine(p))
    /\ probe' = [probe EXCEPT ![p] = Done(@)]
    /\ refused' = [refused EXCEPT ![p] = 0]

TestFailed(p) ==
    /\ Down(p)
    /\ probe' = [probe EXCEPT ![p] = IF kind \in {"udp", "dns"} THEN TryAnother(Done(@)) ELSE Done(@)]
    /\ refused' = [refused EXCEPT ![p] = IF kind \in {"udp", "dns"} THEN @ + 1 ELSE 0]

(* Read: a stream that is read to its end is a value however it ended.       *)
TCPAnswered(p) ==
    /\ kind \in {"tcp", "toeof"}
    /\ LET c == Answer(p) IN
       IF Silent(c) /\ kind = "tcp" THEN TestFailed(p)
       ELSE Judged(p, IsExpected(c))
    /\ UNCHANGED webCache

UDPAnswered(p) ==
    /\ kind = "udp"
    /\ LET c == Answer(p) IN
       IF c \in {"mute", "dead"} \/ (c = "odd" /\ Verify) THEN TestFailed(p)
       ELSE Judged(p, IsExpected(c))
    /\ UNCHANGED webCache

(* testResponse: without a test any response will do; what is expected of    *)
(* it is its code, its authority, a number of records or a value.            *)
DNSAnswered(p) ==
    /\ kind = "dns"
    /\ LET c == Answer(p) IN
       IF Silent(c) THEN TestFailed(p)
       ELSE Judged(p, IsExpected(c))
    /\ UNCHANGED webCache

(* The request for the page is repeated when it is redirected: httpSend asks *)
(* for d.File again, whatever file it is told.                               *)
Redirected(p) ==
    IF probe[p].redirects + 1 >= MAXREDIRECT
    THEN Judged(p, FALSE)
    ELSE Connect(p, [probe[p] EXCEPT !.redirects = @ + 1])

URLAnswered(p) ==
    /\ kind = "url"
    /\ LET c == Answer(p) IN
       IF c = "moved" THEN Redirected(p) /\ UNCHANGED webCache
       ELSE /\ Judged(p, IsExpected(c))
            /\ webCache' = IF Silent(c) \/ HTTP_Cache <= 0 THEN webCache      \* no body: not cached
                        ELSE [of |-> Mine(p), created |-> time, creator |-> p]

(* The first time the agent is asked for its OS.  When it answers with       *)
(* another one there is no verdict, and the new OS's command is next.        *)
AgentAnswered(p) ==
    /\ kind = "agent"
    /\ LET c  == Answer(p)
           os == IF probe[p].os = 0 THEN host.os ELSE probe[p].os IN
       IF Silent(c) \/ os \notin OSes \/ os = host.os
       THEN /\ Verdict(p, ~Silent(c) /\ os \in OSes /\ IsExpected(c), Heard(c), Mine(p))
            /\ probe' = [probe EXCEPT ![p] = Done(IF Silent(c) THEN @ ELSE [@ EXCEPT !.os = os])]
       ELSE /\ probe' = [probe EXCEPT ![p] = Done([@ EXCEPT !.os = host.os])]
            /\ UNCHANGED verdict
    /\ refused' = [refused EXCEPT ![p] = 0]
    /\ UNCHANGED webCache

EndTest(p) ==
    /\ probe[p].pc = "asked"
    /\ \/ TCPAnswered(p)
       \/ UDPAnswered(p)
       \/ DNSAnswered(p)
       \/ URLAnswered(p)
       \/ AgentAnswered(p)
    /\ UNCHANGED <<kind, expects, host, changes, time>>

(* The monitors that ask no host: a command, a query, argus itself, another  *)
(* server's connection, a constant.  What they look at is there or is not.   *)
(* A computation waits for the services it is about.                         *)
StartLocal(p) ==
    /\ kind \in {"prog", "database", "self", "darpwatch", "isforced", "compute"}
    /\ time >= probe[p].started + Delay
    /\ probe' = [probe EXCEPT ![p].started = time]
    /\ \E c \in {"good", "bad", "fails"} :
          CASE kind = "compute" /\ c = "fails" -> UNCHANGED verdict      \* not valid, or not ready
            [] kind \in {"prog", "database"} /\ c = "fails" -> Down(p)
            [] kind \in {"darpwatch", "isforced"} -> Verdict(p, c = "good", TRUE, <<time, p>>)
            [] OTHER -> Verdict(p, IsExpected(c), TRUE, <<time, p>>)
    /\ UNCHANGED <<kind, expects, host, changes, webCache, time, refused>>

-----------------------------------------------------------------------------
(* The clock; a connection has a deadline.                                   *)
Seconds ==
    /\ kind # "none" /\ time < MaxSecond /\ time' = time + 1
    /\ \A p \in Services : probe[p].pc = "asked" => time < probe[p].asked + Deadline
    /\ UNCHANGED <<kind, expects, host, changes, probe, webCache, verdict, refused>>

Changed ==
    /\ kind \in Asking /\ changes < MaxChanges /\ changes' = changes + 1
    /\ \/ \E a \in Addresses, c \in Conditions : host' = [host EXCEPT !.at[a] = c]
       \/ host' = [host EXCEPT !.os = 3 - @]
    /\ refused' = [p \in Services |-> 0]
    /\ UNCHANGED <<kind, expects, probe, webCache, time, verdict>>

(* BOUND: only services of a page have anything to do with each other.       *)
Testing == IF kind = "url" THEN Services ELSE {1}

ProbesNext ==
    \/ \E k \in Kinds, e \in BOOLEAN : Configured(k, e)
    \/ \E p \in Testing : StartTest(p) \/ EndTest(p) \/ StartLocal(p)
    \/ Seconds
    \/ Changed

ProbesSpec == ProbesInit /\ [][ProbesNext]_probesVars

-----------------------------------------------------------------------------
(* What a service judges has not been judged by it before, although pages    *)
(* are shared and retries count: neither its own page nor the other's        *)
(* serves for two tests of it (checkCached, addCached).  It holds because    *)
(* Delay is no less than HTTP_Cache or Frequency; with a shorter retrydelay  *)
(* the retries are spent on one answer.                                      *)
EachTestIsNew ==
    \A p \in Services : verdict[p].of # Nobody => verdict[p].of # verdict[p].before

(* An address that does not work is left: while the host does not change     *)
(* and one of its addresses is not such, no more tests in a row fail there   *)
(* than it has such addresses (TryAnother).  Which these are depends on the  *)
(* monitor: only udp and dns leave an address that accepts and is silent.    *)
Left == CASE kind \in Streams -> {"dead"}
          [] kind = "dns" -> {"dead", "mute", "odd"}
          [] OTHER -> {"dead", "mute"} \cup (IF Verify THEN {"odd"} ELSE {})

FailuresMoveOn ==
    LET bad == {a \in Addresses : host.at[a] \in Left} IN
    bad # Addresses => \A p \in Services : refused[p] <= Cardinality(bad)

(* A host that was silent is not up, except for what is read to its end and  *)
(* compared to nothing (Read, testAndCompare).                               *)
UpWasHeard ==
    \A p \in Services : verdict[p].up => verdict[p].heard \/ (kind \in {"toeof", "url"} /\ ~expects)
=============================================================================
