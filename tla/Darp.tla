-------------------------------- MODULE Darp --------------------------------
(* The connections of a slave to its masters (darp/darp.go, darp/client.go,  *)
(* the server of api/server.go and the client of api/client).                *)
(*                                                                           *)
(* The slave has one client for each master: it connects, fetches its        *)
(* configuration from one of them, and then sends the updates from its queue *)
(* and a ping every ten seconds, one request at a time.  The master has one  *)
(* goroutine for each connection.  Either side of a connection learns of its *)
(* end on its own time: a goroutine of the master may still have a request   *)
(* to serve, or the end of an old connection to notice, after the slave has  *)
(* long been back.                                                           *)
(*                                                                           *)
(* Get takes a timeout and ignores it: a client that waits on a connection   *)
(* that is silently gone waits until the operating system gives it up.       *)
EXTENDS Integers, Sequences, FiniteSets, SequencesExt

CONSTANTS
    Masters,        \* the masters a client was started for
    FetchFrom,      \* MyDarp.Fetch_Config: at most one of them
    Objs,           \* BOUND: how many objects it has for this slave
    Statuses,
    Unknown,
    Ping,           \* a request that carries no update
    QueueMax,       \* BOUND: capacity of d.ch (100)
    Conns,          \* BOUND: connections of one master that exist at one time
    MaxReports, MaxFaults   \* BOUND

ASSUME DarpAssumption ==
    /\ FetchFrom \subseteq Masters
    /\ Objs \in Nat /\ QueueMax \in Nat \ {0} /\ MaxReports \in Nat /\ MaxFaults \in Nat
    /\ Unknown \notin Statuses /\ Ping \notin Statuses
    /\ Conns \subseteq Nat \ {0} /\ IsFiniteSet(Conns)

VARIABLES
    status,     \* the status last sent to the masters
    queue,      \* d.ch
    client,     \* what each client does: "dial", "fetch", "idle", "wait"
    msg,        \* the request it waits for
    left,       \* requests it has still to make to have its configuration
    conn,       \* its connection
    link,       \* each connection: state, the request and the answer it carries
    isUp,       \* the master's Status of the slave: IsUp
    recent,     \* and whether Lastt is less than 120 seconds ago
    view,       \* the status the master has stored for the slave
    missed,     \* HISTORY: an update to this master was dropped or failed
    stopped,    \* the slave is gone
    reports, faults

clientVars == <<client, msg, left, conn>>
serverVars == <<isUp, recent, view>>
vars == <<status, queue, clientVars, link, serverVars, missed, stopped, reports, faults>>

(* "none" not in use, "open", "shut" closed by the client, "dead" carries    *)
(* nothing any more and neither side knows.                                  *)
NoLink == [state |-> "none", req |-> <<>>, answer |-> FALSE]

Fetching(m) == IF m \in FetchFrom THEN Objs + 1 ELSE 0

Init ==
    /\ status = Unknown
    /\ queue = [m \in Masters |-> <<>>]
    /\ client = [m \in Masters |-> "dial"]
    /\ msg = [m \in Masters |-> Ping]
    /\ left = [m \in Masters |-> Fetching(m)]
    /\ conn = [m \in Masters |-> 0]
    /\ link = [m \in Masters |-> [c \in Conns |-> NoLink]]
    /\ isUp = [m \in Masters |-> FALSE]
    /\ recent = [m \in Masters |-> FALSE]
    /\ view = [m \in Masters |-> Unknown]
    /\ missed = [m \in Masters |-> FALSE]
    /\ stopped = FALSE
    /\ reports = 0 /\ faults = 0

-----------------------------------------------------------------------------
(* TellMyMasters: a full queue drops the update.                             *)
Queued(m, st) == IF Len(queue[m]) < QueueMax THEN Append(queue[m], st) ELSE queue[m]

SendUpdate(st) ==
    /\ ~ stopped /\ reports < MaxReports
    /\ st # status /\ status' = st
    /\ queue' = [m \in Masters |-> Queued(m, st)]
    /\ missed' = [m \in Masters |-> missed[m] \/ Len(queue'[m]) = Len(queue[m])]
    /\ reports' = reports + 1
    /\ UNCHANGED <<clientVars, link, serverVars, stopped, faults>>

(* Reconnect tries until it has a connection.                                *)
Reconnect(m) ==
    /\ ~ stopped /\ client[m] = "dial"
    /\ \E c \in Conns :
        /\ link[m][c].state = "none"
        /\ conn' = [conn EXCEPT ![m] = c]
        /\ link' = [link EXCEPT ![m][c].state = "open"]
    /\ client' = [client EXCEPT ![m] = IF left[m] > 0 THEN "fetch" ELSE "idle"]
    /\ UNCHANGED <<status, queue, msg, left, serverVars, missed, stopped, reports, faults>>

Request(m, r) ==
    /\ client' = [client EXCEPT ![m] = "wait"]
    /\ msg' = [msg EXCEPT ![m] = r]
    /\ link' = [link EXCEPT ![m][conn[m]].req = <<r>>]
    /\ UNCHANGED <<status, left, conn, serverVars, missed, stopped, reports, faults>>

(* tryFetchConfig asks for a list and then for each object on it.            *)
Fetch(m) == ~ stopped /\ client[m] = "fetch" /\ Request(m, Ping) /\ UNCHANGED queue

SendPing(m) == ~ stopped /\ client[m] = "idle" /\ Request(m, Ping) /\ UNCHANGED queue

BugFirst(m) == Len(queue[m])    \* the newest update first
First(m) == 1

SendQueued(m) ==
    /\ ~ stopped /\ client[m] = "idle" /\ queue[m] # <<>>
    /\ queue' = [queue EXCEPT ![m] = RemoveAt(@, First(m))]
    /\ Request(m, queue[m][First(m)])

Answered(m) ==
    /\ ~ stopped /\ client[m] = "wait" /\ link[m][conn[m]].answer
    /\ left' = [left EXCEPT ![m] = IF @ > 0 THEN @ - 1 ELSE 0]
    /\ client' = [client EXCEPT ![m] = IF left[m] > 1 THEN "fetch" ELSE "idle"]
    /\ link' = [link EXCEPT ![m][conn[m]].answer = FALSE]
    /\ UNCHANGED <<status, queue, msg, conn, serverVars, missed, stopped, reports, faults>>

(* Get fails: what it sent is not sent again, and a configuration is fetched *)
(* from the start.                                                           *)
BugResent(m) == IF msg[m] # Ping THEN <<msg[m]>> \o queue[m] ELSE queue[m]
Resent(m) == queue[m]
LeftAfter(m) == IF left[m] > 0 THEN Fetching(m) ELSE 0

GetFails(m) ==
    /\ client[m] = "wait"
    /\ client' = [client EXCEPT ![m] = "dial"]
    /\ queue' = [queue EXCEPT ![m] = Resent(m)]
    /\ missed' = [missed EXCEPT ![m] = @ \/ msg[m] # Ping]
    /\ left' = [left EXCEPT ![m] = LeftAfter(m)]
    /\ conn' = [conn EXCEPT ![m] = 0]
    /\ link' = [link EXCEPT ![m][conn[m]].state = IF @ = "dead" THEN "dead" ELSE "shut",
                            ![m][conn[m]].answer = FALSE]
    /\ UNCHANGED <<status, msg, serverVars, stopped, reports>>

Break(m)  == ~ stopped /\ faults < MaxFaults /\ faults' = faults + 1 /\ GetFails(m)
GiveUp(m) == ~ stopped /\ conn[m] # 0 /\ link[m][conn[m]].state = "dead" /\ UNCHANGED faults /\ GetFails(m)

-----------------------------------------------------------------------------
(* The master: a goroutine reads requests (Connected), runs them and         *)
(* answers, until its connection has ended (Disco).                          *)
BugConnected(m) ==     \* only a new connection counts
    /\ isUp' = [isUp EXCEPT ![m] = @ \/ ~ recent[m]]
    /\ recent' = [recent EXCEPT ![m] = TRUE]

Connected(m) ==
    /\ isUp' = [isUp EXCEPT ![m] = TRUE]
    /\ recent' = [recent EXCEPT ![m] = TRUE]

Serve(m, c) ==
    LET r == link[m][c].req IN
    /\ link[m][c].state \in {"open", "shut"} /\ r # <<>>
    /\ Connected(m)
    /\ view' = IF r[1] = Ping THEN view ELSE [view EXCEPT ![m] = r[1]]
    /\ link' = [link EXCEPT ![m][c].req = <<>>, ![m][c].answer = link[m][c].state = "open"]
    /\ UNCHANGED <<status, queue, clientVars, missed, stopped, reports, faults>>

Disco(m, c) ==
    /\ link[m][c].state \in {"shut", "dead"}
    /\ conn[m] # c
    /\ isUp' = [isUp EXCEPT ![m] = FALSE]
    /\ link' = [link EXCEPT ![m][c] = NoLink]
    /\ UNCHANGED <<status, queue, clientVars, recent, view, missed, stopped, reports, faults>>

(* 120 seconds without a request: not while a client is connected, which     *)
(* sends one at least every 25.                                              *)
Silence(m) ==
    /\ recent[m] /\ recent' = [recent EXCEPT ![m] = FALSE]
    /\ conn[m] # 0 => link[m][conn[m]].state = "dead"
    /\ UNCHANGED <<status, queue, clientVars, link, isUp, view, missed, stopped, reports, faults>>

(* A connection goes silent; the slave is switched off.                      *)
Killed(l) == IF l.state = "open" THEN [NoLink EXCEPT !.state = "dead"] ELSE l

Cut(m) ==
    /\ faults < MaxFaults /\ faults' = faults + 1
    /\ ~ stopped /\ conn[m] # 0
    /\ link' = [link EXCEPT ![m][conn[m]] = Killed(@)]
    /\ missed' = [missed EXCEPT ![m] = @ \/ link[m][conn[m]].req # <<>>]
    /\ UNCHANGED <<status, queue, clientVars, serverVars, stopped, reports>>

Stop ==
    /\ faults < MaxFaults /\ faults' = faults + 1
    /\ ~ stopped /\ stopped' = TRUE
    /\ link' = [m \in Masters |-> [c \in Conns |-> Killed(link[m][c])]]
    /\ queue' = [m \in Masters |-> <<>>]
    /\ conn' = [m \in Masters |-> 0]
    /\ client' = [m \in Masters |-> "dial"]
    /\ missed' = [m \in Masters |-> TRUE]
    /\ UNCHANGED <<status, msg, left, serverVars, reports>>

IsUp(m) == isUp[m] /\ recent[m]

ClientStep(m) ==
    \/ Reconnect(m) \/ Fetch(m) \/ SendQueued(m) \/ SendPing(m)
    \/ Answered(m) \/ GiveUp(m)

ServerStep(m) == \E c \in Conns : Serve(m, c) \/ Disco(m, c)

Next ==
    \/ \E st \in Statuses : SendUpdate(st)
    \/ \E m \in Masters : ClientStep(m) \/ ServerStep(m) \/ Silence(m) \/ Break(m) \/ Cut(m)
    \/ Stop

(* Clients and the master's goroutines run; of two ready channels select     *)
(* takes each again and again; a goroutine whose connection has ended is     *)
(* told so, if late; time passes.                                            *)
Fairness ==
    \A m \in Masters :
        /\ WF_vars(ClientStep(m)) /\ SF_vars(SendQueued(m)) /\ WF_vars(Silence(m))
        /\ \A c \in Conns : WF_vars(Serve(m, c)) /\ WF_vars(Disco(m, c))

Spec == Init /\ [][Next]_vars /\ Fairness

-----------------------------------------------------------------------------
(* Unless an update was dropped from a full queue or its request failed, a   *)
(* master that has served all there is has the status of the slave: there is *)
(* nothing else by which an update is lost or overtaken.                     *)
AgreedWhenQuiet ==
    \A m \in Masters :
        ~ missed[m] /\ queue[m] = <<>> /\ client[m] \in {"idle", "fetch", "dial"} => view[m] = status

(* Updates are served at most once and none is made up (module Feed): what a *)
(* master may still be served is what is queued, sent and read but not run.  *)
Carried(m, st) ==
    Cardinality({c \in Conns : link[m][c].state \in {"open", "shut"} /\ link[m][c].req = <<st>>})
        + Cardinality({k \in DOMAIN queue[m] : queue[m][k] = st})

F == INSTANCE Feed WITH waiting <- [m \in Masters |-> [st \in Statuses |-> Carried(m, st)]]
AtMostOnce == F!FeedSpec

(* A slave that is there is seen as up in the end, though the end of a       *)
(* connection it has given up is noticed after it was back; one that is gone *)
(* is seen as down.                                                          *)
SeenAsItIs ==
    \A m \in Masters : /\ <>[](stopped => ~ IsUp(m))
                       /\ (<>stopped) \/ <>[]IsUp(m)
=============================================================================
