----------------------------- MODULE DarpProofs -----------------------------
(* Proofs about the connections of a slave to its masters, for every number  *)
(* of masters, connections, statuses, objects and places in the queue.       *)
EXTENDS Darp, FiniteSetTheorems, TLAPS

(* The inductive invariant.  A master agrees with its slave because the      *)
(* newest report is always at one end: the last in the queue, or the request *)
(* the client waits for, or what the master has (Newest).  That needs to     *)
(* know which connection a request can still be on: the client's own, or one *)
(* it gave up, and then the report on it counts as missed.                   *)
Reqs == {<<>>} \cup {<<r>> : r \in Statuses \cup {Ping}}

LinkState == [state : {"none", "open", "shut", "dead"}, req : Reqs, answer : BOOLEAN]

DarpTypeOK ==
    /\ status \in Statuses \cup {Unknown}
    /\ queue \in [Masters -> Seq(Statuses)]
    /\ client \in [Masters -> {"dial", "fetch", "idle", "wait"}]
    /\ msg \in [Masters -> Statuses \cup {Ping}]
    /\ conn \in [Masters -> Conns \cup {0}]
    /\ link \in [Masters -> [Conns -> LinkState]]
    /\ view \in [Masters -> Statuses \cup {Unknown}]
    /\ missed \in [Masters -> BOOLEAN]

Dialing == \A m \in Masters : client[m] = "dial" <=> conn[m] = 0

LinkOK(m, c) ==
    /\ link[m][c].state = "none" => link[m][c] = NoLink
    /\ conn[m] = c =>
            /\ link[m][c].state \in {"open", "dead"}
            /\ link[m][c].req # <<>> => client[m] = "wait" /\ link[m][c].req = <<msg[m]>>
            /\ link[m][c].answer => link[m][c].state = "open" /\ link[m][c].req = <<>>
            /\ link[m][c].answer => client[m] = "wait"
    /\ conn[m] # c =>
            /\ link[m][c].state # "open" /\ ~link[m][c].answer
            /\ link[m][c].req \notin {<<>>, <<Ping>>} => missed[m]

Connections == \A m \in Masters, c \in Conns : LinkOK(m, c)

Unserved(m) == \E c \in Conns : conn[m] = c /\ link[m][c].req # <<>>

Newest ==
    \A m \in Masters : ~missed[m] =>
        IF queue[m] # <<>> THEN queue[m][Len(queue[m])] = status
        ELSE IF Unserved(m) /\ msg[m] # Ping THEN msg[m] = status
        ELSE view[m] = status

IInv ==
    /\ DarpTypeOK
    /\ Dialing
    /\ Connections
    /\ Newest
-----------------------------------------------------------------------------
(* The request on a connection is what was put there.                        *)
LEMMA ReqsAreRequests ==
    /\ <<>> \in Reqs
    /\ \A r \in Statuses \cup {Ping} : <<r>> \in Reqs /\ <<r>> # <<>> /\ <<r>>[1] = r
    /\ \A q \in Reqs : q # <<>> => q[1] \in Statuses \cup {Ping} /\ q = <<q[1]>>
BY DEF Reqs

(* What the fields of a connection are.                                      *)
LEMMA LinkStates ==
    \A s \in {"none", "open", "shut", "dead"}, q \in Reqs, a \in BOOLEAN :
        [state |-> s, req |-> q, answer |-> a] \in LinkState
BY DEF LinkState

(* What they hold.                                                           *)
LEMMA LinkTypes ==
    ASSUME NEW l \in LinkState
    PROVE  l.state \in {"none", "open", "shut", "dead"} /\ l.req \in Reqs /\ l.answer \in BOOLEAN
BY DEF LinkState

(* The fields of a connection when one of them is changed.                   *)
LEMMA LinkFields ==
    ASSUME NEW l \in LinkState, NEW s, NEW q, NEW a
    PROVE  /\ [l EXCEPT !.state = s] = [state |-> s, req |-> l.req, answer |-> l.answer]
           /\ [l EXCEPT !.req = q] = [state |-> l.state, req |-> q, answer |-> l.answer]
           /\ [l EXCEPT !.answer = a] = [state |-> l.state, req |-> l.req, answer |-> a]
BY DEF LinkState

(* A client that gives up a connection changes two.                          *)
LEMMA ClosedLink ==
    ASSUME NEW l \in LinkState, NEW s, NEW a
    PROVE  [l EXCEPT !.state = s, !.answer = a] = [state |-> s, req |-> l.req, answer |-> a]
<1>1. [l EXCEPT !.state = s, !.answer = a] = [[l EXCEPT !.state = s] EXCEPT !.answer = a]
    BY Zenon
<1>2. [l EXCEPT !.state = s] = [state |-> s, req |-> l.req, answer |-> l.answer]
    BY LinkFields
<1>3. [[state |-> s, req |-> l.req, answer |-> l.answer] EXCEPT !.answer = a]
        = [state |-> s, req |-> l.req, answer |-> a]
    OBVIOUS
<1>. QED
    BY <1>1, <1>2, <1>3, Zenon

(* So does the master that has served a request.                             *)
LEMMA ServedLink ==
    ASSUME NEW l \in LinkState, NEW a
    PROVE  [l EXCEPT !.req = <<>>, !.answer = a] = [state |-> l.state, req |-> <<>>, answer |-> a]
<1>1. [l EXCEPT !.req = <<>>, !.answer = a] = [[l EXCEPT !.req = <<>>] EXCEPT !.answer = a]
    BY Zenon
<1>2. [l EXCEPT !.req = <<>>] = [state |-> l.state, req |-> <<>>, answer |-> l.answer]
    BY LinkFields
<1>3. [[state |-> l.state, req |-> <<>>, answer |-> l.answer] EXCEPT !.answer = a]
        = [state |-> l.state, req |-> <<>>, answer |-> a]
    OBVIOUS
<1>. QED
    BY <1>1, <1>2, <1>3, Zenon

(* A connection that is not in use.                                          *)
LEMMA NoLinkState == NoLink \in LinkState
BY DEF NoLink, LinkState, Reqs

(* 0 stands for no connection.                                               *)
LEMMA ConnsAreNumbers == 0 \notin Conns /\ IsFiniteSet(Conns)
BY DarpAssumption

(* A ping carries no status.                                                 *)
LEMMA PingIsNoStatus == Ping \notin Statuses
BY DarpAssumption

(* It holds when the slave starts.                                           *)
LEMMA InitInvariant == Init => IInv
<1>. SUFFICES ASSUME Init PROVE IInv
    OBVIOUS
<1>1. DarpTypeOK
    <2>1. link \in [Masters -> [Conns -> LinkState]]
        BY NoLinkState DEF Init
    <2>2. \A m \in Masters : queue[m] = <<>>
        BY DEF Init
    <2>3. queue \in [Masters -> Seq(Statuses)]
        BY DEF Init
    <2>. QED
        BY <2>1, <2>3 DEF Init, DarpTypeOK
<1>2. Dialing
    BY DEF Init, Dialing
<1>3. Connections
    BY ConnsAreNumbers DEF Init, Connections, LinkOK, NoLink
<1>4. Newest
    BY DEF Init, Newest, Unserved
<1>. QED
    BY <1>1, <1>2, <1>3, <1>4 DEF IInv

(* One connection of one master changes, and no other.                       *)
LinkIs(m, c, l) ==
    /\ link' \in [Masters -> [Conns -> LinkState]]
    /\ link'[m][c] = l
    /\ \A n \in Masters, d \in Conns : n # m \/ d # c => link'[n][d] = link[n][d]

(* An assignment to one connection in `link' changes that one only.          *)
LEMMA LinkUpdate ==
    ASSUME DarpTypeOK, NEW m \in Masters, NEW c \in Conns, NEW l \in LinkState,
           link' = [link EXCEPT ![m][c] = l]
    PROVE  LinkIs(m, c, l)
BY DEF DarpTypeOK, LinkIs

(* Then it is enough to look at that one.                                    *)
LEMMA LinksKept ==
    ASSUME Connections, NEW m \in Masters, NEW c \in Conns, NEW l, LinkIs(m, c, l), LinkOK(m, c)',
           \A n \in Masters : n # m =>
                /\ conn'[n] = conn[n] /\ client'[n] = client[n]
                /\ msg'[n] = msg[n] /\ missed'[n] = missed[n],
           missed[m] => missed'[m],
           \A d \in Conns : d # c => 
                \/ conn[m] # d /\ conn'[m] # d
                \/ /\ conn'[m] = conn[m] /\ client'[m] = client[m] /\ msg'[m] = msg[m]
    PROVE  Connections'
<1>. SUFFICES ASSUME NEW n \in Masters, NEW d \in Conns PROVE LinkOK(n, d)'
    BY DEF Connections
<1>1. LinkOK(n, d)
    BY DEF Connections
<1>2. CASE n = m /\ d = c
    BY <1>2
<1>3. CASE n # m
    <2>1. link'[n][d] = link[n][d]
        BY <1>3 DEF LinkIs
    <2>. QED
        BY <1>1, <1>3, <2>1 DEF LinkOK
<1>4. CASE n = m /\ d # c
    <2>1. link'[m][d] = link[m][d]
        BY <1>4 DEF LinkIs
    <2>. QED
        BY <1>1, <1>4, <2>1 DEF LinkOK
<1>. QED
    BY <1>2, <1>3, <1>4

(* A connection that carries an update which the master may still serve.     *)
Carries(m, c, st) == link[m][c].state \in {"open", "shut"} /\ link[m][c].req = <<st>>

NothingNew ==
    \A m \in Masters, c \in Conns, st \in Statuses : Carries(m, c, st)' => Carries(m, c, st)

OnlyNew(m, r) ==
    \A n \in Masters, c \in Conns, st \in Statuses :
        Carries(n, c, st)' => Carries(n, c, st) \/ (n = m /\ c = conn[m] /\ st = r)

(* It is enough to look at the connection that changes.                      *)
LEMMA NothingNewOn ==
    ASSUME NEW m \in Masters, NEW c \in Conns, NEW l, LinkIs(m, c, l),
           \A st \in Statuses : l.state \in {"open", "shut"} /\ l.req = <<st>> => Carries(m, c, st)
    PROVE  NothingNew
<1>. SUFFICES ASSUME NEW n \in Masters, NEW d \in Conns, NEW st \in Statuses, Carries(n, d, st)'
              PROVE  Carries(n, d, st)
    BY DEF NothingNew
<1>1. CASE n = m /\ d = c
    BY <1>1 DEF LinkIs, Carries
<1>2. CASE n # m \/ d # c
    BY <1>2 DEF LinkIs, Carries
<1>. QED
    BY <1>1, <1>2

-----------------------------------------------------------------------------
(* TellMyMasters appends the report or counts it as missed.                  *)
LEMMA SendUpdateKeeps ==
    ASSUME IInv, NEW st \in Statuses, SendUpdate(st)
    PROVE  IInv'
<1>. USE DEF IInv
<1>1. ASSUME NEW m \in Masters
      PROVE  /\ queue'[m] \in Seq(Statuses)
             /\ ~missed'[m] => /\ ~missed[m] /\ queue'[m] # <<>>
                               /\ queue'[m][Len(queue'[m])] = st
    <2>1. queue[m] \in Seq(Statuses) /\ queue'[m] = Queued(m, st)
        BY DEF SendUpdate, DarpTypeOK
    <2>2. ~missed'[m] => ~missed[m] /\ Len(queue'[m]) # Len(queue[m])
        BY DEF SendUpdate, DarpTypeOK
    <2>3. CASE Len(queue[m]) < QueueMax
        BY <2>1, <2>2, <2>3 DEF Queued
    <2>4. CASE ~(Len(queue[m]) < QueueMax)
        BY <2>1, <2>2, <2>4 DEF Queued
    <2>. QED
        BY <2>3, <2>4
<1>2. queue' = [m \in Masters |-> queue'[m]] /\ missed' = [m \in Masters |-> missed'[m]]
    BY DEF SendUpdate
<1>3. UNCHANGED <<client, msg, conn, link, view>> /\ status' = st
    BY DEF SendUpdate, clientVars, serverVars
<1>4. missed' \in [Masters -> BOOLEAN]
    BY DEF SendUpdate, DarpTypeOK
<1>5. DarpTypeOK'
    BY <1>1, <1>2, <1>3, <1>4 DEF DarpTypeOK
<1>6. Dialing'
    BY <1>3 DEF Dialing
<1>7. Connections'
    <2>1. ASSUME NEW m \in Masters, missed[m] PROVE missed'[m]
        BY <2>1 DEF SendUpdate
    <2>. QED
        BY <1>3, <2>1 DEF Connections, LinkOK
<1>8. Newest'
    BY <1>1, <1>3 DEF Newest
<1>. QED
    BY <1>5, <1>6, <1>7, <1>8

(* Reconnect uses a connection that nothing is on.                           *)
LEMMA ReconnectKeeps ==
    ASSUME IInv, NEW m \in Masters, Reconnect(m)
    PROVE  IInv' /\ NothingNew
<1>. USE DEF IInv
<1>1. PICK c \in Conns : /\ link[m][c].state = "none" /\ conn' = [conn EXCEPT ![m] = c]
                         /\ link' = [link EXCEPT ![m][c].state = "open"]
    BY DEF Reconnect
<1>2. client' = [client EXCEPT ![m] = IF left[m] > 0 THEN "fetch" ELSE "idle"] /\ client[m] = "dial"
    BY DEF Reconnect
<1>3. UNCHANGED <<status, queue, msg, view, missed>>
    BY DEF Reconnect, serverVars
<1>4. LinkIs(m, c, [state |-> "open", req |-> <<>>, answer |-> FALSE])
    <2>1. link[m][c] = NoLink /\ link[m][c] \in LinkState
        BY <1>1 DEF Connections, LinkOK, DarpTypeOK
    <2>2. link' = [link EXCEPT ![m][c] = [link[m][c] EXCEPT !.state = "open"]]
        BY <1>1 DEF DarpTypeOK
    <2>3. [link[m][c] EXCEPT !.state = "open"] = [state |-> "open", req |-> <<>>, answer |-> FALSE]
        <3>1. [link[m][c] EXCEPT !.state = "open"]
                = [state |-> "open", req |-> link[m][c].req, answer |-> link[m][c].answer]
            BY <2>1, LinkFields
        <3>. QED
            BY <2>1, <3>1 DEF NoLink
    <2>. QED
        BY <2>2, <2>3, LinkUpdate, LinkStates, ReqsAreRequests
<1>5. conn[m] = 0 /\ c # 0
    BY <1>2, ConnsAreNumbers DEF Dialing
<1>6. DarpTypeOK'
    BY <1>1, <1>2, <1>3, <1>4 DEF DarpTypeOK, LinkIs
<1>7. Dialing'
    BY <1>1, <1>2, <1>5 DEF Dialing, DarpTypeOK
<1>8. Connections'
    <2>1. LinkOK(m, c)'
        BY <1>1, <1>4 DEF LinkOK, LinkIs, DarpTypeOK
    <2>2. \A d \in Conns : d # c => conn[m] # d /\ conn'[m] # d
        BY <1>1, <1>5, ConnsAreNumbers DEF DarpTypeOK
    <2>3. \A n \in Masters : n # m => conn'[n] = conn[n] /\ client'[n] = client[n]
        BY <1>1, <1>2 DEF DarpTypeOK
    <2>. QED
        BY <1>3, <1>4, <2>1, <2>2, <2>3, LinksKept
<1>10. Newest'
    <2>1. ASSUME NEW n \in Masters, n # m PROVE Unserved(n)' <=> Unserved(n)
        BY <1>1, <1>4, <2>1 DEF Unserved, LinkIs, DarpTypeOK
    <2>2. ~Unserved(m) /\ ~Unserved(m)'
        BY <1>1, <1>4, <1>5, ConnsAreNumbers DEF Unserved, LinkIs, DarpTypeOK
    <2>. QED
        BY <1>3, <2>1, <2>2 DEF Newest
<1>11. NothingNew
    BY <1>4, NothingNewOn, ReqsAreRequests
<1>. QED
    BY <1>6, <1>7, <1>8, <1>10, <1>11

(* A request is put on the client's connection; the queue gave it or not.    *)
LEMMA RequestKeeps ==
    ASSUME IInv, NEW m \in Masters, NEW r \in Statuses \cup {Ping}, Request(m, r),
           client[m] \in {"fetch", "idle"},
           queue' \in [Masters -> Seq(Statuses)],
           \A n \in Masters : n # m => queue'[n] = queue[n],
           r = Ping => queue'[m] = queue[m],
           r # Ping => IF Len(queue[m]) = 1 THEN queue'[m] = <<>> /\ r = queue[m][1]
                       ELSE queue'[m] # <<>> /\ queue'[m][Len(queue'[m])] = queue[m][Len(queue[m])],
           r # Ping => queue[m] # <<>>
    PROVE  IInv' /\ OnlyNew(m, r)
<1>. USE DEF IInv
<1>1. conn[m] # 0 /\ conn[m] \in Conns
    BY DEF Dialing, DarpTypeOK
<1>2. /\ client' = [client EXCEPT ![m] = "wait"] /\ msg' = [msg EXCEPT ![m] = r]
      /\ link' = [link EXCEPT ![m][conn[m]].req = <<r>>]
      /\ UNCHANGED <<status, conn, view, missed>>
    BY DEF Request, serverVars
<1>3. PICK c \in Conns : c = conn[m]
    BY <1>1
<1>4. /\ link[m][c] \in LinkState /\ link[m][c].state \in {"open", "dead"}
      /\ link[m][c].req = <<>> /\ ~link[m][c].answer
    BY <1>1, <1>3 DEF DarpTypeOK, Connections, LinkOK
<1>5. LinkIs(m, c, [state |-> link[m][c].state, req |-> <<r>>, answer |-> link[m][c].answer])
    <2>1. link' = [link EXCEPT ![m][c] = [link[m][c] EXCEPT !.req = <<r>>]]
        BY <1>2, <1>3 DEF DarpTypeOK
    <2>2. [link[m][c] EXCEPT !.req = <<r>>]
            = [state |-> link[m][c].state, req |-> <<r>>, answer |-> link[m][c].answer]
        BY <1>4, LinkFields
    <2>3. link[m][c].answer \in BOOLEAN
        BY <1>4, LinkTypes
    <2>. QED
        BY <1>4, <2>1, <2>2, <2>3, LinkUpdate, LinkStates, ReqsAreRequests
<1>6. DarpTypeOK'
    BY <1>2, <1>5 DEF DarpTypeOK, LinkIs
<1>7. Dialing'
    BY <1>1, <1>2 DEF Dialing, DarpTypeOK
<1>8. Connections'
    <2>1. LinkOK(m, c)'
        BY <1>2, <1>3, <1>4, <1>5, ReqsAreRequests DEF LinkOK, LinkIs, DarpTypeOK
    <2>2. \A n \in Masters : n # m => client'[n] = client[n] /\ msg'[n] = msg[n]
        BY <1>2 DEF DarpTypeOK
    <2>. QED
        BY <1>2, <1>3, <1>5, <2>1, <2>2, LinksKept
<1>10. Newest'
    <2>1. ASSUME NEW n \in Masters, n # m PROVE Unserved(n)' <=> Unserved(n)
        BY <1>2, <1>5, <2>1 DEF Unserved, LinkIs, DarpTypeOK
    <2>2. Unserved(m)' /\ ~Unserved(m)
        BY <1>1, <1>2, <1>3, <1>4, <1>5, ReqsAreRequests DEF Unserved, LinkIs
    <2>3. msg'[m] = r /\ \A n \in Masters : n # m => msg'[n] = msg[n]
        BY <1>2 DEF DarpTypeOK
    <2>4. ASSUME NEW n \in Masters, n # m, ~missed'[n]
          PROVE  IF queue'[n] # <<>> THEN queue'[n][Len(queue'[n])] = status'
                 ELSE IF Unserved(n)' /\ msg'[n] # Ping THEN msg'[n] = status' ELSE view'[n] = status'
        BY <1>2, <2>1, <2>3, <2>4 DEF Newest
    <2>5. ASSUME ~missed'[m]
          PROVE  IF queue'[m] # <<>> THEN queue'[m][Len(queue'[m])] = status'
                 ELSE IF Unserved(m)' /\ msg'[m] # Ping THEN msg'[m] = status' ELSE view'[m] = status'
        <3>1. CASE r = Ping
            BY <1>2, <2>2, <2>3, <2>5, <3>1 DEF Newest
        <3>2. CASE r # Ping /\ Len(queue[m]) = 1
            BY <1>2, <2>2, <2>3, <2>5, <3>2 DEF Newest
        <3>3. CASE r # Ping /\ Len(queue[m]) # 1
            BY <1>2, <2>2, <2>3, <2>5, <3>3 DEF Newest
        <3>. QED
            BY <3>1, <3>2, <3>3
    <2>. QED
        BY <2>4, <2>5 DEF Newest
<1>11. ASSUME NEW n \in Masters, NEW d \in Conns, NEW st \in Statuses, Carries(n, d, st)'
       PROVE  Carries(n, d, st) \/ (n = m /\ d = conn[m] /\ st = r)
    <2>1. CASE n = m /\ d = c
        BY <1>3, <1>5, <1>11, <2>1 DEF LinkIs, Carries
    <2>2. CASE n # m \/ d # c
        BY <1>5, <1>11, <2>2 DEF LinkIs, Carries
    <2>. QED
        BY <2>1, <2>2
<1>. QED
    BY <1>6, <1>7, <1>8, <1>10, <1>11 DEF OnlyNew

(* The first in the queue is taken out.                                      *)
LEMMA FirstOut ==
    ASSUME NEW s \in Seq(Statuses), s # <<>>
    PROVE  /\ RemoveAt(s, 1) = Tail(s) /\ Tail(s) \in Seq(Statuses) /\ s[1] \in Statuses
           /\ Len(Tail(s)) = Len(s) - 1 /\ Len(s) \in Nat \ {0}
           /\ \A k \in 1..(Len(s) - 1) : Tail(s)[k] = s[k + 1]
<1>1. Len(s) \in Nat \ {0}
    OBVIOUS
<1>1a. Tail(s) \in Seq(Statuses) /\ s[1] \in Statuses /\ Len(Tail(s)) = Len(s) - 1
    BY <1>1
<1>1b. \A k \in 1..(Len(s) - 1) : Tail(s)[k] = s[k + 1]
    BY <1>1
<1>2. SubSeq(s, 1, 0) = <<>>
    OBVIOUS
<1>3. SubSeq(s, 2, Len(s)) = Tail(s)
    OBVIOUS
<1>4. <<>> \o Tail(s) = Tail(s)
    BY <1>1a
<1>5. RemoveAt(s, 1) = SubSeq(s, 1, 0) \o SubSeq(s, 2, Len(s))
    <2>1. 1 - 1 = 0 /\ 1 + 1 = 2
        OBVIOUS
    <2>. QED
        BY <2>1, Zenon DEF RemoveAt
<1>6. RemoveAt(s, 1) = Tail(s)
    BY <1>2, <1>3, <1>4, <1>5, Zenon
<1>. QED
    BY <1>1, <1>1a, <1>1b, <1>6

(* A client asks for its configuration, or sends a ping.                     *)
LEMMA AskingKeeps ==
    ASSUME IInv, NEW m \in Masters, Fetch(m) \/ SendPing(m)
    PROVE  IInv' /\ NothingNew
<1>1. queue \in [Masters -> Seq(Statuses)]
    BY DEF IInv, DarpTypeOK
<1>2. IInv' /\ OnlyNew(m, Ping)
    BY <1>1, RequestKeeps DEF Fetch, SendPing
<1>. QED
    BY <1>2, PingIsNoStatus DEF NothingNew, OnlyNew

(* It sends the first update of its queue.                                   *)
LEMMA SendQueuedKeeps ==
    ASSUME IInv, NEW m \in Masters, SendQueued(m)
    PROVE  IInv' /\ OnlyNew(m, queue[m][1]) /\ queue' = [queue EXCEPT ![m] = Tail(queue[m])]
<1>1. queue[m] \in Seq(Statuses) /\ queue[m] # <<>>
    BY DEF SendQueued, IInv, DarpTypeOK
<1>2. queue' = [queue EXCEPT ![m] = Tail(queue[m])]
    <2>1. RemoveAt(queue[m], 1) = Tail(queue[m])
        BY <1>1, FirstOut
    <2>. QED
        BY <2>1 DEF SendQueued, First
<1>3. Request(m, queue[m][1]) /\ client[m] = "idle"
    BY DEF SendQueued, First
<1>4. queue[m][1] \in Statuses /\ queue[m][1] # Ping
    BY <1>1, PingIsNoStatus
<1>5. /\ Tail(queue[m]) \in Seq(Statuses)
      /\ Len(queue[m]) = 1 => Tail(queue[m]) = <<>>
      /\ Len(queue[m]) # 1 => /\ Tail(queue[m]) # <<>>
                              /\ Tail(queue[m])[Len(Tail(queue[m]))] = queue[m][Len(queue[m])]
    <2>. DEFINE q == queue[m]
    <2>. HIDE DEF q
    <2>1. q \in Seq(Statuses) /\ q # <<>>
        BY <1>1 DEF q
    <2>2. /\ Len(q) \in Nat \ {0} /\ Tail(q) \in Seq(Statuses) /\ Len(Tail(q)) = Len(q) - 1
          /\ \A k \in 1..(Len(q) - 1) : Tail(q)[k] = q[k + 1]
        BY <2>1, FirstOut
    <2>3. Len(q) = 1 => Tail(q) = <<>>
        <3>. DEFINE t == Tail(q)
        <3>. HIDE DEF t
        <3>1. t \in Seq(Statuses) /\ (Len(q) = 1 => Len(t) = 0)
            BY <2>2 DEF t
        <3>2. Len(q) = 1 => t = <<>>
            BY <3>1
        <3>. QED
            BY <3>2, Zenon DEF t
    <2>4. Len(q) # 1 => Tail(q) # <<>> /\ Tail(q)[Len(q) - 1] = q[(Len(q) - 1) + 1]
        BY <2>2
    <2>. QED
        BY <2>2, <2>3, <2>4 DEF q
<1>6. queue \in [Masters -> Seq(Statuses)]
    BY DEF IInv, DarpTypeOK
<1>. QED
    BY <1>6, <1>1, <1>2, <1>3, <1>4, <1>5, RequestKeeps

(* A connection keeps its request and is neither opened nor closed.          *)
LEMMA AnsweredKeeps ==
    ASSUME IInv, NEW m \in Masters, Answered(m)
    PROVE  IInv' /\ NothingNew
<1>. USE DEF IInv
<1>1. client[m] = "wait" /\ conn[m] # 0 /\ conn[m] \in Conns
    BY DEF Answered, Dialing, DarpTypeOK
<1>2. /\ client' = [client EXCEPT ![m] = IF left[m] > 1 THEN "fetch" ELSE "idle"]
      /\ link' = [link EXCEPT ![m][conn[m]].answer = FALSE]
      /\ UNCHANGED <<status, queue, msg, conn, view, missed>>
    BY DEF Answered, serverVars
<1>3. PICK c \in Conns : c = conn[m]
    BY <1>1
<1>4. /\ link[m][c] \in LinkState /\ link[m][c].state \in {"open", "dead"}
      /\ link[m][c].answer /\ link[m][c].req = <<>>
    BY <1>1, <1>3 DEF DarpTypeOK, Connections, LinkOK, Answered
<1>5. LinkIs(m, c, [state |-> link[m][c].state, req |-> link[m][c].req, answer |-> FALSE])
    <2>1. link' = [link EXCEPT ![m][c] = [link[m][c] EXCEPT !.answer = FALSE]]
        BY <1>2, <1>3 DEF DarpTypeOK
    <2>2. [link[m][c] EXCEPT !.answer = FALSE]
            = [state |-> link[m][c].state, req |-> link[m][c].req, answer |-> FALSE]
        BY <1>4, LinkFields
    <2>. QED
        BY <1>4, <2>1, <2>2, LinkTypes, LinkUpdate, LinkStates
<1>6. DarpTypeOK'
    BY <1>2, <1>5 DEF DarpTypeOK, LinkIs
<1>7. Dialing'
    BY <1>1, <1>2 DEF Dialing, DarpTypeOK
<1>8. Connections'
    <2>1. LinkOK(m, c)'
        BY <1>2, <1>3, <1>4, <1>5 DEF LinkOK, LinkIs, DarpTypeOK
    <2>2. \A n \in Masters : n # m => client'[n] = client[n] /\ msg'[n] = msg[n]
        BY <1>2 DEF DarpTypeOK
    <2>. QED
        BY <1>2, <1>3, <1>5, <2>1, <2>2, LinksKept
<1>10. Newest'
    <2>1. ASSUME NEW n \in Masters PROVE Unserved(n)' <=> Unserved(n)
        <3>1. ASSUME NEW d \in Conns PROVE link'[n][d].req = link[n][d].req
            <4>1. CASE n = m /\ d = c
                BY <1>5, <4>1 DEF LinkIs
            <4>2. CASE n # m \/ d # c
                BY <1>5, <4>2 DEF LinkIs
            <4>. QED
                BY <4>1, <4>2
        <3>. QED
            BY <1>2, <3>1 DEF Unserved
    <2>. QED
        BY <1>2, <2>1 DEF Newest
<1>11. NothingNew
    BY <1>5, NothingNewOn DEF Carries
<1>. QED
    BY <1>6, <1>7, <1>8, <1>10, <1>11

(* Get fails: the connection is given up, with the request that may be on it.*)
LEMMA GetFailsKeeps ==
    ASSUME IInv, NEW m \in Masters, GetFails(m)
    PROVE  IInv' /\ NothingNew
<1>. USE DEF IInv
<1>1. client[m] = "wait" /\ conn[m] # 0 /\ conn[m] \in Conns
    BY DEF GetFails, Dialing, DarpTypeOK
<1>2. /\ client' = [client EXCEPT ![m] = "dial"] /\ queue' = queue
      /\ missed' = [missed EXCEPT ![m] = @ \/ msg[m] # Ping]
      /\ conn' = [conn EXCEPT ![m] = 0]
      /\ UNCHANGED <<status, msg, view>>
    BY DEF GetFails, serverVars, Resent, DarpTypeOK
<1>3. PICK c \in Conns : c = conn[m]
    BY <1>1
<1>4. /\ link[m][c] \in LinkState /\ link[m][c].state \in {"open", "dead"}
      /\ link[m][c].req # <<>> => link[m][c].req = <<msg[m]>>
    BY <1>1, <1>3 DEF DarpTypeOK, Connections, LinkOK
<1>. DEFINE s == IF link[m][c].state = "dead" THEN "dead" ELSE "shut"
<1>5. s \in {"dead", "shut"}
    OBVIOUS
<1>6. link' = [link EXCEPT ![m][c] = [link[m][c] EXCEPT !.state = s, !.answer = FALSE]]
    BY <1>3 DEF GetFails, DarpTypeOK
<1>. HIDE DEF s
<1>7. LinkIs(m, c, [state |-> s, req |-> link[m][c].req, answer |-> FALSE])
    <2>1. [link[m][c] EXCEPT !.state = s, !.answer = FALSE]
            = [state |-> s, req |-> link[m][c].req, answer |-> FALSE]
        BY <1>4, ClosedLink, Zenon
    <2>. QED
        BY <1>4, <1>5, <1>6, <2>1, LinkTypes, LinkUpdate, LinkStates
<1>8. /\ missed'[m] <=> missed[m] \/ msg[m] # Ping
      /\ \A n \in Masters : n # m => missed'[n] = missed[n]
      /\ missed' \in [Masters -> BOOLEAN]
    BY <1>2 DEF DarpTypeOK
<1>9. DarpTypeOK'
    BY <1>2, <1>7, <1>8 DEF DarpTypeOK, LinkIs
<1>10. Dialing'
    BY <1>1, <1>2 DEF Dialing, DarpTypeOK
<1>11. Connections'
    <2>1. LinkOK(m, c)'
        <3>1. conn'[m] # c /\ link'[m][c] = [state |-> s, req |-> link[m][c].req, answer |-> FALSE]
            BY <1>2, <1>7, ConnsAreNumbers DEF LinkIs, DarpTypeOK
        <3>2. link[m][c].req \notin {<<>>, <<Ping>>} => missed'[m]
            BY <1>4, <1>8
        <3>. QED
            BY <1>5, <3>1, <3>2 DEF LinkOK
    <2>2. \A d \in Conns : d # c => conn[m] # d /\ conn'[m] # d
        BY <1>2, <1>3, ConnsAreNumbers DEF DarpTypeOK
    <2>3. \A n \in Masters : n # m => conn'[n] = conn[n] /\ client'[n] = client[n]
        BY <1>2 DEF DarpTypeOK
    <2>. QED
        BY <1>2, <1>7, <1>8, <2>1, <2>2, <2>3, LinksKept
<1>13. Newest'
    <2>1. ASSUME NEW n \in Masters, n # m PROVE Unserved(n)' <=> Unserved(n)
        BY <1>2, <1>7, <2>1 DEF Unserved, LinkIs, DarpTypeOK
    <2>. QED
        BY <1>2, <1>8, <2>1 DEF Newest
<1>14. NothingNew
    <2>1. s \in {"open", "shut"} => link[m][c].state \in {"open", "shut"}
        BY <1>4 DEF s
    <2>. QED
        BY <1>7, <2>1, NothingNewOn DEF Carries
<1>. QED
    BY <1>9, <1>10, <1>11, <1>13, <1>14

(* The master serves the request on a connection.                            *)
LEMMA ServeKeeps ==
    ASSUME IInv, NEW m \in Masters, NEW c \in Conns, Serve(m, c)
    PROVE  IInv' /\ \E l \in LinkState : l.req = <<>> /\ LinkIs(m, c, l)
<1>. USE DEF IInv
<1>1. /\ link[m][c] \in LinkState /\ link[m][c].state \in {"open", "shut"}
      /\ link[m][c].req \in Reqs /\ link[m][c].req # <<>>
    BY LinkTypes DEF Serve, DarpTypeOK
<1>2. PICK r \in Statuses \cup {Ping} : link[m][c].req = <<r>>
    BY <1>1, ReqsAreRequests
<1>3. /\ view' = IF r = Ping THEN view ELSE [view EXCEPT ![m] = r]
      /\ UNCHANGED <<status, queue, client, msg, conn, missed>>
    BY <1>2, ReqsAreRequests DEF Serve, clientVars
<1>4. link' = [link EXCEPT ![m][c] = [link[m][c] EXCEPT !.req = <<>>, !.answer = link[m][c].state = "open"]]
    BY DEF Serve, DarpTypeOK
<1>. DEFINE a == link[m][c].state = "open"
<1>5. LinkIs(m, c, [state |-> link[m][c].state, req |-> <<>>, answer |-> a])
    <2>1. a \in BOOLEAN
        OBVIOUS
    <2>2. link' = [link EXCEPT ![m][c] = [link[m][c] EXCEPT !.req = <<>>, !.answer = a]]
        BY <1>4
    <2>. HIDE DEF a
    <2>3. [link[m][c] EXCEPT !.req = <<>>, !.answer = a] = [state |-> link[m][c].state, req |-> <<>>, answer |-> a]
        BY <1>1, ServedLink, Zenon
    <2>. QED
        BY <1>1, <2>1, <2>2, <2>3, LinkUpdate, LinkStates, ReqsAreRequests
<1>6. DarpTypeOK'
    BY <1>3, <1>5 DEF DarpTypeOK, LinkIs
<1>7. Dialing'
    BY <1>3 DEF Dialing, DarpTypeOK
<1>8. Connections'
    <2>1. LinkOK(m, c)
        BY DEF Connections
    <2>2. LinkOK(m, c)'
        <3>. DEFINE l == [state |-> link[m][c].state, req |-> <<>>, answer |-> a]
        <3>1. link'[m][c] = l /\ l.state = link[m][c].state /\ l.req = <<>> /\ l.answer = a
            BY <1>5 DEF LinkIs
        <3>. HIDE DEF l
        <3>2. CASE conn[m] = c
            BY <1>1, <1>3, <2>1, <3>1, <3>2 DEF LinkOK
        <3>3. CASE conn[m] # c
            BY <1>1, <1>3, <2>1, <3>1, <3>3 DEF LinkOK
        <3>. QED
            BY <3>2, <3>3
    <2>. QED
        BY <1>3, <1>5, <2>2, LinksKept
<1>10. Newest'
    <2>1. ASSUME NEW n \in Masters, n # m PROVE (Unserved(n)' <=> Unserved(n)) /\ view'[n] = view[n]
        BY <1>3, <1>5, <2>1 DEF Unserved, LinkIs, DarpTypeOK
    <2>2. CASE c = conn[m]
        <3>1. r = msg[m]
            BY <1>2, <2>2, ReqsAreRequests DEF Connections, LinkOK
        <3>2. Unserved(m) /\ ~Unserved(m)'
            BY <1>1, <1>3, <1>5, <2>2, <3>1 DEF Unserved, LinkIs
        <3>3. r # Ping => view'[m] = r
            BY <1>3 DEF DarpTypeOK
        <3>4. r = Ping => view'[m] = view[m]
            BY <1>3
        <3>. QED
            BY <1>3, <2>1, <3>1, <3>2, <3>3, <3>4 DEF Newest
    <2>3. CASE c # conn[m]
        <3>1. missed[m] \/ r = Ping
            BY <1>2, <2>3, ReqsAreRequests DEF Connections, LinkOK
        <3>2. (Unserved(m)' <=> Unserved(m)) /\ (r = Ping => view' = view)
            BY <1>3, <1>5, <2>3 DEF Unserved, LinkIs, DarpTypeOK
        <3>. QED
            BY <1>3, <2>1, <3>1, <3>2 DEF Newest
    <2>. QED
        BY <2>2, <2>3
<1>11. \E l \in LinkState : l.req = <<>> /\ LinkIs(m, c, l)
    <2>. HIDE DEF a
    <2>1. [state |-> link[m][c].state, req |-> <<>>, answer |-> a] \in LinkState
        BY <1>1, LinkStates, ReqsAreRequests DEF a
    <2>. QED
        BY <1>5, <2>1
<1>. QED
    BY <1>6, <1>7, <1>8, <1>10, <1>11

(* The master notices the end of a connection that is no client's any more.  *)
LEMMA DiscoKeeps ==
    ASSUME IInv, NEW m \in Masters, NEW c \in Conns, Disco(m, c)
    PROVE  IInv' /\ NothingNew
<1>. USE DEF IInv
<1>1. conn[m] # c /\ UNCHANGED <<status, queue, client, msg, conn, view, missed>>
    BY DEF Disco, clientVars
<1>2. LinkIs(m, c, NoLink)
    BY NoLinkState, LinkUpdate DEF Disco
<1>3. DarpTypeOK'
    BY <1>1, <1>2 DEF DarpTypeOK, LinkIs
<1>4. Dialing'
    BY <1>1 DEF Dialing
<1>5. Connections'
    <2>1. LinkOK(m, c)'
        BY <1>1, <1>2 DEF LinkOK, LinkIs, NoLink
    <2>. QED
        BY <1>1, <1>2, <2>1, LinksKept
<1>6. Newest'
    <2>1. ASSUME NEW n \in Masters PROVE Unserved(n)' <=> Unserved(n)
        BY <1>1, <1>2 DEF Unserved, LinkIs
    <2>. QED
        BY <1>1, <2>1 DEF Newest
<1>7. NothingNew
    BY <1>2, ReqsAreRequests, NothingNewOn DEF NoLink
<1>. QED
    BY <1>3, <1>4, <1>5, <1>6, <1>7

(* What is left of a connection that goes silent.                            *)
LEMMA KilledLink ==
    ASSUME NEW l \in LinkState
    PROVE  /\ Killed(l) \in LinkState
           /\ l.state = "open" => Killed(l) = [state |-> "dead", req |-> <<>>, answer |-> FALSE]
           /\ l.state # "open" => Killed(l) = l
<1>1. [NoLink EXCEPT !.state = "dead"] = [state |-> "dead", req |-> <<>>, answer |-> FALSE]
    <2>1. [NoLink EXCEPT !.state = "dead"] = [state |-> "dead", req |-> NoLink.req, answer |-> NoLink.answer]
        BY NoLinkState, LinkFields
    <2>2. NoLink.req = <<>> /\ NoLink.answer = FALSE
        BY DEF NoLink
    <2>. QED
        BY <2>1, <2>2, Zenon
<1>2. [state |-> "dead", req |-> <<>>, answer |-> FALSE] \in LinkState
    BY LinkStates, ReqsAreRequests
<1>. QED
    BY <1>1, <1>2 DEF Killed

(* A connection goes silent; a request that is on it is missed.              *)
LEMMA CutKeeps ==
    ASSUME IInv, NEW m \in Masters, Cut(m)
    PROVE  IInv' /\ NothingNew
<1>. USE DEF IInv
<1>1. PICK c \in Conns : c = conn[m]
    BY DEF Cut, DarpTypeOK
<1>2. /\ UNCHANGED <<status, queue, client, msg, conn, view>>
      /\ link' = [link EXCEPT ![m][c] = Killed(link[m][c])]
      /\ missed' = [missed EXCEPT ![m] = @ \/ link[m][c].req # <<>>]
    BY <1>1 DEF Cut, clientVars, serverVars, DarpTypeOK
<1>3. link[m][c] \in LinkState /\ LinkOK(m, c)
    BY DEF DarpTypeOK, Connections
<1>4. PICK l \in LinkState : l = Killed(link[m][c])
    BY <1>3, KilledLink
<1>5. LinkIs(m, c, l)
    BY <1>2, <1>4, LinkUpdate
<1>6. /\ missed'[m] <=> missed[m] \/ link[m][c].req # <<>>
      /\ \A n \in Masters : n # m => missed'[n] = missed[n]
      /\ missed' \in [Masters -> BOOLEAN]
    BY <1>2 DEF DarpTypeOK
<1>7. /\ l.state = "dead" /\ ~l.answer
      /\ l.req # <<>> => l.req = link[m][c].req
    BY <1>1, <1>3, <1>4, KilledLink DEF LinkOK
<1>8. DarpTypeOK'
    BY <1>2, <1>5, <1>6 DEF DarpTypeOK, LinkIs
<1>9. Dialing'
    BY <1>2 DEF Dialing
<1>10. Connections'
    <2>1. LinkOK(m, c)'
        BY <1>1, <1>2, <1>3, <1>5, <1>7 DEF LinkOK, LinkIs
    <2>. QED
        BY <1>2, <1>5, <1>6, <2>1, LinksKept
<1>11. Newest'
    <2>1. ASSUME NEW n \in Masters, n # m PROVE Unserved(n)' <=> Unserved(n)
        BY <1>2, <1>5, <2>1 DEF Unserved, LinkIs
    <2>2. ~missed'[m] => ~missed[m] /\ ~Unserved(m) /\ ~Unserved(m)'
        BY <1>1, <1>2, <1>5, <1>6, <1>7 DEF Unserved, LinkIs
    <2>. QED
        BY <1>2, <1>6, <2>1, <2>2 DEF Newest
<1>12. NothingNew
    BY <1>5, <1>7, NothingNewOn DEF Carries
<1>. QED
    BY <1>8, <1>9, <1>10, <1>11, <1>12

(* The slave is switched off: every connection is silent, all reports that   *)
(* were not served are missed.                                               *)
LEMMA StopKeeps ==
    ASSUME IInv, Stop
    PROVE  IInv' /\ NothingNew
<1>. USE DEF IInv
<1>1. /\ UNCHANGED <<status, msg, view>> /\ missed' = [m \in Masters |-> TRUE]
      /\ queue' = [m \in Masters |-> <<>>] /\ conn' = [m \in Masters |-> 0]
      /\ client' = [m \in Masters |-> "dial"]
    BY DEF Stop, serverVars
<1>2. ASSUME NEW m \in Masters, NEW c \in Conns
      PROVE  link'[m][c] = Killed(link[m][c]) /\ link[m][c] \in LinkState /\ LinkOK(m, c)
    BY DEF Stop, DarpTypeOK, Connections
<1>3. link' \in [Masters -> [Conns -> LinkState]]
    BY <1>2, KilledLink DEF Stop
<1>4. DarpTypeOK'
    BY <1>1, <1>3 DEF DarpTypeOK
<1>5. Dialing'
    BY <1>1 DEF Dialing
<1>6. Connections'
    <2>1. ASSUME NEW m \in Masters, NEW c \in Conns PROVE LinkOK(m, c)'
        <3>1. PICK l \in LinkState : l = link[m][c]
            BY <1>2
        <3>2. CASE l.state = "open"
            BY <1>1, <1>2, <3>1, <3>2, KilledLink, ConnsAreNumbers DEF LinkOK
        <3>3. CASE l.state # "open"
            BY <1>1, <1>2, <3>1, <3>3, KilledLink, ConnsAreNumbers DEF LinkOK
        <3>. QED
            BY <3>2, <3>3
    <2>. QED
        BY <2>1 DEF Connections
<1>7. Newest'
    BY <1>1 DEF Newest
<1>8. NothingNew
    <2>1. ASSUME NEW m \in Masters, NEW c \in Conns, NEW st \in Statuses, Carries(m, c, st)'
          PROVE  Carries(m, c, st)
        <3>1. PICK l \in LinkState : l = link[m][c]
            BY <1>2
        <3>. QED
            BY <1>2, <2>1, <3>1, KilledLink DEF Carries
    <2>. QED
        BY <2>1 DEF NothingNew
<1>. QED
    BY <1>4, <1>5, <1>6, <1>7, <1>8
-----------------------------------------------------------------------------
(* Every step keeps the invariant.                                           *)
LEMMA NextInvariant == IInv /\ [Next]_vars => IInv'
<1>. SUFFICES ASSUME IInv, [Next]_vars PROVE IInv'
    OBVIOUS
<1>1. ASSUME NEW st \in Statuses, SendUpdate(st) PROVE IInv'
    BY <1>1, SendUpdateKeeps
<1>2. ASSUME NEW m \in Masters, ClientStep(m) PROVE IInv'
    BY <1>2, ReconnectKeeps, AskingKeeps, SendQueuedKeeps, AnsweredKeeps, GetFailsKeeps DEF ClientStep, GiveUp
<1>3. ASSUME NEW m \in Masters, ServerStep(m) PROVE IInv'
    BY <1>3, ServeKeeps, DiscoKeeps DEF ServerStep
<1>4. ASSUME NEW m \in Masters, Silence(m) PROVE IInv'
    BY <1>4 DEF Silence, vars, clientVars, serverVars, IInv, DarpTypeOK, Dialing, Connections,
                LinkOK, Newest, Unserved
<1>5. ASSUME NEW m \in Masters, Break(m) \/ Cut(m) PROVE IInv'
    BY <1>5, GetFailsKeeps, CutKeeps DEF Break
<1>6. CASE Stop
    BY <1>6, StopKeeps
<1>7. CASE UNCHANGED vars
    BY <1>7 DEF vars, clientVars, serverVars, IInv, DarpTypeOK, Dialing, Connections,
                LinkOK, Newest, Unserved
<1>. QED
    BY <1>1, <1>2, <1>3, <1>4, <1>5, <1>6, <1>7 DEF Next

(* So it always holds.                                                       *)
LEMMA SpecInvariant == Spec => []IInv
BY InitInvariant, NextInvariant, PTL DEF Spec

(* TellMyMasters, client.run and api.Server: a master that has served all    *)
(* there is has the status of the slave, for every number of masters, every  *)
(* queue and whatever connections break, unless an update was dropped from a *)
(* full queue or its request failed.                                         *)
THEOREM MastersAgree == Spec => []AgreedWhenQuiet
<1>1. IInv => AgreedWhenQuiet
    <2>. SUFFICES ASSUME IInv, NEW m \in Masters, ~missed[m], queue[m] = <<>>,
                         client[m] \in {"idle", "fetch", "dial"}
                  PROVE  view[m] = status
        BY DEF AgreedWhenQuiet
    <2>1. ~Unserved(m)
        BY DEF IInv, Connections, LinkOK, Unserved
    <2>. QED
        BY <2>1 DEF IInv, Newest
<1>. QED
    BY <1>1, SpecInvariant, PTL

-----------------------------------------------------------------------------
(* What a master may still be served of a status (module Feed): the          *)
(* connections that hold it and its places in the queue.                     *)
Held(m, st) == {c \in Conns : Carries(m, c, st)}
Places(m, st) == {k \in DOMAIN queue[m] : queue[m][k] = st}

(* They are finitely many, in this state and the next.                       *)
Counts ==
    \A m \in Masters, st \in Statuses :
        /\ IsFiniteSet(Held(m, st)) /\ Cardinality(Held(m, st)) \in Nat
        /\ IsFiniteSet(Places(m, st)) /\ Cardinality(Places(m, st)) \in Nat
        /\ Carried(m, st) = Cardinality(Held(m, st)) + Cardinality(Places(m, st))
        /\ Carried(m, st) \in Nat

(* The counts of module Darp are counts of finite sets, so they add up.      *)
LEMMA CarriedCounts == DarpTypeOK => Counts
<1>. SUFFICES ASSUME DarpTypeOK, NEW m \in Masters, NEW st \in Statuses
     PROVE  /\ IsFiniteSet(Held(m, st)) /\ Cardinality(Held(m, st)) \in Nat
            /\ IsFiniteSet(Places(m, st)) /\ Cardinality(Places(m, st)) \in Nat
            /\ Carried(m, st) = Cardinality(Held(m, st)) + Cardinality(Places(m, st))
            /\ Carried(m, st) \in Nat
    BY DEF Counts
<1>1. IsFiniteSet(Held(m, st))
    <2>1. Held(m, st) \subseteq Conns
        BY DEF Held
    <2>. QED
        BY <2>1, ConnsAreNumbers, FS_Subset
<1>2. IsFiniteSet(Places(m, st))
    <2>1. Places(m, st) \subseteq 1..Len(queue[m]) /\ Len(queue[m]) \in Nat
        BY DEF Places, DarpTypeOK
    <2>2. IsFiniteSet(1..Len(queue[m]))
        BY <2>1, FS_Interval
    <2>. QED
        BY <2>1, <2>2, FS_Subset
<1>3. Carried(m, st) = Cardinality(Held(m, st)) + Cardinality(Places(m, st))
    BY DEF Carried, Held, Places, Carries
<1>. QED
    BY <1>1, <1>2, <1>3, FS_CardinalityType

(* The same after a step.                                                    *)
LEMMA CarriedCountsNext == DarpTypeOK' => Counts'
BY CarriedCounts, PTL

(* A step after which no more of any status is carried loses some, or none.  *)
LEMMA LoseStep ==
    ASSUME DarpTypeOK, DarpTypeOK', UNCHANGED <<status, view>>,
           \A m \in Masters, st \in Statuses : Carried(m, st)' <= Carried(m, st)
    PROVE  [F!FeedNext]_F!feedVars
<1>1. \A m \in Masters, st \in Statuses : Carried(m, st)' \in Nat
    BY CarriedCountsNext DEF Counts
<1>2. F!Lose
    BY <1>1 DEF F!Lose
<1>. QED
    BY <1>2 DEF F!FeedNext

(* Smaller sets of places count less.                                        *)
LEMMA FewerCarried ==
    ASSUME DarpTypeOK, DarpTypeOK', NEW m \in Masters, NEW st \in Statuses,
           Held(m, st)' \subseteq Held(m, st), Places(m, st)' \subseteq Places(m, st)
    PROVE  Carried(m, st)' <= Carried(m, st)
<1>1. /\ Cardinality(Held(m, st)') <= Cardinality(Held(m, st))
      /\ Cardinality(Places(m, st)') <= Cardinality(Places(m, st))
    BY CarriedCounts, FS_Subset DEF Counts
<1>. QED
    BY <1>1, CarriedCounts, CarriedCountsNext DEF Counts

(* A step that adds to no queue and puts no update on a connection.          *)
LEMMA NothingSent ==
    ASSUME IInv, IInv', UNCHANGED <<status, view>>,
           \A m \in Masters : queue'[m] = queue[m] \/ queue'[m] = <<>>,
           NothingNew
    PROVE  [F!FeedNext]_F!feedVars
<1>1. ASSUME NEW m \in Masters, NEW st \in Statuses PROVE Carried(m, st)' <= Carried(m, st)
    <2>1. Held(m, st)' \subseteq Held(m, st)
        BY DEF Held, NothingNew
    <2>2. Places(m, st)' \subseteq Places(m, st)
        BY DEF Places
    <2>. QED
        BY <2>1, <2>2, FewerCarried DEF IInv
<1>. QED
    BY <1>1, LoseStep DEF IInv

(* Every step but those that send or serve an update.                        *)
LEMMA OtherStepsRefine ==
    ASSUME IInv, NEW m \in Masters,
           \/ Reconnect(m) \/ Fetch(m) \/ SendPing(m) \/ Answered(m) \/ GetFails(m)
           \/ \E c \in Conns : Disco(m, c)
           \/ Silence(m) \/ Cut(m)
    PROVE  [F!FeedNext]_F!feedVars
<1>1. IInv' /\ NothingNew
    <2>1. CASE Silence(m)
        BY <2>1, NextInvariant DEF Next, Silence, NothingNew, Carries
    <2>. QED
        BY <2>1, ReconnectKeeps, AskingKeeps, AnsweredKeeps, GetFailsKeeps, DiscoKeeps, CutKeeps
<1>2. UNCHANGED <<status, view>> /\ \A n \in Masters : queue'[n] = queue[n] \/ queue'[n] = <<>>
    BY DEF Reconnect, Fetch, SendPing, Request, Answered, GetFails, Resent, Disco, Silence, Cut,
           serverVars, clientVars, IInv, DarpTypeOK
<1>. QED
    BY <1>1, <1>2, NothingSent

(* The places of a status in a queue whose first entry is taken out: each    *)
(* is one less than it was.                                                  *)
LEMMA PlacesShift ==
    ASSUME DarpTypeOK, DarpTypeOK', NEW m \in Masters, NEW st \in Statuses, queue[m] # <<>>,
           queue'[m] = Tail(queue[m])
    PROVE  Cardinality(Places(m, st)') <= Cardinality(Places(m, st) \ {1})
<1>. DEFINE T == Places(m, st) \ {1}
            S == Places(m, st)'
            f == [k \in S |-> k + 1]
<1>1. queue[m] \in Seq(Statuses) /\ Len(queue[m]) \in Nat \ {0}
    BY FirstOut DEF DarpTypeOK
<1>2. S \subseteq 1..(Len(queue[m]) - 1)
    BY <1>1, FirstOut DEF Places
<1>3. ASSUME NEW k \in S PROVE k + 1 \in T
    <2>1. k \in 1..(Len(queue[m]) - 1) /\ Tail(queue[m])[k] = st
        BY <1>2 DEF Places
    <2>2. queue[m][k + 1] = st /\ k + 1 \in 1..Len(queue[m]) /\ k + 1 # 1
        BY <1>1, <2>1, FirstOut
    <2>. QED
        BY <1>1, <2>2 DEF Places
<1>4. f \in Injection(S, T)
    BY <1>2, <1>3 DEF Injection, IsInjective
<1>5. IsFiniteSet(T)
    BY CarriedCounts, FS_RemoveElement DEF Counts
<1>. QED
    BY <1>4, <1>5, FS_Injection

(* The first update of the queue goes to the connection, if it is alive.     *)
LEMMA SendQueuedRefines ==
    ASSUME IInv, NEW m \in Masters, SendQueued(m)
    PROVE  [F!FeedNext]_F!feedVars
<1>0. queue[m] \in Seq(Statuses) /\ queue[m] # <<>>
    BY DEF IInv, DarpTypeOK, SendQueued
<1>r. PICK r \in Statuses : r = queue[m][1]
    BY <1>0, FirstOut
<1>1. /\ DarpTypeOK /\ DarpTypeOK' /\ queue[m] # <<>>
      /\ OnlyNew(m, r) /\ queue' = [queue EXCEPT ![m] = Tail(queue[m])]
    BY <1>0, <1>r, SendQueuedKeeps DEF IInv
<1>2. UNCHANGED <<status, view>>
    BY DEF SendQueued, Request, serverVars
<1>3. queue'[m] = Tail(queue[m]) /\ \A n \in Masters : n # m => queue'[n] = queue[n]
    BY <1>1 DEF DarpTypeOK
<1>4. 1 \in Places(m, r)
    BY <1>0, <1>r, FirstOut DEF Places
<1>5. ASSUME NEW st \in Statuses, NEW n \in Masters PROVE Carried(n, st)' <= Carried(n, st)
    <2>1. CASE n # m
        BY <1>1, <1>3, <2>1, FewerCarried DEF OnlyNew, Held, Places
    <2>2. CASE n = m /\ st # r
        <3>1. Held(m, st)' \subseteq Held(m, st)
            BY <1>1, <2>2 DEF OnlyNew, Held
        <3>2. Cardinality(Held(m, st)') <= Cardinality(Held(m, st))
            BY <1>1, <3>1, CarriedCounts, FS_Subset DEF Counts
        <3>3. Cardinality(Places(m, st)') <= Cardinality(Places(m, st))
            <4>1. Cardinality(Places(m, st)') <= Cardinality(Places(m, st) \ {1})
                BY <1>1, <1>3, PlacesShift
            <4>2. Cardinality(Places(m, st) \ {1}) <= Cardinality(Places(m, st))
                BY <1>1, CarriedCounts, FS_Subset DEF Counts
            <4>3. Cardinality(Places(m, st) \ {1}) \in Nat /\ Cardinality(Places(m, st)) \in Nat
                BY <1>1, CarriedCounts, FS_RemoveElement, FS_CardinalityType DEF Counts
            <4>4. Cardinality(Places(m, st)') \in Nat
                BY <1>1, CarriedCountsNext DEF Counts
            <4>. QED
                BY <4>1, <4>2, <4>3, <4>4
        <3>. QED
            BY <1>1, <2>2, <3>2, <3>3, CarriedCounts, CarriedCountsNext DEF Counts
    <2>3. CASE n = m /\ st = r
        <3>1. Held(m, r)' \subseteq Held(m, r) \cup {conn[m]}
            BY <1>1, <2>3 DEF OnlyNew, Held
        <3>2. Cardinality(Held(m, r)') <= Cardinality(Held(m, r)) + 1
            <4>1. IsFiniteSet(Held(m, r)) /\ Cardinality(Held(m, r)) \in Nat
                BY <1>1, CarriedCounts DEF Counts
            <4>2. /\ IsFiniteSet(Held(m, r) \cup {conn[m]})
                  /\ Cardinality(Held(m, r) \cup {conn[m]}) \in {Cardinality(Held(m, r)), Cardinality(Held(m, r)) + 1}
                BY <4>1, FS_AddElement
            <4>3. Cardinality(Held(m, r)') <= Cardinality(Held(m, r) \cup {conn[m]})
                BY <3>1, <4>2, FS_Subset
            <4>4. Cardinality(Held(m, r)') \in Nat
                BY <1>1, CarriedCountsNext DEF Counts
            <4>. QED
                BY <4>1, <4>2, <4>3, <4>4
        <3>3. Cardinality(Places(m, r)') <= Cardinality(Places(m, r)) - 1
            <4>1. Cardinality(Places(m, r)') <= Cardinality(Places(m, r) \ {1})
                BY <1>1, <1>3, PlacesShift
            <4>2. Cardinality(Places(m, r) \ {1}) = Cardinality(Places(m, r)) - 1
                BY <1>1, <1>4, CarriedCounts, FS_RemoveElement DEF Counts
            <4>. QED
                BY <4>1, <4>2
        <3>. QED
            BY <1>1, <2>3, <3>2, <3>3, CarriedCounts, CarriedCountsNext DEF Counts
    <2>. QED
        BY <2>1, <2>2, <2>3
<1>. QED
    BY <1>1, <1>2, <1>5, LoseStep

(* A request that is served leaves its connection, and is all that leaves.   *)
LEMMA ServeRefines ==
    ASSUME IInv, NEW m \in Masters, NEW c \in Conns, Serve(m, c)
    PROVE  [F!FeedNext]_F!feedVars
<1>1. IInv' /\ DarpTypeOK /\ DarpTypeOK' /\ UNCHANGED <<status, queue>>
    BY ServeKeeps DEF IInv, Serve
<1>2. PICK l \in LinkState : l.req = <<>> /\ LinkIs(m, c, l)
    BY ServeKeeps
<1>3. NothingNew
    BY <1>2, NothingNewOn, ReqsAreRequests
<1>4. PICK r \in Statuses \cup {Ping} : link[m][c].req = <<r>>
    BY LinkTypes, ReqsAreRequests DEF Serve, IInv, DarpTypeOK
<1>5. view' = IF r = Ping THEN view ELSE [view EXCEPT ![m] = r]
    BY <1>4, ReqsAreRequests DEF Serve
<1>6. CASE r = Ping
    BY <1>1, <1>3, <1>5, <1>6, NothingSent
<1>7. CASE r # Ping
    <2>1. r \in Statuses /\ c \in Held(m, r)
        BY <1>4, <1>7 DEF Held, Carries, Serve
    <2>2. Held(m, r)' = Held(m, r) \ {c}
        <3>1. ~Carries(m, c, r)'
            BY <1>2, ReqsAreRequests DEF LinkIs, Carries
        <3>2. \A d \in Conns : d # c => (Carries(m, d, r)' <=> Carries(m, d, r))
            BY <1>2 DEF LinkIs, Carries
        <3>. QED
            BY <3>1, <3>2, Zenon DEF Held
    <2>3. Carried(m, r)' = Carried(m, r) - 1 /\ Carried(m, r) > 0
        <3>1. Cardinality(Held(m, r)') = Cardinality(Held(m, r)) - 1
            BY <1>1, <2>1, <2>2, CarriedCounts, FS_RemoveElement DEF Counts
        <3>2. Places(m, r)' = Places(m, r)
            BY <1>1 DEF Places
        <3>3. Cardinality(Held(m, r)') \in Nat
            BY <1>1, <2>1, CarriedCountsNext DEF Counts
        <3>. QED
            BY <1>1, <2>1, <3>1, <3>2, <3>3, CarriedCounts, CarriedCountsNext DEF Counts
    <2>4. ASSUME NEW n \in Masters, NEW st \in Statuses, n # m \/ st # r
          PROVE  Carried(n, st)' = Carried(n, st)
        <3>1. ASSUME NEW d \in Conns PROVE Carries(n, d, st)' <=> Carries(n, d, st)
            <4>1. CASE n = m /\ d = c
                BY <1>2, <1>4, <2>4, <4>1, ReqsAreRequests DEF LinkIs, Carries
            <4>2. CASE n # m \/ d # c
                BY <1>2, <4>2 DEF LinkIs, Carries
            <4>. QED
                BY <4>1, <4>2
        <3>2. Held(n, st)' = Held(n, st) /\ Places(n, st)' = Places(n, st)
            BY <1>1, <3>1 DEF Held, Places
        <3>. QED
            BY <1>1, <3>2, CarriedCounts, CarriedCountsNext DEF Counts
    <2>5. F!Leaves(m, r)
        BY <2>1, <2>3, <2>4 DEF F!Leaves
    <2>. QED
        BY <1>1, <1>5, <1>7, <2>1, <2>5 DEF F!Deliver, F!FeedNext
<1>. QED
    BY <1>6, <1>7

(* A report is on its way to every master whose queue had room.              *)
LEMMA SendUpdateRefines ==
    ASSUME IInv, NEW st \in Statuses, SendUpdate(st)
    PROVE  [F!FeedNext]_F!feedVars
<1>. DEFINE Lost == {m \in Masters : ~(Len(queue[m]) < QueueMax)}
<1>1. DarpTypeOK /\ DarpTypeOK' /\ UNCHANGED <<link, view>> /\ st # status /\ status' = st
    BY SendUpdateKeeps DEF IInv, SendUpdate, serverVars
<1>2. ASSUME NEW m \in Masters, NEW s \in Statuses, m \in Lost \/ s # st
      PROVE  Carried(m, s)' = Carried(m, s)
    <2>1. queue[m] \in Seq(Statuses) /\ queue'[m] = Queued(m, st)
        BY DEF SendUpdate, IInv, DarpTypeOK
    <2>2. Places(m, s)' = Places(m, s)
        <3>1. CASE m \in Lost
            BY <2>1, <3>1 DEF Places, Queued
        <3>2. CASE m \notin Lost /\ s # st
            BY <2>1, <3>2 DEF Places, Queued
        <3>. QED
            BY <1>2, <3>1, <3>2
    <2>3. Held(m, s)' = Held(m, s)
        BY <1>1 DEF Held, Carries
    <2>. QED
        BY <1>1, <2>2, <2>3, CarriedCounts, CarriedCountsNext DEF Counts
<1>3. ASSUME NEW m \in Masters, m \notin Lost PROVE Carried(m, st)' = Carried(m, st) + 1
    <2>1. queue[m] \in Seq(Statuses) /\ queue'[m] = Append(queue[m], st)
        BY <1>3 DEF SendUpdate, IInv, DarpTypeOK, Queued
    <2>. DEFINE k == Len(queue[m]) + 1
    <2>2. Places(m, st)' = Places(m, st) \cup {k} /\ k \notin Places(m, st)
        BY <2>1 DEF Places
    <2>3. Cardinality(Places(m, st)') = Cardinality(Places(m, st)) + 1
        BY <1>1, <2>2, CarriedCounts, FS_AddElement DEF Counts
    <2>4. Held(m, st)' = Held(m, st)
        BY <1>1 DEF Held, Carries
    <2>. QED
        BY <1>1, <2>3, <2>4, CarriedCounts, CarriedCountsNext DEF Counts
<1>4. F!Report(st, Lost)
    <2>. HIDE DEF Lost
    <2>. QED
        BY <1>1, <1>2, <1>3 DEF F!Report
<1>. QED
    BY <1>4 DEF F!FeedNext

(* The connections of a slave to its masters implement module Feed: an       *)
(* update is served at most once and none is made up, for every number of    *)
(* masters and connections and every length of the queue.                    *)
THEOREM UpdatesServedOnce == Spec => AtMostOnce
<1>1. Init => F!FeedInit
    <2>. SUFFICES ASSUME Init PROVE F!FeedInit
        OBVIOUS
    <2>1. ASSUME NEW m \in Masters, NEW st \in Statuses PROVE Carried(m, st) = 0
        <3>1. Held(m, st) = {} /\ Places(m, st) = {}
            BY DEF Init, Held, Carries, Places, NoLink
        <3>2. DarpTypeOK
            BY InitInvariant DEF IInv
        <3>. QED
            BY <3>1, <3>2, CarriedCounts, FS_EmptySet DEF Counts
    <2>. QED
        BY <2>1 DEF Init, F!FeedInit
<1>2. IInv /\ [Next]_vars => [F!FeedNext]_F!feedVars
    <2>. SUFFICES ASSUME IInv, [Next]_vars PROVE [F!FeedNext]_F!feedVars
        OBVIOUS
    <2>1. ASSUME NEW st \in Statuses, SendUpdate(st) PROVE [F!FeedNext]_F!feedVars
        BY <2>1, SendUpdateRefines
    <2>2. ASSUME NEW m \in Masters, ClientStep(m) PROVE [F!FeedNext]_F!feedVars
        BY <2>2, SendQueuedRefines, OtherStepsRefine DEF ClientStep, GiveUp
    <2>3. ASSUME NEW m \in Masters, ServerStep(m) PROVE [F!FeedNext]_F!feedVars
        BY <2>3, ServeRefines, OtherStepsRefine DEF ServerStep
    <2>4. ASSUME NEW m \in Masters, Silence(m) \/ Break(m) \/ Cut(m) PROVE [F!FeedNext]_F!feedVars
        BY <2>4, OtherStepsRefine DEF Break
    <2>5. CASE Stop
        BY <2>5, StopKeeps, NothingSent DEF Stop, serverVars
    <2>6. CASE UNCHANGED vars
        BY <2>6 DEF vars, serverVars, F!feedVars, Carried
    <2>. QED
        BY <2>1, <2>2, <2>3, <2>4, <2>5, <2>6 DEF Next
<1>. QED
    BY <1>1, <1>2, SpecInvariant, PTL DEF Spec, AtMostOnce, F!FeedSpec
=============================================================================
