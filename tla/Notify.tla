------------------------------- MODULE Notify -------------------------------
(* Notifications, package notify: notify.go, new.go, queues.go, ack.go and   *)
(* persist.go, with the monel that owns the notifications and the files they *)
(* are kept in.                                                              *)
(*                                                                           *)
(* A single worker goroutine reads `notechan', decides what to send where,   *)
(* and transmits; it holds the package lock in all its states but "idle" and *)
(* "ready".  The monel creates and updates notifications under its own lock, *)
(* and users acknowledge them under the notification's lock only.  A section *)
(* that holds a notification's lock is one step here.                        *)
(*                                                                           *)
(* An operator named Bug... is a mistake a later edit could make; the model  *)
(* does not use it, it is there to show that a property would fail.          *)
EXTENDS Integers, Sequences, FiniteSets, SequencesExt

CONSTANTS
    Ids,            \* BOUND: 1..n, the notification numbers
    Dests,          \* the destinations
    Routable,       \* those for which methodForDst finds a method
    None,
    SendTo,         \* the send table: a sequence of [when, dst] steps
    Renotify, UnAckTimeout, Discard, Qtime,
    AutoAck, AckOnUp, AckOnBetter, AckOnWorse, \* statuses; UNKNOWN means "any"
    NewStatuses,    \* statuses a notification is created for
    Statuses,       \* statuses reported later
    ChanCap,        \* capacity of notechan
    StartTime, Horizon, Step,         \* BOUND: the clock, and how far it moves at a time
    MaxAcks, MaxUpdates, MaxPersists, MaxStops, MaxCrashes \* BOUND: how often

UNKNOWN  == 0
CLEAR    == 1
CRITICAL == 5

StatusName == {"", "queued", "sent", "acked"}

(* Who saves notifications without their locks: M.persist and Stop.          *)
Savers == {"persist", "stop"}

Note == [active  : BOOLEAN, ov : NewStatuses, curr : Statuses \cup NewStatuses,
         created : Nat, step : 0..Len(SendTo), last : [DOMAIN SendTo -> Nat],
         status  : [Dests -> StatusName]]

ASSUME NotifyAssumption ==
    /\ Cardinality(Ids) \in Nat /\ Ids = 1..Cardinality(Ids)
    /\ None \notin Ids \cup Dests /\ None \notin Note /\ None \notin Ids \X Note
    /\ Routable \subseteq Dests
    /\ SendTo \in Seq([when : Nat, dst : SUBSET Dests]) /\ SendTo # <<>>
    /\ NewStatuses \subseteq 1..CRITICAL
    /\ Statuses \subseteq 0..7
    /\ {Renotify, UnAckTimeout, Discard, ChanCap, StartTime, Step, Horizon} \subseteq Nat
    /\ Qtime \in [Dests -> Nat]
    /\ StartTime > 0 /\ StartTime <= Horizon /\ Step > 0

VARIABLES
    now,
    note,       \* the N objects in memory (None if there is none)
    byid, actives, \* the package's two maps
    queue, lastt,  \* dstQueue: what is queued per destination, last transmit
    notechan,
    wpc,        \* worker: "idle", "ready", "maint", "queues", "send", "mark"
    clk,        \* the clock it read when it began the loop, 0 outside of one
    todo,       \* what is left of the loop the worker is in
    batch, dest, \* what it is transmitting, and where
    owned,      \* M.Notifies of the monel
    outbox,     \* notifications the monel is sending on notechan
    alloc,      \* the number nextIdNo returned to a New in progress
    removing,   \* RemoveNotify goroutines started by discard
    saving,     \* per saver, the save it has begun: <<id, contents>>
    persisting, \* M.persist is running
    stopping,   \* Stop is running; it holds the package lock for reading
    toSave,     \* per saver, notifications it has still to save
    ackOf,      \* the notification a user's ack has looked up
    file,       \* DISK: the notification files
    notno,      \* DISK: the last number given out
    listed,     \* DISK: the numbers in the monel's own file
    up, loading, \* running; notifications Restore has still to load
    acked,      \* HISTORY: notifications whose ack has returned
    raced,      \* HISTORY: acked while the monel or Stop was saving them
    sent,       \* HISTORY: <<id, destination>> handed to a method
    acks, updates, persists, stops, crashes \* BOUND

memory == <<note, byid, actives>>
sendq  == <<queue, lastt>>
worker == <<wpc, clk, todo, batch, dest>>
persist == <<saving, persisting, stopping, toSave>>
monel  == <<owned, outbox, alloc, removing, persist>>
disk   == <<file, notno, listed>>
boot   == <<up, loading>>
history == <<acked, raced, sent>>
bounds == <<acks, updates, persists, stops, crashes>>
vars == <<now, memory, sendq, notechan, worker, monel, ackOf, disk, boot, history, bounds>>

----------------------------------------------------------------------------
(* ack.go.  ack() writes the file before it marks the destinations.          *)
BugAckedActive(n) == [n EXCEPT !.status = [d \in Dests |-> "acked"]]

Acked(n) == [n EXCEPT !.active = FALSE,
                      !.status = [d \in Dests |-> IF @[d] = "" THEN "" ELSE "acked"]]

BugAckFileStale(n) == n

AckedFile(n) == [n EXCEPT !.active = FALSE]

BeingSaved(id) == \E s \in Savers : saving[s] # None /\ saving[s][1] = id

ack(id) ==
    /\ note' = [note EXCEPT ![id] = Acked(@)]
    /\ actives' = actives \ {id}
    /\ file' = [file EXCEPT ![id] = AckedFile(note[id])]
    /\ acked' = acked \cup {id}
    /\ raced' = IF BeingSaved(id) THEN raced \cup {id} ELSE raced

Covers(set, status) == status \in set \/ UNKNOWN \in set

(* maybeAck: acked by a later status.                                        *)
AckedByStatus(n) ==
    \/ n.curr = CLEAR /\ Covers(AckOnUp, n.ov)
    \/ n.curr > n.ov /\ Covers(AckOnWorse, n.ov)
    \/ n.curr < n.ov /\ Covers(AckOnBetter, n.ov)
----------------------------------------------------------------------------
(* maybeQueue: take the next step of the send table when its time has come,  *)
(* and repeat the steps taken before that are due again.                     *)
NextStepDue(n) == n.step < Len(SendTo) /\ SendTo[n.step + 1].when + n.created <= now

StepsTaken(n) == IF NextStepDue(n) THEN n.step + 1 ELSE n.step

BugRepeatsAlways(n) == {i \in 1..n.step : n.last[i] # 0 /\ n.last[i] + Renotify <= now}

Repeats(n) ==
    {i \in 1..n.step : Renotify # 0 /\ n.last[i] # 0 /\ n.last[i] + Renotify <= now}

StepsQueued(n) == Repeats(n) \cup ((n.step + 1)..StepsTaken(n))

TimesQueued(n, d) == Cardinality({i \in StepsQueued(n) : d \in SendTo[i].dst \cap Routable})

Queued(n) ==
    [n EXCEPT !.step = StepsTaken(n),
              !.last = [i \in DOMAIN SendTo |-> IF i \in StepsQueued(n) THEN now ELSE @[i]],
              !.status = [d \in Dests |-> IF TimesQueued(n, d) > 0 THEN "queued" ELSE @[d]]]

maybeQueue(id) ==
    IF note[id].active
    THEN /\ note' = [note EXCEPT ![id] = Queued(@)]
         /\ queue' = [d \in Dests |->
                         queue[d] \o [i \in 1..TimesQueued(note[id], d) |-> id]]
    ELSE UNCHANGED <<note, queue>>
----------------------------------------------------------------------------
Init ==
    /\ now = StartTime
    /\ note = [id \in Ids |-> None]
    /\ byid = {} /\ actives = {}
    /\ queue = [d \in Dests |-> <<>>]
    /\ lastt = [d \in Dests |-> 0]
    /\ notechan = <<>>
    /\ wpc = "idle" /\ clk = 0 /\ todo = {} /\ batch = <<>> /\ dest = None
    /\ owned = {} /\ outbox = None /\ alloc = None /\ removing = {}
    /\ saving = [s \in Savers |-> None] /\ toSave = [s \in Savers |-> {}]
    /\ persisting = FALSE /\ stopping = FALSE /\ ackOf = None
    /\ file = [id \in Ids |-> None]
    /\ notno = 0 /\ listed = {}
    /\ up = TRUE /\ loading = {}
    /\ acked = {} /\ raced = {} /\ sent = {}
    /\ acks = 0 /\ updates = 0 /\ persists = 0 /\ stops = 0 /\ crashes = 0

Tick ==
    /\ now + Step <= Horizon
    /\ now' = now + Step
    /\ UNCHANGED <<memory, sendq, notechan, worker, monel, ackOf, disk, boot, history, bounds>>

(* The monel does one thing at a time, under its lock.                       *)
MonelFree ==
    /\ up /\ loading = {}
    /\ outbox = None /\ alloc = None /\ ~persisting

(* The package lock can be had for reading, and for writing.                 *)
Readable == wpc \in {"idle", "ready"}

Unlocked == Readable /\ ~stopping

(* New: nextIdNo takes the package lock, so it waits for the worker.         *)
BugNotnoUnsaved == notno

NotnoSaved == notno + 1

NewId ==
    /\ MonelFree
    /\ Unlocked
    /\ notno + 1 \in Ids
    /\ alloc' = notno + 1
    /\ notno' = NotnoSaved
    /\ UNCHANGED <<now, memory, sendq, notechan, worker, owned, outbox, removing, persist,
                   ackOf, file, listed, boot, history, bounds>>

NewNote(st) ==
    /\ up /\ alloc # None
    /\ LET n == [active |-> TRUE, ov |-> st, curr |-> st, created |-> now, step |-> 0,
                 last |-> [i \in DOMAIN SendTo |-> 0], status |-> [d \in Dests |-> ""]]
       IN  /\ note' = [note EXCEPT ![alloc] = n]
           /\ file' = [file EXCEPT ![alloc] = n]
    /\ outbox' = alloc
    /\ alloc' = None
    /\ UNCHANGED <<now, byid, actives, sendq, notechan, worker, owned, removing, persist,
                   ackOf, notno, listed, boot, history, bounds>>

(* Update: the status of an active notification's monel has changed.         *)
Update(id, st) ==
    /\ MonelFree
    /\ updates < MaxUpdates
    /\ updates' = updates + 1
    /\ id \in owned
    /\ note[id].active
    /\ note' = [note EXCEPT ![id].curr = st]
    /\ outbox' = id
    /\ UNCHANGED <<now, byid, actives, sendq, notechan, worker, owned, alloc, removing,
                   persist, ackOf, disk, boot, history, acks, persists, stops, crashes>>

(* The send on notechan that ends New, Update and Load; the monel then has   *)
(* the notification on its list.                                             *)
SendNote ==
    /\ up /\ outbox # None
    /\ Len(notechan) < ChanCap
    /\ notechan' = Append(notechan, outbox)
    /\ owned' = owned \cup {outbox}
    /\ outbox' = None
    /\ UNCHANGED <<now, memory, sendq, worker, alloc, removing, persist, ackOf, disk,
                   boot, history, bounds>>

RemoveNotify(id) ==
    /\ MonelFree
    /\ id \in removing
    /\ removing' = removing \ {id}
    /\ owned' = owned \ {id}
    /\ UNCHANGED <<now, memory, sendq, notechan, worker, outbox, alloc, persist, ackOf,
                   disk, boot, history, bounds>>
----------------------------------------------------------------------------
(* The worker.                                                               *)
Work ==
    /\ up /\ wpc = "idle" /\ ~stopping /\ notechan # <<>>
    /\ notechan' = Tail(notechan)
    /\ LET id == Head(notechan)
       IN  \/ /\ id \notin byid                       \* new
              /\ byid' = byid \cup {id}
              /\ actives' = IF note[id].active THEN actives \cup {id} ELSE actives
              /\ maybeQueue(id)
              /\ UNCHANGED <<file, history>>
           \/ /\ id \in byid                          \* statusChange
              /\ note[id].active /\ AckedByStatus(note[id])
              /\ ack(id)
              /\ UNCHANGED <<byid, queue, sent>>
           \/ /\ id \in byid
              /\ ~(note[id].active /\ AckedByStatus(note[id]))
              /\ UNCHANGED <<memory, queue, file, history>>
    /\ wpc' = "ready"
    /\ UNCHANGED <<now, lastt, clk, todo, batch, dest, monel, ackOf, notno, listed, boot, bounds>>

(* notifMaintenance, on a tick: one loop over actives, one over byid.        *)
BeginMaintenance ==
    /\ up /\ wpc = "idle" /\ ~stopping
    /\ wpc' = "maint" /\ clk' = now /\ todo' = actives
    /\ UNCHANGED <<now, memory, sendq, notechan, batch, dest, monel, ackOf, disk, boot,
                   history, bounds>>

BugTimedOutLast(n) ==
    UnAckTimeout > 0 /\ n.created + UnAckTimeout < n.last[1]

TimedOut(n) == UnAckTimeout > 0 /\ n.created + UnAckTimeout < clk

MaintainNote(id) ==
    /\ up /\ wpc = "maint" /\ id \in todo
    /\ todo' = todo \ {id}
    /\ \/ /\ TimedOut(note[id])
          /\ ack(id)
          /\ UNCHANGED <<queue, sent>>
       \/ /\ ~TimedOut(note[id])
          /\ maybeQueue(id)
          /\ UNCHANGED <<actives, file, history>>
    /\ UNCHANGED <<now, byid, lastt, notechan, wpc, clk, batch, dest, monel, ackOf, notno, listed,
                   boot, bounds>>

Old == {id \in byid : Discard > 0 /\ note[id].created + Discard < clk}

BugDiscardInline ==
    /\ up /\ wpc = "maint" /\ todo = {}
    /\ MonelFree    \* discard takes the lock of the monel before it looks for any
    /\ byid' = byid \ Old
    /\ actives' = actives \ Old
    /\ owned' = owned \ Old
    /\ wpc' = "ready" /\ clk' = 0
    /\ UNCHANGED <<now, note, sendq, notechan, todo, batch, dest, outbox, alloc, removing,
                   persist, ackOf, disk, boot, history, bounds>>

DiscardOld ==
    /\ up /\ wpc = "maint" /\ todo = {}
    /\ byid' = byid \ Old
    /\ actives' = actives \ Old
    /\ removing' = removing \cup Old
    /\ wpc' = "ready" /\ clk' = 0
    /\ UNCHANGED <<now, note, sendq, notechan, todo, batch, dest, owned, outbox, alloc, persist,
                   ackOf, disk, boot, history, bounds>>

(* runQueues: the destinations in map order.                                 *)
BeginQueues ==
    /\ up /\ wpc = "ready" /\ ~stopping
    /\ wpc' = "queues" /\ clk' = now /\ todo' = Dests
    /\ UNCHANGED <<now, memory, sendq, notechan, batch, dest, monel, ackOf, disk, boot,
                   history, bounds>>

BugStillActive(d) == queue[d]

StillActive(d) ==
    LET kept[i \in 0..Len(queue[d])] ==
            IF i = 0 THEN <<>>
            ELSE IF note[queue[d][i]].active THEN Append(kept[i - 1], queue[d][i])
            ELSE kept[i - 1]
    IN  kept[Len(queue[d])]

Ripe(d) == queue[d] # <<>> /\ lastt[d] + Qtime[d] <= clk

SkipDest(d) ==
    /\ up /\ wpc = "queues" /\ d \in todo
    /\ ~Ripe(d)
    /\ todo' = todo \ {d}
    /\ UNCHANGED <<now, memory, sendq, notechan, wpc, clk, batch, dest, monel, ackOf, disk, boot,
                   history, bounds>>

(* Nothing active is queued for this destination: the code returns from      *)
(* runQueues, and leaves the queue as it is.                                 *)
GiveUp(d) ==
    /\ up /\ wpc = "queues" /\ d \in todo
    /\ Ripe(d) /\ StillActive(d) = <<>>
    /\ wpc' = "idle" /\ clk' = 0 /\ todo' = {}
    /\ UNCHANGED <<now, memory, sendq, notechan, batch, dest, monel, ackOf, disk, boot,
                   history, bounds>>

BugTakeInOrder(d) ==
    /\ LET first == CHOOSE x \in Dests : TRUE IN d = first \/ first \notin todo
    /\ up /\ wpc = "queues" /\ d \in todo
    /\ Ripe(d) /\ StillActive(d) # <<>>
    /\ batch' = StillActive(d) /\ dest' = d
    /\ queue' = [queue EXCEPT ![d] = <<>>]
    /\ lastt' = [lastt EXCEPT ![d] = clk]
    /\ wpc' = "send"
    /\ UNCHANGED <<now, memory, notechan, clk, todo, monel, ackOf, disk, boot, history, bounds>>

TakeQueue(d) ==
    /\ up /\ wpc = "queues" /\ d \in todo
    /\ Ripe(d) /\ StillActive(d) # <<>>
    /\ batch' = StillActive(d) /\ dest' = d
    /\ queue' = [queue EXCEPT ![d] = <<>>]
    /\ lastt' = [lastt EXCEPT ![d] = clk]
    /\ wpc' = "send"
    /\ UNCHANGED <<now, memory, notechan, clk, todo, monel, ackOf, disk, boot, history, bounds>>

Transmit ==
    /\ up /\ wpc = "send"
    /\ sent' = sent \cup {<<batch[i], dest>> : i \in DOMAIN batch}
    /\ wpc' = "mark"
    /\ UNCHANGED <<now, memory, sendq, notechan, clk, todo, batch, dest, monel, ackOf, disk, boot,
                   acked, raced, bounds>>

(* Mark the next notification of the batch sent, then maybeAutoAck.          *)
MarkSent ==
    /\ up /\ wpc = "mark" /\ batch # <<>>
    /\ batch' = Tail(batch)
    /\ LET id == Head(batch)
           n  == [note[id] EXCEPT !.status[dest] = "sent"]
       IN  \/ /\ Covers(AutoAck, n.ov)
              /\ note' = [note EXCEPT ![id] = Acked(n)]
              /\ actives' = actives \ {id}
              /\ file' = [file EXCEPT ![id] = AckedFile(n)]
              /\ acked' = acked \cup {id}
              /\ raced' = IF BeingSaved(id) THEN raced \cup {id} ELSE raced
           \/ /\ ~Covers(AutoAck, n.ov)
              /\ note' = [note EXCEPT ![id] = n]
              /\ UNCHANGED <<actives, file, acked, raced>>
    /\ UNCHANGED <<now, byid, sendq, notechan, wpc, clk, todo, dest, monel, ackOf, notno, listed,
                   boot, sent, bounds>>

DoneDest ==
    /\ up /\ wpc = "mark" /\ batch = <<>>
    /\ wpc' = "queues" /\ todo' = todo \ {dest} /\ dest' = None
    /\ UNCHANGED <<now, memory, sendq, notechan, clk, batch, monel, ackOf, disk, boot, history,
                   bounds>>

DoneQueues ==
    /\ up /\ wpc = "queues" /\ todo = {}
    /\ wpc' = "idle" /\ clk' = 0
    /\ UNCHANGED <<now, memory, sendq, notechan, todo, batch, dest, monel, ackOf, disk, boot,
                   history, bounds>>
----------------------------------------------------------------------------
(* webAck and apiAck: look the number up under the package lock, release it, *)
(* then ack under the notification's lock only.                              *)
LookUp(id) ==
    /\ up /\ Readable /\ ackOf = None
    /\ acks < MaxAcks
    /\ acks' = acks + 1
    /\ id \in byid
    /\ ackOf' = id
    /\ UNCHANGED <<now, memory, sendq, notechan, worker, monel, disk, boot, history,
                   updates, persists, stops, crashes>>

UserAck(id) ==
    /\ up /\ ackOf = id
    /\ ackOf' = None
    /\ ack(id)
    /\ UNCHANGED <<now, byid, sendq, notechan, worker, monel, notno, listed, boot, sent, bounds>>

(* M.persist saves every notification on its list, then the list.  It holds  *)
(* the monel's lock, not the notification's; Save marshals the notification, *)
(* and then writes a temporary file and renames it.                          *)
BeginPersist ==
    /\ MonelFree
    /\ persists < MaxPersists
    /\ persists' = persists + 1
    /\ persisting' = TRUE
    /\ toSave' = [toSave EXCEPT !["persist"] = owned]
    /\ UNCHANGED <<now, memory, sendq, notechan, worker, owned, outbox, alloc, removing, saving,
                   stopping, ackOf, disk, boot, history, acks, updates, stops, crashes>>

SaveNote(s, id) ==
    /\ up /\ saving[s] = None /\ id \in toSave[s]
    /\ saving' = [saving EXCEPT ![s] = <<id, note[id]>>]
    /\ toSave' = [toSave EXCEPT ![s] = @ \ {id}]
    /\ UNCHANGED <<now, memory, sendq, notechan, worker, owned, outbox, alloc, removing,
                   persisting, stopping, ackOf, disk, boot, history, bounds>>

SaveRename(s) ==
    /\ up /\ saving[s] # None
    /\ file' = [file EXCEPT ![saving[s][1]] = saving[s][2]]
    /\ saving' = [saving EXCEPT ![s] = None]
    /\ UNCHANGED <<now, memory, sendq, notechan, worker, owned, outbox, alloc, removing,
                   persisting, stopping, toSave, ackOf, notno, listed, boot, history, bounds>>

EndPersist ==
    /\ up /\ persisting /\ saving["persist"] = None /\ toSave["persist"] = {}
    /\ persisting' = FALSE
    /\ listed' = owned
    /\ UNCHANGED <<now, memory, sendq, notechan, worker, owned, outbox, alloc, removing, saving,
                   stopping, toSave, ackOf, file, notno, boot, history, bounds>>

(* Stop, when the program is asked to end: every registered notification is  *)
(* saved, under the package lock and not the notification's.  The servers go *)
(* on, so users may acknowledge meanwhile; the worker may not.               *)
Stop ==
    /\ up /\ Unlocked
    /\ stops < MaxStops
    /\ stops' = stops + 1
    /\ stopping' = TRUE
    /\ toSave' = [toSave EXCEPT !["stop"] = byid]
    /\ UNCHANGED <<now, memory, sendq, notechan, worker, owned, outbox, alloc, removing, saving,
                   persisting, ackOf, disk, boot, history, acks, updates, persists, crashes>>

EndStop ==
    /\ up /\ stopping /\ saving["stop"] = None /\ toSave["stop"] = {}
    /\ stopping' = FALSE
    /\ UNCHANGED <<now, memory, sendq, notechan, worker, owned, outbox, alloc, removing, saving,
                   persisting, toSave, ackOf, disk, boot, history, bounds>>

(* cleanOldFiles removes a file whose number is not in byid.                 *)
Janitor(id) ==
    /\ up /\ file[id] # None /\ id \notin byid
    /\ file' = [file EXCEPT ![id] = None]
    /\ UNCHANGED <<now, memory, sendq, notechan, worker, monel, ackOf, notno, listed, boot,
                   history, bounds>>
----------------------------------------------------------------------------
(* The process stops, at any moment, and is started again: Restore loads the *)
(* notifications on the monel's list whose files it can read.                *)
Crash ==
    /\ up /\ crashes < MaxCrashes
    /\ crashes' = crashes + 1
    /\ up' = FALSE
    /\ note' = [id \in Ids |-> None]
    /\ byid' = {} /\ actives' = {}
    /\ queue' = [d \in Dests |-> <<>>] /\ lastt' = [d \in Dests |-> 0]
    /\ notechan' = <<>>
    /\ wpc' = "idle" /\ clk' = 0 /\ todo' = {} /\ batch' = <<>> /\ dest' = None
    /\ owned' = {} /\ outbox' = None /\ alloc' = None /\ removing' = {}
    /\ saving' = [s \in Savers |-> None] /\ toSave' = [s \in Savers |-> {}]
    /\ persisting' = FALSE /\ stopping' = FALSE /\ ackOf' = None
    /\ loading' = {}
    /\ UNCHANGED <<now, disk, history, acks, updates, persists, stops>>

Restart ==
    /\ ~up
    /\ up' = TRUE
    /\ loading' = listed
    /\ UNCHANGED <<now, memory, sendq, notechan, worker, monel, ackOf, disk, history, bounds>>

Load(id) ==
    /\ up /\ id \in loading /\ outbox = None
    /\ loading' = loading \ {id}
    /\ note' = [note EXCEPT ![id] = file[id]]
    /\ outbox' = IF file[id] = None THEN None ELSE id
    /\ UNCHANGED <<now, byid, actives, sendq, notechan, worker, owned, alloc, removing,
                   persist, ackOf, disk, up, history, bounds>>

RunQueues ==
    \/ BeginQueues
    \/ \E d \in Dests : SkipDest(d) \/ GiveUp(d) \/ TakeQueue(d)
    \/ Transmit \/ MarkSent \/ DoneDest \/ DoneQueues

WorkerStep ==
    \/ Work
    \/ BeginMaintenance \/ DiscardOld
    \/ \E id \in Ids : MaintainNote(id)
    \/ RunQueues

MonelStep ==
    \/ NewId \/ SendNote
    \/ \E st \in NewStatuses : NewNote(st)
    \/ \E id \in Ids, st \in Statuses : Update(id, st)
    \/ \E id \in Ids : RemoveNotify(id) \/ Load(id)
    \/ BeginPersist \/ EndPersist

SaveStep == \E s \in Savers : SaveRename(s) \/ \E id \in Ids : SaveNote(s, id)

Next ==
    \/ Tick \/ Stop \/ EndStop \/ Crash \/ Restart
    \/ WorkerStep
    \/ MonelStep
    \/ SaveStep
    \/ \E id \in Ids : LookUp(id) \/ UserAck(id) \/ Janitor(id)

Spec == Init /\ [][Next]_vars

(* The clock and the goroutines that can run do run; the map order of        *)
(* runQueues is random, so no destination is passed over for ever.           *)
Fairness ==
    /\ WF_vars(Tick)
    /\ WF_vars(Restart)
    /\ SF_vars(Work)
    /\ SF_vars(BeginMaintenance)
    /\ WF_vars(\E id \in Ids : MaintainNote(id))
    /\ WF_vars(DiscardOld)
    /\ WF_vars(RunQueues)
    /\ \A d \in Dests : SF_vars(TakeQueue(d))
    /\ SF_vars(SendNote)
    /\ WF_vars(\E id \in Ids : Load(id))
    /\ WF_vars(SaveStep)
    /\ WF_vars(EndPersist)
    /\ WF_vars(EndStop)
    /\ WF_vars(\E st \in NewStatuses : NewNote(st))

FairSpec == Spec /\ Fairness
----------------------------------------------------------------------------
Maybe(set) == set \cup {None}

TypeOK ==
    /\ now \in StartTime..Horizon /\ clk \in 0..now
    /\ note \in [Ids -> Maybe(Note)] /\ file \in [Ids -> Maybe(Note)]
    /\ byid \subseteq Ids /\ actives \subseteq byid
    /\ queue \in [Dests -> Seq(Ids)] /\ lastt \in [Dests -> 0..now]
    /\ notechan \in Seq(Ids) /\ Len(notechan) <= ChanCap
    /\ wpc \in {"idle", "ready", "maint", "queues", "send", "mark"}
    /\ todo \subseteq Ids \cup Dests /\ batch \in Seq(Ids) /\ dest \in Maybe(Dests)
    /\ owned \subseteq Ids /\ outbox \in Maybe(Ids) /\ alloc \in Maybe(Ids)
    /\ removing \subseteq Ids /\ toSave \in [Savers -> SUBSET Ids] /\ listed \subseteq Ids
    /\ saving \in [Savers -> Maybe(Ids \X Note)]
    /\ persisting \in BOOLEAN /\ stopping \in BOOLEAN
    /\ ackOf \in Maybe(Ids) /\ notno \in {0} \cup Ids
    /\ up \in BOOLEAN /\ loading \subseteq Ids
    /\ raced \subseteq acked /\ acked \subseteq Ids /\ sent \subseteq Ids \X Dests

(* The worker looks for timeouts and repeats among `actives' only: those are *)
(* exactly the active notifications it knows, whatever acks, crashes and     *)
(* discards come in between (work, ack, discard).                            *)
ActivesAreRegistered ==
    actives = {id \in byid : note[id].active}

(* An ack is final: a notification whose ack has returned is not active      *)
(* again, in memory or on disk, also after a restart, unless the monel or    *)
(* Stop was saving it at that moment (ack.go, Save, Load).                   *)
AckIsFinal ==
    \A id \in acked \ raced : \A n \in {note[id], file[id]} \ {None} : ~n.active

(* A number is given out once, also across crashes: no notification's file   *)
(* is ever replaced by that of another (nextIdNo, saveIdNo, New).            *)
FilesAreNotReused ==
    [][\A id \in Ids :
          file[id] # None /\ file'[id] # None
              => file'[id].created = file[id].created /\ file'[id].ov = file[id].ov]_vars

(* Nothing that was acked is picked for sending, in this life of the process *)
(* or a later one (runQueues).                                               *)
AckedStaysQuiet ==
    [][wpc = "queues" /\ wpc' = "send"
          => \A i \in DOMAIN batch' : batch'[i] \notin acked \ raced]_vars

(* Without renotify, a notification is in a destination's queue at most once *)
(* for every step of the send table it has taken: maintenance passes, status *)
(* updates and restarts do not queue it again (maybeQueue).                  *)
Copies(d, id) == Cardinality({i \in DOMAIN queue[d] : queue[d][i] = id})

QueuedOncePerStep ==
    Renotify = 0 =>
        \A d \in Dests, id \in Ids :
            Copies(d, id) > 0
                => Copies(d, id) <= Cardinality({i \in 1..note[id].step : d \in SendTo[i].dst})

(* What is queued and stays active is handed to its destination, even though *)
(* a pass over the queues may stop early at another one (queues.go:113).     *)
QueuedIsSent ==
    \A d \in Dests, id \in Ids :
        (up /\ Copies(d, id) > 0 /\ note[id].active)
            ~> (~up \/ <<id, d>> \in sent \/ (note[id] # None /\ ~note[id].active))

(* A notification nobody acks is acked by the timeout, before the older ones *)
(* are discarded (notifMaintenance).                                         *)
UnackedTimesOut ==
    \A id \in Ids :
        (UnAckTimeout > 0 /\ id \in actives /\ note[id].created + UnAckTimeout < now)
            ~> (~up \/ (note[id] # None /\ ~note[id].active))

(* The monel holds its lock while it waits for room in notechan: it does get *)
(* it, the worker never waits for the monel (New, Update, discard).          *)
SendersProceed == outbox # None ~> outbox = None

(* ack.go:73, of ack(): "package lock + notify are already held".            *)
AckHoldsPackageLock ==
    [][up /\ up' /\ ackOf # None /\ ackOf' = None => Unlocked]_vars

=============================================================================
