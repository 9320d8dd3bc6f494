---------------------------- MODULE NotifyProofs ----------------------------
(* Proofs about the notifications, for every number of notifications and     *)
(* destinations, every send table and all the timing parameters.             *)
EXTENDS Notify, FiniteSetTheorems, TLAPS

(* What a notification keeps when it is changed: when it was made, for which *)
(* status, and that it is over.                                              *)
Same(m, n) == m.created = n.created /\ m.ov = n.ov

Follows(m, n) ==
    /\ m \in Note /\ Same(m, n)
    /\ m.active => n.active
    /\ m.step >= n.step
-----------------------------------------------------------------------------
(* The fields of a notification.                                             *)
LEMMA NoteFields ==
    ASSUME NEW n \in Note
    PROVE  /\ n.active \in BOOLEAN /\ n.ov \in NewStatuses /\ n.curr \in Statuses \cup NewStatuses
           /\ n.created \in Nat /\ n.step \in 0..Len(SendTo) /\ n.last \in [DOMAIN SendTo -> Nat]
           /\ n.status \in [Dests -> StatusName]
BY DEF Note

(* A notification with one field replaced.                                   *)
LEMMA OneField ==
    ASSUME NEW n \in Note, NEW x
    PROVE  /\ [n EXCEPT !.active = x] = [active |-> x, ov |-> n.ov, curr |-> n.curr,
                    created |-> n.created, step |-> n.step, last |-> n.last, status |-> n.status]
           /\ [n EXCEPT !.curr = x] = [active |-> n.active, ov |-> n.ov, curr |-> x,
                    created |-> n.created, step |-> n.step, last |-> n.last, status |-> n.status]
           /\ [n EXCEPT !.step = x] = [active |-> n.active, ov |-> n.ov, curr |-> n.curr,
                    created |-> n.created, step |-> x, last |-> n.last, status |-> n.status]
           /\ [n EXCEPT !.last = x] = [active |-> n.active, ov |-> n.ov, curr |-> n.curr,
                    created |-> n.created, step |-> n.step, last |-> x, status |-> n.status]
           /\ [n EXCEPT !.status = x] = [active |-> n.active, ov |-> n.ov, curr |-> n.curr,
                    created |-> n.created, step |-> n.step, last |-> n.last, status |-> x]
BY DEF Note

(* ack: it is over.                                                          *)
LEMMA AckedNote ==
    ASSUME NEW n \in Note
    PROVE  Follows(Acked(n), n) /\ ~Acked(n).active
<1>. DEFINE s == [d \in Dests |-> IF n.status[d] = "" THEN "" ELSE "acked"]
            a == [n EXCEPT !.active = FALSE]
<1>1. s \in [Dests -> StatusName]
    BY DEF StatusName
<1>2. Acked(n) = [a EXCEPT !.status = s]
    BY Zenon DEF Acked
<1>3. a = [active |-> FALSE, ov |-> n.ov, curr |-> n.curr,
           created |-> n.created, step |-> n.step, last |-> n.last, status |-> n.status]
    BY OneField
<1>4. a \in Note /\ a.active = FALSE /\ a.ov = n.ov /\ a.created = n.created /\ a.step = n.step
      /\ a.last = n.last /\ a.curr = n.curr
    BY <1>3, NoteFields DEF Note
<1>. HIDE DEF a, s
<1>5. [a EXCEPT !.status = s] = [active |-> a.active, ov |-> a.ov, curr |-> a.curr,
                created |-> a.created, step |-> a.step, last |-> a.last, status |-> s]
    BY <1>4, OneField
<1>6. Acked(n) = [active |-> FALSE, ov |-> n.ov, curr |-> n.curr,
                created |-> n.created, step |-> n.step, last |-> n.last, status |-> s]
    BY <1>2, <1>4, <1>5
<1>7. Acked(n) \in Note
    BY <1>1, <1>6, NoteFields DEF Note
<1>. QED
    BY <1>6, <1>7, NoteFields DEF Follows, Same

(* An ack that is saved keeps what the notification is about (ack.go:24-46). *)
LEMMA AckedFileNote ==
    ASSUME NEW n \in Note
    PROVE  Follows(AckedFile(n), n) /\ ~AckedFile(n).active
<1>1. AckedFile(n) = [active |-> FALSE, ov |-> n.ov, curr |-> n.curr,
           created |-> n.created, step |-> n.step, last |-> n.last, status |-> n.status]
    BY OneField DEF AckedFile
<1>2. AckedFile(n) \in Note
    BY <1>1, NoteFields DEF Note
<1>. QED
    BY <1>1, <1>2, NoteFields DEF Follows, Same

(* Update: the status of its monel has changed.                              *)
LEMMA UpdatedNote ==
    ASSUME NEW n \in Note, NEW st \in Statuses
    PROVE  Follows([n EXCEPT !.curr = st], n) /\ [n EXCEPT !.curr = st].active = n.active
<1>1. [n EXCEPT !.curr = st] = [active |-> n.active, ov |-> n.ov, curr |-> st,
           created |-> n.created, step |-> n.step, last |-> n.last, status |-> n.status]
    BY OneField
<1>2. [n EXCEPT !.curr = st] \in Note
    BY <1>1, NoteFields DEF Note
<1>. QED
    BY <1>1, <1>2, NoteFields DEF Follows, Same

(* transmit: it is marked as sent to a destination.                          *)
LEMMA SentNote ==
    ASSUME NEW n \in Note, NEW d \in Dests
    PROVE  Follows([n EXCEPT !.status[d] = "sent"], n) /\ [n EXCEPT !.status[d] = "sent"].active = n.active
<1>. DEFINE s == [n.status EXCEPT ![d] = "sent"]
<1>1. s \in [Dests -> StatusName]
    BY NoteFields DEF StatusName
<1>2. [n EXCEPT !.status[d] = "sent"] = [n EXCEPT !.status = s]
    BY Zenon
<1>. HIDE DEF s
<1>3. [n EXCEPT !.status = s] = [active |-> n.active, ov |-> n.ov, curr |-> n.curr,
           created |-> n.created, step |-> n.step, last |-> n.last, status |-> s]
    BY OneField
<1>4. [n EXCEPT !.status = s] \in Note
    BY <1>1, <1>3, NoteFields DEF Note
<1>. QED
    BY <1>2, <1>3, <1>4, NoteFields DEF Follows, Same

(* maybeQueue: the steps of the send table are taken one after the other.    *)
LEMMA QueuedNote ==
    ASSUME NEW n \in Note, now \in Nat
    PROVE  Follows(Queued(n), n) /\ Queued(n).active = n.active /\ Queued(n).step = StepsTaken(n)
<1>. DEFINE l == [i \in DOMAIN SendTo |-> IF i \in StepsQueued(n) THEN now ELSE n.last[i]]
            s == [d \in Dests |-> IF TimesQueued(n, d) > 0 THEN "queued" ELSE n.status[d]]
            k == StepsTaken(n)
            a == [n EXCEPT !.step = k]
            b == [a EXCEPT !.last = l]
<1>1. l \in [DOMAIN SendTo -> Nat]
    BY NoteFields
<1>2. s \in [Dests -> StatusName]
    BY NoteFields DEF StatusName
<1>3. k \in 0..Len(SendTo) /\ k >= n.step
    <2>1. n.step \in 0..Len(SendTo) /\ Len(SendTo) \in Nat
        BY NoteFields, NotifyAssumption
    <2>2. CASE NextStepDue(n)
        BY <2>1, <2>2 DEF StepsTaken, NextStepDue
    <2>3. CASE ~NextStepDue(n)
        BY <2>1, <2>3 DEF StepsTaken
    <2>. QED
        BY <2>2, <2>3
<1>4. Queued(n) = [b EXCEPT !.status = s]
    BY Zenon DEF Queued
<1>. HIDE DEF l, s, k
<1>5. a = [active |-> n.active, ov |-> n.ov, curr |-> n.curr,
           created |-> n.created, step |-> k, last |-> n.last, status |-> n.status]
    BY OneField
<1>6. a \in Note /\ a.active = n.active /\ a.ov = n.ov /\ a.created = n.created /\ a.step = k
      /\ a.status = n.status /\ a.curr = n.curr
    BY <1>3, <1>5, NoteFields DEF Note
<1>. HIDE DEF a
<1>7. b = [active |-> n.active, ov |-> n.ov, curr |-> n.curr,
           created |-> n.created, step |-> k, last |-> l, status |-> n.status]
    <2>1. [a EXCEPT !.last = l] = [active |-> a.active, ov |-> a.ov, curr |-> a.curr,
           created |-> a.created, step |-> a.step, last |-> l, status |-> a.status]
        BY <1>6, OneField
    <2>. QED
        BY <1>6, <2>1
<1>8. b \in Note /\ b.active = n.active /\ b.ov = n.ov /\ b.created = n.created /\ b.step = k
      /\ b.last = l /\ b.curr = n.curr
    BY <1>1, <1>3, <1>7, NoteFields DEF Note
<1>. HIDE DEF b
<1>9. Queued(n) = [active |-> n.active, ov |-> n.ov, curr |-> n.curr,
           created |-> n.created, step |-> k, last |-> l, status |-> s]
    <2>1. [b EXCEPT !.status = s] = [active |-> b.active, ov |-> b.ov, curr |-> b.curr,
           created |-> b.created, step |-> b.step, last |-> b.last, status |-> s]
        BY <1>8, OneField
    <2>. QED
        BY <1>4, <1>8, <2>1, Zenon
<1>10. Queued(n) \in Note
    BY <1>1, <1>2, <1>3, <1>9, NoteFields DEF Note
<1>. QED
    BY <1>3, <1>9, <1>10, NoteFields DEF Follows, Same, k

(* How often a notification is put in the queue of a destination is a number.*)
LEMMA TimesQueuedType ==
    ASSUME NEW n \in Note, NEW d \in Dests
    PROVE  TimesQueued(n, d) \in Nat
<1>. DEFINE T == {i \in StepsQueued(n) : d \in SendTo[i].dst \cap Routable}
<1>1. n.step \in 0..Len(SendTo) /\ Len(SendTo) \in Nat
    BY NoteFields, NotifyAssumption
<1>2. StepsTaken(n) \in Int
    BY <1>1 DEF StepsTaken
<1>3. T \subseteq (1..n.step) \cup ((n.step + 1)..StepsTaken(n))
    BY DEF StepsQueued, Repeats
<1>4. IsFiniteSet((1..n.step) \cup ((n.step + 1)..StepsTaken(n)))
    <2>1. IsFiniteSet(1..n.step)
        BY <1>1, FS_Interval
    <2>2. n.step + 1 \in Int
        BY <1>1
    <2>3. IsFiniteSet((n.step + 1)..StepsTaken(n))
        BY <1>2, <2>2, FS_Interval
    <2>. QED
        BY <2>1, <2>3, FS_Union
<1>5. IsFiniteSet(T)
    BY <1>3, <1>4, FS_Subset
<1>. QED
    BY <1>5, FS_CardinalityType DEF TimesQueued

(* One notification changes, and no other.                                   *)
OnlyNote(id, n) ==
    /\ note' \in [Ids -> Maybe(Note)]
    /\ note'[id] = n
    /\ \A i \in Ids : i # id => note'[i] = note[i]

(* An assignment to one notification changes that one only.                  *)
LEMMA NoteUpdate ==
    ASSUME TypeOK, NEW id \in Ids, NEW n \in Note, note' = [note EXCEPT ![id] = n]
    PROVE  OnlyNote(id, n)
BY DEF TypeOK, OnlyNote, Maybe

(* maybeQueue adds to the queues copies of this notification only.           *)
MoreQueued(id) ==
    /\ queue' \in [Dests -> Seq(Ids)]
    /\ \A d \in Dests : \A i \in DOMAIN queue'[d] :
            queue'[d][i] = id \/ (i \in DOMAIN queue[d] /\ queue'[d][i] = queue[d][i])

(* maybeQueue changes one notification, and not whether it is active.        *)
LEMMA MaybeQueued ==
    ASSUME TypeOK, NEW id \in Ids, note[id] \in Note, maybeQueue(id)
    PROVE  /\ \E n \in Note : OnlyNote(id, n) /\ Follows(n, note[id]) /\ n.active = note[id].active
           /\ MoreQueued(id)
<1>1. CASE note[id].active
    <2>1. PICK n \in Note : n = note[id]
        OBVIOUS
    <2>2. /\ note' = [note EXCEPT ![id] = Queued(n)]
          /\ queue' = [d \in Dests |-> queue[d] \o [i \in 1..TimesQueued(n, d) |-> id]]
        BY <1>1, <2>1 DEF maybeQueue, TypeOK
    <2>3. Follows(Queued(n), n) /\ Queued(n).active = n.active /\ Queued(n) \in Note
        <3>1. now \in Nat
            BY NotifyAssumption DEF TypeOK
        <3>2. Follows(Queued(n), n) /\ Queued(n).active = n.active
            BY <3>1, QueuedNote
        <3>. QED
            BY <3>2 DEF Follows
    <2>4. OnlyNote(id, Queued(n))
        BY <2>2, <2>3, NoteUpdate
    <2>5. ASSUME NEW d \in Dests
          PROVE  /\ queue'[d] \in Seq(Ids)
                 /\ \A i \in DOMAIN queue'[d] :
                        queue'[d][i] = id \/ (i \in DOMAIN queue[d] /\ queue'[d][i] = queue[d][i])
        <3>. DEFINE e == [i \in 1..TimesQueued(n, d) |-> id]
        <3>1. TimesQueued(n, d) \in Nat
            BY TimesQueuedType
        <3>2. e \in Seq(Ids) /\ \A i \in DOMAIN e : e[i] = id
            BY <3>1
        <3>3. queue'[d] = queue[d] \o e /\ queue[d] \in Seq(Ids)
            BY <2>2 DEF TypeOK
        <3>. HIDE DEF e
        <3>. QED
            BY <3>2, <3>3
    <2>. QED
        BY <2>1, <2>2, <2>3, <2>4, <2>5 DEF MoreQueued
<1>2. CASE ~note[id].active
    <2>1. UNCHANGED <<note, queue>>
        BY <1>2 DEF maybeQueue
    <2>. QED
        BY <2>1, NoteFields DEF TypeOK, OnlyNote, MoreQueued, Follows, Same
<1>. QED
    BY <1>1, <1>2

-----------------------------------------------------------------------------
(* The invariant, first part.  Whatever refers to a notification by its      *)
(* number refers to one that exists (Known), and no number that was ever     *)
(* used is given out again: New has the number after all of them (Numbers).  *)
Has(id) == note[id] # None

Known ==
    /\ \A id \in byid \cup owned : Has(id)
    /\ \A s \in Savers : \A id \in toSave[s] : Has(id)
    /\ outbox # None => Has(outbox)
    /\ ackOf # None => Has(ackOf)
    /\ \A s \in Savers : saving[s] # None => Has(saving[s][1])
    /\ \A i \in DOMAIN notechan : Has(notechan[i])
    /\ \A i \in DOMAIN batch : Has(batch[i])
    /\ \A d \in Dests : \A i \in DOMAIN queue[d] : Has(queue[d][i])
    /\ wpc = "maint" => todo \subseteq byid
    /\ wpc \in {"send", "mark"} => dest # None

Used(id) == Has(id) \/ file[id] # None \/ id \in acked

Numbers ==
    /\ alloc # None => alloc <= notno
    /\ \A id \in Ids : Used(id) => id <= notno /\ id # alloc
    /\ \A id \in loading : ~Has(id)
    /\ loading # {} \/ ~up => alloc = None
    /\ ~up => wpc = "idle" /\ loading = {} /\ \A id \in Ids : ~Has(id)

Base == TypeOK /\ Known /\ Numbers

(* The constants are numbers, and None is no notification and no number.      *)
LEMMA Constants ==
    /\ StartTime \in Nat /\ Horizon \in Nat /\ Step \in Nat /\ ChanCap \in Nat
    /\ StartTime <= Horizon
    /\ Ids \subseteq Nat \ {0} /\ 0 \notin Ids
    /\ None \notin Ids /\ None \notin Dests /\ None \notin Note /\ None \notin Ids \X Note
BY NotifyAssumption

(* So is the clock.                                                          *)
LEMMA Clock == TypeOK => now \in Nat /\ 0 \in 0..now /\ now \in 0..now
BY Constants DEF TypeOK

(* It holds when the program starts.                                         *)
LEMMA InitBase == Init => Base
<1>. SUFFICES ASSUME Init PROVE Base
    OBVIOUS
<1>1. TypeOK
    <2>1. now \in StartTime..Horizon /\ 0 \in 0..now
        BY Constants DEF Init
    <2>2. note \in [Ids -> Maybe(Note)] /\ file \in [Ids -> Maybe(Note)]
        BY DEF Init, Maybe
    <2>3. queue \in [Dests -> Seq(Ids)] /\ lastt \in [Dests -> 0..now]
        BY <2>1 DEF Init
    <2>4. notechan \in Seq(Ids) /\ Len(notechan) <= ChanCap /\ batch \in Seq(Ids)
        BY Constants DEF Init
    <2>. QED
        BY <2>1, <2>2, <2>3, <2>4 DEF Init, TypeOK, Maybe
<1>2. Known
    BY DEF Init, Known
<1>3. Numbers
    BY DEF Init, Numbers, Used, Has
<1>. QED
    BY <1>1, <1>2, <1>3 DEF Base

(* Steps that change no notification and no file.                            *)
LEMMA ClockKeeps ==
    ASSUME Base, Tick
    PROVE  Base'
<1>. USE DEF memory, sendq, worker, persist, monel, disk, boot, history, bounds
<1>1. TypeOK'
    <2>1. now' \in StartTime..Horizon /\ now <= now' /\ now \in Nat
        BY Constants DEF Base, Tick, TypeOK
    <2>2. 0..now \subseteq 0..now'
        BY <2>1, Constants
    <2>3. clk' \in 0..now' /\ lastt' \in [Dests -> 0..now']
        BY <2>2 DEF Base, Tick, TypeOK
    <2>4. UNCHANGED <<memory, sendq, notechan, worker, monel, ackOf, disk, boot, history>>
        BY DEF Tick
    <2>. QED
        BY <2>1, <2>3, <2>4 DEF Base, TypeOK
<1>2. Known'
    BY DEF Base, Tick, Known, Has
<1>3. Numbers'
    BY DEF Base, Tick, Numbers, Used, Has
<1>. QED
    BY <1>1, <1>2, <1>3 DEF Base

(* The steps of the monitored element keep the base (notify.go, monel/persist.go). *)
LEMMA MonelKeeps ==
    ASSUME Base,
           NewId \/ SendNote \/ (\E id \in Ids : RemoveNotify(id) \/ LookUp(id))
              \/ BeginPersist \/ EndPersist \/ Stop \/ EndStop
              \/ (\E s \in Savers, id \in Ids : SaveNote(s, id))
    PROVE  Base'
<1>. USE DEF memory, sendq, worker, persist, monel, disk, boot, history, bounds, Base
<1>1. CASE NewId
    <2>1. TypeOK'
        BY <1>1, Constants DEF NewId, TypeOK, Maybe, NotnoSaved
    <2>2. Known'
        BY <1>1 DEF NewId, Known, Has
    <2>3. Numbers'
        BY <1>1, Constants DEF NewId, Numbers, Used, Has, MonelFree, NotnoSaved, TypeOK
    <2>. QED
        BY <2>1, <2>2, <2>3
<1>2. CASE SendNote
    <2>1. TypeOK'
        <3>1. outbox \in Ids /\ notechan \in Seq(Ids) /\ Len(notechan) < ChanCap
              /\ notechan' = Append(notechan, outbox)
            BY <1>2 DEF SendNote, TypeOK, Maybe
        <3>2. notechan' \in Seq(Ids) /\ Len(notechan') <= ChanCap
            BY <3>1, Constants
        <3>. HIDE DEF Base
        <3>3. TypeOK
            BY DEF Base
        <3>. QED
            BY <1>2, <3>1, <3>2, <3>3 DEF SendNote, TypeOK, Maybe
    <2>2. Known'
        BY <1>2 DEF SendNote, Known, Has, TypeOK, Maybe
    <2>3. Numbers'
        BY <1>2 DEF SendNote, Numbers, Used, Has
    <2>. QED
        BY <2>1, <2>2, <2>3
<1>3. ASSUME NEW id \in Ids, RemoveNotify(id) PROVE Base'
    <2>1. TypeOK'
        BY <1>3 DEF RemoveNotify, TypeOK, Maybe
    <2>2. Known'
        BY <1>3 DEF RemoveNotify, Known, Has
    <2>3. Numbers'
        BY <1>3 DEF RemoveNotify, Numbers, Used, Has
    <2>. QED
        BY <2>1, <2>2, <2>3
<1>4. ASSUME NEW s \in Savers, NEW id \in Ids, SaveNote(s, id) PROVE Base'
    <2>0. Has(id) /\ note[id] \in Note
        BY <1>4 DEF SaveNote, Known, Has, TypeOK, Maybe
    <2>1. TypeOK'
        BY <1>4, <2>0 DEF SaveNote, TypeOK, Maybe
    <2>2. Known'
        BY <1>4, <2>0 DEF SaveNote, Known, Has
    <2>3. Numbers'
        BY <1>4 DEF SaveNote, Numbers, Used, Has
    <2>. QED
        BY <2>1, <2>2, <2>3
<1>5. ASSUME NEW id \in Ids, LookUp(id) PROVE Base'
    <2>1. TypeOK'
        BY <1>5 DEF LookUp, TypeOK, Maybe
    <2>2. Known'
        BY <1>5 DEF LookUp, Known, Has
    <2>3. Numbers'
        BY <1>5 DEF LookUp, Numbers, Used, Has
    <2>. QED
        BY <2>1, <2>2, <2>3
<1>6. CASE BeginPersist
    <2>1. TypeOK'
        BY <1>6 DEF BeginPersist, TypeOK, Maybe, Savers
    <2>2. Known'
        BY <1>6 DEF BeginPersist, Known, Has, TypeOK, Savers
    <2>3. Numbers'
        BY <1>6 DEF BeginPersist, Numbers, Used, Has
    <2>. QED
        BY <2>1, <2>2, <2>3
<1>7. CASE EndPersist
    <2>1. TypeOK'
        BY <1>7 DEF EndPersist, TypeOK, Maybe
    <2>2. Known'
        BY <1>7 DEF EndPersist, Known, Has
    <2>3. Numbers'
        BY <1>7 DEF EndPersist, Numbers, Used, Has
    <2>. QED
        BY <2>1, <2>2, <2>3
<1>8. CASE Stop
    <2>1. TypeOK'
        BY <1>8 DEF Stop, TypeOK, Maybe, Savers
    <2>2. Known'
        BY <1>8 DEF Stop, Known, Has, TypeOK, Savers
    <2>3. Numbers'
        BY <1>8 DEF Stop, Numbers, Used, Has
    <2>. QED
        BY <2>1, <2>2, <2>3
<1>9. CASE EndStop
    <2>1. TypeOK'
        BY <1>9 DEF EndStop, TypeOK, Maybe
    <2>2. Known'
        BY <1>9 DEF EndStop, Known, Has
    <2>3. Numbers'
        BY <1>9 DEF EndStop, Numbers, Used, Has
    <2>. QED
        BY <2>1, <2>2, <2>3
<1>. QED
    BY <1>1, <1>2, <1>3, <1>4, <1>5, <1>6, <1>7, <1>8, <1>9

(* The worker's steps that only choose what to do next.                      *)
LEMMA WorkerKeeps ==
    ASSUME Base,
           \/ BeginMaintenance \/ DiscardOld \/ BeginQueues \/ Transmit \/ DoneDest \/ DoneQueues
           \/ \E d \in Dests : SkipDest(d) \/ GiveUp(d)
    PROVE  Base'
<1>. USE DEF memory, sendq, worker, persist, monel, disk, boot, history, bounds, Base
<1>1. CASE BeginMaintenance
    <2>1. TypeOK'
        BY <1>1, Clock DEF BeginMaintenance, TypeOK
    <2>2. Known'
        BY <1>1 DEF BeginMaintenance, Known, Has, TypeOK
    <2>3. Numbers'
        BY <1>1 DEF BeginMaintenance, Numbers, Used, Has
    <2>. QED
        BY <2>1, <2>2, <2>3
<1>2. CASE DiscardOld
    <2>1. TypeOK'
        BY <1>2, Clock DEF DiscardOld, Old, TypeOK
    <2>2. Known'
        BY <1>2 DEF DiscardOld, Known, Has
    <2>3. Numbers'
        BY <1>2 DEF DiscardOld, Numbers, Used, Has
    <2>. QED
        BY <2>1, <2>2, <2>3
<1>3. CASE BeginQueues
    <2>1. TypeOK'
        BY <1>3, Clock DEF BeginQueues, TypeOK
    <2>2. Known'
        BY <1>3 DEF BeginQueues, Known, Has
    <2>3. Numbers'
        BY <1>3 DEF BeginQueues, Numbers, Used, Has
    <2>. QED
        BY <2>1, <2>2, <2>3
<1>4. CASE Transmit
    <2>1. TypeOK'
        <3>1. dest \in Dests /\ \A i \in DOMAIN batch : batch[i] \in Ids
            BY <1>4 DEF Transmit, Known, TypeOK, Maybe
        <3>2. sent' \in SUBSET (Ids \X Dests)
            BY <1>4, <3>1 DEF Transmit, TypeOK
        <3>. QED
            BY <1>4, <3>2 DEF Transmit, TypeOK
    <2>2. Known'
        BY <1>4 DEF Transmit, Known, Has
    <2>3. Numbers'
        BY <1>4 DEF Transmit, Numbers, Used, Has
    <2>. QED
        BY <2>1, <2>2, <2>3
<1>5. CASE DoneDest
    <2>1. TypeOK'
        BY <1>5 DEF DoneDest, TypeOK, Maybe
    <2>2. Known'
        BY <1>5 DEF DoneDest, Known, Has
    <2>3. Numbers'
        BY <1>5 DEF DoneDest, Numbers, Used, Has
    <2>. QED
        BY <2>1, <2>2, <2>3
<1>6. CASE DoneQueues
    <2>1. TypeOK'
        BY <1>6, Clock DEF DoneQueues, TypeOK
    <2>2. Known'
        BY <1>6 DEF DoneQueues, Known, Has
    <2>3. Numbers'
        BY <1>6 DEF DoneQueues, Numbers, Used, Has
    <2>. QED
        BY <2>1, <2>2, <2>3
<1>7. ASSUME NEW d \in Dests, SkipDest(d) PROVE Base'
    <2>1. TypeOK'
        BY <1>7 DEF SkipDest, TypeOK
    <2>2. Known'
        BY <1>7 DEF SkipDest, Known, Has
    <2>3. Numbers'
        BY <1>7 DEF SkipDest, Numbers, Used, Has
    <2>. QED
        BY <2>1, <2>2, <2>3
<1>8. ASSUME NEW d \in Dests, GiveUp(d) PROVE Base'
    <2>1. TypeOK'
        BY <1>8, Clock DEF GiveUp, TypeOK
    <2>2. Known'
        BY <1>8 DEF GiveUp, Known, Has
    <2>3. Numbers'
        BY <1>8 DEF GiveUp, Numbers, Used, Has
    <2>. QED
        BY <2>1, <2>2, <2>3
<1>. QED
    BY <1>1, <1>2, <1>3, <1>4, <1>5, <1>6, <1>7, <1>8

(* Steps that change the files.                                              *)
LEMMA FileStepsKeep ==
    ASSUME Base, (\E s \in Savers : SaveRename(s)) \/ \E id \in Ids : Janitor(id)
    PROVE  Base'
<1>. USE DEF memory, sendq, worker, persist, monel, disk, boot, history, bounds, Base
<1>1. ASSUME NEW s \in Savers, SaveRename(s) PROVE Base'
    <2>1. /\ saving[s] \in Ids \X Note /\ saving[s][1] \in Ids /\ saving[s][2] \in Note
          /\ Has(saving[s][1])
        BY <1>1 DEF SaveRename, Known, TypeOK, Maybe
    <2>2. file' = [file EXCEPT ![saving[s][1]] = saving[s][2]]
        BY <1>1 DEF SaveRename
    <2>3. TypeOK'
        BY <1>1, <2>1, <2>2 DEF SaveRename, TypeOK, Maybe
    <2>4. Known'
        BY <1>1 DEF SaveRename, Known, Has, TypeOK
    <2>5. Numbers'
        BY <1>1, <2>1, <2>2 DEF SaveRename, Numbers, Used, Has, TypeOK
    <2>. QED
        BY <2>3, <2>4, <2>5
<1>2. ASSUME NEW id \in Ids, Janitor(id) PROVE Base'
    <2>1. TypeOK'
        BY <1>2 DEF Janitor, TypeOK, Maybe
    <2>2. Known'
        BY <1>2 DEF Janitor, Known, Has
    <2>3. Numbers'
        BY <1>2 DEF Janitor, Numbers, Used, Has, TypeOK
    <2>. QED
        BY <2>1, <2>2, <2>3
<1>. QED
    BY <1>1, <1>2

(* The end and the start of the process.                                     *)
LEMMA CrashKeeps ==
    ASSUME Base, Crash \/ Restart
    PROVE  Base'
<1>. USE DEF memory, sendq, worker, persist, monel, disk, boot, history, bounds, Base
<1>1. CASE Crash
    <2>1. TypeOK'
        <3>1. note' \in [Ids -> Maybe(Note)] /\ queue' \in [Dests -> Seq(Ids)]
            BY <1>1 DEF Crash, Maybe
        <3>2. now \in Nat /\ now' = now
            BY <1>1, Constants DEF Crash, TypeOK
        <3>3. lastt' \in [Dests -> 0..now'] /\ clk' \in 0..now'
            BY <1>1, <3>2 DEF Crash
        <3>4. notechan' \in Seq(Ids) /\ Len(notechan') <= ChanCap /\ batch' \in Seq(Ids)
            BY <1>1, Constants DEF Crash
        <3>. QED
            BY <1>1, <3>1, <3>3, <3>4 DEF Crash, TypeOK, Maybe
    <2>2. Known'
        BY <1>1 DEF Crash, Known
    <2>3. Numbers'
        BY <1>1, Constants DEF Crash, Numbers, Used, Has
    <2>. QED
        BY <2>1, <2>2, <2>3
<1>2. CASE Restart
    <2>1. TypeOK'
        BY <1>2 DEF Restart, TypeOK
    <2>2. Known'
        BY <1>2 DEF Restart, Known, Has
    <2>3. Numbers'
        BY <1>2 DEF Restart, Numbers, Used, Has, TypeOK
    <2>. QED
        BY <2>1, <2>2, <2>3
<1>. QED
    BY <1>1, <1>2

-----------------------------------------------------------------------------
(* What a step does to one notification: it goes on, or it is over.          *)
OnlyFile(id, f) ==
    /\ file' \in [Ids -> Maybe(Note)]
    /\ file'[id] = f
    /\ \A i \in Ids : i # id => file'[i] = file[i]

Continues(id) ==
    /\ \E n \in Note : OnlyNote(id, n) /\ Follows(n, note[id]) /\ n.active = note[id].active
    /\ UNCHANGED <<file, acked, raced>>

Ends(id) ==
    /\ \E n \in Note : OnlyNote(id, n) /\ Follows(n, note[id]) /\ ~n.active
    /\ \E f \in Note : OnlyFile(id, f) /\ Same(f, note[id]) /\ ~f.active
    /\ actives' = actives \ {id} /\ acked' = acked \cup {id}
    /\ raced \subseteq raced' /\ raced' \subseteq raced \cup {id}
    /\ BeingSaved(id) => id \in raced'

(* A save of one notification changes its file only.                         *)
LEMMA FileUpdate ==
    ASSUME TypeOK, NEW id \in Ids, NEW f \in Note, file' = [file EXCEPT ![id] = f]
    PROVE  OnlyFile(id, f)
BY DEF TypeOK, OnlyFile, Maybe

(* ack ends it.                                                              *)
LEMMA AckEnds ==
    ASSUME TypeOK, NEW id \in Ids, note[id] \in Note, ack(id)
    PROVE  Ends(id)
<1>1. PICK n \in Note : n = note[id]
    OBVIOUS
<1>2. /\ note' = [note EXCEPT ![id] = Acked(n)] /\ file' = [file EXCEPT ![id] = AckedFile(n)]
      /\ actives' = actives \ {id} /\ acked' = acked \cup {id}
      /\ raced' = IF BeingSaved(id) THEN raced \cup {id} ELSE raced
    BY <1>1 DEF ack, TypeOK
<1>3. /\ Acked(n) \in Note /\ Follows(Acked(n), n) /\ ~Acked(n).active
      /\ AckedFile(n) \in Note /\ Same(AckedFile(n), n) /\ ~AckedFile(n).active
    BY AckedNote, AckedFileNote DEF Follows
<1>4. OnlyNote(id, Acked(n)) /\ OnlyFile(id, AckedFile(n))
    BY <1>2, <1>3, NoteUpdate, FileUpdate
<1>. QED
    BY <1>1, <1>2, <1>3, <1>4 DEF Ends

(* A notification that exists does so after the step, and no other does that *)
(* did not.                                                                  *)
LEMMA NotesKept ==
    ASSUME NEW id \in Ids, Has(id), Continues(id) \/ Ends(id)
    PROVE  \A i \in Ids : Has(i)' <=> Has(i)
BY Constants DEF Continues, Ends, OnlyNote, Has

(* While a notification only changes, its number stays the last one given.   *)
LEMMA NumbersKept ==
    ASSUME Base, NEW id \in Ids, Has(id), Continues(id) \/ Ends(id),
           UNCHANGED <<alloc, notno, loading, up>>, up
    PROVE  Numbers'
<1>1. \A i \in Ids : Used(i)' => Used(i)
    <2>. SUFFICES ASSUME NEW i \in Ids, Used(i)' PROVE Used(i)
        OBVIOUS
    <2>1. CASE i = id
        BY <2>1 DEF Used
    <2>2. CASE i # id
        BY <2>2, NotesKept DEF Used, Continues, Ends, OnlyFile
    <2>. QED
        BY <2>1, <2>2
<1>2. TypeOK /\ Numbers
    BY DEF Base
<1>. QED
    BY <1>1, <1>2, NotesKept DEF Numbers, TypeOK

(* What it does to the types.                                                *)
LEMMA TypesKept ==
    ASSUME TypeOK, NEW id \in Ids, Has(id), Continues(id) \/ Ends(id)
    PROVE  /\ note' \in [Ids -> Maybe(Note)] /\ file' \in [Ids -> Maybe(Note)]
           /\ raced' \subseteq acked' /\ acked' \subseteq Ids
<1>1. CASE Continues(id)
    BY <1>1 DEF Continues, OnlyNote, TypeOK
<1>2. CASE Ends(id)
    BY <1>2 DEF Ends, OnlyNote, OnlyFile, TypeOK
<1>. QED
    BY <1>1, <1>2

(* What refers to a notification does so after it has changed.               *)
LEMMA ReferencesKept ==
    ASSUME TypeOK, Known, \A i \in Ids : Has(i) => note'[i] # None
    PROVE  /\ \A id \in byid \cup owned : note'[id] # None
           /\ \A s \in Savers : \A id \in toSave[s] : note'[id] # None
           /\ outbox # None => note'[outbox] # None
           /\ ackOf # None => note'[ackOf] # None
           /\ \A s \in Savers : saving[s] # None => note'[saving[s][1]] # None
           /\ \A i \in DOMAIN notechan : note'[notechan[i]] # None
           /\ \A i \in DOMAIN batch : note'[batch[i]] # None
           /\ \A d \in Dests : \A i \in DOMAIN queue[d] : note'[queue[d][i]] # None
<1>1. \A i \in DOMAIN notechan : notechan[i] \in Ids
    BY DEF TypeOK
<1>2. \A i \in DOMAIN batch : batch[i] \in Ids
    BY DEF TypeOK
<1>3. \A d \in Dests : \A i \in DOMAIN queue[d] : queue[d][i] \in Ids
    BY DEF TypeOK
<1>4. /\ byid \cup owned \subseteq Ids /\ \A s \in Savers : toSave[s] \subseteq Ids
      /\ outbox # None => outbox \in Ids
      /\ ackOf # None => ackOf \in Ids
      /\ \A s \in Savers : saving[s] # None => saving[s][1] \in Ids
    BY DEF TypeOK, Maybe
<1>. QED
    BY <1>1, <1>2, <1>3, <1>4 DEF Known

(* New, the second half.                                                     *)
LEMMA NewNoteKeeps ==
    ASSUME Base, NEW st \in NewStatuses, NewNote(st)
    PROVE  /\ Base'
           /\ \E n \in Note : OnlyNote(alloc, n) /\ OnlyFile(alloc, n)
<1>. USE DEF memory, sendq, worker, persist, monel, disk, boot, history, bounds
<1>. DEFINE n == [active |-> TRUE, ov |-> st, curr |-> st, created |-> now, step |-> 0,
                  last |-> [i \in DOMAIN SendTo |-> 0], status |-> [d \in Dests |-> ""]]
<1>1. TypeOK /\ Known /\ Numbers /\ up /\ alloc \in Ids /\ ~Used(alloc)
    BY DEF Base, NewNote, TypeOK, Maybe, Numbers
<1>2. n \in Note
    <2>1. 0 \in 0..Len(SendTo) /\ now \in Nat
        BY <1>1, Clock, NotifyAssumption
    <2>2. [i \in DOMAIN SendTo |-> 0] \in [DOMAIN SendTo -> Nat] /\ [d \in Dests |-> ""] \in [Dests -> StatusName]
        BY DEF StatusName
    <2>. QED
        BY <2>1, <2>2 DEF Note
<1>3. note' = [note EXCEPT ![alloc] = n] /\ file' = [file EXCEPT ![alloc] = n]
    BY DEF NewNote
<1>. HIDE DEF n
<1>4. OnlyNote(alloc, n) /\ OnlyFile(alloc, n)
    BY <1>1, <1>2, <1>3, NoteUpdate, FileUpdate
<1>5. TypeOK'
    BY <1>1, <1>4 DEF NewNote, TypeOK, OnlyNote, OnlyFile, Maybe
<1>6. Known'
    <2>1. \A i \in Ids : Has(i) => Has(i)'
        BY <1>2, <1>4, Constants DEF OnlyNote, Has
    <2>2. (outbox # None => Has(outbox))'
        BY <1>1, <1>2, <1>4, Constants DEF NewNote, OnlyNote, Has
    <2>. QED
        BY <1>1, <2>1, <2>2, ReferencesKept DEF NewNote, Known, Has
<1>7. Numbers'
    <2>1. \A i \in Ids : i # alloc => (Used(i)' <=> Used(i))
        BY <1>4 DEF OnlyNote, OnlyFile, Used, Has, NewNote
    <2>2. loading = {} /\ alloc <= notno
        BY <1>1, Constants DEF Numbers
    <2>. QED
        BY <1>1, <2>1, <2>2, Constants DEF NewNote, Numbers
<1>. QED
    BY <1>1, <1>2, <1>4, <1>5, <1>6, <1>7 DEF Base

(* Update reports a status.                                                  *)
LEMMA UpdateKeeps ==
    ASSUME Base, NEW id \in Ids, NEW st \in Statuses, Update(id, st)
    PROVE  Base' /\ Has(id) /\ Continues(id)
<1>. USE DEF memory, sendq, worker, persist, monel, disk, boot, history, bounds
<1>1. TypeOK /\ Known /\ Numbers
    BY DEF Base
<1>2. Has(id) /\ note[id] \in Note
    BY <1>1 DEF Update, Known, TypeOK, Maybe, Has
<1>3. Continues(id)
    <2>1. PICK n \in Note : n = note[id]
        BY <1>2
    <2>2. note' = [note EXCEPT ![id] = [n EXCEPT !.curr = st]]
        BY <1>1, <2>1 DEF Update, TypeOK
    <2>3. Follows([n EXCEPT !.curr = st], n) /\ [n EXCEPT !.curr = st].active = n.active
        BY UpdatedNote
    <2>4. PICK k \in Note : k = [n EXCEPT !.curr = st]
        BY <2>3 DEF Follows
    <2>5. OnlyNote(id, k)
        BY <1>1, <2>2, <2>4, NoteUpdate
    <2>. QED
        BY <2>1, <2>3, <2>4, <2>5 DEF Continues, Update
<1>4. TypeOK'
    BY <1>1, <1>2, <1>3, TypesKept DEF Update, TypeOK, Maybe
<1>5. Known'
    <2>1. \A i \in Ids : Has(i) => note'[i] # None
        BY <1>2, <1>3, NotesKept DEF Has
    <2>2. note'[id] # None
        BY <1>2, <2>1
    <2>. QED
        BY <1>1, <2>1, <2>2, ReferencesKept DEF Update, Known, Has
<1>6. Numbers'
    BY <1>2, <1>3, NumbersKept DEF Update, MonelFree
<1>. QED
    BY <1>2, <1>3, <1>4, <1>5, <1>6 DEF Base

(* Restore reads the notifications from their files.                         *)
LEMMA LoadKeeps ==
    ASSUME Base, NEW id \in Ids, Load(id)
    PROVE  Base' /\ ~Has(id)
<1>. USE DEF memory, sendq, worker, persist, monel, disk, boot, history, bounds
<1>1. TypeOK /\ Known /\ Numbers /\ ~Has(id)
    BY DEF Base, Load, Numbers
<1>2. note' = [note EXCEPT ![id] = file[id]] /\ file' = file
    BY DEF Load
<1>3. TypeOK'
    BY <1>1, <1>2 DEF Load, TypeOK, Maybe
<1>4. Known'
    <2>1. \A i \in Ids : Has(i) => note'[i] # None
        BY <1>1, <1>2 DEF Has, TypeOK
    <2>2. (outbox # None => Has(outbox))'
        BY <1>1, <1>2 DEF Load, Has, TypeOK
    <2>. QED
        BY <1>1, <2>1, <2>2, ReferencesKept DEF Load, Known, Has
<1>5. Numbers'
    <2>1. \A i \in Ids : Used(i)' => Used(i)
        BY <1>1, <1>2 DEF Used, Has, TypeOK, Load
    <2>2. \A i \in loading' : ~Has(i)'
        BY <1>1, <1>2 DEF Load, Numbers, Has, TypeOK
    <2>. QED
        BY <1>1, <2>1, <2>2 DEF Load, Numbers
<1>. QED
    BY <1>1, <1>3, <1>4, <1>5 DEF Base

(* A user's ack.                                                             *)
LEMMA UserAckKeeps ==
    ASSUME Base, NEW id \in Ids, UserAck(id)
    PROVE  Base' /\ Has(id) /\ Ends(id)
<1>. USE DEF memory, sendq, worker, persist, monel, disk, boot, history, bounds
<1>1. TypeOK /\ Known /\ Numbers
    BY DEF Base
<1>2. Has(id) /\ note[id] \in Note
    BY <1>1, Constants DEF UserAck, Known, TypeOK, Maybe, Has
<1>3. Ends(id)
    BY <1>1, <1>2, AckEnds DEF UserAck
<1>4. TypeOK'
    BY <1>1, <1>2, <1>3, TypesKept DEF UserAck, TypeOK, Maybe, Ends
<1>5. Known'
    <2>1. \A i \in Ids : Has(i) => note'[i] # None
        BY <1>2, <1>3, NotesKept DEF Has
    <2>. QED
        BY <1>1, <2>1, ReferencesKept DEF UserAck, Known, Has
<1>6. Numbers'
    BY <1>2, <1>3, NumbersKept DEF UserAck
<1>. QED
    BY <1>2, <1>3, <1>4, <1>5, <1>6 DEF Base

(* Maintenance of one notification.                                          *)
LEMMA MaintainKeeps ==
    ASSUME Base, NEW id \in Ids, MaintainNote(id)
    PROVE  /\ Base' /\ Has(id)
           /\ \/ Ends(id) /\ UNCHANGED queue
              \/ Continues(id) /\ actives' = actives /\ maybeQueue(id)
<1>. USE DEF memory, sendq, worker, persist, monel, disk, boot, history, bounds
<1>1. TypeOK /\ Known /\ Numbers
    BY DEF Base
<1>2. Has(id) /\ note[id] \in Note
    BY <1>1 DEF MaintainNote, Known, TypeOK, Maybe, Has
<1>3. CASE ack(id) /\ UNCHANGED <<queue, sent>>
    <2>1. Ends(id)
        BY <1>1, <1>2, <1>3, AckEnds
    <2>2. TypeOK'
        BY <1>1, <1>2, <1>3, <2>1, TypesKept DEF MaintainNote, TypeOK, Ends
    <2>3. \A i \in Ids : Has(i) => note'[i] # None
        BY <1>2, <2>1, NotesKept DEF Has
    <2>4. Known'
        BY <1>1, <1>3, <2>3, ReferencesKept DEF MaintainNote, Known, Has
    <2>5. Numbers'
        BY <1>2, <2>1, NumbersKept DEF MaintainNote
    <2>. QED
        BY <1>2, <1>3, <2>1, <2>2, <2>4, <2>5 DEF Base
<1>4. CASE maybeQueue(id) /\ UNCHANGED <<actives, file, history>>
    <2>1. Continues(id) /\ MoreQueued(id)
        BY <1>1, <1>2, <1>4, MaybeQueued DEF Continues
    <2>2. TypeOK'
        BY <1>1, <1>2, <1>4, <2>1, TypesKept DEF MaintainNote, TypeOK, MoreQueued
    <2>3. \A i \in Ids : Has(i) => note'[i] # None
        BY <1>2, <2>1, NotesKept DEF Has
    <2>4. \A d \in Dests : \A i \in DOMAIN queue'[d] : note'[queue'[d][i]] # None
        BY <1>1, <1>2, <2>1, <2>3, ReferencesKept DEF MoreQueued
    <2>5. Known'
        BY <1>1, <1>4, <2>3, <2>4, ReferencesKept DEF MaintainNote, Known, Has
    <2>6. Numbers'
        BY <1>2, <2>1, NumbersKept DEF MaintainNote
    <2>. QED
        BY <1>2, <1>4, <2>1, <2>2, <2>5, <2>6 DEF Base
<1>. QED
    BY <1>3, <1>4 DEF MaintainNote

(* A notification of the batch is marked, and acked if it is of that kind.   *)
LEMMA MarkSentKeeps ==
    ASSUME Base, MarkSent
    PROVE  /\ Base'
           /\ \E id \in Ids : Has(id) /\ (Ends(id) \/ (Continues(id) /\ actives' = actives))
<1>. USE DEF memory, sendq, worker, persist, monel, disk, boot, history, bounds
<1>1. TypeOK /\ Known /\ Numbers
    BY DEF Base
<1>2. batch \in Seq(Ids) /\ batch # <<>>
    BY <1>1 DEF MarkSent, TypeOK
<1>3. PICK id \in Ids : id = Head(batch) /\ id = batch[1] /\ 1 \in DOMAIN batch
    BY <1>2
<1>4. Has(id) /\ note[id] \in Note
    BY <1>1, <1>3 DEF Known, Has, TypeOK, Maybe
<1>5. dest \in Dests
    BY <1>1 DEF MarkSent, Known, TypeOK, Maybe
<1>6. PICK k \in Note : k = note[id]
    BY <1>4
<1>7. Follows([k EXCEPT !.status[dest] = "sent"], k) /\ [k EXCEPT !.status[dest] = "sent"].active = k.active
    BY <1>5, SentNote
<1>8. PICK n \in Note : n = [k EXCEPT !.status[dest] = "sent"]
    BY <1>7 DEF Follows
<1>9. Follows(n, k) /\ n.active = k.active
    BY <1>7, <1>8
<1>10. \/ /\ note' = [note EXCEPT ![id] = Acked(n)]
          /\ actives' = actives \ {id}
          /\ file' = [file EXCEPT ![id] = AckedFile(n)]
          /\ acked' = acked \cup {id}
          /\ raced' = IF BeingSaved(id) THEN raced \cup {id} ELSE raced
       \/ /\ note' = [note EXCEPT ![id] = n]
          /\ UNCHANGED <<actives, file, acked, raced>>
    BY <1>3, <1>6, <1>8, Zenon DEF MarkSent
<1>11. \/ Ends(id)
       \/ Continues(id) /\ actives' = actives
    <2>1. /\ Acked(n) \in Note /\ Follows(Acked(n), n) /\ ~Acked(n).active
          /\ AckedFile(n) \in Note /\ Same(AckedFile(n), n) /\ ~AckedFile(n).active
        BY AckedNote, AckedFileNote DEF Follows
    <2>2. Follows(Acked(n), k) /\ Same(AckedFile(n), k)
        BY <1>9, <2>1, NoteFields DEF Follows, Same
    <2>3. CASE /\ note' = [note EXCEPT ![id] = Acked(n)]
               /\ actives' = actives \ {id}
               /\ file' = [file EXCEPT ![id] = AckedFile(n)]
               /\ acked' = acked \cup {id}
               /\ raced' = IF BeingSaved(id) THEN raced \cup {id} ELSE raced
        <3>1. OnlyNote(id, Acked(n)) /\ OnlyFile(id, AckedFile(n))
            BY <1>1, <2>1, <2>3, NoteUpdate, FileUpdate
        <3>. QED
            BY <1>6, <2>1, <2>2, <2>3, <3>1 DEF Ends
    <2>4. CASE note' = [note EXCEPT ![id] = n] /\ UNCHANGED <<actives, file, acked, raced>>
        <3>1. OnlyNote(id, n)
            BY <1>1, <2>4, NoteUpdate
        <3>. QED
            BY <1>6, <1>9, <2>4, <3>1 DEF Continues
    <2>. QED
        BY <1>10, <2>3, <2>4
<1>12. TypeOK'
    <2>1. batch' \in Seq(Ids) /\ actives' \subseteq byid
        BY <1>1, <1>2, <1>11 DEF MarkSent, Ends, TypeOK
    <2>. QED
        BY <1>1, <1>4, <1>11, <2>1, TypesKept DEF MarkSent, TypeOK
<1>13. Known'
    <2>1. \A i \in Ids : Has(i) => note'[i] # None
        BY <1>4, <1>11, NotesKept DEF Has
    <2>2. \A i \in DOMAIN batch' : note'[batch'[i]] # None
        <3>1. ASSUME NEW i \in DOMAIN Tail(batch) PROVE i + 1 \in DOMAIN batch /\ Tail(batch)[i] = batch[i + 1]
            BY <1>2
        <3>. QED
            BY <1>1, <2>1, <3>1, ReferencesKept DEF MarkSent
    <2>. QED
        BY <1>1, <2>1, <2>2, ReferencesKept DEF MarkSent, Known, Has
<1>14. Numbers'
    BY <1>4, <1>11, NumbersKept DEF MarkSent
<1>. QED
    BY <1>4, <1>11, <1>12, <1>13, <1>14 DEF Base

(* The worker takes a notification from the channel.                         *)
LEMMA WorkKeeps ==
    ASSUME Base, Work
    PROVE  /\ Base'
           /\ \E id \in Ids :
                /\ Has(id)
                /\ \/ /\ id \notin byid /\ byid' = byid \cup {id} /\ Continues(id) /\ maybeQueue(id)
                      /\ actives' = IF note[id].active THEN actives \cup {id} ELSE actives
                   \/ Ends(id) /\ UNCHANGED <<byid, queue>>
                   \/ UNCHANGED <<note, byid, actives, queue, file, acked, raced>>
<1>. USE DEF memory, sendq, worker, persist, monel, disk, boot, history, bounds
<1>1. TypeOK /\ Known /\ Numbers
    BY DEF Base
<1>2. notechan \in Seq(Ids) /\ notechan # <<>> /\ notechan' = Tail(notechan) /\ Len(notechan) <= ChanCap
    BY <1>1 DEF Work, TypeOK
<1>3. PICK id \in Ids : id = Head(notechan) /\ id = notechan[1] /\ 1 \in DOMAIN notechan
    BY <1>2
<1>4. Has(id) /\ note[id] \in Note
    BY <1>1, <1>3 DEF Known, Has, TypeOK, Maybe
<1>5. /\ notechan' \in Seq(Ids) /\ Len(notechan') <= ChanCap
      /\ \A i \in DOMAIN notechan' : i + 1 \in DOMAIN notechan /\ notechan'[i] = notechan[i + 1]
    BY <1>2, Constants
<1>6. \/ /\ id \notin byid /\ byid' = byid \cup {id}
         /\ actives' = IF note[id].active THEN actives \cup {id} ELSE actives
         /\ maybeQueue(id) /\ UNCHANGED <<file, history>>
      \/ ack(id) /\ UNCHANGED <<byid, queue, sent>>
      \/ UNCHANGED <<memory, queue, file, history>>
    BY <1>3 DEF Work
<1>7. /\ up' = up /\ up /\ wpc' = "ready"
      /\ UNCHANGED <<now, lastt, clk, todo, batch, dest, monel, ackOf, notno, listed, boot, bounds>>
    BY DEF Work
<1>8. CASE /\ id \notin byid /\ byid' = byid \cup {id}
           /\ actives' = IF note[id].active THEN actives \cup {id} ELSE actives
           /\ maybeQueue(id) /\ UNCHANGED <<file, history>>
    <2>1. Continues(id) /\ MoreQueued(id)
        BY <1>1, <1>4, <1>8, MaybeQueued DEF Continues
    <2>2. TypeOK'
        BY <1>1, <1>4, <1>5, <1>7, <1>8, <2>1, TypesKept DEF TypeOK, MoreQueued
    <2>3. \A i \in Ids : Has(i) => note'[i] # None
        BY <1>4, <2>1, NotesKept DEF Has
    <2>4. \A d \in Dests : \A i \in DOMAIN queue'[d] : note'[queue'[d][i]] # None
        BY <1>1, <1>4, <2>1, <2>3, ReferencesKept DEF MoreQueued
    <2>5. Known'
        BY <1>1, <1>4, <1>5, <1>7, <1>8, <2>3, <2>4, ReferencesKept DEF Known, Has
    <2>6. Numbers'
        BY <1>4, <1>7, <2>1, NumbersKept
    <2>. QED
        BY <1>4, <1>8, <2>1, <2>2, <2>5, <2>6 DEF Base
<1>9. CASE ack(id) /\ UNCHANGED <<byid, queue, sent>>
    <2>1. Ends(id)
        BY <1>1, <1>4, <1>9, AckEnds
    <2>2. TypeOK'
        BY <1>1, <1>4, <1>5, <1>7, <1>9, <2>1, TypesKept DEF TypeOK, Ends
    <2>3. \A i \in Ids : Has(i) => note'[i] # None
        BY <1>4, <2>1, NotesKept DEF Has
    <2>4. Known'
        BY <1>1, <1>5, <1>7, <1>9, <2>3, ReferencesKept DEF Known, Has
    <2>5. Numbers'
        BY <1>4, <1>7, <2>1, NumbersKept
    <2>. QED
        BY <1>4, <1>9, <2>1, <2>2, <2>4, <2>5 DEF Base
<1>10. CASE UNCHANGED <<memory, queue, file, history>>
    <2>1. TypeOK'
        BY <1>1, <1>5, <1>7, <1>10 DEF TypeOK
    <2>2. Known'
        BY <1>1, <1>5, <1>7, <1>10 DEF Known, Has
    <2>3. Numbers'
        BY <1>1, <1>7, <1>10 DEF Numbers, Used, Has
    <2>. QED
        BY <1>4, <1>10, <2>1, <2>2, <2>3 DEF Base
<1>. QED
    BY <1>6, <1>8, <1>9, <1>10

-----------------------------------------------------------------------------
(* Induction over the numbers, for the loop of StillActive.                  *)
LEMMA LeastNumber ==
    ASSUME NEW T \in SUBSET Nat, T # {}
    PROVE  \E n \in T : \A k \in T : n <= k
<1>. DEFINE R == OpToRel(<, Nat)
<1>1. IsWellFoundedOn(R, Nat)
    BY NatLessThanWellFounded
<1>2. PICK x \in T : \A y \in T : ~(<<y, x>> \in R)
    <2>. HIDE DEF R
    <2>. QED
        BY <1>1, WFMin
<1>3. \A y \in T : ~(y < x)
    BY <1>2 DEF OpToRel
<1>. QED
    BY <1>3

(* Induction over the numbers, from their order.                             *)
LEMMA SetInduction ==
    ASSUME NEW T \in SUBSET Nat, 0 \in T, \A n \in T : n + 1 \in T
    PROVE  T = Nat
<1>. SUFFICES ASSUME Nat \ T # {} PROVE FALSE
    OBVIOUS
<1>1. PICK n \in Nat \ T : \A k \in Nat \ T : n <= k
    BY LeastNumber
<1>2. n # 0 /\ n - 1 \in Nat
    BY <1>1
<1>3. n - 1 \in T
    BY <1>1, <1>2
<1>. QED
    BY <1>1, <1>3

(* The loop: what it has kept after the first i of the queue.                *)
Kept(f, q, i) ==
    IF i = 0 THEN <<>> ELSE IF note[q[i]].active THEN Append(f[i - 1], q[i]) ELSE f[i - 1]

(* The loop of runQueues over one queue is a function of its index (queues.go). *)
LEMMA KeptExists ==
    ASSUME NEW q, NEW N \in Nat
    PROVE  \E f : f = [i \in 0..N |-> Kept(f, q, i)]
<1>. DEFINE T == {n \in Nat : \E f : f = [i \in 0..n |-> Kept(f, q, i)]}
<1>1. 0 \in T
    <2>. DEFINE g == [i \in 0..0 |-> <<>>]
    <2>1. g = [i \in 0..0 |-> Kept(g, q, i)]
        BY DEF Kept
    <2>. HIDE DEF g
    <2>2. \E f : f = [i \in 0..0 |-> Kept(f, q, i)]
        BY <2>1
    <2>. QED
        BY <2>2
<1>2. ASSUME NEW n \in T PROVE n + 1 \in T
    <2>1. PICK f : f = [i \in 0..n |-> Kept(f, q, i)]
        OBVIOUS
    <2>. DEFINE g == [i \in 0..(n + 1) |-> IF i = n + 1 THEN Kept(f, q, n + 1) ELSE f[i]]
    <2>2. \A i \in 0..n : g[i] = f[i] /\ f[i] = Kept(f, q, i)
        BY <2>1
    <2>3. g[n + 1] = Kept(f, q, n + 1)
        OBVIOUS
    <2>4. g = [i \in 0..(n + 1) |-> g[i]]
        OBVIOUS
    <2>. HIDE DEF g
    <2>5. ASSUME NEW i \in 0..(n + 1) PROVE g[i] = Kept(g, q, i)
        <3>1. CASE i = n + 1
            <4>1. g[(n + 1) - 1] = f[(n + 1) - 1]
                BY <2>2
            <4>. QED
                BY <2>3, <3>1, <4>1 DEF Kept
        <3>2. CASE i \in 0..n
            <4>1. i # 0 => g[i - 1] = f[i - 1]
                BY <2>2, <3>2
            <4>. QED
                BY <2>2, <3>2, <4>1 DEF Kept
        <3>. QED
            BY <3>1, <3>2
    <2>6. g = [i \in 0..(n + 1) |-> Kept(g, q, i)]
        BY <2>4, <2>5
    <2>. QED
        BY <2>6
<1>3. T = Nat
    <2>. HIDE DEF T
    <2>1. T \in SUBSET Nat
        BY DEF T
    <2>. QED
        BY <1>1, <1>2, <2>1, SetInduction
<1>. QED
    BY <1>3

(* What runQueues hands to the method is queued for it and active.           *)
LEMMA OnlyActive ==
    ASSUME TypeOK, NEW d \in Dests
    PROVE  LET S == {id \in Ids : note[id].active /\ \E i \in DOMAIN queue[d] : queue[d][i] = id}
           IN  StillActive(d) \in Seq(S)
<1>. DEFINE q == queue[d]
            S == {id \in Ids : note[id].active /\ \E i \in DOMAIN q : q[i] = id}
            f == CHOOSE g : g = [i \in 0..Len(q) |-> Kept(g, q, i)]
<1>1. q \in Seq(Ids) /\ Len(q) \in Nat
    BY DEF TypeOK
<1>2. StillActive(d) = f[Len(q)]
    BY DEF StillActive, Kept
<1>3. f = [i \in 0..Len(q) |-> Kept(f, q, i)]
    BY <1>1, KeptExists
<1>4. \A i \in 1..Len(q) : q[i] \in Ids /\ (note[q[i]].active => q[i] \in S)
    BY <1>1
<1>. HIDE DEF q, S, f
<1>. DEFINE T == {n \in Nat : n <= Len(q) => f[n] \in Seq(S)}
<1>5. 0 \in T
    <2>1. f[0] = <<>>
        BY <1>1, <1>3 DEF Kept
    <2>2. f[0] \in Seq(S)
        <3>1. <<>> \in Seq(S)
            OBVIOUS
        <3>. QED
            BY <2>1, <3>1, Zenon
    <2>. QED
        BY <2>2
<1>6. ASSUME NEW n \in T PROVE n + 1 \in T
    <2>. SUFFICES ASSUME n + 1 <= Len(q) PROVE f[n + 1] \in Seq(S)
        OBVIOUS
    <2>1. f[n] \in Seq(S) /\ n \in Nat /\ n + 1 \in 1..Len(q)
        BY <1>1
    <2>2. f[n + 1] = Kept(f, q, n + 1) /\ (n + 1) - 1 = n /\ n + 1 # 0
        BY <1>1, <1>3, <2>1
    <2>3. f[n + 1] = IF note[q[n + 1]].active THEN Append(f[n], q[n + 1]) ELSE f[n]
        BY <2>2 DEF Kept
    <2>. QED
        BY <1>4, <2>1, <2>3
<1>7. T = Nat
    <2>. HIDE DEF T
    <2>1. T \in SUBSET Nat
        BY DEF T
    <2>. QED
        BY <1>5, <1>6, <2>1, SetInduction
<1>8. f[Len(q)] \in Seq(S)
    BY <1>1, <1>7
<1>. QED
    BY <1>2, <1>8 DEF q, S

(* The worker takes the queue of a destination.                              *)
LEMMA TakeQueueKeeps ==
    ASSUME Base, NEW d \in Dests, TakeQueue(d)
    PROVE  /\ Base'
           /\ \A i \in DOMAIN batch' : batch'[i] \in Ids /\ Has(batch'[i]) /\ note[batch'[i]].active
<1>. USE DEF memory, sendq, worker, persist, monel, disk, boot, history, bounds
<1>. DEFINE S == {id \in Ids : note[id].active /\ \E i \in DOMAIN queue[d] : queue[d][i] = id}
<1>1. TypeOK /\ Known /\ Numbers
    BY DEF Base
<1>2. batch' \in Seq(S)
    BY <1>1, OnlyActive DEF TakeQueue
<1>3. \A i \in DOMAIN batch' : batch'[i] \in S
    <2>. HIDE DEF S
    <2>. QED
        BY <1>2
<1>4. batch' \in Seq(Ids)
    <2>1. S \subseteq Ids
        OBVIOUS
    <2>. HIDE DEF S
    <2>. QED
        BY <1>2, <2>1
<1>5. queue' \in [Dests -> Seq(Ids)] /\ \A e \in Dests : queue'[e] = queue[e] \/ queue'[e] = <<>>
    BY <1>1 DEF TakeQueue, TypeOK
<1>6. TypeOK'
    BY <1>1, <1>4, <1>5 DEF TakeQueue, TypeOK, Maybe
<1>7. Known'
    <2>1. \A i \in DOMAIN batch' : note'[batch'[i]] # None
        BY <1>1, <1>3 DEF Known, Has, TakeQueue
    <2>2. \A e \in Dests : \A i \in DOMAIN queue'[e] : note'[queue'[e][i]] # None
        BY <1>1, <1>5 DEF Known, Has, TakeQueue
    <2>3. dest' # None
        BY Constants DEF TakeQueue
    <2>. QED
        BY <1>1, <2>1, <2>2, <2>3 DEF Known, Has, TakeQueue
<1>8. Numbers'
    BY <1>1 DEF Numbers, Used, Has, TakeQueue
<1>9. \A i \in DOMAIN batch' : Has(batch'[i])
    BY <1>1, <1>3 DEF Known, Has
<1>. QED
    BY <1>3, <1>6, <1>7, <1>8, <1>9 DEF Base

(* Every step keeps the first part.                                          *)
LEMMA NextBase == Base /\ [Next]_vars => Base'
<1>. SUFFICES ASSUME Base, [Next]_vars PROVE Base'
    OBVIOUS
<1>1. CASE Tick \/ Stop \/ EndStop \/ Crash \/ Restart
    BY <1>1, ClockKeeps, MonelKeeps, CrashKeeps
<1>2. CASE WorkerStep
    BY <1>2, WorkKeeps, WorkerKeeps, MaintainKeeps, TakeQueueKeeps, MarkSentKeeps DEF WorkerStep, RunQueues
<1>3. CASE MonelStep
    BY <1>3, MonelKeeps, NewNoteKeeps, UpdateKeeps, LoadKeeps DEF MonelStep
<1>4. ASSUME NEW id \in Ids, LookUp(id) \/ UserAck(id) \/ Janitor(id) PROVE Base'
    BY <1>4, MonelKeeps, UserAckKeeps, FileStepsKeep
<1>5. CASE UNCHANGED vars
    <2>. USE DEF vars, memory, sendq, worker, persist, monel, disk, boot, history, bounds
    <2>1. TypeOK'
        BY <1>5 DEF Base, TypeOK
    <2>2. Known'
        BY <1>5 DEF Base, Known, Has
    <2>3. Numbers'
        BY <1>5 DEF Base, Numbers, Used, Has
    <2>. QED
        BY <2>1, <2>2, <2>3 DEF Base
<1>6. CASE SaveStep
    <2>1. ASSUME NEW s \in Savers, NEW id \in Ids, SaveNote(s, id) PROVE Base'
        BY <2>1, MonelKeeps
    <2>2. ASSUME NEW s \in Savers, SaveRename(s) PROVE Base'
        BY <2>2, FileStepsKeep
    <2>. QED
        BY <1>6, <2>1, <2>2, Zenon DEF SaveStep
<1>. QED
    BY <1>1, <1>2, <1>3, <1>4, <1>5, <1>6 DEF Next
-----------------------------------------------------------------------------
(* The second part.  A notification, its file and the copy of it that a save *)
(* has begun to write are of one make (Agree), and an ack holds for all      *)
(* three (AckHolds), which is why it is final.                               *)
Agree ==
    /\ \A id \in Ids : Has(id) /\ file[id] # None => Same(file[id], note[id])
    /\ \A s \in Savers : saving[s] # None => Same(saving[s][2], note[saving[s][1]])

AckHolds ==
    /\ \A id \in acked \ raced : /\ note[id] # None => ~note[id].active
                                 /\ file[id] # None => ~file[id].active
    /\ \A s \in Savers :
          saving[s] # None /\ saving[s][1] \in acked \ raced => ~saving[s][2].active

IInv == Base /\ Agree /\ AckHolds /\ ActivesAreRegistered

(* Where one notification goes on or ends, the second part is kept.          *)
LEMMA ChangeKeeps ==
    ASSUME IInv, NEW id \in Ids, Has(id), saving' = saving, 
           \/ Ends(id) /\ byid' = byid
           \/ Continues(id) /\ actives' = actives /\ byid' = byid
           \/ /\ Continues(id) /\ id \notin byid /\ byid' = byid \cup {id}
              /\ actives' = IF note[id].active THEN actives \cup {id} ELSE actives
    PROVE  Agree' /\ AckHolds' /\ ActivesAreRegistered'
<1>1. TypeOK /\ Known /\ Agree /\ AckHolds /\ ActivesAreRegistered /\ note[id] \in Note
    BY DEF IInv, Base, TypeOK, Maybe, Has
<1>2. PICK n \in Note : OnlyNote(id, n) /\ Same(n, note[id]) /\ (n.active => note[id].active)
    BY DEF Continues, Ends, Follows
<1>3. \A i \in Ids : Has(i)' <=> Has(i)
    BY NotesKept
<1>4. \A i \in Ids : i # id => note'[i] = note[i] /\ file'[i] = file[i]
    BY <1>2 DEF Continues, Ends, OnlyNote, OnlyFile
<1>5. note'[id] = n
    BY <1>2 DEF OnlyNote
<1>6. \A s \in Savers : saving[s] # None => saving[s][1] \in Ids
    BY <1>1 DEF TypeOK, Maybe
<1>7. file'[id] = file[id] \/ Same(file'[id], note[id])
    BY DEF Continues, Ends, OnlyFile
<1>8. Agree'
    <2>1. ASSUME NEW i \in Ids, Has(i)', file'[i] # None PROVE Same(file'[i], note'[i])
        BY <1>1, <1>2, <1>3, <1>4, <1>5, <1>7, <2>1 DEF Agree, Same
    <2>2. ASSUME NEW s \in Savers, saving[s] # None PROVE Same(saving[s][2], note'[saving[s][1]])
        BY <1>1, <1>2, <1>4, <1>5, <1>6, <2>2 DEF Agree, Same
    <2>. QED
        BY <2>1, <2>2 DEF Agree, Same, Has
<1>9. AckHolds'
    <2>1. CASE Ends(id)
        <3>1. ~note'[id].active /\ ~file'[id].active
            BY <2>1 DEF Ends, OnlyNote, OnlyFile
        <3>2. ASSUME NEW i \in acked' \ raced', i # id PROVE i \in acked \ raced
            BY <2>1, <3>2 DEF Ends
        <3>3. \A i \in acked' \ raced' : i \in Ids
            BY <1>1, <2>1 DEF Ends, TypeOK
        <3>4. ASSUME NEW i \in acked' \ raced'
              PROVE  /\ note'[i] # None => ~note'[i].active
                     /\ file'[i] # None => ~file'[i].active
            BY <1>1, <1>4, <3>1, <3>2, <3>3 DEF AckHolds
        <3>5. ASSUME NEW s \in Savers, saving[s] # None, saving[s][1] \in acked' \ raced'
              PROVE  ~saving[s][2].active
            <4>1. saving[s][1] # id
                BY <2>1, <3>5 DEF Ends, BeingSaved
            <4>. QED
                BY <1>1, <3>2, <3>5, <4>1 DEF AckHolds
        <3>. QED
            BY <3>4, <3>5 DEF AckHolds
    <2>2. CASE Continues(id)
        <3>1. UNCHANGED <<file, acked, raced>>
            BY <2>2 DEF Continues
        <3>2. acked \subseteq Ids /\ note[id] # None
            BY <1>1 DEF TypeOK, Has
        <3>3. ASSUME NEW i \in acked \ raced PROVE note'[i] # None => ~note'[i].active
            BY <1>1, <1>2, <1>4, <1>5, <3>2 DEF AckHolds
        <3>. QED
            BY <1>1, <3>1, <3>3 DEF AckHolds
    <2>. QED
        BY <2>1, <2>2
<1>10. ActivesAreRegistered'
    <2>1. CASE Ends(id) /\ byid' = byid
        BY <1>1, <1>4, <2>1 DEF ActivesAreRegistered, Ends, OnlyNote, TypeOK
    <2>2. CASE Continues(id) /\ actives' = actives /\ byid' = byid
        BY <1>1, <1>4, <2>2 DEF ActivesAreRegistered, Continues, OnlyNote, TypeOK
    <2>3. CASE /\ Continues(id) /\ id \notin byid /\ byid' = byid \cup {id}
               /\ actives' = IF note[id].active THEN actives \cup {id} ELSE actives
        BY <1>1, <1>4, <2>3 DEF ActivesAreRegistered, Continues, OnlyNote, TypeOK
    <2>. QED
        BY <2>1, <2>2, <2>3
<1>. QED
    BY <1>8, <1>9, <1>10

(* Steps that touch no notification, no file and nothing that is being       *)
(* saved.                                                                    *)
Untouched == UNCHANGED <<note, byid, actives, file, saving, acked, raced>>

(* A step that touches no notification, file or ack keeps the invariant.     *)
LEMMA UntouchedKeeps ==
    ASSUME IInv, Untouched
    PROVE  Agree' /\ AckHolds' /\ ActivesAreRegistered'
BY DEF IInv, Untouched, Agree, AckHolds, ActivesAreRegistered, Has

(* These steps are of that kind.                                             *)
LEMMA UntouchedSteps ==
    ASSUME \/ Tick \/ Restart \/ NewId \/ SendNote \/ BeginPersist \/ EndPersist \/ Stop \/ EndStop
           \/ BeginMaintenance \/ BeginQueues \/ Transmit \/ DoneDest \/ DoneQueues
           \/ \E id \in Ids : RemoveNotify(id) \/ LookUp(id)
           \/ \E d \in Dests : SkipDest(d) \/ GiveUp(d) \/ TakeQueue(d)
           \/ UNCHANGED vars
    PROVE  Untouched
BY DEF Untouched, Tick, Restart, NewId, SendNote, BeginPersist, EndPersist, Stop, EndStop, BeginMaintenance,
       BeginQueues, Transmit, DoneDest, DoneQueues, RemoveNotify, LookUp, SkipDest, GiveUp, TakeQueue,
       vars, memory, sendq, worker, persist, monel, disk, boot, history, bounds

(* Steps that save, remove or read a file, or forget all that is in memory.  *)
LEMMA DiskKeeps ==
    ASSUME IInv,
           \/ DiscardOld \/ Crash \/ SaveStep
           \/ \E id \in Ids : Janitor(id) \/ Load(id)
    PROVE  Agree' /\ AckHolds' /\ ActivesAreRegistered'
<1>. USE DEF memory, sendq, worker, persist, monel, disk, boot, history, bounds
<1>1. TypeOK /\ Known /\ Numbers /\ Agree /\ AckHolds /\ ActivesAreRegistered
    BY DEF IInv, Base
<1>2. CASE DiscardOld
    BY <1>1, <1>2 DEF DiscardOld, Agree, AckHolds, ActivesAreRegistered, Has
<1>3. ASSUME NEW s \in Savers, SaveRename(s) PROVE Agree' /\ AckHolds' /\ ActivesAreRegistered'
    <2>1. /\ saving[s][1] \in Ids /\ saving[s][2] \in Note /\ Has(saving[s][1]) /\ saving[s] # None
          /\ \A r \in Savers : saving'[r] = IF r = s THEN None ELSE saving[r]
        BY <1>1, <1>3 DEF SaveRename, Known, TypeOK, Maybe
    <2>2. /\ file'[saving[s][1]] = saving[s][2] /\ \A i \in Ids : i # saving[s][1] => file'[i] = file[i]
          /\ UNCHANGED <<note, byid, actives, acked, raced>>
        BY <1>1, <1>3, <2>1 DEF SaveRename, TypeOK
    <2>3. Agree'
        BY <1>1, <2>1, <2>2 DEF Agree, Has
    <2>4. AckHolds'
        BY <1>1, <2>1, <2>2 DEF AckHolds, TypeOK
    <2>. QED
        BY <1>1, <2>2, <2>3, <2>4 DEF ActivesAreRegistered
<1>5. CASE Crash
    <2>1. /\ \A i \in Ids : note'[i] = None
          /\ \A s \in Savers : saving'[s] = None
          /\ byid' = {} /\ actives' = {} /\ UNCHANGED <<file, acked, raced>>
        BY <1>5 DEF Crash
    <2>2. Agree'
        BY <2>1 DEF Agree, Has
    <2>3. AckHolds'
        BY <1>1, <2>1 DEF AckHolds, TypeOK
    <2>. QED
        BY <2>1, <2>2, <2>3 DEF ActivesAreRegistered
<1>6. ASSUME NEW s \in Savers, NEW id \in Ids, SaveNote(s, id)
      PROVE  Agree' /\ AckHolds' /\ ActivesAreRegistered'
    <2>1. /\ Has(id) /\ \A r \in Savers : saving'[r] = IF r = s THEN <<id, note[id]>> ELSE saving[r]
          /\ UNCHANGED <<note, byid, actives, file, acked, raced>>
        BY <1>1, <1>6 DEF SaveNote, Known, TypeOK
    <2>2. Agree'
        BY <1>1, <2>1 DEF Agree, Has, Same
    <2>3. AckHolds'
        BY <1>1, <2>1 DEF AckHolds, Has
    <2>. QED
        BY <1>1, <2>1, <2>2, <2>3 DEF ActivesAreRegistered
<1>7. ASSUME NEW id \in Ids, Janitor(id) PROVE Agree' /\ AckHolds' /\ ActivesAreRegistered'
    <2>1. /\ file'[id] = None /\ \A i \in Ids : i # id => file'[i] = file[i]
          /\ UNCHANGED <<note, byid, actives, saving, acked, raced>>
        BY <1>1, <1>7 DEF Janitor, TypeOK
    <2>2. Agree'
        BY <1>1, <2>1 DEF Agree, Has
    <2>3. AckHolds'
        BY <1>1, <2>1 DEF AckHolds, TypeOK
    <2>. QED
        BY <1>1, <2>1, <2>2, <2>3 DEF ActivesAreRegistered
<1>8. ASSUME NEW id \in Ids, Load(id) PROVE Agree' /\ AckHolds' /\ ActivesAreRegistered'
    <2>1. /\ note'[id] = file[id] /\ \A i \in Ids : i # id => note'[i] = note[i]
          /\ UNCHANGED <<byid, actives, file, saving, acked, raced>>
        BY <1>1, <1>8 DEF Load, TypeOK
    <2>2. ~Has(id) /\ id \notin byid /\ \A s \in Savers : saving[s] # None => saving[s][1] # id /\ saving[s][1] \in Ids
        BY <1>1, <1>8 DEF Load, Numbers, Known, TypeOK, Maybe
    <2>3. Agree'
        BY <1>1, <2>1, <2>2 DEF Agree, Has, Same
    <2>4. AckHolds'
        BY <1>1, <2>1 DEF AckHolds, TypeOK
    <2>5. ActivesAreRegistered'
        BY <1>1, <2>1, <2>2 DEF ActivesAreRegistered, TypeOK
    <2>. QED
        BY <2>3, <2>4, <2>5
<1>. QED
    BY <1>2, <1>3, <1>5, <1>6, <1>7, <1>8 DEF SaveStep

(* A new notification has a number that nothing had before.                  *)
LEMMA NewIsNew ==
    ASSUME IInv, NEW st \in NewStatuses, NewNote(st)
    PROVE  Agree' /\ AckHolds' /\ ActivesAreRegistered'
<1>. USE DEF memory, sendq, worker, persist, monel, disk, boot, history, bounds
<1>1. TypeOK /\ Known /\ Numbers /\ Agree /\ AckHolds /\ ActivesAreRegistered
    BY DEF IInv, Base
<1>2. PICK n \in Note : OnlyNote(alloc, n) /\ OnlyFile(alloc, n)
    BY NewNoteKeeps DEF IInv
<1>3. /\ alloc \in Ids /\ ~Used(alloc) /\ alloc \notin byid
      /\ \A s \in Savers : saving[s] # None => saving[s][1] # alloc /\ saving[s][1] \in Ids
    BY <1>1 DEF NewNote, TypeOK, Maybe, Numbers, Known, Used
<1>4. UNCHANGED <<byid, actives, saving, acked, raced>>
    BY DEF NewNote
<1>5. /\ note'[alloc] = n /\ file'[alloc] = n
      /\ \A i \in Ids : i # alloc => note'[i] = note[i] /\ file'[i] = file[i]
    BY <1>2 DEF OnlyNote, OnlyFile
<1>6. Agree'
    BY <1>1, <1>3, <1>4, <1>5 DEF Agree, Has, Same
<1>7. AckHolds'
    BY <1>1, <1>3, <1>4, <1>5 DEF AckHolds, Used, TypeOK
<1>8. ActivesAreRegistered'
    BY <1>1, <1>3, <1>4, <1>5 DEF ActivesAreRegistered, TypeOK
<1>. QED
    BY <1>6, <1>7, <1>8

-----------------------------------------------------------------------------
(* A file is only replaced by one of the same make.                          *)
SameFiles == \A id \in Ids : file[id] # None /\ file'[id] # None => Same(file'[id], file[id])

(* Every step keeps the invariant, and the files.                            *)
LEMMA NextInvariant ==
    ASSUME IInv, [Next]_vars
    PROVE  IInv' /\ SameFiles
<1>. USE DEF memory, sendq, worker, persist, monel, disk, boot, history, bounds
<1>1. Base' /\ TypeOK /\ Known /\ Numbers /\ Agree
    BY NextBase DEF IInv, Base
<1>2. ASSUME Untouched PROVE IInv' /\ SameFiles
    BY <1>1, <1>2, UntouchedKeeps DEF IInv, Untouched, SameFiles, Same
<1>3. ASSUME NEW id \in Ids, Has(id), saving' = saving,
             \/ Ends(id) /\ byid' = byid
             \/ Continues(id) /\ actives' = actives /\ byid' = byid
             \/ /\ Continues(id) /\ id \notin byid /\ byid' = byid \cup {id}
                /\ actives' = IF note[id].active THEN actives \cup {id} ELSE actives
      PROVE  IInv' /\ SameFiles
    <2>1. IInv'
        BY <1>1, <1>3, ChangeKeeps DEF IInv
    <2>2. SameFiles
        <3>1. CASE Ends(id)
            BY <1>1, <1>3, <3>1 DEF Ends, OnlyFile, SameFiles, Same, Agree
        <3>2. CASE Continues(id)
            BY <3>2 DEF Continues, SameFiles, Same
        <3>. QED
            BY <1>3, <3>1, <3>2
    <2>. QED
        BY <2>1, <2>2
<1>4. ASSUME DiscardOld \/ Crash \/ SaveStep \/ \E id \in Ids : Janitor(id) \/ Load(id)
      PROVE  IInv' /\ SameFiles
    <2>1. IInv'
        BY <1>1, <1>4, DiskKeeps DEF IInv
    <2>2. ASSUME NEW s \in Savers, SaveRename(s) PROVE SameFiles
        <3>1. saving[s][1] \in Ids /\ Has(saving[s][1]) /\ Same(saving[s][2], note[saving[s][1]])
            BY <1>1, <2>2 DEF SaveRename, Known, Agree, TypeOK, Maybe
        <3>2. /\ file'[saving[s][1]] = saving[s][2]
              /\ \A i \in Ids : i # saving[s][1] => file'[i] = file[i]
            BY <1>1, <2>2, <3>1 DEF SaveRename, TypeOK
        <3>. QED
            BY <1>1, <3>1, <3>2 DEF SameFiles, Agree, Same
    <2>3. ASSUME NEW id \in Ids, Janitor(id) PROVE SameFiles
        BY <1>1, <2>3 DEF Janitor, TypeOK, SameFiles, Same
    <2>4. ASSUME DiscardOld \/ Crash PROVE SameFiles
        BY <2>4 DEF DiscardOld, Crash, SameFiles, Same
    <2>5. ASSUME NEW s \in Savers, NEW id \in Ids, SaveNote(s, id) PROVE SameFiles
        BY <2>5 DEF SaveNote, SameFiles, Same
    <2>6. ASSUME NEW id \in Ids, Load(id) PROVE SameFiles
        BY <2>6 DEF Load, SameFiles, Same
    <2>. HIDE DEF SameFiles
    <2>7. SaveStep => SameFiles
        BY <2>2, <2>5, Zenon DEF SaveStep
    <2>8. (\E id \in Ids : Janitor(id) \/ Load(id)) => SameFiles
        BY <2>3, <2>6, Zenon
    <2>. QED
        BY <1>4, <2>1, <2>4, <2>7, <2>8, Zenon
<1>5. ASSUME NEW st \in NewStatuses, NewNote(st) PROVE IInv' /\ SameFiles
    <2>1. IInv'
        BY <1>1, <1>5, NewIsNew DEF IInv
    <2>2. PICK n \in Note : OnlyFile(alloc, n)
        BY <1>5, NewNoteKeeps DEF IInv
    <2>3. ~Used(alloc)
        BY <1>1, <1>5 DEF NewNote, TypeOK, Maybe, Numbers
    <2>. QED
        <3>1. file[alloc] = None /\ \A i \in Ids : i # alloc => file'[i] = file[i]
            BY <2>2, <2>3 DEF OnlyFile, Used
        <3>. QED
            BY <2>1, <3>1 DEF SameFiles, Same
<1>6. CASE Work
    <2>1. PICK id \in Ids :
            /\ Has(id)
            /\ \/ /\ id \notin byid /\ byid' = byid \cup {id} /\ Continues(id) /\ maybeQueue(id)
                  /\ actives' = IF note[id].active THEN actives \cup {id} ELSE actives
               \/ Ends(id) /\ UNCHANGED <<byid, queue>>
               \/ UNCHANGED <<note, byid, actives, queue, file, acked, raced>>
        BY <1>6, WorkKeeps DEF IInv
    <2>2. saving' = saving
        BY <1>6 DEF Work
    <2>. QED
        BY <1>2, <1>3, <2>1, <2>2 DEF Untouched
<1>7. ASSUME NEW id \in Ids, MaintainNote(id) PROVE IInv' /\ SameFiles
    BY <1>3, <1>7, MaintainKeeps DEF IInv, MaintainNote
<1>8. CASE MarkSent
    BY <1>3, <1>8, MarkSentKeeps DEF IInv, MarkSent
<1>9. ASSUME NEW id \in Ids, UserAck(id) PROVE IInv' /\ SameFiles
    BY <1>3, <1>9, UserAckKeeps DEF IInv, UserAck
<1>10. ASSUME NEW id \in Ids, NEW st \in Statuses, Update(id, st) PROVE IInv' /\ SameFiles
    BY <1>3, <1>10, UpdateKeeps DEF IInv, Update
<1>11. CASE WorkerStep
    BY <1>2, <1>4, <1>6, <1>7, <1>8, <1>11, UntouchedSteps DEF WorkerStep, RunQueues
<1>12. CASE MonelStep
    BY <1>2, <1>4, <1>5, <1>10, <1>12, UntouchedSteps DEF MonelStep
<1>13. CASE Tick \/ Stop \/ EndStop \/ Crash \/ Restart \/ SaveStep \/ UNCHANGED vars
    BY <1>2, <1>4, <1>13, UntouchedSteps
<1>14. ASSUME NEW id \in Ids, LookUp(id) \/ UserAck(id) \/ Janitor(id) PROVE IInv' /\ SameFiles
    BY <1>2, <1>4, <1>9, <1>14, UntouchedSteps
<1>. QED
    BY <1>11, <1>12, <1>13, <1>14 DEF Next

(* The inductive invariant holds of every behaviour.                         *)
LEMMA SpecInvariant == Spec => []IInv
<1>1. Init => IInv
    <2>1. Init => Base
        BY InitBase
    <2>2. Init => Agree /\ AckHolds /\ ActivesAreRegistered
        BY DEF Init, Agree, AckHolds, ActivesAreRegistered, Has
    <2>. QED
        BY <2>1, <2>2 DEF IInv
<1>2. IInv /\ [Next]_vars => IInv'
    BY NextInvariant
<1>. QED
    BY <1>1, <1>2, PTL DEF Spec

(* The types of the state of the package, of the monel and of the disk.      *)
THEOREM NotifyTypes == Spec => []TypeOK
<1>1. IInv => TypeOK
    BY DEF IInv, Base
<1>. QED
    BY <1>1, SpecInvariant, PTL

(* work, ack and discard: the worker looks for timeouts and repeats among    *)
(* exactly the active notifications it knows, whatever else happens.         *)
THEOREM WorkerKnowsActives == Spec => []ActivesAreRegistered
<1>1. IInv => ActivesAreRegistered
    BY DEF IInv
<1>. QED
    BY <1>1, SpecInvariant, PTL

(* ack.go, Save, Load: a notification whose ack has returned is not active   *)
(* again, in memory or on disk, in this life of the process or a later one,  *)
(* unless the monel or Stop was saving it at that moment.                    *)
THEOREM AcksAreFinal == Spec => []AckIsFinal
<1>1. IInv => AckIsFinal
    BY DEF IInv, AckHolds, AckIsFinal
<1>. QED
    BY <1>1, SpecInvariant, PTL

(* nextIdNo, saveIdNo, New: a number is given out once, also across crashes, *)
(* so the file of one notification is never replaced by that of another.     *)
THEOREM NumbersGivenOnce == Spec => FilesAreNotReused
<1>1. IInv /\ [Next]_vars
        => [\A id \in Ids :
              file[id] # None /\ file'[id] # None
                  => file'[id].created = file[id].created /\ file'[id].ov = file[id].ov]_vars
    BY NextInvariant DEF SameFiles, Same
<1>. QED
    BY <1>1, SpecInvariant, PTL DEF Spec, FilesAreNotReused

(* runQueues: nothing that was acked is picked for sending.                  *)
THEOREM AckedAreNotSent == Spec => AckedStaysQuiet
<1>1. IInv /\ [Next]_vars
        => [wpc = "queues" /\ wpc' = "send"
              => \A i \in DOMAIN batch' : batch'[i] \notin acked \ raced]_vars
    <2>. SUFFICES ASSUME IInv, Next, wpc = "queues", wpc' = "send", NEW i \in DOMAIN batch'
                  PROVE  batch'[i] \notin acked \ raced
        OBVIOUS
    <2>1. PICK d \in Dests : TakeQueue(d)
        BY DEF Next, WorkerStep, RunQueues, MonelStep, Tick, Stop, Crash, Restart, Work, BeginMaintenance,
               DiscardOld, MaintainNote, BeginQueues, SkipDest, GiveUp, Transmit, MarkSent, DoneDest,
               DoneQueues, NewId, SendNote, NewNote, Update, RemoveNotify, SaveNote, Load, BeginPersist,
               SaveStep, SaveRename, EndPersist, EndStop, LookUp, UserAck, Janitor, worker
    <2>2. batch'[i] \in Ids /\ note[batch'[i]] # None /\ note[batch'[i]].active
        BY <2>1, TakeQueueKeeps DEF IInv, Has
    <2>. QED
        BY <2>2 DEF IInv, AckHolds
<1>. QED
    BY <1>1, SpecInvariant, PTL DEF Spec, AckedStaysQuiet

-----------------------------------------------------------------------------
(* Without renotify, one copy of a notification is queued per step of the    *)
(* send table it has taken.  A step it has taken stays taken, so that the    *)
(* bound never shrinks while copies are in the queue, and a notification     *)
(* that was not loaded yet has none.                                         *)
StepsFor(s, d) == {i \in 1..s : d \in SendTo[i].dst}

Where(q, id) == {i \in DOMAIN q : q[i] = id}

OncePerStep ==
    Renotify = 0 =>
        \A d \in Dests, id \in Ids :
            IF Has(id) THEN Copies(d, id) <= Cardinality(StepsFor(note[id].step, d))
                       ELSE Copies(d, id) = 0

(* The steps taken for a destination are finitely many, more with every step.*)
LEMMA StepsGrow ==
    ASSUME NEW d, NEW s \in Nat
    PROVE  /\ IsFiniteSet(StepsFor(s, d)) /\ Cardinality(StepsFor(s, d)) \in Nat
           /\ \A t \in Nat : s <= t => Cardinality(StepsFor(s, d)) <= Cardinality(StepsFor(t, d))
           /\ d \in SendTo[s + 1].dst
                => Cardinality(StepsFor(s + 1, d)) = Cardinality(StepsFor(s, d)) + 1
<1>1. \A t \in Nat : IsFiniteSet(StepsFor(t, d))
    <2>. SUFFICES ASSUME NEW t \in Nat PROVE IsFiniteSet(StepsFor(t, d))
        OBVIOUS
    <2>1. IsFiniteSet(1..t)
        BY FS_Interval
    <2>2. StepsFor(t, d) \subseteq 1..t
        BY DEF StepsFor
    <2>. QED
        BY <2>1, <2>2, FS_Subset
<1>2. ASSUME NEW t \in Nat, s <= t
      PROVE  Cardinality(StepsFor(s, d)) <= Cardinality(StepsFor(t, d))
    <2>1. StepsFor(s, d) \subseteq StepsFor(t, d)
        BY <1>2 DEF StepsFor
    <2>. QED
        BY <1>1, <2>1, FS_Subset
<1>3. ASSUME d \in SendTo[s + 1].dst
      PROVE  Cardinality(StepsFor(s + 1, d)) = Cardinality(StepsFor(s, d)) + 1
    <2>1. StepsFor(s + 1, d) = StepsFor(s, d) \cup {s + 1} /\ s + 1 \notin StepsFor(s, d)
        BY <1>3 DEF StepsFor
    <2>. QED
        BY <1>1, <2>1, FS_AddElement
<1>. QED
    BY <1>1, <1>2, <1>3, FS_CardinalityType

(* The copies in a queue are counted, and one more is appended at a time.    *)
LEMMA CopiesInQueue ==
    ASSUME NEW q \in Seq(Ids), NEW id
    PROVE  IsFiniteSet(Where(q, id)) /\ Cardinality(Where(q, id)) \in Nat
<1>1. Len(q) \in Nat /\ Where(q, id) \subseteq 1..Len(q)
    BY DEF Where
<1>2. IsFiniteSet(1..Len(q))
    BY <1>1, FS_Interval
<1>. QED
    BY <1>1, <1>2, FS_Subset, FS_CardinalityType

(* What appending a sequence does.                                           *)
LEMMA JoinLength ==
    ASSUME NEW q \in Seq(Ids), NEW e \in Seq(Ids)
    PROVE  Len(q \o e) = Len(q) + Len(e)
OBVIOUS

(* Where the elements of both are.                                           *)
LEMMA JoinElements ==
    ASSUME NEW q \in Seq(Ids), NEW e \in Seq(Ids)
    PROVE  /\ \A k \in 1..Len(e) : (q \o e)[Len(q) + k] = e[k]
           /\ \A k \in DOMAIN q : (q \o e)[k] = q[k]
OBVIOUS

(* The same for a sequence of one.                                           *)
LEMMA JoinOne ==
    ASSUME NEW q \in Seq(Ids), NEW e \in Seq(Ids), Len(e) = 1
    PROVE  /\ Len(q \o e) = Len(q) + 1 /\ (q \o e)[Len(q) + 1] = e[1]
           /\ \A k \in DOMAIN q : (q \o e)[k] = q[k]
<1>1. Len(q \o e) = Len(q) + 1
    BY JoinLength
<1>2. 1 \in 1..Len(e) /\ (q \o e)[Len(q) + 1] = e[1]
    BY JoinElements
<1>. QED
    BY <1>1, <1>2, JoinElements

(* A queue that is one longer holds one copy more of what was appended.      *)
LEMMA OneMoreCopy ==
    ASSUME NEW q \in Seq(Ids), NEW r \in Seq(Ids), NEW id,
           Len(r) = Len(q) + 1, r[Len(r)] = id, \A i \in DOMAIN q : r[i] = q[i]
    PROVE  /\ Cardinality(Where(r, id)) = Cardinality(Where(q, id)) + 1
           /\ \A i : i # id => Where(r, i) = Where(q, i)
<1>1. /\ Where(r, id) = Where(q, id) \cup {Len(r)}
      /\ Len(r) \notin Where(q, id)
    BY DEF Where
<1>2. \A i : i # id => Where(r, i) = Where(q, i)
    BY DEF Where
<1>3. IsFiniteSet(Where(q, id))
    BY CopiesInQueue
<1>4. Cardinality(Where(q, id) \cup {Len(r)}) = Cardinality(Where(q, id)) + 1
    BY <1>1, <1>3, FS_AddElement
<1>. QED
    BY <1>1, <1>2, <1>4

(* Without renotify, maybeQueue queues the step it takes, and no other.      *)
LEMMA QueuesItsStep ==
    ASSUME Renotify = 0, NEW n \in Note, NEW d \in Dests
    PROVE  \/ TimesQueued(n, d) = 0
           \/ /\ TimesQueued(n, d) = 1 /\ StepsTaken(n) = n.step + 1
              /\ d \in SendTo[n.step + 1].dst
<1>. DEFINE T == {i \in StepsQueued(n) : d \in SendTo[i].dst \cap Routable}
<1>1. n.step \in Nat
    BY NoteFields, NotifyAssumption
<1>2. StepsQueued(n) = (n.step + 1)..StepsTaken(n)
    BY DEF StepsQueued, Repeats
<1>3. CASE StepsTaken(n) = n.step
    <2>1. T = {}
        BY <1>1, <1>2, <1>3
    <2>. QED
        BY <2>1, FS_EmptySet DEF TimesQueued
<1>4. CASE StepsTaken(n) = n.step + 1
    <2>1. T \subseteq {n.step + 1}
        BY <1>1, <1>2, <1>4
    <2>2. CASE n.step + 1 \in T
        <3>1. T = {n.step + 1}
            BY <2>1, <2>2
        <3>. QED
            BY <1>4, <2>2, <3>1, FS_Singleton DEF TimesQueued
    <2>3. CASE n.step + 1 \notin T
        <3>1. T = {}
            BY <2>1, <2>3
        <3>. QED
            BY <3>1, FS_EmptySet DEF TimesQueued
    <2>. QED
        BY <2>2, <2>3
<1>. QED
    BY <1>3, <1>4 DEF StepsTaken

(* The steps taken by a notification and its copies are numbers,             *)
Counted ==
    /\ \A id \in Ids : Has(id) => note[id].step \in Nat
    /\ \A d \in Dests, id \in Ids :
            /\ Copies(d, id) = Cardinality(Where(queue[d], id))
            /\ Copies(d, id) \in Nat

(* before a step and after it.                                               *)
LEMMA CountedSteps == TypeOK => Counted
<1>. SUFFICES ASSUME TypeOK PROVE Counted
    OBVIOUS
<1>1. ASSUME NEW id \in Ids, Has(id) PROVE note[id].step \in Nat
    <2>1. PICK n \in Note : n = note[id]
        BY <1>1 DEF TypeOK, Has, Maybe
    <2>. QED
        BY <2>1, NoteFields, NotifyAssumption
<1>2. ASSUME NEW d \in Dests, NEW id \in Ids
      PROVE  /\ Copies(d, id) = Cardinality(Where(queue[d], id))
             /\ Copies(d, id) \in Nat
    <2>1. queue[d] \in Seq(Ids)
        BY DEF TypeOK
    <2>. QED
        BY <2>1, CopiesInQueue DEF Copies, Where
<1>. QED
    BY <1>1, <1>2 DEF Counted

(* The same after a step.                                                    *)
LEMMA CountedStepsNext == TypeOK' => Counted'
BY CountedSteps, PTL

(* A step that makes the queue of a destination no longer and takes no step  *)
(* of the send table back keeps the bound.                                   *)
LEMMA BoundKept ==
    ASSUME OncePerStep, TypeOK, TypeOK',
           \A i \in Ids : Has(i) => Has(i)' /\ note'[i].step >= note[i].step,
           \A d \in Dests : queue'[d] = queue[d] \/ queue'[d] = <<>>
    PROVE  OncePerStep'
<1>. SUFFICES ASSUME Renotify = 0, NEW d \in Dests, NEW id \in Ids
              PROVE  IF Has(id)' THEN Copies(d, id)' <= Cardinality(StepsFor(note'[id].step, d))
                                 ELSE Copies(d, id)' = 0
    BY DEF OncePerStep
<1>1. /\ Copies(d, id) = Cardinality(Where(queue[d], id)) /\ Copies(d, id) \in Nat
      /\ Copies(d, id)' = Cardinality(Where(queue'[d], id)) /\ Copies(d, id)' \in Nat
    BY CountedSteps, CountedStepsNext DEF Counted
<1>2. Copies(d, id)' <= Copies(d, id)
    <2>1. CASE queue'[d] = <<>>
        <3>1. Where(queue'[d], id) = {}
            BY <2>1 DEF Where
        <3>. QED
            BY <1>1, <3>1, FS_EmptySet
    <2>2. CASE queue'[d] = queue[d]
        BY <1>1, <2>2
    <2>. QED
        BY <2>1, <2>2
<1>3. CASE Has(id)
    <2>1. note[id].step \in Nat /\ note'[id].step \in Nat /\ note'[id].step >= note[id].step
        BY <1>3, CountedSteps, CountedStepsNext DEF Counted
    <2>2. /\ Cardinality(StepsFor(note[id].step, d)) <= Cardinality(StepsFor(note'[id].step, d))
          /\ Cardinality(StepsFor(note[id].step, d)) \in Nat
          /\ Cardinality(StepsFor(note'[id].step, d)) \in Nat
        BY <2>1, StepsGrow
    <2>3. Copies(d, id) <= Cardinality(StepsFor(note[id].step, d))
        BY <1>3 DEF OncePerStep
    <2>. QED
        BY <1>1, <1>2, <1>3, <2>2, <2>3
<1>4. CASE ~Has(id)
    <2>1. Copies(d, id)' = 0
        BY <1>1, <1>2, <1>4 DEF OncePerStep
    <2>2. CASE Has(id)'
        <3>1. note'[id].step \in Nat
            BY <2>2, CountedStepsNext DEF Counted
        <3>. QED
            BY <2>1, <2>2, <3>1, StepsGrow
    <2>. QED
        BY <2>1, <2>2
<1>. QED
    BY <1>3, <1>4

(* maybeQueue keeps it: a copy more comes with a step more.                  *)
LEMMA QueueingKeepsBound ==
    ASSUME OncePerStep, TypeOK, TypeOK', NEW id \in Ids, Has(id), maybeQueue(id)
    PROVE  OncePerStep'
<1>1. PICK n \in Note : n = note[id]
    BY DEF TypeOK, Has, Maybe
<1>2. CASE ~n.active
    <2>1. UNCHANGED <<note, queue>>
        BY <1>1, <1>2 DEF maybeQueue
    <2>2. \A i \in Ids : Has(i) => Has(i)' /\ note'[i].step >= note[i].step
        BY <2>1, CountedSteps DEF Has, Counted
    <2>. QED
        BY <2>1, <2>2, BoundKept
<1>3. CASE n.active
    <2>1. /\ note' = [note EXCEPT ![id] = Queued(n)]
          /\ queue' = [d \in Dests |-> queue[d] \o [i \in 1..TimesQueued(n, d) |-> id]]
        BY <1>1, <1>3 DEF maybeQueue, TypeOK
    <2>2. Queued(n) \in Note /\ Queued(n).step = StepsTaken(n) /\ Queued(n).step >= n.step
        BY QueuedNote DEF TypeOK, Follows
    <2>3. /\ note'[id] = Queued(n) /\ \A i \in Ids : i # id => note'[i] = note[i]
          /\ \A i \in Ids : Has(i)' <=> Has(i)
        BY <1>1, <2>1, <2>2, Constants DEF TypeOK, Has
    <2>4. n.step \in Nat /\ StepsTaken(n) \in Nat /\ n.step <= StepsTaken(n)
        BY <2>2, NoteFields, NotifyAssumption
    <2>. SUFFICES ASSUME Renotify = 0, NEW d \in Dests, NEW i \in Ids
                  PROVE  IF Has(i)' THEN Copies(d, i)' <= Cardinality(StepsFor(note'[i].step, d))
                                    ELSE Copies(d, i)' = 0
        BY DEF OncePerStep
    <2>5. /\ Copies(d, i) = Cardinality(Where(queue[d], i)) /\ Copies(d, i) \in Nat
          /\ Copies(d, i)' = Cardinality(Where(queue'[d], i)) /\ Copies(d, i)' \in Nat
        BY CountedSteps, CountedStepsNext DEF Counted
    <2>6. IF Has(i) THEN Copies(d, i) <= Cardinality(StepsFor(note[i].step, d)) ELSE Copies(d, i) = 0
        BY DEF OncePerStep
    <2>7. queue'[d] = queue[d] \o [k \in 1..TimesQueued(n, d) |-> id] /\ queue[d] \in Seq(Ids)
          /\ queue'[d] \in Seq(Ids)
        BY <2>1 DEF TypeOK
    <2>8. CASE TimesQueued(n, d) = 0
        <3>1. queue'[d] = queue[d]
            <4>1. [k \in 1..0 |-> id] = <<>>
                OBVIOUS
            <4>. QED
                BY <2>7, <2>8, <4>1
        <3>2. CASE i = id
            <4>1. /\ Cardinality(StepsFor(n.step, d)) <= Cardinality(StepsFor(StepsTaken(n), d))
                  /\ Cardinality(StepsFor(n.step, d)) \in Nat
                  /\ Cardinality(StepsFor(StepsTaken(n), d)) \in Nat
                BY <2>4, StepsGrow
            <4>. QED
                BY <1>1, <2>2, <2>3, <2>5, <2>6, <3>1, <3>2, <4>1
        <3>. QED
            BY <2>3, <2>5, <2>6, <3>1, <3>2
    <2>9. CASE /\ TimesQueued(n, d) = 1 /\ StepsTaken(n) = n.step + 1
               /\ d \in SendTo[n.step + 1].dst
        <3>1. /\ Len(queue'[d]) = Len(queue[d]) + 1 /\ queue'[d][Len(queue'[d])] = id
              /\ \A k \in DOMAIN queue[d] : queue'[d][k] = queue[d][k]
            <4>. DEFINE e == [k \in 1..1 |-> id]
            <4>1. e \in Seq(Ids) /\ Len(e) = 1 /\ e[1] = id
                OBVIOUS
            <4>2. queue'[d] = queue[d] \o e
                BY <2>7, <2>9
            <4>. HIDE DEF e
            <4>3. PICK q, r : q = queue[d] /\ r = queue'[d]
                OBVIOUS
            <4>4. q \in Seq(Ids) /\ r = q \o e
                BY <2>7, <4>2, <4>3
            <4>5. Len(r) = Len(q) + 1 /\ r[Len(r)] = id /\ \A k \in DOMAIN q : r[k] = q[k]
                <5>1. PICK f \in Seq(Ids) : f = e
                    BY <4>1
                <5>. QED
                    BY <4>1, <4>4, <5>1, JoinOne
            <4>. QED
                BY <4>3, <4>5
        <3>2. /\ Cardinality(Where(queue'[d], id)) = Cardinality(Where(queue[d], id)) + 1
              /\ \A k : k # id => Where(queue'[d], k) = Where(queue[d], k)
            <4>1. PICK q \in Seq(Ids), r \in Seq(Ids) : q = queue[d] /\ r = queue'[d]
                BY <2>7
            <4>. QED
                BY <3>1, <4>1, OneMoreCopy
        <3>3. CASE i = id
            <4>1. Cardinality(StepsFor(n.step + 1, d)) = Cardinality(StepsFor(n.step, d)) + 1
                  /\ Cardinality(StepsFor(n.step, d)) \in Nat
                BY <2>4, <2>9, StepsGrow
            <4>. QED
                BY <1>1, <2>2, <2>3, <2>5, <2>6, <2>9, <3>2, <3>3, <4>1
        <3>. QED
            BY <2>3, <2>5, <2>6, <3>2, <3>3
    <2>. QED
        BY <2>8, <2>9, QueuesItsStep
<1>. QED
    BY <1>2, <1>3

(* A notification that goes on or ends takes no step back.                   *)
LEMMA NoStepBack ==
    ASSUME TypeOK, NEW id \in Ids, Has(id), Continues(id) \/ Ends(id)
    PROVE  \A i \in Ids : Has(i) => Has(i)' /\ note'[i].step >= note[i].step
<1>1. PICK n \in Note : OnlyNote(id, n) /\ Follows(n, note[id])
    BY DEF Continues, Ends
<1>2. \A i \in Ids : Has(i) => note[i].step \in Nat
    BY CountedSteps DEF Counted
<1>. QED
    BY <1>1, <1>2, Constants DEF OnlyNote, Follows, Has

(* Every step keeps the bound on copies.                                     *)
LEMMA NextBound ==
    ASSUME IInv, IInv', OncePerStep, [Next]_vars
    PROVE  OncePerStep'
<1>. USE DEF memory, sendq, worker, persist, monel, disk, boot, history, bounds
<1>1. Base /\ TypeOK /\ TypeOK' /\ Known /\ Numbers
    BY DEF IInv, Base
<1>2. ASSUME UNCHANGED <<note, queue>> PROVE OncePerStep'
    BY <1>2, Zenon DEF OncePerStep, Has, Copies
<1>3. ASSUME \A i \in Ids : Has(i) => Has(i)' /\ note'[i].step >= note[i].step,
             queue' = queue
      PROVE  OncePerStep'
    BY <1>1, <1>3, BoundKept
<1>4. ASSUME NEW id \in Ids, Has(id), Continues(id) \/ Ends(id), queue' = queue
      PROVE  OncePerStep'
    BY <1>1, <1>3, <1>4, NoStepBack
<1>5. ASSUME NEW id \in Ids, ~Has(id), UNCHANGED queue,
             \A i \in Ids : i # id => note'[i] = note[i]
      PROVE  OncePerStep'
    <2>1. \A i \in Ids : Has(i) => note[i].step \in Nat
        BY <1>1, CountedSteps DEF Counted
    <2>. QED
        BY <1>3, <1>5, <2>1 DEF Has
<1>6. ASSUME NEW id \in Ids, Has(id), maybeQueue(id) PROVE OncePerStep'
    BY <1>1, <1>6, QueueingKeepsBound
<1>7. CASE \/ Tick \/ Restart \/ NewId \/ SendNote \/ BeginPersist \/ EndPersist \/ Stop \/ EndStop
           \/ BeginMaintenance \/ BeginQueues \/ Transmit \/ DoneDest \/ DoneQueues
           \/ DiscardOld \/ SaveStep \/ UNCHANGED vars
    <2>1. UNCHANGED <<note, queue>>
        BY <1>7 DEF Tick, Restart, NewId, SendNote, BeginPersist, EndPersist, BeginMaintenance,
                    BeginQueues, Transmit, DoneDest, DoneQueues, DiscardOld, SaveStep, SaveNote,
                    SaveRename, Stop, EndStop, vars
    <2>. QED
        BY <1>2, <2>1
<1>8. ASSUME NEW id \in Ids, RemoveNotify(id) \/ LookUp(id) \/ Janitor(id)
      PROVE  OncePerStep'
    <2>1. UNCHANGED <<note, queue>>
        BY <1>8 DEF RemoveNotify, LookUp, Janitor
    <2>. QED
        BY <1>2, <2>1
<1>9. ASSUME NEW d \in Dests, SkipDest(d) \/ GiveUp(d) PROVE OncePerStep'
    <2>1. UNCHANGED <<note, queue>>
        BY <1>9 DEF SkipDest, GiveUp
    <2>. QED
        BY <1>2, <2>1
<1>10. ASSUME NEW st \in NewStatuses, NewNote(st) PROVE OncePerStep'
    <2>1. alloc \in Ids /\ ~Has(alloc) /\ UNCHANGED queue
        BY <1>1, <1>10 DEF NewNote, TypeOK, Maybe, Numbers, Used
    <2>2. \A i \in Ids : i # alloc => note'[i] = note[i]
        BY <1>1, <1>10, NewNoteKeeps DEF OnlyNote
    <2>. QED
        BY <1>5, <2>1, <2>2
<1>11. ASSUME NEW id \in Ids, Load(id) PROVE OncePerStep'
    <2>1. ~Has(id) /\ UNCHANGED queue /\ \A i \in Ids : i # id => note'[i] = note[i]
        BY <1>1, <1>11, LoadKeeps DEF Load, TypeOK
    <2>. QED
        BY <1>5, <2>1
<1>12. ASSUME NEW id \in Ids, NEW st \in Statuses, Update(id, st) PROVE OncePerStep'
    BY <1>1, <1>4, <1>12, UpdateKeeps DEF Update
<1>13. ASSUME NEW id \in Ids, UserAck(id) PROVE OncePerStep'
    BY <1>1, <1>4, <1>13, UserAckKeeps DEF UserAck
<1>14. CASE MarkSent
    BY <1>1, <1>4, <1>14, MarkSentKeeps DEF MarkSent
<1>15. ASSUME NEW id \in Ids, MaintainNote(id) PROVE OncePerStep'
    BY <1>1, <1>4, <1>6, <1>15, MaintainKeeps
<1>16. CASE Work
    <2>1. PICK id \in Ids :
            /\ Has(id)
            /\ \/ /\ id \notin byid /\ byid' = byid \cup {id} /\ Continues(id) /\ maybeQueue(id)
                  /\ actives' = IF note[id].active THEN actives \cup {id} ELSE actives
               \/ Ends(id) /\ UNCHANGED <<byid, queue>>
               \/ UNCHANGED <<note, byid, actives, queue, file, acked, raced>>
        BY <1>1, <1>16, WorkKeeps
    <2>. QED
        BY <1>2, <1>4, <1>6, <2>1
<1>17. ASSUME NEW d \in Dests, TakeQueue(d) PROVE OncePerStep'
    <2>1. UNCHANGED note /\ queue' = [queue EXCEPT ![d] = <<>>]
        BY <1>17 DEF TakeQueue
    <2>2. \A e \in Dests : queue'[e] = queue[e] \/ queue'[e] = <<>>
        BY <1>1, <2>1 DEF TypeOK
    <2>3. \A i \in Ids : Has(i) => Has(i)' /\ note'[i].step >= note[i].step
        BY <1>1, <2>1, CountedSteps DEF Counted, Has
    <2>. QED
        BY <1>1, <2>2, <2>3, BoundKept
<1>18. CASE Crash
    <2>1. \A d \in Dests : queue'[d] = <<>>
        BY <1>18 DEF Crash
    <2>2. \A id \in Ids : ~Has(id)'
        BY <1>18 DEF Crash, Has
    <2>3. \A d \in Dests, id \in Ids : Copies(d, id)' = 0
        <3>. SUFFICES ASSUME NEW d \in Dests, NEW id \in Ids PROVE Copies(d, id)' = 0
            OBVIOUS
        <3>1. {i \in DOMAIN queue'[d] : queue'[d][i] = id} = {}
            BY <2>1
        <3>. QED
            BY <3>1, FS_EmptySet DEF Copies
    <2>. QED
        BY <2>2, <2>3 DEF OncePerStep
<1>19. CASE WorkerStep
    BY <1>7, <1>9, <1>14, <1>15, <1>16, <1>17, <1>19 DEF WorkerStep, RunQueues
<1>20. CASE MonelStep
    BY <1>7, <1>8, <1>10, <1>11, <1>12, <1>20 DEF MonelStep
<1>. QED
    BY <1>7, <1>8, <1>13, <1>18, <1>19, <1>20 DEF Next

(* maybeQueue: without renotify, a notification is in the queue of a         *)
(* destination at most once for every step of the send table it has taken,   *)
(* whatever maintenance, updates, crashes and restarts come in between.      *)
THEOREM QueuedOnce == Spec => []QueuedOncePerStep
<1>1. Init => OncePerStep
    <2>. SUFFICES ASSUME Init, NEW d \in Dests, NEW id \in Ids
                  PROVE  ~Has(id) /\ Copies(d, id) = 0
        BY DEF OncePerStep
    <2>1. {i \in DOMAIN queue[d] : queue[d][i] = id} = {}
        BY DEF Init
    <2>. QED
        BY <2>1, FS_EmptySet DEF Init, Has, Copies
<1>2. IInv /\ IInv' /\ OncePerStep /\ [Next]_vars => OncePerStep'
    BY NextBound
<1>3. IInv /\ OncePerStep => QueuedOncePerStep
    <2>. SUFFICES ASSUME IInv, OncePerStep, Renotify = 0, NEW d \in Dests, NEW id \in Ids,
                         Copies(d, id) > 0
                  PROVE  Copies(d, id) <= Cardinality({i \in 1..note[id].step : d \in SendTo[i].dst})
        BY DEF QueuedOncePerStep
    <2>. QED
        BY DEF OncePerStep, StepsFor
<1>. QED
    BY <1>1, <1>2, <1>3, SpecInvariant, PTL DEF Spec
=============================================================================
