-------------------------------- MODULE Graph --------------------------------
(* The graph data of one object (graph/graphd): a file of a header and three *)
(* rings, of samples, hours and days.  Add writes a sample and what it rolls *)
(* up, then the header; Get reads the header and then one record after the   *)
(* other.  The process may be killed between any two writes.                 *)
(*                                                                           *)
(* Add takes the lock of the object's name, Get the lock of its file's name: *)
(* a reader does not keep the writer out, nor the writer a reader.           *)
(*                                                                           *)
(* Left out: expected values and deviations, which are summed up as values   *)
(* are; the squares; the thinning of what Get returns; units of 4 seconds.   *)
(* A record is written and read at once.                                     *)
EXTENDS AggrStatus, Sequences, SequencesExt, FiniteSetsExt

CONSTANTS
    Samples,        \* [val, status]: what may be added
    Gaps,           \* the times from one sample to the next, in minutes
    Sinces,         \* how long ago readers ask for; 0 is ever
    NMax,           \* SampNMax, HourNMax, DayNMax
    HOUR, DAY,      \* in minutes
    LockOf,         \* lockno: of the name and of the file name
    MaxAdds, MaxCrashes  \* BOUND

ASSUME GraphAssumption ==
    /\ Samples \subseteq [val : Int, status : Nat]
    /\ Gaps \subseteq Nat
    /\ {NMax, HOUR, DAY} \subseteq Nat \ {0}
    /\ Sinces \subseteq 0..DAY
    /\ DAY % HOUR = 0

VARIABLES
    file,       \* h: the header, NoHeader if it has none yet; ring: the records
    mem,        \* the header Add works on
    wpc, cur,   \* where Add is; the sample it adds
    reader,     \* a Get
    now,
    added,      \* HISTORY: the samples whose Add has ended
    writes,     \* HISTORY: samples written
    torn,       \* HISTORY: the last Add did not end
    crashes

graphVars == <<file, mem, wpc, cur, reader, now, added, writes, torn, crashes>>

Rings    == {"samples", "hours", "days"}
NoHeader == [lastt |-> -1]
Zero     == [when |-> 0]
Section  == [idx |-> 0, count |-> 0, n |-> 0, min |-> 0, max |-> 0, sum |-> 0, worst |-> 0]
newHeader == [lastt |-> 0, sect |-> [r \in Rings |-> Section]]
Empty    == [h |-> NoHeader, ring |-> [r \in Rings |-> [k \in 0..(NMax - 1) |-> Zero]]]
NoReader == [pc |-> "idle"]

GraphInit ==
    /\ file = Empty /\ mem = NoHeader /\ wpc = "idle" /\ cur = Zero
    /\ reader = NoReader /\ now = DAY
    /\ added = <<>> /\ writes = 0 /\ torn = FALSE /\ crashes = 0

-----------------------------------------------------------------------------
(* Statuses that say nothing are stored as CLEAR.                            *)
StoredAs(status) == IF status \in {UNKNOWN, DEPENDS} THEN CLEAR ELSE status

(* A file without a good header is made anew.                                *)
AddOpen(s, gap) ==
    /\ wpc = "idle" /\ writes < MaxAdds
    /\ LockOf["name"] = LockOf["file"] => reader.pc # "read"
    /\ now' = now + gap
    /\ cur' = [when |-> now', val |-> s.val, status |-> StoredAs(s.status)]
    /\ file' = IF file.h = NoHeader THEN Empty ELSE file
    /\ mem' = IF file.h = NoHeader THEN newHeader ELSE file.h
    /\ wpc' = "sample"
    /\ UNCHANGED <<reader, added, writes, torn, crashes>>

Written(sect) == [sect EXCEPT !.idx = (@ + 1) % NMax,
                              !.count = Min({@ + 1, NMax})]

AddSample ==
    /\ wpc = "sample"
    /\ file' = [file EXCEPT !.ring["samples"][mem.sect["samples"].idx] = cur]
    /\ mem' = [mem EXCEPT !.sect["samples"] = Written(@)]
    /\ writes' = writes + 1
    /\ wpc' = "days"
    /\ UNCHANGED <<cur, reader, now, added, torn, crashes>>

(* The roll-over compares the hour of the day and the day of the month.      *)
NewPeriod(r, lt, ct) ==
    IF r = "days" THEN (lt \div DAY) % 31 # (ct \div DAY) % 31
    ELSE (lt \div HOUR) % (DAY \div HOUR) # (ct \div HOUR) % (DAY \div HOUR)

summarize(sect, lastt) ==
    [when |-> lastt, n |-> sect.n, min |-> sect.min, max |-> sect.max,
     sum |-> sect.sum, worst |-> sect.worst]

BugReset(sect, val) ==    \* keeps the extremes of the hour before
    [sect EXCEPT !.n = 0, !.sum = 0, !.worst = 0]

reset(sect, val) ==
    [sect EXCEPT !.n = 0, !.min = val, !.max = val, !.sum = 0, !.worst = 0]

add(sect) ==
    [sect EXCEPT !.n = @ + 1, !.min = Min({@, cur.val}), !.max = Max({@, cur.val}),
                 !.sum = @ + cur.val, !.worst = Max({@, cur.status})]

Rolls(r) == NewPeriod(r, mem.lastt, cur.when) /\ mem.sect[r].n > 0

(* roll for days, then for hours; the header counts the sample afterwards.   *)
Roll(r, next) ==
    LET sect == mem.sect[r] IN
    /\ wpc = r /\ wpc' = next
    /\ file' = IF Rolls(r) THEN [file EXCEPT !.ring[r][sect.idx] = summarize(sect, mem.lastt)] ELSE file
    /\ mem' = [mem EXCEPT !.sect[r] = add(IF Rolls(r) THEN reset(Written(sect), cur.val) ELSE sect),
                          !.lastt = IF next = "save" THEN cur.when ELSE @]
    /\ UNCHANGED <<cur, reader, now, added, writes, torn, crashes>>

save ==
    /\ wpc = "save" /\ wpc' = "idle"
    /\ file' = [file EXCEPT !.h = mem]
    /\ added' = Append(added, cur)
    /\ torn' = FALSE
    /\ mem' = NoHeader /\ cur' = Zero
    /\ UNCHANGED <<reader, now, writes, crashes>>

Crash ==
    /\ crashes < MaxCrashes /\ crashes' = crashes + 1
    /\ wpc # "idle" /\ wpc' = "idle"
    /\ torn' = (torn \/ wpc # "sample")
    /\ mem' = NoHeader /\ cur' = Zero
    /\ reader' = NoReader
    /\ UNCHANGED <<file, now, added, writes>>

-----------------------------------------------------------------------------
(* Where Get begins and how many records it reads, from how long ago.        *)
Unit(r) == CASE r = "samples" -> 1 [] r = "hours" -> HOUR [] r = "days" -> DAY
Ago(r, since) == (now - since + Unit(r) - 1) \div Unit(r)

Oldest(sect) == IF sect.count < NMax THEN 0 ELSE sect.idx

(* Go's remainder keeps the sign of the dividend.                            *)
Rem(a, b) == IF a < 0 THEN - ((- a) % b) ELSE a % b

BugSinceFull(sect, ago) == sect.idx - ago    \* does not wrap around

SinceFull(sect, ago) == Rem(sect.idx - ago + NMax, NMax)

getSamples(sect, since) ==
    LET ago == Ago("samples", since)
        s   == sect.idx - ago
    IN  IF since = 0 THEN [start |-> Oldest(sect), num |-> sect.count]
        ELSE [num |-> ago,
              start |-> IF s >= 0 THEN s
                        ELSE IF sect.count < NMax THEN 0 ELSE SinceFull(sect, ago)]

getSummy(r, sect, since) ==
    LET ago == Ago(r, since) IN
    IF since = 0 THEN [start |-> Oldest(sect), num |-> sect.count]
    ELSE [start |-> Rem(Oldest(sect) + NMax - ago, NMax), num |-> ago]

GetOpen(r, ago) ==
    LET since == IF ago = 0 THEN 0 ELSE now - ago
        sect  == file.h.sect[r]
    IN  /\ reader.pc = "idle" /\ file.h # NoHeader
        /\ LockOf["name"] = LockOf["file"] => wpc = "idle"
        /\ reader' = [pc |-> "read", r |-> r, since |-> since, i |-> 0, out |-> <<>>, sect |-> sect,
                      range |-> IF r = "samples" THEN getSamples(sect, since) ELSE getSummy(r, sect, since),
                      ago |-> Ago(r, since),
                      had |-> Len(added), before |-> writes,
                      touched |-> torn \/ wpc \in {"days", "hours", "save"}]
        /\ UNCHANGED <<file, mem, wpc, cur, now, added, writes, torn, crashes>>

(* The reader goes round at the end of the ring.  Before the ring there is   *)
(* no record.                                                                *)
RecordAt(pos) == IF pos < 0 THEN Zero ELSE file.ring[reader.r][pos % NMax]

GetRecord ==
    LET rec == RecordAt(reader.range.start + reader.i) IN
    /\ reader.pc = "read" /\ reader.i < reader.range.num
    /\ reader' = [reader EXCEPT !.i = @ + 1,
                    !.out = IF reader.since > 0 /\ rec.when <= reader.since THEN @ ELSE Append(@, rec)]
    /\ UNCHANGED <<file, mem, wpc, cur, now, added, writes, torn, crashes>>

GetDone == reader.pc = "read" /\ reader.i >= reader.range.num

GetReturns ==
    /\ GetDone /\ reader' = NoReader
    /\ UNCHANGED <<file, mem, wpc, cur, now, added, writes, torn, crashes>>

GraphNext ==
    \/ \E s \in Samples, gap \in Gaps : AddOpen(s, gap)
    \/ AddSample \/ Roll("days", "hours") \/ Roll("hours", "save") \/ save
    \/ Crash
    \/ \E r \in Rings, ago \in Sinces : GetOpen(r, ago)
    \/ GetRecord \/ GetReturns

GraphSpec == GraphInit /\ [][GraphNext]_graphVars

-----------------------------------------------------------------------------
(* What a file should hold after the samples of hist: the samples, and for   *)
(* every hour and day that is over a summary of its samples.  The extremes   *)
(* of the first one include the 0 a new header starts from.                  *)
Period(r, t) == t \div Unit(r)

OfPeriod(r, hist, i) == {j \in DOMAIN hist : Period(r, hist[j].when) = Period(r, hist[i].when)}

Extremes(hist, S) == {hist[j].val : j \in S} \cup (IF 1 \in S THEN {0} ELSE {})

SumOf(hist, S) ==
    LET sum[j \in 0..Len(hist)] ==
            IF j = 0 THEN 0 ELSE sum[j - 1] + (IF j \in S THEN hist[j].val ELSE 0)
    IN  sum[Len(hist)]

SumUp(hist, S) ==
    [when |-> hist[Max(S)].when, n |-> Cardinality(S),
     min |-> Min(Extremes(hist, S)), max |-> Max(Extremes(hist, S)),
     sum |-> SumOf(hist, S), worst |-> Max({hist[j].status : j \in S})]

(* The last samples of the periods that are over.                            *)
Lasts(r, hist) ==
    {i \in 1..(Len(hist) - 1) : Period(r, hist[i].when) # Period(r, hist[i + 1].when)}

Expected(r, hist) ==
    IF r = "samples" THEN hist
    ELSE LET over[i \in 0..Len(hist)] ==
                 IF i = 0 THEN <<>>
                 ELSE IF i \notin Lasts(r, hist) THEN over[i - 1]
                 ELSE Append(over[i - 1], SumUp(hist, OfPeriod(r, hist, i)))
         IN  over[Len(hist)]

LastOf(seq, n) == SubSeq(seq, Len(seq) - Min({n, Len(seq)}) + 1, Len(seq))

(* The hour is rolled over when the hour of the day differs: it need not be  *)
(* after 23 hours or more without samples.                                   *)
NoDayMissed(hist) == \A i \in 1..(Len(hist) - 1) : hist[i + 1].when - hist[i].when <= DAY - HOUR

(* At any time, also after a crash between two writes, the header and the    *)
(* records it counts are those of the samples whose Add has ended.  Only the *)
(* oldest record of a full ring may be one that was written without them.    *)
Unfinished == torn \/ wpc \in {"days", "hours", "save"}

InRing(r) == [k \in 1..file.h.sect[r].count |->
                  file.ring[r][(Oldest(file.h.sect[r]) + k - 1) % NMax]]

HeaderOf(r, hist) == SumUp(hist, OfPeriod(r, hist, Len(hist)))

FileIsTheHistory ==
    added # <<>> /\ NoDayMissed(added) =>
        \A r \in Rings :
            LET want == LastOf(Expected(r, added), NMax)
                sect == file.h.sect[r]
            IN  /\ Len(InRing(r)) = Len(want)
                /\ \A k \in DOMAIN want : (k = 1 /\ Len(want) = NMax /\ Unfinished) \/ InRing(r)[k] = want[k]
                /\ r # "samples" => summarize(sect, file.h.lastt) = HeaderOf(r, added)

(* A Get returns what the file held when it began and is newer than it asks  *)
(* for, in order.  It holds no lock that Add takes: every Add that writes    *)
(* while it reads, or wrote without end before, takes the oldest record of   *)
(* it.  (More than NMax minutes, hours or days ago it may read a record      *)
(* twice or none; and of hours and days that do not fill the ring it finds   *)
(* none unless it asks for all of them.)                                     *)
InReach ==
    reader.since > 0 =>
        reader.ago <= NMax /\ (reader.r = "samples" \/ reader.sect.count = NMax)

(* seq is in the order of time.                                              *)
Newer(seq) ==
    SubSeq(seq, Cardinality({k \in DOMAIN seq : seq[k].when <= reader.since}) + 1, Len(seq))

(* Get takes it that there is one sample a minute; when there are more, it   *)
(* begins too late.                                                          *)
OneAMinute == 0 \notin Gaps

Overwritten == writes - reader.before + (IF reader.touched THEN 1 ELSE 0)

ReadersSeeTheHistory ==
    (/\ GetDone /\ InReach
     /\ NoDayMissed(added)) =>
        LET want == LastOf(Expected(reader.r, SubSeq(added, 1, reader.had)), NMax)
            kept == SubSeq(want, Overwritten + 1, Len(want))
        IN  /\ Overwritten = 0 => reader.out = Newer(want)
            /\ \A k \in DOMAIN Newer(kept) : Contains(reader.out, Newer(kept)[k])

=============================================================================
