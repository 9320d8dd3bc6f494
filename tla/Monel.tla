------------------------------- MODULE Monel -------------------------------
(* The monitored elements, package monel: transition.go, override.go,        *)
(* depends.go and what alias/ and group/ give as children.                   *)
(*                                                                           *)
(* Services report their own status; a group or an alias takes its status    *)
(* from other elements.  An element's work is done with its own lock held    *)
(* (`phase' is not "free") and takes the locks of others, one at a time, to  *)
(* read them.  A change is passed upwards by a goroutine that starts again   *)
(* at the parent once the child is unlocked.  Overrides walk down the tree   *)
(* with no lock held from one element to the next.                           *)
(*                                                                           *)
(* An operator named Bug... is a mistake a later edit could make; the model  *)
(* does not use it, it is there to show that a property would fail.          *)
EXTENDS AggrStatus, Sequences, SequencesExt

CONSTANTS
    Mons,           \* the elements
    None,
    Kids,           \* Me.Children(): for an alias, its target or its children
    Ups,            \* those andUpwards updates: the parent and the aliases
    Down,           \* m.Children, in order: what overrides propagate to
    Needs,          \* the elements each one depends on
    Grav,           \* Cf.Gravity
    Countstop,
    Tracked,        \* BOUND: elements whose place in isdown is followed
    Notifying,      \* elements for which permitNotify says yes
    Reports,        \* statuses that services report
    Users,          \* goroutines that set and remove overrides
    Overridden,     \* BOUND: elements that users override
    Timed,          \* those whose overrides are given an expiry time
    MaxUpdates, MaxOverrides    \* BOUND: how often they do

Services == {m \in Mons : Kids[m] = {}}

(* The steps of a user's call.                                               *)
Calls == {"set", "setting", "del", "deleting", "expire", "expired"}

ASSUME MonelAssumption ==
    /\ None \notin Mons /\ None \notin Calls \X Mons
    /\ Kids \in [Mons -> SUBSET Mons] /\ Ups \in [Mons -> SUBSET Mons]
    /\ Down \in [Mons -> Seq(Mons)] /\ Needs \in [Mons -> SUBSET Mons]
    /\ Grav \in [Mons -> Gravity]
    /\ Countstop \subseteq Mons /\ Tracked \subseteq Mons /\ Notifying \subseteq Mons
    /\ Timed \subseteq Overridden /\ Overridden \subseteq Mons
    /\ Reports \subseteq UNKNOWN..CRITICAL
    /\ \A m \in Mons : m \notin Needs[m] \cup Kids[m]

(* m.Children are trees: New is told one parent, which was made before, and  *)
(* Init adds the element to it once (AddChild).                              *)
ASSUME TreeAssumption ==
    /\ \A m, p \in Mons : \A i \in DOMAIN Down[m], j \in DOMAIN Down[p] :
          Down[m][i] = Down[p][j] => m = p /\ i = j
    /\ \A S \in SUBSET Mons : S # {} => \E m \in S : \A p \in S : m \notin Range(Down[p])

(* No element is its own child's child.  Who reads an element is told when   *)
(* it changes: andUpwards of the element updates its parent and its aliases, *)
(* and an alias that reads the children of its target is updated after it.   *)
ASSUME KidsAssumption ==
    /\ \A S \in SUBSET Mons : S # {} => \E m \in S : Kids[m] \cap S = {}
    /\ \A m \in Mons : \A c \in Kids[m] : m \in Ups[c] \/ \E p \in Ups[c] : m \in Ups[p]

VARIABLES
    raw, ov,        \* P.Status, P.OvStatus
    summary,        \* P.OvStatusSummary
    override,       \* P.Override: 0, or the number of the override
    ancInOv,        \* P.AncInOv
    phase,          \* what the holder of m.Lock is doing, "free" if none
    todo, got,      \* elements it has yet to read, and what it has read
    was,            \* its OvStatus when it began
    upward,         \* goroutines about to UpUpdate an element
    marking,        \* goroutines about to run updateIsDown: <<element, status>>
    isdown, inoverride, \* the package's maps
    op,             \* what each user is doing: <<call, element>>, or None
    walk,           \* what is left of its ovPropDown
    timers,         \* At()s of setOverrideExpire: <<element, override>>
    expired,        \* overrides whose time has come
    met,            \* HISTORY: where calls were made that overlapped each user's
    contested,      \* HISTORY: what was last written by a call that met another
    looked,         \* HISTORY: overrides, when a timer found one expired
    notice,         \* HISTORY: the last notification made
    updates, overrides \* BOUND

status == <<raw, ov, summary>>
lock   == <<phase, todo, got, was>>
pkg    == <<isdown, inoverride>>
hist   == <<met, contested, looked>>
usr    == <<op, walk, timers, expired, hist>>
vars == <<status, override, ancInOv, lock, upward, marking, pkg, usr, notice, updates, overrides>>

Zero == [s \in Status |-> 0]
Only(s) == [Zero EXCEPT ![s] = 1]
Plus(f, g) == [s \in Status |-> f[s] + g[s]]
SumOf(f) == MapThenFoldSet(Plus, Zero, LAMBDA k : f[k], LAMBDA T : CHOOSE k \in T : TRUE, DOMAIN f)

(* What has been read, and one more.                                         *)
Also(f, c, v) == [x \in DOMAIN f \cup {c} |-> IF x = c THEN v ELSE f[x]]

Free(m) == phase[m] = "free"
Determining(m) == phase[m] \in {"update", "reupdate"}
Depending(m) == phase[m] \in {"depend", "redepend"}
----------------------------------------------------------------------------
(* determineAggrStatus: both aggregates, from the children's raw statuses rs *)
(* and statuses os.                                                          *)
AggrRaw(m, rs) == IF m \in Services THEN raw[m] ELSE calcAggrStatus(Grav[m], CRITICAL, rs)

AggrOv(m, os) == IF m \in Services THEN raw[m] ELSE calcAggrStatus(Grav[m], MAXSTATUS, os)

checkOverride(m, r, o) ==
    IF r \notin {CLEAR, UNKNOWN} /\ o # DEPENDS /\ override[m] # 0 THEN OVERRIDE ELSE o

(* determineSummary: total is the sum of the children's.                     *)
BugSummary(m, total) ==
    IF m \in Services \cup Countstop THEN Only(was[m])
    ELSE IF override[m] # 0 THEN [Zero EXCEPT ![OVERRIDE] = Len(Down[m])]
    ELSE total

Summary(m, total) ==
    IF m \in Services \cup Countstop THEN Only(ov[m])
    ELSE IF override[m] # 0 THEN [Zero EXCEPT ![OVERRIDE] = Len(Down[m])]
    ELSE total

Summed(m) == IF m \in Countstop \/ override[m] # 0 THEN {} ELSE Kids[m]

(* maybeNotify.                                                              *)
BugNotifies(m, prev) ==
    /\ m \in Notifying
    /\ ov[m] \in CLEAR..CRITICAL
    /\ ov[m] = CLEAR => prev \notin {UNKNOWN, OVERRIDE, DEPENDS}

Notifies(m, prev) ==
    /\ m \in Notifying
    /\ ov[m] \in CLEAR..CRITICAL
    /\ ov[m] = CLEAR => prev \notin {UNKNOWN, OVERRIDE, DEPENDS}
    /\ ~ancInOv[m]
----------------------------------------------------------------------------
(* DoneConfig works from the leaves to the root.                             *)
FirstOv[m \in Mons] ==
    IF m \in Services THEN UNKNOWN
    ELSE calcAggrStatus(Grav[m], MAXSTATUS, [k \in Kids[m] |-> FirstOv[k]])

FirstSummary[m \in Mons] ==
    IF m \in Services \cup Countstop THEN Only(FirstOv[m]) ELSE SumOf([k \in Kids[m] |-> FirstSummary[k]])

Init ==
    /\ ov = FirstOv /\ raw = FirstOv
    /\ summary = FirstSummary
    /\ override = [m \in Mons |-> 0] /\ ancInOv = [m \in Mons |-> FALSE]
    /\ phase = [m \in Mons |-> "free"] /\ todo = [m \in Mons |-> {}]
    /\ got = [m \in Mons |-> <<>>] /\ was = [m \in Mons |-> UNKNOWN]
    /\ upward = {} /\ marking = {} /\ isdown = {} /\ inoverride = {}
    /\ op = [u \in Users |-> None] /\ walk = [u \in Users |-> <<>>]
    /\ timers = {} /\ expired = {}
    /\ met = [u \in Users |-> {}] /\ contested = {} /\ looked = [u \in Users |-> 0]
    /\ notice = None
    /\ updates = 0 /\ overrides = 0

(* m.Update: a service reports a status.                                     *)
Update(m, st) ==
    /\ m \in Services /\ Free(m)
    /\ st # raw[m]
    /\ updates < MaxUpdates
    /\ updates' = updates + 1
    /\ raw' = [raw EXCEPT ![m] = st]
    /\ was' = [was EXCEPT ![m] = ov[m]]
    /\ phase' = [phase EXCEPT ![m] = "update"]
    /\ UNCHANGED <<ov, summary, override, ancInOv, todo, got, upward, marking, pkg, usr, notice,
                   overrides>>

(* UpUpdate, and the ReUpdate that ends SetOverride and DelOverride.         *)
ReUpdate(m) ==
    /\ m \in upward /\ Free(m)
    /\ upward' = upward \ {m}
    /\ was' = [was EXCEPT ![m] = ov[m]]
    /\ phase' = [phase EXCEPT ![m] = "reupdate"]
    /\ todo' = [todo EXCEPT ![m] = Kids[m]]
    /\ UNCHANGED <<status, override, ancInOv, got, marking, pkg, usr, notice, updates, overrides>>

(* child.Status() waits for the child's lock, with m's held.                 *)
ReadChild(m, c) ==
    /\ Determining(m)
    /\ c \in todo[m] /\ Free(c)
    /\ todo' = [todo EXCEPT ![m] = @ \ {c}]
    /\ got' = [got EXCEPT ![m] = Also(@, c, <<raw[c], ov[c]>>)]
    /\ UNCHANGED <<status, override, ancInOv, phase, was, upward, marking, pkg, usr, notice,
                   updates, overrides>>

determineAggrStatus(m) ==
    /\ Determining(m) /\ todo[m] = {}
    /\ raw' = [raw EXCEPT ![m] = AggrRaw(m, [c \in DOMAIN got[m] |-> got[m][c][1]])]
    /\ ov' = [ov EXCEPT ![m] = AggrOv(m, [c \in DOMAIN got[m] |-> got[m][c][2]])]
    /\ got' = [got EXCEPT ![m] = <<>>]
    /\ todo' = [todo EXCEPT ![m] = Needs[m]]
    /\ phase' = [phase EXCEPT ![m] = IF @ = "update" THEN "depend" ELSE "redepend"]
    /\ UNCHANGED <<summary, override, ancInOv, was, upward, marking, pkg, usr, notice, updates,
                   overrides>>

(* checkDepends stops at the first dependency that is down.                  *)
checkDepends(m, d) ==
    /\ Depending(m)
    /\ d \in todo[m] /\ Free(d)
    /\ \/ /\ ov[d] \notin {CLEAR, UNKNOWN}
          /\ ov' = [ov EXCEPT ![m] = DEPENDS]
          /\ todo' = [todo EXCEPT ![m] = {}]
       \/ /\ ov[d] \in {CLEAR, UNKNOWN}
          /\ todo' = [todo EXCEPT ![m] = @ \ {d}]
          /\ UNCHANGED ov
    /\ UNCHANGED <<raw, summary, override, ancInOv, phase, got, was, upward, marking, pkg, usr,
                   notice, updates, overrides>>

(* The end of determineStatus.  A service whose OvStatus has not changed is  *)
(* done; in all other cases commonUpdate or commonUpdateNoChange begins.     *)
Determined(m) ==
    /\ Depending(m) /\ todo[m] = {}
    /\ LET o == checkOverride(m, raw[m], ov[m])
       IN  /\ ov' = [ov EXCEPT ![m] = o]
           /\ \/ /\ phase[m] = "depend" /\ o = was[m]
                 /\ phase' = [phase EXCEPT ![m] = "free"]
                 /\ was' = [was EXCEPT ![m] = UNKNOWN]
                 /\ UNCHANGED <<todo, marking>>
              \/ /\ phase[m] = "redepend" \/ o # was[m]
                 /\ phase' = [phase EXCEPT ![m] = "sum"]
                 /\ todo' = [todo EXCEPT ![m] = Summed(m)]
                 /\ marking' = marking \cup ({<<m, o>>} \cap (Tracked \X Status))
                 /\ UNCHANGED was
    /\ UNCHANGED <<raw, summary, override, ancInOv, got, upward, pkg, usr, notice, updates,
                   overrides>>

ReadSummary(m, c) ==
    /\ phase[m] = "sum"
    /\ c \in todo[m] /\ Free(c)
    /\ todo' = [todo EXCEPT ![m] = @ \ {c}]
    /\ got' = [got EXCEPT ![m] = Also(@, c, summary[c])]
    /\ UNCHANGED <<status, override, ancInOv, phase, was, upward, marking, pkg, usr, notice,
                   updates, overrides>>

(* The rest of commonUpdate or commonUpdateNoChange, to the unlock.          *)
BugUpwardsFirst(m) == {u \in Ups[m] : m \in Range(Down[u])}

Upwards(m) == Ups[m]

Propagated(m) ==
    /\ phase[m] = "sum" /\ todo[m] = {}
    /\ summary' = [summary EXCEPT ![m] = Summary(m, SumOf(got[m]))]
    /\ notice' = IF ov[m] # was[m] /\ Notifies(m, was[m]) THEN <<m, ov[m]>> ELSE notice
    /\ upward' = upward \cup Upwards(m)
    /\ phase' = [phase EXCEPT ![m] = "free"]
    /\ got' = [got EXCEPT ![m] = <<>>] /\ was' = [was EXCEPT ![m] = UNKNOWN]
    /\ UNCHANGED <<raw, ov, override, ancInOv, todo, marking, pkg, usr, updates, overrides>>

BugCommonUpdate(m) == Propagated(m) /\ \A p \in Ups[m] : Free(p)

commonUpdate(m) == Propagated(m)

(* The goroutine of commonUpdate.  Two that would do the same are one here.  *)
updateIsDown(g) ==
    /\ g \in marking
    /\ marking' = marking \ {g}
    /\ isdown' = IF g[2] \in {UNKNOWN, CLEAR, OVERRIDE, DEPENDS} THEN isdown \ {g[1]}
                 ELSE isdown \cup {g[1]}
    /\ UNCHANGED <<status, override, ancInOv, lock, upward, inoverride, usr, notice, updates,
                   overrides>>
----------------------------------------------------------------------------
(* override.go.                                                              *)

(* The descendants ovPropDown reaches: the children, theirs, and so on.      *)
Complete(S) == \A m \in S : Range(Down[m]) \subseteq S

Under == [m \in Mons |-> {c \in Mons :
             \A S \in SUBSET Mons : Range(Down[m]) \subseteq S /\ Complete(S) => c \in S}]

(* The calls that set or remove an override, and what is kept of their       *)
(* meeting: one that begins meets all others, and they meet it.              *)
Writing == {u \in Users : op[u] # None /\ op[u][1] \in {"set", "setting", "del", "deleting"}}

Meet(u, m) ==
    met' = [v \in Users |-> IF v = u THEN {op[x][2] : x \in Writing}
                           ELSE IF v \in Writing THEN met[v] \cup {m} ELSE met[v]]

(* A value of element m's is written, by a call that met one that may write  *)
(* it as well, or not.                                                       *)
Contest(what, m, contends) ==
    contested' = IF contends THEN contested \cup {<<what, m>>} ELSE contested \ {<<what, m>>}

SetOverride(u, m) ==
    /\ op[u] = None /\ Free(m)
    /\ m \in Overridden /\ overrides < MaxOverrides
    /\ overrides' = overrides + 1
    /\ override' = [override EXCEPT ![m] = overrides + 1]
    /\ op' = [op EXCEPT ![u] = <<"set", m>>]
    /\ Meet(u, m)
    /\ UNCHANGED <<status, ancInOv, lock, upward, marking, pkg, walk, timers, expired, contested,
                   looked, notice, updates>>

(* By a user, or by overrideExpire.                                          *)
DelOverride(u, m) ==
    /\ \/ op[u] = <<"expired", m>> /\ UNCHANGED overrides
       \/ /\ op[u] = None /\ override[m] # 0
          /\ overrides < MaxOverrides
          /\ overrides' = overrides + 1
    /\ Free(m)
    /\ override' = [override EXCEPT ![m] = 0]
    /\ op' = [op EXCEPT ![u] = <<"del", m>>]
    /\ Meet(u, m)
    /\ looked' = [looked EXCEPT ![u] = 0]
    /\ UNCHANGED <<status, ancInOv, lock, upward, marking, pkg, walk, timers, expired, contested,
                   notice, updates>>

(* The package's map, under the package lock.                                *)
ListOverride(u, m) ==
    /\ \/ /\ op[u] = <<"set", m>>
          /\ inoverride' = inoverride \cup {m}
          /\ op' = [op EXCEPT ![u] = <<"setting", m>>]
       \/ /\ op[u] = <<"del", m>>
          /\ inoverride' = inoverride \ {m}
          /\ op' = [op EXCEPT ![u] = <<"deleting", m>>]
    /\ walk' = [walk EXCEPT ![u] = <<<<"visit", m>>>>]
    /\ Contest("list", m, m \in met[u])
    /\ UNCHANGED <<status, override, ancInOv, lock, upward, marking, isdown, timers, expired, met,
                   looked, notice, updates, overrides>>

(* ovPropDown: visit an element to read the value for its children, then for *)
(* each child assign the value ("mark" or "clear") and visit it.             *)
BugInherited(m) == override[m] # 0

Inherited(m) == override[m] # 0 \/ ancInOv[m]

Visit(u, m) ==
    /\ walk[u] # <<>> /\ Head(walk[u]) = <<"visit", m>>
    /\ Free(m)
    /\ LET v == IF Inherited(m) THEN "mark" ELSE "clear"
       IN  walk' = [walk EXCEPT ![u] = [i \in DOMAIN Down[m] |-> <<v, Down[m][i]>>] \o Tail(@)]
    /\ UNCHANGED <<status, override, ancInOv, lock, upward, marking, pkg, op, timers, expired,
                   hist, notice, updates, overrides>>

Assign(u, m) ==
    /\ walk[u] # <<>> /\ Head(walk[u]) \in {<<"mark", m>>, <<"clear", m>>}
    /\ Free(m)
    /\ ancInOv' = [ancInOv EXCEPT ![m] = (Head(walk[u])[1] = "mark")]
    /\ walk' = [walk EXCEPT ![u] = <<<<"visit", m>>>> \o Tail(@)]
    /\ Contest("mark", m, \E n \in met[u] : m \in Under[n])
    /\ UNCHANGED <<status, override, lock, upward, marking, pkg, op, timers, expired, met, looked,
                   notice, updates, overrides>>

EndWalk(u, m) ==
    /\ walk[u] = <<>>
    /\ \/ /\ op[u] = <<"setting", m>>
          /\ op' = [op EXCEPT ![u] = IF m \in Timed THEN <<"expire", m>> ELSE None]
       \/ /\ op[u] = <<"deleting", m>>
          /\ op' = [op EXCEPT ![u] = None]
    /\ upward' = upward \cup {m}
    /\ met' = [met EXCEPT ![u] = {}]
    /\ UNCHANGED <<status, override, ancInOv, lock, marking, pkg, walk, timers, expired, contested,
                   looked, notice, updates, overrides>>

setOverrideExpire(u, m) ==
    /\ op[u] = <<"expire", m>> /\ Free(m)
    /\ op' = [op EXCEPT ![u] = None]
    /\ timers' = timers \cup ({<<m, override[m]>>} \ {<<m, 0>>})
    /\ UNCHANGED <<status, override, ancInOv, lock, upward, marking, pkg, walk, expired, hist,
                   notice, updates, overrides>>

TimePasses(id) ==
    /\ id \in {override[m] : m \in Timed} \cup {t[2] : t \in timers}
    /\ id \notin expired \cup {0}
    /\ expired' = expired \cup {id}
    /\ UNCHANGED <<status, override, ancInOv, lock, upward, marking, pkg, op, walk, timers, hist,
                   notice, updates, overrides>>

BugStillRight(m, t) == override[m] # 0

BugExpiresLater(m, t) == override[m] \in expired \ {t[2]}

HasExpired(m, t) == override[m] \in expired

(* The timer t has gone off.  The check and the removal are two separate     *)
(* sections.                                                                 *)
overrideExpire(u, t) ==
    /\ op[u] = None
    /\ t \in timers /\ t[2] \in expired
    /\ Free(t[1])
    /\ timers' = timers \ {t}
    /\ \/ /\ HasExpired(t[1], t)
          /\ op' = [op EXCEPT ![u] = <<"expired", t[1]>>]
          /\ looked' = [looked EXCEPT ![u] = overrides]
       \/ /\ ~HasExpired(t[1], t)
          /\ UNCHANGED <<op, looked>>
    /\ UNCHANGED <<status, override, ancInOv, lock, upward, marking, pkg, walk, expired, met,
                   contested, notice, updates, overrides>>

(* What the goroutine at work on an element does next.                       *)
Proceed(m) ==
    \/ ReUpdate(m) \/ determineAggrStatus(m) \/ Determined(m) \/ commonUpdate(m)
    \/ \E c \in Mons : ReadChild(m, c) \/ checkDepends(m, c) \/ ReadSummary(m, c)

(* What a user's call does next, once it has begun.                          *)
Continue(u) ==
    \E m \in Mons :
        \/ ListOverride(u, m) \/ Visit(u, m) \/ Assign(u, m) \/ EndWalk(u, m)
        \/ setOverrideExpire(u, m)
        \/ DelOverride(u, m) /\ op[u] # None

Next ==
    \/ \E m \in Mons : Proceed(m) \/ \E st \in Reports : Update(m, st)
    \/ \E u \in Users :
        \/ Continue(u)
        \/ \E m \in Mons : SetOverride(u, m) \/ DelOverride(u, m)
        \/ \E t \in timers : overrideExpire(u, t)
    \/ \E g \in marking : updateIsDown(g)
    \/ \E id \in 1..MaxOverrides : TimePasses(id)

Spec == Init /\ [][Next]_vars

----------------------------------------------------------------------------
Phases == {"free", "update", "reupdate", "depend", "redepend", "sum"}

TypeOK ==
    /\ raw \in [Mons -> UNKNOWN..CRITICAL] /\ ov \in [Mons -> Status]
    /\ \A m \in Mons : \A s \in Status : summary[m][s] \in Nat
    /\ override \in [Mons -> 0..overrides] /\ ancInOv \in [Mons -> BOOLEAN]
    /\ phase \in [Mons -> Phases] /\ todo \in [Mons -> SUBSET Mons]
    /\ \A m \in Mons : DOMAIN got[m] \subseteq Kids[m] /\ was[m] \in Status
    /\ \A m \in Mons : Free(m) => todo[m] = {} /\ got[m] = <<>>
    /\ upward \subseteq Mons /\ marking \subseteq Mons \X Status
    /\ isdown \subseteq Mons /\ inoverride \subseteq Mons
    /\ \A u \in Users : walk[u] # <<>> => op[u] # None
    /\ timers \subseteq Mons \X (1..overrides) /\ expired \subseteq 1..overrides
    /\ met \in [Users -> SUBSET Mons] /\ contested \subseteq {"mark", "list"} \X Mons
    /\ looked \in [Users -> 0..overrides]

(* No update is under way or about to begin, and no override is being set.   *)
Idle == \A u \in Users : op[u] = None
Quiet == upward = {} /\ Idle /\ \A m \in Mons : Free(m)

(* What determineStatus would make of an element now.                        *)
Current(m) ==
    checkOverride(m, raw[m], AggrOv(m, [c \in Kids[m] |-> ov[c]]))

(* When all is quiet, every element that depends on no other has the status  *)
(* its children's add up to: no report is lost on its way up, however the    *)
(* goroutines of andUpwards overtake one another.                            *)
StatusesAddUp ==
    Quiet => \A m \in Mons : Needs[m] = {} => ov[m] = Current(m)

(* The counts shown for an element are the sums of its children's counts     *)
(* (determineSummary).                                                       *)
SummariesAddUp ==
    Quiet => \A m \in Mons :
        /\ Kids[m] = {} => summary[m] = Only(ov[m])
        /\ Kids[m] # {} /\ m \notin Countstop /\ override[m] = 0
              => summary[m] = SumOf([c \in Kids[m] |-> summary[c]])

(* Both, however the updates of several elements overlap.                    *)
AddsUp == StatusesAddUp /\ SummariesAddUp

AncestorInOv(m) == \E a \in Mons : m \in Under[a] /\ override[a] # 0

(* No call that reaches m is under way, and its mark, and those above it,    *)
(* were last written by calls that met no other which reaches them.          *)
Settled(m) ==
    /\ \A u \in Writing : m \notin Under[op[u][2]]
    /\ \A a \in Mons : m = a \/ m \in Under[a] => <<"mark", a>> \notin contested

MarksAreRight == \A m \in Mons : Settled(m) => ancInOv[m] = AncestorInOv(m)

ListIsRight ==
    \A m \in Mons :
        (\A u \in Writing : op[u][2] # m) /\ <<"list", m>> \notin contested
        => (m \in inoverride <=> override[m] # 0)

(* An element knows of the overrides above it, and is listed if it has one   *)
(* of its own, when no call that reaches it is under way (override.go:99,    *)
(* "set AncInOv on all descendants").  The only calls that can leave it      *)
(* wrong are two that overlap and both reach it, until one that meets no     *)
(* other writes it again; calls elsewhere in the tree never do, nor does a   *)
(* timer that looks meanwhile.                                               *)
OverridesAreKnown == MarksAreRight /\ ListIsRight

(* "do not notify if an ancestor is in override" (transition.go:157), unless *)
(* a call that reaches the element is under way or left it wrong.            *)
QuietUnderOverride ==
    [][notice' # notice /\ Settled(notice'[1]) => ~AncestorInOv(notice'[1])]_vars

(* A timed override does not stay for ever: while it is in force there is a  *)
(* timer for it, or a call that will set one or remove it.                   *)
OverridesExpire ==
    \A m \in Timed :
        \/ override[m] = 0 \/ <<m, override[m]>> \in timers
        \/ \E u \in Users : op[u] \in {"set", "setting", "expire", "expired"} \X {m}

(* transition.go:100, of isdown: "keep track of all down elements".          *)
IsDownIsCurrent ==
    Quiet /\ marking = {} => isdown = {m \in Tracked : ov[m] \in WARNING..CRITICAL}

(* A timer looks at the override there is before it removes it: the one      *)
(* removed has expired, unless it was set after that look (overrideExpire    *)
(* and DelOverride lock one after the other) or is gone.                     *)
ExpiredIsRemoved ==
    [][\A u \in Users, m \in Mons :
          op[u] = <<"expired", m>> /\ op'[u] # op[u]
          => override[m] \in expired \cup {0} \/ override[m] > looked[u]]_vars

(* Goroutines never wait for each other in a circle when no dependencies are *)
(* circular: while some element is locked, one of those who hold a lock can  *)
(* go on.  A parent waits for its children's locks with its own held, never  *)
(* the other way round (andUpwards).                                         *)
HoldersProceed ==
    (\E m \in Mons : ~Free(m)) => \E m \in Mons : ~Free(m) /\ ENABLED Proceed(m)
=============================================================================
