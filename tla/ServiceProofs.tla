--------------------------- MODULE ServiceProofs ---------------------------
(* For every number of workers, testers, slaves and retries, and every       *)
(* gravity: a service is tested by no more goroutines at a time than one and *)
(* those whose test was given up; as long as none was, it is down only with  *)
(* its retries spent, and its masters were sent the status it has.           *)
EXTENDS Service, FiniteSetTheorems, TLAPS

(* Who is testing the service.                                               *)
Busy == {t \in Testers : Testing(t)}

(* What OneTestAtATime says as long as no test was given up.                 *)
Alone ==
    aborts = 0 =>
        /\ \A t \in Testers : Testing(t) => running
        /\ \A t, u \in Testers : Testing(t) /\ Testing(u) => t = u

(* What a tester carries to the masters and to p.Statuses agrees with the    *)
(* count of retries, and when it comes to store it the masters have it.      *)
CarriedIsCounted ==
    aborts = 0 => \A t \in Testers :
        step[t] \in {"telling", "storing"} =>
            \/ val[t] = CLEAR
            \/ tries = Retries + 1

StoredWasSent ==
    aborts = 0 => \A t \in Testers : step[t] = "storing" => told = val[t]

IInv ==
    /\ TypeOK
    /\ Alone
    /\ CarriedIsCounted
    /\ StoredWasSent
    /\ DownMeansRetriesSpent
    /\ MastersAgree
----------------------------------------------------------------------------
(* A set of severities that is not empty has a least and a greatest one.     *)
LEMMA Extremes ==
    ASSUME NEW S \in SUBSET (CLEAR..CRITICAL), S # {}
    PROVE  Lowest(S) \in S /\ Highest(S) \in S
<1>1. \E s \in S : \A r \in S : s <= r
    <2>1. CASE 1 \in S
        BY <2>1 DEF CLEAR, CRITICAL
    <2>2. CASE 1 \notin S /\ 2 \in S
        BY <2>2 DEF CLEAR, CRITICAL
    <2>3. CASE 1 \notin S /\ 2 \notin S /\ 3 \in S
        BY <2>3 DEF CLEAR, CRITICAL
    <2>4. CASE 1 \notin S /\ 2 \notin S /\ 3 \notin S
        <3>1. \A r \in S : r = 4 \/ r = 5
            BY <2>4 DEF CLEAR, CRITICAL
        <3>2. CASE 4 \in S
            BY <3>1, <3>2
        <3>3. CASE 4 \notin S
            <4>1. ASSUME NEW r \in S, r = 4 PROVE FALSE
                BY <3>3, <4>1, Zenon
            <4>2. \A r \in S : r = 5
                BY <3>1, <4>1
            <4>3. 5 \in S
                BY <4>2, Zenon
            <4>. QED
                BY <4>2, <4>3
        <3>. QED
            BY <3>2, <3>3
    <2>. QED
        BY <2>1, <2>2, <2>3, <2>4
<1>2. \E s \in S : \A r \in S : r <= s
    <2>1. CASE 5 \in S
        BY <2>1 DEF CLEAR, CRITICAL
    <2>2. CASE 5 \notin S /\ 4 \in S
        BY <2>2 DEF CLEAR, CRITICAL
    <2>3. CASE 5 \notin S /\ 4 \notin S /\ 3 \in S
        BY <2>3 DEF CLEAR, CRITICAL
    <2>4. CASE 5 \notin S /\ 4 \notin S /\ 3 \notin S
        <3>1. \A r \in S : r = 1 \/ r = 2
            BY <2>4 DEF CLEAR, CRITICAL
        <3>2. CASE 2 \in S
            BY <3>1, <3>2
        <3>3. CASE 2 \notin S
            <4>1. ASSUME NEW r \in S, r = 2 PROVE FALSE
                BY <3>3, <4>1, Zenon
            <4>2. \A r \in S : r = 1
                BY <3>1, <4>1
            <4>3. 1 \in S
                BY <4>2, Zenon
            <4>. QED
                BY <4>2, <4>3
        <3>. QED
            BY <3>2, <3>3
    <2>. QED
        BY <2>1, <2>2, <2>3, <2>4
<1>. QED
    BY <1>1, <1>2 DEF Lowest, Highest

(* CalcAggrStatus gives a severity, or the status reported last.             *)
LEMMA AggregateIsStatus ==
    ASSUME NEW grav, NEW mystatus \in UNKNOWN..CRITICAL, NEW st, NEW servers
    PROVE  CalcAggrStatus(grav, mystatus, st, servers) \in UNKNOWN..CRITICAL
<1> DEFINE voters == Voters(grav, st, servers)
<1> DEFINE seen == Occurring([h \in voters |-> st[h]], CRITICAL)
<1> DEFINE best == Reached(st, voters, Majority(Cardinality(voters)), CRITICAL)
<1>1. seen \in SUBSET (CLEAR..CRITICAL)
    BY DEF Occurring
<1>2. best \in SUBSET (CLEAR..CRITICAL)
    BY DEF Reached
<1>3. seen # {} => Lowest(seen) \in CLEAR..CRITICAL /\ Highest(seen) \in CLEAR..CRITICAL
    BY <1>1, Extremes
<1>4. best # {} => Lowest(best) \in CLEAR..CRITICAL
    BY <1>2, Extremes
<1>5. CalcAggrStatus(grav, mystatus, st, servers) =
        CASE grav = "self" -> mystatus
          [] grav = "up" -> IF seen = {} THEN CLEAR ELSE Lowest(seen)
          [] grav = "down" -> IF seen = {} THEN CLEAR ELSE Highest(seen)
          [] OTHER -> IF best = {} THEN CLEAR ELSE Lowest(best)
    BY DEF CalcAggrStatus
<1>6. CLEAR \in UNKNOWN..CRITICAL /\ CLEAR..CRITICAL \subseteq UNKNOWN..CRITICAL
    BY DEF CLEAR, UNKNOWN, CRITICAL
<1> HIDE DEF voters, seen, best
<1>7. CASE grav = "self"
    BY <1>5, <1>7
<1>8. CASE grav = "up"
    BY <1>3, <1>5, <1>6, <1>8
<1>9. CASE grav = "down"
    BY <1>3, <1>5, <1>6, <1>9
<1>10. CASE grav \notin {"self", "up", "down"}
    BY <1>4, <1>5, <1>6, <1>10
<1>. QED
    BY <1>7, <1>8, <1>9, <1>10
----------------------------------------------------------------------------
LEMMA SomeTesters == Cardinality(Testers) \in Nat /\ Cardinality(Testers) > 0
    BY FS_CardinalityType, FS_EmptySet, ServiceAssumption

(* Before the first start nothing runs and nothing was reported.             *)
LEMMA InitInvariant == Init => IInv
<1> SUFFICES ASSUME Init PROVE IInv
    OBVIOUS
<1>1. TypeOK
    <2>1. up \in [Servers -> BOOLEAN] /\ up[Me]
        BY Zenon DEF Init, Servers
    <2>2. tries \in 0..(Retries + 1) /\ aborts \in 0..Cardinality(Testers)
        BY ServiceAssumption, SomeTesters DEF Init
    <2>3. UNKNOWN \in UNKNOWN..CRITICAL
        BY DEF UNKNOWN, CRITICAL
    <2>4. /\ running \in BOOLEAN /\ old \in BOOLEAN
          /\ statuses \in [Servers -> UNKNOWN..CRITICAL]
          /\ at \in [Workers -> {"idle", "refused", "aborting"}]
          /\ step \in [Reporters -> Steps]
          /\ val \in [Reporters -> UNKNOWN..CRITICAL]
          /\ mon \in UNKNOWN..CRITICAL /\ told \in UNKNOWN..CRITICAL
        BY <2>3 DEF Init, Steps
    <2>. QED
        BY <2>1, <2>2, <2>4 DEF TypeOK
<1>2. \A t \in Testers : step[t] = "idle"
    BY DEF Init, Reporters
<1>3. told = statuses[Me] /\ statuses[Me] = UNKNOWN
    BY DEF Init, Servers
<1>. QED
    BY <1>1, <1>2, <1>3 DEF IInv, Alone, CarriedIsCounted, StoredWasSent,
       DownMeansRetriesSpent, MastersAgree, Testing

(* A step that the tests of the service do not see, or after which some test *)
(* has been given up.                                                        *)
LEMMA AsidePreserves ==
    ASSUME IInv, TypeOK',
           \/ aborts' # 0
           \/ /\ UNCHANGED <<aborts, running, tries, told>>
              /\ statuses'[Me] = statuses[Me]
              /\ \A t \in Testers : step'[t] = step[t] /\ val'[t] = val[t]
    PROVE  IInv'
    BY DEF IInv, Alone, CarriedIsCounted, StoredWasSent, DownMeansRetriesSpent,
       MastersAgree, Testing

(* What tester t does with a test is all that happens to the service, as     *)
(* long as no test was given up.                                             *)
OwnStep(t) ==
    /\ step[t] # "idle"
    /\ aborts' = aborts
    /\ \A u \in Testers : u # t => step'[u] = step[u]
    /\ step'[t] # "idle" => running'
    /\ step'[t] \in {"telling", "storing"} => val'[t] = CLEAR \/ tries' = Retries + 1
    /\ step'[t] = "storing" => told' = val'[t]
    /\ /\ step'[t] \notin {"telling", "storing"}
       /\ statuses'[Me] \notin {UNKNOWN, CLEAR}
       => tries' = Retries + 1
    /\ step'[t] # "storing" => told' = statuses'[Me]

(* Only one tester has a test, so the invariant is about that one.           *)
LEMMA OwnPreserves ==
    ASSUME NEW t \in Testers, IInv, TypeOK', aborts = 0 => OwnStep(t), aborts' = aborts
    PROVE  IInv'
<1>1. CASE aborts # 0
    BY <1>1, AsidePreserves
<1>2. CASE aborts = 0
    <2>1. OwnStep(t)
        BY <1>2
    <2>2. \A u \in Testers : u # t => step[u] = "idle" /\ step'[u] = "idle"
        BY <1>2, <2>1 DEF IInv, Alone, Testing, OwnStep
    <2>3. Alone'
        BY <2>1, <2>2 DEF Alone, Testing, OwnStep
    <2>4. CarriedIsCounted' /\ StoredWasSent'
        BY <2>1, <2>2 DEF CarriedIsCounted, StoredWasSent, OwnStep
    <2>5. DownMeansRetriesSpent' /\ MastersAgree'
        BY <2>1, <2>2 DEF DownMeansRetriesSpent, MastersAgree, OwnStep
    <2>. QED
        BY <2>3, <2>4, <2>5 DEF IInv
<1>. QED
    BY <1>1, <1>2

(* While tester t has the only test, the invariant says this of it.          *)
LEMMA OwnFacts ==
    ASSUME NEW t \in Testers, IInv, aborts = 0, step[t] # "idle"
    PROVE  /\ running
           /\ step[t] \in {"telling", "storing"} => val[t] = CLEAR \/ tries = Retries + 1
           /\ step[t] = "storing" => told = val[t]
           /\ /\ step[t] \notin {"telling", "storing"}
              /\ statuses[Me] \notin {UNKNOWN, CLEAR}
              => tries = Retries + 1
           /\ step[t] # "storing" => told = statuses[Me]
<1>1. running /\ \A u \in Testers : u # t => step[u] = "idle"
    BY DEF IInv, Alone, Testing
<1>. QED
    BY <1>1 DEF IInv, CarriedIsCounted, StoredWasSent, DownMeansRetriesSpent, MastersAgree

(* One step for each action.                                                 *)
LEMMA NextInvariant == IInv /\ [Next]_vars => IInv'
<1> SUFFICES ASSUME IInv, [Next]_vars PROVE IInv'
    OBVIOUS
<1>t. TypeOK
    BY DEF IInv
<1>a. Testers \subseteq Reporters /\ Slaves \subseteq Reporters /\ Me \in Servers
    BY DEF Reporters, Servers
<1>h. /\ \A t \in Testers : Host(t) = Me
      /\ \A s \in Slaves : Host(s) = s /\ s # Me /\ s \in Servers /\ s \notin Testers
    BY ServiceAssumption DEF Host, Servers
<1>1. ASSUME NEW t \in Testers, BeginTest(t) PROVE IInv'
    <2>1. /\ ~running /\ running' /\ running' \in BOOLEAN
          /\ step[t] = "idle" /\ step' = [step EXCEPT ![t] = "testing"]
          /\ UNCHANGED <<old, tries, statuses, up, at, val, mon, told, aborts>>
        BY <1>1 DEF BeginTest, Free, Goes
    <2>2. TypeOK'
        BY <1>t, <1>a, <2>1 DEF TypeOK, Steps
    <2>3. /\ step'[t] = "testing"
          /\ \A u \in Testers : u # t => step'[u] = step[u]
        BY <1>t, <1>a, <2>1 DEF TypeOK
    <2>4. Alone'
        BY <2>1, <2>3 DEF IInv, Alone, Testing
    <2>. QED
        BY <2>1, <2>2, <2>3, <2>4 DEF IInv, CarriedIsCounted, StoredWasSent,
           DownMeansRetriesSpent, MastersAgree
<1>2. ASSUME NEW w \in Workers, Refuse(w) \/ CheckAge(w) PROVE IInv'
    <2>1. /\ at' \in [Workers -> {"idle", "refused", "aborting"}]
          /\ UNCHANGED <<running, old, tries, statuses, up, step, val, mon, told, aborts>>
        BY <1>t, <1>2 DEF TypeOK, Refuse, CheckAge
    <2>2. TypeOK'
        BY <1>t, <2>1 DEF TypeOK
    <2>. QED
        BY <2>1, <2>2, AsidePreserves
<1>3. ASSUME NEW w \in Workers, Abort(w) PROVE IInv'
    <2>0. Cardinality(Testers) \in Nat /\ Cardinality(Testers) > 0
        BY SomeTesters
    <2>1. aborts' # 0 /\ aborts' \in 0..Cardinality(Testers)
        BY <1>t, <1>3, <2>0 DEF TypeOK, Abort
    <2>2. TypeOK'
        BY <1>t, <1>3, <2>1 DEF TypeOK, Abort
    <2>. QED
        BY <2>1, <2>2, AsidePreserves
<1>4. ASSUME Age PROVE IInv'
    <2>1. TypeOK'
        BY <1>t, <1>4 DEF TypeOK, Age
    <2>. QED
        BY <1>4, <2>1, AsidePreserves DEF Age
<1>5. ASSUME NEW t \in Testers, Lose(t) \/ Skip(t) PROVE IInv'
    <2>1. /\ step[t] = "testing"
          /\ \/ step' = [step EXCEPT ![t] = "idle"]
             \/ step' = [step EXCEPT ![t] = "done"]
          /\ UNCHANGED <<running, old, tries, statuses, up, at, val, mon, told, aborts>>
        BY <1>5 DEF Lose, Skip, Goes
    <2>2. TypeOK'
        BY <1>t, <2>1 DEF TypeOK, Steps
    <2>3. /\ step'[t] \in {"idle", "done"}
          /\ \A u \in Testers : u # t => step'[u] = step[u]
        BY <1>t, <1>a, <2>1 DEF TypeOK
    <2>4. aborts = 0 => OwnStep(t)
        BY <2>1, <2>3, OwnFacts DEF OwnStep
    <2>. QED
        BY <2>1, <2>2, <2>4, OwnPreserves
<1>6. ASSUME NEW t \in Testers, NEW status \in CLEAR..CRITICAL, NEW n \in 0..(Retries + 1),
             SetResult(t, status, n), n = tries \/ n = Retries + 1
      PROVE  IInv'
    <2>1. /\ step[t] = "testing"
          /\ UNCHANGED <<running, old, statuses, up, at, mon, told, aborts>>
        BY <1>6 DEF SetResult, Goes
    <2>2. status \in UNKNOWN..CRITICAL
        BY DEF UNKNOWN, CLEAR, CRITICAL
    <2>3. CASE status = CLEAR /\ tries' = 0 /\ Goes(t, "testing", "telling")
               /\ val' = [val EXCEPT ![t] = status]
        <3>0. 0 \in 0..(Retries + 1)
            BY ServiceAssumption
        <3>1. TypeOK'
            BY <1>t, <2>1, <2>2, <2>3, <3>0 DEF TypeOK, Steps, Goes
        <3>2. /\ step'[t] = "telling" /\ val'[t] = CLEAR
              /\ \A u \in Testers : u # t => step'[u] = step[u]
            BY <1>t, <1>a, <2>3 DEF TypeOK, Goes
        <3>3. aborts = 0 => OwnStep(t)
            BY <2>1, <3>2, OwnFacts DEF OwnStep
        <3>. QED
            BY <2>1, <3>1, <3>3, OwnPreserves
    <2>4. CASE n <= Retries /\ tries' = n + 1 /\ Goes(t, "testing", "done") /\ UNCHANGED val
        <3>1. n = tries /\ n + 1 \in 0..(Retries + 1)
            BY <1>6, <2>4, ServiceAssumption
        <3>2. TypeOK'
            BY <1>t, <2>1, <2>4, <3>1 DEF TypeOK, Steps, Goes
        <3>3. /\ step'[t] = "done"
              /\ \A u \in Testers : u # t => step'[u] = step[u]
            BY <1>t, <1>a, <2>4 DEF TypeOK, Goes
        <3>4. tries # Retries + 1
            BY <2>4, <3>1, ServiceAssumption
        <3>5. aborts = 0 => OwnStep(t)
            BY <2>1, <3>3, <3>4, OwnFacts DEF OwnStep
        <3>. QED
            BY <2>1, <3>2, <3>5, OwnPreserves
    <2>5. CASE n > Retries /\ tries' = n /\ Goes(t, "testing", "telling")
               /\ val' = [val EXCEPT ![t] = status]
        <3>1. n = Retries + 1
            BY <2>5, ServiceAssumption
        <3>2. TypeOK'
            BY <1>t, <2>1, <2>2, <2>5 DEF TypeOK, Steps, Goes
        <3>3. /\ step'[t] = "telling"
              /\ \A u \in Testers : u # t => step'[u] = step[u]
            BY <1>t, <1>a, <2>5 DEF TypeOK, Goes
        <3>4. aborts = 0 => OwnStep(t)
            BY <2>1, <2>5, <3>1, <3>3, OwnFacts DEF OwnStep
        <3>. QED
            BY <2>1, <3>2, <3>4, OwnPreserves
    <2>. QED
        BY <1>6, <2>3, <2>4, <2>5 DEF SetResult, SilentUntil
<1>7. ASSUME NEW t \in Testers, SendUpdate(t) PROVE IInv'
    <2>1. /\ step[t] = "telling" /\ step' = [step EXCEPT ![t] = "storing"]
          /\ told' = IF val[t] # statuses[Me] THEN val[t] ELSE told
          /\ UNCHANGED <<running, old, tries, statuses, up, at, val, mon, aborts>>
        BY <1>7 DEF SendUpdate, Goes, AfterSend, IsNews
    <2>2. TypeOK'
        BY <1>t, <1>a, <2>1 DEF TypeOK, Steps
    <2>3. /\ step'[t] = "storing"
          /\ \A u \in Testers : u # t => step'[u] = step[u]
        BY <1>t, <1>a, <2>1 DEF TypeOK
    <2>4. aborts = 0 => OwnStep(t)
        BY <2>1, <2>3, OwnFacts DEF OwnStep
    <2>. QED
        BY <2>1, <2>2, <2>4, OwnPreserves
<1>8. ASSUME NEW r \in Reporters, setResultForL(r) PROVE IInv'
    <2> DEFINE combined == Combined(val[r], statuses')
    <2>1. /\ step[r] = "storing" /\ step' = [step EXCEPT ![r] = "updating"]
          /\ statuses' = [statuses EXCEPT ![Host(r)] = val[r]]
          /\ val' = [val EXCEPT ![r] = combined]
          /\ UNCHANGED <<running, old, tries, up, at, mon, told, aborts>>
        BY <1>8 DEF setResultForL, Goes
    <2>2. combined \in UNKNOWN..CRITICAL
        BY <1>t, AggregateIsStatus DEF TypeOK, Combined
    <2> HIDE DEF combined
    <2>3. TypeOK'
        BY <1>t, <2>1, <2>2 DEF TypeOK, Steps
    <2>4. /\ step'[r] = "updating"
          /\ \A u \in Testers : u # r => step'[u] = step[u] /\ val'[u] = val[u]
        BY <1>t, <1>a, <2>1 DEF TypeOK
    <2>5. CASE r \in Testers
        <3>1. statuses'[Me] = val[r]
            BY <1>t, <1>a, <1>h, <2>1, <2>5 DEF TypeOK
        <3>2. aborts = 0 => OwnStep(r)
            BY <2>1, <2>4, <2>5, <3>1, OwnFacts DEF OwnStep
        <3>. QED
            BY <2>1, <2>3, <2>5, <3>2, OwnPreserves
    <2>6. CASE r \in Slaves
        <3>1. statuses'[Me] = statuses[Me]
            BY <1>t, <1>a, <1>h, <2>1, <2>6 DEF TypeOK
        <3>. QED
            BY <1>h, <2>1, <2>3, <2>4, <2>6, <3>1, AsidePreserves
    <2>. QED
        BY <2>5, <2>6 DEF Reporters
<1>9. ASSUME NEW r \in Reporters, Update(r) PROVE IInv'
    <2>1. /\ step[r] = "updating"
          /\ step' = [step EXCEPT ![r] = IF r \in Slaves THEN "idle" ELSE "done"]
          /\ val' = [val EXCEPT ![r] = UNKNOWN] /\ mon' = val[r]
          /\ UNCHANGED <<running, old, tries, statuses, up, at, told, aborts>>
        BY <1>9 DEF Update, Goes
    <2>2. UNKNOWN \in UNKNOWN..CRITICAL
        BY DEF UNKNOWN, CRITICAL
    <2>3. TypeOK'
        BY <1>t, <2>1, <2>2 DEF TypeOK, Steps
    <2>4. /\ step'[r] \in {"idle", "done"}
          /\ \A u \in Testers : u # r => step'[u] = step[u] /\ val'[u] = val[u]
        BY <1>t, <1>a, <2>1 DEF TypeOK
    <2>5. CASE r \in Testers
        <3>1. aborts = 0 => OwnStep(r)
            BY <2>1, <2>4, <2>5, OwnFacts DEF OwnStep
        <3>. QED
            BY <2>1, <2>3, <2>5, <3>1, OwnPreserves
    <2>6. CASE r \in Slaves
        BY <1>h, <2>1, <2>3, <2>4, <2>6, AsidePreserves
    <2>. QED
        BY <2>5, <2>6 DEF Reporters
<1>10. ASSUME NEW t \in Testers, Done(t) PROVE IInv'
    <2>1. /\ step[t] = "done" /\ step' = [step EXCEPT ![t] = "idle"]
          /\ running' = FALSE /\ old' = FALSE
          /\ UNCHANGED <<tries, statuses, up, at, val, mon, told, aborts>>
        BY <1>10 DEF Done, Goes
    <2>2. TypeOK'
        BY <1>t, <2>1 DEF TypeOK, Steps
    <2>3. /\ step'[t] = "idle"
          /\ \A u \in Testers : u # t => step'[u] = step[u]
        BY <1>t, <1>a, <2>1 DEF TypeOK
    <2>4. aborts = 0 => OwnStep(t)
        BY <2>1, <2>3, OwnFacts DEF OwnStep
    <2>. QED
        BY <2>1, <2>2, <2>4, OwnPreserves
<1>11. ASSUME NEW s \in Slaves, SlaveReport(s) PROVE IInv'
    <2>1. PICK status \in Verdicts : val' = [val EXCEPT ![s] = status]
        BY <1>11 DEF SlaveReport
    <2>2. status \in UNKNOWN..CRITICAL
        BY <2>1, ServiceAssumption DEF UNKNOWN, CLEAR, CRITICAL
    <2>3. /\ step' = [step EXCEPT ![s] = "storing"]
          /\ UNCHANGED <<running, old, tries, statuses, up, at, mon, told, aborts>>
        BY <1>11 DEF SlaveReport, Goes
    <2>4. TypeOK'
        BY <1>t, <2>1, <2>2, <2>3 DEF TypeOK, Steps
    <2>5. \A u \in Testers : step'[u] = step[u] /\ val'[u] = val[u]
        BY <1>t, <1>a, <1>h, <2>1, <2>3 DEF TypeOK
    <2>. QED
        BY <2>3, <2>4, <2>5, AsidePreserves
<1>12. ASSUME NEW s \in Slaves, UpOrDown(s) PROVE IInv'
    <2>1. /\ up' = [up EXCEPT ![s] = ~up[s]]
          /\ UNCHANGED <<running, old, tries, statuses, at, step, val, mon, told, aborts>>
        BY <1>12 DEF UpOrDown
    <2>2. up' \in [Servers -> BOOLEAN] /\ up'[Me]
        BY <1>t, <1>a, <1>h, <2>1 DEF TypeOK
    <2>3. TypeOK'
        BY <1>t, <2>1, <2>2 DEF TypeOK
    <2>. QED
        BY <2>1, <2>3, AsidePreserves
<1>13. CASE UNCHANGED vars
    <2>1. TypeOK'
        BY <1>t, <1>13 DEF TypeOK, vars
    <2>. QED
        BY <1>13, <2>1, AsidePreserves DEF vars
<1>14. ASSUME NEW t \in Testers, Result(t) \/ FailNow(t) PROVE IInv'
    <2>1. CASE Result(t)
        <3>1. PICK status \in Verdicts : SetResult(t, status, tries)
            BY <2>1 DEF Result
        <3>. QED
            BY <1>6, <1>t, <3>1, ServiceAssumption DEF TypeOK
    <2>2. CASE FailNow(t)
        <3>1. SetResult(t, Severity, Retries + 1) /\ Retries + 1 \in 0..(Retries + 1)
            BY <2>2, ServiceAssumption DEF FailNow, NoMoreRetries
        <3>. QED
            BY <1>6, <3>1, ServiceAssumption
    <2>. QED
        BY <1>14, <2>1, <2>2
<1>. QED
    BY <1>a, <1>1, <1>2, <1>3, <1>4, <1>5, <1>7, <1>8, <1>9, <1>10, <1>11, <1>12, <1>13, <1>14
       DEF Next, WorkerStep, TesterStep, SlaveStep

(* The invariant holds in every state of the specification.                  *)
THEOREM Invariance == Spec => []IInv
    BY InitInvariant, NextInvariant, PTL DEF Spec

(* The state of the service, whatever its tests and the other servers do.    *)
THEOREM TypeCorrect == Spec => []TypeOK
<1>1. IInv => TypeOK
    BY DEF IInv
<1>. QED
    BY <1>1, Invariance, PTL
----------------------------------------------------------------------------
(* How many are testing: a step adds a tester only if the latch is free, and *)
(* clears the latch only when it takes a tester off or gives a test up.      *)
LEMMA BusyIsFinite ==
    ASSUME NEW S \in SUBSET Testers
    PROVE  IsFiniteSet(S) /\ Cardinality(S) \in Nat /\ Cardinality(S) <= Cardinality(Testers)
    BY FS_Subset, FS_CardinalityType, ServiceAssumption

LEMMA OneMore ==
    ASSUME TypeOK, OneTestAtATime, NEW t \in Testers, Busy' \subseteq Busy \cup {t},
           ~running, running' = TRUE, aborts' = aborts
    PROVE  OneTestAtATime'
<1>1. Cardinality(Busy) <= aborts /\ aborts \in Nat
    BY SomeTesters DEF OneTestAtATime, Busy, TypeOK
<1>2. Busy \in SUBSET Testers /\ Busy \cup {t} \in SUBSET Testers /\ Busy' \in SUBSET Testers
    BY DEF Busy
<1>3. IsFiniteSet(Busy) /\ IsFiniteSet(Busy \cup {t}) /\ Cardinality(Busy) \in Nat
    BY <1>2, BusyIsFinite
<1>4. Cardinality(Busy \cup {t}) <= Cardinality(Busy) + 1
    BY <1>3, FS_AddElement
<1>5. Cardinality(Busy') <= Cardinality(Busy \cup {t})
    BY <1>3, FS_Subset
<1>6. Cardinality(Busy') \in Nat /\ Cardinality(Busy \cup {t}) \in Nat
    BY <1>2, BusyIsFinite
<1>7. Cardinality(Busy') <= aborts + 1
    BY <1>1, <1>3, <1>4, <1>5, <1>6
<1>. QED
    BY <1>7 DEF OneTestAtATime, Busy

LEMMA OneLess ==
    ASSUME TypeOK, OneTestAtATime, NEW t \in Busy, Busy' = Busy \ {t},
           running' \in {running, FALSE}, aborts' = aborts
    PROVE  OneTestAtATime'
<1>1. Cardinality(Busy) <= aborts + (IF running THEN 1 ELSE 0) /\ aborts \in Nat
    BY SomeTesters DEF OneTestAtATime, Busy, TypeOK
<1>2. Busy \in SUBSET Testers /\ Busy \ {t} \in SUBSET Testers
    BY DEF Busy
<1>3. IsFiniteSet(Busy) /\ Cardinality(Busy) \in Nat /\ Cardinality(Busy \ {t}) \in Nat
    BY <1>2, BusyIsFinite
<1>4. Cardinality(Busy') = Cardinality(Busy) - 1
    BY <1>3, FS_RemoveElement
<1>5. Cardinality(Busy') <= aborts + (IF running' THEN 1 ELSE 0)
    BY <1>1, <1>3, <1>4
<1>. QED
    BY <1>5 DEF OneTestAtATime, Busy

LEMMA GivenUp ==
    ASSUME TypeOK, OneTestAtATime, Busy' = Busy, running' = FALSE,
           aborts' = IF aborts < Cardinality(Testers) THEN aborts + 1 ELSE aborts
    PROVE  OneTestAtATime'
<1>1. /\ Cardinality(Busy) <= aborts + (IF running THEN 1 ELSE 0)
      /\ aborts \in Nat /\ aborts <= Cardinality(Testers) /\ Cardinality(Testers) \in Nat
    BY SomeTesters DEF OneTestAtATime, Busy, TypeOK
<1>2. Cardinality(Busy) \in Nat /\ Cardinality(Busy) <= Cardinality(Testers)
    BY BusyIsFinite DEF Busy
<1>3. Cardinality(Busy) <= aborts'
    BY <1>1, <1>2
<1>4. Cardinality(Busy') <= aborts' + (IF running' THEN 1 ELSE 0)
    BY <1>1, <1>3
<1>. QED
    BY <1>4 DEF OneTestAtATime, Busy

LEMMA CountPreserved == TypeOK /\ OneTestAtATime /\ [Next]_vars => OneTestAtATime'
<1> SUFFICES ASSUME TypeOK, OneTestAtATime, [Next]_vars PROVE OneTestAtATime'
    OBVIOUS
<1>s. step \in [Reporters -> Steps] /\ Testers \subseteq Reporters
    BY DEF TypeOK, Reporters
<1>d. Slaves \cap Testers = {}
    BY ServiceAssumption
<1>k. ASSUME Busy' = Busy, UNCHANGED <<running, aborts>> PROVE OneTestAtATime'
    BY <1>k DEF OneTestAtATime, Busy
<1>1. ASSUME NEW t \in Testers, BeginTest(t) PROVE OneTestAtATime'
    <2>1. /\ ~running /\ running' = TRUE /\ aborts' = aborts
          /\ step' = [step EXCEPT ![t] = "testing"]
        BY <1>1 DEF BeginTest, Free, Goes
    <2>2. Busy' \subseteq Busy \cup {t}
        BY <1>s, <2>1 DEF Busy, Testing
    <2>. QED
        BY <2>1, <2>2, OneMore
<1>2. ASSUME NEW w \in Workers, Refuse(w) \/ CheckAge(w) PROVE OneTestAtATime'
    BY <1>2, <1>k DEF Refuse, CheckAge, Busy, Testing
<1>3. ASSUME NEW w \in Workers, Abort(w) PROVE OneTestAtATime'
    BY <1>3, GivenUp DEF Abort, Busy, Testing
<1>4. ASSUME NEW t \in Testers, step[t] # "idle", step' = [step EXCEPT ![t] = "idle"],
             running' \in {running, FALSE}, aborts' = aborts
      PROVE  OneTestAtATime'
    <2>1. t \in Busy /\ Busy' = Busy \ {t}
        BY <1>s, <1>4 DEF Busy, Testing
    <2>. QED
        BY <1>4, <2>1, OneLess
<1>5. ASSUME NEW r \in Reporters, NEW to \in Steps, step[r] # "idle", to # "idle",
             step' = [step EXCEPT ![r] = to], UNCHANGED <<running, aborts>>
      PROVE  OneTestAtATime'
    <2>1. Busy' = Busy
        BY <1>s, <1>5 DEF Busy, Testing
    <2>. QED
        BY <1>5, <1>k, <2>1
<1>6. ASSUME NEW s \in Slaves, NEW to \in Steps, step' = [step EXCEPT ![s] = to],
             UNCHANGED <<running, aborts>>
      PROVE  OneTestAtATime'
    <2>1. Busy' = Busy
        BY <1>s, <1>d, <1>6 DEF Busy, Testing
    <2>. QED
        BY <1>6, <1>k, <2>1
<1>7. ASSUME NEW t \in Testers, Lose(t) \/ Done(t) PROVE OneTestAtATime'
    BY <1>4, <1>7 DEF Lose, Done, Goes
<1>8. ASSUME NEW t \in Testers, NEW status, NEW n, SetResult(t, status, n) PROVE OneTestAtATime'
    <2>1. /\ step[t] = "testing" /\ UNCHANGED <<running, aborts>>
          /\ \/ step' = [step EXCEPT ![t] = "telling"]
             \/ step' = [step EXCEPT ![t] = "done"]
        BY <1>8 DEF SetResult, Goes
    <2>. QED
        BY <1>s, <1>5, <2>1 DEF Steps
<1>9. ASSUME NEW t \in Testers, Skip(t) \/ SendUpdate(t) PROVE OneTestAtATime'
    <2>1. /\ step[t] # "idle" /\ UNCHANGED <<running, aborts>>
          /\ \/ step' = [step EXCEPT ![t] = "done"]
             \/ step' = [step EXCEPT ![t] = "storing"]
        BY <1>9 DEF Skip, SendUpdate, AfterSend, Goes
    <2>. QED
        BY <1>s, <1>5, <2>1 DEF Steps
<1>10. ASSUME NEW r \in Reporters, setResultForL(r) PROVE OneTestAtATime'
    BY <1>5, <1>10 DEF setResultForL, Goes, Steps
<1>11. ASSUME NEW r \in Reporters, Update(r) PROVE OneTestAtATime'
    <2>1. /\ step[r] = "updating" /\ UNCHANGED <<running, aborts>>
          /\ step' = [step EXCEPT ![r] = IF r \in Slaves THEN "idle" ELSE "done"]
        BY <1>11 DEF Update, Goes
    <2>2. CASE r \in Slaves
        BY <1>6, <2>1, <2>2 DEF Steps
    <2>3. CASE r \notin Slaves
        BY <1>5, <2>1, <2>3 DEF Steps
    <2>. QED
        BY <2>2, <2>3
<1>12. ASSUME NEW s \in Slaves, SlaveReport(s) PROVE OneTestAtATime'
    BY <1>6, <1>12 DEF SlaveReport, Goes, Steps
<1>13. ASSUME Age \/ (\E s \in Slaves : UpOrDown(s)) \/ UNCHANGED vars PROVE OneTestAtATime'
    BY <1>13, <1>k DEF Age, UpOrDown, vars, Busy, Testing
<1>. QED
    BY <1>1, <1>2, <1>3, <1>7, <1>8, <1>9, <1>10, <1>11, <1>12, <1>13
       DEF Next, WorkerStep, TesterStep, SlaveStep, Result, FailNow, Reporters

(* tasRunning and Done keep a second test of the service from starting while *)
(* one is on, however many workers come to start it; a test that was given   *)
(* up, and may go on and be done late, lets in one more and never two.       *)
THEOREM NeverTwoTests == Spec => []OneTestAtATime
<1>1. Init => OneTestAtATime
    <2>1. ASSUME Init PROVE {t \in Testers : Testing(t)} = {} /\ aborts = 0 /\ ~running
        BY <2>1 DEF Init, Reporters, Testing
    <2>. QED
        BY <2>1, FS_EmptySet DEF OneTestAtATime
<1>. QED
    BY <1>1, TypeCorrect, CountPreserved, PTL DEF Spec
----------------------------------------------------------------------------
(* SetResult reports a failure only when the retries are used up.            *)
THEOREM RetriesComeFirst == Spec => []DownMeansRetriesSpent
<1>1. IInv => DownMeansRetriesSpent
    BY DEF IInv
<1>. QED
    BY <1>1, Invariance, PTL

(* Sending changes only is enough: masters were sent the status that is      *)
(* stored, although it is stored after it is sent.                           *)
THEOREM MastersHaveIt == Spec => []MastersAgree
<1>1. IInv => MastersAgree
    BY DEF IInv
<1>. QED
    BY <1>1, Invariance, PTL
=============================================================================
