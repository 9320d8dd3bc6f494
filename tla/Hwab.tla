-------------------------------- MODULE Hwab --------------------------------
(* The baseline of a measured value (service/hwab.go): for every bucket of a *)
(* period an expected value C and a deviation D.  It is filled in the first  *)
(* period (bootstrap1), its holes are interpolated, it is refined in the     *)
(* second (bootstrap2) and from then on follows the value (hw).  It is saved *)
(* with the service and must survive restarts, gaps, a new period and        *)
(* resets.                                                                   *)
(*                                                                           *)
(* The numbers are left out: a deviation is 0, which the code takes for "not *)
(* known", some number, or not a number (NaN), which Sqrt makes of a         *)
(* variance that rounding left below 0.  Time is counted in windows of TWIN  *)
(* seconds.  Saving is atomic here (Persist reads without h.lock).           *)
EXTENDS Integers, FiniteSetsExt

CONSTANTS
    Lengths,        \* of the period, in buckets, that the configuration may have
    GapMax,         \* 5 buckets
    MaxWindow,      \* BOUND on the clock
    MaxResets, MaxRestores  \* BOUND

ASSUME HwabAssumption == Lengths \subseteq Nat \ {0} /\ {GapMax, MaxWindow, MaxResets, MaxRestores} \subseteq Int

VARIABLES
    hwab,           \* buckets, Pbuckets, Created, Count, Lap, D, cstart, dn
    window,         \* of what was added since cstart: "none", "zero" or "some"
    saved,          \* the file of the service, Unsaved if there is none or it is empty
    clock,
    resets, restores

hwabVars == <<hwab, window, saved, clock, resets, restores>>

Naught == "zero"
Some == "some"
NaN  == "NaN"
Unsaved == [Pbuckets |-> 0]
Nothing(n) == [i \in 0 .. n - 1 |-> Naught]

(* The configuration makes an empty baseline that starts now.                *)
HwabConfig(n) == [buckets |-> n, Pbuckets |-> 0, Created |-> clock, Count |-> 0, Lap |-> 0,
                  D |-> Nothing(n), cstart |-> clock, dn |-> Naught]

(* A bucket's index; Go's % keeps the sign.                                  *)
idx(h, i) == IF i + h.buckets >= 0 THEN (i + h.buckets) % h.buckets
             ELSE -((-(i + h.buckets)) % h.buckets)
idxOfT(h, t) == idx(h, t - h.Created)

(* A sum and a mean of non-negative numbers.                                 *)
Sum2(a, b) == IF NaN \in {a, b} THEN NaN ELSE IF Some \in {a, b} THEN Some ELSE Naught
Total(S)   == IF NaN \in S THEN NaN ELSE IF Some \in S THEN Some ELSE Naught

predict(h) == [h EXCEPT !.dn = h.D[idxOfT(h, clock)]]

Reset(h) == [h EXCEPT !.Created = clock, !.Lap = 0, !.Count = 0,
                      !.D = [i \in DOMAIN @ |-> IF i < h.buckets THEN Naught ELSE @[i]]]

-----------------------------------------------------------------------------
(* The value v of a window (zero, or not) with the deviation s.              *)
bootstrap1(h, v, s, si) ==
    LET d  == IF h.D[idx(h, si - 1)] = Naught THEN s ELSE h.D[idx(h, si - 1)]
        dt == Sum2(Sum2(v, s), d) IN        \* dx is 0 only for a value of 0
    [h EXCEPT !.D[si] = dt, !.dn = dt]

bootstrap2(h, v, s, si) ==
    LET before == h.D[idx(h, si - 1)]
        d == IF h.D[si] # Naught THEN h.D[si] ELSE IF before # Naught THEN before ELSE s
        D == [h.D EXCEPT ![si] = Sum2(Sum2(v, s), d)] IN
    [h EXCEPT !.D = D, !.dn = D[idx(h, si + 1)]]

hw(h, s, si) ==
    LET D == [h.D EXCEPT ![si] = Sum2(Sum2(Some, s), @)] IN    \* dx is EPSILOND at least
    [h EXCEPT !.D = D, !.dn = D[idx(h, si + 1)]]

checkEnough(h) == h.D[0] # Naught /\ h.D[h.buckets - 1] # Naught

(* A hole gets the deviations of the known buckets before and after it.      *)
interpolate(h) ==
    LET known == {i \in 0 .. h.buckets - 1 : h.D[i] # Naught}
        Hole(i) == Sum2(h.D[Max({j \in known : j < i} \cup {0})],
                        h.D[idx(h, i + Min({r \in 0 .. h.buckets - 1 : idx(h, i + r) \in known}))]) IN
    [h EXCEPT !.D = [i \in 0 .. h.buckets - 1 |-> IF i \in known THEN @[i] ELSE Hole(i)]]

(* The mean of the known buckets near each; two on either side here.         *)
smooth(h) ==
    [h EXCEPT !.D = [i \in 0 .. h.buckets - 1 |-> Total({h.D[idx(h, (i + k) % h.buckets)] : k \in 0 - 2 .. 2})]]

(* Into a new lap?                                                           *)
NewLap(h) ==
    LET lap == IF h.Count > 0 THEN h.Lap + 1 ELSE h.Lap
        h1  == [h EXCEPT !.Lap = lap] IN
    IF lap = 1 THEN IF checkEnough(h1) THEN interpolate(h1) ELSE [h1 EXCEPT !.Lap = 0, !.Count = 0]
    ELSE IF lap > 1 THEN smooth(h1)
    ELSE h1

(* A reset moves Created past cstart; when cstart is further behind than a   *)
(* period, the index is negative and the worker panics.                      *)
addWindow(h, v, s) ==
    LET si == idxOfT(h, h.cstart)
        h1 == IF si = 0 THEN NewLap(h) ELSE h
        h2 == IF h1.Lap = 0 THEN bootstrap1(h1, v, s, si)
              ELSE IF h1.Lap = 1 THEN bootstrap2(h1, v, s, si)
              ELSE hw(h1, s, si) IN
    IF si < 0 THEN h ELSE [h2 EXCEPT !.Count = @ + 1, !.cstart = @ + 1]

(* The windows that ended are added, one after the other.                    *)
AfterWindows(v, s) ==
    LET ended == clock - hwab.cstart
        after[i \in 0 .. ended] == IF i = 0 THEN hwab ELSE addWindow(after[i - 1], v, s)
    IN  after[ended]

(* A value.  All windows get the same mean and deviation, which of a         *)
(* constant value is 0 or NaN.                                               *)
AddAt(v, s) ==
    /\ s # Naught => window # "none" /\ Some \in {v, window}
    /\ LET mean == IF Some \in {v, window} THEN Some ELSE Naught IN
       IF hwab.cstart >= clock \/ idxOfT(hwab, hwab.cstart) < 0
       THEN window' = mean /\ UNCHANGED hwab
       ELSE hwab' = AfterWindows(mean, s) /\ window' = "none"
    /\ UNCHANGED <<saved, clock, resets, restores>>

-----------------------------------------------------------------------------
NextWindow ==
    /\ clock < MaxWindow /\ clock' = clock + 1
    /\ UNCHANGED <<hwab, window, saved, resets, restores>>

(* Persist; a NaN cannot be written as JSON, and the file is left empty.     *)
PersistHwab ==
    /\ saved' = IF \E i \in DOMAIN hwab.D : hwab.D[i] = NaN THEN Unsaved
                ELSE [f \in {"Pbuckets", "Created", "Count", "Lap", "D"} |-> hwab[f]]
    /\ UNCHANGED <<hwab, window, clock, resets, restores>>

(* hwab_reset of the API.                                                    *)
apiHwabReset ==
    /\ resets < MaxResets /\ resets' = resets + 1
    /\ hwab' = Reset(hwab)
    /\ UNCHANGED <<window, saved, clock, restores>>

(* What is saved is read into what the configuration made: a longer list     *)
(* replaces, a shorter one only its first elements.                          *)
RestoreInto(h) ==
    IF saved = Unsaved THEN h
    ELSE [h EXCEPT !.Pbuckets = saved.Pbuckets, !.Created = saved.Created,
                   !.Count = saved.Count, !.Lap = saved.Lap,
                   !.D = [i \in 0 .. Max({h.buckets, saved.Pbuckets}) - 1 |->
                             IF i < saved.Pbuckets THEN saved.D[i] ELSE @[i]]]

gap(h) == idxOfT(h, clock) - h.Count

BugPeriodChanged(h) == h.Pbuckets # 0 /\ h.Pbuckets > h.buckets
PeriodChanged(h) == h.Pbuckets # 0 /\ h.Pbuckets # h.buckets

InitHwab(h) ==
    LET h1 == IF PeriodChanged(h) THEN Reset(h) ELSE h
        h2 == IF h1.Lap = 0 /\ gap(h1) > GapMax THEN Reset(h1) ELSE h1 IN
    predict([h2 EXCEPT !.Pbuckets = h.buckets, !.D = [i \in 0 .. h.buckets - 1 |-> @[i]]])

(* A restart, or a new configuration, perhaps with another period.           *)
Restored(n) ==
    /\ restores < MaxRestores /\ restores' = restores + 1
    /\ hwab' = InitHwab(RestoreInto(HwabConfig(n)))
    /\ window' = "none"
    /\ UNCHANGED <<saved, clock, resets>>

HwabInit ==
    /\ clock = 0
    /\ \E n \in Lengths : hwab = InitHwab(HwabConfig(n))
    /\ window = "none" /\ saved = Unsaved /\ resets = 0 /\ restores = 0

HwabNext ==
    \/ \E v \in {Naught, Some}, s \in {Naught, Some, NaN} : AddAt(v, s)
    \/ NextWindow
    \/ PersistHwab
    \/ apiHwabReset
    \/ \E n \in Lengths : Restored(n)

HwabSpec == HwabInit /\ [][HwabNext]_hwabVars

-----------------------------------------------------------------------------
(* Once the first period is over every bucket of the baseline is known, and  *)
(* so is the deviation the next value is held against: whatever gaps, resets *)
(* and restarts there were, and whatever the period was before (add,         *)
(* checkEnough, interpolate, Init, predict).                                 *)
BaselineIsWhole ==
    hwab.Lap >= 1 =>
        /\ DOMAIN hwab.D = 0 .. hwab.buckets - 1
        /\ \A i \in DOMAIN hwab.D : hwab.D[i] # Naught
        /\ hwab.dn # Naught
=============================================================================
