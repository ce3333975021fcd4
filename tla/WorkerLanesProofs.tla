------------------------- MODULE WorkerLanesProofs --------------------------
(***************************************************************************)
(* No lost wake-up in one worker process, for any loops, jobs and times:   *)
(* while a loop is idle, the timer is set for every row nothing else will  *)
(* bring the process back for.                                             *)
(***************************************************************************)
EXTENDS WorkerLanes, FiniteSetTheorems, WellFoundedInduction, TLAPS

-----------------------------------------------------------------------------
(* The inductive invariant *)

Busy(n, j) == lane[n].pc = "running" /\ lane[n].job = j
Resting(n) == lane[n].pc = "off"
Looks(n) == lane[n].pc \in {"burying", "looking", "none"}

\* Whoever has a lease has taken the row, and a loop that runs has a job.
Shape ==
    /\ \A j \in Jobs : row[j].owner # NoWorker => row[j].attempts > 0 /\ row[j].state = "ready"
    /\ \A n \in Lanes : lane[n].pc = "running" => lane[n].job \in Jobs
    /\ phase = "stopped" => timer = Off

\* A row leased to this process is some loop's job.
OwnRun == \A j \in Jobs : row[j].owner = me => \E n \in Lanes : Busy(n, j)

\* With three loops or more, and leases extended in time, no two have one job.
Few == \A a, b, c \in Lanes : a = b \/ b = c \/ a = c
LeasesKept == \A j \in Jobs : row[j].owner = me => row[j].until # Passed
Held == \A n \in Lanes, j \in Jobs :
           Busy(n, j) => /\ row[j].owner = me
                         /\ row[j].state = "ready"
                         /\ \A m \in Lanes : Busy(m, j) => m = n

\* A pass, or a look at all rows, is on its way.
Coming == unsent # {} \/ signal.at = "sending" \/ phase # "up"
          \/ (signal.at = "sent" /\ signal.again)
Told == asks > 0 \/ Coming

\* A signal that is lost, with none behind it, leaves all rows to the next pass.
MissedAll ==
    missed = {} \/ Coming \/ \A j \in Jobs : row[j].state = "ready" => j \in missed

InTime(j) ==
    \/ j \in missed
    \/ \E delay \in answers : delay <= ReadyIn(row[j])
    \/ timer <= Max({ReadyIn(row[j]), backoff})
Left == {j \in Jobs : /\ row[j].state = "ready" /\ ~InTime(j)
                      /\ \A n \in Lanes : ~Busy(n, j)}

\* A row that nothing brings this process back for is one that a loop has just let
\* go of, and that loop, or one that was to look anyway, has not had its look yet.
Looked ==
    \/ Told \/ \A n \in Lanes : ~Resting(n)
    \/ \E f \in [Lanes -> Jobs \cup {NoJob}] :
          \A j \in Left : \E n \in Lanes : Looks(n) /\ f[n] = j

-----------------------------------------------------------------------------
(* Times *)

LEMMA MaxOfTwo ==
    ASSUME NEW a \in Int, NEW b \in Int
    PROVE  /\ Max({a, b}) = IF a >= b THEN a ELSE b
           /\ \A t \in Int : t <= Max({a, b}) <=> t <= a \/ t <= b
<1>1. PICK m \in {a, b} : \A y \in {a, b} : m >= y
  <2>1. CASE a >= b
    BY <2>1
  <2>2. CASE ~(a >= b)
    BY <2>2
  <2>3. QED BY <2>1, <2>2
<1>2. Max({a, b}) \in {a, b} /\ \A y \in {a, b} : Max({a, b}) >= y
  BY <1>1 DEF Max
<1>3. QED BY <1>2

LEMMA MinIs ==
    ASSUME NEW T \in SUBSET Nat, T # {}
    PROVE  Min(T) \in T /\ \A y \in T : Min(T) <= y
<1>1. PICK x \in T : \A y \in T : ~(<<y, x>> \in OpToRel(<, Nat))
  BY NatLessThanWellFounded, WFMin
<1>2. ASSUME NEW y \in T PROVE x <= y
  <2>1. x \in Nat /\ y \in Nat
    OBVIOUS
  <2>2. ~(y < x)
    BY <1>1, <2>1 DEF OpToRel
  <2>3. QED BY <2>1, <2>2
<1>3. \E z \in T : \A y \in T : z <= y
  BY <1>2
<1>4. Min(T) \in T /\ \A y \in T : Min(T) =< y
  BY <1>3 DEF Min
<1>5. QED BY <1>4

\* A finite set of times that is not empty has a last one.
LEMMA MaxIs ==
    ASSUME NEW T \in SUBSET Nat, T # {}, IsFiniteSet(T)
    PROVE  Max(T) \in T /\ \A y \in T : y <= Max(T)
<1> DEFINE HasMax(U) == \E x \in U : \A y \in U : x >= y
           Bad == {n \in Nat : \E U \in SUBSET Nat :
                      IsFiniteSet(U) /\ U # {} /\ ~HasMax(U) /\ Cardinality(U) = n}
<1>1. Bad = {}
  <2> SUFFICES ASSUME Bad # {} PROVE FALSE
    OBVIOUS
  <2>1. PICK n \in Bad : \A m \in Bad : ~(<<m, n>> \in OpToRel(<, Nat))
    <3>1. Bad \subseteq Nat
      OBVIOUS
    <3>2. QED BY <3>1, NatLessThanWellFounded, WFMin
  <2>2. PICK U \in SUBSET Nat :
           IsFiniteSet(U) /\ U # {} /\ ~HasMax(U) /\ Cardinality(U) = n
    OBVIOUS
  <2>3. PICK u \in U : TRUE
    BY <2>2
  <2> DEFINE W == U \ {u}
  <2>4. IsFiniteSet(W) /\ Cardinality(W) = n - 1 /\ Cardinality(W) \in Nat /\ W \in SUBSET Nat
    BY <2>2, <2>3, FS_RemoveElement, FS_CardinalityType
  <2>5. W # {}
    <3>1. W = {} => HasMax(U)
      <4> SUFFICES ASSUME W = {} PROVE HasMax(U)
        OBVIOUS
      <4>1. \A y \in U : y = u
        OBVIOUS
      <4>2. u >= u
        BY <2>2, <2>3
      <4>3. QED BY <2>3, <4>1, <4>2
    <3>2. QED BY <2>2, <3>1
  <2>6. HasMax(W)
    <3>1. n \in Nat /\ n - 1 < n
      OBVIOUS
    <3>2. n - 1 \in Nat
      BY <2>4
    <3>3. n - 1 \notin Bad
      BY <2>1, <3>1, <3>2 DEF OpToRel
    <3> HIDE DEF HasMax, W
    <3>4. QED BY <2>4, <2>5, <3>2, <3>3
  <2>7. PICK x \in W : \A y \in W : x >= y
    BY <2>6
  <2>8. HasMax(U)
    <3>1. x \in U /\ x \in Nat /\ u \in Nat
      BY <2>2, <2>3
    <3>2. CASE x >= u
      BY <2>7, <3>1, <3>2
    <3>3. CASE ~(x >= u)
      <4>1. \A y \in U : u >= y
        BY <2>7, <3>1, <3>3, <2>2
      <4>2. QED BY <4>1
    <3>4. QED BY <3>2, <3>3
  <2>9. QED BY <2>2, <2>8
<1>2. HasMax(T)
  <2>1. Cardinality(T) \in Nat
    BY FS_CardinalityType
  <2> HIDE DEF HasMax
  <2>2. QED BY <1>1, <2>1
<1>3. PICK x \in T : \A y \in T : x >= y
  BY <1>2
<1>4. Max(T) \in T /\ \A y \in T : Max(T) >= y
  BY <1>3 DEF Max
<1>5. Max(T) \in Nat
  BY <1>4
<1>6. QED BY <1>4, <1>5

LEMMA Constants ==
    /\ LeaseTicks \in Nat \ {0} /\ RetryTicks \in Nat \ {0} /\ BackoffTicks \in Nat \ {0}
    /\ MaxAsks \in Nat \ {0} /\ MaxAttempts \in Nat \ {0}
    /\ Longest \in Nat /\ Off = Longest + 1 /\ Passed = -1
    /\ LeaseTicks <= Longest /\ RetryTicks <= Longest /\ BackoffTicks <= Longest
    /\ \A delay \in Delays : delay \in 0..Longest
    /\ me \in Workers /\ other \in Workers /\ me # other /\ NoWorker \notin Workers
<1>1. /\ LeaseTicks \in Nat \ {0} /\ RetryTicks \in Nat \ {0} /\ BackoffTicks \in Nat \ {0}
      /\ MaxAsks \in Nat \ {0} /\ MaxAttempts \in Nat \ {0}
  BY LanesAssumption, RowAssumption
<1> DEFINE Three == {LeaseTicks, RetryTicks, BackoffTicks}
<1>2. IsFiniteSet(Three \cup Delays)
  <2>1. IsFiniteSet(Delays \cup {LeaseTicks})
    BY LanesAssumption, FS_AddElement
  <2>2. IsFiniteSet((Delays \cup {LeaseTicks}) \cup {RetryTicks})
    BY <2>1, FS_AddElement
  <2>3. IsFiniteSet(((Delays \cup {LeaseTicks}) \cup {RetryTicks}) \cup {BackoffTicks})
    BY <2>2, FS_AddElement
  <2>4. Three \cup Delays = ((Delays \cup {LeaseTicks}) \cup {RetryTicks}) \cup {BackoffTicks}
    OBVIOUS
  <2>5. QED BY <2>3, <2>4
<1>3. Three \cup Delays \in SUBSET Nat /\ Three \cup Delays # {}
  BY <1>1, LanesAssumption
<1>4. Longest \in Three \cup Delays /\ \A y \in Three \cup Delays : y <= Longest
  BY <1>2, <1>3, MaxIs DEF Longest
<1>5. Longest \in Nat
  BY <1>3, <1>4
<1>6. LeaseTicks <= Longest /\ RetryTicks <= Longest /\ BackoffTicks <= Longest
  BY <1>4
<1>7. \A delay \in Delays : delay \in 0..Longest
  BY <1>4, <1>5, LanesAssumption
<1>8. QED BY <1>1, <1>5, <1>6, <1>7, LanesAssumption, RowAssumption DEF Off, Passed

\* When a row can be taken, as the query has it.
LEMMA ReadyInIs ==
    ASSUME NEW r \in TableRow
    PROVE  /\ ReadyIn(r) = IF r.owner = NoWorker \/ r.until <= r.wait THEN r.wait ELSE r.until
           /\ ReadyIn(r) \in 0..Longest
<1>1. /\ r.wait \in Int /\ 0 <= r.wait /\ r.wait <= Longest
      /\ r.until \in Int /\ -1 <= r.until /\ r.until <= Longest
  BY Constants DEF TableRow
<1> DEFINE S == {0, r.wait} \cup (IF r.owner = NoWorker THEN {} ELSE {r.until})
           m == IF r.owner = NoWorker \/ r.until <= r.wait THEN r.wait ELSE r.until
<1>2. m \in S /\ \A y \in S : m >= y
  BY <1>1
<1>3. m \in Int /\ S \subseteq Int
  BY <1>1
<1>4. Max(S) \in S /\ \A y \in S : Max(S) >= y
  <2> HIDE DEF S, m
  <2>1. QED BY <1>2 DEF Max
<1>5. Max(S) = m
  <2> HIDE DEF S, m
  <2>1. Max(S) >= m /\ m >= Max(S)
    BY <1>2, <1>4
  <2>2. Max(S) \in Int
    BY <1>3, <1>4
  <2>3. QED BY <1>3, <2>1, <2>2
<1>6. QED BY <1>1, <1>5, Constants DEF ReadyIn

-----------------------------------------------------------------------------
(* Types *)

LaneRec == [pc : {"off", "burying", "looking", "none", "running"},
            job : Jobs \cup {NoJob}, woken : BOOLEAN]
RowFits(r) == r \in TableRow /\ (r.owner # NoWorker => r.attempts > 0 /\ r.state = "ready")
LaneFits(l) == l \in LaneRec /\ (l.pc = "running" => l.job \in Jobs)

RowsFit == row \in [Jobs -> TableRow] /\ \A j \in Jobs : RowFits(row[j])
LanesFit == lane \in [Lanes -> LaneRec] /\ \A n \in Lanes : LaneFits(lane[n])
TimesFit ==
    /\ asks \in 0..MaxAsks
    /\ answers \subseteq 0..Longest
    /\ timer \in 0..Off
    /\ backoff \in 0..BackoffTicks
    /\ phase \in {"new", "up", "stopped"}
    /\ phase = "stopped" => timer = Off
WriterFits ==
    /\ signal \in [at : {"idle", "sending", "sent"}, again : BOOLEAN]
    /\ unsent \subseteq Jobs
Fits == RowsFit /\ LanesFit /\ TimesFit /\ WriterFits /\ missed \subseteq Jobs

LEMMA FitsIs == Fits <=> TypeOK /\ Shape
BY DEF Fits, RowsFit, LanesFit, TimesFit, WriterFits, RowFits, LaneFits, LaneRec, TypeOK, Shape

LEMMA RowSet ==
    ASSUME RowsFit, NEW j \in Jobs, NEW r, RowFits(r), row' = [row EXCEPT ![j] = r]
    PROVE  RowsFit' /\ row'[j] = r /\ \A i \in Jobs : i # j => row'[i] = row[i]
BY DEF RowsFit, RowFits

LEMMA LaneSet ==
    ASSUME LanesFit, NEW n \in Lanes, NEW l, LaneFits(l), SetLane(n, l)
    PROVE  LanesFit' /\ lane'[n] = l /\ \A m \in Lanes : m # n => lane'[m] = lane[m]
BY DEF LanesFit, LaneFits, SetLane

LEMMA LanesAre ==
    /\ LaneFits(OffLane) /\ LaneFits(Looking) /\ LaneFits([Looking EXCEPT !.pc = "burying"])
    /\ \A j \in Jobs : LaneFits([pc |-> "running", job |-> j, woken |-> FALSE])
    /\ LaneFits(NextLook) /\ NextLook.pc \in {"off", "looking"}
    /\ phase # "stopped" => NextLook.pc = "looking"
    /\ OffLane.pc = "off" /\ Looking.pc = "looking"
BY DEF LaneFits, LaneRec, OffLane, Looking, NextLook

LEMMA RowsAre ==
    /\ RowFits(Absent) /\ RowFits([Absent EXCEPT !.state = "gone"])
    /\ \A delay \in 0..Longest :
          RowFits([Absent EXCEPT !.state = "ready", !.wait = delay])
    /\ \A r \in TableRow, w \in Workers : Claimable(Seen(r)) => RowFits(TakenBy(r, w))
    /\ \A r \in TableRow : RowFits(r) => RowFits([r EXCEPT !.until = LeaseTicks])
    /\ \A r \in TableRow, s \in {"ready", "dead"} :
          RowFits([r EXCEPT !.owner = NoWorker, !.until = Passed,
                            !.wait = RetryTicks, !.state = s])
    /\ \A r \in TableRow : RowFits([r EXCEPT !.state = "dead", !.owner = NoWorker,
                                             !.until = Passed])
    /\ \A r \in TableRow : RowFits(r) /\ r.owner # NoWorker =>
          RowFits([r EXCEPT !.owner = NoWorker, !.until = Passed,
                            !.wait = 0, !.attempts = @ - 1])
    /\ \A r \in TableRow : RowFits(r) =>
          RowFits([r EXCEPT !.wait = Down(@), !.until = IF @ = Passed THEN @ ELSE @ - 1])
<1>1. /\ RowFits(Absent) /\ RowFits([Absent EXCEPT !.state = "gone"])
      /\ \A delay \in 0..Longest :
            RowFits([Absent EXCEPT !.state = "ready", !.wait = delay])
  <2>1. Absent \in TableRow /\ Absent.owner = NoWorker
    BY Constants DEF TableRow, Absent
  <2>2. [Absent EXCEPT !.state = "gone"] \in TableRow
    BY <2>1 DEF TableRow
  <2>3. ASSUME NEW delay \in 0..Longest
        PROVE  [Absent EXCEPT !.state = "ready", !.wait = delay] \in TableRow
    BY <2>1 DEF TableRow
  <2>4. QED BY <2>1, <2>2, <2>3 DEF RowFits, Absent
<1>2. ASSUME NEW r \in TableRow
      PROVE  /\ r.attempts \in 0..MaxAttempts /\ r.wait \in 0..Longest
             /\ r.until \in -1..LeaseTicks /\ r.owner \in Workers \cup {NoWorker}
             /\ r.state \in {"unwritten", "ready", "dead", "gone"}
             /\ r = [state |-> r.state, wait |-> r.wait, owner |-> r.owner,
                     until |-> r.until, attempts |-> r.attempts]
  BY DEF TableRow
<1>3. ASSUME NEW r \in TableRow, NEW w \in Workers, Claimable(Seen(r))
      PROVE  RowFits(TakenBy(r, w))
  <2>1. r.attempts < MaxAttempts /\ r.state = "ready"
    BY <1>3 DEF Claimable, Seen, NoRow
  <2>2. r.attempts + 1 \in 0..MaxAttempts /\ r.attempts + 1 > 0 /\ LeaseTicks \in -1..LeaseTicks
    BY <1>2, <2>1, Constants
  <2>3. /\ TakenBy(r, w) \in TableRow
        /\ TakenBy(r, w).attempts = r.attempts + 1 /\ TakenBy(r, w).state = r.state
    BY <1>2, <2>2 DEF TakenBy, TableRow
  <2>4. QED BY <2>1, <2>2, <2>3 DEF RowFits
<1>4. ASSUME NEW r \in TableRow, RowFits(r)
      PROVE  RowFits([r EXCEPT !.until = LeaseTicks])
  <2>1. LeaseTicks \in -1..LeaseTicks
    BY Constants
  <2>2. QED BY <1>4, <2>1 DEF RowFits, TableRow
<1>5. ASSUME NEW r \in TableRow, NEW s \in {"ready", "dead"}
      PROVE  /\ RowFits([r EXCEPT !.owner = NoWorker, !.until = Passed,
                                  !.wait = RetryTicks, !.state = s])
             /\ RowFits([r EXCEPT !.state = "dead", !.owner = NoWorker, !.until = Passed])
  <2>1. Passed \in -1..LeaseTicks /\ RetryTicks \in 0..Longest
    BY Constants
  <2>2. QED BY <1>2, <2>1 DEF RowFits, TableRow
<1>6. ASSUME NEW r \in TableRow, RowFits(r), r.owner # NoWorker
      PROVE  RowFits([r EXCEPT !.owner = NoWorker, !.until = Passed,
                               !.wait = 0, !.attempts = @ - 1])
  <2>1. /\ Passed \in -1..LeaseTicks /\ 0 \in 0..Longest
        /\ r.attempts - 1 \in 0..MaxAttempts
    BY <1>2, <1>6, Constants DEF RowFits
  <2>2. QED BY <1>2, <2>1 DEF RowFits, TableRow
<1>7. ASSUME NEW r \in TableRow, RowFits(r)
      PROVE  RowFits([r EXCEPT !.wait = Down(@), !.until = IF @ = Passed THEN @ ELSE @ - 1])
  <2>1. Down(r.wait) \in 0..Longest
    BY <1>2, Constants DEF Down
  <2>2. (IF r.until = Passed THEN r.until ELSE r.until - 1) \in -1..LeaseTicks
    BY <1>2, Constants
  <2>3. QED BY <1>2, <1>7, <2>1, <2>2 DEF RowFits, TableRow
<1>8. QED BY <1>1, <1>3, <1>4, <1>5, <1>6, <1>7

\* A pass leaves no loop resting, and those that run, running.
LEMMA PassIs ==
    ASSUME LanesFit, Pass
    PROVE  /\ LanesFit' /\ missed' = {}
           /\ \A n \in Lanes : ~Resting(n)' /\ \A j \in Jobs : Busy(n, j)' <=> Busy(n, j)
           /\ Lanes # {}
<1>1. PICK first \in Lanes :
         lane' = [n \in Lanes |->
                      IF lane[n].pc # "off" THEN [lane[n] EXCEPT !.woken = TRUE]
                      ELSE IF AllOff /\ n = first
                           THEN [Looking EXCEPT !.pc = "burying"] ELSE Looking]
  BY DEF Pass
<1>2. \A n \in Lanes : lane[n] \in LaneRec /\ LaneFits(lane[n])
  BY DEF LanesFit
<1>3. ASSUME NEW n \in Lanes
      PROVE  /\ LaneFits(lane'[n]) /\ lane'[n].pc # "off"
             /\ lane'[n].pc = "running" <=> lane[n].pc = "running"
             /\ lane'[n].pc = "running" => lane'[n].job = lane[n].job
  <2>1. CASE lane[n].pc # "off"
    BY <1>1, <1>2, <2>1 DEF LaneFits, LaneRec
  <2>2. CASE lane[n].pc = "off"
    BY <1>1, <2>2, LanesAre DEF Looking
  <2>3. QED BY <2>1, <2>2
<1>4. LanesFit'
  <2>1. \A n \in Lanes : lane'[n] \in LaneRec
    BY <1>3 DEF LaneFits
  <2>2. lane' \in [Lanes -> LaneRec]
    BY <1>1, <2>1
  <2>3. QED BY <1>3, <2>2 DEF LanesFit
<1>5. missed' = {}
  BY DEF Pass
<1>6. QED BY <1>1, <1>3, <1>4, <1>5 DEF Resting, Busy

LEMMA InitFits == Init => Fits
<1> SUFFICES ASSUME Init PROVE Fits
  OBVIOUS
<1>1. RowsFit
  <2> DEFINE Given == [state : {"ready"}, wait : {0}, owner : {other},
                       until : {LeaseTicks}, attempts : 1..MaxAttempts]
  <2>1. \A r \in {Absent} \cup Given : RowFits(r)
    <3>1. \A r \in Given : RowFits(r)
      BY Constants DEF RowFits, TableRow
    <3>2. QED BY <3>1, RowsAre
  <2>2. row \in [Jobs -> {Absent} \cup Given]
    BY DEF Init
  <2> HIDE DEF Given
  <2>3. QED BY <2>1, <2>2 DEF RowsFit, RowFits
<1>2. LanesFit
  BY LanesAre DEF Init, LanesFit, LaneFits
<1>3. TimesFit /\ WriterFits /\ missed \subseteq Jobs
  BY Constants DEF Init, TimesFit, WriterFits
<1>4. QED BY <1>1, <1>2, <1>3 DEF Fits

LEMMA LoopFits ==
    ASSUME Fits, NEW n \in Lanes, LoopStep(n)
    PROVE  Fits'
<1> USE DEF Fits
<1>1. lane[n] \in LaneRec /\ LaneFits(lane[n]) /\ \A j \in Jobs : row[j] \in TableRow /\ RowFits(row[j])
  BY DEF LanesFit, RowsFit
<1>2. lane[n].pc = "running" => lane[n].job \in Jobs
  BY <1>1 DEF LaneFits
<1>3. ASSUME UNCHANGED <<timer, asks, answers, backoff, phase>> PROVE TimesFit'
  BY <1>3 DEF TimesFit
<1>4. ASSUME PassFailed, asks' = asks, answers' = answers, phase' = phase PROVE TimesFit'
  BY <1>4, Constants DEF TimesFit, PassFailed
<1>5. ASSUME UNCHANGED writer PROVE WriterFits'
  BY <1>5 DEF WriterFits, writer
<1>6. ASSUME UNCHANGED row PROVE RowsFit'
  BY <1>6 DEF RowsFit
<1>7. ASSUME NEW j \in Jobs, Claim(n, j) PROVE Fits'
  <2>1. RowFits(TakenBy(row[j], me)) /\ row' = [row EXCEPT ![j] = TakenBy(row[j], me)]
    BY <1>1, <1>7, RowsAre, Constants DEF Claim, MayTake
  <2>2. RowsFit'
    BY <2>1, RowSet
  <2>3. LanesFit'
    BY <1>7, LanesAre, LaneSet DEF Claim
  <2>4. QED BY <1>3, <1>5, <1>7, <2>2, <2>3 DEF Claim
<1>8. CASE Bury(n)
  <2>1. \A j \in Jobs : RowFits(row'[j])
    BY <1>1, <1>8, RowsAre DEF Bury
  <2>2. RowsFit'
    BY <1>8, <2>1 DEF Bury, RowsFit, RowFits
  <2>3. LanesFit'
    BY <1>8, LanesAre, LaneSet DEF Bury
  <2>4. QED BY <1>3, <1>5, <1>8, <2>2, <2>3 DEF Bury
<1>9. CASE ClaimNone(n)
  <2>1. LaneFits([lane[n] EXCEPT !.pc = "none"])
    BY <1>1 DEF LaneFits, LaneRec
  <2>2. LanesFit'
    BY <1>9, <2>1, LaneSet DEF ClaimNone
  <2>3. QED BY <1>3, <1>5, <1>6, <1>9, <2>2 DEF ClaimNone
<1>10. CASE Close(n)
  <2>1. LanesFit'
    BY <1>10, LanesAre, LaneSet DEF Close
  <2>2. TimesFit'
    BY <1>10, Constants DEF Close, TimesFit
  <2>3. QED BY <1>5, <1>6, <1>10, <2>1, <2>2 DEF Close
<1>11. CASE LookErrs(n) \/ SettleErrs(n)
  <2>1. LanesFit'
    BY <1>11, LanesAre, LaneSet DEF LookErrs, SettleErrs
  <2>2. TimesFit'
    BY <1>4, <1>11 DEF LookErrs, SettleErrs
  <2>3. QED BY <1>5, <1>6, <1>11, <2>1, <2>2 DEF LookErrs, SettleErrs
<1>12. CASE Extend(n)
  <2> DEFINE j == lane[n].job
             r == [row[j] EXCEPT !.until = LeaseTicks]
  <2>1. j \in Jobs
    BY <1>2, <1>12 DEF Extend
  <2>2. RowFits(r)
    BY <1>1, <2>1, RowsAre
  <2>3. row' = [row EXCEPT ![j] = r]
    BY <1>12 DEF Extend
  <2>4. RowsFit'
    BY <2>1, <2>2, <2>3, RowSet
  <2>5. LanesFit'
    BY <1>12 DEF Extend, LanesFit
  <2>6. QED BY <1>3, <1>5, <1>12, <2>4, <2>5 DEF Extend
<1>13. CASE Run(n)
  <2> DEFINE j == lane[n].job
             failed == [row[j] EXCEPT !.owner = NoWorker, !.until = Passed,
                      !.wait = RetryTicks,
                      !.state = IF row[j].attempts >= MaxAttempts
                                THEN "dead" ELSE "ready"]
  <2>1. j \in Jobs
    BY <1>2, <1>13 DEF Run
  <2>2. RowFits(failed) /\ RowFits([Absent EXCEPT !.state = "gone"])
    <3>1. (IF row[j].attempts >= MaxAttempts THEN "dead" ELSE "ready") \in {"ready", "dead"}
      OBVIOUS
    <3>2. QED BY <1>1, <2>1, <3>1, RowsAre
  <2>3. UNCHANGED row \/ \E to : RowFits(to) /\ row' = [row EXCEPT ![j] = to]
    <3>1. UNCHANGED row \/ \E to \in {[Absent EXCEPT !.state = "gone"], failed} :
             row' = [row EXCEPT ![j] = to]
      BY <1>13 DEF Run
    <3> HIDE DEF failed
    <3>2. QED BY <2>2, <3>1
  <2>4. RowsFit'
    BY <1>6, <2>1, <2>3, RowSet
  <2>5. LanesFit'
    BY <1>13, LanesAre, LaneSet DEF Run
  <2>6. QED BY <1>3, <1>5, <1>13, <2>4, <2>5 DEF Run
<1>14. CASE Release(n)
  <2> DEFINE j == lane[n].job
             r == [row[j] EXCEPT !.owner = NoWorker, !.until = Passed,
                                 !.wait = 0, !.attempts = @ - 1]
  <2>1. j \in Jobs
    BY <1>2, <1>14 DEF Release
  <2>2. row[j].owner = me => RowFits(r)
    BY <1>1, <2>1, RowsAre, Constants
  <2>3. row' = IF row[j].owner = me THEN [row EXCEPT ![j] = r] ELSE row
    BY <1>14 DEF Release
  <2>4. RowsFit'
    BY <1>6, <2>1, <2>2, <2>3, RowSet
  <2>5. LanesFit'
    BY <1>14, LanesAre, LaneSet DEF Release
  <2>6. QED BY <1>3, <1>5, <1>14, <2>4, <2>5 DEF Release
<1>15. QED BY <1>7, <1>8, <1>9, <1>10, <1>11, <1>12, <1>13, <1>14 DEF LoopStep

LEMMA TypedStep == ASSUME Fits, [Next]_vars PROVE Fits'
<1> USE DEF Fits
<1>1. \A j \in Jobs : row[j] \in TableRow /\ RowFits(row[j])
  BY DEF RowsFit
<1>2. ASSUME UNCHANGED <<timer, asks, answers, backoff, phase>> PROVE TimesFit'
  BY <1>2 DEF TimesFit
<1>3. ASSUME UNCHANGED writer PROVE WriterFits'
  BY <1>3 DEF WriterFits, writer
<1>4. ASSUME UNCHANGED row PROVE RowsFit'
  BY <1>4 DEF RowsFit
<1>5. ASSUME UNCHANGED lane PROVE LanesFit'
  BY <1>5 DEF LanesFit
<1>6. ASSUME Pass \/ UNCHANGED <<lane, missed>> PROVE LanesFit' /\ missed' \subseteq Jobs
  BY <1>5, <1>6, PassIs
<1>7. CASE Process
  <2>1. TimesFit'
    BY <1>7 DEF Process, TimesFit
  <2>2. QED BY <1>3, <1>4, <1>6, <1>7, <2>1 DEF Process, writer
<1>8. CASE HourlyPass
  BY <1>2, <1>3, <1>4, <1>6, <1>8 DEF HourlyPass, writer
<1>9. CASE Stop
  <2>1. TimesFit'
    BY <1>9, Constants DEF Stop, TimesFit
  <2>2. QED BY <1>3, <1>4, <1>5, <1>9, <2>1 DEF Stop
<1>10. CASE \E n \in Lanes : LoopStep(n)
  BY <1>10, LoopFits
<1>11. CASE Ask
  <2> DEFINE times == {ReadyIn(row[j]) : j \in {i \in Jobs : Awaited(i)}}
  <2>1. times \subseteq 0..Longest
    BY <1>1, ReadyInIs
  <2>2. times # {} => Min(times) \in 0..Longest
    <3>1. times \in SUBSET Nat
      BY <2>1, Constants
    <3> HIDE DEF times
    <3>2. QED BY <2>1, <3>1, MinIs
  <2>3. answers' = IF times = {} THEN answers ELSE answers \cup {Min(times)}
    BY <1>11 DEF Ask
  <2>4. TimesFit'
    <3>1. asks > 0 /\ asks' = asks - 1 /\ UNCHANGED <<timer, backoff, phase>>
      BY <1>11 DEF Ask
    <3> HIDE DEF times
    <3>2. answers' \subseteq 0..Longest
      BY <2>2, <2>3 DEF TimesFit
    <3>3. asks' \in 0..MaxAsks
      BY <3>1, Constants DEF TimesFit
    <3>4. QED BY <3>1, <3>2, <3>3 DEF TimesFit
  <2>5. QED BY <1>3, <1>4, <1>5, <1>11, <2>4 DEF Ask
<1>12. CASE AskErrs
  <2>1. TimesFit'
    BY <1>12, Constants DEF AskErrs, TimesFit, PassFailed
  <2>2. QED BY <1>3, <1>4, <1>5, <1>12, <2>1 DEF AskErrs
<1>13. ASSUME NEW delay \in answers, Arm(delay) PROVE Fits'
  <2>1. delay \in 0..Longest /\ backoff \in 0..BackoffTicks
    BY DEF TimesFit
  <2>2. Max({delay, backoff}) \in 0..Longest
    BY <2>1, MaxOfTwo, Constants
  <2>3. TimesFit'
    BY <1>13, <2>2, Constants DEF Arm, Armed, TimesFit
  <2>4. QED BY <1>3, <1>4, <1>5, <1>13, <2>3 DEF Arm
<1>14. CASE Fire
  <2>1. TimesFit'
    BY <1>14, Constants DEF Fire, TimesFit
  <2>2. QED BY <1>3, <1>4, <1>6, <1>14, <2>1 DEF Fire, PassIfUp
<1>15. ASSUME NEW j \in Jobs, NEW delay \in Delays, Write(j, delay) PROVE Fits'
  <2> DEFINE r == [Absent EXCEPT !.state = "ready", !.wait = delay]
  <2>1. RowFits(r)
    BY RowsAre, Constants
  <2>2. row' = [row EXCEPT ![j] = r]
    BY <1>15 DEF Write
  <2>3. RowsFit'
    BY <2>1, <2>2, RowSet
  <2>4. WriterFits'
    BY <1>15 DEF Write, WriterFits
  <2>5. QED BY <1>2, <1>5, <1>15, <2>3, <2>4 DEF Write
<1>16. ASSUME NEW j \in Jobs, WakeHere(j) PROVE Fits'
  <2>1. WriterFits'
    BY <1>16 DEF WakeHere, WriterFits
  <2>2. QED BY <1>2, <1>4, <1>6, <1>16, <2>1 DEF WakeHere, PassIfUp
<1>17. ASSUME NEW j \in Jobs, Request(j) PROVE Fits'
  <2>1. WriterFits'
    BY <1>17 DEF Request, WriterFits
  <2>2. QED BY <1>2, <1>4, <1>5, <1>17, <2>1 DEF Request
<1>18. CASE Deliver
  <2>1. WriterFits'
    BY <1>18 DEF Deliver, WriterFits
  <2>2. QED BY <1>2, <1>4, <1>6, <1>18, <2>1 DEF Deliver, PassIfUp
<1>19. CASE EndSend \/ SendErrs
  <2>1. WriterFits'
    <3>1. Sent \in [at : {"idle", "sending", "sent"}, again : BOOLEAN]
      BY DEF Sent
    <3>2. signal' = Sent /\ unsent' = unsent
      BY <1>19 DEF EndSend, SendErrs
    <3>3. QED BY <3>1, <3>2 DEF WriterFits
  <2>2. missed' \subseteq Jobs
    BY <1>19 DEF EndSend, SendErrs
  <2>3. QED BY <1>2, <1>4, <1>5, <1>19, <2>1, <2>2 DEF EndSend, SendErrs
<1>20. ASSUME NEW j \in Jobs, OtherTakes(j) \/ OtherExtends(j) \/ OtherCompletes(j)
       PROVE  Fits'
  <2>1. PICK r : RowFits(r) /\ row' = [row EXCEPT ![j] = r]
    <3>1. CASE OtherTakes(j)
      <4>1. RowFits(TakenBy(row[j], other)) /\ row' = [row EXCEPT ![j] = TakenBy(row[j], other)]
        BY <1>1, <3>1, RowsAre, Constants DEF OtherTakes, MayTake
      <4>2. QED BY <4>1
    <3>2. CASE OtherExtends(j)
      <4>1. /\ RowFits([row[j] EXCEPT !.until = LeaseTicks])
            /\ row' = [row EXCEPT ![j] = [row[j] EXCEPT !.until = LeaseTicks]]
        BY <1>1, <3>2, RowsAre DEF OtherExtends
      <4>2. QED BY <4>1
    <3>3. CASE OtherCompletes(j)
      <4>1. /\ RowFits([Absent EXCEPT !.state = "gone"])
            /\ row' = [row EXCEPT ![j] = [Absent EXCEPT !.state = "gone"]]
        BY <3>3, RowsAre DEF OtherCompletes
      <4>2. QED BY <4>1
    <3>4. QED BY <1>20, <3>1, <3>2, <3>3
  <2>2. RowsFit'
    BY <2>1, RowSet
  <2>3. QED BY <1>2, <1>3, <1>5, <1>20, <2>2
        DEF OtherTakes, OtherExtends, OtherCompletes
<1>21. CASE Tick
  <2>1. \A j \in Jobs : RowFits(row'[j])
    BY <1>1, <1>21, RowsAre DEF Tick
  <2>2. RowsFit'
    BY <1>21, <2>1 DEF Tick, RowsFit, RowFits
  <2>3. TimesFit'
    <3>1. /\ timer' = IF timer = Off THEN Off ELSE Down(timer)
          /\ backoff' = Down(backoff) /\ UNCHANGED <<asks, answers, phase>>
      BY <1>21 DEF Tick
    <3>2. timer' \in 0..Off /\ backoff' \in 0..BackoffTicks
      BY <3>1, Constants DEF TimesFit, Down
    <3>3. QED BY <3>1, <3>2 DEF TimesFit
  <2>4. QED BY <1>3, <1>5, <1>21, <2>2, <2>3 DEF Tick
<1>22. CASE UNCHANGED vars
  BY <1>2, <1>3, <1>4, <1>5, <1>22 DEF vars, writer
<1>23. QED
  BY <1>7, <1>8, <1>9, <1>10, <1>11, <1>12, <1>13, <1>14, <1>15, <1>16, <1>17, <1>18,
     <1>19, <1>20, <1>21, <1>22 DEF Next, TimerStep, WriterStep, OtherStep

\* A leased row is ready and was taken, a running loop has a job, and a stopped process
\* has no timer.
THEOREM FitsHolds == Spec => []Fits
<1>1. Init => Fits
  BY InitFits
<1>2. Fits /\ [Next]_vars => Fits'
  BY TypedStep
<1>3. QED BY <1>1, <1>2, PTL DEF Spec

\* Rows, loops, timer and signal hold what they can (claim, bury, fail, release, stop).
THEOREM TypeCorrect == Spec => []TypeOK
<1>1. Fits => TypeOK
  BY FitsIs
<1>2. QED BY <1>1, FitsHolds, PTL

-----------------------------------------------------------------------------
(* A stopped process *)

LEMMA StoppedStep ==
    ASSUME Fits, [Next]_vars, phase = "stopped", AllOff, asks = 0, answers = {}
    PROVE  lane' = lane /\ asks' = 0 /\ timer' = Off
<1>1. timer = Off /\ timer # 0
  BY Constants DEF Fits, TimesFit
<1>2. \A n \in Lanes : lane[n].pc = "off"
  BY DEF AllOff
<1>3. CASE \E n \in Lanes : LoopStep(n)
  BY <1>2, <1>3 DEF LoopStep, Bury, Claim, ClaimNone, Close, LookErrs, Extend, Run,
                    SettleErrs, Release
<1>4. CASE TimerStep
  BY <1>1, <1>4 DEF TimerStep, Ask, AskErrs, Fire
<1>5. CASE WriterStep
  BY <1>1, <1>5 DEF WriterStep, Write, WakeHere, Request, Deliver, EndSend, SendErrs, PassIfUp
<1>6. CASE OtherStep \/ Tick
  BY <1>1, <1>6 DEF OtherStep, OtherTakes, OtherExtends, OtherCompletes, Tick
<1>7. CASE Process \/ HourlyPass \/ Stop \/ UNCHANGED vars
  BY <1>1, <1>7 DEF Process, HourlyPass, Stop, vars
<1>8. QED BY <1>3, <1>4, <1>5, <1>6, <1>7 DEF Next

\* stop: no answer, signal or statement that comes later starts a loop or sets the timer.
THEOREM StoppedForGood == Spec => StopIsFinal
<1>1. Fits /\ [Next]_vars
         => [phase = "stopped" /\ AllOff /\ asks = 0 /\ answers = {}
                => lane' = lane /\ asks' = 0 /\ timer' = Off]_vars
  BY StoppedStep
<1>2. QED BY <1>1, FitsHolds, PTL DEF Spec, StopIsFinal

-----------------------------------------------------------------------------
(* Who runs what *)

LEMMA LeasedIs ==
    ASSUME NEW r \in TableRow
    PROVE  /\ r.owner # NoWorker /\ r.until # Passed
                => ~Claimable(Seen(r)) /\ ~Exhausted(Seen(r))
           /\ Claimable(Seen(r)) => r.state = "ready" /\ ReadyIn(r) = 0
           /\ Exhausted(Seen(r)) => r.state = "ready"
<1>1. /\ Seen(r).state = r.state /\ Seen(r).due = (r.wait = 0)
      /\ Seen(r).lease = IF r.owner = NoWorker THEN "none"
                         ELSE IF r.until = Passed THEN "lapsed" ELSE "live"
  BY DEF Seen, NoRow
<1>2. r.owner # NoWorker /\ r.until # Passed => ~Claimable(Seen(r)) /\ ~Exhausted(Seen(r))
  BY <1>1 DEF Claimable, Exhausted, Unleased
<1>3. Exhausted(Seen(r)) => r.state = "ready"
  BY <1>1 DEF Exhausted
<1>4. Claimable(Seen(r)) => r.state = "ready" /\ r.wait = 0 /\ (r.owner = NoWorker \/ r.until = Passed)
  BY <1>1, <1>2 DEF Claimable
<1>5. ReadyIn(r) = IF r.owner = NoWorker \/ r.until <= r.wait THEN r.wait ELSE r.until
  BY ReadyInIs
<1>6. QED BY <1>2, <1>3, <1>4, <1>5, Constants

\* Most steps leave every loop with its job and give this process no row; they take
\* none from it whose lease is live.
Calm ==
    /\ \A j \in Jobs : row'[j].owner = me => row[j].owner = me
    /\ \A j \in Jobs : row[j].owner = me /\ row[j].state = "ready" /\ row[j].until # Passed
                          => row'[j].owner = me /\ row'[j].state = "ready"
    /\ \A n \in Lanes, j \in Jobs : Busy(n, j)' <=> Busy(n, j)

LEMMA CalmStep ==
    ASSUME Fits, [Next]_vars, "settle" \notin Faults
    PROVE  Calm \/ \E n \in Lanes : (\E j \in Jobs : Claim(n, j)) \/ Run(n) \/ Release(n)
<1>1. /\ \A j \in Jobs : row[j] \in TableRow
      /\ LanesFit
      /\ row \in [Jobs -> TableRow] /\ lane \in [Lanes -> LaneRec]
  BY DEF Fits, RowsFit, LanesFit
<1>2. ASSUME row' = row, UNCHANGED lane \/ Pass PROVE Calm
  <2>1. CASE UNCHANGED lane
    BY <1>2, <2>1 DEF Calm, Busy
  <2>2. CASE Pass
    BY <1>1, <1>2, <2>2, PassIs DEF Calm
  <2>3. QED BY <1>2, <2>1, <2>2
<1>3. ASSUME row' = row, NEW n \in Lanes, NEW l, SetLane(n, l),
             lane[n].pc # "running", l.pc # "running"
      PROVE  Calm
  BY <1>1, <1>3 DEF Calm, Busy, SetLane
<1>4. ASSUME NEW n \in Lanes, LoopStep(n), ~Run(n), ~Release(n), \A j \in Jobs : ~Claim(n, j)
      PROVE  Calm
  <2>1. CASE Bury(n)
    <3>1. NextLook.pc # "running"
      BY LanesAre
    <3>2. \A m \in Lanes, j \in Jobs : Busy(m, j)' <=> Busy(m, j)
      BY <1>1, <2>1, <3>1 DEF Bury, SetLane, Busy
    <3>3. ASSUME NEW j \in Jobs
          PROVE  /\ row'[j].owner = me => row[j].owner = me
                 /\ row[j].owner = me /\ row[j].state = "ready" /\ row[j].until # Passed
                       => row'[j].owner = me /\ row'[j].state = "ready"
      <4>1. CASE Exhausted(Seen(row[j]))
        <5>1. ~(row[j].owner = me /\ row[j].until # Passed)
          BY <1>1, <4>1, LeasedIs, Constants
        <5>2. row'[j].owner = NoWorker
          BY <1>1, <2>1, <4>1 DEF Bury, TableRow
        <5>3. QED BY <5>1, <5>2, Constants
      <4>2. CASE ~Exhausted(Seen(row[j]))
        BY <2>1, <4>2 DEF Bury
      <4>3. QED BY <4>1, <4>2
    <3>4. QED BY <3>2, <3>3 DEF Calm
  <2>2. CASE ClaimNone(n)
    <3>1. [lane[n] EXCEPT !.pc = "none"].pc = "none"
      BY <1>1 DEF LaneRec
    <3>2. QED BY <1>3, <2>2, <3>1 DEF ClaimNone
  <2>3. CASE Close(n)
    BY <1>3, <2>3, LanesAre DEF Close
  <2>4. CASE LookErrs(n)
    BY <1>3, <2>4, LanesAre DEF LookErrs
  <2>5. CASE Extend(n)
    BY <1>1, <2>5 DEF Extend, Calm, Busy, TableRow
  <2>6. CASE SettleErrs(n)
    BY <2>6 DEF SettleErrs
  <2>7. QED BY <1>4, <2>1, <2>2, <2>3, <2>4, <2>5, <2>6 DEF LoopStep
<1>5. CASE TimerStep
  BY <1>2, <1>5 DEF TimerStep, Ask, AskErrs, Arm, Fire, PassIfUp
<1>6. ASSUME NEW j \in Jobs, NEW delay \in Delays, Write(j, delay) PROVE Calm
  <2>1. /\ row[j].state = "unwritten" /\ UNCHANGED lane
        /\ row' = [row EXCEPT ![j] = [Absent EXCEPT !.state = "ready", !.wait = delay]]
    BY <1>6 DEF Write
  <2>2. [Absent EXCEPT !.state = "ready", !.wait = delay].owner = NoWorker
    BY DEF Absent
  <2>3. QED BY <1>1, <2>1, <2>2, Constants DEF Calm, Busy
<1>7. ASSUME NEW j \in Jobs, WakeHere(j) \/ Request(j) PROVE Calm
  BY <1>2, <1>7 DEF WakeHere, Request, PassIfUp
<1>8. CASE Deliver \/ EndSend \/ SendErrs
  BY <1>2, <1>8 DEF Deliver, EndSend, SendErrs, PassIfUp
<1>9. ASSUME NEW j \in Jobs, OtherTakes(j) PROVE Calm
  <2>1. ~(row[j].owner = me /\ row[j].until # Passed)
    BY <1>1, <1>9, LeasedIs, Constants DEF OtherTakes, MayTake
  <2>2. row'[j].owner = other /\ \A i \in Jobs : i # j => row'[i] = row[i]
    BY <1>1, <1>9 DEF OtherTakes, TakenBy, TableRow
  <2>3. UNCHANGED lane
    BY <1>9 DEF OtherTakes
  <2>4. QED BY <2>1, <2>2, <2>3, Constants DEF Calm, Busy
<1>10. ASSUME NEW j \in Jobs, OtherExtends(j) \/ OtherCompletes(j) PROVE Calm
  <2>1. row[j].owner = other /\ UNCHANGED lane /\ \A i \in Jobs : i # j => row'[i] = row[i]
    BY <1>1, <1>10 DEF OtherExtends, OtherCompletes
  <2>2. row'[j].owner \in {other, NoWorker}
    BY <1>1, <1>10 DEF OtherExtends, OtherCompletes, TableRow, Absent
  <2>3. QED BY <2>1, <2>2, Constants DEF Calm, Busy
<1>11. CASE Tick
  <2>1. UNCHANGED lane
        /\ \A j \in Jobs : row'[j].owner = row[j].owner /\ row'[j].state = row[j].state
    BY <1>1, <1>11 DEF Tick, TableRow
  <2>2. QED BY <2>1 DEF Calm, Busy
<1>12. CASE Process \/ HourlyPass \/ Stop \/ UNCHANGED vars
  BY <1>2, <1>12 DEF Process, HourlyPass, Stop, vars
<1>13. QED
  BY <1>4, <1>5, <1>6, <1>7, <1>8, <1>9, <1>10, <1>11, <1>12 DEF Next, WriterStep, OtherStep

\* What the three steps that are not calm do.
LEMMA ClaimIs ==
    ASSUME Fits, NEW n \in Lanes, NEW k \in Jobs, Claim(n, k)
    PROVE  /\ row[k].state = "ready" /\ ReadyIn(row[k]) = 0 /\ Claimable(Seen(row[k]))
           /\ row'[k].owner = me /\ row'[k].state = "ready"
           /\ \A i \in Jobs : i # k => row'[i] = row[i]
           /\ lane[n].pc = "looking" /\ lane'[n].pc = "running"
           /\ Busy(n, k)' /\ \A i \in Jobs : i # k => ~Busy(n, i)'
           /\ \A m \in Lanes : m # n => lane'[m] = lane[m]
           /\ UNCHANGED <<asks, answers, timer, backoff, phase, missed, writer>>
<1>1. row[k] \in TableRow /\ row \in [Jobs -> TableRow] /\ lane \in [Lanes -> LaneRec]
  BY DEF Fits, RowsFit, LanesFit
<1>2. Claimable(Seen(row[k]))
  BY DEF Claim, MayTake
<1>3. row[k].state = "ready" /\ ReadyIn(row[k]) = 0
  BY <1>1, <1>2, LeasedIs
<1>4. row'[k].owner = me /\ row'[k].state = "ready" /\ \A i \in Jobs : i # k => row'[i] = row[i]
  BY <1>1, <1>3 DEF Claim, TakenBy, TableRow
<1>5. /\ lane[n].pc = "looking"
      /\ lane'[n] = [pc |-> "running", job |-> k, woken |-> FALSE]
      /\ \A m \in Lanes : m # n => lane'[m] = lane[m]
  BY <1>1 DEF Claim, SetLane
<1>6. UNCHANGED <<asks, answers, timer, backoff, phase, missed, writer>>
  BY DEF Claim
<1>7. QED BY <1>2, <1>3, <1>4, <1>5, <1>6 DEF Busy

LEMMA EndIs ==
    ASSUME Fits, NEW n \in Lanes, Run(n) \/ Release(n)
    PROVE  /\ lane[n].job \in Jobs /\ Busy(n, lane[n].job)
           /\ \A i \in Jobs : i # lane[n].job => row'[i] = row[i] /\ ~Busy(n, i)
           /\ row[lane[n].job].owner = me => row'[lane[n].job].owner = NoWorker
           /\ row[lane[n].job].owner # me => row' = row
           /\ lane'[n].pc \in {"off", "looking"} /\ \A i \in Jobs : ~Busy(n, i)'
           /\ Run(n) /\ phase = "up" => lane'[n].pc = "looking"
           /\ \A m \in Lanes : m # n => lane'[m] = lane[m]
           /\ UNCHANGED <<asks, answers, timer, backoff, phase, missed, writer>>
           /\ Release(n) => phase = "stopped"
<1> DEFINE j == lane[n].job
<1>1. row \in [Jobs -> TableRow] /\ lane \in [Lanes -> LaneRec] /\ LaneFits(lane[n])
  BY DEF Fits, RowsFit, LanesFit
<1>2. lane[n].pc = "running"
  BY DEF Run, Release
<1>3. j \in Jobs /\ row[j] \in TableRow
  BY <1>1, <1>2 DEF LaneFits
<1>4. \A i \in Jobs : i # j => row'[i] = row[i]
  BY <1>1, <1>3 DEF Run, Release
<1>5. row[j].owner # me => row' = row
  BY DEF Run, Release
<1>6. row[j].owner = me => row'[j].owner = NoWorker
  <2> SUFFICES ASSUME row[j].owner = me PROVE row'[j].owner = NoWorker
    OBVIOUS
  <2>1. CASE Release(n)
    BY <1>1, <1>3, <2>1 DEF Release, TableRow
  <2>2. CASE Run(n)
    <3> DEFINE failed == [row[j] EXCEPT !.owner = NoWorker, !.until = Passed,
                      !.wait = RetryTicks,
                      !.state = IF row[j].attempts >= MaxAttempts
                                THEN "dead" ELSE "ready"]
    <3>1. failed.owner = NoWorker /\ [Absent EXCEPT !.state = "gone"].owner = NoWorker
      BY <1>3 DEF TableRow, Absent
    <3>2. \E to \in {[Absent EXCEPT !.state = "gone"], failed} : row' = [row EXCEPT ![j] = to]
      BY <2>2 DEF Run
    <3> HIDE DEF failed, j
    <3>3. PICK to \in {[Absent EXCEPT !.state = "gone"], failed} : row' = [row EXCEPT ![j] = to]
      BY <3>2
    <3>4. to.owner = NoWorker
      BY <3>1
    <3>5. QED BY <1>1, <1>3, <3>3, <3>4
  <2>3. QED BY <2>1, <2>2
<1>7. lane'[n] \in {OffLane, NextLook} /\ \A m \in Lanes : m # n => lane'[m] = lane[m]
  BY <1>1 DEF Run, Release, SetLane
<1>8. Run(n) => lane'[n] = NextLook
  BY <1>1 DEF Run, SetLane
<1>9. UNCHANGED <<asks, answers, timer, backoff, phase, missed, writer>>
  BY DEF Run, Release
<1>10. Release(n) => phase = "stopped"
  BY DEF Release
<1>11. lane'[n].pc \in {"off", "looking"} /\ \A i \in Jobs : ~Busy(n, i)'
  BY <1>7, LanesAre DEF Busy
<1>12. Busy(n, j) /\ \A i \in Jobs : i # j => ~Busy(n, i)
  BY <1>2 DEF Busy
<1>13. Run(n) /\ phase = "up" => lane'[n].pc = "looking"
  BY <1>8, LanesAre
<1>14. QED BY <1>3, <1>4, <1>5, <1>6, <1>7, <1>9, <1>10, <1>11, <1>12, <1>13

LEMMA OwnRunKept ==
    ASSUME Fits, OwnRun, [Next]_vars, "settle" \notin Faults
    PROVE  OwnRun'
<1>1. CASE Calm
  BY <1>1 DEF Calm, OwnRun
<1>2. ASSUME NEW n \in Lanes, NEW k \in Jobs, Claim(n, k) PROVE OwnRun'
  <2> SUFFICES ASSUME NEW j \in Jobs, row'[j].owner = me
               PROVE  \E m \in Lanes : Busy(m, j)'
    BY DEF OwnRun
  <2>1. CASE j = k
    BY <1>2, <2>1, ClaimIs
  <2>2. CASE j # k
    <3>1. row[j].owner = me
      BY <1>2, <2>2, ClaimIs
    <3>2. PICK m \in Lanes : Busy(m, j)
      BY <3>1 DEF OwnRun
    <3>3. m # n
      BY <1>2, <3>2, ClaimIs DEF Busy
    <3>4. QED BY <1>2, <3>2, <3>3, ClaimIs DEF Busy
  <2>3. QED BY <2>1, <2>2
<1>3. ASSUME NEW n \in Lanes, Run(n) \/ Release(n) PROVE OwnRun'
  <2> SUFFICES ASSUME NEW j \in Jobs, row'[j].owner = me
               PROVE  \E m \in Lanes : Busy(m, j)'
    BY DEF OwnRun
  <2>1. row[j].owner = me /\ j # lane[n].job
    <3>1. CASE j = lane[n].job
      BY <1>3, <3>1, EndIs, Constants
    <3>2. CASE j # lane[n].job
      BY <1>3, <3>2, EndIs
    <3>3. QED BY <3>1, <3>2
  <2>2. PICK m \in Lanes : Busy(m, j)
    BY <2>1 DEF OwnRun
  <2>3. m # n
    BY <1>3, <2>1, <2>2, EndIs
  <2>4. QED BY <1>3, <2>2, <2>3, EndIs DEF Busy
<1>4. QED BY <1>1, <1>2, <1>3, CalmStep

\* A row leased to a loop whose lease is live is taken by nobody else.
LEMMA HeldKept ==
    ASSUME Fits, Held, LeasesKept, [Next]_vars, "settle" \notin Faults
    PROVE  Held'
<1>1. CASE Calm
  BY <1>1 DEF Calm, Held, LeasesKept
<1>2. ASSUME NEW n \in Lanes, NEW k \in Jobs, Claim(n, k) PROVE Held'
  <2>1. row[k].owner # me
    <3>1. row[k] \in TableRow
      BY DEF Fits, RowsFit
    <3>2. QED BY <1>2, <3>1, ClaimIs, LeasedIs, Constants DEF LeasesKept
  <2>2. \A m \in Lanes : ~Busy(m, k)
    BY <2>1 DEF Held
  <2>3. \A m \in Lanes, j \in Jobs : Busy(m, j)' => (m = n /\ j = k) \/ (m # n /\ j # k /\ Busy(m, j))
    BY <1>2, <2>2, ClaimIs DEF Busy
  <2>4. QED BY <1>2, <2>3, ClaimIs DEF Held
<1>3. ASSUME NEW n \in Lanes, Run(n) \/ Release(n) PROVE Held'
  <2>1. \A m \in Lanes, j \in Jobs : Busy(m, j)' => m # n /\ Busy(m, j)
    BY <1>3, EndIs DEF Busy
  <2>2. \A m \in Lanes, j \in Jobs : Busy(m, j)' => j # lane[n].job
    BY <1>3, <2>1, EndIs DEF Held
  <2>3. QED BY <1>3, <2>1, <2>2, EndIs DEF Held
<1>4. QED BY <1>1, <1>2, <1>3, CalmStep

-----------------------------------------------------------------------------
(* Signals *)

LEMMA MissedKept ==
    ASSUME Fits, MissedAll, [Next]_vars
    PROVE  MissedAll'
<1>1. row \in [Jobs -> TableRow] /\ phase \in {"new", "up", "stopped"}
  BY DEF Fits, RowsFit, TimesFit
<1>2. ASSUME missed' = {} PROVE MissedAll'
  BY <1>2 DEF MissedAll
<1>3. CASE Pass
  BY <1>2, <1>3 DEF Pass
<1>4. ASSUME UNCHANGED <<phase, missed, writer>>,
             \A j \in Jobs : row'[j].state = "ready" => row[j].state = "ready"
      PROVE  MissedAll'
  BY <1>4 DEF MissedAll, Coming, writer
<1>5. ASSUME Coming' PROVE MissedAll'
  BY <1>5 DEF MissedAll
<1>6. CASE \E n \in Lanes : LoopStep(n)
  <2> SUFFICES ASSUME NEW n \in Lanes, LoopStep(n) PROVE MissedAll'
    BY <1>6
  <2>1. UNCHANGED <<phase, missed, writer>>
    BY DEF LoopStep, Bury, Claim, ClaimNone, Close, LookErrs, Extend, Run, SettleErrs,
           Release
  <2>2. ASSUME NEW j \in Jobs, row'[j].state = "ready" PROVE row[j].state = "ready"
    <3>1. CASE Bury(n)
      BY <1>1, <2>2, <3>1, LeasedIs DEF Bury
    <3>2. ASSUME NEW k \in Jobs, Claim(n, k) PROVE row[j].state = "ready"
      BY <2>2, <3>2, ClaimIs
    <3>3. CASE Run(n) \/ Release(n)
      <4>1. CASE j # lane[n].job \/ row[j].owner # me
        <5>1. row'[j] = row[j]
          BY <3>3, <4>1, EndIs
        <5>2. QED BY <2>2, <5>1
      <4>2. CASE row[j].owner = me
        BY <4>2, Constants DEF Fits, RowsFit, RowFits
      <4>3. QED BY <4>1, <4>2
    <3>4. CASE Extend(n)
      BY <1>1, <2>2, <3>4 DEF Extend, TableRow
    <3>5. CASE ClaimNone(n) \/ Close(n) \/ LookErrs(n) \/ SettleErrs(n)
      BY <2>2, <3>5 DEF ClaimNone, Close, LookErrs, SettleErrs
    <3>6. QED BY <3>1, <3>2, <3>3, <3>4, <3>5 DEF LoopStep
  <2>3. QED BY <1>4, <2>1, <2>2
<1>7. CASE TimerStep
  <2>1. CASE Fire
    BY <1>3, <1>4, <2>1 DEF Fire, PassIfUp, writer
  <2>2. CASE Ask \/ AskErrs \/ \E delay \in answers : Arm(delay)
    BY <1>4, <2>2 DEF Ask, AskErrs, Arm
  <2>3. QED BY <1>7, <2>1, <2>2 DEF TimerStep
<1>8. ASSUME NEW j \in Jobs, NEW delay \in Delays, Write(j, delay) PROVE MissedAll'
  <2>1. Coming'
    BY <1>8 DEF Write, Coming
  <2>2. QED BY <1>5, <2>1
<1>9. ASSUME NEW j \in Jobs, WakeHere(j) PROVE MissedAll'
  <2>1. CASE phase = "up"
    BY <1>3, <1>9, <2>1 DEF WakeHere, PassIfUp
  <2>2. CASE phase # "up"
    BY <1>5, <1>9, <2>2 DEF WakeHere, Coming
  <2>3. QED BY <2>1, <2>2
<1>10. ASSUME NEW j \in Jobs, Request(j) PROVE MissedAll'
  <2>1. Coming'
    BY <1>10 DEF Request, Coming, Fits, WriterFits
  <2>2. QED BY <1>5, <2>1
<1>11. CASE Deliver
  <2>1. CASE phase = "up"
    BY <1>3, <1>11, <2>1 DEF Deliver, PassIfUp
  <2>2. CASE phase # "up"
    BY <1>5, <1>11, <2>2 DEF Deliver, Coming
  <2>3. QED BY <2>1, <2>2
<1>12. CASE EndSend \/ SendErrs
  <2>1. signal' = Sent /\ UNCHANGED <<row, phase, unsent>>
    BY <1>12 DEF EndSend, SendErrs
  <2>2. CASE signal.again
    BY <1>5, <2>1, <2>2 DEF Sent, Coming
  <2>3. CASE ~signal.again /\ EndSend
    BY <2>1, <2>3 DEF EndSend, Sent, MissedAll, Coming
  <2>4. CASE ~signal.again /\ SendErrs
    BY <2>1, <2>4 DEF SendErrs, MissedAll
  <2>5. QED BY <1>12, <2>2, <2>3, <2>4
<1>13. CASE OtherStep
  <2> SUFFICES ASSUME NEW k \in Jobs, OtherTakes(k) \/ OtherExtends(k) \/ OtherCompletes(k)
               PROVE  MissedAll'
    BY <1>13 DEF OtherStep
  <2>1. UNCHANGED <<phase, missed, writer>>
    BY DEF OtherTakes, OtherExtends, OtherCompletes
  <2>2. ASSUME NEW j \in Jobs, row'[j].state = "ready" PROVE row[j].state = "ready"
    <3>1. CASE OtherTakes(k)
      BY <1>1, <2>2, <3>1, LeasedIs DEF OtherTakes, MayTake
    <3>2. CASE OtherExtends(k)
      BY <1>1, <2>2, <3>2 DEF OtherExtends, TableRow
    <3>3. CASE OtherCompletes(k)
      BY <1>1, <2>2, <3>3 DEF OtherCompletes, Absent
    <3>4. QED BY <3>1, <3>2, <3>3
  <2>3. QED BY <1>4, <2>1, <2>2
<1>14. CASE Tick
  <2>1. \A j \in Jobs : row'[j].state = row[j].state
    BY <1>1, <1>14 DEF Tick, TableRow
  <2>2. QED BY <1>4, <1>14, <2>1 DEF Tick
<1>15. CASE Process \/ HourlyPass
  BY <1>3, <1>15 DEF Process, HourlyPass
<1>16. CASE Stop
  BY <1>5, <1>16 DEF Stop, Coming
<1>17. CASE UNCHANGED vars
  BY <1>4, <1>17 DEF vars, writer
<1>18. QED
  BY <1>6, <1>7, <1>8, <1>9, <1>10, <1>11, <1>12, <1>13, <1>14, <1>15, <1>16, <1>17
     DEF Next, WriterStep

-----------------------------------------------------------------------------
(* No row is left *)

LEMMA NumbersAre ==
    ASSUME Fits
    PROVE  /\ \A j \in Jobs : row[j] \in TableRow /\ ReadyIn(row[j]) \in 0..Longest
           /\ timer \in Int /\ backoff \in Int /\ answers \subseteq Int
           /\ \A j \in Jobs : ReadyIn(row[j]) \in Int
<1>1. \A j \in Jobs : row[j] \in TableRow
  BY DEF Fits, RowsFit
<1>2. \A j \in Jobs : ReadyIn(row[j]) \in 0..Longest
  BY <1>1, ReadyInIs
<1>3. timer \in Int /\ backoff \in Int /\ answers \subseteq Int
  BY Constants DEF Fits, TimesFit
<1>4. QED BY <1>1, <1>2, <1>3, Constants

\* A row that can be taken no earlier than before is still covered.
LEMMA StaysInTime ==
    ASSUME Fits, NEW j \in Jobs, InTime(j), row'[j] \in TableRow,
           UNCHANGED <<timer, backoff>>, answers \subseteq answers', missed \subseteq missed',
           ReadyIn(row[j]) <= ReadyIn(row'[j])
    PROVE  InTime(j)'
<1> DEFINE R == ReadyIn(row[j])
           S == ReadyIn(row'[j])
<1>1. R \in Int /\ S \in Int /\ R <= S /\ timer \in Int /\ backoff \in Int /\ answers \subseteq Int
  BY NumbersAre, ReadyInIs, Constants
<1>2. timer <= Max({R, backoff}) => timer <= Max({S, backoff})
  <2> HIDE DEF R, S
  <2>1. QED BY <1>1, MaxOfTwo
<1>3. \A delay \in answers : delay <= R => delay <= S
  <2> HIDE DEF R, S
  <2>1. SUFFICES ASSUME NEW delay \in answers, delay <= R PROVE delay <= S
    OBVIOUS
  <2>2. delay \in Int
    BY <1>1
  <2>3. QED BY <1>1, <2>1, <2>2
<1>4. QED BY <1>2, <1>3 DEF InTime

\* Nothing is left that was not, and who was to look still is.
LEMMA StillLooked ==
    ASSUME Looked, Told => Told',
           (\E n \in Lanes : Resting(n)') => \E n \in Lanes : Resting(n),
           \A n \in Lanes : Looks(n) => Looks(n)',
           Left' \subseteq Left
    PROVE  Looked'
<1>1. CASE Told \/ \A n \in Lanes : ~Resting(n)
  BY <1>1 DEF Looked
<1>2. CASE \E f \in [Lanes -> Jobs \cup {NoJob}] :
              \A j \in Left : \E n \in Lanes : Looks(n) /\ f[n] = j
  <2>1. PICK f \in [Lanes -> Jobs \cup {NoJob}] :
            \A j \in Left : \E n \in Lanes : Looks(n) /\ f[n] = j
    BY <1>2
  <2>2. \A j \in Left' : \E n \in Lanes : Looks(n)' /\ f[n] = j
    BY <2>1
  <2>3. QED BY <2>2 DEF Looked
<1>3. QED BY <1>1, <1>2 DEF Looked

LEMMA NoneLeft == ASSUME Left' = {} PROVE Looked'
<1>1. CASE Lanes = {}
  BY <1>1 DEF Looked
<1>2. CASE Lanes # {}
  <2> DEFINE f == [n \in Lanes |-> NoJob]
  <2>1. f \in [Lanes -> Jobs \cup {NoJob}]
    OBVIOUS
  <2>2. \A j \in Left' : \E n \in Lanes : Looks(n)' /\ f[n] = j
    OBVIOUS
  <2>3. QED BY <2>1, <2>2 DEF Looked
<1>3. QED BY <1>1, <1>2

\* A step that moves neither rows nor loops nor times.
LEMMA LeftStays ==
    ASSUME UNCHANGED <<row, answers, timer, backoff, missed>>,
           \A n \in Lanes, j \in Jobs : Busy(n, j) => Busy(n, j)'
    PROVE  Left' \subseteq Left
BY DEF Left, InTime

LEMMA PassLooked == ASSUME Fits, Pass PROVE Looked'
BY PassIs DEF Fits, Looked

LEMMA ComingLooked == ASSUME Coming' \/ asks' > 0 PROVE Looked'
BY DEF Looked, Told

LEMMA FailedLooked ==
    ASSUME \A j \in Jobs : ReadyIn(row'[j]) \in Int, PassFailed, phase' = phase
    PROVE  Looked'
<1>1. CASE phase # "up"
  BY <1>1, ComingLooked DEF Coming
<1>2. CASE phase = "up"
  <2>1. timer' = BackoffTicks /\ backoff' = BackoffTicks
    BY <1>2 DEF PassFailed
  <2>2. \A j \in Jobs : timer' <= Max({ReadyIn(row'[j]), backoff'})
    BY <2>1, Constants, MaxOfTwo
  <2>3. Left' = {}
    BY <2>2 DEF Left, InTime
  <2>4. QED BY <2>3, NoneLeft
<1>3. QED BY <1>1, <1>2

\* A loop that takes a row which was left takes over whose look it was; all others
\* are such that nothing is left, since what can be taken now comes first.
LEMMA ClaimLooked ==
    ASSUME Fits, MissedAll, Looked, Few \/ (Held /\ LeasesKept),
           NEW n \in Lanes, NEW k \in Jobs, Claim(n, k)
    PROVE  Looked'
<1>1. /\ row[k].state = "ready" /\ ReadyIn(row[k]) = 0
      /\ \A i \in Jobs : i # k => row'[i] = row[i]
      /\ \A m \in Lanes : m # n => lane'[m] = lane[m]
      /\ lane[n].pc = "looking" /\ lane'[n].pc = "running" /\ Busy(n, k)'
      /\ UNCHANGED <<asks, answers, timer, backoff, phase, missed, writer>>
  BY ClaimIs
<1>2. \A j \in Left' : j \in Left /\ j # k
  <2> SUFFICES ASSUME NEW j \in Left' PROVE j \in Left /\ j # k
    OBVIOUS
  <2>1. j # k
    BY <1>1 DEF Left
  <2>2. row'[j] = row[j]
    BY <1>1, <2>1 DEF Left
  <2>3. ~InTime(j)
    BY <1>1, <2>2 DEF Left, InTime
  <2>4. \A m \in Lanes : ~Busy(m, j)
    BY <1>1 DEF Left, Busy
  <2>5. QED BY <2>1, <2>2, <2>3, <2>4 DEF Left
<1>3. SUFFICES ASSUME ~Told', NEW o \in Lanes, Resting(o)' PROVE Looked'
  BY DEF Looked
<1>4. ~Told /\ Resting(o) /\ o # n
  BY <1>1, <1>3 DEF Told, Coming, writer, Resting
<1>5. PICK f \in [Lanes -> Jobs \cup {NoJob}] :
          \A j \in Left : \E m \in Lanes : Looks(m) /\ f[m] = j
  BY <1>4 DEF Looked
<1>6. CASE k \in Left
  <2>1. PICK p \in Lanes : Looks(p) /\ f[p] = k
    BY <1>5, <1>6
  <2> DEFINE g == [f EXCEPT ![p] = f[n]]
  <2>2. g \in [Lanes -> Jobs \cup {NoJob}]
    OBVIOUS
  <2>3. ASSUME NEW j \in Left' PROVE \E m \in Lanes : Looks(m)' /\ g[m] = j
    <3>1. j \in Left /\ j # k
      BY <1>2
    <3>2. PICK m \in Lanes : Looks(m) /\ f[m] = j
      BY <1>5, <3>1
    <3>3. m # p
      BY <2>1, <3>1, <3>2
    <3>4. CASE m = n
      <4>1. p # n /\ g[p] = j
        BY <3>2, <3>3, <3>4
      <4>2. Looks(p)'
        BY <1>1, <2>1, <4>1 DEF Looks
      <4>3. QED BY <4>1, <4>2
    <3>5. CASE m # n
      <4>1. g[m] = j
        BY <3>2, <3>3
      <4>2. Looks(m)'
        BY <1>1, <3>2, <3>5 DEF Looks
      <4>3. QED BY <4>1, <4>2
    <3>6. QED BY <3>4, <3>5
  <2> HIDE DEF g
  <2>4. QED BY <2>2, <2>3 DEF Looked
<1>7. CASE k \notin Left
  <2>1. InTime(k)
    <3>1. ASSUME NEW m \in Lanes, Busy(m, k) PROVE FALSE
      <4>1. m # n /\ m # o
        BY <1>1, <1>4, <3>1 DEF Busy, Resting
      <4>2. ~Few
        BY <1>4, <4>1 DEF Few
      <4>3. row[k].owner = me /\ row[k].until # Passed
        BY <3>1, <4>2 DEF Held, LeasesKept
      <4>4. row[k] \in TableRow
        BY DEF Fits, RowsFit
      <4>5. QED BY <4>3, <4>4, ClaimIs, LeasedIs, Constants
    <3>2. QED BY <1>1, <1>7, <3>1 DEF Left
  <2>2. ASSUME NEW j \in Jobs, row[j].state = "ready" PROVE InTime(j)
    <3>1. /\ ReadyIn(row[j]) \in Int /\ 0 <= ReadyIn(row[j])
          /\ timer \in Int /\ backoff \in Int /\ answers \subseteq Int
      BY NumbersAre, Constants
    <3>2. CASE k \in missed
      BY <1>4, <2>2, <3>2 DEF MissedAll, Told, InTime
    <3>3. CASE \E delay \in answers : delay <= ReadyIn(row[k])
      <4>1. PICK delay \in answers : delay <= 0
        BY <1>1, <3>3
      <4>2. delay \in Int
        BY <3>1
      <4>3. delay <= ReadyIn(row[j])
        BY <3>1, <4>1, <4>2
      <4>4. QED BY <4>3 DEF InTime
    <3>4. CASE timer <= Max({ReadyIn(row[k]), backoff})
      <4>1. timer <= 0 \/ timer <= backoff
        BY <1>1, <3>1, <3>4, MaxOfTwo
      <4>2. timer <= ReadyIn(row[j]) \/ timer <= backoff
        BY <3>1, <4>1
      <4>3. timer <= Max({ReadyIn(row[j]), backoff})
        BY <3>1, <4>2, MaxOfTwo
      <4>4. QED BY <4>3 DEF InTime
    <3>5. QED BY <2>1, <3>2, <3>3, <3>4 DEF InTime
  <2>3. Left' = {}
    BY <1>2, <2>2 DEF Left
  <2>4. QED BY <2>3, NoneLeft
<1>8. QED BY <1>6, <1>7

\* The loop that lets go of a row is the one to look for it.
LEMMA RunLooked ==
    ASSUME Fits, Looked, NEW n \in Lanes, Run(n) \/ Release(n)
    PROVE  Looked'
<1> DEFINE k == lane[n].job
<1>1. /\ k \in Jobs /\ Busy(n, k)
      /\ \A i \in Jobs : i # k => row'[i] = row[i] /\ ~Busy(n, i)
      /\ \A m \in Lanes : m # n => lane'[m] = lane[m]
      /\ UNCHANGED <<asks, answers, timer, backoff, phase, missed, writer>>
  BY EndIs
<1>2. SUFFICES ASSUME ~Told', NEW o \in Lanes, Resting(o)' PROVE Looked'
  BY DEF Looked
<1>3. ~Told /\ phase = "up"
  BY <1>1, <1>2 DEF Told, Coming, writer
<1>4. lane'[n].pc = "looking"
  BY <1>3, EndIs
<1>5. Resting(o)
  BY <1>1, <1>2, <1>4 DEF Resting
<1>6. PICK f \in [Lanes -> Jobs \cup {NoJob}] :
          \A j \in Left : \E m \in Lanes : Looks(m) /\ f[m] = j
  BY <1>3, <1>5 DEF Looked
<1> DEFINE g == [f EXCEPT ![n] = k]
<1>7. g \in [Lanes -> Jobs \cup {NoJob}]
  BY <1>1
<1>8. ASSUME NEW j \in Left' PROVE \E m \in Lanes : Looks(m)' /\ g[m] = j
  <2>1. CASE j = k
    <3>1. Looks(n)' /\ g[n] = j
      BY <1>4, <2>1 DEF Looks
    <3>2. QED BY <3>1
  <2>2. CASE j # k
    <3>1. j \in Jobs /\ row'[j] = row[j] /\ ~Busy(n, j)
      BY <1>1, <2>2 DEF Left
    <3>2. row[j].state = "ready" /\ ~InTime(j)
      BY <1>1, <3>1 DEF Left, InTime
    <3>3. \A m \in Lanes : ~Busy(m, j)
      BY <1>1, <3>1 DEF Left, Busy
    <3>4. PICK m \in Lanes : Looks(m) /\ f[m] = j
      BY <1>6, <3>1, <3>2, <3>3 DEF Left
    <3>5. m # n
      BY <1>1, <3>4 DEF Looks, Busy
    <3>6. Looks(m)' /\ g[m] = j
      BY <1>1, <3>4, <3>5 DEF Looks
    <3>7. QED BY <3>6
  <2>3. QED BY <2>1, <2>2
<1> HIDE DEF g
<1>9. QED BY <1>7, <1>8 DEF Looked

LEMMA LookedKept ==
    ASSUME Fits, Fits', OwnRun, MissedAll, Looked, Few \/ (Held /\ LeasesKept),
           [Next]_vars, "settle" \notin Faults
    PROVE  Looked'
<1>1. /\ row \in [Jobs -> TableRow] /\ lane \in [Lanes -> LaneRec]
      /\ phase \in {"new", "up", "stopped"}
      /\ \A j \in Jobs : row[j] \in TableRow /\ row'[j] \in TableRow
      /\ \A j \in Jobs : ReadyIn(row'[j]) \in Int /\ 0 <= ReadyIn(row'[j])
  <2>1. \A j \in Jobs : row'[j] \in TableRow
    BY DEF Fits, RowsFit
  <2>2. \A j \in Jobs : ReadyIn(row'[j]) \in Int /\ 0 <= ReadyIn(row'[j])
    BY <2>1, ReadyInIs, Constants
  <2>3. QED BY <2>1, <2>2 DEF Fits, RowsFit, LanesFit, TimesFit
<1>2. ASSUME UNCHANGED <<row, lane, asks, answers, timer, backoff, phase, missed, writer>>
      PROVE  Looked'
  <2>1. Left' \subseteq Left
    BY <1>2, LeftStays DEF Busy
  <2>2. \A m \in Lanes : (Looks(m) => Looks(m)') /\ (Resting(m)' => Resting(m))
    BY <1>2 DEF Looks, Resting
  <2>3. Told => Told'
    BY <1>2 DEF Told, Coming, writer
  <2>4. QED BY <2>1, <2>2, <2>3, StillLooked
<1>3. ASSUME UNCHANGED <<row, answers, timer, backoff, missed, asks, phase, writer>>,
             NEW n \in Lanes, NEW l, SetLane(n, l), l.pc \in {"looking", "none"},
             lane[n].pc \in {"burying", "looking", "none"}
      PROVE  Looked'
  <2>1. \A m \in Lanes, j \in Jobs : Busy(m, j) => Busy(m, j)'
    BY <1>1, <1>3 DEF Busy, SetLane
  <2>2. \A m \in Lanes : (Looks(m) => Looks(m)') /\ (Resting(m)' => Resting(m))
    BY <1>1, <1>3 DEF Looks, Resting, SetLane
  <2>3. Told => Told'
    BY <1>3 DEF Told, Coming, writer
  <2>4. Left' \subseteq Left
    BY <1>3, <2>1, LeftStays
  <2>5. QED BY <2>2, <2>3, <2>4, StillLooked
<1>4. ASSUME UNCHANGED <<lane, timer, backoff, answers, missed, asks, phase, writer>>,
             NEW k \in Jobs, \A j \in Jobs : j # k => row'[j] = row[j],
             \/ row'[k].state # "ready"
             \/ \E n \in Lanes : Busy(n, k)
             \/ row[k].state = "ready" /\ ReadyIn(row[k]) <= ReadyIn(row'[k])
      PROVE  Looked'
  <2>1. \A m \in Lanes : (Looks(m) => Looks(m)') /\ (Resting(m)' => Resting(m))
    BY <1>4 DEF Looks, Resting
  <2>2. Told => Told'
    BY <1>4 DEF Told, Coming, writer
  <2>3. ASSUME NEW j \in Left' PROVE j \in Left
    <3>1. j \in Jobs /\ row'[j].state = "ready" /\ ~InTime(j)' /\ \A m \in Lanes : ~Busy(m, j)
      BY <1>4 DEF Left, Busy
    <3>2. CASE j = k
      <4>1. row[k].state = "ready" /\ ReadyIn(row[k]) <= ReadyIn(row'[k])
        BY <1>4, <3>1, <3>2
      <4>2. ~InTime(k)
        BY <1>1, <1>4, <3>1, <3>2, <4>1, StaysInTime
      <4>3. QED BY <3>1, <3>2, <4>1, <4>2 DEF Left
    <3>3. CASE j # k
      BY <1>4, <3>1, <3>3 DEF Left, InTime
    <3>4. QED BY <3>2, <3>3
  <2>4. QED BY <2>1, <2>2, <2>3, StillLooked
<1>5. ASSUME NEW n \in Lanes, LoopStep(n) PROVE Looked'
  <2>1. CASE phase # "up"
    <3>1. phase' = phase
      BY <1>5 DEF LoopStep, Bury, Claim, ClaimNone, Close, LookErrs, Extend, Run, SettleErrs,
                  Release
    <3>2. QED BY <2>1, <3>1, ComingLooked DEF Coming
  <2>2. CASE phase = "up"
    <3>1. NextLook.pc = "looking"
      BY <2>2, LanesAre
    <3>2. CASE Bury(n)
      <4>1. \A m \in Lanes : (Looks(m) => Looks(m)') /\ (Resting(m)' => Resting(m))
        BY <1>1, <3>1, <3>2 DEF Bury, SetLane, Looks, Resting
      <4>2. Told => Told'
        BY <3>2 DEF Bury, Told, Coming, writer
      <4>3. \A m \in Lanes, j \in Jobs : Busy(m, j) => Busy(m, j)'
        BY <1>1, <3>2 DEF Bury, SetLane, Busy
      <4>4. \A j \in Jobs : row'[j] = row[j] \/ row'[j].state = "dead"
        BY <1>1, <3>2 DEF Bury, TableRow
      <4>5. UNCHANGED <<answers, timer, backoff, missed>>
        BY <3>2 DEF Bury
      <4>6. Left' \subseteq Left
        BY <4>3, <4>4, <4>5 DEF Left, InTime
      <4>7. QED BY <4>1, <4>2, <4>6, StillLooked
    <3>3. CASE ClaimNone(n)
      <4>1. [lane[n] EXCEPT !.pc = "none"].pc = "none"
        BY <1>1 DEF LaneRec
      <4>2. QED BY <1>3, <3>3, <4>1 DEF ClaimNone
    <3>4. CASE Close(n)
      <4>1. CASE lane[n].woken
        BY <1>3, <3>1, <3>4, <4>1 DEF Close
      <4>2. CASE ~lane[n].woken
        <5>1. asks' = asks + 1 /\ asks \in Nat
          BY <2>2, <3>4, <4>2, Constants DEF Close, Fits, TimesFit
        <5>2. QED BY <5>1, ComingLooked
      <4>3. QED BY <4>1, <4>2
    <3>5. CASE LookErrs(n)
      BY <1>1, <3>5, FailedLooked DEF LookErrs
    <3>6. CASE Extend(n)
      <4>1. lane[n].pc = "running" /\ lane[n].job \in Jobs
        BY <3>6 DEF Extend, Fits, LanesFit, LaneFits
      <4>2. Busy(n, lane[n].job)
        BY <4>1 DEF Busy
      <4>3. /\ \A j \in Jobs : j # lane[n].job => row'[j] = row[j]
            /\ UNCHANGED <<lane, timer, backoff, answers, missed, asks, phase, writer>>
        BY <1>1, <3>6 DEF Extend
      <4>4. QED BY <1>4, <4>1, <4>2, <4>3
    <3>7. CASE SettleErrs(n)
      BY <3>7 DEF SettleErrs
    <3>8. QED BY <1>5, <3>2, <3>3, <3>4, <3>5, <3>6, <3>7, ClaimLooked, RunLooked
              DEF LoopStep
  <2>3. QED BY <2>1, <2>2
<1>6. CASE Ask
  <2> DEFINE times == {ReadyIn(row[j]) : j \in {i \in Jobs : Awaited(i)}}
  <2>1. answers' = IF times = {} THEN answers ELSE answers \cup {Min(times)}
    BY <1>6 DEF Ask
  <2>2. UNCHANGED <<row, lane, timer, backoff, missed>>
    BY <1>6 DEF Ask
  <2>3. times \in SUBSET Nat
    BY NumbersAre, Constants
  <2>4. ASSUME NEW j \in Jobs, row[j].state = "ready", \A n \in Lanes : ~Busy(n, j)
        PROVE  InTime(j)'
    <3>1. Awaited(j)
      BY <2>4 DEF Awaited, OwnRun
    <3>2. ReadyIn(row[j]) \in times
      BY <3>1
    <3> HIDE DEF times
    <3>3. Min(times) <= ReadyIn(row[j]) /\ Min(times) \in answers'
      BY <2>1, <2>3, <3>2, MinIs
    <3>4. QED BY <2>2, <3>3 DEF InTime
  <2>5. Left' = {}
    BY <2>2, <2>4 DEF Left, Busy
  <2>6. QED BY <2>5, NoneLeft
<1>7. CASE AskErrs
  BY <1>1, <1>7, FailedLooked DEF AskErrs
<1>8. ASSUME NEW delay \in answers, Arm(delay) PROVE Looked'
  <2>1. CASE phase # "up"
    BY <1>8, <2>1, ComingLooked DEF Arm, Coming
  <2>2. CASE phase = "up"
    <3>1. /\ timer' = Armed(delay) /\ answers' = answers \ {delay}
          /\ UNCHANGED <<row, lane, asks, backoff, phase, missed, writer>>
      BY <1>8, <2>2 DEF Arm
    <3>2. ASSUME NEW j \in Jobs, InTime(j) PROVE InTime(j)'
      <4> DEFINE R == ReadyIn(row[j])
      <4>1. R \in Int /\ timer \in Int /\ backoff \in Int /\ delay \in Int
        BY NumbersAre
      <4> HIDE DEF R
      <4>2. timer' <= timer /\ timer' <= Max({delay, backoff}) /\ timer' \in Int
        <5>1. Max({delay, backoff}) \in Int
          BY <4>1, MaxOfTwo
        <5>2. QED BY <3>1, <4>1, <5>1 DEF Armed
      <4>3. delay <= R => timer' <= Max({R, backoff})
        BY <4>1, <4>2, MaxOfTwo
      <4>4. timer <= Max({R, backoff}) => timer' <= Max({R, backoff})
        BY <4>1, <4>2, MaxOfTwo
      <4>5. R = ReadyIn(row'[j]) /\ R = ReadyIn(row[j]) /\ backoff' = backoff /\ missed' = missed
        BY <3>1 DEF R
      <4>6. QED BY <3>1, <3>2, <4>3, <4>4, <4>5 DEF InTime
    <3>3. Left' \subseteq Left
      BY <3>1, <3>2 DEF Left, Busy
    <3>4. Told => Told'
      BY <3>1 DEF Told, Coming, writer
    <3>5. \A m \in Lanes : (Looks(m) => Looks(m)') /\ (Resting(m)' => Resting(m))
      BY <3>1 DEF Looks, Resting
    <3>6. QED BY <3>3, <3>4, <3>5, StillLooked
  <2>3. QED BY <2>1, <2>2
<1>9. ASSUME PassIfUp, phase' = phase PROVE Looked'
  <2>1. CASE phase = "up"
    BY <1>9, <2>1, PassLooked DEF PassIfUp
  <2>2. CASE phase # "up"
    BY <1>9, <2>2, ComingLooked DEF Coming
  <2>3. QED BY <2>1, <2>2
<1>10. CASE Fire \/ Deliver \/ \E j \in Jobs : WakeHere(j)
  BY <1>9, <1>10 DEF Fire, Deliver, WakeHere
<1>11. ASSUME NEW j \in Jobs, (\E delay \in Delays : Write(j, delay)) \/ Request(j)
       PROVE  Looked'
  <2>1. CASE Request(j)
    <3>1. signal.at \in {"idle", "sending", "sent"}
      BY DEF Fits, WriterFits
    <3>2. signal' = IF signal.at = "idle" THEN [at |-> "sending", again |-> FALSE]
                                          ELSE [signal EXCEPT !.again = TRUE]
      BY <2>1 DEF Request
    <3>3. Coming'
      BY <3>1, <3>2 DEF Coming, Fits, WriterFits
    <3>4. QED BY <3>3, ComingLooked
  <2>3. CASE \E delay \in Delays : Write(j, delay)
    <3>1. unsent' # {}
      BY <2>3 DEF Write
    <3>2. QED BY <3>1, ComingLooked DEF Coming
  <2>4. QED BY <1>11, <2>1, <2>3
<1>12. CASE EndSend
  <2>1. CASE signal.again
    BY <1>12, <2>1, ComingLooked DEF EndSend, Sent, Coming
  <2>2. CASE ~signal.again
    <3>1. UNCHANGED <<row, lane, asks, answers, timer, backoff, phase, unsent, missed>>
      BY <1>12 DEF EndSend
    <3>2. Told => Told'
      BY <1>12, <2>2, <3>1 DEF EndSend, Told, Coming
    <3>3. \A m \in Lanes : (Looks(m) => Looks(m)') /\ (Resting(m)' => Resting(m))
      BY <3>1 DEF Looks, Resting
    <3>4. Left' \subseteq Left
      BY <3>1, LeftStays DEF Busy
    <3>5. QED BY <3>2, <3>3, <3>4, StillLooked
  <2>3. QED BY <2>1, <2>2
<1>13. CASE SendErrs
  <2>1. CASE signal.again
    BY <1>13, <2>1, ComingLooked DEF SendErrs, Sent, Coming
  <2>2. CASE ~signal.again
    <3>1. row' = row /\ missed' = missed \cup {j \in Jobs : row[j].state = "ready"}
      BY <1>13, <2>2 DEF SendErrs
    <3>2. Left' = {}
      BY <3>1 DEF Left, InTime
    <3>3. QED BY <3>2, NoneLeft
  <2>3. QED BY <2>1, <2>2
<1>14. ASSUME NEW k \in Jobs, OtherTakes(k) PROVE Looked'
  <2>1. row[k].state = "ready" /\ ReadyIn(row[k]) = 0
    BY <1>1, <1>14, LeasedIs DEF OtherTakes, MayTake
  <2>2. /\ UNCHANGED <<lane, timer, backoff, answers, missed, asks, phase, writer>>
        /\ \A j \in Jobs : j # k => row'[j] = row[j]
    BY <1>1, <1>14 DEF OtherTakes
  <2>3. ReadyIn(row[k]) <= ReadyIn(row'[k])
    BY <1>1, <2>1
  <2>4. QED BY <1>4, <2>1, <2>2, <2>3
<1>15. ASSUME NEW k \in Jobs, OtherExtends(k) PROVE Looked'
  <2>1. /\ UNCHANGED <<lane, timer, backoff, answers, missed, asks, phase, writer>>
        /\ \A j \in Jobs : j # k => row'[j] = row[j]
    BY <1>1, <1>15 DEF OtherExtends
  <2>2. row[k].owner = other /\ row[k].state = "ready"
    BY <1>15, Constants DEF OtherExtends, Fits, RowsFit, RowFits
  <2>3. /\ row'[k].owner = row[k].owner /\ row'[k].wait = row[k].wait
        /\ row'[k].until = LeaseTicks /\ row[k].until <= LeaseTicks
        /\ row[k].until \in Int /\ row[k].wait \in Int
    BY <1>1, <1>15, Constants DEF OtherExtends, TableRow
  <2>4. ReadyIn(row[k]) <= ReadyIn(row'[k])
    <3>1. ReadyIn(row[k]) = IF row[k].owner = NoWorker \/ row[k].until <= row[k].wait
                            THEN row[k].wait ELSE row[k].until
      BY <1>1, ReadyInIs
    <3>2. ReadyIn(row'[k]) = IF row'[k].owner = NoWorker \/ row'[k].until <= row'[k].wait
                             THEN row'[k].wait ELSE row'[k].until
      BY <1>1, ReadyInIs
    <3>3. QED BY <2>3, <3>1, <3>2, Constants
  <2>5. QED BY <1>4, <2>1, <2>2, <2>4
<1>16. ASSUME NEW k \in Jobs, OtherCompletes(k) PROVE Looked'
  <2>1. /\ UNCHANGED <<lane, timer, backoff, answers, missed, asks, phase, writer>>
        /\ \A j \in Jobs : j # k => row'[j] = row[j]
        /\ row'[k].state # "ready"
    BY <1>1, <1>16 DEF OtherCompletes, Absent
  <2>2. QED BY <1>4, <2>1
<1>17. CASE Tick
  <2>1. UNCHANGED <<lane, asks, phase, missed, writer>> /\ answers = {}
    BY <1>17 DEF Tick
  <2>2. ASSUME NEW j \in Jobs, InTime(j) PROVE InTime(j)'
    <3> DEFINE R == ReadyIn(row[j])
               S == ReadyIn(row'[j])
    <3>1. R \in Int /\ 0 <= R /\ S \in Int /\ 0 <= S /\ R - 1 <= S /\ R <= Longest
      <4>1. /\ row'[j].owner = row[j].owner /\ row'[j].wait = Down(row[j].wait)
            /\ row'[j].until = IF row[j].until = Passed THEN row[j].until ELSE row[j].until - 1
            /\ row[j].until \in Int /\ row[j].wait \in Nat
        <5>1. row'[j] = [row[j] EXCEPT !.wait = Down(@), !.until = IF @ = Passed THEN @ ELSE @ - 1]
          BY <1>17 DEF Tick
        <5>2. row[j].wait \in 0..Longest /\ row[j].until \in -1..LeaseTicks
          BY <1>1 DEF TableRow
        <5>3. /\ row'[j].owner = row[j].owner /\ row'[j].wait = Down(row[j].wait)
              /\ row'[j].until = IF row[j].until = Passed THEN row[j].until ELSE row[j].until - 1
          BY <1>1, <5>1 DEF TableRow
        <5>4. QED BY <5>2, <5>3, Constants
      <4>2. R = IF row[j].owner = NoWorker \/ row[j].until <= row[j].wait
                THEN row[j].wait ELSE row[j].until
        BY <1>1, ReadyInIs
      <4>3. S = IF row'[j].owner = NoWorker \/ row'[j].until <= row'[j].wait
                THEN row'[j].wait ELSE row'[j].until
        BY <1>1, ReadyInIs
      <4>4. R \in 0..Longest /\ S \in Int /\ 0 <= S
        BY <1>1, ReadyInIs
      <4>5. R - 1 <= S
        <5> HIDE DEF R, S
        <5>1. QED BY <4>1, <4>2, <4>3, <4>4, Constants DEF Down
      <4>6. QED BY <4>4, <4>5, Constants
    <3>2. /\ timer \in 0..Off /\ backoff \in 0..BackoffTicks
          /\ timer' = IF timer = Off THEN Off ELSE Down(timer)
          /\ backoff' = Down(backoff)
      BY <1>17 DEF Tick, Fits, TimesFit
    <3> HIDE DEF R, S
    <3>3. timer <= Max({R, backoff}) => timer' <= Max({S, backoff'})
      <4> SUFFICES ASSUME timer <= Max({R, backoff}) PROVE timer' <= Max({S, backoff'})
        OBVIOUS
      <4>1. timer <= R \/ timer <= backoff
        BY <3>1, <3>2, MaxOfTwo
      <4>2. timer # Off /\ timer \in Nat /\ backoff \in Nat
        BY <3>1, <3>2, <4>1, Constants
      <4>3. timer' = Down(timer) /\ Down(timer) \in Int /\ Down(backoff) \in Int
        BY <3>2, <4>2 DEF Down
      <4>4. Down(timer) <= S \/ Down(timer) <= Down(backoff)
        BY <3>1, <4>1, <4>2 DEF Down
      <4>5. QED BY <3>1, <3>2, <4>3, <4>4, MaxOfTwo
    <3>4. R = ReadyIn(row[j]) /\ S = ReadyIn(row'[j])
      BY DEF R, S
    <3>5. QED BY <2>1, <2>2, <3>3, <3>4 DEF InTime
  <2>3. \A j \in Jobs : row'[j].state = row[j].state
    BY <1>1, <1>17 DEF Tick, TableRow
  <2>4. Left' \subseteq Left
    BY <2>1, <2>2, <2>3 DEF Left, Busy
  <2>5. \A m \in Lanes : (Looks(m) => Looks(m)') /\ (Resting(m)' => Resting(m))
    BY <2>1 DEF Looks, Resting
  <2>6. Told => Told'
    BY <2>1 DEF Told, Coming, writer
  <2>7. QED BY <2>4, <2>5, <2>6, StillLooked
<1>18. CASE Process \/ HourlyPass
  BY <1>18, PassLooked DEF Process, HourlyPass
<1>19. CASE Stop
  BY <1>19, ComingLooked DEF Stop, Coming
<1>20. CASE UNCHANGED vars
  BY <1>2, <1>20 DEF vars, writer
<1>21. QED
  BY <1>5, <1>6, <1>7, <1>8, <1>10, <1>11, <1>12, <1>13, <1>14, <1>15, <1>16, <1>17,
     <1>18, <1>19, <1>20 DEF Next, TimerStep, WriterStep, OtherStep

-----------------------------------------------------------------------------
(* No lost wake-up *)

WakeInv == Fits /\ OwnRun /\ MissedAll /\ Looked /\ (Few \/ Held)

LEMMA InitWakes == Init => WakeInv
<1> SUFFICES ASSUME Init PROVE WakeInv
  OBVIOUS
<1>1. \A n \in Lanes : lane[n] = OffLane /\ lane[n].pc = "off"
  BY DEF Init, OffLane
<1>2. \A j \in Jobs : row[j].owner # me
  BY Constants DEF Init, Absent
<1>3. phase = "new"
  BY DEF Init
<1>4. QED BY <1>1, <1>2, <1>3, InitFits
          DEF WakeInv, OwnRun, MissedAll, Looked, Told, Coming, Held, Busy

LEMMA WakeStep ==
    ASSUME WakeInv, Few \/ LeasesKept, [Next]_vars, "settle" \notin Faults
    PROVE  WakeInv'
<1>1. Fits /\ Fits' /\ OwnRun /\ MissedAll /\ Looked /\ (Few \/ (Held /\ LeasesKept))
  BY TypedStep DEF WakeInv
<1>2. OwnRun' /\ MissedAll' /\ Looked'
  BY <1>1, OwnRunKept, MissedKept, LookedKept
<1>3. Few \/ Held'
  BY <1>1, HeldKept
<1>4. QED BY <1>1, <1>2, <1>3 DEF WakeInv, Few

LEMMA NotOverslept == WakeInv => NothingOverslept
<1> SUFFICES ASSUME WakeInv, Settled, NEW o \in Lanes, lane[o].pc = "off",
                    NEW j \in Jobs, row[j].state = "ready", j \notin missed,
                    \A n \in Lanes : lane[n].job # j
             PROVE  timer <= Max({ReadyIn(row[j]), backoff})
  BY DEF NothingOverslept
<1>1. ~Told
  BY Constants DEF Settled, Told, Coming
<1>2. \A n \in Lanes : ~Looks(n) /\ ~Busy(n, j)
  BY DEF Settled, Looks, Busy
<1>3. Left = {}
  BY <1>1, <1>2 DEF WakeInv, Looked, Resting
<1>4. InTime(j)
  BY <1>2, <1>3 DEF Left
<1>5. QED BY <1>4 DEF InTime, Settled

\* requestPass, lane's second look, armForNextDue, arm, the coalesced signal: while a
\* loop is idle the timer is set for every row that no signal was lost for and no loop
\* runs. A settling that throws is left out, and so, with three loops or more, are
\* leases of this process that lapse while their handlers hang: both oversleep.
THEOREM NoLostWakeUp ==
    ASSUME "settle" \notin Faults
    PROVE  Spec /\ [](Few \/ LeasesKept) => []NothingOverslept
<1>1. Init => WakeInv
  BY InitWakes
<1>2. WakeInv /\ (Few \/ LeasesKept) /\ [Next]_vars => WakeInv'
  BY WakeStep
<1>3. WakeInv => NothingOverslept
  BY NotOverslept
<1>4. QED BY <1>1, <1>2, <1>3, PTL DEF Spec

=============================================================================
