-------------------------- MODULE JobPromiseProofs --------------------------
(***************************************************************************)
(* The queue keeps its promise (JobPromise) whatever its processes, loops, *)
(* callers and admins do, and however many there are of them.              *)
(***************************************************************************)
EXTENDS JobStoreProofs

-----------------------------------------------------------------------------
(* The row that stands for a request *)

RowOf(r) == job[req[r].job]

\* A row nobody has taken since it was written or started over.
Fresh(row) == row.state = "ready" /\ row.attempts = 0 /\ row.lockedBy = NoWorker

\* Before its INSERT a caller has no row.
NoRowYet(r) == req[r].phase \in {"idle", "inserting"} => req[r].job = NoJob

\* The row of an open transaction: its own, which nobody else can see, or one it
\* found waiting, which nobody can take while the transaction has it locked.
OpenOK(r) ==
    LET row == RowOf(r) ask == req[r].ask IN
    req[r].phase = "open" =>
        /\ row.kind = ask.kind
        /\ ~ask.delayed => row.due
        /\ \/ Fresh(row)
           \/ /\ row.state = "pending"
              /\ row.priority <= ask.priority
              /\ \A s \in Requests :
                    req[s].phase = "open" /\ req[s].job = req[r].job => s = r

\* The row of a request that was committed, while it stands.
AskedOK(r) ==
    LET row == RowOf(r) ask == req[r].ask IN
    req[r].phase = "asked" =>
        /\ row.state \in {"ready", "dead", "gone"}
        /\ row.state # "gone" =>
              /\ row.kind = ask.kind
              /\ row.priority <= ask.priority
              /\ row.state = "ready" /\ row.attempts = 0 /\ ~ask.delayed => row.due

ReqInv == \A r \in Requests : NoRowYet(r) /\ OpenOK(r) /\ AskedOK(r)

\* enqueue's half of the promise is a conjunct of this.
LEMMA ReqInvGives == RowInv /\ ReqInv => StandInAsWanted
BY DEF RowInv, TypeOK, ReqInv, AskedOK, RowOf, StandInAsWanted, Asked

-----------------------------------------------------------------------------
(* What workers, admins and time do to a row *)

\* Left alone, removed when dead or leased, or kept for whom it stands: with a
\* row out of a lock's reach only if nobody is about to commit against it.
Worked(j) ==
    LET old == job[j] new == job'[j] IN
    \/ new = old
    \/ new.state = "gone" /\ (old.state = "dead" \/ old.lockedBy # NoWorker)
    \/ /\ new.kind = old.kind /\ new.priority = old.priority
       /\ old.state \in {"ready", "dead"} /\ new.state \in {"ready", "dead"}
       /\ \/ new.due \/ new.attempts # 0 \/ new.state = "dead"
          \/ old.state = "ready" /\ old.attempts = 0 /\ new.due = old.due
       /\ Fresh(old) => Fresh(new) \/ ~LockedRow(j)

\* Nothing else becomes of the rows, and nothing of the requests.
OthersWork == UNCHANGED req /\ \A j \in Jobs : Worked(j)

\* What stands for a request goes on standing for it.
LEMMA WorkKeepsRequests ==
    ASSUME RowInv, ReqInv, OthersWork PROVE ReqInv'
<1> SUFFICES ASSUME NEW r \in Requests PROVE (NoRowYet(r) /\ OpenOK(r) /\ AskedOK(r))'
  BY DEF ReqInv
<1> USE DEF OthersWork, RowOf
<1>0. NoRowYet(r) /\ OpenOK(r) /\ AskedOK(r)
  BY DEF ReqInv
<1>1. NoRowYet(r)'
  BY <1>0 DEF NoRowYet
<1>2. OpenOK(r)'
  <2> SUFFICES ASSUME req[r].phase = "open" PROVE OpenOK(r)'
    BY DEF OpenOK
  <2> DEFINE j == req[r].job
  <2>1. j \in Jobs /\ RowOK(job[j]) /\ LockedRow(j)
    BY DEF RowInv, TypeOK, TableOK, LockedRow
  <2>2. CASE job'[j] = job[j]
    BY <1>0, <2>2 DEF OpenOK, Fresh
  <2>3. CASE job'[j] # job[j]
    <3>1. Fresh(job[j]) /\ MaxAttempts # 0
      BY <1>0, <2>1, <2>3, RowAssumption DEF OpenOK, Fresh, Worked, RowOK
    <3>2. Fresh(job'[j]) /\ job'[j].kind = job[j].kind /\ (job'[j].due \/ job'[j].due = job[j].due)
      BY <2>1, <2>3, <3>1 DEF Worked, Fresh
    <3>3. QED BY <1>0, <3>2 DEF OpenOK, Fresh
  <2>4. QED BY <2>2, <2>3
<1>3. AskedOK(r)'
  <2> SUFFICES ASSUME req[r].phase = "asked" PROVE AskedOK(r)'
    BY DEF AskedOK
  <2> DEFINE j == req[r].job
  <2>1. j \in Jobs /\ RowOK(job[j]) /\ Worked(j)
    BY DEF RowInv, TypeOK, TableOK
  <2>2. CASE job'[j] = job[j]
    BY <1>0, <2>2 DEF AskedOK
  <2>3. CASE job'[j].state = "gone"
    BY <1>0, <2>3 DEF AskedOK
  <2>4. CASE job'[j] # job[j] /\ job'[j].state # "gone"
    BY <1>0, <2>1, <2>4 DEF AskedOK, Worked
  <2>5. QED BY <2>2, <2>3, <2>4
<1>4. QED BY <1>1, <1>2, <1>3

\* One row changed, as one of these statements would; the others left alone.
LEMMA OneWorked ==
    ASSUME RowInv, UNCHANGED req, NEW i \in Jobs, NEW row,
           job' = [job EXCEPT ![i] = row], Worked(i)
    PROVE  OthersWork
BY DEF RowInv, TypeOK, OthersWork, Worked

\* claim() takes rows that are ready and not locked.
LEMMA ClaimWorks ==
    ASSUME RowInv, NEW l \in Lane, NEW j \in Jobs, Claim(l, j) \/ ClaimUnanswered(l, j)
    PROVE  OthersWork
<1> DEFINE row == Taken(job[j], l[1])
<1>1. job' = [job EXCEPT ![j] = row] /\ UNCHANGED req
  BY DEF Claim, ClaimUnanswered
<1>2. job[j] \in Row /\ job[j].state = "ready" /\ ~LockedRow(j)
  BY DEF Claim, ClaimUnanswered, FirstToTake, Claimable, RowInv, TypeOK
<1>3. /\ row.state = "ready" /\ row.kind = job[j].kind /\ row.priority = job[j].priority
      /\ row.attempts # 0
  BY <1>2 DEF Taken, Row
<1>4. job'[j] = row
  BY <1>1 DEF RowInv, TypeOK
<1>5. Worked(j)
  BY <1>2, <1>3, <1>4 DEF Worked
<1>6. QED BY <1>1, <1>5, OneWorked

\* What a lane does to a row that is `mine': that row is ready and was counted.
LEMMA MineWorks ==
    ASSUME RowInv, UNCHANGED req, NEW l \in Lane, NEW row,
           LET j == run[l].job IN
           /\ j \in Jobs /\ Mine(job[j], l[1]) =>
                 row \in {Deleted, FailedRow(job[j]), ReleasedRow(job[j]),
                          [job[j] EXCEPT !.lease = "live"]}
           /\ job' = [job EXCEPT ![j] = IF Mine(job[j], l[1]) THEN row ELSE job[j]]
    PROVE  OthersWork
<1> DEFINE j == run[l].job
<1>1. CASE j \notin Jobs \/ ~Mine(job[j], l[1])
  BY <1>1 DEF RowInv, TypeOK, OthersWork, Worked
<1>2. CASE j \in Jobs /\ Mine(job[j], l[1])
  <2>1. job' = [job EXCEPT ![j] = row]
    BY <1>2
  <2>2. /\ job[j] \in Row /\ job[j].lockedBy # NoWorker
        /\ job[j].state = "ready" /\ job[j].attempts > 0
    BY <1>2, RowAssumption DEF Mine, Lane, RowInv, TypeOK, TableOK, RowOK
  <2>3. job'[j] = row
    BY <2>1, <1>2 DEF RowInv, TypeOK
  <2>4. Worked(j)
    <3>1. CASE row = Deleted
      <4>1. row.state = "gone"
        BY <3>1 DEF Deleted, NoRow
      <4>2. QED BY <2>2, <2>3, <4>1 DEF Worked
    <3>2. CASE row = FailedRow(job[j])
      <4>1. /\ row.kind = job[j].kind /\ row.priority = job[j].priority
            /\ row.state \in {"ready", "dead"} /\ row.attempts = job[j].attempts
        BY <2>2, <3>2 DEF Row, FailedRow, Unlocked
      <4>2. QED BY <2>2, <2>3, <4>1 DEF Worked, Fresh
    <3>3. CASE row = ReleasedRow(job[j])
      <4>1. /\ row.kind = job[j].kind /\ row.priority = job[j].priority
            /\ row.state = "ready" /\ row.due
        BY <2>2, <3>3 DEF Row, ReleasedRow, Unlocked
      <4>2. QED BY <2>2, <2>3, <4>1 DEF Worked, Fresh
    <3>4. CASE row = [job[j] EXCEPT !.lease = "live"]
      BY <2>2, <2>3, <3>4 DEF Worked, Fresh, Row
    <3>5. QED BY <1>2, <3>1, <3>2, <3>3, <3>4
  <2>5. QED BY <1>2, <2>1, <2>4, OneWorked
<1>3. QED BY <1>1, <1>2

\* A lane's statements (claim, hold, complete, fail, release).
LEMMA LaneWorks ==
    ASSUME RowInv, NEW l \in Lane, LaneStep(l) PROVE OthersWork
<1>1. CASE \E j \in Jobs : Claim(l, j) \/ ClaimUnanswered(l, j)
  BY <1>1, ClaimWorks
<1>2. CASE UNCHANGED <<job, req>>
  BY <1>2 DEF OthersWork, Worked
<1>3. CASE Extend(l)
  <2>1. job' = [job EXCEPT ![run[l].job] =
           IF Mine(job[run[l].job], l[1]) THEN [job[run[l].job] EXCEPT !.lease = "live"]
                                          ELSE job[run[l].job]]
    BY <1>3 DEF Extend
  <2>2. UNCHANGED req
    BY <1>3 DEF Extend
  <2>3. QED BY <2>1, <2>2, MineWorks
<1>4. ASSUME NEW to \in {Deleted, FailedRow(job[run[l].job]), ReleasedRow(job[run[l].job])},
             Settle(l, to), UNCHANGED req
      PROVE  OthersWork
  <2>1. job' = [job EXCEPT ![run[l].job] =
           IF Mine(job[run[l].job], l[1]) THEN to ELSE job[run[l].job]]
    BY <1>4 DEF Settle
  <2>2. QED BY <1>4, <2>1, MineWorks
<1>5. CASE LetGo(l) \/ HandlerEnds(l)
  BY <1>2, <1>5 DEF LetGo, HandlerEnds, HandlerReturns, HandlerThrows, HandlerInterrupted
<1>6. CASE SettleStep(l)
  BY <1>2, <1>4, <1>6 DEF SettleStep, Complete, DeleteUnknown, CompleteErrs, Fail, Release,
                          SettleErrs
<1>7. QED BY <1>1, <1>3, <1>5, <1>6 DEF LaneStep

\* buryExhausted, the processes, the admin screen, the prune, and time.
LEMMA RestWorks ==
    ASSUME RowInv, (\E w \in Workers : ProcessStep(w)) \/ AdminStep \/ TimeStep
    PROVE  OthersWork
<1> USE DEF RowInv, TypeOK
<1>0. \A j \in Jobs : RowOK(job[j])
  BY DEF TableOK
<1>1. ASSUME NEW w \in Workers, ProcessStep(w) PROVE OthersWork
  <2>1. \A j \in Jobs : Exhausted(job[j]) =>
           /\ job[j].state = "ready" /\ job[j].attempts # 0
           /\ BuriedRow(job[j]).kind = job[j].kind
           /\ BuriedRow(job[j]).priority = job[j].priority
           /\ BuriedRow(job[j]).state = "dead"
    BY RowAssumption DEF Exhausted, BuriedRow, Unlocked, Row
  <2>2. CASE Bury(w)
    <3>1. \A j \in Jobs : job'[j] = IF Exhausted(job[j]) THEN BuriedRow(job[j]) ELSE job[j]
      BY <2>2 DEF Bury
    <3>2. QED BY <2>1, <2>2, <3>1 DEF Bury, OthersWork, Worked, Fresh
  <2>3. CASE ~Bury(w)
    BY <1>1, <2>3 DEF ProcessStep, Start, Stop, Exit, Crash, OthersWork, Worked
  <2>4. QED BY <2>2, <2>3
<1>2. CASE AdminStep
  <2>1. \A j \in Jobs : /\ RevivedRow(job[j]).kind = job[j].kind
                        /\ RevivedRow(job[j]).priority = job[j].priority
                        /\ RevivedRow(job[j]).state = "ready" /\ RevivedRow(job[j]).due
    BY DEF RevivedRow, Row
  <2>2. ASSUME UNCHANGED req,
               \A j \in Jobs : \/ job'[j] = job[j]
                               \/ job[j].state = "dead" /\ job'[j] = RevivedRow(job[j])
                               \/ job[j].state = "dead" /\ job'[j] = Deleted
        PROVE  OthersWork
    <3>1. Deleted.state = "gone"
      BY DEF Deleted, NoRow
    <3>2. QED BY <2>1, <2>2, <3>1 DEF OthersWork, Worked, Fresh
  <2>3. ASSUME NEW j \in Jobs, RetryDead(j) PROVE OthersWork
    BY <2>2, <2>3 DEF RetryDead
  <2>4. ASSUME NEW k \in Kinds, ReviveDead(k) PROVE OthersWork
    BY <2>2, <2>4 DEF ReviveDead
  <2>5. ASSUME NEW gone, RemoveDead(gone) PROVE OthersWork
    BY <2>2, <2>5 DEF RemoveDead
  <2>6. QED BY <1>2, <2>3, <2>4, <2>5 DEF AdminStep, DeleteDead, PruneDead
<1>3. CASE TimeStep
  <2>1. PICK j \in Jobs : ComesDue(j) \/ Lapse(j)
    BY <1>3 DEF TimeStep
  <2>2. CASE ComesDue(j)
    <3>1. job' = [job EXCEPT ![j] = [job[j] EXCEPT !.due = TRUE]] /\ UNCHANGED req
      BY <2>2 DEF ComesDue
    <3>2. Worked(j)
      BY <2>2, <3>1 DEF ComesDue, Worked, Fresh, Row
    <3>3. QED BY <3>1, <3>2, OneWorked
  <2>3. CASE Lapse(j)
    <3>1. job' = [job EXCEPT ![j] = [job[j] EXCEPT !.lease = "lapsed"]] /\ UNCHANGED req
      BY <2>3 DEF Lapse
    <3>2. job[j].state = "ready" /\ job[j].attempts # 0
      BY <1>0, <2>3 DEF Lapse, RowOK
    <3>3. Worked(j)
      BY <3>1, <3>2 DEF Worked, Fresh, Row
    <3>4. QED BY <3>1, <3>3, OneWorked
  <2>4. QED BY <2>1, <2>2, <2>3
<1>4. QED BY <1>1, <1>2, <1>3

\* enqueue: a caller's own row, or one it may wait with.
LEMMA EnqueueKeepsRequests ==
    ASSUME RowInv, ReqInv, EnqueueStep PROVE ReqInv'
<1> DEFINE Kept(s) == (NoRowYet(s) /\ OpenOK(s) /\ AskedOK(s))'
<1> USE DEF RowInv, TypeOK
<1>0. /\ \A j \in Jobs : RowOK(job[j])
      /\ \A s \in Requests : NoRowYet(s) /\ OpenOK(s) /\ AskedOK(s)
      /\ NoJob \notin Jobs
  BY StoreAssumption DEF TableOK, ReqInv
<1>nat. /\ \A j \in Jobs : job[j] \in Row /\ job[j].priority \in Nat
      /\ \A ask \in Asks : ask.priority \in Nat /\ ask.delayed \in BOOLEAN
  BY StoreAssumption DEF Row, Priorities
<1>1. ASSUME NEW r \in Requests, NEW ask \in Asks, NoStandIn(r, ask) PROVE ReqInv'
  <2>1. /\ job' = job /\ req'[r].phase = "inserting" /\ req'[r].job = NoJob
        /\ \A s \in Requests \ {r} : req'[s] = req[s]
    BY <1>1 DEF NoStandIn, SetReq
  <2>2. QED
    BY <1>0, <2>1 DEF ReqInv, NoRowYet, OpenOK, AskedOK, RowOf
<1>2. ASSUME NEW r \in Requests, NEW ask \in Asks, NEW tx \in BOOLEAN, NEW j \in Jobs,
             StandIn(r, ask, tx, j)
      PROVE  ReqInv'
  <2>1. /\ req'[r] = [phase |-> IF tx THEN "open" ELSE "asked", ask |-> ask, job |-> j]
        /\ \A s \in Requests \ {r} : req'[s] = req[s]
    BY <1>2 DEF StandIn, SetReq
  <2>2. /\ Fresh(job[j]) /\ job[j].kind = ask.kind /\ (job[j].due \/ ask.delayed)
        /\ job[j].priority \in Nat /\ ask.priority \in Nat
    BY <1>0, <1>2, StoreAssumption
    DEF StandIn, StandsIn, Unleased, Fresh, RowOK, Row, Leases, Priorities
  <2>3. /\ \A i \in Jobs \ {j} : job'[i] = job[i]
        /\ Fresh(job'[j]) /\ job'[j].kind = job[j].kind /\ job'[j].due = job[j].due
        /\ job'[j].priority <= job[j].priority /\ job'[j].priority \in Nat
        /\ ~tx => job'[j].priority <= ask.priority
    BY <1>2, <2>2 DEF StandIn, Raised, Fresh, Row
  <2>4. Kept(r)
    BY <2>1, <2>2, <2>3 DEF NoRowYet, OpenOK, AskedOK, RowOf, Fresh
  <2>5. ASSUME NEW s \in Requests, s # r PROVE Kept(s)
    <3>1. req'[s] = req[s]
      BY <2>1, <2>5
    <3>2. CASE req[s].job = j
      <4>1. req[s].phase = "asked" => job'[j].priority <= req[s].ask.priority
        BY <1>0, <1>nat, <2>2, <2>3, <2>5, <3>2 DEF AskedOK, RowOf, Fresh
      <4>2. QED
        BY <1>0, <2>2, <2>3, <2>5, <3>1, <3>2, <4>1 DEF NoRowYet, OpenOK, AskedOK, RowOf, Fresh
    <3>3. CASE req[s].job # j
      <4>1. req[s].phase \in {"open", "asked"} => job'[req[s].job] = job[req[s].job]
        BY <2>3, <2>5, <3>3
      <4>2. OpenOK(s)'
        <5>1. CASE job[req[s].job].state = "pending"
          BY <1>0, <2>1, <2>5, <3>1, <3>3, <4>1, <5>1 DEF OpenOK, RowOf, Fresh
        <5>2. CASE job[req[s].job].state # "pending"
          BY <1>0, <2>1, <2>5, <3>1, <3>3, <4>1, <5>2 DEF OpenOK, RowOf, Fresh
        <5>3. QED BY <5>1, <5>2
      <4>3. QED
        BY <1>0, <2>5, <3>1, <4>1, <4>2 DEF NoRowYet, AskedOK, RowOf
    <3>4. QED BY <3>2, <3>3
  <2>6. QED BY <2>4, <2>5 DEF ReqInv
<1>3. ASSUME NEW r \in Requests, NEW ask \in Asks, NEW tx \in BOOLEAN, NEW j \in Jobs,
             Insert(r, ask, tx, j)
      PROVE  ReqInv'
  <2> DEFINE row == NewRow(ask.kind, ask.priority, ask.delayed, IF tx THEN "pending" ELSE "ready")
  <2>1. /\ req'[r] = [phase |-> IF tx THEN "open" ELSE "asked", ask |-> ask, job |-> j]
        /\ \A s \in Requests \ {r} : req'[s] = req[s]
        /\ job'[j] = row /\ \A i \in Jobs \ {j} : job'[i] = job[i]
    BY <1>3 DEF Insert, SetReq
  <2>2. /\ row.kind = ask.kind /\ row.priority = ask.priority /\ row.due = ~ask.delayed
        /\ row.state = IF tx THEN "pending" ELSE "ready"
        /\ row.attempts = 0 /\ row.lockedBy = NoWorker /\ ask.priority \in Nat
        /\ ask.delayed \in BOOLEAN
    BY StoreAssumption DEF NewRow, NoRow, Priorities
  <2>3. ~ask.delayed => row.due
    BY <2>2, Zenon
  <2>4. \A s \in Requests : req[s].phase \in {"open", "asked"} => req[s].job # j
    BY <1>0, <1>3 DEF Insert, OpenOK, AskedOK, RowOf, Fresh
  <2> HIDE DEF row
  <2>5. Kept(r)
    <3>1. OpenOK(r)'
      <4>1. \A s \in Requests : req'[s].phase = "open" /\ req'[s].job = j => s = r
        BY <2>1, <2>4
      <4>2. QED BY <2>1, <2>2, <2>3, <4>1 DEF OpenOK, RowOf, Fresh
    <3>2. AskedOK(r)'
      <4>1. CASE tx
        BY <2>1, <4>1 DEF AskedOK
      <4>2. CASE ~tx
        <5>1. /\ req'[r].job = j /\ req'[r].ask = ask /\ job'[j] = row
              /\ row.state = "ready" /\ row.priority <= ask.priority
              /\ ~ask.delayed => row.due
          BY <2>1, <2>2, <2>3, <4>2
        <5>2. QED BY <2>2, <5>1 DEF AskedOK, RowOf
      <4>3. QED BY <4>1, <4>2
    <3>3. QED BY <2>1, <3>1, <3>2 DEF NoRowYet
  <2>6. ASSUME NEW s \in Requests, s # r PROVE Kept(s)
    <3>1. req'[s] = req[s]
      BY <2>1, <2>6
    <3>2. req[s].phase \in {"open", "asked"} => job'[req[s].job] = job[req[s].job]
      BY <2>1, <2>4, <2>6
    <3>3. \A u \in Requests : req[s].phase = "open" /\ req[s].job = req'[u].job => u # r
      BY <2>1, <2>4, <2>6
    <3>4. OpenOK(s)'
      BY <1>0, <2>1, <2>6, <3>1, <3>2, <3>3 DEF OpenOK, RowOf
    <3>5. QED
      BY <1>0, <2>6, <3>1, <3>2, <3>4 DEF NoRowYet, AskedOK, RowOf
  <2>7. QED BY <2>5, <2>6 DEF ReqInv
<1>4. ASSUME NEW r \in Requests, Commit(r) PROVE ReqInv'
  <2> DEFINE j == req[r].job
  <2>1. /\ req'[r] = [req[r] EXCEPT !.phase = "asked"]
        /\ \A s \in Requests \ {r} : req'[s] = req[s]
        /\ \A i \in Jobs \ {j} : job'[i] = job[i]
        /\ j \in Jobs /\ req[r].phase = "open" /\ req[r].ask \in Asks
        /\ req'[r].phase = "asked" /\ req'[r].ask = req[r].ask /\ req'[r].job = j
    BY <1>4 DEF Commit
  <2>2. /\ job[j].priority \in Nat /\ req[r].ask.priority \in Nat
        /\ job[j] \in Row
    BY <1>nat, <2>1
  <2>3. /\ job'[j].kind = job[j].kind /\ job'[j].due = job[j].due
        /\ job'[j].attempts = job[j].attempts /\ job'[j].lockedBy = job[j].lockedBy
        /\ job'[j].state = "ready" /\ job'[j].priority <= req[r].ask.priority
        /\ job'[j].priority <= job[j].priority /\ job'[j].priority \in Nat
    <3>1. job'[j] = IF job[j].state = "pending" THEN [job[j] EXCEPT !.state = "ready"]
                                                ELSE Raised(job[j], req[r].ask.priority)
      BY <1>4, <2>1 DEF Commit
    <3>2. CASE job[j].state = "pending"
      BY <1>0, <2>1, <2>2, <3>1, <3>2 DEF OpenOK, RowOf, Row, Fresh
    <3>3. CASE job[j].state # "pending"
      <4>1. job[j].state = "ready"
        BY <1>0, <2>1, <3>3 DEF OpenOK, RowOf, Fresh
      <4>2. QED BY <2>1, <2>2, <3>1, <3>3, <4>1 DEF Raised, Row
    <3>4. QED BY <3>2, <3>3
  <2>4. Kept(r)
    BY <1>0, <2>1, <2>3 DEF NoRowYet, OpenOK, AskedOK, RowOf
  <2>5. ASSUME NEW s \in Requests, s # r PROVE Kept(s)
    <3>1. req'[s] = req[s]
      BY <2>1, <2>5
    <3>2. OpenOK(s)'
      <4> SUFFICES ASSUME req[s].phase = "open" PROVE OpenOK(s)'
        BY <3>1 DEF OpenOK
      <4>1. CASE req[s].job = j
        <5>1. Fresh(job[j])
          BY <1>0, <2>1, <2>5, <4>1 DEF OpenOK, RowOf
        <5>2. QED BY <1>0, <2>3, <3>1, <4>1, <5>1 DEF OpenOK, RowOf, Fresh
      <4>2. CASE req[s].job # j
        <5>1. job'[req[s].job] = job[req[s].job]
          BY <2>1, <4>2
        <5>2. \A u \in Requests : req'[u].phase = "open" => req[u] = req'[u]
          BY <2>1
        <5>3. QED BY <1>0, <3>1, <5>1, <5>2 DEF OpenOK, RowOf
      <4>3. QED BY <4>1, <4>2
    <3>3. AskedOK(s)'
      <4> SUFFICES ASSUME req[s].phase = "asked" PROVE AskedOK(s)'
        BY <3>1 DEF AskedOK
      <4>0. req[s].job \in Jobs /\ req[s].ask.priority \in Nat
        BY <1>nat, <2>5
      <4>1. CASE req[s].job = j
        <5>1. Fresh(job[j])
          BY <1>0, <2>1, <2>5, <4>1 DEF OpenOK, AskedOK, RowOf
        <5>2. job'[j].priority <= req[s].ask.priority
          BY <1>0, <2>2, <2>3, <4>0, <4>1, <5>1 DEF AskedOK, RowOf, Fresh
        <5>3. QED BY <1>0, <2>3, <3>1, <4>1, <5>1, <5>2 DEF AskedOK, RowOf, Fresh
      <4>2. CASE req[s].job # j
        BY <1>0, <2>1, <3>1, <4>0, <4>2 DEF AskedOK, RowOf
      <4>3. QED BY <4>1, <4>2
    <3>4. QED BY <1>0, <3>1, <3>2, <3>3 DEF NoRowYet
  <2>6. QED BY <2>4, <2>5 DEF ReqInv
<1>5. ASSUME NEW r \in Requests, Rollback(r) PROVE ReqInv'
  <2>1. /\ req'[r].phase = "void"
        /\ \A s \in Requests \ {r} : req'[s] = req[s]
        /\ req[r].phase \in {"inserting", "open"}
        /\ \A i \in Jobs : job'[i] # job[i] => req[r].job = i /\ job[i].state = "pending"
    BY <1>5 DEF Rollback
  <2>2. \A s \in Requests : s # r /\ req[s].phase \in {"open", "asked"} =>
           job'[req[s].job] = job[req[s].job]
    <3> SUFFICES ASSUME NEW s \in Requests, s # r, req[s].phase \in {"open", "asked"},
                        job'[req[s].job] # job[req[s].job]
                 PROVE  FALSE
      OBVIOUS
    <3>1. /\ req[s].job \in Jobs /\ req[r].job = req[s].job
          /\ job[req[s].job].state = "pending"
      BY <2>1
    <3>2. req[r].phase = "open"
      BY <1>0, <2>1, <3>1 DEF NoRowYet
    <3>3. QED BY <1>0, <3>1, <3>2 DEF OpenOK, AskedOK, RowOf, Fresh
  <2>3. ASSUME NEW s \in Requests PROVE Kept(s)
    <3>1. CASE s = r
      BY <2>1, <3>1 DEF NoRowYet, OpenOK, AskedOK
    <3>2. CASE s # r
      <4>1. req'[s] = req[s]
        BY <2>1, <3>2
      <4>2. \A u \in Requests : req'[u].phase = "open" => req[u] = req'[u]
        BY <2>1
      <4>3. OpenOK(s)'
        BY <1>0, <2>2, <3>2, <4>1, <4>2 DEF OpenOK, RowOf
      <4>4. QED BY <1>0, <2>2, <3>2, <4>1, <4>3 DEF NoRowYet, AskedOK, RowOf
    <3>3. QED BY <3>1, <3>2
  <2>4. QED BY <2>3 DEF ReqInv
<1>6. QED BY <1>1, <1>2, <1>3, <1>4, <1>5 DEF EnqueueStep

\* The requests and their rows are in order throughout.
LEMMA ReqInvInit == Init => ReqInv
BY DEF Init, ReqInv, NoRowYet, OpenOK, AskedOK

LEMMA ReqInvNext == RowInv /\ ReqInv /\ [Next]_vars => ReqInv'
<1> SUFFICES ASSUME RowInv, ReqInv, [Next]_vars PROVE ReqInv'
  OBVIOUS
<1>1. CASE UNCHANGED vars
  BY <1>1 DEF vars, ReqInv, NoRowYet, OpenOK, AskedOK, RowOf
<1>2. CASE EnqueueStep
  BY <1>2, EnqueueKeepsRequests
<1>3. CASE ~EnqueueStep /\ Next
  BY <1>3, LaneWorks, RestWorks, WorkKeepsRequests DEF Next
<1>4. QED BY <1>1, <1>2, <1>3

\* Whoever waits is not left behind: its row is as urgent as it asked, and not
\* held back to a later time unless it failed.
THEOREM WaitersNotLeftBehind == Spec => []StandInAsWanted
<1>1. QED BY RowInvInit, RowInvNext, ReqInvInit, ReqInvNext, ReqInvGives, PTL DEF Spec

-----------------------------------------------------------------------------
(* What a handler has seen *)

\* A handler that returned has served what it saw.  The last taking of a row that
\* is still leased has seen every request the row stands for: nobody joins a row
\* that was taken, and its claim saw those committed before.
RunOK(l) ==
    LET j == run[l].job IN
    /\ run[l].seen \subseteq Asked
    /\ run[l].phase = "returned" => run[l].seen \subseteq served
    /\ run[l].phase \notin {"idle", "unknown"} /\ taker[j] = l /\ Mine(job[j], l[1]) =>
          \A r \in Asked : req[r].job = j => r \in run[l].seen \cup served

\* Only committed requests are served, and none is given up on before.
HistoryOK ==
    /\ served \subseteq Asked
    /\ \A r \in given : req[r].phase \in {"asked", "void"}

SeenInv == HistoryOK /\ \A l \in Lane : RunOK(l)

\* Everything that the promise rests on.
PromiseInv == RowInv /\ ReqInv /\ SeenInv /\ NoLostWork

\* A step of a caller changes no row that is leased, and takes back no request.
LEMMA EnqueueKeepsSeen ==
    ASSUME RowInv, ReqInv, SeenInv, EnqueueStep PROVE SeenInv'
<1> USE DEF RowInv, TypeOK
<1>1. /\ UNCHANGED <<run, taker, served, given>>
      /\ \A s \in Requests : req[s].phase \in {"asked", "void"} => req'[s] = req[s]
      /\ \A j \in Jobs : job'[j].lockedBy # NoWorker =>
            /\ job'[j].lockedBy = job[j].lockedBy
            /\ \A s \in Requests : req'[s].phase = "asked" /\ req'[s].job = j => req'[s] = req[s]
  <2>0. /\ \A j \in Jobs : RowOK(job[j])
        /\ NoRow.lockedBy = NoWorker /\ Deleted.lockedBy = NoWorker
    BY DEF TableOK, NoRow, Deleted
  <2>1. ASSUME NEW r \in Requests, NEW ask \in Asks, NoStandIn(r, ask) PROVE <1>1!:
    BY <2>1 DEF NoStandIn, SetReq
  <2>2. ASSUME NEW r \in Requests, NEW ask \in Asks, NEW tx \in BOOLEAN, NEW j \in Jobs,
               StandIn(r, ask, tx, j)
        PROVE  <1>1!:
    <3>1. job[j].lockedBy = NoWorker
      BY <2>0, <2>2 DEF StandIn, StandsIn, RowOK
    <3>2. /\ \A i \in Jobs \ {j} : job'[i] = job[i]
          /\ job'[j].lockedBy = NoWorker
      BY <2>2, <3>1 DEF StandIn, Raised, Row
    <3>3. /\ UNCHANGED <<run, taker, served, given>>
          /\ \A s \in Requests \ {r} : req'[s] = req[s]
          /\ req[r].phase = "idle" /\ req'[r].job = j
      BY <2>2 DEF StandIn, SetReq
    <3>4. QED BY <3>2, <3>3
  <2>3. ASSUME NEW r \in Requests, NEW ask \in Asks, NEW tx \in BOOLEAN, NEW j \in Jobs,
               Insert(r, ask, tx, j)
        PROVE  <1>1!:
    <3>1. job'[j].lockedBy = NoWorker /\ \A i \in Jobs \ {j} : job'[i] = job[i]
      BY <2>3 DEF Insert, NewRow, NoRow
    <3>2. /\ UNCHANGED <<run, taker, served, given>>
          /\ \A s \in Requests \ {r} : req'[s] = req[s]
          /\ req[r].phase \in {"idle", "inserting"} /\ req'[r].job = j
      BY <2>3 DEF Insert, SetReq
    <3>3. QED BY <3>1, <3>2
  <2>4. ASSUME NEW r \in Requests, Commit(r) PROVE <1>1!:
    <3>1. job[req[r].job].lockedBy = NoWorker
      BY <2>0, <2>4 DEF Commit, ReqInv, OpenOK, RowOf, Fresh, RowOK
    <3>2. /\ \A i \in Jobs \ {req[r].job} : job'[i] = job[i]
          /\ job'[req[r].job].lockedBy = NoWorker
      BY <2>4, <3>1 DEF Commit, Raised, Row
    <3>3. /\ UNCHANGED <<run, taker, served, given>>
          /\ \A s \in Requests \ {r} : req'[s] = req[s]
          /\ req[r].phase = "open" /\ req'[r].job = req[r].job
      BY <2>4 DEF Commit
    <3>4. QED BY <3>2, <3>3
  <2>5. ASSUME NEW r \in Requests, Rollback(r) PROVE <1>1!:
    <3>1. \A i \in Jobs : job'[i] = job[i] \/ job'[i].lockedBy = NoWorker
      BY <2>0, <2>5 DEF Rollback
    <3>2. /\ UNCHANGED <<run, taker, served, given>>
          /\ \A s \in Requests \ {r} : req'[s] = req[s]
          /\ req[r].phase \in {"inserting", "open"} /\ req'[r].phase = "void"
      BY <2>5 DEF Rollback, SetReq
    <3>3. QED BY <3>1, <3>2
  <2>6. QED BY <2>1, <2>2, <2>3, <2>4, <2>5 DEF EnqueueStep
<1>2. Asked \subseteq Asked'
  BY <1>1 DEF Asked
<1>3. HistoryOK'
  BY <1>1, <1>2 DEF SeenInv, HistoryOK
<1>4. ASSUME NEW l \in Lane PROVE RunOK(l)'
  <2> DEFINE j == run[l].job
  <2>1. RunOK(l) /\ run' = run /\ taker' = taker /\ served' = served
    BY <1>1 DEF SeenInv
  <2>2. ASSUME run[l].phase \notin {"idle", "unknown"}, taker[j] = l, Mine(job'[j], l[1]),
               NEW r \in Asked', req'[r].job = j
        PROVE  r \in run[l].seen \cup served
    <3>1. j \in Jobs /\ l[1] # NoWorker
      BY <2>2, RowAssumption DEF Lane
    <3>2. Mine(job[j], l[1]) /\ r \in Asked /\ req[r].job = j
      BY <1>1, <2>2, <3>1 DEF Mine, Asked
    <3>3. QED BY <2>1, <2>2, <3>2 DEF RunOK
  <2>3. QED BY <1>2, <2>1, <2>2 DEF RunOK
<1>5. QED BY <1>3, <1>4 DEF SeenInv

\* A request whose row is dead or leased was committed, or its caller gave up.
LEMMA UnservedCommitted ==
    ASSUME RowInv, ReqInv, NEW j \in Jobs,
           job[j].state = "dead" \/ job[j].lockedBy # NoWorker, NEW r \in Unserved(j)
    PROVE  req[r].phase \in {"asked", "void"}
<1>1. r \in Requests /\ req[r].job = j /\ OpenOK(r) /\ NoRowYet(r) /\ RowOK(job[j])
  BY DEF Unserved, ReqInv, RowInv, TableOK
<1>2. req[r].phase \in Phases /\ j # NoJob
  BY <1>1, StoreAssumption DEF RowInv, TypeOK
<1>3. job[j].lockedBy # NoWorker => job[j].state = "ready"
  BY <1>1 DEF RowOK
<1>4. QED BY <1>1, <1>2, <1>3 DEF OpenOK, NoRowYet, RowOf, Fresh, Phases

\* What a step that is no claim does to a lane: ends its run, or carries it on.
Carried(l) ==
    \/ run'[l].phase = "idle" /\ run'[l].seen = {}
    \/ /\ run'[l].job = run[l].job /\ run'[l].seen = run[l].seen
       /\ \/ run'[l].phase = run[l].phase
          \/ /\ run[l].phase \notin {"idle", "unknown"}
             /\ run'[l].phase = "returned" => run[l].seen \subseteq served'

\* Workers, admins and time serve and give up only what was committed.
LEMMA OthersCarry ==
    ASSUME RowInv, ReqInv, SeenInv, Next, ~EnqueueStep
    PROVE  /\ served \subseteq served' /\ HistoryOK'
           /\ \A l \in Lane : Carried(l) \/ \E j \in Jobs : Claim(l, j)
<1> DEFINE Goal == /\ served \subseteq served' /\ HistoryOK'
                   /\ \A l \in Lane : Carried(l) \/ \E j \in Jobs : Claim(l, j)
<1> USE DEF RowInv, TypeOK, SeenInv
<1>0. UNCHANGED req /\ \A l \in Lane : run[l].seen \subseteq Asked
  BY LaneWorks, RestWorks DEF Next, OthersWork, RunOK
<1>1. ASSUME UNCHANGED <<served, given>>,
             \A l \in Lane : Carried(l) \/ \E j \in Jobs : Claim(l, j)
      PROVE  Goal
  BY <1>0, <1>1 DEF HistoryOK, Asked
<1>2. ASSUME UNCHANGED <<run, served, given>> PROVE Goal
  BY <1>1, <1>2 DEF Carried
<1>3. ASSUME NEW j \in Jobs, NEW G, given' = given \cup G, G \subseteq Unserved(j),
             G # {} => job[j].state = "dead" \/ job[j].lockedBy # NoWorker,
             served' = served
      PROVE  HistoryOK'
  BY <1>0, <1>3, UnservedCommitted DEF HistoryOK, Asked
<1>4. ASSUME NEW l \in Lane, LaneStep(l) PROVE Goal
  <2>1. ASSUME NEW r, run' = [run EXCEPT ![l] = r] PROVE \A k \in Lane \ {l} : Carried(k)
    BY <2>1 DEF Carried
  <2>2. ASSUME NEW j \in Jobs, Claim(l, j) PROVE Goal
    <3>1. \A k \in Lane \ {l} : Carried(k)
      BY <2>1, <2>2 DEF Claim
    <3>2. QED BY <1>1, <2>2, <3>1 DEF Claim
  <2>3. ASSUME NEW j \in Jobs, ClaimUnanswered(l, j) PROVE Goal
    BY <1>2, <2>3 DEF ClaimUnanswered
  <2>4. CASE Extend(l)
    BY <1>2, <2>4 DEF Extend
  <2>5. CASE LetGo(l)
    <3>1. run' = [run EXCEPT ![l] = [run[l] EXCEPT !.holding = FALSE]]
      BY <2>5 DEF LetGo
    <3>2. \A k \in Lane \ {l} : Carried(k)
      BY <2>1, <3>1
    <3>3. Carried(l)
      BY <3>1 DEF Carried, Runs
    <3>4. QED BY <1>1, <2>5, <3>2, <3>3 DEF LetGo
  <2>6. ASSUME NEW phase \in {"returned", "threw", "interrupted"},
               run[l].phase \in {"running", "returned"},
               run' = [run EXCEPT ![l] = [run[l] EXCEPT !.phase = phase]],
               phase = "returned" => run[l].seen \subseteq served'
        PROVE  \A k \in Lane : Carried(k)
    <3>1. \A k \in Lane \ {l} : Carried(k)
      BY <2>1, <2>6
    <3>2. Carried(l)
      BY <2>6 DEF Carried, Runs
    <3>3. QED BY <3>1, <3>2
  <2>7. CASE HandlerReturns(l)
    <3>1. \A k \in Lane : Carried(k)
      BY <2>6, <2>7 DEF HandlerReturns
    <3>2. QED BY <1>0, <2>7, <3>1 DEF HandlerReturns, HistoryOK, Asked
  <2>8. CASE HandlerThrows(l) \/ HandlerInterrupted(l)
    <3>1. \A k \in Lane : Carried(k)
      BY <2>6, <2>8 DEF HandlerThrows, HandlerInterrupted
    <3>2. QED BY <1>1, <2>8, <3>1 DEF HandlerThrows, HandlerInterrupted
  <2>9. ASSUME LeaveLane(l) PROVE \A k \in Lane : Carried(k)
    <3>1. \A k \in Lane \ {l} : Carried(k)
      BY <2>1, <2>9 DEF LeaveLane
    <3>2. Carried(l)
      BY <2>9 DEF LeaveLane, Carried, Idle
    <3>3. QED BY <3>1, <3>2
  <2>10. CASE Fail(l) \/ Release(l) \/ SettleErrs(l)
    BY <1>1, <2>9, <2>10 DEF Fail, Release, SettleErrs
  <2>11. ASSUME run[l].phase # "idle" PROVE run[l].job \in Jobs /\ l[1] # NoWorker
    BY <2>11, RowAssumption DEF Lane
  <2>12. TakenSince(l) \subseteq Unserved(run[l].job)
         /\ (TakenSince(l) # {} => Mine(job[run[l].job], l[1]))
    BY DEF TakenSince, Mine
  <2>13. CASE Complete(l)
    <3>1. HistoryOK' /\ served' = served
      BY <1>3, <2>11, <2>12, <2>13 DEF Complete, Mine
    <3>2. QED BY <2>9, <2>13, <3>1 DEF Complete
  <2>14. CASE CompleteErrs(l)
    <3>1. \A k \in Lane : Carried(k)
      BY <2>6, <2>14 DEF CompleteErrs
    <3>2. CASE UNCHANGED given
      BY <1>1, <2>14, <3>1, <3>2 DEF CompleteErrs
    <3>3. CASE given' = given \cup TakenSince(l)
      <4>1. HistoryOK' /\ served' = served
        BY <1>3, <2>11, <2>12, <2>14, <3>3 DEF CompleteErrs, Mine
      <4>2. QED BY <3>1, <4>1
    <3>4. QED BY <2>14, <3>2, <3>3 DEF CompleteErrs
  <2>15. CASE DeleteUnknown(l)
    <3>1. CASE Mine(job[run[l].job], l[1])
      <4>1. HistoryOK' /\ served' = served
        BY <1>3, <2>11, <2>15, <3>1 DEF DeleteUnknown, Mine
      <4>2. QED BY <2>9, <2>15, <4>1 DEF DeleteUnknown
    <3>2. CASE ~Mine(job[run[l].job], l[1])
      BY <1>1, <2>9, <2>15, <3>2 DEF DeleteUnknown
    <3>3. QED BY <3>1, <3>2
  <2>16. QED
    BY <1>4, <2>2, <2>3, <2>4, <2>5, <2>7, <2>8, <2>10, <2>13, <2>14, <2>15
    DEF LaneStep, HandlerEnds, SettleStep
<1>5. ASSUME NEW w \in Workers, ProcessStep(w) PROVE Goal
  <2>1. CASE Crash(w)
    <3>1. \A l \in Lane : Carried(l)
      BY <2>1 DEF Crash, Carried, Idle
    <3>2. QED BY <1>1, <2>1, <3>1 DEF Crash
  <2>2. CASE ~Crash(w)
    BY <1>2, <1>5, <2>2 DEF ProcessStep, Start, Stop, Exit, Bury
  <2>3. QED BY <2>1, <2>2
<1>6. CASE AdminStep
  <2>1. ASSUME NEW gone \in SUBSET Jobs, RemoveDead(gone) PROVE Goal
    <3>1. UNCHANGED <<run, served>>
      BY <2>1 DEF RemoveDead
    <3>2. ASSUME NEW r \in given' PROVE req'[r].phase \in {"asked", "void"}
      <4>1. CASE r \in given
        BY <1>0, <4>1 DEF HistoryOK
      <4>2. CASE r \notin given
        <5>1. PICK j \in gone : r \in Unserved(j)
          BY <2>1, <3>2, <4>2 DEF RemoveDead
        <5>2. job[j].state = "dead"
          BY <2>1 DEF RemoveDead
        <5>3. QED BY <1>0, <5>1, <5>2, UnservedCommitted
      <4>3. QED BY <4>1, <4>2
    <3>3. HistoryOK'
      BY <1>0, <3>1, <3>2 DEF HistoryOK, Asked
    <3>4. QED BY <3>1, <3>3 DEF Carried
  <2>2. ASSUME NEW j \in Jobs, DeleteDead(j) PROVE Goal
    BY <2>1, <2>2 DEF DeleteDead
  <2>3. CASE PruneDead
    BY <2>1, <2>3 DEF PruneDead
  <2>4. QED BY <1>2, <1>6, <2>2, <2>3 DEF AdminStep, RetryDead, ReviveDead
<1>7. CASE TimeStep
  BY <1>2, <1>7 DEF TimeStep, ComesDue, Lapse
<1>8. QED BY <1>4, <1>5, <1>6, <1>7 DEF Next

\* So a run goes on having seen what it must have.
LEMMA OthersKeepSeen ==
    ASSUME RowInv, ReqInv, SeenInv, Next, ~EnqueueStep PROVE SeenInv'
<1> USE DEF RowInv, TypeOK
<1>1. UNCHANGED req /\ Asked' = Asked
  BY LaneWorks, RestWorks DEF Next, OthersWork, Asked
<1>2. SUFFICES ASSUME NEW l \in Lane PROVE RunOK(l)'
  BY OthersCarry DEF SeenInv
<1>3. RunOK(l)
  BY DEF SeenInv
<1>4. CASE \E j \in Jobs : Claim(l, j)
  <2>1. PICK j \in Jobs : Claim(l, j)
    BY <1>4
  <2>2. /\ run'[l].job = j /\ run'[l].seen \subseteq Asked
        /\ run'[l].phase \in {"running", "unknown"}
        /\ run'[l].phase = "running" => run'[l].seen = SeenBy(j)
        /\ job[j].state = "ready"
    BY <2>1 DEF Claim, SeenBy, FirstToTake, Claimable
  <2>3. ASSUME NEW r \in Asked, req[r].job = j PROVE r \in SeenBy(j)
    <3>1. AskedOK(r)
      BY <2>3 DEF ReqInv, Asked
    <3>2. QED BY <2>2, <2>3, <3>1 DEF AskedOK, RowOf, SeenBy, Asked
  <2>4. QED BY <1>1, <2>2, <2>3 DEF RunOK
<1>5. CASE Carried(l) /\ ~\E j \in Jobs : Claim(l, j)
  <2> DEFINE j == run[l].job
  <2>1. CASE run'[l].phase = "idle" /\ run'[l].seen = {}
    BY <2>1 DEF RunOK
  <2>2. CASE ~(run'[l].phase = "idle" /\ run'[l].seen = {})
    <3>1. /\ run'[l].job = j /\ run'[l].seen = run[l].seen
          /\ run'[l].phase = "returned" => run[l].seen \subseteq served'
      BY <1>3, <1>5, <2>2, OthersCarry DEF Carried, RunOK
    <3>2. ASSUME run'[l].phase \notin {"idle", "unknown"}, taker'[j] = l, Mine(job'[j], l[1]),
                 NEW r \in Asked, req[r].job = j
          PROVE  r \in run[l].seen \cup served'
      <4>1. run[l].phase \notin {"idle", "unknown"} /\ j \in Jobs /\ l[1] # NoWorker
        BY <1>5, <2>2, <3>2, RowAssumption DEF Carried, Lane
      <4>2. ~\E k \in Lane : taker'[j] = k /\ (Claim(k, j) \/ ClaimUnanswered(k, j))
        BY <1>5, <3>2, <4>1 DEF ClaimUnanswered
      <4>3. taker[j] = l /\ Mine(job[j], l[1])
        BY <3>2, <4>1, <4>2, OwnerMoves DEF Mine
      <4>4. QED BY <1>3, <3>2, <4>1, <4>3, OthersCarry DEF RunOK
    <3>3. QED BY <1>1, <1>3, <3>1, <3>2 DEF RunOK
  <2>3. QED BY <2>1, <2>2
<1>6. QED BY <1>4, <1>5, OthersCarry

LEMMA SeenInvInit == Init => SeenInv
BY DEF Init, SeenInv, HistoryOK, RunOK, Idle

LEMMA SeenInvNext == RowInv /\ ReqInv /\ SeenInv /\ [Next]_vars => SeenInv'
<1> SUFFICES ASSUME RowInv, ReqInv, SeenInv, [Next]_vars PROVE SeenInv'
  OBVIOUS
<1>1. CASE UNCHANGED vars
  BY <1>1 DEF vars, SeenInv, HistoryOK, RunOK, Asked, Mine
<1>2. CASE EnqueueStep
  BY <1>2, EnqueueKeepsSeen
<1>3. CASE Next /\ ~EnqueueStep
  BY <1>3, OthersKeepSeen
<1>4. QED BY <1>1, <1>2, <1>3

-----------------------------------------------------------------------------
(* No work is lost *)

Stands(j) == job[j].state \in {"ready", "dead"}

\* A lane that completes a row, or deletes one it has no handler for, has served
\* who asked for it, or gives them up: it was the last to take the row, or it
\* settles what another loop of its process has taken since.
LEMMA SettledAccounted ==
    ASSUME RowInv, ReqInv, SeenInv, NEW l \in Lane, LaneStep(l), NEW r \in Asked,
           Stands(req[r].job), ~Stands(req[r].job)'
    PROVE  r \in served' \cup given'
<1> DEFINE j == req[r].job
<1> USE DEF RowInv, TypeOK
<1>1. j \in Jobs /\ r \in Requests /\ job[j] \in Row /\ RowOK(job[j]) /\ UNCHANGED req
  BY LaneWorks DEF Asked, TableOK, OthersWork
<1>2. job'[j].state \notin {"ready", "dead"}
  BY <1>1 DEF Stands
<1>3. ASSUME NEW i \in Jobs, NEW row, row.state \in {"ready", "dead"},
             job' = [job EXCEPT ![i] = row]
      PROVE  FALSE
  BY <1>1, <1>2, <1>3 DEF Stands
<1>4. ASSUME NEW i \in Jobs, Claim(l, i) \/ ClaimUnanswered(l, i) PROVE FALSE
  <2>1. Taken(job[i], l[1]).state = "ready"
    BY <1>4 DEF Claim, ClaimUnanswered, FirstToTake, Claimable, Taken, Row
  <2>2. QED BY <1>3, <1>4, <2>1 DEF Claim, ClaimUnanswered
<1>5. ASSUME job' = job PROVE FALSE
  BY <1>1, <1>2, <1>5 DEF Stands
<1>6. CASE Extend(l)
  <2>1. job'[j].state = job[j].state
    BY <1>1, <1>6 DEF Extend, Row
  <2>2. QED BY <1>1, <1>2, <2>1 DEF Stands
<1>7. CASE LetGo(l) \/ HandlerEnds(l) \/ SettleErrs(l)
  BY <1>5, <1>7 DEF LetGo, HandlerEnds, HandlerReturns, HandlerThrows, HandlerInterrupted,
                    SettleErrs
<1>8. ASSUME NEW to, Settle(l, to)
      PROVE  Mine(job[j], l[1]) /\ run[l].job = j /\ to.state \notin {"ready", "dead"}
  <2>1. job'[j] # job[j]
    BY <1>1, <1>2 DEF Stands
  <2>2. run[l].job = j /\ Mine(job[j], l[1]) /\ job'[j] = to
    BY <1>1, <1>8, <2>1 DEF Settle
  <2>3. QED BY <1>2, <2>2
<1>9. CASE Fail(l)
  <2>1. FailedRow(job[run[l].job]).state \in {"ready", "dead"}
    BY <1>9 DEF Fail, FailedRow, Unlocked, Row
  <2>2. QED BY <1>8, <1>9, <2>1 DEF Fail
<1>10. CASE Release(l)
  <2>1. Mine(job[j], l[1]) /\ run[l].job = j
    BY <1>8, <1>10 DEF Release
  <2>2. ReleasedRow(job[j]).state = job[j].state
    BY <1>1 DEF ReleasedRow, Unlocked, Row
  <2>3. QED BY <1>1, <1>8, <1>10, <2>1, <2>2 DEF Release, Stands
<1>11. ASSUME Mine(job[j], l[1]), run[l].job = j, run[l].phase = "returned",
              TakenSince(l) \subseteq given', served' = served
       PROVE  r \in served' \cup given'
  <2>1. CASE taker[j] = l
    <3>1. r \in run[l].seen \cup served /\ run[l].seen \subseteq served
      BY <1>11, <2>1 DEF SeenInv, RunOK
    <3>2. QED BY <1>11, <3>1
  <2>2. CASE taker[j] # l
    BY <1>1, <1>11, <2>2 DEF TakenSince, Unserved, Mine
  <2>3. QED BY <2>1, <2>2
<1>12. CASE Complete(l)
  BY <1>8, <1>11, <1>12 DEF Complete
<1>13. CASE CompleteErrs(l)
  <2>1. Settle(l, Deleted) /\ given' = given \cup TakenSince(l)
    BY <1>5, <1>13 DEF CompleteErrs
  <2>2. QED BY <1>8, <1>11, <1>13, <2>1 DEF CompleteErrs
<1>14. CASE DeleteUnknown(l)
  <2>1. Mine(job[j], l[1]) /\ run[l].job = j
    BY <1>8, <1>14 DEF DeleteUnknown
  <2>2. QED BY <1>1, <1>14, <2>1 DEF DeleteUnknown, Unserved
<1>15. QED
  BY <1>4, <1>6, <1>7, <1>9, <1>10, <1>12, <1>13, <1>14 DEF LaneStep, SettleStep

\* Nobody else removes a row but an admin, who gives its requests up.
LEMMA RemovedAccounted ==
    ASSUME RowInv, (\E w \in Workers : ProcessStep(w)) \/ AdminStep \/ TimeStep,
           NEW r \in Asked, Stands(req[r].job), ~Stands(req[r].job)'
    PROVE  r \in served' \cup given'
<1> DEFINE j == req[r].job
<1> USE DEF RowInv, TypeOK
<1>1. /\ j \in Jobs /\ r \in Requests /\ \A i \in Jobs : job[i] \in Row
      /\ UNCHANGED req
  BY RestWorks DEF Asked, OthersWork
<1>2. job[j].state \in {"ready", "dead"} /\ job'[j].state \notin {"ready", "dead"}
  BY <1>1 DEF Stands
<1>3. ASSUME NEW w \in Workers, ProcessStep(w) PROVE FALSE
  <2>1. BuriedRow(job[j]).state = "dead"
    BY <1>1 DEF BuriedRow, Unlocked, Row
  <2>2. QED BY <1>1, <1>2, <1>3, <2>1 DEF ProcessStep, Start, Stop, Exit, Crash, Bury
<1>4. CASE AdminStep
  <2>1. RevivedRow(job[j]).state = "ready"
    BY <1>1 DEF RevivedRow, Row
  <2>2. \/ \E i \in Jobs : RetryDead(i)
        \/ \E k \in Kinds : ReviveDead(k)
        \/ \E gone \in SUBSET Jobs : RemoveDead(gone)
    BY <1>4 DEF AdminStep, DeleteDead, PruneDead
  <2>3. ASSUME NEW i \in Jobs, RetryDead(i) PROVE FALSE
    BY <1>1, <1>2, <2>1, <2>3 DEF RetryDead
  <2>4. ASSUME NEW k \in Kinds, ReviveDead(k) PROVE FALSE
    BY <1>1, <1>2, <2>1, <2>4 DEF ReviveDead
  <2>5. ASSUME NEW gone \in SUBSET Jobs, RemoveDead(gone) PROVE r \in served' \cup given'
    <3>1. j \in gone
      BY <1>1, <1>2, <2>5 DEF RemoveDead
    <3>2. r \in served \/ r \in Unserved(j)
      BY <1>1 DEF Unserved
    <3>3. QED BY <2>5, <3>1, <3>2 DEF RemoveDead
  <2>6. QED BY <2>2, <2>3, <2>4, <2>5
<1>5. CASE TimeStep
  <2>1. PICK i \in Jobs : ComesDue(i) \/ Lapse(i)
    BY <1>5 DEF TimeStep
  <2>2. \/ job' = [job EXCEPT ![i] = [job[i] EXCEPT !.due = TRUE]]
        \/ job' = [job EXCEPT ![i] = [job[i] EXCEPT !.lease = "lapsed"]]
    BY <2>1 DEF ComesDue, Lapse
  <2>3. job'[j].state = job[j].state
    <3>1. CASE i = j
      BY <1>1, <2>2, <3>1 DEF Row
    <3>2. CASE i # j
      BY <1>1, <2>2, <3>2
    <3>3. QED BY <3>1, <3>2
  <2>4. QED BY <1>2, <2>3
<1>6. QED BY <1>3, <1>4, <1>5

\* A caller's step puts a ready row under a request that becomes asked, and takes
\* none from the others.
LEMMA EnqueueStands ==
    ASSUME RowInv, ReqInv, EnqueueStep, NEW r \in Asked',
           r \in Asked => Stands(req[r].job)
    PROVE  /\ Stands(req[r].job)'
           /\ r \in Asked => (job'[req'[r].job].state = job[req[r].job].state)
           /\ r \notin Asked => /\ req[r].phase \notin {"asked", "void"}
                              /\ job'[req'[r].job].state = "ready"
<1> USE DEF RowInv, TypeOK
<1>1. \A s \in Requests : NoRowYet(s) /\ OpenOK(s) /\ AskedOK(s)
  BY DEF ReqInv
<1>2. r \in Requests /\ req'[r].phase = "asked" /\ (r \in Asked <=> req[r].phase = "asked")
  BY DEF Asked
<1>3. ASSUME NEW s \in Requests, NEW ask \in Asks, NoStandIn(s, ask)
      PROVE  req'[r] = req[r] /\ UNCHANGED job
  BY <1>2, <1>3 DEF NoStandIn, SetReq
<1>4. ASSUME NEW s \in Requests, NEW ask \in Asks, NEW tx \in BOOLEAN, NEW j \in Jobs,
             StandIn(s, ask, tx, j)
      PROVE  /\ \A i \in Jobs : job'[i].state = job[i].state
             /\ \/ req'[r] = req[r]
                \/ req[r].phase = "idle" /\ req'[r].job = j /\ job[j].state = "ready"
  <2>1. \A i \in Jobs : job'[i].state = job[i].state
    BY <1>4 DEF StandIn, Raised, Row
  <2>2. QED BY <1>2, <1>4, <2>1 DEF StandIn, StandsIn, SetReq
<1>5. ASSUME NEW s \in Requests, NEW ask \in Asks, NEW tx \in BOOLEAN, NEW j \in Jobs,
             Insert(s, ask, tx, j)
      PROVE  /\ \A i \in Jobs \ {j} : job'[i] = job[i]
             /\ job[j].state = "unwritten"
             /\ \/ req'[r] = req[r]
                \/ /\ req[r].phase \in {"idle", "inserting"} /\ req'[r].job = j
                   /\ job'[j].state = "ready"
  <2>1. /\ \A i \in Jobs \ {j} : job'[i] = job[i]
        /\ job[j].state = "unwritten"
        /\ job'[j].state = IF tx THEN "pending" ELSE "ready"
    BY <1>5 DEF Insert, NewRow, NoRow
  <2>2. CASE r = s
    BY <1>2, <1>5, <2>1, <2>2 DEF Insert, SetReq
  <2>3. CASE r # s
    BY <1>2, <1>5, <2>1, <2>3 DEF Insert, SetReq
  <2>4. QED BY <2>2, <2>3
<1>6. ASSUME NEW s \in Requests, Commit(s)
      PROVE  /\ \A i \in Jobs : i # req[s].job => job'[i] = job[i]
             /\ job[req[s].job].state \in {"pending", "ready"}
             /\ job'[req[s].job].state = "ready"
             /\ r = s => req[r].phase = "open" /\ req'[r].job = req[r].job
             /\ r # s => req'[r] = req[r]
  <2>1. /\ job[req[s].job].state \in {"pending", "ready"} /\ req[s].job \in Jobs
        /\ job[req[s].job] \in Row
    BY <1>1, <1>6 DEF Commit, OpenOK, RowOf, Fresh
  <2>2. /\ job'[req[s].job].state = "ready"
    BY <1>6, <2>1 DEF Commit, Raised, Row
  <2>3. QED BY <1>2, <1>6, <2>1, <2>2 DEF Commit
<1>7. ASSUME NEW s \in Requests, Rollback(s)
      PROVE  /\ \A i \in Jobs : job'[i] = job[i] \/ job[i].state = "pending"
             /\ req'[r] = req[r]
  BY <1>2, <1>7 DEF Rollback
<1>8. req[r].phase = "asked" => job[req[r].job].state \in {"ready", "dead"} /\ req[r].job \in Jobs
  BY <1>2 DEF Stands
<1> DEFINE Goal == /\ Stands(req[r].job)'
                   /\ r \in Asked => (job'[req'[r].job].state = job[req[r].job].state)
                   /\ r \notin Asked => /\ req[r].phase \notin {"asked", "void"}
                                      /\ job'[req'[r].job].state = "ready"
<1>10. ASSUME NEW s \in Requests, NEW ask \in Asks, NoStandIn(s, ask) PROVE Goal
  BY <1>2, <1>3, <1>8, <1>10 DEF Stands
<1>11. ASSUME NEW s \in Requests, NEW ask \in Asks, NEW tx \in BOOLEAN, NEW j \in Jobs,
              StandIn(s, ask, tx, j)
       PROVE  Goal
  BY <1>2, <1>4, <1>8, <1>11 DEF Stands
<1>12. ASSUME NEW s \in Requests, NEW ask \in Asks, NEW tx \in BOOLEAN, NEW j \in Jobs,
              Insert(s, ask, tx, j)
       PROVE  Goal
  BY <1>2, <1>5, <1>8, <1>12 DEF Stands
<1>13. ASSUME NEW s \in Requests, Commit(s) PROVE Goal
  BY <1>2, <1>6, <1>8, <1>13 DEF Stands
<1>14. ASSUME NEW s \in Requests, Rollback(s) PROVE Goal
  BY <1>2, <1>7, <1>8, <1>14 DEF Stands
<1>15. Goal
  BY <1>10, <1>11, <1>12, <1>13, <1>14, Zenon DEF EnqueueStep
<1>16. QED BY <1>15

\* A caller's step leaves the history alone.
LEMMA EnqueueHistory == EnqueueStep => served' = served /\ given' = given
<1> SUFFICES ASSUME EnqueueStep PROVE served' = served /\ given' = given
  OBVIOUS
<1> DEFINE Same == served' = served /\ given' = given
<1>1. ASSUME NEW r \in Requests, Commit(r) PROVE Same
  BY <1>1 DEF Commit
<1>2. ASSUME NEW r \in Requests, Rollback(r) PROVE Same
  BY <1>2 DEF Rollback
<1>3. ASSUME NEW r \in Requests, NEW ask \in Asks, NoStandIn(r, ask) PROVE Same
  BY <1>3 DEF NoStandIn
<1>4. ASSUME NEW r \in Requests, NEW ask \in Asks, NEW tx \in BOOLEAN, NEW j \in Jobs,
             StandIn(r, ask, tx, j)
      PROVE  Same
  BY <1>4 DEF StandIn
<1>5. ASSUME NEW r \in Requests, NEW ask \in Asks, NEW tx \in BOOLEAN, NEW j \in Jobs,
             Insert(r, ask, tx, j)
      PROVE  Same
  BY <1>5 DEF Insert
<1>6. QED BY <1>1, <1>2, <1>3, <1>4, <1>5, Zenon DEF EnqueueStep

\* Whatever happens to the processes, loops, callers and rows: a request that
\* was committed has its row, ready or dead, until a handler that could see it
\* has finished it or it is given up.
LEMMA NoLostWorkNext ==
    PromiseInv /\ [Next]_vars => NoLostWork'
<1> SUFFICES ASSUME PromiseInv, [Next]_vars PROVE NoLostWork'
  OBVIOUS
<1> USE DEF PromiseInv
<1>1. CASE UNCHANGED vars
  BY <1>1 DEF vars, NoLostWork, Asked
<1>2. CASE EnqueueStep
  <2>1. ASSUME NEW r \in Asked' PROVE r \in served' \cup given' \/ Stands(req[r].job)'
    <3>1. served' = served /\ given' = given
      BY <1>2, EnqueueHistory
    <3>2. CASE r \in served \cup given
      BY <3>1, <3>2
    <3>3. CASE r \notin served \cup given
      <4>1. r \in Asked => Stands(req[r].job)
        BY <3>3 DEF NoLostWork, Stands
      <4>2. QED BY <1>2, <2>1, <4>1, EnqueueStands
    <3>4. QED BY <3>2, <3>3
  <2>2. QED BY <2>1 DEF NoLostWork, Stands
<1>3. CASE Next /\ ~EnqueueStep
  <2>1. UNCHANGED req /\ Asked' = Asked
    BY <1>3, LaneWorks, RestWorks DEF Next, OthersWork, Asked
  <2>2. served \subseteq served' /\ given \subseteq given'
    <3>1. given \subseteq given'
      <4>1. CASE \E l \in Lane : LaneStep(l)
        BY <4>1 DEF LaneStep, Claim, ClaimUnanswered, Extend, LetGo, HandlerEnds,
                    HandlerReturns, HandlerThrows, HandlerInterrupted, SettleStep, Complete,
                    DeleteUnknown, CompleteErrs, Fail, Release, SettleErrs
      <4>2. CASE \E w \in Workers : ProcessStep(w)
        BY <4>2 DEF ProcessStep, Start, Stop, Exit, Crash, Bury
      <4>3. CASE AdminStep \/ TimeStep
        BY <4>3 DEF AdminStep, RetryDead, ReviveDead, DeleteDead, PruneDead, RemoveDead,
                    TimeStep, ComesDue, Lapse
      <4>4. QED BY <1>3, <4>1, <4>2, <4>3 DEF Next
    <3>2. QED BY <1>3, <3>1, OthersCarry
  <2>3. ASSUME NEW r \in Asked PROVE r \in served' \cup given' \/ Stands(req[r].job)'
    <3>1. CASE r \in served \cup given
      BY <2>2, <3>1
    <3>2. CASE Stands(req[r].job)
      BY <1>3, <2>3, <3>2, SettledAccounted, RemovedAccounted DEF Next
    <3>3. QED BY <3>1, <3>2 DEF NoLostWork, Stands
  <2>4. QED BY <2>1, <2>3 DEF NoLostWork, Stands
<1>4. QED BY <1>1, <1>2, <1>3

LEMMA PromiseInvInductive ==
    /\ Init => PromiseInv
    /\ PromiseInv /\ [Next]_vars => PromiseInv'
<1>1. Init => NoLostWork
  BY DEF Init, NoLostWork, Asked
<1>2. QED
  BY <1>1, RowInvInit, ReqInvInit, SeenInvInit, RowInvNext, ReqInvNext, SeenInvNext,
     NoLostWorkNext
  DEF PromiseInv

\* No work is lost: until a handler that started after a request was committed
\* has finished it, the row it was given stands, whatever joins it, retries it
\* or takes it over.
THEOREM WorkNotLost == Spec => []NoLostWork
<1>1. PromiseInv => NoLostWork
  BY DEF PromiseInv
<1>2. QED BY <1>1, PromiseInvInductive, PTL DEF Spec

-----------------------------------------------------------------------------
(* The table implements the promise *)

\* A step that moves some requests from one of the fates in from to to, and
\* leaves the others, is a step of the promise or none.
LEMMA FatesMove ==
    ASSUME NEW from, NEW to,
           \A r \in Requests : Fate(r)' = Fate(r) \/ (Fate(r) \in from /\ Fate(r)' = to)
    PROVE  \/ [r \in Requests |-> Fate(r)]' = [r \in Requests |-> Fate(r)]
           \/ Promise!Moves(from, to)
<1> DEFINE R == {r \in Requests : Fate(r)' # Fate(r)}
<1>1. CASE R = {}
  BY <1>1
<1>2. CASE R # {}
  <2>1. [r \in Requests |-> Fate(r)]' =
           [r \in Requests |-> IF r \in R THEN to ELSE [s \in Requests |-> Fate(s)][r]]
    OBVIOUS
  <2>2. \A r \in R : [s \in Requests |-> Fate(s)][r] \in from
    OBVIOUS
  <2>3. R \in SUBSET Requests
    OBVIOUS
  <2> HIDE DEF R
  <2>4. QED BY <1>2, <2>1, <2>2, <2>3 DEF Promise!Moves
<1>3. QED BY <1>1, <1>2

\* The fates of requests whose callers, and whose handlers, do not move.
LEMMA FatesByRow ==
    ASSUME PromiseInv, UNCHANGED <<req, served>>, given \subseteq given', NEW from, NEW to,
           \A r \in Asked \ (served \cup given) :
              \/ r \notin given' /\ job'[req[r].job].state = job[req[r].job].state
              \/ Fate(r) \in from /\ Fate(r)' = to
    PROVE  \/ [r \in Requests |-> Fate(r)]' = [r \in Requests |-> Fate(r)]
           \/ Promise!Moves(from, to)
<1>1. SUFFICES ASSUME NEW r \in Requests
               PROVE  Fate(r)' = Fate(r) \/ (Fate(r) \in from /\ Fate(r)' = to)
  BY FatesMove
<1>2. CASE req[r].phase # "asked" \/ r \in served \cup given
  BY <1>2 DEF Fate
<1>3. CASE r \in Asked \ (served \cup given)
  BY <1>3 DEF Fate, Asked
<1>4. QED BY <1>2, <1>3 DEF Asked

\* The fate of a request that is neither served nor given up is its row's.
LEMMA FateOfRow ==
    ASSUME PromiseInv, NEW r \in Asked \ (served \cup given)
    PROVE  /\ req[r].job \in Jobs /\ r \in Requests /\ req[r].phase = "asked"
           /\ job[req[r].job].state \in {"ready", "dead"}
           /\ job[req[r].job].state = "ready" => Fate(r) = "owed"
           /\ job[req[r].job].state = "dead" => Fate(r) = "dead"
BY DEF PromiseInv, NoLostWork, RowInv, TypeOK, Asked, Fate

\* A caller takes nothing back that it has committed.
LEMMA AskedStays == RowInv /\ EnqueueStep => Asked \subseteq Asked'
<1> SUFFICES ASSUME RowInv, EnqueueStep, NEW s \in Asked PROVE req'[s] = req[s]
  BY DEF Asked
<1> USE DEF RowInv, TypeOK, Asked
<1>1. ASSUME NEW r \in Requests, Commit(r) \/ Rollback(r) PROVE req'[s] = req[s]
  BY <1>1 DEF Commit, Rollback
<1>2. ASSUME NEW r \in Requests, NEW ask \in Asks, NEW tx \in BOOLEAN, NEW j \in Jobs,
             StandIn(r, ask, tx, j) \/ Insert(r, ask, tx, j)
      PROVE  req'[s] = req[s]
  BY <1>2 DEF StandIn, Insert, SetReq
<1>3. ASSUME NEW r \in Requests, NEW ask \in Asks, NoStandIn(r, ask) PROVE req'[s] = req[s]
  BY <1>3 DEF NoStandIn, SetReq
<1>4. QED BY <1>1, <1>2, <1>3 DEF EnqueueStep

\* A caller's step asks for something, or is nothing to the callers.
LEMMA EnqueuePromised ==
    ASSUME PromiseInv, EnqueueStep
    PROVE  \/ [r \in Requests |-> Fate(r)]' = [r \in Requests |-> Fate(r)]
           \/ Promise!Moves({"unasked"}, "owed")
<1> USE DEF PromiseInv
<1>1. SUFFICES ASSUME NEW r \in Requests
               PROVE  Fate(r)' = Fate(r) \/ (Fate(r) \in {"unasked"} /\ Fate(r)' = "owed")
  BY FatesMove
<1>2. served' = served /\ given' = given
  BY EnqueueHistory
<1>3. CASE req'[r].phase # "asked"
  <2>1. req[r].phase # "asked"
    BY <1>3, AskedStays DEF Asked
  <2>2. QED BY <1>3, <2>1 DEF Fate
<1>4. CASE r \in Asked /\ r \in Asked'
  <2>1. CASE r \in served \cup given
    BY <1>2, <1>4, <2>1 DEF Fate, Asked
  <2>2. CASE r \notin served \cup given
    <3>1. job'[req'[r].job].state = job[req[r].job].state
      BY <1>4, <2>2, EnqueueStands DEF NoLostWork, Stands
    <3>2. QED BY <1>2, <1>4, <2>2, <3>1 DEF Fate, Asked
  <2>3. QED BY <2>1, <2>2
<1>5. CASE r \notin Asked /\ r \in Asked'
  <2>1. req[r].phase \notin {"asked", "void"} /\ job'[req'[r].job].state = "ready"
    BY <1>5, EnqueueStands
  <2>2. r \notin served \cup given
    BY <1>5, <2>1 DEF SeenInv, HistoryOK
  <2>3. QED BY <1>2, <1>5, <2>1, <2>2 DEF Fate, Asked
<1>6. QED BY <1>3, <1>4, <1>5 DEF Asked

\* A lane's step is nothing to the callers, or the end of a handler (done), or a
\* last failure (dead), or one that gives requests up.
LEMMA LanePromised ==
    ASSUME PromiseInv, NEW l \in Lane, LaneStep(l)
    PROVE  \/ [r \in Requests |-> Fate(r)]' = [r \in Requests |-> Fate(r)]
           \/ Promise!Next
<1> DEFINE F == [r \in Requests |-> Fate(r)]
           j == run[l].job
<1> USE DEF PromiseInv, RowInv, TypeOK
<1>0. UNCHANGED req /\ \A i \in Jobs : job[i] \in Row /\ RowOK(job[i])
  BY LaneWorks DEF TableOK, OthersWork
<1>1. ASSUME UNCHANGED <<served, given>>,
             \A i \in Jobs : job'[i].state = job[i].state
      PROVE  F' = F
  <2>1. \A r \in Asked \ (served \cup given) :
           r \notin given' /\ job'[req[r].job].state = job[req[r].job].state
    BY <1>1, FateOfRow
  <2>2. F' = F \/ Promise!Moves({}, "owed")
    BY <1>0, <1>1, <2>1, FatesByRow
  <2>3. QED BY <2>2 DEF Promise!Moves
<1>2. ASSUME NEW i \in Jobs, Claim(l, i) \/ ClaimUnanswered(l, i) PROVE F' = F
  <2>1. Taken(job[i], l[1]).state = job[i].state
    BY <1>0 DEF Taken, Row
  <2>2. \A k \in Jobs : job'[k].state = job[k].state
    BY <1>2, <2>1 DEF Claim, ClaimUnanswered
  <2>3. QED BY <1>1, <1>2, <2>2 DEF Claim, ClaimUnanswered
<1>3. CASE Extend(l)
  <2>1. \A k \in Jobs : job'[k].state = job[k].state
    BY <1>0, <1>3 DEF Extend, Row
  <2>2. QED BY <1>1, <1>3, <2>1 DEF Extend
<1>4. CASE LetGo(l) \/ HandlerThrows(l) \/ HandlerInterrupted(l) \/ SettleErrs(l)
  BY <1>1, <1>4 DEF LetGo, HandlerThrows, HandlerInterrupted, SettleErrs
<1>5. CASE HandlerReturns(l)
  <2>1. job' = job /\ given' = given /\ served' = served \cup run[l].seen
    BY <1>5 DEF HandlerReturns
  <2>2. ASSUME NEW r \in Requests
        PROVE  Fate(r)' = Fate(r) \/ (Fate(r) \in {"owed", "dead", "given"} /\ Fate(r)' = "done")
    <3>1. CASE req[r].phase # "asked" \/ r \in served \/ r \notin run[l].seen
      BY <1>0, <2>1, <3>1 DEF Fate
    <3>2. CASE r \in Asked \ served /\ r \in run[l].seen
      <4>1. Fate(r) \in {"owed", "dead", "given"}
        <5>1. CASE r \in given
          BY <3>2, <5>1 DEF Fate, Asked
        <5>2. CASE r \notin given
          BY <3>2, <5>2, FateOfRow
        <5>3. QED BY <5>1, <5>2
      <4>2. Fate(r)' = "done"
        BY <1>0, <2>1, <3>2 DEF Fate, Asked
      <4>3. QED BY <4>1, <4>2
    <3>3. QED BY <3>1, <3>2 DEF Asked
  <2>3. F' = F \/ Promise!Moves({"owed", "dead", "given"}, "done")
    BY <2>2, FatesMove
  <2>4. QED BY <2>3 DEF Promise!Next, Promise!Finish
<1>6. ASSUME NEW to, Settle(l, to)
      PROVE  \A i \in Jobs : job'[i] = job[i] \/ (i = j /\ Mine(job[j], l[1]) /\ job'[i] = to)
  BY <1>6 DEF Settle
<1>7. \A i \in Jobs : Mine(job[i], l[1]) => job[i].state = "ready"
  BY <1>0, RowAssumption DEF RowOK, Mine, Lane
<1>8. CASE Release(l)
  <2>1. \A i \in Jobs : ReleasedRow(job[i]).state = job[i].state
    BY <1>0 DEF ReleasedRow, Unlocked, Row
  <2>2. \A i \in Jobs : job'[i].state = job[i].state
    BY <1>6, <1>8, <2>1 DEF Release
  <2>3. QED BY <1>1, <1>8, <2>2 DEF Release
<1>9. CASE Fail(l)
  <2>1. \A i \in Jobs : FailedRow(job[i]).state \in {"ready", "dead"}
    BY <1>0 DEF FailedRow, Unlocked, Row
  <2>2. \A i \in Jobs : \/ job'[i].state = job[i].state
                        \/ job[i].state = "ready" /\ job'[i].state = "dead"
    BY <1>6, <1>7, <1>9, <2>1 DEF Fail
  <2>3. served' = served /\ given' = given
    BY <1>9 DEF Fail
  <2>4. ASSUME NEW r \in Asked \ (served \cup given)
        PROVE  \/ r \notin given' /\ job'[req[r].job].state = job[req[r].job].state
               \/ Fate(r) \in {"owed"} /\ Fate(r)' = "dead"
    <3>1. CASE job'[req[r].job].state = job[req[r].job].state
      BY <2>3, <3>1
    <3>2. CASE job[req[r].job].state = "ready" /\ job'[req[r].job].state = "dead"
      BY <1>0, <2>3, <3>2, FateOfRow DEF Fate
    <3>3. QED BY <2>2, <3>1, <3>2, FateOfRow
  <2>5. F' = F \/ Promise!Moves({"owed"}, "dead")
    BY <1>0, <2>3, <2>4, FatesByRow
  <2>6. QED BY <2>5 DEF Promise!Next, Promise!Die
<1>10. CASE Complete(l) \/ CompleteErrs(l) \/ DeleteUnknown(l)
  <2>1. /\ served' = served /\ given \subseteq given'
        /\ \A i \in Jobs : job'[i] = job[i] \/ (job[i].state = "ready" /\ ~Stands(i)')
    <3>1. Deleted.state = "gone"
      BY DEF Deleted, NoRow
    <3>2. QED
      BY <1>6, <1>7, <1>10, <3>1
      DEF Complete, CompleteErrs, DeleteUnknown, TakenSince, Stands
  <2>2. ASSUME NEW r \in Asked \ (served \cup given)
        PROVE  \/ r \notin given' /\ job'[req[r].job].state = job[req[r].job].state
               \/ Fate(r) \in {"owed", "dead"} /\ Fate(r)' = "given"
    <3>0. Fate(r) \in {"owed", "dead"} /\ req[r].job \in Jobs
      BY FateOfRow
    <3>1. CASE r \in given'
      BY <1>0, <2>1, <2>2, <3>0, <3>1 DEF Fate, Asked
    <3>2. CASE r \notin given'
      <4>1. Stands(req[r].job)'
        BY <2>1, <2>2, <3>2, SettledAccounted, <1>10, FateOfRow DEF LaneStep, Stands
      <4>2. QED BY <1>0, <2>1, <3>0, <3>2, <4>1
    <3>3. QED BY <3>1, <3>2
  <2>3. F' = F \/ Promise!Moves({"owed", "dead"}, "given")
    BY <1>0, <2>1, <2>2, FatesByRow
  <2>4. QED BY <2>3 DEF Promise!Next, Promise!GiveUp
<1>11. QED
  BY <1>2, <1>3, <1>4, <1>5, <1>8, <1>9, <1>10 DEF LaneStep, HandlerEnds, SettleStep

\* buryExhausted makes jobs dead; an admin retries them or gives them up.
LEMMA RestPromised ==
    ASSUME PromiseInv, (\E w \in Workers : ProcessStep(w)) \/ AdminStep \/ TimeStep
    PROVE  \/ [r \in Requests |-> Fate(r)]' = [r \in Requests |-> Fate(r)]
           \/ Promise!Next
<1> DEFINE F == [r \in Requests |-> Fate(r)]
<1> USE DEF PromiseInv, RowInv, TypeOK
<1>0. UNCHANGED req /\ \A i \in Jobs : job[i] \in Row
  BY RestWorks DEF OthersWork
<1>1. ASSUME UNCHANGED <<served, given>>,
             \A i \in Jobs : \/ job'[i].state = job[i].state
                             \/ job[i].state = "ready" /\ job'[i].state = "dead"
      PROVE  F' = F \/ Promise!Next
  <2>1. ASSUME NEW r \in Asked \ (served \cup given)
        PROVE  \/ r \notin given' /\ job'[req[r].job].state = job[req[r].job].state
               \/ Fate(r) \in {"owed"} /\ Fate(r)' = "dead"
    <3>1. /\ req[r].job \in Jobs /\ r \in Requests /\ req[r].phase = "asked"
          /\ job[req[r].job].state = "ready" => Fate(r) = "owed"
      BY FateOfRow
    <3>2. CASE job'[req[r].job].state = job[req[r].job].state
      BY <1>1, <3>2
    <3>3. CASE job[req[r].job].state = "ready" /\ job'[req[r].job].state = "dead"
      BY <1>0, <1>1, <3>1, <3>3 DEF Fate
    <3>4. QED BY <1>1, <3>1, <3>2, <3>3
  <2>2. F' = F \/ Promise!Moves({"owed"}, "dead")
    BY <1>0, <1>1, <2>1, FatesByRow
  <2>3. QED BY <2>2 DEF Promise!Next, Promise!Die
<1>2. ASSUME NEW w \in Workers, ProcessStep(w) PROVE F' = F \/ Promise!Next
  <2>1. \A i \in Jobs : Exhausted(job[i]) => job[i].state = "ready" /\ BuriedRow(job[i]).state = "dead"
    BY <1>0 DEF Exhausted, BuriedRow, Unlocked, Row
  <2>2. UNCHANGED <<served, given>>
    BY <1>2 DEF ProcessStep, Start, Stop, Exit, Crash, Bury
  <2>3. \A i \in Jobs : \/ job'[i].state = job[i].state
                        \/ job[i].state = "ready" /\ job'[i].state = "dead"
    BY <1>2, <2>1 DEF ProcessStep, Start, Stop, Exit, Crash, Bury
  <2>4. QED BY <1>1, <2>2, <2>3
<1>3. ASSUME UNCHANGED <<served, given>>,
             \A i \in Jobs : \/ job'[i].state = job[i].state
                             \/ job[i].state = "dead" /\ job'[i].state = "ready"
      PROVE  F' = F \/ Promise!Next
  <2>1. ASSUME NEW r \in Asked \ (served \cup given)
        PROVE  \/ r \notin given' /\ job'[req[r].job].state = job[req[r].job].state
               \/ Fate(r) \in {"dead"} /\ Fate(r)' = "owed"
    <3>1. /\ req[r].job \in Jobs /\ r \in Requests /\ req[r].phase = "asked"
          /\ job[req[r].job].state = "dead" => Fate(r) = "dead"
      BY FateOfRow
    <3>2. CASE job'[req[r].job].state = job[req[r].job].state
      BY <1>3, <3>2
    <3>3. CASE job[req[r].job].state = "dead" /\ job'[req[r].job].state = "ready"
      BY <1>0, <1>3, <3>1, <3>3 DEF Fate
    <3>4. QED BY <1>3, <3>1, <3>2, <3>3
  <2>2. F' = F \/ Promise!Moves({"dead"}, "owed")
    BY <1>0, <1>3, <2>1, FatesByRow
  <2>3. QED BY <2>2 DEF Promise!Next, Promise!Retry
<1>4. \A i \in Jobs : RevivedRow(job[i]).state = "ready"
  BY <1>0 DEF RevivedRow, Row
<1>5. ASSUME NEW i \in Jobs, RetryDead(i) PROVE F' = F \/ Promise!Next
  BY <1>3, <1>4, <1>5 DEF RetryDead
<1>6. ASSUME NEW k \in Kinds, ReviveDead(k) PROVE F' = F \/ Promise!Next
  BY <1>3, <1>4, <1>6 DEF ReviveDead
<1>7. ASSUME NEW gone \in SUBSET Jobs, RemoveDead(gone) PROVE F' = F \/ Promise!Next
  <2>1. /\ served' = served /\ given' = given \cup UNION {Unserved(j) : j \in gone}
        /\ \A i \in gone : job[i].state = "dead"
        /\ \A i \in Jobs \ gone : job'[i] = job[i]
    BY <1>7 DEF RemoveDead
  <2>2. ASSUME NEW r \in Asked \ (served \cup given)
        PROVE  \/ r \notin given' /\ job'[req[r].job].state = job[req[r].job].state
               \/ Fate(r) \in {"owed", "dead"} /\ Fate(r)' = "given"
    <3>1. /\ req[r].job \in Jobs /\ r \in Requests /\ req[r].phase = "asked"
          /\ Fate(r) \in {"owed", "dead"}
      BY FateOfRow
    <3>2. CASE r \in given'
      BY <1>0, <2>1, <2>2, <3>1, <3>2 DEF Fate
    <3>3. CASE r \notin given'
      <4>1. req[r].job \notin gone
        BY <2>1, <2>2, <3>1, <3>3 DEF Unserved
      <4>2. QED BY <2>1, <3>1, <3>3, <4>1
    <3>4. QED BY <3>2, <3>3
  <2>3. F' = F \/ Promise!Moves({"owed", "dead"}, "given")
    BY <1>0, <2>1, <2>2, FatesByRow
  <2>4. QED BY <2>3 DEF Promise!Next, Promise!GiveUp
<1>8. CASE TimeStep
  <2>1. PICK i \in Jobs : ComesDue(i) \/ Lapse(i)
    BY <1>8 DEF TimeStep
  <2>2. \/ job' = [job EXCEPT ![i] = [job[i] EXCEPT !.due = TRUE]]
        \/ job' = [job EXCEPT ![i] = [job[i] EXCEPT !.lease = "lapsed"]]
    BY <2>1 DEF ComesDue, Lapse
  <2>3. job'[i].state = job[i].state /\ \A k \in Jobs \ {i} : job'[k] = job[k]
    BY <1>0, <2>2 DEF Row
  <2>4. \A k \in Jobs : job'[k].state = job[k].state
    BY <2>3
  <2>5. UNCHANGED <<served, given>>
    BY <2>1 DEF ComesDue, Lapse
  <2>6. QED BY <1>3, <2>4, <2>5
<1>9. QED
  BY <1>2, <1>5, <1>6, <1>7, <1>8 DEF AdminStep, DeleteDead, PruneDead

\* The table implements the promise: as its callers see it, every step of the
\* queue asks, finishes, kills, retries or gives up requests, or is none of
\* theirs; what is done stays done, and nothing owed is dropped.
THEOREM PromiseKept == Spec => KeepsPromise
<1> DEFINE F == [r \in Requests |-> Fate(r)]
<1>1. Init => Promise!Init
  BY DEF Init, Promise!Init, Fate
<1>2. PromiseInv /\ [Next]_vars => [Promise!Next]_F
  <2> SUFFICES ASSUME PromiseInv, [Next]_vars PROVE F' = F \/ Promise!Next
    OBVIOUS
  <2>1. CASE UNCHANGED vars
    BY <2>1 DEF vars, Fate
  <2>2. CASE EnqueueStep
    BY <2>2, EnqueuePromised DEF Promise!Next, Promise!Ask
  <2>3. CASE \E l \in Lane : LaneStep(l)
    BY <2>3, LanePromised
  <2>4. CASE (\E w \in Workers : ProcessStep(w)) \/ AdminStep \/ TimeStep
    BY <2>4, RestPromised
  <2>5. QED BY <2>1, <2>2, <2>3, <2>4 DEF Next
<1>3. QED
  BY <1>1, <1>2, PromiseInvInductive, PTL DEF Spec, KeepsPromise, Promise!Spec
=============================================================================
