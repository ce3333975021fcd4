--------------------------- MODULE JobStoreProofs ---------------------------
(***************************************************************************)
(* What holds of the job table for any number of processes, lanes, rows    *)
(* and requests, and any MAX_ATTEMPTS.                                     *)
(***************************************************************************)
EXTENDS JobStore, TLAPS

-----------------------------------------------------------------------------
(* One row, through one statement *)

\* ExhaustedIsLeased and LeaseHasOwner, said of one row, and that only a row the
\* workers see has been taken.
RowOK(row) ==
    /\ row \in Row
    /\ row.state = "ready" /\ row.attempts = MaxAttempts => row.lease # "none"
    /\ row.state = "dead" => row.attempts = MaxAttempts /\ row.lease = "none"
    /\ row.lease = "none" <=> row.lockedBy = NoWorker
    /\ row.lease # "none" => row.state = "ready" /\ row.attempts > 0
    /\ row.state \in {"unwritten", "pending", "gone"} => row.attempts = 0

\* A row never written, or deleted (schema job.ts), is in order.
LEMMA BlankRowOK == RowOK(NoRow) /\ RowOK(Deleted)
<1>1. RowOK(NoRow) /\ NoRow \in Row
  BY RowAssumption DEF RowOK, Row, NoRow, States, Priorities, Leases
<1>2. Deleted \in Row
  BY <1>1 DEF Row, Deleted, States
<1>3. Deleted.state = "gone" /\ Deleted.lease = "none" /\ Deleted.lockedBy = NoWorker
      /\ Deleted.attempts = 0
  BY DEF Deleted, NoRow
<1>4. QED BY <1>1, <1>2, <1>3 DEF RowOK

\* A row as enqueueMany inserts it is in order.
LEMMA NewRowOK ==
    ASSUME NEW kind \in Kinds, NEW priority \in Priorities, NEW delayed \in BOOLEAN,
           NEW state \in {"pending", "ready"}
    PROVE  RowOK(NewRow(kind, priority, delayed, state))
<1> DEFINE new == NewRow(kind, priority, delayed, state)
<1>1. NoRow \in Row
  BY BlankRowOK DEF RowOK
<1>2. new \in Row
  BY <1>1 DEF Row, NewRow, States
<1>3. /\ new.state = state /\ new.attempts = 0
      /\ new.lease = "none" /\ new.lockedBy = NoWorker
  BY DEF NewRow, NoRow
<1>4. QED BY <1>2, <1>3, RowAssumption DEF RowOK

\* What claim() does to a row it may take leaves it in order.
LEMMA TakenOK ==
    ASSUME NEW row, RowOK(row), Claimable(row), NEW w \in Workers
    PROVE  RowOK(Taken(row, w))
<1>1. row \in Row
  BY DEF RowOK
<1>2. /\ row.attempts + 1 \in 0..MaxAttempts /\ row.attempts + 1 > 0
      /\ row.state = "ready"
  BY <1>1, RowAssumption DEF Row, Claimable
<1>3. Taken(row, w) \in Row
  BY <1>1, <1>2 DEF Row, Taken, Leases
<1>4. /\ Taken(row, w).state = "ready" /\ Taken(row, w).lease = "live"
      /\ Taken(row, w).lockedBy = w /\ Taken(row, w).attempts = row.attempts + 1
  BY <1>1, <1>2 DEF Row, Taken
<1>5. QED BY <1>2, <1>3, <1>4, RowAssumption DEF RowOK

\* Clearing the lease, as every settling statement does.
LEMMA UnlockedRow ==
    ASSUME NEW row \in Row
    PROVE  /\ Unlocked(row) \in Row
           /\ Unlocked(row).lease = "none" /\ Unlocked(row).lockedBy = NoWorker
           /\ Unlocked(row).attempts = row.attempts
           /\ Unlocked(row).state = row.state
BY DEF Row, Unlocked, Leases

\* What fail, release and the extension do to a row that is `mine' leaves it in
\* order: attempts is above zero there, so release counts none below it.
LEMMA SettledOK ==
    ASSUME NEW row, RowOK(row), NEW w \in Workers, Mine(row, w)
    PROVE  /\ RowOK(FailedRow(row))
           /\ RowOK(ReleasedRow(row))
           /\ RowOK([row EXCEPT !.lease = "live"])
<1>1. row \in Row
  BY DEF RowOK
<1>2. row.lease # "none" /\ row.state = "ready" /\ row.attempts > 0
  BY RowAssumption DEF RowOK, Mine
<1>3. RowOK(FailedRow(row))
  <2>1. FailedRow(row) \in Row
    BY <1>1, UnlockedRow DEF Row, FailedRow, States
  <2>2. /\ FailedRow(row).lease = "none" /\ FailedRow(row).lockedBy = NoWorker
        /\ FailedRow(row).attempts = row.attempts
        /\ FailedRow(row).state =
              IF row.attempts >= MaxAttempts THEN "dead" ELSE "ready"
    BY <1>1, UnlockedRow DEF Row, FailedRow
  <2>3. QED BY <1>1, <2>1, <2>2, RowAssumption DEF RowOK, Row
<1>4. RowOK(ReleasedRow(row))
  <2>1. row.attempts - 1 \in 0..MaxAttempts /\ row.attempts - 1 # MaxAttempts
    BY <1>1, <1>2, RowAssumption DEF Row
  <2>2. ReleasedRow(row) \in Row
    BY <1>1, <2>1, UnlockedRow DEF Row, ReleasedRow
  <2>3. /\ ReleasedRow(row).lease = "none" /\ ReleasedRow(row).lockedBy = NoWorker
        /\ ReleasedRow(row).attempts = row.attempts - 1
        /\ ReleasedRow(row).state = "ready"
    BY <1>1, <1>2, UnlockedRow DEF Row, ReleasedRow
  <2>4. QED BY <2>1, <2>2, <2>3 DEF RowOK
<1>5. RowOK([row EXCEPT !.lease = "live"])
  BY <1>1, <1>2 DEF RowOK, Row, Leases
<1>6. QED BY <1>3, <1>4, <1>5

\* What buryExhausted and retryDead do to the rows they pick leaves them in
\* order.
LEMMA BuriedRevivedOK ==
    ASSUME NEW row, RowOK(row)
    PROVE  /\ Exhausted(row) => RowOK(BuriedRow(row))
           /\ row.state = "dead" => RowOK(RevivedRow(row))
<1>1. row \in Row
  BY DEF RowOK
<1>2. ASSUME Exhausted(row) PROVE RowOK(BuriedRow(row))
  <2>1. BuriedRow(row) \in Row
    BY <1>1, UnlockedRow DEF Row, BuriedRow, States
  <2>2. /\ BuriedRow(row).lease = "none" /\ BuriedRow(row).lockedBy = NoWorker
        /\ BuriedRow(row).attempts = row.attempts /\ BuriedRow(row).state = "dead"
    BY <1>1, UnlockedRow DEF Row, BuriedRow
  <2>3. row.attempts = MaxAttempts
    BY <1>1, <1>2, RowAssumption DEF Exhausted, Row
  <2>4. QED BY <2>1, <2>2, <2>3 DEF RowOK
<1>3. ASSUME row.state = "dead" PROVE RowOK(RevivedRow(row))
  <2>1. row.lease = "none" /\ row.lockedBy = NoWorker
    BY <1>3 DEF RowOK
  <2>2. RevivedRow(row) \in Row
    <3>1. 0 \in 0..MaxAttempts
      BY RowAssumption
    <3>2. QED BY <1>1, <3>1 DEF Row, RevivedRow, States
  <2>3. /\ RevivedRow(row).lease = "none" /\ RevivedRow(row).lockedBy = NoWorker
        /\ RevivedRow(row).attempts = 0 /\ RevivedRow(row).state = "ready"
    BY <1>1, <2>1 DEF Row, RevivedRow
  <2>4. QED BY <2>2, <2>3, RowAssumption DEF RowOK
<1>4. QED BY <1>2, <1>3

\* What the commit of an enqueue and the passing of time do leaves a row in
\* order.
LEMMA TouchedOK ==
    ASSUME NEW row, RowOK(row)
    PROVE  /\ \A p \in Priorities : RowOK(Raised(row, p))
           /\ row.state = "pending" => RowOK([row EXCEPT !.state = "ready"])
           /\ RowOK([row EXCEPT !.due = TRUE])
           /\ row.lease = "live" => RowOK([row EXCEPT !.lease = "lapsed"])
<1>1. row \in Row
  BY DEF RowOK
<1>2. \A p \in Priorities : RowOK(Raised(row, p))
  BY <1>1 DEF RowOK, Row, Raised
<1>3. ASSUME row.state = "pending"
      PROVE  RowOK([row EXCEPT !.state = "ready"])
  BY <1>1, <1>3, RowAssumption DEF RowOK, Row, States
<1>4. RowOK([row EXCEPT !.due = TRUE])
  BY <1>1 DEF RowOK, Row
<1>5. ASSUME row.lease = "live" PROVE RowOK([row EXCEPT !.lease = "lapsed"])
  BY <1>1, <1>5 DEF RowOK, Row, Leases
<1>6. QED BY <1>2, <1>3, <1>4, <1>5

-----------------------------------------------------------------------------
(* The table *)

TableOK == \A j \in Jobs : RowOK(job[j])

RowInv == TypeOK /\ TableOK

\* The two invariants the runs check are RowOK of every row.
LEMMA RowInvGives == RowInv => ExhaustedIsLeased /\ LeaseHasOwner
BY DEF RowInv, TableOK, RowOK, ExhaustedIsLeased, LeaseHasOwner

\* An action that changes one row, and that to one in order, keeps the table.
LEMMA OneRow ==
    ASSUME RowInv, NEW j, NEW row, j \in Jobs => RowOK(row),
           job' = [job EXCEPT ![j] = row]
    PROVE  job' \in [Jobs -> Row] /\ TableOK'
BY DEF RowInv, TypeOK, TableOK, RowOK

\* So does one that maps every row to one in order.
LEMMA EachRow ==
    ASSUME NEW f, job' = [j \in Jobs |-> f[j]], \A j \in Jobs : RowOK(f[j])
    PROVE  job' \in [Jobs -> Row] /\ TableOK'
BY DEF TableOK, RowOK

\* complete, fail and release: where the row is `mine' it comes out in order.
LEMMA SettleKeeps ==
    ASSUME RowInv, NEW l \in Lane, NEW to, Settle(l, to),
           /\ run[l].job \in Jobs
           /\ Mine(job[run[l].job], l[1])
           => RowOK(to)
    PROVE  job' \in [Jobs -> Row] /\ TableOK'
<1> DEFINE j == run[l].job
           row == IF Mine(job[j], l[1]) THEN to ELSE job[j]
<1>1. job' = [job EXCEPT ![j] = row]
  BY DEF Settle
<1>2. j \in Jobs => RowOK(row)
  BY DEF RowInv, TableOK
<1>3. QED BY <1>1, <1>2, OneRow

\* The init state is in order.
LEMMA RowInvInit == Init => RowInv
<1> SUFFICES ASSUME Init PROVE RowInv
  OBVIOUS
<1>1. TableOK
  BY BlankRowOK DEF Init, TableOK
<1>2. TypeOK
  BY BlankRowOK DEF Init, TypeOK, RowOK, Phases, Idle, Runs
<1>3. QED BY <1>1, <1>2 DEF RowInv

\* enqueue, in a transaction or not.
LEMMA EnqueueKeeps == RowInv /\ EnqueueStep => RowInv'
<1> SUFFICES ASSUME RowInv, EnqueueStep PROVE RowInv'
  OBVIOUS
<1> USE DEF RowInv, TypeOK, Phases
<1>1. ASSUME NEW r \in Requests, NEW ask \in Asks, NoStandIn(r, ask)
      PROVE  RowInv'
  BY <1>1 DEF NoStandIn, SetReq, TableOK
<1>2. ASSUME NEW r \in Requests, NEW ask \in Asks, NEW tx \in BOOLEAN,
             NEW j \in Jobs, StandIn(r, ask, tx, j)
      PROVE  RowInv'
  <2>1. RowOK(job[j]) /\ RowOK(Raised(job[j], ask.priority))
    BY TouchedOK, StoreAssumption DEF TableOK
  <2>2. job' \in [Jobs -> Row] /\ TableOK'
    BY <1>2, <2>1, OneRow DEF StandIn, TableOK
  <2>3. QED BY <1>2, <2>2 DEF StandIn, SetReq
<1>3. ASSUME NEW r \in Requests, NEW ask \in Asks, NEW tx \in BOOLEAN,
             NEW j \in Jobs, Insert(r, ask, tx, j)
      PROVE  RowInv'
  <2>1. RowOK(NewRow(ask.kind, ask.priority, ask.delayed,
                     IF tx THEN "pending" ELSE "ready"))
    BY NewRowOK, StoreAssumption
  <2>2. job' \in [Jobs -> Row] /\ TableOK'
    BY <1>3, <2>1, OneRow DEF Insert
  <2>3. QED BY <1>3, <2>2 DEF Insert, SetReq
<1>4. ASSUME NEW r \in Requests, Commit(r)
      PROVE  RowInv'
  <2> DEFINE j == req[r].job
             row == IF job[j].state = "pending" THEN [job[j] EXCEPT !.state = "ready"]
                                                ELSE Raised(job[j], req[r].ask.priority)
  <2>1. j \in Jobs /\ req[r].ask \in Asks
    BY <1>4 DEF Commit
  <2>2. RowOK(row)
    BY <2>1, TouchedOK, StoreAssumption DEF TableOK
  <2>3. job' = [job EXCEPT ![j] = row]
    BY <1>4 DEF Commit
  <2>4. job' \in [Jobs -> Row] /\ TableOK'
    BY <2>2, <2>3, OneRow
  <2>5. QED BY <1>4, <2>1, <2>4 DEF Commit
<1>5. ASSUME NEW r \in Requests, Rollback(r)
      PROVE  RowInv'
  <2> DEFINE f == [j \in Jobs |->
                     IF req[r].job = j /\ job[j].state = "pending"
                     THEN Deleted ELSE job[j]]
  <2>1. \A j \in Jobs : RowOK(f[j])
    BY BlankRowOK DEF TableOK
  <2>2. job' = [j \in Jobs |-> f[j]]
    BY <1>5 DEF Rollback
  <2>3. job' \in [Jobs -> Row] /\ TableOK'
    BY <2>1, <2>2, EachRow
  <2>4. QED BY <1>5, <2>3 DEF Rollback
<1>6. QED BY <1>1, <1>2, <1>3, <1>4, <1>5 DEF EnqueueStep

RunsOK ==
    /\ run \in [Lane -> Runs]
    /\ \A l \in Lane : run[l].phase # "idle" => run[l].job \in Jobs

\* A step of one lane keeps the type of them all.
LEMMA OneLane ==
    ASSUME RunsOK, NEW l, NEW r, l \in Lane => r \in Runs,
           r.phase # "idle" => r.job \in Jobs,
           run' = [run EXCEPT ![l] = r]
    PROVE  RunsOK'
BY DEF RunsOK

\* A handler that has ended, or let go, is a run of the same job.
LEMMA HandlerMoved ==
    ASSUME NEW r \in Runs, NEW holding \in BOOLEAN,
           NEW phase \in {"returned", "threw", "interrupted"}
    PROVE  /\ [r EXCEPT !.holding = holding] \in Runs
           /\ [r EXCEPT !.holding = holding].phase = r.phase
           /\ [r EXCEPT !.holding = holding].job = r.job
           /\ [r EXCEPT !.phase = phase] \in Runs
           /\ [r EXCEPT !.phase = phase].job = r.job
BY DEF Runs

\* What a process, a lane, an admin or the clock does.
LEMMA ProcessKeeps ==
    ASSUME RowInv, NEW w \in Workers, ProcessStep(w) PROVE RowInv'
<1> USE DEF RowInv, TypeOK
<1>1. CASE Start(w) \/ Stop(w) \/ Exit(w)
  BY <1>1 DEF Start, Stop, Exit, TableOK
<1>2. CASE Crash(w)
  BY <1>2 DEF Crash, TableOK, Idle, Runs
<1>3. CASE Bury(w)
  <2> DEFINE f == [j \in Jobs |->
                     IF Exhausted(job[j]) THEN BuriedRow(job[j]) ELSE job[j]]
  <2>1. \A j \in Jobs : RowOK(f[j])
    BY BuriedRevivedOK DEF TableOK
  <2>2. job' = [j \in Jobs |-> f[j]]
    BY <1>3 DEF Bury
  <2>3. job' \in [Jobs -> Row] /\ TableOK'
    BY <2>1, <2>2, EachRow
  <2>4. QED BY <1>3, <2>3 DEF Bury
<1>4. QED BY <1>1, <1>2, <1>3 DEF ProcessStep

\* A lane's claim, settlement and extension keep the invariant of the rows.
LEMMA LaneKeeps ==
    ASSUME RowInv, NEW l \in Lane, LaneStep(l) PROVE RowInv'
<1> USE DEF RowInv, TypeOK
<1>0. l[1] \in Workers
  BY DEF Lane
<1>1. ASSUME NEW j \in Jobs, Claim(l, j) \/ ClaimUnanswered(l, j) PROVE RowInv'
  <2>1. RowOK(Taken(job[j], l[1]))
    BY <1>0, <1>1, TakenOK DEF Claim, ClaimUnanswered, FirstToTake, TableOK
  <2>2. job' \in [Jobs -> Row] /\ TableOK'
    BY <1>1, <2>1, OneRow DEF Claim, ClaimUnanswered
  <2>3. taker' \in [Jobs -> Lane \cup {NoLane}]
    BY <1>1 DEF Claim, ClaimUnanswered
  <2>4. SeenBy(j) \in SUBSET Requests
    BY DEF SeenBy, Asked
  <2>5. CASE Claim(l, j)
    BY <2>2, <2>3, <2>4, <2>5 DEF Claim, Runs
  <2>6. CASE ClaimUnanswered(l, j)
    BY <2>2, <2>3, <2>6 DEF ClaimUnanswered
  <2>7. QED BY <1>1, <2>5, <2>6
<1>2. CASE Extend(l)
  <2> DEFINE j == run[l].job
  <2>1. Mine(job[j], l[1]) /\ job' = [job EXCEPT ![j].lease = "live"]
    BY <1>2 DEF Extend
  <2>2. job' = [job EXCEPT ![j] = [job[j] EXCEPT !.lease = "live"]]
    BY <2>1
  <2>3. j \in Jobs => RowOK([job[j] EXCEPT !.lease = "live"])
    BY <1>0, <2>1, SettledOK DEF TableOK
  <2>4. job' \in [Jobs -> Row] /\ TableOK'
    BY <2>2, <2>3, OneRow
  <2>5. QED BY <1>2, <2>4 DEF Extend
<1>3. CASE LetGo(l) \/ HandlerEnds(l)
  <2>1. TableOK' /\ UNCHANGED <<job, req, proc, taker, given>>
    BY <1>3 DEF LetGo, HandlerEnds, HandlerReturns, HandlerThrows,
                HandlerInterrupted, TableOK
  <2>2. served' \subseteq Requests
    BY <1>3 DEF LetGo, HandlerEnds, HandlerReturns, HandlerThrows,
                HandlerInterrupted, Runs
  <2>3. RunsOK'
    <3>0. RunsOK
      BY DEF RunsOK
    <3>1. CASE LetGo(l)
      <4> DEFINE r == [run[l] EXCEPT !.holding = FALSE]
      <4>1. run' = [run EXCEPT ![l] = r]
        BY <3>1 DEF LetGo
      <4>2. run[l] \in Runs /\ (run[l].phase # "idle" => run[l].job \in Jobs)
        BY DEF RunsOK
      <4>3. r \in Runs /\ (r.phase # "idle" => r.job \in Jobs)
        BY <4>2, HandlerMoved
      <4> HIDE DEF r
      <4>4. QED BY <4>1, <4>3, <3>0, OneLane
    <3>2. CASE HandlerEnds(l)
      <4>1. run[l].phase = "running"
        BY <3>2 DEF HandlerEnds, HandlerReturns, HandlerThrows, HandlerInterrupted
      <4>2. PICK phase \in {"returned", "threw", "interrupted"} :
               run' = [run EXCEPT ![l] = [@ EXCEPT !.phase = phase]]
        BY <3>2 DEF HandlerEnds, HandlerReturns, HandlerThrows, HandlerInterrupted
      <4> DEFINE r == [run[l] EXCEPT !.phase = phase]
      <4>3. run[l] \in Runs /\ run[l].job \in Jobs
        BY <4>1 DEF RunsOK
      <4>4. r \in Runs /\ r.job = run[l].job
        BY <4>3, HandlerMoved
      <4>5. run' = [run EXCEPT ![l] = r]
        BY <4>2
      <4> HIDE DEF r
      <4> QED BY <4>3, <4>4, <4>5, <3>0, OneLane
    <3>3. QED BY <1>3, <3>1, <3>2
  <2>4. QED BY <2>1, <2>2, <2>3 DEF RunsOK
<1>4. CASE SettleStep(l)
  <2>1. job' \in [Jobs -> Row] /\ TableOK'
    <3>1. CASE Complete(l) \/ DeleteUnknown(l)
      BY <3>1, SettleKeeps, BlankRowOK DEF Complete, DeleteUnknown
    <3>2. CASE CompleteErrs(l)
      <4>1. CASE Settle(l, Deleted)
        BY <4>1, SettleKeeps, BlankRowOK
      <4>2. CASE UNCHANGED job
        BY <4>2 DEF TableOK
      <4>3. QED BY <3>2, <4>1, <4>2 DEF CompleteErrs
    <3>3. CASE Fail(l)
      BY <1>0, <3>3, SettleKeeps, SettledOK DEF Fail, TableOK
    <3>4. CASE Release(l)
      BY <1>0, <3>4, SettleKeeps, SettledOK DEF Release, TableOK
    <3>5. CASE SettleErrs(l)
      BY <3>5 DEF SettleErrs, TableOK
    <3>6. QED BY <1>4, <3>1, <3>2, <3>3, <3>4, <3>5 DEF SettleStep
  <2>2. RunsOK'
    <3>1. CASE CompleteErrs(l)
      <4>1. run' = [run EXCEPT ![l] = [@ EXCEPT !.phase = "threw"]]
        BY <3>1 DEF CompleteErrs
      <4>2. run[l].phase = "returned"
        BY <3>1 DEF CompleteErrs
      <4> DEFINE r == [run[l] EXCEPT !.phase = "threw"]
      <4>3. RunsOK /\ run[l] \in Runs /\ run[l].job \in Jobs
        BY <4>2 DEF RunsOK
      <4>4. r \in Runs /\ r.job = run[l].job
        BY <4>3, HandlerMoved
      <4>5. run' = [run EXCEPT ![l] = r]
        BY <4>1
      <4> HIDE DEF r
      <4> QED BY <4>3, <4>4, <4>5, OneLane
    <3>2. CASE LeaveLane(l)
      BY <3>2, OneLane DEF LeaveLane, Idle, Runs, RunsOK
    <3>3. QED
      BY <1>4, <3>1, <3>2 DEF SettleStep, Complete, DeleteUnknown, Fail, Release,
                              SettleErrs
  <2>3. UNCHANGED <<req, proc, taker, served>>
    BY <1>4 DEF SettleStep, Complete, DeleteUnknown, CompleteErrs, Fail, Release,
                SettleErrs
  <2>4. given' \subseteq Requests
    BY <1>4 DEF SettleStep, Complete, DeleteUnknown, CompleteErrs, Fail, Release,
                SettleErrs, TakenSince, Unserved
  <2>5. QED BY <2>1, <2>2, <2>3, <2>4 DEF RunsOK
<1>5. QED BY <1>1, <1>2, <1>3, <1>4 DEF LaneStep

\* So do an admin's retry, removal and pruning of dead rows.
LEMMA AdminKeeps ==
    ASSUME RowInv, AdminStep PROVE RowInv'
<1> USE DEF RowInv, TypeOK
<1>1. ASSUME NEW j \in Jobs, RetryDead(j) PROVE RowInv'
  <2>1. RowOK(RevivedRow(job[j]))
    BY <1>1, BuriedRevivedOK DEF RetryDead, TableOK
  <2>2. job' \in [Jobs -> Row] /\ TableOK'
    BY <1>1, <2>1, OneRow DEF RetryDead
  <2>3. QED BY <1>1, <2>2 DEF RetryDead
<1>2. ASSUME NEW k \in Kinds, ReviveDead(k) PROVE RowInv'
  <2> DEFINE f == [j \in Jobs |->
                     IF job[j].state = "dead" /\ job[j].kind = k
                     THEN RevivedRow(job[j]) ELSE job[j]]
  <2>1. \A j \in Jobs : RowOK(f[j])
    BY BuriedRevivedOK DEF TableOK
  <2>2. job' = [j \in Jobs |-> f[j]]
    BY <1>2 DEF ReviveDead
  <2>3. job' \in [Jobs -> Row] /\ TableOK'
    BY <2>1, <2>2, EachRow
  <2>4. QED BY <1>2, <2>3 DEF ReviveDead
<1>3. ASSUME NEW gone \in SUBSET Jobs, RemoveDead(gone) PROVE RowInv'
  <2> DEFINE f == [j \in Jobs |-> IF j \in gone THEN Deleted ELSE job[j]]
  <2>1. \A j \in Jobs : RowOK(f[j])
    BY BlankRowOK DEF TableOK
  <2>2. job' = [j \in Jobs |-> f[j]]
    BY <1>3 DEF RemoveDead
  <2>3. job' \in [Jobs -> Row] /\ TableOK'
    BY <2>1, <2>2, EachRow
  <2>4. given' \subseteq Requests
    BY <1>3 DEF RemoveDead, Unserved
  <2>5. QED BY <1>3, <2>3, <2>4 DEF RemoveDead
<1>4. QED BY <1>1, <1>2, <1>3 DEF AdminStep, DeleteDead, PruneDead

\* And the passage of time: a delay that ends, a lease that runs out.
LEMMA TimeKeeps ==
    ASSUME RowInv, TimeStep PROVE RowInv'
<1> USE DEF RowInv, TypeOK
<1>1. PICK j \in Jobs : ComesDue(j) \/ Lapse(j)
  BY DEF TimeStep
<1>2. RowOK(job[j])
  BY DEF TableOK
<1>3. PICK row : RowOK(row) /\ job' = [job EXCEPT ![j] = row]
  <2>1. CASE ComesDue(j)
    BY <1>2, <2>1, TouchedOK DEF ComesDue
  <2>2. CASE Lapse(j)
    BY <1>2, <2>2, TouchedOK DEF Lapse
  <2>3. QED BY <1>1, <2>1, <2>2
<1>4. job' \in [Jobs -> Row] /\ TableOK'
  BY <1>3, OneRow
<1>5. QED BY <1>1, <1>4 DEF ComesDue, Lapse

\* The invariant of the rows is inductive.
LEMMA RowInvNext == RowInv /\ [Next]_vars => RowInv'
<1> SUFFICES ASSUME RowInv, [Next]_vars PROVE RowInv'
  OBVIOUS
<1>1. CASE UNCHANGED vars
  BY <1>1 DEF vars, RowInv, TypeOK, TableOK
<1>2. CASE Next
  BY <1>2, EnqueueKeeps, LaneKeeps, ProcessKeeps, AdminKeeps, TimeKeeps DEF Next
<1>3. QED BY <1>1, <1>2

\* Every variable keeps its type; in particular attempts never leaves
\* 0..MAX_ATTEMPTS, whatever claims, hand-backs and retries a row meets.
THEOREM TypeCorrect == Spec => []TypeOK
<1>1. RowInv => TypeOK
  BY DEF RowInv
<1>2. QED BY <1>1, RowInvInit, RowInvNext, PTL DEF Spec

\* No row is stranded: a ready row out of attempts is one buryExhausted finds in
\* the end, and a dead one has used its attempts and holds no lease.
THEOREM NoRowStranded == Spec => []ExhaustedIsLeased
<1>1. QED BY RowInvGives, RowInvInit, RowInvNext, PTL DEF Spec

\* A lease and its owner are set and cleared together, on ready, counted rows.
THEOREM LeasesOwned == Spec => []LeaseHasOwner
<1>1. QED BY RowInvGives, RowInvInit, RowInvNext, PTL DEF Spec

-----------------------------------------------------------------------------
(* Who may change a leased row *)

\* The owner a row names is the process whose lane took it last.
TakerInv ==
    \A j \in Jobs : job[j].lockedBy # NoWorker => taker[j][1] = job[j].lockedBy

\* A step leaves a row's owner and taker alone, or clears the owner, or is a
\* claim of that row, which sets both.
LEMMA OwnerMoves ==
    ASSUME RowInv, Next, NEW j \in Jobs
    PROVE  \/ job'[j].lockedBy = job[j].lockedBy /\ taker'[j] = taker[j]
           \/ job'[j].lockedBy = NoWorker
           \/ \E l \in Lane : /\ Claim(l, j) \/ ClaimUnanswered(l, j)
                             /\ job'[j].lockedBy = l[1] /\ taker'[j] = l
<1> DEFINE Goal == \/ job'[j].lockedBy = job[j].lockedBy /\ taker'[j] = taker[j]
                   \/ job'[j].lockedBy = NoWorker
                   \/ \E l \in Lane : /\ Claim(l, j) \/ ClaimUnanswered(l, j)
                                     /\ job'[j].lockedBy = l[1] /\ taker'[j] = l
<1> USE DEF RowInv, TypeOK, Row
<1>0. NoRow.lockedBy = NoWorker /\ Deleted.lockedBy = NoWorker
  BY DEF NoRow, Deleted
<1>1. CASE EnqueueStep
  <2>1. \A kind, priority, delayed, state :
           NewRow(kind, priority, delayed, state).lockedBy = NoWorker
    BY DEF NewRow, NoRow
  <2>2. taker' = taker
    <3>1. ASSUME NEW r \in Requests, NEW ask \in Asks, NEW tx \in BOOLEAN, NEW i \in Jobs,
                 NoStandIn(r, ask) \/ StandIn(r, ask, tx, i) \/ Insert(r, ask, tx, i)
          PROVE  taker' = taker
      BY <3>1 DEF NoStandIn, StandIn, Insert
    <3>2. ASSUME NEW r \in Requests, Commit(r) \/ Rollback(r) PROVE taker' = taker
      BY <3>2 DEF Commit, Rollback
    <3> QED BY <1>1, <3>1, <3>2 DEF EnqueueStep
  <2>3. \A row \in Row : \A p : Raised(row, p).lockedBy = row.lockedBy
    BY DEF Raised
  <2>4. job'[j].lockedBy \in {job[j].lockedBy, NoWorker}
    <3>1. ASSUME NEW r \in Requests, NEW ask \in Asks, NEW tx \in BOOLEAN, NEW i \in Jobs,
                 NoStandIn(r, ask) \/ StandIn(r, ask, tx, i) \/ Insert(r, ask, tx, i)
          PROVE  job'[j].lockedBy \in {job[j].lockedBy, NoWorker}
      <4>1. CASE job' = job
        BY <4>1
      <4>2. CASE job' = [job EXCEPT ![i] = Raised(@, ask.priority)]
        BY <2>3, <4>2
      <4>3. CASE Insert(r, ask, tx, i)
        BY <2>1, <4>3 DEF Insert
      <4>4. QED BY <3>1, <4>1, <4>2, <4>3 DEF NoStandIn, StandIn
    <3>2. ASSUME NEW r \in Requests, Commit(r)
          PROVE  job'[j].lockedBy \in {job[j].lockedBy, NoWorker}
      BY <2>3, <3>2 DEF Commit
    <3>3. ASSUME NEW r \in Requests, Rollback(r)
          PROVE  job'[j].lockedBy \in {job[j].lockedBy, NoWorker}
      BY <1>0, <3>3 DEF Rollback
    <3>4. PICK r \in Requests :
             \/ \E ask \in Asks :
                   \/ NoStandIn(r, ask)
                   \/ \E tx \in BOOLEAN : \E i \in Jobs :
                         StandIn(r, ask, tx, i) \/ Insert(r, ask, tx, i)
             \/ Commit(r)
             \/ Rollback(r)
      BY <1>1 DEF EnqueueStep
    <3>5. ASSUME NEW ask \in Asks, NoStandIn(r, ask)
          PROVE  job'[j].lockedBy \in {job[j].lockedBy, NoWorker}
      BY <3>5 DEF NoStandIn
    <3>6. QED BY <3>1, <3>2, <3>3, <3>4, <3>5
  <2>5. QED BY <2>2, <2>4
<1>2. ASSUME NEW l \in Lane, LaneStep(l) PROVE Goal
  <2>1. CASE \E i \in Jobs : Claim(l, i) \/ ClaimUnanswered(l, i)
    <3>1. PICK i \in Jobs : Claim(l, i) \/ ClaimUnanswered(l, i)
      BY <2>1
    <3>2. job' = [job EXCEPT ![i] = Taken(@, l[1])] /\ taker' = [taker EXCEPT ![i] = l]
      BY <3>1 DEF Claim, ClaimUnanswered
    <3>3. Taken(job[i], l[1]).lockedBy = l[1]
      BY DEF Taken
    <3>4. CASE i = j
      BY <3>1, <3>2, <3>3, <3>4
    <3>5. CASE i # j
      BY <3>2, <3>5
    <3>6. QED BY <3>4, <3>5
  <2>2. CASE Extend(l)
    BY <2>2 DEF Extend
  <2>3. CASE LetGo(l) \/ HandlerEnds(l)
    BY <2>3 DEF LetGo, HandlerEnds, HandlerReturns, HandlerThrows, HandlerInterrupted
  <2>4. CASE SettleStep(l)
    <3>1. /\ FailedRow(job[run[l].job]).lockedBy = NoWorker
          /\ ReleasedRow(job[run[l].job]).lockedBy = NoWorker
       BY DEF FailedRow, ReleasedRow, Unlocked
    <3>2. taker' = taker
      BY <2>4 DEF SettleStep, Complete, DeleteUnknown, CompleteErrs, Fail, Release,
                  SettleErrs
    <3>3. job'[j].lockedBy \in {job[j].lockedBy, NoWorker}
      BY <1>0, <2>4, <3>1 DEF SettleStep, Complete, DeleteUnknown, CompleteErrs, Fail,
                  Release, SettleErrs, Settle
    <3>4. QED BY <3>2, <3>3
  <2>5. QED BY <1>2, <2>1, <2>2, <2>3, <2>4 DEF LaneStep
<1>3. ASSUME NEW w \in Workers, ProcessStep(w) PROVE Goal
  <2>1. BuriedRow(job[j]).lockedBy = NoWorker
    BY DEF BuriedRow, Unlocked
  <2>2. QED BY <1>3, <2>1 DEF ProcessStep, Start, Stop, Exit, Crash, Bury
<1>4. CASE AdminStep
  <2>1. RevivedRow(job[j]).lockedBy = job[j].lockedBy
    BY DEF RevivedRow
  <2>2. ASSUME NEW i \in Jobs, RetryDead(i) PROVE Goal
    BY <2>1, <2>2 DEF RetryDead
  <2>3. ASSUME NEW k \in Kinds, ReviveDead(k) PROVE Goal
    BY <2>1, <2>3 DEF ReviveDead
  <2>4. ASSUME NEW gone, RemoveDead(gone) PROVE Goal
    BY <1>0, <2>4 DEF RemoveDead
  <2>5. QED BY <1>4, <2>2, <2>3, <2>4 DEF AdminStep, DeleteDead, PruneDead
<1>5. CASE TimeStep
  BY <1>5 DEF TimeStep, ComesDue, Lapse
<1>6. QED BY <1>1, <1>2, <1>3, <1>4, <1>5 DEF Next

\* So is who took a row last, given the invariant of the rows.
LEMMA TakerInvNext == RowInv /\ TakerInv /\ [Next]_vars => TakerInv'
<1> SUFFICES ASSUME RowInv, TakerInv, [Next]_vars PROVE TakerInv'
  OBVIOUS
<1>1. CASE UNCHANGED vars
  BY <1>1 DEF vars, TakerInv
<1>2. CASE Next
  BY <1>2, OwnerMoves DEF TakerInv
<1>3. QED BY <1>1, <1>2

\* What settles a run, or extends its lease, changes a row only if the process
\* of that run is the one that took it last: a process displaced by another
\* one changes nothing.
THEOREM DisplacedHarmless == Spec => DisplacedCannotSettle
<1>1. Init => TakerInv
  BY DEF Init, TakerInv, NoRow
<1>2. ASSUME RowInv, TakerInv, NEW l \in Lane, NEW j \in Jobs,
             SettleStep(l) \/ Extend(l), job'[j] # job[j]
      PROVE  taker[j][1] = l[1]
  <2>1. j = run[l].job /\ Mine(job[j], l[1])
    BY <1>2 DEF RowInv, TypeOK, SettleStep, Complete, DeleteUnknown, CompleteErrs, Fail,
                Release, SettleErrs, Settle, Extend
  <2>2. l[1] # NoWorker
    BY RowAssumption DEF Lane
  <2>3. QED BY <1>2, <2>1, <2>2 DEF TakerInv, Mine
<1>3. RowInv /\ TakerInv /\ [Next]_vars
         => [\A l \in Lane : \A j \in Jobs :
               (SettleStep(l) \/ Extend(l)) /\ job'[j] # job[j]
                  => taker[j][1] = l[1]]_vars
  BY <1>2
<1>4. QED
  BY <1>1, <1>3, RowInvInit, RowInvNext, TakerInvNext, PTL
  DEF Spec, DisplacedCannotSettle
=============================================================================
