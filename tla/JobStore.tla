------------------------------ MODULE JobStore ------------------------------
(***************************************************************************)
(* The job queue (PostgresJobQueue) as the job table sees it: callers that *)
(* write jobs, in a transaction or not, and worker processes whose lanes   *)
(* take, run and settle them, lose their lease, stop or die.  One action   *)
(* is one statement of packages/queue/src/postgres.ts; between two of them *)
(* everybody else may move.                                                *)
(*                                                                         *)
(* When a lane looks for work is left open here (WorkerLanes models what   *)
(* makes it look); the worker's hourly pass makes every lane look in the   *)
(* end, which is the fairness assumed.                                     *)
(***************************************************************************)
EXTENDS JobRow, FiniteSets

CONSTANTS
    Jobs,         \* the ids of the rows
    NoJob,
    Lanes,        \* the loops of one process; |Lanes| is its concurrency
    Requests,     \* calls of enqueue
    Asks,         \* the jobs a call may ask for
    Handles,      \* Handles[w]: the kinds process w has a handler for
    Steady        \* processes that, once started, neither die nor stop

ASSUME StoreAssumption ==
    /\ NoJob \notin Jobs
    /\ Asks \subseteq [kind : Kinds, delayed : BOOLEAN, priority : Priorities]
    /\ Handles \in [Workers -> SUBSET Kinds]
    /\ Steady \subseteq Workers

VARIABLES
    job,      \* job[j]: row j of the table
    req,      \* req[r]: how far caller r has come, and what it asks for
    proc,     \* proc[w]: the process
    run,      \* run[l]: what lane l = <<w, n>> is doing
    taker,    \* history: the lane that last took row j
    served,   \* history: requests a handler that saw them has finished
    given     \* history: requests whose row an admin removed, or no handler knew

vars == <<job, req, proc, run, taker, served, given>>
table == <<job, taker>>

Lane == Workers \X Lanes
NoLane == <<NoWorker, NoWorker>>

Phases == {"idle", "inserting", "open", "asked", "void"}
Runs == [phase : {"idle", "running", "unknown", "returned", "threw", "interrupted"},
         job : Jobs \cup {NoJob}, seen : SUBSET Requests, holding : BOOLEAN]
Idle == [phase |-> "idle", job |-> NoJob, seen |-> {}, holding |-> FALSE]

Asked == {r \in Requests : req[r].phase = "asked"}
\* A row an open transaction has updated is locked until it ends.
LockedRow(j) ==
    \E r \in Requests : req[r].phase = "open" /\ req[r].job = j

TypeOK ==
    /\ job \in [Jobs -> Row]
    /\ req \in [Requests -> [phase : Phases, ask : Asks \cup {NoKind},
                             job : Jobs \cup {NoJob}]]
    /\ \A r \in Requests :
          /\ req[r].phase # "idle" => req[r].ask \in Asks
          /\ req[r].phase \in {"open", "asked"} => req[r].job \in Jobs
    /\ proc \in [Workers -> {"new", "up", "stopping", "down"}]
    /\ run \in [Lane -> Runs]
    /\ \A l \in Lane : run[l].phase # "idle" => run[l].job \in Jobs
    /\ taker \in [Jobs -> Lane \cup {NoLane}]
    /\ served \subseteq Requests
    /\ given \subseteq Requests

Init ==
    /\ job = [j \in Jobs |-> NoRow]
    /\ req = [r \in Requests |-> [phase |-> "idle", ask |-> NoKind, job |-> NoJob]]
    /\ proc = [w \in Workers |-> "new"]
    /\ run = [l \in Lane |-> Idle]
    /\ taker = [j \in Jobs |-> NoLane]
    /\ served = {}
    /\ given = {}

-----------------------------------------------------------------------------
(* Callers *)

SetReq(r, phase, ask, j) ==
    req' = [req EXCEPT ![r] = [phase |-> phase, ask |-> ask, job |-> j]]

\* enqueue, unlessWaiting: the UPDATE finds a row.  Outside a transaction that
\* is the whole call; inside one (tx) the row stays locked, and its new priority
\* unseen, until the commit.
StandIn(r, ask, tx, j) ==
    /\ req[r].phase = "idle"
    /\ StandsIn(job[j], ask.kind, ask.delayed)
    /\ ~LockedRow(j)
    /\ SetReq(r, IF tx THEN "open" ELSE "asked", ask, j)
    /\ job' = IF tx THEN job ELSE [job EXCEPT ![j] = Raised(@, ask.priority)]
    /\ UNCHANGED <<proc, run, taker, served, given>>

\* enqueue, unlessWaiting: the UPDATE finds none, and the INSERT is still to
\* come.  A delayed row may be due before or after a delayed caller's own time.
NoStandIn(r, ask) ==
    /\ req[r].phase = "idle"
    /\ \A j \in Jobs : StandsIn(job[j], ask.kind, FALSE) => LockedRow(j)
    /\ SetReq(r, "inserting", ask, NoJob)
    /\ UNCHANGED <<job, proc, run, taker, served, given>>

\* enqueueMany: the INSERT, after the look above or without one.
Insert(r, ask, tx, j) ==
    /\ \/ req[r].phase = "idle"
       \/ req[r].phase = "inserting" /\ ask = req[r].ask
    /\ job[j].state = "unwritten"
    /\ job' = [job EXCEPT ![j] =
                  NewRow(ask.kind, ask.priority, ask.delayed,
                         IF tx THEN "pending" ELSE "ready")]
    /\ SetReq(r, IF tx THEN "open" ELSE "asked", ask, j)
    /\ UNCHANGED <<proc, run, taker, served, given>>

\* The caller's transaction commits: what it wrote is seen, and unlocked.
Commit(r) ==
    /\ req[r].phase = "open"
    /\ job' = [job EXCEPT ![req[r].job] =
                  IF @.state = "pending" THEN [@ EXCEPT !.state = "ready"]
                                         ELSE Raised(@, req[r].ask.priority)]
    /\ req' = [req EXCEPT ![r].phase = "asked"]
    /\ UNCHANGED <<proc, run, taker, served, given>>

\* It rolls back, or the caller dies before its INSERT.
Rollback(r) ==
    /\ req[r].phase \in {"inserting", "open"}
    /\ job' = [j \in Jobs |->
                  IF req[r].job = j /\ job[j].state = "pending"
                  THEN Deleted ELSE job[j]]
    /\ req' = [req EXCEPT ![r].phase = "void"]
    /\ UNCHANGED <<proc, run, taker, served, given>>

-----------------------------------------------------------------------------
(* Worker processes *)

Start(w) ==
    /\ proc[w] = "new"
    /\ proc' = [proc EXCEPT ![w] = "up"]
    /\ UNCHANGED <<job, req, run, taker, served, given>>

\* stop(): no lane takes another job, and the process waits for those running.
Stop(w) ==
    /\ w \notin Steady
    /\ proc[w] = "up"
    /\ proc' = [proc EXCEPT ![w] = "stopping"]
    /\ UNCHANGED <<job, req, run, taker, served, given>>

Exit(w) ==
    /\ proc[w] = "stopping"
    /\ \A n \in Lanes : run[<<w, n>>] = Idle
    /\ proc' = [proc EXCEPT ![w] = "down"]
    /\ UNCHANGED <<job, req, run, taker, served, given>>

\* The process dies; the rows it leased stay leased.
Crash(w) ==
    /\ w \notin Steady
    /\ proc[w] \in {"up", "stopping"}
    /\ proc' = [proc EXCEPT ![w] = "down"]
    /\ run' = [l \in Lane |-> IF l[1] = w THEN Idle ELSE run[l]]
    /\ UNCHANGED <<job, req, taker, served, given>>

\* The first in priority of the rows claim() may take; run_at and id, which
\* settle ties, are left open.
FirstToTake(j) ==
    /\ Claimable(job[j]) /\ ~LockedRow(j)
    /\ \A i \in Jobs :
          Claimable(job[i]) /\ ~LockedRow(i) => job[j].priority <= job[i].priority

\* A handler sees what was committed before its job was taken.
SeenBy(j) == {r \in Asked : req[r].ask.kind = job[j].kind}

Claim(l, j) ==
    /\ proc[l[1]] = "up"
    /\ run[l].phase = "idle"
    /\ FirstToTake(j)
    /\ job' = [job EXCEPT ![j] = Taken(@, l[1])]
    /\ taker' = [taker EXCEPT ![j] = l]
    /\ run' = [run EXCEPT ![l] =
          IF job[j].kind \in Handles[l[1]]
          THEN [phase |-> "running", job |-> j, seen |-> SeenBy(j), holding |-> TRUE]
          ELSE [phase |-> "unknown", job |-> j, seen |-> {}, holding |-> FALSE]]
    /\ UNCHANGED <<req, proc, served, given>>

\* The claim is committed and its answer lost: the row is leased to a process
\* that does not know it.
ClaimUnanswered(l, j) ==
    /\ proc[l[1]] = "up"
    /\ run[l].phase = "idle"
    /\ FirstToTake(j)
    /\ job' = [job EXCEPT ![j] = Taken(@, l[1])]
    /\ taker' = [taker EXCEPT ![j] = l]
    /\ UNCHANGED <<req, proc, run, served, given>>

\* The interval of hold(): whoever the row is leased to, even when the lease has
\* passed, holds it again.
Extend(l) ==
    /\ run[l].holding
    /\ LET j == run[l].job IN
       /\ Mine(job[j], l[1])
       /\ job' = [job EXCEPT ![j].lease = "live"]
    /\ UNCHANGED <<req, proc, run, taker, served, given>>

\* Mistake: the lease of a handler that hangs is held for ever.
LetGoNever(l) == run[l].holding /\ UNCHANGED vars

\* MAX_HOLD_MS: a handler that hangs is no longer held for.
LetGo(l) ==
    /\ run[l].holding
    /\ run' = [run EXCEPT ![l].holding = FALSE]
    /\ UNCHANGED <<job, req, proc, taker, served, given>>

HandlerReturns(l) ==
    /\ run[l].phase = "running"
    /\ run' = [run EXCEPT ![l].phase = "returned"]
    /\ served' = served \cup run[l].seen
    /\ UNCHANGED <<job, req, proc, taker, given>>

HandlerThrows(l) ==
    /\ run[l].phase = "running"
    /\ run' = [run EXCEPT ![l].phase = "threw"]
    /\ UNCHANGED <<job, req, proc, taker, served, given>>

\* JobInterruptedError, heard only while the process is stopping.
HandlerInterrupted(l) ==
    /\ run[l].phase = "running"
    /\ proc[l[1]] = "stopping"
    /\ run' = [run EXCEPT ![l].phase = "interrupted"]
    /\ UNCHANGED <<job, req, proc, taker, served, given>>

\* complete, fail and release change the row only where it is `mine'.
Settle(l, to) ==
    LET j == run[l].job IN
    job' = [job EXCEPT ![j] = IF Mine(@, l[1]) THEN to ELSE @]

LeaveLane(l) == run' = [run EXCEPT ![l] = Idle]

Unserved(j) == {r \in Requests : req[r].job = j /\ r \notin served}

\* The owner of a lease is the process: the row may be one that another of its
\* loops has taken since, and may have been asked for since.
TakenSince(l) ==
    LET j == run[l].job IN
    IF job[j].lockedBy = l[1] /\ taker[j] # l THEN Unserved(j) ELSE {}

Complete(l) ==
    /\ run[l].phase = "returned"
    /\ Settle(l, Deleted)
    /\ given' = given \cup TakenSince(l)
    /\ LeaveLane(l)
    /\ UNCHANGED <<req, proc, taker, served>>

\* run(), no handler for the type: the row is deleted unworked.
DeleteUnknown(l) ==
    /\ run[l].phase = "unknown"
    /\ Settle(l, Deleted)
    /\ given' = IF Mine(job[run[l].job], l[1])
                THEN given \cup Unserved(run[l].job) ELSE given
    /\ LeaveLane(l)
    /\ UNCHANGED <<req, proc, taker, served>>

\* complete throws inside run()'s try, the DELETE done or not: fail follows.
CompleteErrs(l) ==
    /\ run[l].phase = "returned"
    /\ \/ Settle(l, Deleted) /\ given' = given \cup TakenSince(l)
       \/ UNCHANGED <<job, given>>
    /\ run' = [run EXCEPT ![l].phase = "threw"]
    /\ UNCHANGED <<req, proc, taker, served>>

Fail(l) ==
    /\ run[l].phase = "threw"
    /\ Settle(l, FailedRow(job[run[l].job]))
    /\ LeaveLane(l)
    /\ UNCHANGED <<req, proc, taker, served, given>>

Release(l) ==
    /\ run[l].phase = "interrupted"
    /\ Settle(l, ReleasedRow(job[run[l].job]))
    /\ LeaveLane(l)
    /\ UNCHANGED <<req, proc, taker, served, given>>

\* The settling statement throws out of run(): the row stays leased.
SettleErrs(l) ==
    /\ run[l].phase \in {"unknown", "threw", "interrupted"}
    /\ LeaveLane(l)
    /\ UNCHANGED <<job, req, proc, taker, served, given>>

\* buryExhausted, by a process that wakes from idle.
Bury(w) ==
    /\ proc[w] = "up"
    /\ \A n \in Lanes : run[<<w, n>>] = Idle
    /\ \E j \in Jobs : Exhausted(job[j])
    /\ job' = [j \in Jobs |->
                  IF Exhausted(job[j]) THEN BuriedRow(job[j]) ELSE job[j]]
    /\ UNCHANGED <<req, proc, run, taker, served, given>>

-----------------------------------------------------------------------------
(* The admin screen, the hourly prune, and time *)

RetryDead(j) ==
    /\ job[j].state = "dead"
    /\ job' = [job EXCEPT ![j] = RevivedRow(@)]
    /\ UNCHANGED <<req, proc, run, taker, served, given>>

\* Every dead job of a kind, in one statement.
ReviveDead(kind) ==
    /\ \E j \in Jobs : job[j].state = "dead" /\ job[j].kind = kind
    /\ job' = [j \in Jobs |->
                  IF job[j].state = "dead" /\ job[j].kind = kind
                  THEN RevivedRow(job[j]) ELSE job[j]]
    /\ UNCHANGED <<req, proc, run, taker, served, given>>

\* deleteDead takes one row, pruneDead those dead for long.
RemoveDead(gone) ==
    /\ gone # {}
    /\ \A j \in gone : job[j].state = "dead"
    /\ job' = [j \in Jobs |-> IF j \in gone THEN Deleted ELSE job[j]]
    /\ given' = given \cup UNION {Unserved(j) : j \in gone}
    /\ UNCHANGED <<req, proc, run, taker, served>>

DeleteDead(j) == RemoveDead({j})
PruneDead == \E gone \in SUBSET Jobs : RemoveDead(gone)

ComesDue(j) ==
    /\ job[j].state = "ready" /\ ~job[j].due
    /\ job' = [job EXCEPT ![j].due = TRUE]
    /\ UNCHANGED <<req, proc, run, taker, served, given>>

\* Its holder did not extend the lease in time.
Lapse(j) ==
    /\ job[j].lease = "live"
    /\ job' = [job EXCEPT ![j].lease = "lapsed"]
    /\ UNCHANGED <<req, proc, run, taker, served, given>>

-----------------------------------------------------------------------------
EnqueueStep ==
    \E r \in Requests :
       \/ \E ask \in Asks :
             \/ NoStandIn(r, ask)
             \/ \E tx \in BOOLEAN : \E j \in Jobs :
                   StandIn(r, ask, tx, j) \/ Insert(r, ask, tx, j)
       \/ Commit(r)
       \/ Rollback(r)

SettleStep(l) ==
    Complete(l) \/ DeleteUnknown(l) \/ CompleteErrs(l) \/ Fail(l) \/ Release(l)
       \/ SettleErrs(l)

HandlerEnds(l) == HandlerReturns(l) \/ HandlerThrows(l) \/ HandlerInterrupted(l)

LaneStep(l) ==
    \/ \E j \in Jobs : Claim(l, j) \/ ClaimUnanswered(l, j)
    \/ Extend(l)
    \/ LetGo(l)
    \/ HandlerEnds(l)
    \/ SettleStep(l)

ProcessStep(w) == Start(w) \/ Stop(w) \/ Exit(w) \/ Crash(w) \/ Bury(w)

AdminStep ==
    \/ \E j \in Jobs : RetryDead(j) \/ DeleteDead(j)
    \/ \E k \in Kinds : ReviveDead(k)
    \/ PruneDead

TimeStep == \E j \in Jobs : ComesDue(j) \/ Lapse(j)

Next ==
    \/ EnqueueStep
    \/ \E l \in Lane : LaneStep(l)
    \/ \E w \in Workers : ProcessStep(w)
    \/ AdminStep
    \/ TimeStep

Spec == Init /\ [][Next]_vars

\* Nobody extends the lease of the row.
Abandoned(j) ==
    ~\E l \in Lane : run[l].holding /\ run[l].job = j /\ Mine(job[j], l[1])

\* Transactions end; time passes; the timer of a hung handler's lease runs; and
\* a steady process starts, looks for work (at least once an hour, and as it
\* frees a lane), ends its handlers and settles them.  A job it may take again
\* and again is taken: run_at orders jobs of one priority, and one retried goes
\* behind those that wait.  Every wake from idle buries, before it claims.
Fairness ==
    /\ \A r \in Requests : WF_vars(Commit(r) \/ Rollback(r))
    /\ \A j \in Jobs : WF_vars(ComesDue(j)) /\ WF_vars(Abandoned(j) /\ Lapse(j))
    /\ \A l \in Lane : WF_vars(LetGo(l))
    /\ \A w \in Steady :
          /\ WF_vars(Start(w))
          /\ SF_vars(Bury(w))
          /\ \A n \in Lanes :
                /\ \A j \in Jobs : SF_vars(Claim(<<w, n>>, j))
                /\ WF_vars(HandlerEnds(<<w, n>>))
                /\ WF_vars(SettleStep(<<w, n>>))

FairSpec == Spec /\ Fairness

-----------------------------------------------------------------------------
(* Properties *)

\* A ready row out of attempts is still leased: claim() passes it over for good,
\* and buryExhausted, the only way out for it, compares locked_until, which a
\* null would never satisfy.  And only such a row is dead (fail,
\* buryExhausted, release, retryDead).
ExhaustedIsLeased ==
    \A j \in Jobs :
       /\ job[j].state = "ready" /\ job[j].attempts = MaxAttempts
             => job[j].lease # "none"
       /\ job[j].state = "dead"
             => job[j].attempts = MaxAttempts /\ job[j].lease = "none"

\* locked_by and locked_until are set and cleared together, on rows that are
\* ready and counted: else release would count below zero, or a row with no
\* lease would answer to `mine' (claim, fail, release, buryExhausted).
LeaseHasOwner ==
    \A j \in Jobs :
       /\ job[j].lease = "none" <=> job[j].lockedBy = NoWorker
       /\ job[j].lease # "none" => job[j].state = "ready" /\ job[j].attempts > 0

\* Work asked for is not lost: until a handler that started after the request
\* was committed has finished it, the row it was given stands, ready or dead,
\* unless an admin removed it dead or a process with no handler deleted it.
\* Broken by a stand-in already taken, by a row taken before the caller's
\* commit, or by the settling of a run whose job another worker has taken over.
NoLostWork ==
    \A r \in Asked :
       \/ r \in served \cup given
       \/ job[req[r].job].state \in {"ready", "dead"}

\* A caller who waits is not left behind: the row that stands for its request
\* is as urgent as it asked, and not held back to a later time unless it
\* failed (enqueue: the priority raised, the run_at compared).
StandInAsWanted ==
    \A r \in Asked :
       LET row == job[req[r].job] ask == req[r].ask IN
       row.state \in {"ready", "dead"}
          => /\ row.priority <= ask.priority
             /\ row.attempts = 0 /\ row.state = "ready" /\ ~ask.delayed => row.due

\* A process that lost its lease to another changes the row no more: what ends
\* a run, or extends its lease, leaves alone a row last taken by another
\* process (mine, postgres.ts:217).
DisplacedCannotSettle ==
    [][\A l \in Lane : \A j \in Jobs :
          (SettleStep(l) \/ Extend(l)) /\ job'[j] # job[j] => taker[j][1] = l[1]]_vars

\* With one process that stays up, every request is finished, or its job is
\* dead for an admin to see: whatever the other processes do, dying, hanging on
\* a job or stopping.
WorkEnds ==
    \A r \in Requests :
       req[r].phase = "asked"
          ~> \/ r \in served \cup given
             \/ \E j \in Jobs : req[r].job = j /\ job[j].state = "dead"

\* What a caller sees of the table.  "lost" is no fate the queue promises.
Fate(r) ==
    IF req[r].phase # "asked" THEN "unasked"
    ELSE IF r \in served THEN "done"
    ELSE IF r \in given THEN "given"
    ELSE LET state == job[req[r].job].state IN
         CASE state = "ready" -> "owed"
           [] state = "dead"  -> "dead"
           [] OTHER           -> "lost"

Promise == INSTANCE JobPromise WITH fate <- [r \in Requests |-> Fate(r)]

\* The table keeps the promise: every step of it is a step of JobPromise or
\* none.  Beyond NoLostWork: what is done stays done, a dead job comes back
\* only by an admin's retry, and nothing else moves a request.
KeepsPromise == Promise!Spec

=============================================================================
