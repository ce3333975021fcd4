------------------------------- MODULE JobRow -------------------------------
(***************************************************************************)
(* One row of the job table (packages/db/src/schema/job.ts) and what each  *)
(* statement of PostgresJobQueue (packages/queue/src/postgres.ts) does to  *)
(* it.  There are no variables here: JobStore runs these statements from   *)
(* many worker processes, WorkerLanes from the loops of one.               *)
(*                                                                         *)
(* Time is kept as what the statements compare with now(): `due' stands    *)
(* for run_at <= now(), and `lease' for locked_until (null, ahead of now,  *)
(* or passed).                                                             *)
(***************************************************************************)
EXTENDS Naturals

CONSTANTS
    Workers,      \* worker processes, each start of one being a new member
    NoWorker,     \* locked_by null
    Kinds,        \* a job's type and payload, compared as a whole
    NoKind,       \* of a row not written yet
    MaxAttempts   \* MAX_ATTEMPTS

ASSUME RowAssumption ==
    /\ MaxAttempts \in Nat \ {0}
    /\ NoWorker \notin Workers
    /\ NoKind \notin Kinds

\* 'pending' is a row inserted by a transaction that is still open, 'gone' one
\* deleted or rolled back: a uuid names no second row.
States == {"unwritten", "pending", "ready", "dead", "gone"}

Leases == {"none", "live", "lapsed"}

\* Smaller is taken first, as the enum is declared.
Priorities == 1..3

Row ==
    [state    : States,
     kind     : Kinds \cup {NoKind},
     priority : Priorities,
     due      : BOOLEAN,
     attempts : 0..MaxAttempts,
     lease    : Leases,
     lockedBy : Workers \cup {NoWorker}]

NoRow ==
    [state |-> "unwritten", kind |-> NoKind, priority |-> 3, due |-> FALSE,
     attempts |-> 0, lease |-> "none", lockedBy |-> NoWorker]

Deleted == [NoRow EXCEPT !.state = "gone"]

NewRow(kind, priority, delayed, state) ==
    [NoRow EXCEPT !.state = state, !.kind = kind, !.priority = priority,
                  !.due = ~delayed]

\* Never leased, or leased by a worker that stopped answering.
Unleased(row) == row.lease # "live"

\* Mistake: claim() without its bound on attempts.
ClaimableForEver(row) == row.state = "ready" /\ row.due /\ Unleased(row)

\* What claim() selects from, before the order and SKIP LOCKED.
Claimable(row) ==
    /\ row.state = "ready"
    /\ row.due
    /\ row.attempts < MaxAttempts
    /\ Unleased(row)

\* Mistake: a job already taken stands in, its handler past the look.
StandsInRunning(row, kind, delayed) ==
    row.state = "ready" /\ row.kind = kind /\ (row.due \/ delayed)

\* Mistake: a job an hour out stands in for one wanted now.
StandsInLate(row, kind, delayed) ==
    row.state = "ready" /\ Unleased(row) /\ row.attempts = 0 /\ row.kind = kind

\* A waiting row that may stand in for a job of the same kind asked for now.
StandsIn(row, kind, delayed) ==
    /\ row.state = "ready"
    /\ Unleased(row)
    /\ row.attempts = 0
    /\ row.kind = kind
    /\ row.due \/ delayed

Raised(row, priority) ==
    [row EXCEPT !.priority = IF priority < @ THEN priority ELSE @]

\* Mistake: `mine' asks only that somebody holds the row.
MineOrTheirs(row, w) == row.lockedBy # NoWorker

Mine(row, w) == row.lockedBy = w

Taken(row, w) ==
    [row EXCEPT !.lease = "live", !.lockedBy = w, !.attempts = @ + 1]

Unlocked(row) == [row EXCEPT !.lease = "none", !.lockedBy = NoWorker]

\* Mistake: one attempt too many before a job is dead.
FailedRowLate(row) ==
    [Unlocked(row) EXCEPT
        !.state = IF row.attempts > MaxAttempts THEN "dead" ELSE "ready",
        !.due = FALSE]

FailedRow(row) ==
    [Unlocked(row) EXCEPT
        !.state = IF row.attempts >= MaxAttempts THEN "dead" ELSE "ready",
        !.due = FALSE]

ReleasedRow(row) ==
    [Unlocked(row) EXCEPT !.attempts = @ - 1, !.due = TRUE]

\* Mistake: rows with a null locked_until are compared as if they had lapsed,
\* and those that have are not.
ExhaustedUnleased(row) ==
    row.state = "ready" /\ row.attempts >= MaxAttempts /\ row.lease = "none"

\* A lease run out on the last attempt: nobody is left to fail the job.
Exhausted(row) ==
    /\ row.state = "ready"
    /\ row.attempts >= MaxAttempts
    /\ row.lease = "lapsed"

BuriedRow(row) == [Unlocked(row) EXCEPT !.state = "dead"]

RevivedRow(row) == [row EXCEPT !.state = "ready", !.attempts = 0, !.due = TRUE]
=============================================================================
