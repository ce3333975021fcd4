----------------------------- MODULE WorkerLanes -----------------------------
(***************************************************************************)
(* The loops of one worker process (PostgresJobQueue: requestPass, lane,   *)
(* armForNextDue, arm, passFailed, stop), what wakes them, and when they   *)
(* wake themselves.  The process runs JavaScript: what lies between two    *)
(* awaits is one step.  Statements are those of JobRow.                    *)
(*                                                                         *)
(* Times are counted down: run_at, locked_until, the timer and the backoff *)
(* are ticks from now.  A row is also taken, extended and completed by     *)
(* another worker; that one's retries are its own timer's business.        *)
(***************************************************************************)
EXTENDS JobRow, FiniteSets, FiniteSetsExt

CONSTANTS
    me, other,    \* this process, and another
    Jobs, NoJob,
    Lanes,        \* the loops; |Lanes| is the concurrency
    LeaseTicks,   \* LEASE_S
    RetryTicks,   \* RETRY_DELAY_S
    BackoffTicks, \* DRAIN_RETRY_MS
    Delays,       \* of the jobs that are written
    Faults,       \* statements that may fail: "bury", "claim", "settle", "arm"
    MaxAsks       \* bound on the loops closing at once

ASSUME LanesAssumption ==
    /\ Workers = {me, other} /\ me # other
    /\ {LeaseTicks, RetryTicks, BackoffTicks, MaxAsks} \subseteq Nat \ {0}
    /\ Delays \subseteq Nat /\ IsFiniteSet(Delays)

VARIABLES
    row,      \* row[j]: [state, wait, owner, until, attempts]
    lane,     \* lane[n]: [pc, job, woken]
    asks,     \* closed loops whose armForNextDue has not been answered
    answers,  \* the answers under way: ticks to the next job
    timer,    \* ticks until it fires, or Off
    backoff,  \* backoffUntil, as ticks left
    phase,    \* of the process: "new", "up", "stopped"
    signal,   \* the writer's POST /wake: [at, again] (coalesced)
    unsent,   \* rows committed by a writer that has not called wake() yet
    missed    \* history: rows a signal was lost for, until the next pass

vars == <<row, lane, asks, answers, timer, backoff, phase, signal, unsent, missed>>
writer == <<signal, unsent>>

Longest == Max({LeaseTicks, RetryTicks, BackoffTicks} \cup Delays)
Off == Longest + 1
Passed == -1

TableRow == [state : {"unwritten", "ready", "dead", "gone"}, wait : 0..Longest,
             owner : Workers \cup {NoWorker}, until : -1..LeaseTicks,
             attempts : 0..MaxAttempts]
Absent == [state |-> "unwritten", wait |-> 0, owner |-> NoWorker,
           until |-> Passed, attempts |-> 0]

\* The row as JobRow's statements see it.
Seen(r) ==
    [NoRow EXCEPT !.state = r.state, !.due = r.wait = 0, !.attempts = r.attempts,
                  !.lockedBy = r.owner,
                  !.lease = IF r.owner = NoWorker THEN "none"
                            ELSE IF r.until = Passed THEN "lapsed" ELSE "live"]

MayTake(j) == Claimable(Seen(row[j]))

\* greatest(run_at, locked_until), not before now.
ReadyIn(r) == Max({0, r.wait} \cup (IF r.owner = NoWorker THEN {} ELSE {r.until}))

OffLane == [pc |-> "off", job |-> NoJob, woken |-> FALSE]
Looking == [pc |-> "looking", job |-> NoJob, woken |-> FALSE]
AllOff == \A n \in Lanes : lane[n].pc = "off"

TypeOK ==
    /\ row \in [Jobs -> TableRow]
    /\ lane \in [Lanes -> [pc : {"off", "burying", "looking", "none", "running"},
                           job : Jobs \cup {NoJob}, woken : BOOLEAN]]
    /\ asks \in 0..MaxAsks
    /\ answers \subseteq 0..Longest
    /\ timer \in 0..Off
    /\ backoff \in 0..BackoffTicks
    /\ phase \in {"new", "up", "stopped"}
    /\ signal \in [at : {"idle", "sending", "sent"}, again : BOOLEAN]
    /\ unsent \subseteq Jobs
    /\ missed \subseteq Jobs

\* A row may be there already, leased by a worker that may be gone.
Init ==
    /\ row \in [Jobs -> {Absent} \cup
                  [state : {"ready"}, wait : {0}, owner : {other},
                   until : {LeaseTicks}, attempts : 1..MaxAttempts]]
    /\ lane = [n \in Lanes |-> OffLane]
    /\ asks = 0 /\ answers = {}
    /\ timer = Off /\ backoff = 0
    /\ phase = "new"
    /\ signal = [at |-> "idle", again |-> FALSE]
    /\ unsent = {} /\ missed = {}

-----------------------------------------------------------------------------
(* Passes *)

\* requestPass: every loop that is off starts with a look, the first of them,
\* if none was on, with a burial; the rest are told to look once more.
Pass ==
    \E first \in Lanes :
       /\ lane[first].pc = "off" \/ \A n \in Lanes : lane[n].pc # "off"
       /\ lane' = [n \in Lanes |->
                      IF lane[n].pc # "off" THEN [lane[n] EXCEPT !.woken = TRUE]
                      ELSE IF AllOff /\ n = first
                           THEN [Looking EXCEPT !.pc = "burying"] ELSE Looking]
       /\ missed' = {}

\* Mistake: a signal starts loops in a process that has stopped.
PassIfServing == IF phase # "new" THEN Pass ELSE UNCHANGED <<lane, missed>>

PassIfUp == IF phase = "up" THEN Pass ELSE UNCHANGED <<lane, missed>>

\* process(): what was written while no worker was up.
Process ==
    /\ phase = "new"
    /\ phase' = "up"
    /\ Pass
    /\ UNCHANGED <<row, asks, answers, timer, backoff, signal, unsent>>

\* The worker's hourly pass (wakeHere).  A look takes less than the hour.
HourlyPass ==
    /\ phase = "up"
    /\ \A n \in Lanes : lane[n].pc \in {"off", "running"}
    /\ Pass
    /\ UNCHANGED <<row, asks, answers, timer, backoff, phase, signal, unsent>>

\* Mistake: the answer that arrives last sets the timer.
ArmedLast(delay) == Max({delay, backoff})

\* arm: not over a sooner timer, nor inside the backoff.
Armed(delay) == LET at == Max({delay, backoff}) IN IF timer <= at THEN timer ELSE at

\* Mistake: the sooner timer is dropped and none armed in its place.
PassFailedUnarmed ==
    /\ backoff' = BackoffTicks
    /\ timer' = Off

\* passFailed: in place of any sooner timer.
PassFailed ==
    /\ backoff' = BackoffTicks
    /\ timer' = IF phase = "stopped" THEN Off ELSE BackoffTicks

-----------------------------------------------------------------------------
(* One loop *)

SetLane(n, to) == lane' = [lane EXCEPT ![n] = to]

\* Back to the head of the loop, which ends it while stopping.
NextLook == IF phase = "stopped" THEN OffLane ELSE Looking

Bury(n) ==
    /\ lane[n].pc = "burying"
    /\ row' = [j \in Jobs |->
                  IF Exhausted(Seen(row[j]))
                  THEN [row[j] EXCEPT !.state = "dead", !.owner = NoWorker,
                                      !.until = Passed]
                  ELSE row[j]]
    /\ SetLane(n, NextLook)
    /\ UNCHANGED <<asks, answers, timer, backoff, phase, missed, writer>>

TakenBy(r, w) ==
    [r EXCEPT !.owner = w, !.until = LeaseTicks, !.attempts = @ + 1]

Claim(n, j) ==
    /\ lane[n].pc = "looking"
    /\ MayTake(j)
    /\ row' = [row EXCEPT ![j] = TakenBy(@, me)]
    /\ SetLane(n, [pc |-> "running", job |-> j, woken |-> FALSE])
    /\ UNCHANGED <<asks, answers, timer, backoff, phase, missed, writer>>

\* The statement found no row; its answer is under way.
ClaimNone(n) ==
    /\ lane[n].pc = "looking"
    /\ \A j \in Jobs : ~MayTake(j)
    /\ SetLane(n, [lane[n] EXCEPT !.pc = "none"])
    /\ UNCHANGED <<row, asks, answers, timer, backoff, phase, missed, writer>>

\* A look that found nothing is taken again if a pass was asked for since it
\* began; else the loop is off and, in the same step, no longer counted.
Close(n) ==
    /\ lane[n].pc = "none"
    /\ IF lane[n].woken \/ phase = "stopped"
       THEN SetLane(n, NextLook) /\ UNCHANGED asks
       ELSE /\ asks < MaxAsks
            /\ SetLane(n, OffLane)
            /\ asks' = asks + 1
    /\ UNCHANGED <<row, answers, timer, backoff, phase, missed, writer>>

\* bury or claim throws out of the loop.
LookErrs(n) ==
    /\ \/ lane[n].pc = "burying" /\ "bury" \in Faults
       \/ lane[n].pc = "looking" /\ "claim" \in Faults
    /\ SetLane(n, OffLane)
    /\ PassFailed
    /\ UNCHANGED <<row, asks, answers, phase, missed, writer>>

Extend(n) ==
    LET j == lane[n].job IN
    /\ lane[n].pc = "running"
    /\ row[j].owner = me
    /\ row' = [row EXCEPT ![j].until = LeaseTicks]
    /\ UNCHANGED <<lane, asks, answers, timer, backoff, phase, missed, writer>>

\* The handler ends and its job is settled, where it is still this process's:
\* deleted, or held back to be retried, or dead.
Run(n) ==
    LET j == lane[n].job
        failed == [row[j] EXCEPT !.owner = NoWorker, !.until = Passed,
                      !.wait = RetryTicks,
                      !.state = IF row[j].attempts >= MaxAttempts
                                THEN "dead" ELSE "ready"]
        settled == {[Absent EXCEPT !.state = "gone"], failed}
    IN
    /\ lane[n].pc = "running"
    /\ IF row[j].owner = me
       THEN \E to \in settled : row' = [row EXCEPT ![j] = to]
       ELSE UNCHANGED row
    /\ SetLane(n, NextLook)
    /\ UNCHANGED <<asks, answers, timer, backoff, phase, missed, writer>>

\* fail or release throws: the loop fails, the row stays leased to this process.
SettleErrs(n) ==
    /\ "settle" \in Faults
    /\ lane[n].pc = "running"
    /\ SetLane(n, OffLane)
    /\ PassFailed
    /\ UNCHANGED <<row, asks, answers, phase, missed, writer>>

\* Interrupted by the stop and handed back.
Release(n) ==
    LET j == lane[n].job
        back == [row[j] EXCEPT !.owner = NoWorker, !.until = Passed,
                               !.wait = 0, !.attempts = @ - 1]
    IN
    /\ lane[n].pc = "running"
    /\ phase = "stopped"
    /\ row' = IF row[j].owner = me THEN [row EXCEPT ![j] = back] ELSE row
    /\ SetLane(n, OffLane)
    /\ UNCHANGED <<asks, answers, timer, backoff, phase, missed, writer>>

-----------------------------------------------------------------------------
(* Coming back by itself *)

\* Mistake: a leased job is left to the worker that holds it.
AwaitedUnleased(j) == row[j].state = "ready" /\ row[j].owner = NoWorker

\* Not this process's own: "it extends their leases while they run, and takes
\* the next job when each ends".
Awaited(j) == row[j].state = "ready" /\ row[j].owner # me

\* armForNextDue's query.
Ask ==
    LET times == {ReadyIn(row[j]) : j \in {i \in Jobs : Awaited(i)}} IN
    /\ asks > 0
    /\ asks' = asks - 1
    /\ answers' = IF times = {} THEN answers ELSE answers \cup {Min(times)}
    /\ UNCHANGED <<row, lane, timer, backoff, phase, missed, writer>>

AskErrs ==
    /\ "arm" \in Faults
    /\ asks > 0
    /\ asks' = asks - 1
    /\ PassFailed
    /\ UNCHANGED <<row, lane, answers, phase, missed, writer>>

Arm(delay) ==
    /\ delay \in answers
    /\ answers' = answers \ {delay}
    /\ timer' = IF phase = "stopped" THEN Off ELSE Armed(delay)
    /\ UNCHANGED <<row, lane, asks, backoff, phase, missed, writer>>

Fire ==
    /\ timer = 0
    /\ timer' = Off
    /\ PassIfUp
    /\ UNCHANGED <<row, asks, answers, backoff, phase, writer>>

Stop ==
    /\ phase = "up"
    /\ phase' = "stopped"
    /\ timer' = Off
    /\ UNCHANGED <<row, lane, asks, answers, backoff, missed, writer>>

-----------------------------------------------------------------------------
(* Writers, the other worker, and time *)

\* A caller commits a job.
Write(j, delay) ==
    /\ row[j].state = "unwritten"
    /\ row' = [row EXCEPT ![j] = [Absent EXCEPT !.state = "ready", !.wait = delay]]
    /\ unsent' = unsent \cup {j}
    /\ UNCHANGED <<lane, asks, answers, timer, backoff, phase, signal, missed>>

\* wake() in this process, where a handler wrote the job.
WakeHere(j) ==
    /\ j \in unsent
    /\ unsent' = unsent \ {j}
    /\ PassIfUp
    /\ UNCHANGED <<row, asks, answers, timer, backoff, phase, signal>>

\* Mistake: a request made while one is being sent is taken for sent.
RequestOnce(j) ==
    /\ j \in unsent
    /\ unsent' = unsent \ {j}
    /\ signal' = IF signal.at = "idle" THEN [at |-> "sending", again |-> FALSE]
                                       ELSE signal
    /\ UNCHANGED <<row, lane, asks, answers, timer, backoff, phase, missed>>

\* wake() in the web: one signal at a time, one more if asked for meanwhile.
Request(j) ==
    /\ j \in unsent
    /\ unsent' = unsent \ {j}
    /\ signal' = IF signal.at = "idle" THEN [at |-> "sending", again |-> FALSE]
                                       ELSE [signal EXCEPT !.again = TRUE]
    /\ UNCHANGED <<row, lane, asks, answers, timer, backoff, phase, missed>>

\* The POST arrives (/wake); its reply ends the send.
Deliver ==
    /\ signal.at = "sending"
    /\ signal' = [signal EXCEPT !.at = "sent"]
    /\ PassIfUp
    /\ UNCHANGED <<row, asks, answers, timer, backoff, phase, unsent>>

Sent == IF signal.again THEN [at |-> "sending", again |-> FALSE]
                        ELSE [at |-> "idle", again |-> FALSE]

EndSend ==
    /\ signal.at = "sent"
    /\ signal' = Sent
    /\ UNCHANGED <<row, lane, asks, answers, timer, backoff, phase, unsent, missed>>

\* The POST is lost: "it waits for its next pass".
SendErrs ==
    /\ signal.at = "sending"
    /\ signal' = Sent
    /\ missed' = IF signal.again THEN missed
                 ELSE missed \cup {j \in Jobs : row[j].state = "ready"}
    /\ UNCHANGED <<row, lane, asks, answers, timer, backoff, phase, unsent>>

\* Another worker takes a row, extends its lease, or completes it; or dies.
OtherTakes(j) ==
    /\ MayTake(j)
    /\ row' = [row EXCEPT ![j] = TakenBy(@, other)]
    /\ UNCHANGED <<lane, asks, answers, timer, backoff, phase, missed, writer>>

OtherExtends(j) ==
    /\ row[j].owner = other
    /\ row' = [row EXCEPT ![j].until = LeaseTicks]
    /\ UNCHANGED <<lane, asks, answers, timer, backoff, phase, missed, writer>>

OtherCompletes(j) ==
    /\ row[j].owner = other
    /\ row' = [row EXCEPT ![j] = [Absent EXCEPT !.state = "gone"]]
    /\ UNCHANGED <<lane, asks, answers, timer, backoff, phase, missed, writer>>

Down(n) == IF n = 0 THEN 0 ELSE n - 1

\* A statement's answer takes less than a tick.
Tick ==
    /\ answers = {}
    /\ row' = [j \in Jobs |->
                  [row[j] EXCEPT !.wait = Down(@),
                                 !.until = IF @ = Passed THEN @ ELSE @ - 1]]
    /\ timer' = IF timer = Off THEN Off ELSE Down(timer)
    /\ backoff' = Down(backoff)
    /\ UNCHANGED <<lane, asks, answers, phase, missed, writer>>

LoopStep(n) ==
    \/ Bury(n)
    \/ \E j \in Jobs : Claim(n, j)
    \/ ClaimNone(n)
    \/ Close(n)
    \/ LookErrs(n)
    \/ Extend(n)
    \/ Run(n)
    \/ SettleErrs(n)
    \/ Release(n)

TimerStep == Ask \/ AskErrs \/ (\E delay \in answers : Arm(delay)) \/ Fire

WriterStep ==
    \/ \E j \in Jobs : \/ \E delay \in Delays : Write(j, delay)
                       \/ WakeHere(j)
                       \/ Request(j)
    \/ Deliver \/ EndSend \/ SendErrs

OtherStep == \E j \in Jobs : OtherTakes(j) \/ OtherExtends(j) \/ OtherCompletes(j)

Next ==
    \/ Process \/ HourlyPass \/ Stop
    \/ \E n \in Lanes : LoopStep(n)
    \/ TimerStep
    \/ WriterStep
    \/ OtherStep
    \/ Tick

Spec == Init /\ [][Next]_vars

\* The process runs, time passes, handlers end, a POST that was sent arrives, and a database
\* that fails a statement does not fail it for ever.  Nothing is asked of the
\* hourly pass.
Fairness ==
    /\ WF_vars(Process) /\ SF_vars(Tick) /\ WF_vars(Fire)
    /\ SF_vars(Ask) /\ (\A delay \in 0..Longest : WF_vars(Arm(delay)))
    /\ WF_vars(Deliver) /\ WF_vars(EndSend)
    /\ \A j \in Jobs : WF_vars(Request(j) \/ WakeHere(j))
    /\ \A n \in Lanes :
          /\ SF_vars(Bury(n))
          /\ SF_vars((\E j \in Jobs : Claim(n, j)) \/ ClaimNone(n))
          /\ WF_vars(Close(n))
          /\ WF_vars(Run(n) \/ Release(n))

FairSpec == Spec /\ Fairness

-----------------------------------------------------------------------------
(* Properties *)

\* No answer, signal or look is on its way to change what the process knows.
Settled ==
    /\ phase = "up"
    /\ asks = 0 /\ answers = {} /\ signal.at = "idle" /\ unsent = {}
    /\ \A n \in Lanes : lane[n].pc \in {"off", "running"}

\* No lost wake-up: with a loop idle, every ready job that no signal was lost
\* for has a timer that fires by the time it can be taken, or as soon as the
\* backoff allows; also while other loops are busy, but for the job one of them is
\* running, which that loop looks at when it ends (lane, armForNextDue, arm,
\* the second look, the trailing signal).
NothingOverslept ==
    Settled /\ (\E n \in Lanes : lane[n].pc = "off")
       => \A j \in Jobs :
             \/ row[j].state # "ready" \/ j \in missed
             \/ \E n \in Lanes : lane[n].job = j
             \/ timer <= Max({ReadyIn(row[j]), backoff})

\* A process that has stopped, its loops and their closing work done, is quiet:
\* it takes nothing and no timer brings it back (stop, arm, requestPass).
StopIsFinal ==
    [][phase = "stopped" /\ AllOff /\ asks = 0 /\ answers = {}
          => lane' = lane /\ asks' = 0 /\ timer' = Off]_vars

Gone(j) ==
    row[j].state # "ready" \/ phase = "stopped" \/ j \in missed

\* A job whose signal arrives is taken without the hourly pass: also one whose
\* retry falls due, one held by a worker that dies with it, and one found after
\* statements that failed. (A row that a failed settling left leased to this
\* process counts as taken.)
TakenInTheEnd ==
    \A j \in Jobs :
       row[j].state = "ready" /\ row[j].attempts < MaxAttempts
          ~> \/ Gone(j)
             \/ row[j].owner = me
             \/ row[j].owner = other /\ row[j].until = LeaseTicks

==============================================================================
