---------------------------- MODULE ResourceRuns ----------------------------
(* One resource and everybody who works on it: the pipeline runs of the      *)
(* workers, a user who stops them, an upload, a revert, and a job that only  *)
(* wants runs kept away (a lake retry, a purge). What keeps them apart is    *)
(* the claim on the resource_pipeline row (pipeline-claim.ts); what a run    *)
(* writes is conditioned on still holding it, save for the content index,    *)
(* which is outside the database and can only be asked about first.          *)
(*                                                                           *)
(* A key stands for the object it names and for the bytes in it: nothing     *)
(* rewrites an object, every writer mints a key of its own.                  *)
EXTENDS Integers, FiniteSets

CONSTANTS
    Workers,    \* job loops that may run the pipeline
    MaxKey,     \* bound: keys minted; key 1 is what the resource starts with
    Chunks,     \* content documents a file makes
    MaxAsks,    \* bound: runs users ask for
    MaxFaults,  \* bound: how often something goes wrong
    Asked,      \* the payloads users and the search admin page ask with
    Others,     \* who else works on the resource in this instance
    Faults      \* what may go wrong in this instance

Kinds == {"ordinary", "rebuild", "index"}

ASSUME BoundsAssumption ==
    /\ MaxKey \in Nat \ {0} /\ Chunks \in Nat \ {0} /\ MaxAsks \in Nat
    /\ MaxFaults \in Nat
ASSUME AskedAssumption == Asked \subseteq Kinds
ASSUME OthersAssumption == Others \subseteq {"cancel", "upload", "job", "revert"}
ASSUME FaultsAssumption == Faults \subseteq
    {"crash", "stop", "stall", "defer", "queue", "fetch", "step", "search", "jobdies", "bury"}
ASSUME WorkersAssumption == Workers \cap {"none", "dead", "revert", "job"} = {}

Key == 1..MaxKey
NoKey == 0                                   \* a NULL pointer
Pointer == Key \cup {NoKey}
Status == {"pending", "queued", "processing", "complete", "error", "cancelled"}

VARIABLES
    claim,      \* resource_pipeline.claim_owner, claim_kind; idle: nothing has progressed for 15 min
    fence,      \* whose statement is under way with the claim's row locked FOR SHARE
    status,     \* resource_pipeline.status
    flaws,      \* resource_pipeline_step: the steps recorded as failed
    live,       \* resource.storage_key
    external,   \* resource.url_type: the content is behind a URL, not uploaded
    versions,   \* the keys resource_version rows own
    made,       \* the key whose interpretation the pipeline row names (preview_key, sourceHash)
    filed,      \* resource_pipeline.metadata.contentIndexed
    index,      \* the search index's content documents, by chunk number
    due,        \* resource.content_index_due_at is set
    waiting,    \* resource-pipeline jobs in the queue, by payload
    run,        \* each worker's run
    up,         \* where the upload endpoints are
    rv,         \* where the revert endpoint is
    job,        \* where the holder of a job claim is
    next,       \* the next key to mint
    asks,       \* runs asked for so far, for the bound
    faults,     \* faults so far, for the bound
    buried,     \* whether the queue has given up a job of the resource: a dead one lies in the table
    fetchAsked, \* whether anybody ever asked for a run that fetches
    strayed     \* whether an index write landed after its run had lost the claim

row == <<status, flaws, made, filed>>
content == <<live, external, versions>>
search == <<index, due, strayed>>
bounds == <<next, asks, faults, buried, fetchAsked>>
vars == <<claim, fence, row, content, search, waiting, run, up, rv, job, bounds>>

Free == [by |-> "none", kind |-> "none", idle |-> FALSE]
Claimed(who, kind) == [by |-> who, kind |-> kind, idle |-> FALSE]
Idle == [pc |-> "idle", kind |-> "ordinary", key |-> NoKey, prev |-> NoKey, fresh |-> FALSE,
         mark |-> FALSE, n |-> 0, again |-> FALSE, rest |-> {}, strays |-> 0]

Init ==
    /\ claim = Free /\ fence = "none"
    /\ status = "complete" /\ flaws = {} /\ made = 1 /\ filed = TRUE
    /\ live = 1 /\ external \in BOOLEAN /\ versions = {1}
    /\ index = [i \in 1..Chunks |-> 1] /\ due = FALSE /\ strayed = FALSE
    /\ waiting = [k \in Kinds |-> 0]
    /\ run = [w \in Workers |-> Idle]
    /\ up = "idle"
    /\ rv = [pc |-> "idle", to |-> NoKey, key |-> NoKey, prev |-> NoKey, current |-> FALSE]
    /\ job = "idle"
    /\ next = 2 /\ asks = 0 /\ faults = 0 /\ buried = FALSE /\ fetchAsked = FALSE

----------------------------------------------------------------------------
\* Something of this kind goes wrong, once more.
Fault(kind) ==
    /\ kind \in Faults /\ faults < MaxFaults
    /\ faults' = faults + 1

counts == <<next, asks, buried, fetchAsked>>

----------------------------------------------------------------------------
(* The claim's own rules.                                                    *)

Held(who) == claim.by = who

\* Mistake: a claim is never taken from whoever holds it.
TakeableFree == claim.by = "none"

\* Free, or its holder has made no progress for CLAIM_STALE_AFTER_MS.
Takeable == claim.by = "none" \/ claim.idle

\* A statement that changes the pipeline row waits for one that has it locked
\* FOR SHARE: this is what makes stillHeld a fence.
RowFree == fence = "none"

Goto(w, pc) == run' = [run EXCEPT ![w].pc = pc]

\* The run leaves, whatever it was doing: what is left is to give the claim back.
Leave(w) ==
    run' = [run EXCEPT ![w] = [Idle EXCEPT !.pc = "release", !.kind = run[w].kind,
                                           !.again = run[w].again, !.strays = run[w].strays]]

\* A write to the row conditioned on heldBy: it lands, or it lands on nothing.
IfHeld(w, written, row_) == IF Held(w) THEN written ELSE UNCHANGED row_

\* startStep: the place a run finds out. A step's start is progress.
StartStep(w) ==
    /\ RowFree /\ Held(w)
    /\ claim' = [claim EXCEPT !.idle = FALSE]

\* startStep matched no row: RunCancelledError, and the run leaves.
Cancelled(w) ==
    /\ run[w].pc \in {"fetch", "version", "interpret", "reused", "index", "check"}
    /\ ~Held(w)
    /\ Leave(w)
    /\ UNCHANGED <<claim, fence, row, content, search, waiting, up, rv, job, bounds>>

----------------------------------------------------------------------------
(* The queue, as the runs see it. It delivers at least once.                 *)

Put(kind) == waiting' = [waiting EXCEPT ![kind] = @ + 1]

\* A job whose attempts are spent is not handed out again (buryExhausted, fail).
\* How often it was taken is not kept here: any attempt may be its last.
GivenUp == "bury" \in Faults /\ buried' = TRUE

\* Mistake: one run under way is taken to be enough.
EnqueueUnlessRunning(kind) ==
    /\ RowFree
    /\ status' = "queued"
    /\ IF status = "processing" THEN UNCHANGED waiting ELSE Put(kind)

\* PipelineService.enqueue: the row goes back to queued and the job is
\* inserted, in one transaction.
Enqueue(kind) ==
    /\ RowFree
    /\ status' = "queued"
    /\ Put(kind)

Ask(kind) ==
    /\ asks < MaxAsks
    /\ Enqueue(kind)
    /\ asks' = asks + 1
    /\ fetchAsked' = (fetchAsked \/ kind = "ordinary")
    /\ UNCHANGED <<claim, fence, flaws, made, filed, content, search, run, up, rv, job, next, faults, buried>>

Take(w, kind) ==
    /\ run[w].pc = "idle" /\ waiting[kind] > 0
    /\ waiting' = [waiting EXCEPT ![kind] = @ - 1]
    /\ run' = [run EXCEPT ![w] = [Idle EXCEPT !.pc = "claim", !.kind = kind]]
    /\ UNCHANGED <<claim, fence, row, content, search, up, rv, job, bounds>>

----------------------------------------------------------------------------
(* A run, step by step (process-resource.ts).                                *)

ClaimRun(w) ==
    /\ run[w].pc = "claim" /\ RowFree
    /\ IF Takeable
       THEN claim' = Claimed(w, "run") /\ Goto(w, "begin")
       ELSE UNCHANGED claim /\ Goto(w, "requeue")
    /\ UNCHANGED <<fence, row, content, search, waiting, up, rv, job, bounds>>

\* Mistake: the job is put back with the resource's id only.
RequeueOrdinary(w) ==
    /\ run[w].pc = "requeue"
    /\ Put("ordinary")
    /\ Goto(w, "done")
    /\ UNCHANGED <<claim, fence, row, content, search, up, rv, job, bounds>>

\* Mistake: somebody is at work on the resource already, so the job is done.
RequeueNot(w) ==
    /\ run[w].pc = "requeue"
    /\ Goto(w, "done")
    /\ UNCHANGED <<claim, fence, row, content, search, waiting, up, rv, job, bounds>>

\* Held by somebody else: the job comes back, whole.
Requeue(w) ==
    /\ run[w].pc = "requeue"
    /\ Put(run[w].kind)
    /\ Goto(w, "done")
    /\ UNCHANGED <<claim, fence, row, content, search, up, rv, job, bounds>>

BeginRun(w) ==
    /\ run[w].pc = "begin" /\ RowFree
    /\ IfHeld(w, status' = "processing" /\ flaws' = {}, <<status, flaws>>)
    /\ Goto(w, "fetch")
    /\ UNCHANGED <<claim, fence, made, filed, content, search, waiting, up, rv, job, bounds>>

\* A rebuild, an index-only run and an upload read the object held; the rest
\* fetch into a key of the run's own.
Fetch(w) ==
    LET reads == run[w].kind # "ordinary" \/ ~external IN
    /\ run[w].pc = "fetch" /\ StartStep(w)
    /\ IF reads
       THEN /\ live # NoKey
            /\ run' = [run EXCEPT ![w].pc = "publish", ![w].key = live, ![w].prev = live]
            /\ UNCHANGED next
       ELSE /\ next <= MaxKey
            /\ run' = [run EXCEPT ![w].pc = "publish", ![w].key = next, ![w].prev = live]
            /\ next' = next + 1
    /\ UNCHANGED <<fence, row, content, search, waiting, up, rv, job, asks, faults, buried, fetchAsked>>

\* Nothing to read, or the URL does not answer: the run ends in an error.
FetchFails(w) ==
    /\ run[w].pc = "fetch" /\ StartStep(w)
    /\ IF run[w].kind # "ordinary" \/ ~external
       THEN live = NoKey /\ UNCHANGED faults
       ELSE Fault("fetch") \/ (next > MaxKey /\ UNCHANGED faults)
    /\ Goto(w, "error")
    /\ UNCHANGED <<fence, row, content, search, waiting, up, rv, job, counts>>

\* The host's rate limit: status and requeue are sent together, unordered.
FetchDeferred(w) ==
    /\ Fault("defer")
    /\ run[w].pc = "fetch" /\ run[w].kind = "ordinary" /\ external /\ StartStep(w)
    /\ run' = [run EXCEPT ![w].pc = "defer", ![w].rest = {"status", "enqueue"}]
    /\ UNCHANGED <<fence, row, content, search, waiting, up, rv, job, counts>>

DeferStatus(w) ==
    /\ "status" \in run[w].rest /\ RowFree
    /\ IfHeld(w, status' = "queued", status)
    /\ run' = [run EXCEPT ![w].rest = @ \ {"status"},
                          ![w].pc = IF @ = "defer" /\ run[w].rest = {"status"} THEN "release" ELSE @]
    /\ UNCHANGED <<claim, fence, flaws, made, filed, content, search, waiting, up, rv, job, bounds>>

DeferEnqueue(w) ==
    /\ run[w].pc = "defer" /\ "enqueue" \in run[w].rest
    /\ Put(run[w].kind)
    /\ run' = [run EXCEPT ![w].rest = @ \ {"enqueue"},
                          ![w].pc = IF run[w].rest = {"enqueue"} THEN "release" ELSE @]
    /\ UNCHANGED <<claim, fence, row, content, search, up, rv, job, bounds>>

\* The queue refuses: Promise.all rejects at once, the other write still out.
DeferRefused(w) ==
    /\ Fault("queue")
    /\ run[w].pc = "defer" /\ "enqueue" \in run[w].rest
    /\ run' = [run EXCEPT ![w].rest = @ \ {"enqueue"}, ![w].pc = "error"]
    /\ UNCHANGED <<claim, fence, row, content, search, waiting, up, rv, job, counts>>

\* The outer catch: the run's record first, then the step left open.
RunFails(w) ==
    /\ run[w].pc = "error" /\ RowFree
    /\ IfHeld(w, status' = "error" /\ flaws' = flaws \cup {"fetch"}, <<status, flaws>>)
    /\ run' = [run EXCEPT ![w].pc = "release", ![w].key = NoKey]
    /\ UNCHANGED <<claim, fence, made, filed, content, search, waiting, up, rv, job, bounds>>

\* Mistake: the claim is looked at, and its row not locked.
PublishStartUnfenced(w) ==
    /\ run[w].pc = "publish" /\ RowFree
    /\ IF Held(w) THEN Goto(w, "landing") ELSE Leave(w)
    /\ UNCHANGED <<claim, fence, row, content, search, waiting, up, rv, job, bounds>>

\* publishLiveContent: the claim's row is locked FOR SHARE, then the statement
\* may wait for the resource's row.
PublishStart(w) ==
    /\ run[w].pc = "publish" /\ RowFree
    /\ IF Held(w)
       THEN fence' = w /\ Goto(w, "landing")
       ELSE UNCHANGED fence /\ Leave(w)
    /\ UNCHANGED <<claim, row, content, search, waiting, up, rv, job, bounds>>

\* The pointer's comparison is made on the row as it is now. Every move is a
\* new generation, so a revert that read an earlier one is out of date.
Publish(w) ==
    /\ run[w].pc = "landing"
    /\ IF live = run[w].prev
       THEN live' = run[w].key /\ rv' = [rv EXCEPT !.current = FALSE]
            /\ run' = [run EXCEPT ![w].pc = "version", ![w].prev = NoKey]
       ELSE UNCHANGED <<live, rv>> /\ Leave(w)     \* superseded
    /\ fence' = IF fence = w THEN "none" ELSE fence
    /\ UNCHANGED <<claim, row, external, versions, search, waiting, up, job, bounds>>

\* The gate reads: is this content still live, and does a version hold it yet?
VersionGate(w) ==
    /\ run[w].pc = "version" /\ StartStep(w)
    /\ Goto(w, IF live = run[w].key /\ run[w].key \notin versions THEN "insert" ELSE "interpret")
    /\ UNCHANGED <<fence, row, content, search, waiting, up, rv, job, bounds>>

InsertVersion(w) ==
    /\ run[w].pc = "insert" /\ RowFree
    /\ IfHeld(w, versions' = versions \cup {run[w].key}, versions)
    /\ run' = [run EXCEPT ![w].pc = "interpret", ![w].fresh = Held(w)]
    /\ UNCHANGED <<claim, fence, row, live, external, search, waiting, up, rv, job, bounds>>

\* What is on the row already describes these bytes, and so does the index.
Described(w) ==
    /\ run[w].kind = "ordinary" /\ ~run[w].fresh
    /\ made = run[w].key /\ filed

Stored(w) == run[w].kind = "index" /\ ~run[w].fresh /\ made = run[w].key

Interpret(w) ==
    /\ run[w].pc = "interpret" /\ StartStep(w)
    /\ Goto(w, IF run[w].key \notin versions \/ Stored(w) THEN "index"
               ELSE IF Described(w) THEN "reused"
               ELSE "describe")
    /\ UNCHANGED <<fence, row, content, search, waiting, up, rv, job, bounds>>

\* A step after Fetch records its own failure and the run carries on.
StepFails(w) ==
    /\ Fault("step")
    /\ run[w].pc \in {"insert", "describe"} /\ RowFree
    /\ LET step == IF run[w].pc = "insert" THEN "version" ELSE "interpret" IN
       /\ IfHeld(w, flaws' = flaws \cup {step}, flaws)
       /\ Goto(w, IF step = "version" THEN "interpret" ELSE "index")
    /\ UNCHANGED <<claim, fence, status, made, filed, content, search, waiting, up, rv, job, counts>>

Interrupts(w, again) ==
    run' = [run EXCEPT ![w] = [Idle EXCEPT !.pc = "release", !.kind = run[w].kind,
                                           !.again = again]]

\* The worker is stopping: nothing is recorded and the job is handed back, without
\* counting the attempt. Or the container is short of memory: recorded, and a failed
\* job, which goes back unless this was its last attempt.
Interrupted(w) ==
    /\ Fault("stop")
    /\ run[w].pc = "describe" /\ RowFree
    /\ \/ UNCHANGED <<status, flaws, buried>> /\ Interrupts(w, TRUE)
       \/ /\ IfHeld(w, status' = "error" /\ flaws' = flaws \cup {"interpret"}, <<status, flaws>>)
          /\ \/ UNCHANGED buried /\ Interrupts(w, TRUE)
             \/ GivenUp /\ Interrupts(w, FALSE)
    /\ UNCHANGED <<claim, fence, made, filed, content, search, waiting, up, rv, job,
                   next, asks, fetchAsked>>

\* Mistake: the metadata is merged, so the old contentIndexed stays.
DescribeMerged(w) ==
    /\ run[w].pc = "describe" /\ RowFree
    /\ IfHeld(w, made' = run[w].key, made)
    /\ Goto(w, "index")
    /\ UNCHANGED <<claim, fence, status, flaws, filed, content, search, waiting, up, rv, job, bounds>>

\* updateInterpretResult replaces the metadata wholesale, contentIndexed too.
Describe(w) ==
    /\ run[w].pc = "describe" /\ RowFree
    /\ IfHeld(w, made' = run[w].key /\ filed' = FALSE, <<made, filed>>)
    /\ Goto(w, "index")
    /\ UNCHANGED <<claim, fence, status, flaws, content, search, waiting, up, rv, job, bounds>>

IndexStart(w) ==
    /\ run[w].pc = "index" /\ StartStep(w)
    /\ run' = [run EXCEPT ![w].pc = "check", ![w].mark = due, ![w].n = 0]
    /\ UNCHANGED <<fence, row, content, search, waiting, up, rv, job, bounds>>

Reuse(w) ==
    /\ run[w].pc = "reused" /\ StartStep(w)
    /\ Goto(w, "finish")
    /\ UNCHANGED <<fence, row, content, search, waiting, up, rv, job, bounds>>

\* Mistake: one look covers the whole step.
CheckOnce(w) ==
    /\ run[w].pc = "check" /\ (Held(w) \/ run[w].n > 0)
    /\ Goto(w, "send")
    /\ UNCHANGED <<claim, fence, row, content, search, waiting, up, rv, job, bounds>>

\* stillHolds: a look, made before each write that leaves the database.
Check(w) ==
    /\ run[w].pc = "check" /\ Held(w)
    /\ Goto(w, "send")
    /\ UNCHANGED <<claim, fence, row, content, search, waiting, up, rv, job, bounds>>

\* The write itself: first the old documents go, then one chunk at a time.
Send(w) ==
    /\ run[w].pc = "send"
    /\ index' = IF run[w].n = 0 THEN [i \in DOMAIN index |-> NoKey]
                                ELSE [index EXCEPT ![run[w].n] = run[w].key]
    /\ strayed' = (strayed \/ ~Held(w))
    /\ run' = [run EXCEPT ![w].pc = IF run[w].n = Chunks THEN "record" ELSE "check",
                          ![w].n = IF @ = Chunks THEN 0 ELSE @ + 1,
                          ![w].strays = IF Held(w) THEN @ ELSE @ + 1]
    /\ UNCHANGED <<claim, fence, row, content, due, waiting, up, rv, job, bounds>>

\* The search backend is down: the failure is recorded, the run goes on.
SendFails(w) ==
    /\ Fault("search")
    /\ run[w].pc = "send" /\ RowFree
    /\ IfHeld(w, filed' = FALSE /\ flaws' = flaws \cup {"index"}, <<filed, flaws>>)
    /\ Goto(w, "raise")
    /\ UNCHANGED <<claim, fence, status, made, content, search, waiting, up, rv, job, counts>>

\* A mark raised anew is not the one any run under way has read.
Raised == [w \in Workers |-> [run[w] EXCEPT !.mark = FALSE]]

RaiseMark(w) ==
    /\ run[w].pc = "raise" /\ RowFree
    /\ IfHeld(w, due' = TRUE, due)
    /\ run' = [(IF Held(w) THEN Raised ELSE run) EXCEPT ![w].pc = "finish"]
    /\ UNCHANGED <<claim, fence, row, content, index, strayed, waiting, up, rv, job, bounds>>

RecordIndexed(w) ==
    /\ run[w].pc = "record" /\ RowFree
    /\ IfHeld(w, filed' = TRUE, filed)
    /\ Goto(w, "lower")
    /\ UNCHANGED <<claim, fence, status, flaws, made, content, search, waiting, up, rv, job, bounds>>

LowerMark(w) ==
    /\ run[w].pc = "lower" /\ RowFree
    /\ due' = (due /\ ~(Held(w) /\ run[w].mark))
    /\ Goto(w, "finish")
    /\ UNCHANGED <<claim, fence, row, content, index, strayed, waiting, up, rv, job, bounds>>

Finish(w) ==
    /\ run[w].pc = "finish" /\ RowFree
    /\ IfHeld(w, status' = "complete", status)
    /\ Leave(w)
    /\ UNCHANGED <<claim, fence, flaws, made, filed, content, search, waiting, up, rv, job, bounds>>

\* Mistake: whoever ends gives the resource back.
GiveBackAnyway(who) == claim' = Free

\* Mistake: the owner is cleared, and the other columns are left.
GiveBackOwner(who) == claim' = IF Held(who) THEN [claim EXCEPT !.by = "none"] ELSE claim

\* Conditioned on still being the owner: a run taken over must not release the
\* claim of whoever took it.
GiveBack(who) == claim' = IF Held(who) THEN Free ELSE claim

Release(w) ==
    /\ run[w].pc = "release" /\ RowFree
    /\ GiveBack(w)
    /\ Goto(w, "done")
    /\ UNCHANGED <<fence, row, content, search, waiting, up, rv, job, bounds>>

Done(w) ==
    /\ run[w].pc = "done"
    /\ IF run[w].again THEN Put(run[w].kind) ELSE UNCHANGED waiting
    /\ run' = [run EXCEPT ![w] = Idle]
    /\ UNCHANGED <<claim, fence, row, content, search, up, rv, job, bounds>>

----------------------------------------------------------------------------
(* What goes wrong.                                                          *)

\* Nobody answers to the owner any more; the row still names it.
Orphan(who) == claim' = IF Held(who) THEN [claim EXCEPT !.by = "dead"] ELSE claim

\* The worker dies: its lease lapses and the job is handed out again, or buried.
Crash(w) ==
    /\ Fault("crash")
    /\ run[w].pc # "idle" /\ fence # w
    /\ Orphan(w)
    /\ \/ Put(run[w].kind) /\ UNCHANGED buried
       \/ GivenUp /\ UNCHANGED waiting
    /\ run' = [run EXCEPT ![w] = Idle]
    /\ UNCHANGED <<fence, row, content, search, up, rv, job, next, asks, fetchAsked>>

\* Fifteen minutes without progress: always under a dead owner, under a living
\* one only if it can hang.
GoStale ==
    /\ claim.by # "none" /\ ~claim.idle
    /\ IF claim.by = "dead" THEN UNCHANGED faults ELSE Fault("stall")
    /\ claim' = [claim EXCEPT !.idle = TRUE]
    /\ UNCHANGED <<fence, row, content, search, waiting, run, up, rv, job, counts>>

----------------------------------------------------------------------------
(* The others.                                                               *)

\* cancelResourceRun: releasing the claim is the kill. Only a run is stopped.
StopRun ==
    /\ RowFree
    /\ IF claim.by # "none" /\ claim.kind # "job"
       THEN claim' = Free /\ status' = "cancelled"
       ELSE UNCHANGED <<claim, status>>

CancelRun ==
    /\ "cancel" \in Others
    /\ StopRun
    /\ UNCHANGED <<fence, flaws, made, filed, content, search, waiting, run, up, rv, job, bounds>>

\* prepareForUpload mints a key and, in a second statement, stops the run.
UploadPrepare ==
    /\ "upload" \in Others /\ up = "idle" /\ next <= MaxKey
    /\ up' = "prepared"
    /\ UNCHANGED <<claim, fence, row, content, search, waiting, run, rv, job, bounds>>

UploadStops ==
    /\ up = "prepared" /\ StopRun
    /\ up' = "writing"
    /\ UNCHANGED <<fence, flaws, made, filed, content, search, waiting, run, rv, job, bounds>>

UploadAbandoned ==
    /\ up = "writing"
    /\ up' = "idle"
    /\ UNCHANGED <<claim, fence, row, content, search, waiting, run, rv, job, bounds>>

\* promoteUpload takes no claim: the pointer moves, a new generation.
UploadPromote ==
    /\ up = "writing" /\ next <= MaxKey
    /\ live' = next /\ next' = next + 1 /\ external' = FALSE
    /\ rv' = [rv EXCEPT !.current = FALSE]
    /\ up' = "promoted"
    /\ UNCHANGED <<claim, fence, row, versions, search, waiting, run, job, asks, faults, buried, fetchAsked>>

UploadEnqueue ==
    /\ up = "promoted"
    /\ Enqueue("ordinary")
    /\ up' = "idle"
    /\ UNCHANGED <<claim, fence, flaws, made, filed, content, search, run, rv, job, bounds>>

\* A job that keeps runs away: a lake retry, a purge, the content sweep.
JobClaim ==
    /\ "job" \in Others /\ job = "idle" /\ RowFree /\ Takeable
    /\ claim' = Claimed("job", "job")
    /\ job' = "holding"
    /\ UNCHANGED <<fence, row, content, search, waiting, run, up, rv, bounds>>

JobRelease ==
    /\ job = "holding" /\ RowFree
    /\ GiveBack("job")
    /\ job' = "idle"
    /\ UNCHANGED <<fence, row, content, search, waiting, run, up, rv, bounds>>

JobDies ==
    /\ Fault("jobdies")
    /\ job = "holding"
    /\ Orphan("job")
    /\ job' = "idle"
    /\ UNCHANGED <<fence, row, content, search, waiting, run, up, rv, counts>>

\* The revert endpoint: the caller names a version and the generation it saw.
RevertAsk(to) ==
    /\ "revert" \in Others /\ rv.pc = "idle" /\ next <= MaxKey
    /\ to # live
    /\ rv' = [rv EXCEPT !.pc = "takeover", !.to = to, !.current = TRUE]
    /\ UNCHANGED <<claim, fence, row, content, search, waiting, run, up, job, bounds>>

\* claimFromRun: stop the run and take the resource, in one statement.
Takeover ==
    /\ rv.pc = "takeover" /\ RowFree
    /\ IF (claim.kind # "job" \/ claim.idle) /\ rv.current
       THEN /\ claim' = Claimed("revert", "job")
            /\ status' = IF claim.by = "none" THEN status ELSE "cancelled"
            /\ rv' = [rv EXCEPT !.pc = "read"]
       ELSE UNCHANGED <<claim, status>> /\ rv' = [rv EXCEPT !.pc = "idle"]
    /\ UNCHANGED <<fence, flaws, made, filed, content, search, waiting, run, up, job, bounds>>

\* Read as the generation named; the destination's object is copied.
RevertRead ==
    /\ rv.pc = "read"
    /\ IF rv.current /\ (rv.to = NoKey \/ next <= MaxKey)
       THEN /\ rv' = [rv EXCEPT !.pc = "publish", !.prev = live,
                                !.key = IF rv.to = NoKey THEN NoKey ELSE next]
            /\ next' = IF rv.to = NoKey THEN next ELSE next + 1
       ELSE rv' = [rv EXCEPT !.pc = "refuse"] /\ UNCHANGED next
    /\ UNCHANGED <<claim, fence, row, content, search, waiting, run, up, job, asks, faults, buried, fetchAsked>>

\* Mistake: the revert checked its claim when it took it.
RevertPublishStartUnheld ==
    /\ rv.pc = "publish" /\ RowFree
    /\ fence' = "revert" /\ rv' = [rv EXCEPT !.pc = "landing"]
    /\ UNCHANGED <<claim, row, content, search, waiting, run, up, job, bounds>>

RevertPublishStart ==
    /\ rv.pc = "publish" /\ RowFree
    /\ IF Held("revert")
       THEN fence' = "revert" /\ rv' = [rv EXCEPT !.pc = "landing"]
       ELSE UNCHANGED fence /\ rv' = [rv EXCEPT !.pc = "refuse"]
    /\ UNCHANGED <<claim, row, content, search, waiting, run, up, job, bounds>>

\* One transaction: the pointer, the version that carries it, and the row's
\* interpretation, which no longer describes what was retracted.
RevertPublish ==
    /\ rv.pc = "landing"
    /\ IF live = rv.prev
       THEN /\ live' = rv.key
            /\ versions' = versions \cup ({rv.key} \ {NoKey})
            /\ made' = NoKey
            /\ rv' = [rv EXCEPT !.pc = "wipe", !.current = FALSE]
       ELSE UNCHANGED <<live, versions, made>> /\ rv' = [rv EXCEPT !.pc = "refuse"]
    /\ fence' = "none"
    /\ UNCHANGED <<claim, status, flaws, filed, external, search, waiting, run, up, job, bounds>>

\* Mistake: a removal that fails is logged, and nothing marks it as owed.
RevertWipeUnmarked ==
    /\ rv.pc = "wipe"
    /\ \/ index' = [i \in DOMAIN index |-> NoKey] /\ UNCHANGED faults
          /\ rv' = [rv EXCEPT !.pc = "unfile"]
       \/ Fault("search") /\ UNCHANGED index
          /\ rv' = [rv EXCEPT !.pc = "release"]
    /\ UNCHANGED <<claim, fence, row, content, due, strayed, waiting, run, up, job, counts>>

\* discardRetracted: the index first, then the row's record of it.
RevertWipe ==
    /\ rv.pc = "wipe"
    /\ \/ /\ index' = [i \in DOMAIN index |-> NoKey]
          /\ rv' = [rv EXCEPT !.pc = "unfile"]
          /\ UNCHANGED <<due, run, faults>>
       \/ /\ Fault("search")
          /\ due' = TRUE /\ run' = Raised
          /\ rv' = [rv EXCEPT !.pc = "release"]
          /\ UNCHANGED index
    /\ UNCHANGED <<claim, fence, row, content, strayed, waiting, up, job, counts>>

RevertUnfile ==
    /\ rv.pc = "unfile" /\ RowFree
    /\ filed' = FALSE
    /\ rv' = [rv EXCEPT !.pc = "release"]
    /\ UNCHANGED <<claim, fence, status, flaws, made, content, search, waiting, run, up, job, bounds>>

RevertRelease ==
    /\ rv.pc \in {"release", "refuse"} /\ RowFree
    /\ GiveBack("revert")
    /\ rv' = [rv EXCEPT !.pc = IF @ = "release" /\ rv.key # NoKey THEN "queue" ELSE "idle",
                        !.to = NoKey, !.key = NoKey, !.prev = NoKey, !.current = FALSE]
    /\ UNCHANGED <<fence, row, content, search, waiting, run, up, job, bounds>>

\* queueRebuild: never a run that fetches.
RevertQueue ==
    /\ rv.pc = "queue"
    /\ Enqueue("rebuild")
    /\ rv' = [rv EXCEPT !.pc = "idle"]
    /\ UNCHANGED <<claim, fence, flaws, made, filed, content, search, run, up, job, bounds>>

\* sweepContentIndexMarks: what is marked, and has no run on its way.
Sweep ==
    /\ due /\ \A k \in Kinds : waiting[k] = 0
    /\ \A w \in Workers : run[w].pc = "idle"
    /\ IF live # NoKey
       THEN /\ Enqueue("index") /\ run' = Raised
            /\ UNCHANGED <<claim, filed, index, due>>
       ELSE /\ RowFree /\ Takeable /\ claim' = Free     \* under the claim, start to end
            /\ index' = [i \in DOMAIN index |-> NoKey]
            /\ filed' = FALSE /\ due' = FALSE
            /\ UNCHANGED <<status, waiting, run>>
    /\ UNCHANGED <<fence, flaws, made, content, strayed, up, rv, job, bounds>>

----------------------------------------------------------------------------
RunStep(w) ==
    \/ \E k \in Kinds : Take(w, k)
    \/ ClaimRun(w) \/ Requeue(w) \/ BeginRun(w) \/ Cancelled(w)
    \/ Fetch(w) \/ FetchFails(w) \/ FetchDeferred(w)
    \/ DeferStatus(w) \/ DeferEnqueue(w) \/ DeferRefused(w) \/ RunFails(w)
    \/ PublishStart(w) \/ Publish(w)
    \/ VersionGate(w) \/ InsertVersion(w)
    \/ Interpret(w) \/ StepFails(w) \/ Interrupted(w) \/ Describe(w)
    \/ IndexStart(w) \/ Reuse(w) \/ Check(w) \/ Send(w) \/ SendFails(w)
    \/ RaiseMark(w) \/ RecordIndexed(w) \/ LowerMark(w)
    \/ Finish(w) \/ Release(w) \/ Done(w)

UploadStep == UploadStops \/ UploadPromote \/ UploadEnqueue \/ UploadAbandoned

RevertStep ==
    \/ Takeover \/ RevertRead \/ RevertPublishStart \/ RevertPublish
    \/ RevertWipe \/ RevertUnfile \/ RevertRelease \/ RevertQueue

Next ==
    \/ \E w \in Workers : RunStep(w) \/ Crash(w)
    \/ \E k \in Asked : Ask(k)
    \/ GoStale \/ CancelRun
    \/ UploadPrepare \/ UploadStep
    \/ JobClaim \/ JobRelease \/ JobDies
    \/ \E to \in versions \cup {NoKey} : RevertAsk(to)
    \/ RevertStep \/ Sweep

Spec == Init /\ [][Next]_vars

\* The runs go on, the endpoints answer, an hour comes round, and a claim
\* nobody works under goes stale in the end.
FairSpec ==
    /\ Spec
    /\ \A w \in Workers : WF_vars(RunStep(w))
    /\ WF_vars(UploadStep) /\ WF_vars(RevertStep) /\ WF_vars(Sweep)
    /\ WF_vars(JobRelease) /\ WF_vars(GoStale)

----------------------------------------------------------------------------
(* Properties.                                                               *)

Pcs == {"idle", "claim", "begin", "fetch", "defer", "error", "publish", "landing", "version",
        "insert", "interpret", "reused", "describe", "index", "check", "send", "raise",
        "record", "lower", "finish", "release", "done", "requeue"}

Run == [pc : Pcs, kind : Kinds, key : Pointer, prev : Pointer, fresh : BOOLEAN,
        mark : BOOLEAN, n : 0..Chunks, again : BOOLEAN,
        rest : SUBSET {"status", "enqueue"}, strays : Nat]

Revert == [pc : {"idle", "takeover", "read", "publish", "landing", "wipe", "unfile",
                 "release", "refuse", "queue"},
           to : Pointer, key : Pointer, prev : Pointer, current : BOOLEAN]

Owner == Workers \cup {"none", "dead", "revert", "job"}

ClaimOK ==
    /\ claim \in [by : Owner, kind : {"none", "run", "job"}, idle : BOOLEAN]
    /\ claim.by = "none" <=> claim.kind = "none"
RunOK == run \in [Workers -> Run]
RvOK == rv \in Revert
PlainOK ==
    /\ fence \in Workers \cup {"none", "revert"}
    /\ status \in Status
    /\ flaws \subseteq {"fetch", "version", "interpret", "index"}
    /\ live \in Pointer /\ made \in Pointer
    /\ external \in BOOLEAN /\ filed \in BOOLEAN /\ due \in BOOLEAN /\ strayed \in BOOLEAN
    /\ versions \subseteq Pointer
    /\ index \in [1..Chunks -> Pointer]
    /\ waiting \in [Kinds -> Nat]
    /\ up \in {"idle", "prepared", "writing", "promoted"}
    /\ job \in {"idle", "holding"}
    /\ next \in 2..(MaxKey + 1) /\ asks \in 0..MaxAsks /\ faults \in 0..MaxFaults
    /\ buried \in BOOLEAN /\ fetchAsked \in BOOLEAN

\* Every variable keeps its type, and the claim is either free or complete
\* (the three columns of resource_pipeline are written together).
TypeOK == ClaimOK /\ RunOK /\ RvOK /\ PlainOK

\* The step is one of this run's, not one that only raised the mark under it.
Acts(w) ==
    /\ run[w].pc # "idle"
    /\ run'[w].pc # run[w].pc \/ run'[w].rest # run[w].rest

\* "Stopped" means nothing more lands (pipeline-claim.ts, stillHeld): whatever
\* a run does after it lost the claim leaves the row, the pointer, the versions
\* and the content index mark as they are, a statement it had under way when
\* the stop came included.
StoppedLandsNothing ==
    [][\A w \in Workers :
        (Acts(w) /\ ~Held(w))
            => /\ UNCHANGED <<status, flaws, made, filed, live, versions, due>>
               /\ run[w].pc # "claim" => claim' = claim]_vars

\* Nor does a revert that was taken over part-way move the pointer, issue a
\* version or clear an interpretation over whoever works there now: it is the
\* more destructive of the two (clearLiveContent, whose use of the claim its
\* own comment says no test covers).
StoppedRevertLandsNothing ==
    [][(rv'.pc # rv.pc /\ rv.pc \in {"publish", "landing"} /\ ~Held("revert"))
        => UNCHANGED <<live, versions, made>>]_vars

\* The index has no row to condition a write on. Asking before each write
\* bounds what a stopped run can still land there to one write
\* (held-context.ts).
OneStrayWrite == \A w \in Workers : run[w].strays <= 1

\* A retry keeps its payload: where nobody asked for a run that fetches, no run
\* ever reads the URL again, however often its job was put back. A rebuild that
\* became an ordinary run would publish what a revert had just retracted
\* (process-resource.ts, the held job requeued whole).
OnlyAskedFetches ==
    fetchAsked \/ \A w \in Workers :
        run[w].pc \in {"publish", "landing"} => run[w].key = run[w].prev

\* From the takeover to its release a revert has the resource, so nothing
\* starts over the content it is retracting: no gap after the stop, and no
\* displaced run that gives the claim back for it (claimFromRun). Only a revert
\* that has itself made no progress for fifteen minutes may lose it.
RevertAtWork ==
    rv.pc \in {"read", "publish", "landing", "wipe", "unfile", "release", "refuse"}
RevertUndisturbed ==
    [][RevertAtWork'
          => \/ Held("revert")'
             \/ RevertAtWork /\ (claim.idle \/ ~Held("revert"))]_vars

\* A row that says queued or processing has somebody to take it further: a job
\* in the queue, a run, an upload about to ask for one, a revert in charge. A
\* row left queued with no job behind it is one nothing will ever process
\* (pipeline-service.ts, enqueue); only a deferred fetch whose job the queue
\* refused leaves one, with its step recorded as failed (process-resource.ts,
\* the Promise.all of the requeue), or a job the queue gave up, which lies dead
\* in the table for an admin to see (buryExhausted).
StatusHasWork ==
    status \in {"queued", "processing"}
        => \/ buried
           \/ status = "queued" /\ "fetch" \in flaws
           \/ \E k \in Kinds : waiting[k] > 0
           \/ \E w \in Workers : run[w].pc # "idle"
           \/ up = "promoted" \/ rv.pc # "idle"

Quiet ==
    /\ \A k \in Kinds : waiting[k] = 0
    /\ \A w \in Workers : run[w].pc = "idle"
    /\ up = "idle" /\ rv.pc = "idle" /\ job = "idle"

Current ==
    IF live = NoKey THEN made = NoKey /\ \A i \in DOMAIN index : index[i] = NoKey
    ELSE made = live /\ filed /\ \A i \in DOMAIN index : index[i] = live

\* Once everything has come to rest, the resource's preview, versions and index
\* are those of the content it serves, or something on the row says they may
\* not be: a run that was stopped or failed, a step that failed, the content
\* index mark, a job that lies dead in the queue. No replacement that arrived while a run was working is left
\* unprocessed with nothing to show for it. (A write that strayed into the index
\* is the one thing nothing records: docs/pipeline.md section 3, the window.)
NothingForgotten ==
    Quiet => \/ status # "complete" \/ flaws # {} \/ due \/ strayed \/ buried
             \/ Current

\* contentIndexed is the run's record that these bytes are in the content
\* index, and a run reads it to decide it has nothing to index again: with
\* nothing at work and no mark raised, the record holds
\* (content-index-record.ts).
IndexedRecordTrue ==
    (Quiet /\ filed /\ made = live /\ ~due /\ ~strayed)
        => \A i \in DOMAIN index : index[i] = live

\* A resource whose worker, or whose job, died holding it is recovered without
\* anyone stepping in: every job waiting for it is run in the end.
SelfHealing == <>[](\A k \in Kinds : waiting[k] = 0)

\* What was uploaded is processed, or a run of it says why not, or a job that
\* ran out of attempts does.
UploadsProcessed ==
    \A k \in Key : (up = "promoted" /\ live = k) ~>
        (live # k \/ made = k \/ status \in {"error", "cancelled"} \/ flaws # {} \/ buried)

=============================================================================
