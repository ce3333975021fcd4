---------------------------- MODULE LakeCatalog ----------------------------
(* One resource's tables in the lake, ADR-067: data files in the bucket, a   *)
(* catalog object that says which of them each snapshot reads, the pointer   *)
(* resource_pipeline.lake_catalog_key that makes one catalog the resource's, *)
(* and the snapshot numbers on the version rows. A write is many steps       *)
(* outside any transaction and one commit; what it leaves when it does not   *)
(* get there, the next writer clears.                                        *)
(*                                                                           *)
(* An object is never rewritten, so its key stands for its content: a data   *)
(* file is the version whose rows it holds, a catalog the files it reads in  *)
(* the order they were loaded. A load's snapshot is its place in that order. *)
(* A name nobody knows any more may be given again.                          *)
EXTENDS Naturals, Sequences, FiniteSetsExt, Functions

CONSTANTS
    Workers,        \* worker processes, one job each at a time
    MaxVersion,     \* bound: versions of the resource
    Purgeable,      \* versions a user may have purged
    FailureLimit,   \* LAKE_INGEST_FAILURE_LIMIT
    MaxFaults,      \* bound: how often something goes wrong
    Faults          \* what may go wrong in this instance

Versions == 1..MaxVersion

ASSUME BoundsAssumption ==
    MaxVersion \in Nat \ {0} /\ FailureLimit \in Nat \ {0} /\ MaxFaults \in Nat
ASSUME NatureAssumption ==
    Purgeable \subseteq Versions
ASSUME FaultsAssumption ==
    Faults \subseteq {"crash", "stall", "load", "read", "answer", "delete", "stop", "damage",
               "cancel", "rerun", "late", "badKey"}
ASSUME WorkersAssumption == IsFiniteSet(Workers) /\ Workers \cap {"free", "dead"} = {}

VARIABLES
    row,        \* resource_version, as far as the lake is concerned
    pointer,    \* resource_pipeline.lake_catalog_key
    bucket,     \* the objects under the resource's prefix
    ledger,     \* orphaned_object: the catalogs on it
    claim,      \* claim_owner; idle: not touched for fifteen minutes
    leased,     \* versions handed out within the hour (lake_ingest_queued_at)
    waiting,    \* the resource's jobs in the queue (copies of one are one)
    act,        \* what each worker is at
    left,       \* data files left by an attempt that died or was stopped
    lost,       \* objects somebody else destroyed
    faults      \* faults so far, for the bound

vars == <<row, pointer, bucket, ledger, claim, leased, waiting, act, left, lost, faults>>

----------------------------------------------------------------------------
\* Objects and names.
Nil == [gen |-> 0, reads |-> <<>>]                    \* no catalog
File(g, v, n) == [gen |-> g, of |-> v, n |-> n]
Catalog(g, fs) == [gen |-> g, reads |-> fs]
IsFile(o) == "of" \in DOMAIN o
Reads(c) == Range(c.reads)

\* Everything a process can still name: what is not here was forgotten.
Mentioned ==
    UNION {bucket, ledger, left, lost, {pointer}, Reads(pointer),
           UNION {Reads(c) : c \in {o \in bucket \cup ledger : ~IsFile(o)}},
           UNION {act[w].doomed \cup Range(act[w].draft) \cup {act[w].known, act[w].from,
                  Catalog(act[w].gen, <<>>)} \cup Reads(act[w].known) : w \in Workers}}
Unused(taken) == Min((1..(Cardinality(taken) + 1)) \ taken)
NewName == Unused({o.n : o \in {o \in Mentioned : IsFile(o)}})
NewGeneration == Unused({o.gen : o \in Mentioned})

\* lakeDataPrefix, lakeCatalogFileNames: what the pointer's catalog needs.
Whole(c) == c = Nil \/ (c \in bucket /\ Reads(c) \subseteq bucket)

----------------------------------------------------------------------------
\* The version rows.
NoRow == [state |-> "none", kind |-> "table", snap |-> 0, refused |-> FALSE, noTable |-> FALSE,
          failures |-> 0]

\* lakeLoadable: an active version not refused.
Loadable(v) == row[v].state = "active" /\ ~row[v].refused

\* rebuildLoads: less what a rebuild found no table in.
RebuildLoads(v) == Loadable(v) /\ ~row[v].noTable

\* pendingLakeIngestQuery: not loaded yet.
Outstanding == {v \in Versions : Loadable(v) /\ row[v].snap = 0}

\* lakeNeedsRebuild: a version not loaded, with a later one to load after it.
NeedsRebuild ==
    \E v \in Outstanding : RebuildLoads(v) /\ \E u \in Versions : u > v /\ RebuildLoads(u)

----------------------------------------------------------------------------
\* Jobs and the claim.
Ingest(v) == [type |-> "ingest", v |-> v]
Purge(v) == [type |-> "purge", v |-> v]
RunOf(v) == [type |-> "run", v |-> v]
Rebuild == [type |-> "rebuild", v |-> 0]
NoJob == [type |-> "none", v |-> 0]

Free == [by |-> "free", idle |-> FALSE]
Held(w) == claim.by = w
Takeable == claim.by = "free" \/ claim.idle

Idle == [pc |-> "idle", job |-> NoJob, gen |-> 0, from |-> Nil, draft |-> <<>>, known |-> Nil,
         doomed |-> {}, todo |-> {}, refused |-> {}, out |-> "none"]

\* The first version is in, or is still to be loaded: what a resource the shared
\* catalog held starts from.
Loaded ==
    LET first == Catalog(1, <<File(1, 1, 1)>>)
    IN  /\ row = [v \in Versions |->
               IF v = 1 THEN [NoRow EXCEPT !.state = "active", !.snap = 1] ELSE NoRow]
        /\ pointer = first /\ bucket = {first} \cup Reads(first)
ToLoad ==
    /\ \E k \in {"table", "noTable"} :
          row = [v \in Versions |->
                    IF v = 1 THEN [NoRow EXCEPT !.state = "active", !.kind = k] ELSE NoRow]
    /\ pointer = Nil /\ bucket = {}

Init ==
    /\ Loaded \/ ToLoad
    /\ ledger = {} /\ claim = Free /\ leased = {} /\ waiting = {}
    /\ act = [w \in Workers |-> Idle]
    /\ left = {} /\ lost = {} /\ faults = 0

Fault(kind) == kind \in Faults /\ faults < MaxFaults /\ faults' = faults + 1

Set(w, a) == act' = [act EXCEPT ![w] = a]
Goto(w, pc) == Set(w, [act[w] EXCEPT !.pc = pc])
Ends(w) == Set(w, Idle)
TakeClaim(w) == claim' = [by |-> w, idle |-> FALSE]
At(w, pc) == act[w].pc = pc
On(w, types) == act[w].job.type \in types
Kept == UNCHANGED <<row, pointer, bucket, ledger>>

\* The writer is through, with everything it had in its hands forgotten.
Over(w, out) == Set(w, [Idle EXCEPT !.pc = "release", !.job = act[w].job, !.out = out])

\* The work failed: a writer clears what it leaves first (the catch around it).
Aborts(w) == Set(w, [act[w] EXCEPT !.pc = "clear", !.out = "failed"])

----------------------------------------------------------------------------
\* A run files a version, or comes by one whose load failed before, under its
\* claim (process-resource.ts; the rest of the run is in ResourceRuns).
StartRun(w) ==
    /\ At(w, "idle") /\ Takeable
    /\ \E v \in Versions :
          /\ \A u \in Versions : u > v => row[u].state = "none"
          /\ \/ row[v].state = "none" /\ (v > 1 => row[v - 1].state # "none")
                /\ \/ row' = [row EXCEPT ![v].state = "active"] /\ UNCHANGED faults
                   \/ /\ Fault("badKey")
                      /\ row' = [row EXCEPT ![v].state = "active", ![v].kind = "badKey"]
             \/ v \in Outstanding /\ Fault("rerun") /\ UNCHANGED row
          /\ Set(w, [Idle EXCEPT !.pc = "ask", !.job = RunOf(v)])
    /\ TakeClaim(w)
    /\ UNCHANGED <<leased, pointer, bucket, ledger, waiting, left, lost>>

\* retryLakeIngest: nothing outstanding, it hands on; a version left behind a later
\* one, the rebuild is asked for instead. Both are asked again under the claim.
StartIngest(w) ==
    /\ At(w, "idle")
    /\ \E j \in waiting :
          /\ j.type = "ingest"
          /\ \/ /\ j.v \notin Outstanding
                /\ waiting' = waiting \ {j}
                /\ Set(w, [Idle EXCEPT !.pc = "chain", !.job = j])
                /\ UNCHANGED claim
             \/ /\ j.v \in Outstanding /\ NeedsRebuild
                /\ waiting' = (waiting \ {j}) \cup {Rebuild}
                /\ UNCHANGED <<act, claim>>
             \/ /\ j.v \in Outstanding /\ ~NeedsRebuild /\ Takeable
                /\ TakeClaim(w)
                /\ waiting' = waiting \ {j}
                /\ Set(w, [Idle EXCEPT !.pc = "ask", !.job = j])
    /\ UNCHANGED <<leased, left, lost, faults>> /\ Kept

\* withResourceClaims: held by another, a job goes back to the queue, as it was.
StartOther(w) ==
    /\ At(w, "idle") /\ Takeable
    /\ \E j \in waiting :
          /\ j.type \in {"rebuild", "purge"}
          /\ waiting' = waiting \ {j}
          /\ Set(w, [Idle EXCEPT !.pc = IF j.type = "rebuild" THEN "decide" ELSE "check", !.job = j])
    /\ TakeClaim(w)
    /\ UNCHANGED <<leased, left, lost, faults>> /\ Kept

\* The interpretation, then ctx.ingestLakeVersion: no table, nothing to load; a
\* version left behind, a rebuild is queued; loaded meanwhile, or overtaken, not
\* loaded again. A run asks for its claim first.
Stands(u) == row[u].state = "active" /\ row[u].snap # 0
Overtaken(v) == \E u \in Versions : u > v /\ Stands(u)
Ask(w) ==
    /\ At(w, "ask")
    /\ LET v == act[w].job.v
           goes == row[v].kind # "noTable" /\ (On(w, {"run"}) => Held(w))
           loads == row[v].state = "active" /\ row[v].snap = 0 /\ ~Overtaken(v)
       IN  /\ waiting' = IF goes /\ NeedsRebuild THEN waiting \cup {Rebuild} ELSE waiting
           /\ Goto(w, IF goes /\ ~NeedsRebuild /\ loads THEN "open" ELSE "release")
    /\ UNCHANGED <<leased, claim, left, lost, faults>> /\ Kept

----------------------------------------------------------------------------
\* ingestVersionIntoResourceCatalog
\* The pointer read, its catalog downloaded: a new generation when there is none.
Open(w) ==
    /\ At(w, "open")
    /\ \/ /\ pointer = Nil \/ pointer \in bucket
          /\ Set(w, [act[w] EXCEPT !.pc = "load", !.from = pointer, !.known = pointer,
                        !.draft = pointer.reads,
                        !.gen = IF pointer = Nil THEN NewGeneration ELSE pointer.gen])
       \/ /\ pointer # Nil /\ pointer \notin bucket
          /\ Over(w, "failed")
    /\ UNCHANGED <<leased, claim, waiting, left, lost, faults>> /\ Kept

\* loadLakeVersion: the data file is in the bucket from here on.
Loads(w, v) ==
    LET f == File(act[w].gen, v, NewName)
    IN  /\ bucket' = bucket \cup {f}
        /\ Set(w, [act[w] EXCEPT !.draft = Append(@, f),
                      !.pc = "publish"])
Load(w) ==
    /\ At(w, "load")
    /\ LET v == act[w].job.v
       IN  \/ /\ row[v].kind # "badKey"
              /\ Loads(w, v) /\ UNCHANGED row
           \/ /\ row[v].kind = "badKey"
              /\ row' = IF Held(w) THEN [row EXCEPT ![v].refused = TRUE] ELSE row
              /\ Goto(w, "release") /\ UNCHANGED bucket
    /\ UNCHANGED <<leased, pointer, ledger, claim, waiting, left, lost, faults>>

\* The load throws, having written its file or not; or the worker is stopping.
LoadErrs(w) ==
    /\ At(w, "load") \/ At(w, "publish")
    /\ \/ Fault("load") /\ Aborts(w)
       \/ Fault("stop") /\ Set(w, [act[w] EXCEPT !.pc = "clear", !.out = "stopped"])
    /\ UNCHANGED <<leased, claim, waiting, left, lost>> /\ Kept

\* reserveObject, and draft.publish
Draft(w) == IF act[w].draft = <<>> THEN Nil ELSE Catalog(act[w].gen, act[w].draft)
Publish(w) ==
    /\ At(w, "publish")
    /\ ledger' = ledger \cup {Draft(w)} /\ bucket' = bucket \cup {Draft(w)}
    /\ Goto(w, "commit")
    /\ UNCHANGED <<leased, row, pointer, claim, waiting, left, lost, faults>>

\* commitLakeCatalog, one transaction.
Commits(w) == pointer = act[w].from /\ Held(w)
\* Mistake: a rebuild records what it loaded and leaves the other numbers alone.
RecordedOnTop(w) ==
    LET d == act[w].draft IN
    [v \in Versions |->
        LET at == {i \in DOMAIN d : d[i].of = v} IN
        IF at = {} THEN row[v] ELSE [row[v] EXCEPT !.snap = CHOOSE i \in at : TRUE]]

Recorded(w) ==
    LET d == act[w].draft
        ing == On(w, {"ingest", "run"})
    IN  [v \in Versions |->
           LET at == {i \in DOMAIN d : d[i].of = v /\ (ing => i = Len(d))}
           IN  [row[v] EXCEPT
                  !.snap = IF at # {} THEN CHOOSE i \in at : TRUE ELSE IF ing THEN @ ELSE 0,
                  !.refused = @ \/ <<v, "refused">> \in act[w].refused,
                  !.noTable = @ \/ <<v, "noTable">> \in act[w].refused]]
Moves(w) ==
    /\ Commits(w)
    /\ pointer' = Draft(w)
    /\ row' = Recorded(w)
    /\ ledger' = (ledger \cup ({pointer} \ {Nil})) \ {Draft(w)}
Commit(w) ==
    /\ At(w, "commit")
    /\ \/ /\ Moves(w)
          /\ Set(w, [act[w] EXCEPT !.pc = "clear", !.out = "done", !.refused = {},
                        !.known = IF On(w, {"ingest", "run"}) THEN Draft(w) ELSE Nil])
          /\ UNCHANGED faults
       \/ /\ Fault("answer") /\ Moves(w) /\ Aborts(w)
       \/ /\ ~Commits(w) /\ Aborts(w)
          /\ UNCHANGED <<row, pointer, ledger, faults>>
    /\ UNCHANGED <<leased, bucket, claim, waiting, left, lost>>

----------------------------------------------------------------------------
\* clearLakeLeftovers: the claim touched and the pointer read, the listing, both
\* asked again, the deletion. from is the pointer it read.
Clears(w) == Held(w) /\ (act[w].known # Nil => act[w].known = pointer)

\* What a load that stops here leaves in the bucket with nobody bound to come back:
\* its files, or, its clearing failed, the ones it asked a job to clear.
Debris(w) ==
    IF ~On(w, {"ingest", "run"}) THEN {}
    ELSE (IF act[w].out = "failed" THEN {o \in bucket : IsFile(o)}
          ELSE Range(act[w].draft) \cap bucket) \ Reads(pointer)

Cleared(w) ==
    IF act[w].job.type = "purge" /\ act[w].out = "done"
    THEN Set(w, [Idle EXCEPT !.pc = "finish", !.job = act[w].job, !.out = "done"])
    ELSE Over(w, act[w].out)
NotCleared(w) ==
    LET committed == act[w].out = "done" /\ On(w, {"ingest", "run"})
    IN  /\ waiting' = IF committed THEN waiting \cup {Rebuild} ELSE waiting
        /\ Over(w, IF act[w].out \in {"done", "cleared"} /\ ~committed THEN "failed" ELSE act[w].out)
        /\ left' = IF On(w, {"run"}) /\ ~Held(w) THEN left \cup Debris(w) ELSE left
Touch == claim' = [claim EXCEPT !.idle = FALSE]
Touched(w) == IF Held(w) THEN Touch ELSE UNCHANGED claim

Clear(w) ==
    /\ At(w, "clear")
    /\ Touched(w)
    /\ \/ Clears(w) /\ Set(w, [act[w] EXCEPT !.pc = "list", !.from = pointer])
          /\ UNCHANGED <<waiting, left>>
       \/ ~Clears(w) /\ NotCleared(w)
    /\ UNCHANGED <<leased, lost, faults>> /\ Kept

\* Mistake: only other generations are cleared.
LeftoverGeneration(w, o) == act[w].from = Nil \/ o.gen # act[w].from.gen

Leftover(w, o) ==
    \/ act[w].from = Nil \/ o.gen # act[w].from.gen
    \/ act[w].known # Nil /\ IsFile(o) /\ o \notin Reads(act[w].known)
List(w) ==
    /\ At(w, "list")
    /\ LET doomed == {o \in bucket : Leftover(w, o)}
       IN  \/ doomed = {} /\ Cleared(w)
           \/ doomed # {} /\ Set(w, [act[w] EXCEPT !.pc = "recheck", !.doomed = doomed])
    /\ UNCHANGED <<claim, leased, waiting, left, lost, faults>> /\ Kept

\* Mistake: what was listed is deleted, with nothing asked again.
RecheckNothing(w) ==
    /\ At(w, "recheck")
    /\ Touched(w) /\ Goto(w, "delete")
    /\ UNCHANGED <<leased, waiting, left, lost, faults>> /\ Kept

Recheck(w) ==
    /\ At(w, "recheck")
    /\ Touched(w)
    /\ \/ /\ Held(w) /\ pointer = act[w].from
          /\ Goto(w, "delete") /\ UNCHANGED <<waiting, left>>
       \/ ~(Held(w) /\ pointer = act[w].from) /\ NotCleared(w)
    /\ UNCHANGED <<leased, lost, faults>> /\ Kept
Delete(w) ==
    /\ At(w, "delete")
    /\ \/ /\ bucket' = bucket \ act[w].doomed /\ left' = left \cap bucket'
          /\ Cleared(w) /\ UNCHANGED <<waiting, faults>>
       \/ /\ Fault("delete")
          /\ \E kept \in act[w].doomed : bucket' = bucket \ (act[w].doomed \ {kept})
          /\ NotCleared(w)
    /\ UNCHANGED <<leased, row, pointer, ledger, claim, lost>>

----------------------------------------------------------------------------
\* rebuildResourceLake: everything layer 1 has, into a new generation.
Rebuilds(w) ==
    [act[w] EXCEPT !.pc = "read", !.from = pointer, !.gen = NewGeneration,
                   !.todo = {v \in Versions : RebuildLoads(v)}]

\* rebuildLakeCatalog, under the claim: rebuild, or clear around a whole catalog.
Decide(w) ==
    /\ At(w, "decide")
    /\ Set(w, IF NeedsRebuild \/ ~Whole(pointer) THEN Rebuilds(w)
              ELSE [act[w] EXCEPT !.pc = "clear", !.out = "cleared", !.known = pointer])
    /\ UNCHANGED <<claim, leased, waiting, left, lost, faults>> /\ Kept

\* One version after another, the claim touched before each.
Refuse(w, v, why) ==
    Set(w, [act[w] EXCEPT !.todo = @ \ {v}, !.refused = @ \cup {<<v, why>>}])
Read(w) ==
    /\ At(w, "read") /\ act[w].todo # {} /\ Held(w)
    /\ Touch
    /\ LET v == Min(act[w].todo)
           f == File(act[w].gen, v, NewName)
       IN  \/ /\ row[v].kind = "noTable"
              /\ Refuse(w, v, "noTable") /\ UNCHANGED <<bucket, faults>>
           \/ /\ row[v].kind = "badKey"
              /\ Refuse(w, v, "refused") /\ UNCHANGED <<bucket, faults>>
           \/ /\ row[v].kind = "table"
              /\ bucket' = bucket \cup {f}
              /\ Set(w, [act[w] EXCEPT !.draft = Append(@, f), !.todo = @ \ {v}])
              /\ UNCHANGED faults
           \/ /\ Fault("read") /\ (Refuse(w, v, "refused") \/ Aborts(w)) /\ UNCHANGED bucket
    /\ UNCHANGED <<row, pointer, ledger, leased, waiting, left, lost>>

\* The claim is gone, or all the versions are in.
ReadEnds(w) ==
    /\ At(w, "read")
    /\ \/ act[w].todo # {} /\ ~Held(w) /\ Aborts(w)
       \/ act[w].todo = {} /\ Goto(w, IF act[w].draft = <<>> THEN "commit" ELSE "publish")
    /\ UNCHANGED <<claim, leased, waiting, left, lost, faults>> /\ Kept

----------------------------------------------------------------------------
\* purgeVersion, as far as the lake goes.
Check(w) ==
    /\ At(w, "check")
    /\ LET r == row[act[w].job.v]
       IN  Set(w, IF r.state # "purging" THEN [act[w] EXCEPT !.pc = "release"]
                  ELSE IF r.snap # 0 THEN Rebuilds(w)
                  ELSE [act[w] EXCEPT !.pc = "clear", !.out = "done"])
    /\ UNCHANGED <<leased, claim, waiting, left, lost, faults>> /\ Kept
Finish(w) ==
    /\ At(w, "finish")
    /\ row' = [row EXCEPT ![act[w].job.v].state = "purged", ![act[w].job.v].snap = 0]
    /\ Goto(w, "release")
    /\ UNCHANGED <<leased, pointer, bucket, ledger, claim, waiting, left, lost, faults>>

----------------------------------------------------------------------------
\* Mistake: only a run gives its claim back.
ReleaseOfRun(w) ==
    /\ At(w, "release")
    /\ waiting' = IF On(w, {"run"}) /\ act[w].out = "failed"
                  THEN waiting \cup {Ingest(act[w].job.v)} ELSE waiting
    /\ claim' = IF Held(w) /\ On(w, {"run"}) THEN Free ELSE claim
    /\ IF On(w, {"run"}) THEN Ends(w) ELSE Goto(w, "chain")
    /\ UNCHANGED <<leased, left, lost, faults>> /\ Kept

\* A run queues the retry of a load that failed, on its way; then the claim is
\* given back, if it is still this one's (releaseResourceClaims).
Release(w) ==
    /\ At(w, "release")
    /\ waiting' = IF On(w, {"run"}) /\ act[w].out = "failed"
                  THEN waiting \cup {Ingest(act[w].job.v)} ELSE waiting
    /\ claim' = IF Held(w) THEN Free ELSE claim
    /\ IF On(w, {"run"}) THEN Ends(w) ELSE Goto(w, "chain")
    /\ UNCHANGED <<leased, left, lost, faults>> /\ Kept

\* queueNextPendingLakeIngest: the oldest outstanding one but the one handled,
\* unless it was handed out within the hour.
Due(others) == {v \in others : \A u \in others : v <= u} \ leased
Hands(v) == waiting' = waiting \cup {Ingest(v)} /\ leased' = leased \cup {v}
HandOn(handled) ==
    LET due == Due(Outstanding \ {handled})
    IN  \/ \E v \in due : Hands(v)
        \/ due = {} /\ UNCHANGED <<waiting, leased>>

\* recordLakeIngestFailure; failures of one hour count once.
Failed(v) ==
    \/ /\ v \notin Outstanding /\ UNCHANGED row
    \/ /\ v \in Outstanding
       /\ \E counted \in BOOLEAN :
             /\ row[v].failures = 0 => counted
             /\ LET n == row[v].failures + IF counted THEN 1 ELSE 0
                IN  row' = [row EXCEPT ![v].failures = n, ![v].refused = n >= FailureLimit]

\* What the job comes to, once the claim is given back.
EndJob(w) ==
    /\ At(w, "chain")
    /\ Ends(w)
    /\ LET j == act[w].job
           out == act[w].out
       IN  \/ /\ out = "stopped" \/ (out = "failed" /\ j.type # "ingest")
              /\ waiting' = waiting \cup {j} /\ UNCHANGED <<row, leased>>
           \/ /\ out = "failed" /\ j.type = "ingest"
              /\ Failed(j.v) /\ waiting' = waiting \cup {Rebuild} /\ UNCHANGED leased
           \/ /\ out \in {"none", "done"} /\ j.type \in {"ingest", "rebuild"}
              /\ HandOn(j.v) /\ UNCHANGED row
           \/ /\ \/ out = "cleared"
                 \/ out \in {"none", "done"} /\ j.type = "purge"
              /\ UNCHANGED <<row, waiting, leased>>
    /\ UNCHANGED <<pointer, bucket, ledger, claim, left, lost, faults>>

----------------------------------------------------------------------------
\* claimPurge: one at a time.
ClaimPurge(v) ==
    /\ v \in Purgeable /\ row[v].state = "active"
    /\ \A u \in Versions : row[u].state # "purging"
    /\ row' = [row EXCEPT ![v].state = "purging"]
    /\ waiting' = waiting \cup {Purge(v)}
    /\ UNCHANGED <<leased, pointer, bucket, ledger, claim, act, left, lost, faults>>

\* cancelResourceRun: the claim of a run is taken from it.
Cancel ==
    /\ \E w \in Workers : Held(w) /\ On(w, {"run"})
    /\ Fault("cancel")
    /\ claim' = Free
    /\ UNCHANGED <<leased, waiting, act, left, lost>> /\ Kept

\* A diff that finds the catalog unreadable.
Diff ==
    /\ ~Whole(pointer)
    /\ waiting' = waiting \cup {Rebuild}
    /\ UNCHANGED <<leased, claim, act, left, lost, faults>> /\ Kept

\* queuePendingLakeIngests: the oldest one, every hour.
Sweep ==
    /\ \E v \in Due(Outstanding) : Hands(v)
    /\ UNCHANGED <<claim, act, left, lost, faults>> /\ Kept

\* An hour is over: the jobs it handed out are through, or (late) still waiting.
Lapse ==
    /\ leased # {}
    /\ \/ waiting = {} /\ (\A w \in Workers : At(w, "idle")) /\ UNCHANGED faults
       \/ Fault("late")
    /\ leased' = {}
    /\ UNCHANGED <<claim, waiting, act, left, lost>> /\ Kept

\* The orphan sweep, an hour after the key was put there: longer than any writer
\* holds on to a key it has read or reserved.
SweepCatalog(c) ==
    /\ c \in ledger /\ c # pointer
    /\ \A w \in Workers : At(w, "idle")
    /\ bucket' = bucket \ {c} /\ ledger' = ledger \ {c}
    /\ UNCHANGED <<leased, row, pointer, claim, waiting, act, left, lost, faults>>

\* A worker dies: its job comes back when the lease lapses, its claim goes stale.
Crash(w) ==
    /\ ~At(w, "idle") /\ Fault("crash")
    /\ Ends(w)
    /\ claim' = IF Held(w) THEN [claim EXCEPT !.by = "dead"] ELSE claim
    /\ left' = left \cup Debris(w)
    /\ waiting' = IF On(w, {"run"}) THEN waiting ELSE waiting \cup {act[w].job}
    /\ UNCHANGED <<leased, lost>> /\ Kept
GoStale ==
    /\ claim.by # "free" /\ ~claim.idle
    /\ \/ claim.by = "dead" /\ UNCHANGED faults
       \/ claim.by # "dead" /\ Fault("stall")
    /\ claim' = [claim EXCEPT !.idle = TRUE]
    /\ UNCHANGED <<leased, waiting, act, left, lost>> /\ Kept

\* Objects destroyed from outside: by hand, a downgrade, a restored bucket.
Damage ==
    /\ Fault("damage")
    /\ \E o \in bucket \cap ({pointer} \cup Reads(pointer)) :
          bucket' = bucket \ {o} /\ lost' = lost \cup {o}
    /\ UNCHANGED <<leased, row, pointer, ledger, claim, waiting, act, left>>

----------------------------------------------------------------------------
WriterStep(w) ==
    \/ Ask(w) \/ Open(w) \/ Load(w) \/ Publish(w) \/ Commit(w)
    \/ Clear(w) \/ List(w) \/ Recheck(w) \/ Delete(w)
    \/ Decide(w) \/ Read(w) \/ ReadEnds(w)
    \/ Check(w) \/ Finish(w) \/ Release(w) \/ EndJob(w)
Next ==
    \/ \E w \in Workers :
          StartRun(w) \/ StartIngest(w) \/ StartOther(w) \/ WriterStep(w)
          \/ LoadErrs(w) \/ Crash(w)
    \/ \E v \in Versions : ClaimPurge(v)
    \/ Cancel \/ Diff \/ Sweep \/ Lapse \/ GoStale \/ Damage
    \/ \E c \in ledger : SweepCatalog(c)

Spec == Init /\ [][Next]_vars

FairSpec ==
    /\ Spec
    /\ \A w \in Workers :
          /\ WF_vars(WriterStep(w))
          /\ SF_vars(StartIngest(w)) /\ SF_vars(StartOther(w))
    /\ WF_vars(Sweep) /\ WF_vars(Lapse) /\ WF_vars(GoStale)

----------------------------------------------------------------------------
\* The snapshot a version row records is where the resource's catalog has that
\* version's rows: a diff of two versions compares what it says it compares
\* (commitLakeCatalog: the pointer moves from the catalog the draft was built on,
\* and the snapshots with it).
SnapshotsTrue ==
    \A v \in Versions : row[v].snap # 0 =>
        /\ row[v].snap \in DOMAIN pointer.reads
        /\ pointer.reads[row[v].snap].of = v

\* The other way round: the catalog is in the bucket with all it reads, reads the
\* rows of no version but those recorded in it, so of none that is purged, and has
\* the active ones in version order, whoever loses its claim half-way
\* (ingestVersionIntoResourceCatalog, rebuildResourceLake, clearLakeLeftovers).
CatalogTrue ==
    pointer # Nil =>
        /\ {pointer} \cup Reads(pointer) \subseteq bucket \cup lost
        /\ \A i \in DOMAIN pointer.reads : row[pointer.reads[i].of].snap = i
        /\ \A u, v \in Versions :
              (u < v /\ Stands(u) /\ Stands(v)) => row[u].snap < row[v].snap

\* With nothing under way and nothing owed, the bucket holds what the pointer
\* needs, what the orphan sweep will take, and what a load that died left behind:
\* of a purged version nothing but the last (clearLakeLeftovers, ADR-067).
Quiet == waiting = {} /\ Outstanding = {} /\ \A w \in Workers : At(w, "idle")
Needed == IF pointer = Nil THEN {} ELSE {pointer} \cup Reads(pointer)
NothingLittered ==
    Quiet =>
        /\ bucket \subseteq Needed \cup ledger \cup left
        /\ \A o \in bucket \ left : IsFile(o) => row[o.of].state # "purged"

\* Every version with a table gets into the catalog or is refused in the end,
\* through failures, a destroyed catalog and lost claims; a purge in the queue
\* gets done (the sweep, the hand-on, the rebuild a failure queues).
BacklogDrains ==
    <>[]/\ \A v \in Outstanding : row[v].kind = "noTable"
        /\ \A v \in Versions : row[v].state # "purging"
        /\ Rebuild \notin waiting
=============================================================================
