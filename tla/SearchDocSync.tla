---------------------------- MODULE SearchDocSync ----------------------------
(***************************************************************************)
(* The search documents of a dataset and its resources, and the marks      *)
(* (doc_sync_due_at) that say a row's document is to be written again.     *)
(* A write of a row marks it in its own transaction; whoever holds         *)
(* SEARCH_DOC_SYNC_LOCK then brings the index in line, and clears a mark   *)
(* only if it is still the one it read.  Requests write what they marked   *)
(* if the lock is free, and ask the sync job for the rest; a sweep asks    *)
(* again for what nobody heard of.  A rename of the organization, whose    *)
(* name the dataset's document carries, holds its transaction open.        *)
(*                                                                         *)
(* A transaction that marks a row gives it the content and the mark of its *)
(* own number: two marks are the same only if one transaction set both.    *)
(***************************************************************************)
EXTENDS Integers, Sequences, FiniteSets

CONSTANTS
    dataset, Resources,   \* the documents
    Requests, Workers,    \* of the API; of the job queue
    Nobody,
    Batch,                \* DOC_SYNC_BATCH
    Rejected,             \* documents the index refuses whenever they are sent
    Ops,                  \* what is asked for: see Commit
    Faults,               \* what may go wrong: "index", "queue", "crash"
    MaxCommits, MaxFaults \* bounds on transactions and faults

Docs == Resources \cup {dataset}
Actors == Requests \cup Workers

ASSUME SyncAssumption ==
    /\ {Batch, MaxCommits, MaxFaults} \subseteq Nat /\ Batch > 0
    /\ dataset \notin Resources /\ IsFiniteSet(Resources)
    /\ Nobody \notin Actors /\ Requests \cap Workers = {}

VARIABLES
    row,      \* row[d]: [state, text, due], text the number of its last transaction
    org,      \* [name, rename, joined]: the rename's progress, who its marks are for
    index,    \* index[d]: [text, org], or Nothing
    lock,     \* who holds SEARCH_DOC_SYNC_LOCK
    act,      \* act[a]: where an actor is, see Actor
    waiting,  \* a sync job waits in the queue
    clock,    \* number of transactions that marked something
    faults    \* how many things went wrong

vars == <<row, org, index, lock, act, waiting, clock, faults>>

Nothing == [text |-> -1, org |-> -1]
Content == [text : -1..MaxCommits, org : -1..MaxCommits]

\* A batch still to be written: of which rows, how, and whether it waits for the lock.
\* "sync" clears marks; "copy" and "drop" are the rebuild's; "purge" removes.
Part == [scope : SUBSET Docs, how : {"sync", "copy", "drop", "purge"}, waits : BOOLEAN]
\* What was read of a row, and what is to be done about its document.
Reading == [do : {"write", "remove", "clear"}, content : Content, mark : 0..MaxCommits]

Actor == [pc : {"idle", "list", "lock", "read", "build", "write", "settle", "ask", "rows"},
          todo : Seq(Part), read : UNION {[D -> Reading] : D \in SUBSET Docs},
          skip : SUBSET Docs, again : SUBSET Docs, since : 0..MaxCommits]

Idle == [pc |-> "idle", todo |-> <<>>, read |-> <<>>, skip |-> {}, again |-> {}, since |-> 0]

TypeOK ==
    /\ row \in [Docs -> [state : {"absent", "draft", "active", "deleted", "purging", "gone"},
                         text : 0..MaxCommits, due : BOOLEAN]]
    /\ org \in [name : 0..MaxCommits, rename : {"none", "marked", "taken"},
                joined : BOOLEAN, locks : BOOLEAN]
    /\ index \in [Docs -> Content]
    /\ lock \in Actors \cup {Nobody}
    /\ act \in [Actors -> Actor]
    /\ \A q \in Requests : act[q].pc # "list"
    /\ \A w \in Workers : act[w].pc \notin {"ask", "rows"}
    /\ waiting \in BOOLEAN
    /\ clock \in 0..MaxCommits /\ faults \in 0..MaxFaults

State(d) == row[d].state

\* indexedResource; a dataset's own document is there while it is active.
Live(d) == State(d) = "active" /\ State(dataset) = "active"

\* What the document says: resourceDocColumns; buildDatasetDocs joins the organization.
Now(d) == [text |-> row[d].text, org |-> IF d = dataset THEN org.name ELSE 0]

Wanted(d) == IF Live(d) THEN Now(d) ELSE Nothing

Init ==
    /\ \E s \in {"absent", "draft", "active", "deleted"} :
          row = [d \in Docs |->
                    [state |-> IF d = dataset THEN s
                               ELSE IF s = "absent" THEN "absent" ELSE "active",
                     text |-> 0, due |-> FALSE]]
    /\ org = [name |-> 0, rename |-> "none", joined |-> FALSE, locks |-> FALSE]
    /\ index = [d \in Docs |-> Wanted(d)]
    /\ lock = Nobody
    /\ act = [a \in Actors |-> Idle]
    /\ waiting = FALSE
    /\ clock = 0 /\ faults = 0

Fault(kind) == kind \in Faults /\ faults < MaxFaults /\ faults' = faults + 1

-----------------------------------------------------------------------------
(* Transactions that mark *)

\* The dataset's row, as the rename's transaction leaves it to others.
RowFree == ~org.locks

\* Bound: transactions; a rename begun has one of them to itself.
Counted == clock + (IF org.rename = "none" THEN 0 ELSE 1) < MaxCommits

\* D's rows written, and marked where due; the content is this transaction's.
Mark(D, to, due) ==
    /\ Counted
    /\ clock' = clock + 1
    /\ row' = [d \in Docs |-> IF d \in D THEN [state |-> to[d], text |-> clock + 1, due |-> due[d]]
                              ELSE row[d]]

Same == [d \in Docs |-> State(d)]
All == [d \in Docs |-> TRUE]
ActiveResources == {r \in Resources : State(r) = "active"}

Sync(scope) == [scope |-> scope, how |-> "sync", waits |-> FALSE]
Hiding(scope) == [scope |-> scope, how |-> "sync", waits |-> TRUE]

\* hidingWaiters: one such edit at a time waits for the lock, and counts until
\* what it did not settle has been asked of the job.
Waiters == {q \in Requests : /\ act[q].todo # <<>>
                             /\ act[q].todo[1].waits /\ act[q].todo[1].how = "sync"}
MayWait(scope) == IF Waiters = {} THEN Hiding(scope) ELSE Sync(scope)

\* The request goes on to write the documents of what it committed.
Then(q, todo) ==
    /\ act' = [act EXCEPT ![q] = [Idle EXCEPT !.pc = IF todo = <<>> THEN "ask" ELSE "lock",
                                              !.todo = todo, !.since = clock']]
    /\ UNCHANGED <<org, index, lock, waiting, faults>>

\* PackageService.create, createDraft: a draft is not marked, its resources are.
Create(q) ==
    /\ State(dataset) = "absent"
    /\ org.rename # "taken"
    /\ \E s \in {"active", "draft"} :
          Mark(Docs, [d \in Docs |-> IF d = dataset THEN s ELSE "active"],
               [d \in Docs |-> d # dataset \/ s = "active"])
    /\ Then(q, <<Sync({dataset}), Sync(Resources)>>)

\* PUT of a dataset; hides, if fewer may see it now.
EditDataset(q) ==
    /\ State(dataset) \in {"active", "draft"} /\ RowFree
    /\ Mark({dataset}, Same, All)
    /\ \E part \in {Sync({dataset})} \cup
                      (IF State(dataset) = "active" THEN {MayWait({dataset})} ELSE {}) :
          Then(q, <<part>>)

\* ResourceService.update, createMany, setResourceSummary, promoteUpload.
EditResource(q, r) ==
    /\ State(dataset) \in {"active", "draft"}
    /\ State(r) = "active"
    /\ Mark({r}, Same, All)
    /\ Then(q, <<Sync({r})>>)

\* A run's abstract, or a format a version settled: only asked for
\* (enqueueResourceDocSyncIfDue).
EditByRun(q, r) ==
    /\ State(r) = "active"
    /\ Mark({r}, Same, All)
    /\ Then(q, <<>>)

DeleteResource(q, r) ==
    /\ State(dataset) \in {"active", "draft"}
    /\ State(r) = "active"
    /\ Mark({r}, [Same EXCEPT ![r] = "deleted"], All)
    /\ Then(q, <<Sync({r})>>)

\* PackageService.delete, with its resources' marks.
DeleteDataset(q) ==
    /\ State(dataset) = "active" /\ RowFree
    /\ Mark({dataset} \cup ActiveResources, [Same EXCEPT ![dataset] = "deleted"], All)
    /\ Then(q, <<MayWait({dataset}), Sync(Resources)>>)

\* publish, restore; and either sent again to a live dataset (markForSyncRetry).
MakeLive(q) ==
    /\ State(dataset) \in {"draft", "deleted", "active"} /\ RowFree
    /\ Mark({dataset} \cup ActiveResources, [Same EXCEPT ![dataset] = "active"], All)
    /\ Then(q, <<Sync({dataset}), Sync(Resources)>>)

Purging == [scope |-> {dataset}, how |-> "purge", waits |-> TRUE]

\* purge: the documents go first, under the lock, then the rows.
PurgeDeleted(q) ==
    /\ State(dataset) = "deleted"
    /\ act' = [act EXCEPT ![q] = [Idle EXCEPT !.pc = "lock", !.todo = <<Purging>>]]
    /\ UNCHANGED <<row, org, index, lock, waiting, clock, faults>>

\* purgeDraft: claimed for good, "purging".
PurgeDraft(q) ==
    /\ State(dataset) \in {"draft", "purging"} /\ RowFree
    /\ row' = [row EXCEPT ![dataset].state = "purging"]
    /\ act' = [act EXCEPT ![q] = [Idle EXCEPT !.pc = "lock", !.todo = <<Purging>>]]
    /\ UNCHANGED <<org, index, lock, waiting, clock, faults>>

\* The rows are deleted if they are in the state the purge is of, again or still:
\* the text left of them tells the two apart, for the properties.
PurgeRows(q) ==
    LET again == IF row[dataset].text = act[q].since THEN 0 ELSE 1 IN
    /\ act[q].pc = "rows" /\ RowFree
    /\ row' = IF State(dataset) \in {"deleted", "purging"}
              THEN [d \in Docs |-> [state |-> "gone", text |-> again, due |-> FALSE]]
              ELSE row
    /\ act' = [act EXCEPT ![q] = Idle]
    /\ UNCHANGED <<org, index, lock, waiting, clock, faults>>

Commit(q) ==
    /\ act[q].pc = "idle"
    /\ \/ "create" \in Ops /\ Create(q)
       \/ "edit" \in Ops /\ EditDataset(q)
       \/ "edit" \in Ops /\ \E r \in Resources : EditResource(q, r) \/ DeleteResource(q, r)
       \/ "run" \in Ops /\ \E r \in Resources : EditByRun(q, r)
       \/ "delete" \in Ops /\ DeleteDataset(q)
       \/ "live" \in Ops /\ MakeLive(q)
       \/ "purge" \in Ops /\ (PurgeDeleted(q) \/ PurgeDraft(q))

-----------------------------------------------------------------------------
(* OrganizationService.update, with a new name *)

\* The organization's row is locked, and its datasets', live or not.
RenameMark ==
    /\ "rename" \in Ops
    /\ org.rename = "none" /\ Counted
    /\ org' = [org EXCEPT !.rename = "marked", !.joined = State(dataset) = "active",
                          !.locks = State(dataset) \notin {"absent", "gone"}]
    /\ UNCHANGED <<row, index, lock, act, waiting, clock, faults>>

\* Mistake: the datasets that joined since the first look are left out.
RenameTakeOnce ==
    /\ org.rename = "marked"
    /\ org' = [org EXCEPT !.rename = "taken"]
    /\ UNCHANGED <<row, index, lock, act, waiting, clock, faults>>

\* The new name holds the row whole; then the datasets again.
RenameTake ==
    /\ org.rename = "marked"
    /\ org' = [org EXCEPT !.rename = "taken", !.joined = State(dataset) = "active",
                          !.locks = State(dataset) \notin {"absent", "gone"}]
    /\ UNCHANGED <<row, index, lock, act, waiting, clock, faults>>

RenameCommit ==
    /\ org.rename = "taken"
    /\ clock' = clock + 1
    /\ org' = [org EXCEPT !.name = clock + 1, !.rename = "none", !.joined = FALSE,
                          !.locks = FALSE]
    /\ row' = IF org.joined
              THEN [row EXCEPT ![dataset].text = clock + 1, ![dataset].due = TRUE] ELSE row
    /\ \/ waiting' = TRUE /\ UNCHANGED faults
       \/ Fault("queue") /\ UNCHANGED waiting
    /\ UNCHANGED <<index, lock, act>>

-----------------------------------------------------------------------------
(* Whoever holds the lock *)

Part1(a) == act[a].todo[1]

\* Mistake: the next round begins with what was refused again.
AfterUnskipped(a, again, skip) ==
    IF Tail(act[a].todo) # <<>>
    THEN [Idle EXCEPT !.pc = "lock", !.todo = Tail(act[a].todo), !.again = again]
    ELSE IF again = {} THEN Idle
    ELSE [Idle EXCEPT !.pc = "lock",
                      !.todo = IF dataset \in again THEN <<Hiding(again \ {dataset}), Hiding({dataset})>>
                               ELSE <<Hiding(again)>>]

\* The next part, another round of the job for what was left (syncDueSearchDocs),
\* the rows of a purge, or the end.
After(a, again, skip) ==
    LET rest == Tail(act[a].todo)
        at(todo) == IF todo[1].how = "drop" THEN "list" ELSE "lock"
    IN IF rest # <<>> THEN [Idle EXCEPT !.pc = at(rest), !.todo = rest, !.again = again,
                                        !.skip = skip, !.since = act[a].since]
       ELSE IF again = {} THEN Idle
       ELSE [Idle EXCEPT !.pc = "lock", !.skip = skip,
                         !.todo = (IF again \cap Resources = {} THEN <<>>
                                   ELSE <<Hiding(Resources)>>)
                                  \o (IF dataset \in again THEN <<Hiding({dataset})>> ELSE <<>>)]

Asking(a) == [act[a] EXCEPT !.pc = "ask", !.read = <<>>]

Due(scope) == {d \in scope : row[d].due}

\* Mistake: nobody is asked whether the lock is held.
FreeAlways == TRUE

\* tryLockInTransaction or lockInTransaction; a request that finds the lock held
\* and nothing due has nothing to do.
Free == lock = Nobody

TakeLock(a) ==
    /\ act[a].pc = "lock"
    /\ Free
    /\ lock' = a
    /\ act' = [act EXCEPT ![a].pc = "read"]
    /\ UNCHANGED <<row, org, index, waiting, clock, faults>>

\* Mistake: whoever holds the lock is trusted to write this one, too.
LeaveToHolder(a) ==
    /\ act[a].pc = "lock" /\ a \in Requests
    /\ ~Free /\ Part1(a).how = "sync"
    /\ act' = [act EXCEPT ![a] = After(a, {}, {})]
    /\ UNCHANGED <<row, org, index, lock, waiting, clock, faults>>

LeaveToJob(a) ==
    /\ act[a].pc = "lock" /\ a \in Requests
    /\ ~Free /\ Part1(a).how = "sync"
    /\ act' = [act EXCEPT ![a] = IF ~Part1(a).waits /\ Due(Part1(a).scope) = {}
                                 THEN After(a, {}, {}) ELSE Asking(a)]
    /\ UNCHANGED <<row, org, index, lock, waiting, clock, faults>>

\* The rebuild lists a page of what the index holds, outside the lock.
ListIndexed(w) ==
    /\ act[w].pc = "list"
    /\ act' = [act EXCEPT ![w].pc = "lock",
                          ![w].todo[1].scope = {d \in @ : index[d] # Nothing}]
    /\ UNCHANGED <<row, org, index, lock, waiting, clock, faults>>

\* syncMarkedDocs, syncMarkedPackageDocs: what a marked row asks for.
Do(d) ==
    IF Live(d) THEN "write"
    ELSE IF \/ State(dataset) = "draft"
            \/ d = dataset /\ State(d) # "deleted" THEN "clear"
    ELSE "remove"

Seen(do, D) == [d \in D |-> [do |-> do[d], content |-> Now(d), mark |-> row[d].text]]

Oldest(D, B) ==
    /\ B \subseteq D
    /\ Cardinality(B) = IF Cardinality(D) < Batch THEN Cardinality(D) ELSE Batch
    /\ \A d \in B, e \in D \ B : row[d].text <= row[e].text

\* What the rows say, by one statement; of a dataset, what is to be done only.
ReadRows(a) ==
    LET scope == Part1(a).scope how == Part1(a).how
        next(read) == [act EXCEPT ![a].read = read,
                          ![a].pc = IF dataset \in scope /\ how \in {"sync", "copy"}
                                    THEN "build" ELSE "write"]
    IN
    /\ act[a].pc = "read"
    /\ \/ /\ how = "sync"
          /\ \E B \in SUBSET scope :
                /\ Oldest(Due(scope \ act[a].skip), B)
                /\ act' = next(Seen([d \in B |-> Do(d)], B))
          /\ UNCHANGED lock
       \/ /\ how = "copy"
          /\ LET D == {d \in scope : Live(d)} IN
             act' = next(Seen([d \in D |-> "write"], D))
          /\ UNCHANGED lock
       \/ /\ how = "drop"
          /\ LET D == {d \in scope : ~Live(d)} IN
             act' = next(Seen([d \in D |-> "remove"], D))
          /\ UNCHANGED lock
       \/ /\ how = "purge" /\ State(dataset) \in {"deleted", "purging"}
          /\ act' = [next(Seen([d \in scope |-> "remove"], scope)) EXCEPT
                        ![a].since = row[dataset].text]
          /\ UNCHANGED lock
       \/ /\ how = "purge" /\ State(dataset) \notin {"deleted", "purging"}
          /\ act' = [act EXCEPT ![a] = Idle]
          /\ lock' = Nobody
    /\ UNCHANGED <<row, org, index, waiting, clock, faults>>

\* buildDatasetDocs: the content by statements of their own, if still active.
BuildDoc(a) ==
    /\ act[a].pc = "build"
    /\ act' = [act EXCEPT ![a].pc = "write",
                  ![a].read = [d \in DOMAIN @ |->
                      IF @[d].do = "write" /\ ~Live(d) THEN [@[d] EXCEPT !.do = "clear"]
                      ELSE [@[d] EXCEPT !.content = Now(d)]]]
    /\ UNCHANGED <<row, org, index, lock, waiting, clock, faults>>

\* The index after the batch: a dataset is removed with its children.
Landed(read) ==
    LET what(d) == IF d \in DOMAIN read THEN read[d].do ELSE "clear" IN
    [d \in Docs |->
        IF what(d) = "remove" \/ what(dataset) = "remove" THEN Nothing
        ELSE IF what(d) = "write" /\ d \notin Rejected THEN read[d].content
        ELSE index[d]]

\* A dataset's document goes by a request of its own, after its children's.
ChildrenGone == [d \in Docs |-> IF d = dataset THEN index[d] ELSE Nothing]

WriteIndex(a) ==
    /\ act[a].pc = "write"
    /\ index' = Landed(act[a].read)
    /\ act' = [act EXCEPT ![a].pc = "settle"]
    /\ UNCHANGED <<row, org, lock, waiting, clock, faults>>

\* Mistake: the job asks for itself.
GivenUpAsking(a) ==
    /\ lock' = Nobody
    /\ act' = [act EXCEPT ![a] = IF Part1(a).how = "sync" THEN Asking(a) ELSE Idle]
    /\ UNCHANGED waiting

\* The transaction goes back, the lock with it: the request asks for the job, the
\* queue retries the job or has had enough of it.
GivenUp(a) ==
    /\ lock' = Nobody
    /\ act' = [act EXCEPT ![a] = IF a \in Requests /\ Part1(a).how = "sync" THEN Asking(a)
                                 ELSE Idle]
    /\ IF a \in Workers /\ Part1(a).how = "sync" THEN waiting' \in {TRUE, waiting}
       ELSE UNCHANGED waiting

\* The index fails, having written some of the batch.
IndexFails(a) ==
    /\ act[a].pc = "write" /\ Fault("index")
    /\ \/ \E D \in SUBSET DOMAIN act[a].read : index' = Landed([d \in D |-> act[a].read[d]])
       \/ /\ dataset \in DOMAIN act[a].read /\ act[a].read[dataset].do = "remove"
          /\ index' = ChildrenGone
    /\ GivenUp(a)
    /\ UNCHANGED <<row, org, clock>>

\* The row is held by the rename past the row lock's time-out.
RowTimesOut(a) ==
    /\ act[a].pc = "settle" /\ ~RowFree
    /\ Part1(a).how = "sync" /\ dataset \in DOMAIN act[a].read
    /\ GivenUp(a)
    /\ UNCHANGED <<row, org, index, clock, faults>>

\* Mistake: the marks of what was written are cleared, whatever they are by now.
ClearedAnyway(read) ==
    {d \in DOMAIN read : row[d].due /\ ~(read[d].do = "write" /\ d \in Rejected)}

\* clearMarks: the marks that are still the ones read, but for refused documents'.
Cleared(read) ==
    {d \in DOMAIN read : /\ row[d].due /\ row[d].text = read[d].mark
                         /\ ~(read[d].do = "write" /\ d \in Rejected)}

\* The end of a batch: marks cleared, the lock let go.  What is left is the
\* job's next round, or for a request asked of the job.
Settle(a) ==
    LET read == act[a].read
        cleared == Cleared(read)
        refused == {d \in DOMAIN read : read[d].do = "write" /\ d \in Rejected}
        drained == /\ Cardinality(DOMAIN read) < Batch
                   /\ cleared \cup refused = DOMAIN read
    IN
    /\ act[a].pc = "settle"
    /\ lock' = Nobody
    /\ \/ /\ Part1(a).how = "sync"
          /\ RowFree \/ dataset \notin DOMAIN read
          /\ row' = [d \in Docs |-> IF d \in cleared THEN [row[d] EXCEPT !.due = FALSE]
                                    ELSE row[d]]
          /\ act' = [act EXCEPT ![a] =
                IF a \in Requests
                THEN IF DOMAIN read = {} \/ (drained /\ refused = {}) THEN After(a, {}, {})
                     ELSE Asking(a)
                ELSE After(a, act[a].again \cup (IF drained THEN {} ELSE Part1(a).scope),
                           act[a].skip \cup refused)]
       \/ /\ Part1(a).how = "purge"
          /\ act' = [act EXCEPT ![a] = [Idle EXCEPT !.pc = "rows", !.since = act[a].since]]
          /\ UNCHANGED row
       \/ /\ Part1(a).how \in {"copy", "drop"}
          /\ act' = [act EXCEPT ![a] = IF refused = {} THEN After(a, {}, {}) ELSE Idle]
          /\ UNCHANGED row
    /\ UNCHANGED <<org, index, waiting, clock, faults>>

\* enqueueSearchDocSync: one job waits, whoever asks; what the queue did not hear
\* is left to the sweep.
Ask(q) ==
    /\ act[q].pc = "ask"
    /\ act' = [act EXCEPT ![q] = IF act[q].todo = <<>> THEN Idle ELSE After(q, {}, {})]
    /\ \/ waiting' = TRUE /\ UNCHANGED faults
       \/ Fault("queue") /\ UNCHANGED waiting
    /\ UNCHANGED <<row, org, index, lock, clock>>

\* A worker takes the job.
StartJob(w) ==
    /\ act[w].pc = "idle" /\ waiting
    /\ waiting' = FALSE
    /\ act' = [act EXCEPT ![w] = [Idle EXCEPT !.pc = "lock",
                                     !.todo = <<Hiding(Resources), Hiding({dataset})>>]]
    /\ UNCHANGED <<row, org, index, lock, clock, faults>>

\* rebuildMetadataIndex: the datasets active now, then what the index holds of others.
StartRebuild(w) ==
    LET part(scope, how) == [scope |-> scope, how |-> how, waits |-> TRUE]
        drops == <<part({dataset}, "drop"), part(Resources, "drop")>>
    IN
    /\ "rebuild" \in Ops
    /\ act[w].pc = "idle"
    /\ act' = [act EXCEPT ![w] =
          IF State(dataset) = "active"
          THEN [Idle EXCEPT !.pc = "lock",
                            !.todo = <<part(Resources, "copy"), part({dataset}, "copy")>> \o drops]
          ELSE [Idle EXCEPT !.pc = "list", !.todo = drops]]
    /\ UNCHANGED <<row, org, index, lock, waiting, clock, faults>>

\* A process dies, and its transaction with it.  The queue gives its job to
\* another; a request is not sent again.
Crash(a) ==
    /\ act[a].pc # "idle" /\ Fault("crash")
    /\ act' = [act EXCEPT ![a] = Idle]
    /\ lock' = IF lock = a THEN Nobody ELSE lock
    /\ waiting' = (waiting \/ (a \in Workers /\ Part1(a).how = "sync"))
    /\ UNCHANGED <<row, org, index, clock>>

\* sweepSearchDocs.
Sweep ==
    /\ ~waiting /\ Due(Docs) # {}
    /\ waiting' = TRUE
    /\ UNCHANGED <<row, org, index, lock, act, clock, faults>>

Step(a) == ReadRows(a) \/ BuildDoc(a) \/ WriteIndex(a) \/ Settle(a)

Next ==
    \/ \E q \in Requests : Commit(q) \/ PurgeRows(q) \/ Ask(q)
    \/ \E a \in Actors : \/ TakeLock(a) \/ LeaveToJob(a) \/ Step(a)
                         \/ IndexFails(a) \/ RowTimesOut(a) \/ Crash(a)
    \/ \E w \in Workers : StartJob(w) \/ StartRebuild(w) \/ ListIndexed(w)
    \/ RenameMark \/ RenameTake \/ RenameCommit
    \/ Sweep

Spec == Init /\ [][Next]_vars

\* Processes go on, a lock that is free again and again is got, a job that waits
\* is taken though others are, and the hour of the sweep comes round.
Fairness ==
    /\ \A q \in Requests : WF_vars(Ask(q)) /\ WF_vars(PurgeRows(q)) /\ WF_vars(LeaveToJob(q))
    /\ \A a \in Actors : WF_vars(Step(a)) /\ SF_vars(TakeLock(a))
    /\ \A w \in Workers : SF_vars(StartJob(w)) /\ WF_vars(ListIndexed(w))
    /\ WF_vars(RenameTake) /\ WF_vars(RenameCommit)
    /\ WF_vars(Sweep)

FairSpec == Spec /\ Fairness

-----------------------------------------------------------------------------
(* Properties *)

\* What the index says of a row that is not marked is what the row says: no edit,
\* hide or deletion is lost to it, and no document of a purged dataset is left.
\* Broken by a clear that drops a newer mark, by a write that lands after another
\* writer has cleared, by a purge that removes what a restore has written, by a
\* rename that misses a dataset being published (search-index.ts:207, 430).
\* A dataset restored and deleted again while its purge was going on is left out:
\* the purge takes its rows, with the marks, and may leave a document.
StaleIsMarked ==
    \A d \in Docs : \/ row[d].due \/ index[d] = Wanted(d)
                     \/ (State(d) = "gone" /\ row[d].text = 1)

\* "No sync can land an older document after it" (search-index.ts:421): the index
\* never goes back to what a row said before.
NeverOlder ==
    [][\A d \in Docs :
          index[d] # Nothing /\ index'[d] # Nothing
             => index'[d].text >= index[d].text /\ index'[d].org >= index[d].org]_vars

Finishes(q) ==
    /\ act[q].pc \in {"lock", "settle"} /\ Part1(q).how = "sync"
    /\ act'[q].pc \in {"idle", "lock"} /\ act'[q].todo # act[q].todo
    /\ faults' = faults

\* "The edit is searchable on return" (search-index.ts:420): a request that ends
\* a part without asking for the job leaves nothing older than its own edit in
\* the index.
SearchableOnReturn ==
    [][\A q \in Requests : Finishes(q)
          => \A d \in Part1(q).scope :
                index[d] # Nothing /\ State(d) # "gone" /\ row[d].text >= act[q].since
                   => index[d].text >= act[q].since]_vars

\* Every mark is settled, but for documents the index refuses: whatever fails,
\* and however many are refused before it.
MarksSettled ==
    \A d \in Docs \ Rejected : row[d].due ~> ~row[d].due

==============================================================================
