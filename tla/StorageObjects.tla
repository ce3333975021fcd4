--------------------------- MODULE StorageObjects ---------------------------
(* The objects of one resource in the bucket, and everything that names      *)
(* them: the live pointer, the pending one of an upload, the preview, the    *)
(* version rows, and the ledger orphaned_object, which the sweep deletes     *)
(* from. No transaction covers the bucket: an object is there before a       *)
(* pointer names it and after the last one let go of it, and any process     *)
(* can die in between.                                                       *)
(*                                                                           *)
(* The claim is the one of ResourceRuns, reduced to who has it. Every key is *)
(* minted once; origin says which fetch or upload first carried the bytes.   *)
EXTENDS Integers, Sequences, FiniteSets

CONSTANTS
    Runs,       \* pipeline runs that may be under way at once
    MaxKey,     \* bound: keys minted; 1 and 2 are there at the start
    MaxFaults,  \* bound: how often something goes wrong
    Others,     \* who else works on the resource in this instance
    Faults,     \* what may go wrong that often in this instance
    Endless     \* what may go wrong any number of times

ASSUME BoundsAssumption == MaxKey \in Nat /\ MaxKey >= 2 /\ MaxFaults \in Nat
ASSUME OthersAssumption ==
    Others \subseteq {"cancel", "upload", "revert", "purge", "reconcile"}
ASSUME FaultsAssumption ==
    Faults \cup Endless \subseteq
        {"rundies", "revertdies", "purgedies", "sweepdies", "joblost", "storage",
         "stall"}
ASSUME RunsAssumption == Runs \cap {"none", "revert", "purge"} = {}

Key == 1..MaxKey
NoKey == 0                                    \* a NULL pointer
Pointer == Key \cup {NoKey}
Holders == Runs \cup {"revert", "purge"}

VARIABLES
    live,       \* resource.storage_key
    hash,       \* resource.hash: which bytes live is known to hold, NoKey while unmeasured
    external,   \* resource.url_type: the content is behind a URL
    pending,    \* resource.pending_storage_key
    versions,   \* resource_version, by version number: its key and its state
    preview,    \* resource_pipeline.preview_key
    objects,    \* the keys that hold an object in the bucket
    origin,     \* the bytes of each object, by the key that first carried them
    ledger,     \* orphaned_object: the keys to be deleted unless some pointer names them
    claim,      \* resource_pipeline.claim_owner
    run,        \* the runs
    rv,         \* the revert endpoint
    purge,      \* the purge job
    queued,     \* a purge-version job is in the queue
    up,         \* the upload-complete endpoint, with the key it asked about
    urls,       \* upload URLs handed out and not used
    sweep,      \* the hourly sweep
    recon,      \* the reconciliation
    next,       \* the next key to mint
    faults      \* faults so far, for the bound

row == <<live, hash, external, pending>>
bucket == <<objects, origin>>
actors == <<claim, run, rv, purge, queued, up, urls, sweep, recon>>
vars == <<row, versions, preview, bucket, ledger, actors, next, faults>>

Idle == [pc |-> "idle", key |-> NoKey, prev |-> NoKey, to |-> NoKey]
NotPurging == [pc |-> "idle", v |-> 0, prev |-> NoKey, serves |-> FALSE, to |-> NoKey]
NoSweep == [pc |-> "idle", key |-> NoKey]
NoList == [pc |-> "idle", keys |-> {}]

\* Two versions, the second one served; no preview has been made of it yet.
Init ==
    /\ live = 2 /\ hash = 2 /\ external = TRUE /\ pending = NoKey
    /\ versions = <<[key |-> 1, state |-> "active"], [key |-> 2, state |-> "active"]>>
    /\ preview = NoKey
    /\ objects = {1, 2} /\ origin = [k \in Key |-> k]
    /\ ledger = {}
    /\ claim = "none" /\ run = [w \in Runs |-> Idle]
    /\ rv = Idle /\ purge = NotPurging /\ queued = FALSE
    /\ up = NoKey /\ urls = {}
    /\ sweep = NoSweep /\ recon = NoList
    /\ next = 3 /\ faults = 0

----------------------------------------------------------------------------
\* Something of this kind goes wrong, once more.
Fault(kind) ==
    \/ kind \in Faults /\ faults < MaxFaults /\ faults' = faults + 1
    \/ kind \in Endless /\ UNCHANGED faults

Held(who) == claim = who
Numbers == DOMAIN versions
WithState(s) == {v \in Numbers : versions[v].state = s}

\* The newest of some versions, 0 when there is none.
Newest(vs) == IF vs = {} THEN 0 ELSE CHOOSE v \in vs : \A u \in vs : u <= v
KeyOf(v) == IF v = 0 THEN NoKey ELSE versions[v].key

\* ownedByVersion: a tombstone keeps its key and owns nothing.
Owned(k) == \E v \in Numbers : versions[v].key = k /\ versions[v].state # "purged"

OwnerPurging(k) == \E v \in WithState("purging") : versions[v].key = k

\* Mistake: a pointer column the list of sources has not got.
ReferencedButPending(k) == k \in {live, preview} \/ \E v \in Numbers : versions[v].key = k

\* The sweep's question: does any pointer name this key?
Referenced(k) == k \in {live, pending, preview} \/ \E v \in Numbers : versions[v].key = k

Minted(k) == next <= MaxKey /\ k = next /\ next' = next + 1

\* INSERT INTO orphaned_object ... ON CONFLICT DO NOTHING
Parked(book, k) == book \cup ({k} \ {NoKey})

\* reserveObject: an expiry already there is pushed out.
Reserved(k) == ledger \cup {k}
Dropped(book, k) == book \ {k}

\* publishLiveContent parks whatever is not pointed at after it: what the move
\* replaced, or the writer's own object when there was no move.
Published(k, prev, moved) ==
    LET gone == IF ~moved THEN k ELSE IF prev = k THEN NoKey ELSE prev
        parked == IF Owned(gone) THEN ledger ELSE Parked(ledger, gone)
    IN  IF moved THEN Dropped(parked, k) ELSE parked

\* The one statement that moves the live pointer.
Publish(k, prev, bytes, moved) ==
    /\ ledger' = Published(k, prev, moved)
    /\ IF moved
       THEN live' = k /\ hash' = bytes
       ELSE UNCHANGED <<live, hash>>
    /\ UNCHANGED <<external, pending>>

\* insertVersionIfHeld, the write-ahead record with it.
Filed(k) == versions' = Append(versions, [key |-> k, state |-> "active"])

\* A failed delete leaves the object: deleteMany names the ones that are gone.
Delete(ks) ==
    /\ UNCHANGED origin
    /\ \/ objects' = objects \ ks /\ UNCHANGED faults
       \/ ks \cap objects # {} /\ Fault("storage") /\ UNCHANGED objects

----------------------------------------------------------------------------
(* A run of the pipeline: what it writes to the bucket and what it points    *)
(* at it. Where it stands is the statement it makes next.                    *)

RunOnly(w) == UNCHANGED <<rv, purge, queued, up, urls, sweep, recon>>
SetRun(w, r) == run' = [run EXCEPT ![w] = r] /\ RunOnly(w)
Goto(w, pc) == SetRun(w, [run[w] EXCEPT !.pc = pc])

\* The claim, and the row as it stands: a run that fetches mints a key of its
\* own, one that does not takes the live object as its content.
TakeClaim(w, fetches) ==
    /\ run[w].pc = "idle" /\ claim = "none" /\ (fetches => external)
    /\ fetches \/ live # NoKey
    /\ claim' = w
    /\ SetRun(w, [Idle EXCEPT !.pc = IF fetches THEN "fetch" ELSE "publish",
                              !.prev = live, !.key = IF fetches THEN NoKey ELSE live])
    /\ UNCHANGED <<row, versions, preview, bucket, ledger, next, faults>>

\* putObject, first half: the key is on the ledger before there is an object.
Reserve(w) ==
    /\ run[w].pc = "fetch"
    /\ \E k \in Key : Minted(k) /\ ledger' = Reserved(k)
                      /\ SetRun(w, [run[w] EXCEPT !.pc = "store", !.to = k])
    /\ UNCHANGED <<row, versions, preview, bucket, claim, faults>>

\* The bytes behind the URL are new, or what the resource serves already.
Store(w) ==
    /\ run[w].pc = "store"
    /\ objects' = objects \cup {run[w].to}
    /\ \E bytes \in {run[w].to, hash} \ {NoKey} : origin' = [origin EXCEPT ![run[w].to] = bytes]
    /\ SetRun(w, [run[w] EXCEPT !.pc = "publish", !.key = run[w].to])
    /\ UNCHANGED <<row, versions, preview, ledger, claim, next, faults>>

PublishContent(w) ==
    /\ run[w].pc = "publish"
    /\ LET moved == live = run[w].prev /\ Held(w)
       IN  /\ Publish(run[w].key, run[w].prev, origin[run[w].key], moved)
           /\ SetRun(w, [run[w] EXCEPT !.pc = IF moved THEN "gate" ELSE "leave",
                                 !.prev = NoKey, !.to = NoKey])
    /\ UNCHANGED <<versions, preview, bucket, claim, next, faults>>

\* decideVersionCreate. The label or the key columns may have been edited since
\* the latest version was filed, so its bytes alone do not settle it.
Gate(w) ==
    /\ run[w].pc = "gate"
    /\ LET latest == Newest(WithState("active"))
           same == latest # 0 /\ origin[KeyOf(latest)] = origin[run[w].key]
           open == live = run[w].key /\ ~OwnerPurging(run[w].key)
       IN  \E edited \in BOOLEAN :
               Goto(w, IF open /\ (same => edited) THEN "owner" ELSE "interpret")
    /\ UNCHANGED <<row, versions, preview, bucket, ledger, claim, next, faults>>

\* Mistake: the live object is taken whoever owns it.
AskNobody(w) ==
    /\ run[w].pc = "owner"
    /\ Goto(w, "take")
    /\ UNCHANGED <<row, versions, preview, bucket, ledger, claim, next, faults>>

\* objectAlreadyVersioned: an object nobody owns is taken, an owned one copied.
AskOwner(w) ==
    /\ run[w].pc = "owner"
    /\ IF Owned(run[w].key)
       THEN \E k \in Key : Minted(k) /\ ledger' = Reserved(k)
                           /\ SetRun(w, [run[w] EXCEPT !.pc = "copy", !.to = k])
       ELSE Goto(w, "take") /\ UNCHANGED <<ledger, next>>
    /\ UNCHANGED <<row, versions, preview, bucket, claim, faults>>

FileTaken(w) ==
    /\ run[w].pc = "take"
    /\ IF Held(w)
       THEN Filed(run[w].key) /\ ledger' = Dropped(ledger, run[w].key)
       ELSE UNCHANGED <<versions, ledger>>
    /\ Goto(w, "interpret")
    /\ UNCHANGED <<row, preview, bucket, claim, next, faults>>

\* The copy stays outside the transaction. A source that is gone fails the step,
\* and so does the storage: the run goes on to the next one.
Copy(w) ==
    /\ run[w].pc = "copy"
    /\ \/ /\ run[w].key \in objects /\ UNCHANGED faults
          /\ objects' = objects \cup {run[w].to}
          /\ origin' = [origin EXCEPT ![run[w].to] = origin[run[w].key]]
          /\ Goto(w, "file")
       \/ /\ IF run[w].key \in objects THEN Fault("storage") ELSE UNCHANGED faults
          /\ Goto(w, "interpret") /\ UNCHANGED bucket
    /\ UNCHANGED <<row, versions, preview, ledger, claim, next>>

\* One transaction: the owner's row locked and read again, the version filed,
\* the pointer moved onto the copy; or none of it.
FileCopied(w) ==
    /\ run[w].pc = "file"
    /\ LET k == run[w].key
           t == run[w].to
       IN  IF ~OwnerPurging(k) /\ Held(w) /\ live = k
           THEN Filed(t) /\ Publish(t, k, origin[k], TRUE)
           ELSE UNCHANGED <<row, versions, ledger>>
    /\ SetRun(w, [run[w] EXCEPT !.pc = "interpret", !.to = NoKey])
    /\ UNCHANGED <<preview, bucket, claim, next, faults>>

\* versionForContent: the newest active version with the run's bytes, or none.
Interpret(w) ==
    /\ run[w].pc = "interpret"
    /\ LET v == Newest({u \in WithState("active") :
                            origin[versions[u].key] = origin[run[w].key]})
       IN  IF v = 0 \/ KeyOf(v) \notin objects
           THEN SetRun(w, [Idle EXCEPT !.pc = "leave"]) /\ UNCHANGED <<ledger, next>>
           ELSE \E k \in Key : Minted(k) /\ ledger' = Reserved(k)
                    /\ SetRun(w, [run[w] EXCEPT !.pc = "paint", !.to = k])
    /\ UNCHANGED <<row, versions, preview, bucket, claim, faults>>

Paint(w) ==
    /\ run[w].pc = "paint"
    /\ objects' = objects \cup {run[w].to}
    /\ Goto(w, "point")
    /\ UNCHANGED <<row, versions, preview, origin, ledger, claim, next, faults>>

\* Mistake: the preview the row held when the run began is replaced, and its object forgotten.
PointForget(w) ==
    /\ run[w].pc = "point"
    /\ IF Held(w)
       THEN /\ preview' = run[w].to
            /\ ledger' = Dropped(ledger, run[w].to)
       ELSE UNCHANGED <<preview, ledger>>
    /\ SetRun(w, [Idle EXCEPT !.pc = "leave"])
    /\ UNCHANGED <<row, versions, bucket, claim, next, faults>>

\* movePointers, under heldBy: the keys parked are the ones the row holds now.
Point(w) ==
    /\ run[w].pc = "point"
    /\ IF Held(w)
       THEN /\ preview' = run[w].to
            /\ ledger' = Dropped(Parked(ledger, preview), run[w].to)
       ELSE UNCHANGED <<preview, ledger>>
    /\ SetRun(w, [Idle EXCEPT !.pc = "leave"])
    /\ UNCHANGED <<row, versions, bucket, claim, next, faults>>

\* A step starts only under the claim, the storage may refuse a write, and an
\* instance may be out of keys.
GiveUp(w) ==
    /\ \/ run[w].pc \in {"fetch", "gate", "interpret"} /\ ~Held(w) /\ UNCHANGED faults
       \/ run[w].pc \in {"fetch", "owner", "interpret"} /\ next > MaxKey /\ UNCHANGED faults
       \/ run[w].pc \in {"store", "paint"} /\ Fault("storage")
    /\ SetRun(w, [Idle EXCEPT !.pc = "leave"])
    /\ UNCHANGED <<row, versions, preview, bucket, ledger, claim, next>>

Leave(w) ==
    /\ run[w].pc = "leave"
    /\ claim' = IF Held(w) THEN "none" ELSE claim
    /\ SetRun(w, Idle)
    /\ UNCHANGED <<row, versions, preview, bucket, ledger, next, faults>>

\* The worker dies: the claim stays behind.
Crash(w) ==
    /\ run[w].pc # "idle" /\ Fault("rundies")
    /\ SetRun(w, Idle)
    /\ UNCHANGED <<row, versions, preview, bucket, ledger, claim, next>>

RunStep(w) ==
    \/ \E fetches \in BOOLEAN : TakeClaim(w, fetches)
    \/ Reserve(w) \/ Store(w) \/ PublishContent(w) \/ Gate(w) \/ AskOwner(w) \/ FileTaken(w)
    \/ Copy(w) \/ FileCopied(w) \/ Interpret(w) \/ Paint(w) \/ Point(w)
    \/ GiveUp(w) \/ Leave(w) \/ Crash(w)

----------------------------------------------------------------------------
(* Who loses the claim.                                                      *)

Busy(who) == \/ who \in Runs /\ run[who].pc # "idle"
             \/ who = "revert" /\ rv.pc # "idle"
             \/ who = "purge" /\ purge.pc # "idle"

\* cancelResourceRun, from a user or from an upload being prepared; what a run
\* that hangs past its quarter of an hour comes to is the same.
Cancel ==
    /\ "cancel" \in Others /\ claim \in Runs
    /\ claim' = "none"
    /\ UNCHANGED <<row, versions, preview, bucket, ledger, next, faults,
                   run, rv, purge, queued, up, urls, sweep, recon>>

\* Without progress for a quarter of an hour, and somebody else takes it: the
\* holder is dead, or hangs and goes on after that.
GoesStale ==
    /\ claim # "none"
    /\ IF Busy(claim) THEN Fault("stall") ELSE UNCHANGED faults
    /\ claim' = "none"
    /\ UNCHANGED <<row, versions, preview, bucket, ledger, next,
                   run, rv, purge, queued, up, urls, sweep, recon>>

----------------------------------------------------------------------------
(* Uploads. They take no claim; the client writes to a URL of its own.       *)

UploadOnly == UNCHANGED <<claim, run, rv, purge, queued, sweep, recon>>

\* prepareForUpload: a pending key minted earlier is parked.
PrepareForUpload ==
    /\ "upload" \in Others
    /\ \E k \in Key : Minted(k) /\ pending' = k /\ urls' = urls \cup {k}
    /\ ledger' = Parked(ledger, pending)
    /\ UploadOnly
    /\ UNCHANGED <<live, hash, external, versions, preview, bucket, up, faults>>

\* The URL is good for an hour, so its key is pending or not yet due.
ClientPuts(k) ==
    /\ k \in urls /\ (k = pending \/ k \in ledger)
    /\ urls' = urls \ {k} /\ objects' = objects \cup {k}
    /\ UploadOnly
    /\ UNCHANGED <<row, versions, preview, origin, ledger, up, next, faults>>

\* upload-complete: the pending key as read, and whether its object is there.
UploadArrived ==
    /\ up = NoKey /\ pending \in objects
    /\ up' = pending
    /\ UploadOnly
    /\ UNCHANGED <<row, versions, preview, bucket, ledger, urls, next, faults>>

\* Mistake: whatever is pending now is promoted.
PromotePending ==
    /\ up # NoKey /\ up' = NoKey
    /\ IF pending # NoKey
       THEN /\ live' = pending /\ hash' = NoKey /\ external' = FALSE /\ pending' = NoKey
            /\ ledger' = IF Owned(live) THEN ledger ELSE Parked(ledger, live)
       ELSE UNCHANGED <<row, ledger>>
    /\ UploadOnly
    /\ UNCHANGED <<versions, preview, bucket, urls, next, faults>>

\* promoteUpload: bound to the key that was asked about.
Promote ==
    /\ up # NoKey /\ up' = NoKey
    /\ IF pending = up
       THEN /\ live' = up /\ hash' = NoKey /\ external' = FALSE /\ pending' = NoKey
            /\ ledger' = IF Owned(live) THEN ledger ELSE Parked(ledger, live)
       ELSE UNCHANGED <<row, ledger>>
    /\ UploadOnly
    /\ UNCHANGED <<versions, preview, bucket, urls, next, faults>>

\* expirePendingUploads: a day later.
ExpirePending ==
    /\ pending # NoKey /\ pending' = NoKey
    /\ ledger' = Parked(ledger, pending)
    /\ UploadOnly
    /\ UNCHANGED <<live, hash, external, versions, preview, bucket, up, urls, next, faults>>

UploadStep ==
    \/ PrepareForUpload \/ \E k \in Key : ClientPuts(k)
    \/ UploadArrived \/ Promote \/ ExpirePending

----------------------------------------------------------------------------
(* A revert: a version's content issued again as the newest one, under a     *)
(* claim taken from whatever run has it.                                     *)

SetRv(r) == rv' = r /\ UNCHANGED <<run, purge, queued, up, urls, sweep, recon>>

\* Settled before anything is stopped: the destination, and whether the
\* resource is there already (settledRevert).
AskRevert ==
    /\ "revert" \in Others /\ rv.pc = "idle"
    /\ \/ \E v \in WithState("active") :
              /\ hash # origin[KeyOf(v)] \/ OwnerPurging(live)
              /\ SetRv([pc |-> "take", key |-> KeyOf(v), prev |-> live, to |-> NoKey])
       \/ live # NoKey /\ SetRv([pc |-> "take", key |-> NoKey, prev |-> live, to |-> NoKey])
    /\ UNCHANGED <<row, versions, preview, bucket, ledger, claim, next, faults>>

\* withClaimFromRun, refused by another job or by content that has moved; then
\* the copy's write-ahead record.
TakeOver ==
    /\ rv.pc = "take"
    /\ IF claim \in Runs \cup {"none"} /\ live = rv.prev
       THEN /\ claim' = "revert"
            /\ IF rv.key = NoKey
               THEN SetRv([rv EXCEPT !.pc = "file"]) /\ UNCHANGED <<ledger, next>>
               ELSE \E k \in Key : Minted(k) /\ ledger' = Reserved(k)
                                   /\ SetRv([rv EXCEPT !.pc = "copy", !.to = k])
       ELSE SetRv(Idle) /\ UNCHANGED <<claim, ledger, next>>
    /\ UNCHANGED <<row, versions, preview, bucket, faults>>

CopyVersion ==
    /\ rv.pc = "copy"
    /\ IF rv.key \in objects
       THEN /\ objects' = objects \cup {rv.to}
            /\ origin' = [origin EXCEPT ![rv.to] = origin[rv.key]]
            /\ SetRv([rv EXCEPT !.pc = "file"])
       ELSE SetRv([rv EXCEPT !.pc = "leave"]) /\ UNCHANGED bucket
    /\ UNCHANGED <<row, versions, preview, ledger, claim, next, faults>>

\* Mistake: a revert to nothing leaves an empty version behind.
FileRevertedEmpty ==
    /\ rv.pc = "file"
    /\ LET sound == rv.key = NoKey \/ \E v \in WithState("active") : versions[v].key = rv.key
           done == sound /\ Held("revert") /\ live = rv.prev
       IN  /\ IF done
              THEN /\ Publish(rv.to, rv.prev, IF rv.key = NoKey THEN NoKey ELSE origin[rv.key], TRUE)
                   /\ Filed(rv.to)
              ELSE UNCHANGED <<row, versions, ledger>>
           /\ SetRv([rv EXCEPT !.pc = IF done THEN "detach" ELSE "leave", !.to = NoKey])
    /\ UNCHANGED <<preview, bucket, claim, next, faults>>

\* Mistake: the pointer goes back to the version's own file, and nothing is filed.
FileRevertedInPlace ==
    /\ rv.pc = "file"
    /\ IF Held("revert") /\ live = rv.prev
       THEN Publish(rv.key, rv.prev, IF rv.key = NoKey THEN NoKey ELSE origin[rv.key], TRUE)
       ELSE UNCHANGED <<row, ledger>>
    /\ SetRv([rv EXCEPT !.pc = "leave", !.to = NoKey])
    /\ UNCHANGED <<versions, preview, bucket, claim, next, faults>>

\* publishVersionContent's transaction, or clearLiveContent's.
FileReverted ==
    /\ rv.pc = "file"
    /\ LET sound == rv.key = NoKey \/ \E v \in WithState("active") : versions[v].key = rv.key
           done == sound /\ Held("revert") /\ live = rv.prev
       IN  /\ IF done
              THEN /\ Publish(rv.to, rv.prev, IF rv.key = NoKey THEN NoKey ELSE origin[rv.key], TRUE)
                   /\ IF rv.key = NoKey THEN UNCHANGED versions ELSE Filed(rv.to)
              ELSE UNCHANGED <<row, versions, ledger>>
           /\ SetRv([rv EXCEPT !.pc = IF done THEN "detach" ELSE "leave", !.to = NoKey])
    /\ UNCHANGED <<preview, bucket, claim, next, faults>>

\* discardDerivedArtifacts, first half: the pointer cleared and its key parked
\* in one statement; the object goes after.
Detach ==
    /\ preview' = NoKey
    /\ ledger' = Parked(ledger, preview)

DetachRetracted ==
    /\ rv.pc = "detach"
    /\ Detach
    /\ SetRv([rv EXCEPT !.pc = "drop", !.to = preview])
    /\ UNCHANGED <<row, versions, bucket, claim, next, faults>>

\* A failure here is reported, not thrown: the retraction has happened.
DropRetracted ==
    /\ rv.pc = "drop"
    /\ Delete({rv.to})
    /\ SetRv([rv EXCEPT !.pc = "leave", !.to = NoKey])
    /\ UNCHANGED <<row, versions, preview, ledger, claim, next>>

LeaveRevert ==
    /\ rv.pc = "leave"
    /\ claim' = IF Held("revert") THEN "none" ELSE claim
    /\ SetRv(Idle)
    /\ UNCHANGED <<row, versions, preview, bucket, ledger, next, faults>>

RevertDies ==
    /\ rv.pc \notin {"idle", "take"} /\ Fault("revertdies")
    /\ SetRv(Idle)
    /\ UNCHANGED <<row, versions, preview, bucket, ledger, claim, next>>

RevertStep ==
    \/ AskRevert \/ TakeOver \/ CopyVersion \/ FileReverted
    \/ DetachRetracted \/ DropRetracted \/ LeaveRevert \/ RevertDies

----------------------------------------------------------------------------
(* A purge: claimed on the version's row, done by a job under the claim,     *)
(* begun again from the top as often as it is cut off.                       *)

SetPurge(p) == purge' = p /\ UNCHANGED <<run, rv, queued, up, urls, sweep, recon>>
PurgeAt(pc) == purge.pc = pc

\* claimPurge: one at a time per resource (a unique index), the job with it.
ClaimPurge(v) ==
    /\ "purge" \in Others
    /\ versions[v].state = "active" /\ WithState("purging") = {}
    /\ versions' = [versions EXCEPT ![v].state = "purging"]
    /\ queued' = TRUE
    /\ UNCHANGED <<row, preview, bucket, ledger, next, faults,
                   claim, run, rv, purge, up, urls, sweep, recon>>

\* The job gave up, was deleted or pruned; queueStrandedPurges brings it back.
JobLost ==
    /\ queued /\ purge.pc = "idle" /\ Fault("joblost")
    /\ queued' = FALSE
    /\ UNCHANGED <<row, versions, preview, bucket, ledger, next,
                   claim, run, rv, purge, up, urls, sweep, recon>>
\* Mistake: a purge whose job is gone is nobody's.
NeverStranded == FALSE /\ UNCHANGED vars

QueueStranded ==
    /\ ~queued /\ WithState("purging") # {}
    /\ queued' = TRUE
    /\ UNCHANGED <<row, versions, preview, bucket, ledger, next, faults,
                   claim, run, rv, purge, up, urls, sweep, recon>>

\* Mistake: the version being purged has left the serving states.
LiveVersionActive ==
    Newest({v \in WithState("active") : versions[v].key = live \/ origin[versions[v].key] = hash})

\* liveVersion among the serving states: who owns what is live, or the newest
\* version that is known to hold the same bytes.
LiveVersion ==
    LET owner == Newest({v \in Numbers : versions[v].key = live /\ versions[v].state # "purged"})
    IN  IF live # NoKey /\ owner # 0 THEN owner
        ELSE Newest({v \in Numbers : versions[v].state # "purged" /\ hash # NoKey
                                     /\ origin[versions[v].key] = hash})

\* executePurge: refused while somebody has the claim, and the job comes back.
StartPurge ==
    /\ queued /\ PurgeAt("idle") /\ claim = "none"
    /\ claim' = "purge"
    /\ \E v \in WithState("purging") :
           LET serves == LiveVersion = v
           IN  SetPurge([pc |-> "delete", v |-> v, serves |-> serves,
                         prev |-> IF serves THEN live ELSE NoKey, to |-> NoKey])
    /\ UNCHANGED <<row, versions, preview, bucket, ledger, next, faults>>

\* The object first: cut off here, the resource serves nothing rather than this.
DeleteVersion ==
    /\ PurgeAt("delete")
    /\ objects' = objects \ {KeyOf(purge.v)}
    /\ SetPurge([purge EXCEPT !.pc = IF purge.serves THEN "detach" ELSE "lake"])
    /\ UNCHANGED <<row, versions, preview, origin, ledger, claim, next, faults>>

DetachPurged ==
    /\ PurgeAt("detach")
    /\ Detach
    /\ SetPurge([purge EXCEPT !.pc = "drop", !.to = preview])
    /\ UNCHANGED <<row, versions, bucket, claim, next, faults>>

\* The object, the index's documents, and the note that a rebuild is owed.
DropPurged ==
    /\ PurgeAt("drop")
    /\ Delete({purge.to})
    /\ SetPurge([purge EXCEPT !.pc = "lake", !.to = NoKey])
    /\ UNCHANGED <<row, versions, preview, ledger, claim, next>>

\* purgeFromLake, which can fail; then the version to fall back to is read.
PurgeLake ==
    /\ PurgeAt("lake")
    /\ SetPurge([purge EXCEPT !.pc = IF purge.serves THEN "move" ELSE "ask",
                              !.to = IF purge.serves THEN KeyOf(Newest(WithState("active")))
                                     ELSE NoKey])
    /\ UNCHANGED <<row, versions, preview, bucket, ledger, claim, next, faults>>

\* restoreLiveFromVersions, on no claim: the pointer it read is what it asks.
\* A conflict throws, the claim goes back and the job comes again.
RestoreLive ==
    /\ PurgeAt("move")
    /\ LET moved == live = purge.prev
           bytes == IF purge.to = NoKey THEN NoKey ELSE origin[purge.to]
       IN  /\ IF purge.to = NoKey /\ ~moved
              THEN UNCHANGED <<row, ledger>>
              ELSE Publish(purge.to, purge.prev, bytes, moved)
           /\ SetPurge([purge EXCEPT !.pc = IF moved THEN "old" ELSE "fail", !.to = NoKey])
    /\ UNCHANGED <<versions, preview, bucket, claim, next, faults>>

\* What was served, where it is not the version's own file.
DeleteServed ==
    /\ PurgeAt("old")
    /\ objects' = objects \ {purge.prev}
    /\ SetPurge([purge EXCEPT !.pc = "ask", !.prev = NoKey])
    /\ UNCHANGED <<row, versions, preview, origin, ledger, claim, next, faults>>

\* The rebuild's job and the note's clearing, in one transaction.
AskRebuild ==
    /\ PurgeAt("ask")
    /\ SetPurge([purge EXCEPT !.pc = "finish"])
    /\ UNCHANGED <<row, versions, preview, bucket, ledger, claim, next, faults>>

FinishPurge ==
    /\ PurgeAt("finish")
    /\ versions' = [versions EXCEPT ![purge.v].state = "purged"]
    /\ claim' = IF Held("purge") THEN "none" ELSE claim
    /\ purge' = NotPurging /\ queued' = FALSE
    /\ UNCHANGED <<row, preview, bucket, ledger, next, faults,
                   run, rv, up, urls, sweep, recon>>

\* Thrown: by the conflict above, or by the storage, the index or the lake.
PurgeFails ==
    /\ \/ PurgeAt("fail") /\ UNCHANGED faults
       \/ purge.pc \in {"delete", "drop", "lake", "old"} /\ Fault("storage")
    /\ claim' = IF Held("purge") THEN "none" ELSE claim
    /\ SetPurge(NotPurging)
    /\ UNCHANGED <<row, versions, preview, bucket, ledger, next>>

PurgeDies ==
    /\ purge.pc # "idle" /\ Fault("purgedies")
    /\ SetPurge(NotPurging)
    /\ UNCHANGED <<row, versions, preview, bucket, ledger, claim, next>>

PurgeStep ==
    \/ \E v \in Numbers : ClaimPurge(v)
    \/ JobLost \/ QueueStranded \/ StartPurge \/ DeleteVersion \/ DetachPurged \/ DropPurged
    \/ PurgeLake \/ RestoreLive \/ DeleteServed \/ AskRebuild \/ FinishPurge
    \/ PurgeFails \/ PurgeDies

----------------------------------------------------------------------------
(* The ledger, the sweep that works it off, and the reconciliation that      *)
(* finds what never was on it.                                               *)

SetSweep(s) == sweep' = s /\ UNCHANGED <<claim, run, rv, purge, queued, up, urls, recon>>
SetRecon(s) == recon' = s /\ UNCHANGED <<claim, run, rv, purge, queued, up, urls, sweep>>

\* Somebody is writing an object for this key, or about to name it.
InFlight(k) ==
    \/ k = rv.to
    \/ \E w \in Runs : \/ k = run[w].to
                       \/ run[w].pc \in {"owner", "take"} /\ k = run[w].key

\* A key whose hour is over, which no write under way is taken to outlast. The
\* keys of a batch do not meet, so a batch is one key.
SweepLists(k) ==
    /\ sweep.pc = "idle" /\ k \in ledger /\ ~InFlight(k)
    /\ SetSweep([pc |-> "ask", key |-> k])
    /\ UNCHANGED <<row, versions, preview, bucket, ledger, next, faults>>

\* A key some pointer names is not an orphan, and stops being tracked.
SweepAsks ==
    /\ sweep.pc = "ask"
    /\ SetSweep([sweep EXCEPT !.pc = IF Referenced(sweep.key) THEN "untrack" ELSE "delete"])
    /\ UNCHANGED <<row, versions, preview, bucket, ledger, next, faults>>

\* Mistake: every key asked to be deleted stops being tracked.
SweepTrusts ==
    /\ sweep.pc = "delete"
    /\ Delete({sweep.key})
    /\ SetSweep([sweep EXCEPT !.pc = "untrack"])
    /\ UNCHANGED <<row, versions, preview, ledger, next>>

\* What the bucket did not delete stays tracked, for the next sweep.
SweepDeletes ==
    /\ sweep.pc = "delete"
    /\ \/ /\ objects' = objects \ {sweep.key} /\ UNCHANGED faults
          /\ SetSweep([sweep EXCEPT !.pc = "untrack"])
       \/ Fault("storage") /\ SetSweep(NoSweep) /\ UNCHANGED objects
    /\ UNCHANGED <<row, versions, preview, origin, ledger, next>>

SweepUntracks ==
    /\ sweep.pc = "untrack"
    /\ ledger' = Dropped(ledger, sweep.key)
    /\ SetSweep(NoSweep)
    /\ UNCHANGED <<row, versions, preview, bucket, next, faults>>

SweepDies ==
    /\ sweep.pc # "idle" /\ Fault("sweepdies")
    /\ SetSweep(NoSweep)
    /\ UNCHANGED <<row, versions, preview, bucket, ledger, next>>

\* By hand: everything in the bucket that is not young enough to be a write
\* under way, then what no pointer names, then what no record names.
ReconLists ==
    /\ "reconcile" \in Others /\ recon.pc = "idle"
    /\ SetRecon([pc |-> "ask", keys |-> {k \in objects : ~InFlight(k)}])
    /\ UNCHANGED <<row, versions, preview, bucket, ledger, next, faults>>
ReconAsks ==
    /\ recon.pc = "ask"
    /\ SetRecon([recon EXCEPT !.pc = "known", !.keys = {k \in recon.keys : ~Referenced(k)}])
    /\ UNCHANGED <<row, versions, preview, bucket, ledger, next, faults>>
ReconKnown ==
    /\ recon.pc = "known"
    /\ SetRecon([recon EXCEPT !.pc = "insert", !.keys = recon.keys \ ledger])
    /\ UNCHANGED <<row, versions, preview, bucket, ledger, next, faults>>
ReconNominates ==
    /\ recon.pc = "insert"
    /\ ledger' = ledger \cup recon.keys
    /\ SetRecon(NoList)
    /\ UNCHANGED <<row, versions, preview, bucket, next, faults>>

LedgerStep ==
    \/ \E k \in Key : SweepLists(k)
    \/ SweepAsks \/ SweepDeletes \/ SweepUntracks \/ SweepDies
    \/ ReconLists \/ ReconAsks \/ ReconKnown \/ ReconNominates

----------------------------------------------------------------------------
Next ==
    \/ \E w \in Runs : RunStep(w)
    \/ Cancel \/ GoesStale
    \/ UploadStep \/ RevertStep \/ PurgeStep \/ LedgerStep

Spec == Init /\ [][Next]_vars

\* What a process under way goes on to do, and what the worker's schedules bring
\* round again: nothing makes anybody start a run, a revert, an upload or a purge.
Proceeds(w) ==
    \/ Reserve(w) \/ Store(w) \/ PublishContent(w) \/ Gate(w) \/ AskOwner(w) \/ FileTaken(w)
    \/ Copy(w) \/ FileCopied(w) \/ Interpret(w) \/ Paint(w) \/ Point(w)
    \/ GiveUp(w) \/ Leave(w)
RevertProceeds ==
    \/ TakeOver \/ CopyVersion \/ FileReverted
    \/ DetachRetracted \/ DropRetracted \/ LeaveRevert
PurgeProceeds ==
    \/ DeleteVersion \/ DetachPurged \/ DropPurged \/ PurgeLake \/ RestoreLive
    \/ DeleteServed \/ AskRebuild \/ FinishPurge \/ PurgeFails
SweepProceeds == SweepAsks \/ SweepDeletes \/ SweepUntracks

FairSpec ==
    /\ Spec
    /\ \A w \in Runs : WF_vars(Proceeds(w))
    /\ WF_vars(RevertProceeds) /\ WF_vars(PurgeProceeds) /\ WF_vars(SweepProceeds)
    /\ WF_vars(GoesStale) /\ WF_vars(QueueStranded)
    /\ SF_vars(StartPurge)
    /\ \A k \in Key : SF_vars(SweepLists(k))

----------------------------------------------------------------------------
RunPcs == {"idle", "fetch", "store", "publish", "gate", "owner", "take", "copy", "file",
           "interpret", "paint", "point", "leave"}

\* Every variable holds what the table, the bucket or the process it stands for can.
TypeOK ==
    /\ live \in Pointer /\ hash \in Pointer /\ external \in BOOLEAN /\ pending \in Pointer
    /\ versions \in Seq([key : Key, state : {"active", "purging", "purged"}])
    /\ preview \in Pointer
    /\ objects \subseteq Key /\ origin \in [Key -> Key]
    /\ ledger \subseteq Key
    /\ claim \in Holders \cup {"none"}
    /\ run \in [Runs -> [pc : RunPcs, key : Pointer, prev : Pointer, to : Pointer]]
    /\ rv \in [pc : {"idle", "take", "copy", "file", "detach", "drop", "leave"},
               key : Pointer, prev : Pointer, to : Pointer]
    /\ purge \in [pc : {"idle", "delete", "detach", "drop", "lake", "move", "old", "ask",
                        "finish", "fail"},
                  v : Nat, prev : Pointer, serves : BOOLEAN, to : Pointer]
    /\ queued \in BOOLEAN /\ up \in Pointer /\ urls \subseteq Key
    /\ sweep \in [pc : {"idle", "ask", "delete", "untrack"}, key : Pointer]
    /\ recon \in [pc : {"idle", "ask", "known", "insert"}, keys : SUBSET Key]
    /\ next \in Nat /\ faults \in 0..MaxFaults

\* What the resource serves is in the bucket, and so is the preview: no sweep,
\* revert or purge deletes an object a pointer names. The exception is a version
\* being purged, whose file goes before the pointer does (executePurge: cut off
\* there, the resource must serve nothing).
ServedStored ==
    /\ live # NoKey /\ ~OwnerPurging(live) => live \in objects
    /\ preview # NoKey => preview \in objects

\* A version in good standing has its file, whatever was purged, reverted or swept
\* around it.
VersionsStored == \A v \in WithState("active") : versions[v].key \in objects

\* No two versions own one object, so purging one takes nothing from another
\* (ADR-046 section 3, build-context.ts createVersion).
OneOwner ==
    \A u, v \in Numbers :
        (u # v /\ versions[u].key = versions[v].key)
            => "purged" \in {versions[u].state, versions[v].state}

\* What is served is the newest version that still counts: a version later than
\* the owner of the live object has been purged, or is being.
LiveIsNewest ==
    \A u, v \in Numbers :
        (u < v /\ versions[u].key = live /\ live # NoKey /\ versions[u].state = "active")
            => versions[v].state # "active"

\* A purge that has ended left neither the file in the bucket nor the pointer on it.
PurgedGone == \A v \in WithState("purged") : versions[v].key \notin objects \cup {live}

\* An object nothing names is on the ledger, or a process under way is about to
\* put it there or to name it: what a crash leaves behind can be found again.
InHand(k) ==
    \/ \E w \in Runs : k \in {run[w].key, run[w].to}
    \/ k \in {rv.to, purge.to, purge.prev, up} \/ k \in recon.keys
NothingStranded ==
    \A k \in objects : Referenced(k) \/ k \in ledger \/ InHand(k)

\* A purge that was claimed ends, whatever dies or fails along the way.
PurgeEnds == \A v \in 1..MaxKey :
    (v \in Numbers /\ v \in WithState("purging")) ~> (v \in WithState("purged"))

\* An object nothing names any more leaves the bucket.
GarbageGoes == \A k \in Key : (k \in objects /\ ~Referenced(k)) ~> (k \notin objects \/ Referenced(k))

=============================================================================
