------------------------- MODULE ResourceRunsProofs -------------------------
(* What holds of ResourceRuns for any number of workers, keys, documents,    *)
(* requests and faults: the types; that a run, or a revert, that no longer   *)
(* holds the claim changes nothing in the database; that at most one of a    *)
(* run's index writes lands after it lost the claim; that nothing is fetched *)
(* unasked; that a revert keeps the resource to itself; that a row that says *)
(* queued or processing has somebody to take it further; and, where nothing  *)
(* makes the record of the index a lie, that the record holds and that what  *)
(* is served is processed once all is at rest.                               *)
(*                                                                           *)
(* The argument. A statement under way keeps the claim's row locked, so the  *)
(* claim cannot leave it (FenceKept). Every other write is conditioned on    *)
(* the claim at the moment it is made, or changes nothing the property       *)
(* names (Stopped). A run that has lost the claim cannot look again with     *)
(* success, because only a new run takes the claim (StrayBound). A job put   *)
(* back is of the kind it was, and an upload ends the fetching of its        *)
(* resource (NobodyFetches). A revert's claim is a job's, which nobody takes *)
(* from a live holder (RevertIsJob). Whoever stops short of settling the     *)
(* row's status has seen to it that a job is on its way (Fits), and where    *)
(* nobody hangs a stale claim is a dead holder's (StaleIsDead).              *)
(*                                                                           *)
(* For the last two (RecordInv), what a run under its claim has read is said *)
(* by how far it has come (Reads): its content is the one served, or an      *)
(* upload has replaced it and a job for that is on its way (Serves); the     *)
(* record says nothing of these bytes while it writes them to the index. A   *)
(* revert empties the index with the resource to itself (Reverting), so      *)
(* outside its removal the record describes the index (Describes), and a row *)
(* that says complete is true, or somebody will see to it (Settled).         *)
EXTENDS ResourceRuns, TLAPS

\* The names used for everyone else are not workers'.
LEMMA WorkerNames == \A w \in Workers : w \in Owner /\ w \notin {"none", "dead", "revert", "job"}
  BY WorkersAssumption DEF Owner

(* The types. *)

\* A run stays a run when one of its fields is set to a value of its type.
LEMMA Moved == ASSUME NEW r \in Run, NEW pc \in Pcs PROVE [r EXCEPT !.pc = pc] \in Run
  BY DEF Run

\* A worker between two jobs.
LEMMA IdleOK == Idle \in Run
  BY BoundsAssumption DEF Idle, Run, Pcs, Kinds, Pointer, NoKey

\* A run that is interrupted leaves with nothing in hand, and its job comes back
\* or has been given up.
LEMMA Interruption ==
    ASSUME run \in [Workers -> Run], NEW w \in Workers, Interrupted(w)
    PROVE /\ run' \in [Workers -> Run] /\ \A u \in Workers \ {w} : run'[u] = run[u]
          /\ run'[w].pc = "release" /\ run'[w].kind = run[w].kind /\ run'[w].key = NoKey
          /\ run'[w].prev = NoKey /\ run'[w].rest = {} /\ ~run'[w].fresh /\ run'[w].strays = 0
          /\ run'[w].again \/ buried'
  <1>1. run[w].kind \in Kinds
    BY DEF Run
  <1>2. CASE Interrupts(w, TRUE)
    BY <1>1, <1>2, IdleOK DEF Interrupts, Idle, Run, Pcs
  <1>3. CASE Interrupts(w, FALSE) /\ GivenUp
    BY <1>1, <1>3, IdleOK DEF Interrupts, GivenUp, Idle, Run, Pcs
  <1> QED BY <1>2, <1>3 DEF Interrupted

\* The step that only moves on.
LEMMA GotoOK == ASSUME RunOK, NEW w \in Workers, NEW pc \in Pcs, Goto(w, pc) PROVE RunOK'
  BY Moved DEF Goto, RunOK

\* The step that gives up.
LEMMA LeaveOK == ASSUME RunOK, NEW w \in Workers, Leave(w) PROVE RunOK'
  <1>1. [Idle EXCEPT !.pc = "release", !.kind = run[w].kind, !.again = run[w].again,
                     !.strays = run[w].strays] \in Run
    BY IdleOK DEF RunOK, Run, Pcs
  <1> QED BY <1>1 DEF Leave, RunOK

\* A step's start renews the claim it found, and leaves its owner.
LEMMA StartStepOK == ASSUME ClaimOK, NEW w \in Workers, StartStep(w) PROVE ClaimOK'
  BY DEF StartStep, ClaimOK

\* Giving back clears the three columns together.
LEMMA GiveBackOK == ASSUME ClaimOK, NEW who, GiveBack(who) PROVE ClaimOK'
  BY DEF GiveBack, Free, ClaimOK, Owner

\* A holder that dies leaves the claim as it was, under nobody's name.
LEMMA OrphanOK == ASSUME ClaimOK, NEW who, who # "none", Orphan(who) PROVE ClaimOK'
  BY DEF Orphan, Held, ClaimOK, Owner

\* Taking sets the three columns together.
LEMMA ClaimedOK == ASSUME NEW who \in Owner, who # "none", NEW kind \in {"run", "job"}, claim' = Claimed(who, kind) PROVE ClaimOK'
  BY DEF Claimed, ClaimOK

\* A job is added to the queue.
LEMMA PutOK == ASSUME waiting \in [Kinds -> Nat], NEW kind \in Kinds, Put(kind) PROVE waiting' \in [Kinds -> Nat]
  BY DEF Put

\* Faults are counted up to their bound.
LEMMA FaultOK == ASSUME faults \in 0..MaxFaults, NEW kind, Fault(kind) PROVE faults' \in 0..MaxFaults
  BY BoundsAssumption DEF Fault

\* Raising the mark anew touches every run's copy of it.
LEMMA RaisedOK == ASSUME RunOK PROVE Raised \in [Workers -> Run]
  BY DEF RunOK, Raised, Run

\* What a run notes when it has inserted its version.
LEMMA Fresh == ASSUME NEW r \in Run, NEW pc \in Pcs, NEW fresh \in BOOLEAN
               PROVE [r EXCEPT !.pc = pc, !.fresh = fresh] \in Run
  BY DEF Run

\* A run that drops what it fetched.
LEMMA Dropped == ASSUME NEW r \in Run, NEW pc \in Pcs, NEW key \in Pointer
                 PROVE [r EXCEPT !.pc = pc, !.key = key] \in Run
  BY DEF Run

\* What Fetch leaves in the run.
LEMMA Fetched == ASSUME NEW r \in Run, NEW key \in Pointer, NEW prev \in Pointer
                 PROVE [r EXCEPT !.pc = "publish", !.key = key, !.prev = prev] \in Run
  BY DEF Run, Pcs

\* A resource nobody holds.
LEMMA FreeOK == Free \in [by : Owner, kind : {"none", "run", "job"}, idle : BOOLEAN]
                /\ Free.by = "none" /\ Free.kind = "none"
  BY DEF Free, Owner

\* Stopping a run clears the claim, or leaves everything as it was.
LEMMA StopRunOK == ASSUME ClaimOK, status \in Status, StopRun PROVE ClaimOK' /\ status' \in Status
  BY FreeOK DEF StopRun, ClaimOK, Status

\* The next key to mint is a key.
LEMMA NextOK == ASSUME PlainOK, next <= MaxKey PROVE next \in Key /\ next \in Pointer /\ next + 1 \in 2..(MaxKey + 1)
  BY BoundsAssumption DEF PlainOK, Key, Pointer

\* One run changes, into a run.
LEMMA RunChanged == ASSUME RunOK, NEW w \in Workers, NEW r \in Run, run' = [run EXCEPT ![w] = r]
                    PROVE RunOK'
  BY DEF RunOK

\* The writes a deferred run still has out.
LEMMA Deferring == ASSUME NEW r \in Run, NEW rest \in SUBSET {"status", "enqueue"}, NEW pc \in Pcs
                   PROVE /\ [r EXCEPT !.rest = rest, !.pc = pc] \in Run
                         /\ [r EXCEPT !.pc = pc, !.rest = rest] \in Run
  BY DEF Run

\* No step of a run breaks a type.
LEMMA TypeRunStep == ASSUME TypeOK, NEW w \in Workers, RunStep(w) PROVE TypeOK'
  <1> USE DEF TypeOK
  <1>1. ASSUME NEW k \in Kinds, Take(w, k) PROVE TypeOK'
    <2>1. RunOK'
      <3>1. [Idle EXCEPT !.pc = "claim", !.kind = k] \in Run
        BY IdleOK DEF Run, Pcs
      <3> QED BY <1>1, <3>1, RunChanged DEF Take
    <2>2. PlainOK'
      BY <1>1, PutOK DEF Take, PlainOK, row, content, search, bounds
    <2>3. ClaimOK' /\ RvOK'
      BY <1>1 DEF Take, ClaimOK, RvOK
    <2> QED BY <2>1, <2>2, <2>3
  <1>2. CASE ClaimRun(w)
    <2>1. ClaimOK'
      BY <1>2, ClaimedOK, WorkerNames DEF ClaimRun, ClaimOK
    <2>2. RunOK'
      BY <1>2, GotoOK DEF ClaimRun, Pcs
    <2>3. RvOK' /\ PlainOK'
      BY <1>2 DEF ClaimRun, RvOK, PlainOK, row, content, search, bounds
    <2> QED BY <2>1, <2>2, <2>3
  <1>3. CASE Requeue(w)
    <2>1. RunOK'
      BY <1>3, GotoOK DEF Requeue, Pcs
    <2>2. PlainOK'
      BY <1>3, PutOK DEF Requeue, RunOK, Run, PlainOK, row, content, search, bounds
    <2>3. ClaimOK' /\ RvOK'
      BY <1>3 DEF Requeue, ClaimOK, RvOK
    <2> QED BY <2>1, <2>2, <2>3
  <1>4. CASE BeginRun(w)
    <2>1. RunOK'
      BY <1>4, GotoOK DEF BeginRun, Pcs
    <2>2. PlainOK'
      <3>1. status' \in Status /\ flaws' \subseteq {"fetch", "version", "interpret", "index"}
        BY <1>4 DEF BeginRun, IfHeld, PlainOK, Status
      <3> QED BY <1>4, <3>1 DEF BeginRun, PlainOK, content, search, bounds
    <2>3. ClaimOK' /\ RvOK'
      BY <1>4 DEF BeginRun, ClaimOK, RvOK
    <2> QED BY <2>1, <2>2, <2>3
  <1>5. CASE Cancelled(w)
    <2>1. RunOK'
      BY <1>5, LeaveOK DEF Cancelled
    <2>2. ClaimOK' /\ RvOK' /\ PlainOK'
      BY <1>5 DEF Cancelled, ClaimOK, RvOK, PlainOK, row, content, search, bounds
    <2> QED BY <2>1, <2>2
  <1>6. CASE Fetch(w)
    <2>1. ClaimOK'
      BY <1>6, StartStepOK DEF Fetch
    <2>2. RunOK'
      <3>1. /\ live \in Pointer
            /\ next <= MaxKey => [run[w] EXCEPT !.pc = "publish", !.key = next, !.prev = live] \in Run
            /\ [run[w] EXCEPT !.pc = "publish", !.key = live, !.prev = live] \in Run
        BY NextOK, Fetched DEF PlainOK, RunOK
      <3>2. \/ run' = [run EXCEPT ![w] = [run[w] EXCEPT !.pc = "publish", !.key = live, !.prev = live]]
            \/ /\ next <= MaxKey
               /\ run' = [run EXCEPT ![w] = [run[w] EXCEPT !.pc = "publish", !.key = next, !.prev = live]]
        BY <1>6 DEF Fetch
      <3> QED BY <3>1, <3>2, RunChanged
    <2>3. PlainOK'
      BY <1>6, BoundsAssumption DEF Fetch, PlainOK, row, content, search, bounds
    <2>4. RvOK'
      BY <1>6 DEF Fetch, RvOK
    <2> QED BY <2>1, <2>2, <2>3, <2>4
  <1>7. CASE FetchFails(w)
    <2>1. ClaimOK'
      BY <1>7, StartStepOK DEF FetchFails
    <2>2. RunOK'
      BY <1>7, GotoOK DEF FetchFails, Pcs
    <2>3. PlainOK'
      BY <1>7, FaultOK DEF FetchFails, PlainOK, row, content, search, bounds, counts
    <2>4. RvOK'
      BY <1>7 DEF FetchFails, RvOK
    <2> QED BY <2>1, <2>2, <2>3, <2>4
  <1>8. CASE FetchDeferred(w)
    <2>1. ClaimOK'
      BY <1>8, StartStepOK DEF FetchDeferred
    <2>2. RunOK'
      <3> DEFINE r == [run[w] EXCEPT !.pc = "defer", !.rest = {"status", "enqueue"}]
      <3>1. r \in Run
        <4>1. run[w] \in Run BY DEF RunOK
        <4>2. run[w].pc \in Pcs /\ run[w].rest \in SUBSET {"status", "enqueue"} BY <4>1 DEF Run
        <4> QED BY <4>1, <4>2, Deferring DEF Pcs
      <3>2. run' = [run EXCEPT ![w] = r]
        BY <1>8 DEF FetchDeferred
      <3> HIDE DEF r
      <3> QED BY <3>1, <3>2, RunChanged
    <2>3. PlainOK'
      BY <1>8, FaultOK DEF FetchDeferred, PlainOK, row, content, search, bounds, counts
    <2>4. RvOK'
      BY <1>8 DEF FetchDeferred, RvOK
    <2> QED BY <2>1, <2>2, <2>3, <2>4
  <1>9. CASE DeferStatus(w)
    <2>1. RunOK'
      <3> DEFINE rest == run[w].rest \ {"status"}
                 pc == IF run[w].pc = "defer" /\ run[w].rest = {"status"} THEN "release" ELSE run[w].pc
                 r == [run[w] EXCEPT !.rest = rest, !.pc = pc]
      <3>1. r \in Run
        <4>1. run[w] \in Run BY DEF RunOK
        <4>2. rest \in SUBSET {"status", "enqueue"} BY <4>1 DEF Run
        <4>3. pc \in Pcs BY <4>1 DEF Run, Pcs
        <4> HIDE DEF rest, pc
        <4> QED BY <4>1, <4>2, <4>3, Deferring
      <3>2. run' = [run EXCEPT ![w] = r]
        BY <1>9 DEF DeferStatus
      <3> HIDE DEF r
      <3> QED BY <3>1, <3>2, RunChanged
    <2>2. PlainOK'
      BY <1>9 DEF DeferStatus, IfHeld, PlainOK, Status, row, content, search, bounds
    <2>3. ClaimOK' /\ RvOK'
      BY <1>9 DEF DeferStatus, ClaimOK, RvOK
    <2> QED BY <2>1, <2>2, <2>3
  <1>10. CASE DeferEnqueue(w)
    <2>1. RunOK'
      <3> DEFINE rest == run[w].rest \ {"enqueue"}
                 pc == IF run[w].rest = {"enqueue"} THEN "release" ELSE run[w].pc
                 r == [run[w] EXCEPT !.rest = rest, !.pc = pc]
      <3>1. r \in Run
        <4>1. run[w] \in Run BY DEF RunOK
        <4>2. rest \in SUBSET {"status", "enqueue"} BY <4>1 DEF Run
        <4>3. pc \in Pcs BY <4>1 DEF Run, Pcs
        <4> HIDE DEF rest, pc
        <4> QED BY <4>1, <4>2, <4>3, Deferring
      <3>2. run' = [run EXCEPT ![w] = r]
        BY <1>10 DEF DeferEnqueue
      <3> HIDE DEF r
      <3> QED BY <3>1, <3>2, RunChanged
    <2>2. PlainOK'
      BY <1>10, PutOK DEF DeferEnqueue, RunOK, Run, PlainOK, row, content, search, bounds
    <2>3. ClaimOK' /\ RvOK'
      BY <1>10 DEF DeferEnqueue, ClaimOK, RvOK
    <2> QED BY <2>1, <2>2, <2>3
  <1>11. CASE DeferRefused(w)
    <2>1. RunOK'
      <3> DEFINE r == [run[w] EXCEPT !.rest = run[w].rest \ {"enqueue"}, !.pc = "error"]
      <3>1. r \in Run
        <4>1. run[w] \in Run BY DEF RunOK
        <4>2. run[w].pc \in Pcs /\ run[w].rest \in SUBSET {"status", "enqueue"} BY <4>1 DEF Run
        <4> QED BY <4>1, <4>2, Deferring DEF Pcs
      <3>2. run' = [run EXCEPT ![w] = r]
        BY <1>11 DEF DeferRefused
      <3> HIDE DEF r
      <3> QED BY <3>1, <3>2, RunChanged
    <2>2. PlainOK'
      BY <1>11, FaultOK DEF DeferRefused, PlainOK, row, content, search, bounds, counts
    <2>3. ClaimOK' /\ RvOK'
      BY <1>11 DEF DeferRefused, ClaimOK, RvOK
    <2> QED BY <2>1, <2>2, <2>3
  <1>12. CASE RunFails(w)
    <2>1. RunOK'
      <3> DEFINE r == [run[w] EXCEPT !.pc = "release", !.key = NoKey]
      <3>1. r \in Run
        BY Dropped DEF RunOK, Pcs, Pointer
      <3>2. run' = [run EXCEPT ![w] = r]
        BY <1>12 DEF RunFails
      <3> HIDE DEF r
      <3> QED BY <3>1, <3>2, RunChanged
    <2>2. PlainOK'
      BY <1>12 DEF RunFails, IfHeld, PlainOK, Status, row, content, search, bounds
    <2>3. ClaimOK' /\ RvOK'
      BY <1>12 DEF RunFails, ClaimOK, RvOK
    <2> QED BY <2>1, <2>2, <2>3
  <1>13. CASE PublishStart(w)
    <2>1. RunOK'
      BY <1>13, GotoOK, LeaveOK DEF PublishStart, Pcs
    <2>2. PlainOK'
      BY <1>13, WorkerNames DEF PublishStart, PlainOK, row, content, search, bounds
    <2>3. ClaimOK' /\ RvOK'
      BY <1>13 DEF PublishStart, ClaimOK, RvOK
    <2> QED BY <2>1, <2>2, <2>3
  <1>14. CASE Publish(w)
    <2>1. RunOK'
      BY <1>14, LeaveOK, BoundsAssumption DEF Publish, RunOK, Run, Pcs, Pointer, NoKey
    <2>2. RvOK'
      BY <1>14 DEF Publish, RvOK, Revert
    <2>3. PlainOK'
      BY <1>14 DEF Publish, RunOK, Run, PlainOK, row, content, search, bounds
    <2>4. ClaimOK'
      BY <1>14 DEF Publish, ClaimOK
    <2> QED BY <2>1, <2>2, <2>3, <2>4
  <1>15. CASE VersionGate(w)
    <2>1. ClaimOK'
      BY <1>15, StartStepOK DEF VersionGate
    <2>2. RunOK'
      BY <1>15, GotoOK DEF VersionGate, Pcs
    <2>3. RvOK' /\ PlainOK'
      BY <1>15 DEF VersionGate, RvOK, PlainOK, row, content, search, bounds
    <2> QED BY <2>1, <2>2, <2>3
  <1>16. CASE InsertVersion(w)
    <2>1. RunOK'
      <3> DEFINE r == [run[w] EXCEPT !.pc = "interpret", !.fresh = Held(w)]
      <3>1. r \in Run
        BY Fresh DEF RunOK, Pcs, Held
      <3>2. run' = [run EXCEPT ![w] = r]
        BY <1>16 DEF InsertVersion
      <3> HIDE DEF r
      <3> QED BY <3>1, <3>2, RunChanged
    <2>2. PlainOK'
      BY <1>16 DEF InsertVersion, IfHeld, RunOK, Run, PlainOK, Pointer, row, content, search, bounds
    <2>3. ClaimOK' /\ RvOK'
      BY <1>16 DEF InsertVersion, ClaimOK, RvOK
    <2> QED BY <2>1, <2>2, <2>3
  <1>17. CASE Interpret(w)
    <2>1. ClaimOK'
      BY <1>17, StartStepOK DEF Interpret
    <2>2. RunOK'
      BY <1>17, GotoOK DEF Interpret, Pcs
    <2>3. RvOK' /\ PlainOK'
      BY <1>17 DEF Interpret, RvOK, PlainOK, row, content, search, bounds
    <2> QED BY <2>1, <2>2, <2>3
  <1>18. CASE StepFails(w)
    <2>1. RunOK'
      BY <1>18, GotoOK DEF StepFails, Pcs
    <2>2. PlainOK'
      <3>1. flaws' \subseteq {"fetch", "version", "interpret", "index"}
        BY <1>18 DEF StepFails, IfHeld, PlainOK
      <3>2. faults' \in 0..MaxFaults
        BY <1>18, FaultOK DEF StepFails, PlainOK
      <3> QED BY <1>18, <3>1, <3>2 DEF StepFails, PlainOK, content, search, counts
    <2>3. ClaimOK' /\ RvOK'
      BY <1>18 DEF StepFails, ClaimOK, RvOK
    <2> QED BY <2>1, <2>2, <2>3
  <1>19. CASE Interrupted(w)
    <2>1. RunOK'
      BY <1>19, Interruption DEF RunOK
    <2>2. PlainOK'
      <3>1. status' \in Status /\ flaws' \subseteq {"fetch", "version", "interpret", "index"}
        BY <1>19 DEF Interrupted, IfHeld, PlainOK, Status
      <3>2. buried' \in BOOLEAN
        BY <1>19 DEF Interrupted, GivenUp, PlainOK
      <3> QED BY <1>19, <3>1, <3>2, FaultOK DEF Interrupted, PlainOK, content, search
    <2>3. ClaimOK' /\ RvOK'
      BY <1>19 DEF Interrupted, Interrupts, ClaimOK, RvOK
    <2> QED BY <2>1, <2>2, <2>3
  <1>20. CASE Describe(w)
    <2>1. RunOK'
      BY <1>20, GotoOK DEF Describe, Pcs
    <2>2. PlainOK'
      BY <1>20 DEF Describe, IfHeld, RunOK, Run, PlainOK, row, content, search, bounds
    <2>3. ClaimOK' /\ RvOK'
      BY <1>20 DEF Describe, ClaimOK, RvOK
    <2> QED BY <2>1, <2>2, <2>3
  <1>21. CASE IndexStart(w)
    <2>1. ClaimOK'
      BY <1>21, StartStepOK DEF IndexStart
    <2>2. RunOK'
      <3> DEFINE r == [run[w] EXCEPT !.pc = "check", !.mark = due, !.n = 0]
      <3>1. r \in Run
        <4>1. run[w] \in Run /\ due \in BOOLEAN /\ 0 \in 0..Chunks
          BY BoundsAssumption DEF RunOK, PlainOK
        <4> QED BY <4>1 DEF Run, Pcs
      <3>2. run' = [run EXCEPT ![w] = r]
        BY <1>21 DEF IndexStart
      <3> HIDE DEF r
      <3> QED BY <3>1, <3>2, RunChanged
    <2>3. RvOK' /\ PlainOK'
      BY <1>21 DEF IndexStart, RvOK, PlainOK, row, content, search, bounds
    <2> QED BY <2>1, <2>2, <2>3
  <1>22. CASE Reuse(w)
    <2>1. ClaimOK'
      BY <1>22, StartStepOK DEF Reuse
    <2>2. RunOK'
      BY <1>22, GotoOK DEF Reuse, Pcs
    <2>3. RvOK' /\ PlainOK'
      BY <1>22 DEF Reuse, RvOK, PlainOK, row, content, search, bounds
    <2> QED BY <2>1, <2>2, <2>3
  <1>23. CASE Check(w)
    <2>1. RunOK'
      BY <1>23, GotoOK DEF Check, Pcs
    <2>2. ClaimOK' /\ RvOK' /\ PlainOK'
      BY <1>23 DEF Check, ClaimOK, RvOK, PlainOK, row, content, search, bounds
    <2> QED BY <2>1, <2>2
  <1>24. CASE Send(w)
    <2>1. RunOK'
      BY <1>24, BoundsAssumption DEF Send, RunOK, PlainOK, Run, Pcs
    <2>2. PlainOK'
      BY <1>24 DEF Send, Held, RunOK, Run, PlainOK, Pointer, row, content, search, bounds
    <2>3. ClaimOK' /\ RvOK'
      BY <1>24 DEF Send, ClaimOK, RvOK
    <2> QED BY <2>1, <2>2, <2>3
  <1>25. CASE SendFails(w)
    <2>1. RunOK'
      BY <1>25, GotoOK DEF SendFails, Pcs
    <2>2. PlainOK'
      BY <1>25, FaultOK DEF SendFails, IfHeld, PlainOK, row, content, search, bounds, counts
    <2>3. ClaimOK' /\ RvOK'
      BY <1>25 DEF SendFails, ClaimOK, RvOK
    <2> QED BY <2>1, <2>2, <2>3
  <1>26. CASE RaiseMark(w)
    <2>1. RunOK'
      <3> DEFINE all == IF Held(w) THEN Raised ELSE run
                 r == [all[w] EXCEPT !.pc = "finish"]
      <3>1. all \in [Workers -> Run]
        BY RaisedOK DEF RunOK
      <3>2. r \in Run
        BY <3>1, Moved DEF Pcs
      <3>3. run' = [all EXCEPT ![w] = r]
        BY <1>26 DEF RaiseMark
      <3> HIDE DEF all, r
      <3> QED BY <3>1, <3>2, <3>3 DEF RunOK
    <2>2. PlainOK'
      BY <1>26 DEF RaiseMark, IfHeld, PlainOK, row, content, search, bounds
    <2>3. ClaimOK' /\ RvOK'
      BY <1>26 DEF RaiseMark, ClaimOK, RvOK
    <2> QED BY <2>1, <2>2, <2>3
  <1>27. CASE RecordIndexed(w)
    <2>1. RunOK'
      BY <1>27, GotoOK DEF RecordIndexed, Pcs
    <2>2. PlainOK'
      BY <1>27 DEF RecordIndexed, IfHeld, PlainOK, row, content, search, bounds
    <2>3. ClaimOK' /\ RvOK'
      BY <1>27 DEF RecordIndexed, ClaimOK, RvOK
    <2> QED BY <2>1, <2>2, <2>3
  <1>28. CASE LowerMark(w)
    <2>1. RunOK'
      BY <1>28, GotoOK DEF LowerMark, Pcs
    <2>2. PlainOK'
      BY <1>28 DEF LowerMark, PlainOK, row, content, search, bounds
    <2>3. ClaimOK' /\ RvOK'
      BY <1>28 DEF LowerMark, ClaimOK, RvOK
    <2> QED BY <2>1, <2>2, <2>3
  <1>29. CASE Finish(w)
    <2>1. RunOK'
      BY <1>29, LeaveOK DEF Finish
    <2>2. PlainOK'
      BY <1>29 DEF Finish, IfHeld, PlainOK, Status, row, content, search, bounds
    <2>3. ClaimOK' /\ RvOK'
      BY <1>29 DEF Finish, ClaimOK, RvOK
    <2> QED BY <2>1, <2>2, <2>3
  <1>30. CASE Release(w)
    <2>1. ClaimOK'
      BY <1>30, GiveBackOK DEF Release
    <2>2. RunOK'
      BY <1>30, GotoOK DEF Release, Pcs
    <2>3. RvOK' /\ PlainOK'
      BY <1>30 DEF Release, RvOK, PlainOK, row, content, search, bounds
    <2> QED BY <2>1, <2>2, <2>3
  <1>31. CASE Done(w)
    <2>1. RunOK'
      BY <1>31, IdleOK DEF Done, RunOK
    <2>2. PlainOK'
      BY <1>31, PutOK DEF Done, RunOK, Run, PlainOK, row, content, search, bounds
    <2>3. ClaimOK' /\ RvOK'
      BY <1>31 DEF Done, ClaimOK, RvOK
    <2> QED BY <2>1, <2>2, <2>3
  <1> QED BY <1>1, <1>2, <1>3, <1>4, <1>5, <1>6, <1>7, <1>8, <1>9, <1>10, <1>11, <1>12, <1>13, <1>14, <1>15, <1>16, <1>17, <1>18, <1>19, <1>20, <1>21, <1>22, <1>23, <1>24, <1>25, <1>26, <1>27, <1>28, <1>29, <1>30, <1>31 DEF RunStep

\* Nor does a step of anybody else.
LEMMA TypeOtherStep == ASSUME TypeOK, [Next]_vars, ~ \E w \in Workers : RunStep(w) PROVE TypeOK'
  <1> USE DEF TypeOK
  <1>1. ASSUME NEW w \in Workers, Crash(w) PROVE TypeOK'
    <2>1. ClaimOK'
      BY <1>1, OrphanOK, WorkerNames DEF Crash
    <2>2. RunOK'
      BY <1>1, IdleOK DEF Crash, RunOK
    <2>3. PlainOK'
      BY <1>1, PutOK, FaultOK DEF Crash, GivenUp, RunOK, Run, PlainOK, row, content, search, bounds, counts
    <2>4. RvOK'
      BY <1>1 DEF Crash, RvOK
    <2> QED BY <2>1, <2>2, <2>3, <2>4
  <1>2. ASSUME NEW k \in Asked, Ask(k) PROVE TypeOK'
    <2>1. PlainOK'
      BY <1>2, PutOK, AskedAssumption, BoundsAssumption DEF Ask, Enqueue, PlainOK, Status, row, content, search, bounds
    <2>2. ClaimOK' /\ RunOK' /\ RvOK'
      BY <1>2 DEF Ask, ClaimOK, RunOK, RvOK
    <2> QED BY <2>1, <2>2
  <1>3. CASE GoStale
    <2>1. ClaimOK'
      BY <1>3 DEF GoStale, ClaimOK
    <2>2. PlainOK'
      BY <1>3, FaultOK DEF GoStale, PlainOK, row, content, search, bounds, counts
    <2>3. RunOK' /\ RvOK'
      BY <1>3 DEF GoStale, RunOK, RvOK
    <2> QED BY <2>1, <2>2, <2>3
  <1>4. CASE CancelRun
    <2>1. ClaimOK'
      BY <1>4, StopRunOK DEF CancelRun, PlainOK
    <2>2. PlainOK'
      BY <1>4, StopRunOK DEF CancelRun, PlainOK, row, content, search, bounds
    <2>3. RunOK' /\ RvOK'
      BY <1>4 DEF CancelRun, RunOK, RvOK
    <2> QED BY <2>1, <2>2, <2>3
  <1>5. CASE UploadPrepare
    <2>1. PlainOK'
      BY <1>5 DEF UploadPrepare, PlainOK, row, content, search, bounds
    <2>2. ClaimOK' /\ RunOK' /\ RvOK'
      BY <1>5 DEF UploadPrepare, ClaimOK, RunOK, RvOK
    <2> QED BY <2>1, <2>2
  <1>6. CASE UploadStops
    <2>1. ClaimOK'
      BY <1>6, StopRunOK DEF UploadStops, PlainOK
    <2>2. PlainOK'
      BY <1>6, StopRunOK DEF UploadStops, PlainOK, row, content, search, bounds
    <2>3. RunOK' /\ RvOK'
      BY <1>6 DEF UploadStops, RunOK, RvOK
    <2> QED BY <2>1, <2>2, <2>3
  <1>7. CASE UploadAbandoned
    <2>1. PlainOK'
      BY <1>7 DEF UploadAbandoned, PlainOK, row, content, search, bounds
    <2>2. ClaimOK' /\ RunOK' /\ RvOK'
      BY <1>7 DEF UploadAbandoned, ClaimOK, RunOK, RvOK
    <2> QED BY <2>1, <2>2
  <1>8. CASE UploadPromote
    <2>1. RvOK'
      BY <1>8 DEF UploadPromote, RvOK, Revert
    <2>2. PlainOK'
      BY <1>8, NextOK DEF UploadPromote, PlainOK, row, content, search, bounds
    <2>3. ClaimOK' /\ RunOK'
      BY <1>8 DEF UploadPromote, ClaimOK, RunOK
    <2> QED BY <2>1, <2>2, <2>3
  <1>9. CASE UploadEnqueue
    <2>1. PlainOK'
      BY <1>9, PutOK DEF UploadEnqueue, Enqueue, Kinds, PlainOK, Status, row, content, search, bounds
    <2>2. ClaimOK' /\ RunOK' /\ RvOK'
      BY <1>9 DEF UploadEnqueue, ClaimOK, RunOK, RvOK
    <2> QED BY <2>1, <2>2
  <1>10. CASE JobClaim
    <2>1. ClaimOK'
      BY <1>10, ClaimedOK DEF JobClaim, Owner
    <2>2. PlainOK'
      BY <1>10 DEF JobClaim, PlainOK, row, content, search, bounds
    <2>3. RunOK' /\ RvOK'
      BY <1>10 DEF JobClaim, RunOK, RvOK
    <2> QED BY <2>1, <2>2, <2>3
  <1>11. CASE JobRelease
    <2>1. ClaimOK'
      BY <1>11, GiveBackOK DEF JobRelease
    <2>2. PlainOK'
      BY <1>11 DEF JobRelease, PlainOK, row, content, search, bounds
    <2>3. RunOK' /\ RvOK'
      BY <1>11 DEF JobRelease, RunOK, RvOK
    <2> QED BY <2>1, <2>2, <2>3
  <1>12. CASE JobDies
    <2>1. ClaimOK'
      BY <1>12, OrphanOK DEF JobDies
    <2>2. PlainOK'
      BY <1>12, FaultOK DEF JobDies, PlainOK, row, content, search, bounds, counts
    <2>3. RunOK' /\ RvOK'
      BY <1>12 DEF JobDies, RunOK, RvOK
    <2> QED BY <2>1, <2>2, <2>3
  <1>13. ASSUME NEW k \in versions \cup {NoKey}, RevertAsk(k) PROVE TypeOK'
    <2>1. RvOK'
      BY <1>13 DEF RevertAsk, RvOK, Revert, PlainOK, Pointer
    <2>2. ClaimOK' /\ RunOK' /\ PlainOK'
      BY <1>13 DEF RevertAsk, ClaimOK, RunOK, PlainOK, row, content, search, bounds
    <2> QED BY <2>1, <2>2
  <1>14. CASE Takeover
    <2>1. ClaimOK'
      BY <1>14, ClaimedOK DEF Takeover, ClaimOK, Owner
    <2>2. RvOK'
      BY <1>14 DEF Takeover, RvOK, Revert
    <2>3. PlainOK'
      BY <1>14 DEF Takeover, PlainOK, Status, row, content, search, bounds
    <2>4. RunOK'
      BY <1>14 DEF Takeover, RunOK
    <2> QED BY <2>1, <2>2, <2>3, <2>4
  <1>15. CASE RevertRead
    <2>1. RvOK'
      <3>1. CASE rv' = [rv EXCEPT !.pc = "refuse"]
        BY <3>1 DEF RvOK, Revert
      <3>2. ASSUME NEW key \in Pointer, rv' = [rv EXCEPT !.pc = "publish", !.prev = live, !.key = key]
            PROVE RvOK'
        BY <3>2 DEF RvOK, Revert, PlainOK
      <3>3. NoKey \in Pointer
        BY DEF Pointer
      <3> QED BY <1>15, <3>1, <3>2, <3>3, NextOK DEF RevertRead
    <2>2. PlainOK'
      BY <1>15, BoundsAssumption DEF RevertRead, PlainOK, row, content, search, bounds
    <2>3. ClaimOK' /\ RunOK'
      BY <1>15 DEF RevertRead, ClaimOK, RunOK
    <2> QED BY <2>1, <2>2, <2>3
  <1>16. CASE RevertPublishStart
    <2>1. RvOK'
      BY <1>16 DEF RevertPublishStart, RvOK, Revert
    <2>2. PlainOK'
      BY <1>16 DEF RevertPublishStart, PlainOK, row, content, search, bounds
    <2>3. ClaimOK' /\ RunOK'
      BY <1>16 DEF RevertPublishStart, ClaimOK, RunOK
    <2> QED BY <2>1, <2>2, <2>3
  <1>17. CASE RevertPublish
    <2>1. RvOK'
      BY <1>17 DEF RevertPublish, RvOK, Revert
    <2>2. PlainOK'
      BY <1>17 DEF RevertPublish, RvOK, Revert, PlainOK, Pointer, row, content, search, bounds
    <2>3. ClaimOK' /\ RunOK'
      BY <1>17 DEF RevertPublish, ClaimOK, RunOK
    <2> QED BY <2>1, <2>2, <2>3
  <1>18. CASE RevertWipe
    <2>1. RunOK'
      BY <1>18, RaisedOK DEF RevertWipe, RunOK
    <2>2. RvOK'
      BY <1>18 DEF RevertWipe, RvOK, Revert
    <2>3. PlainOK'
      <3>1. index' \in [1..Chunks -> Pointer]
        BY <1>18 DEF RevertWipe, PlainOK, Pointer
      <3>2. faults' \in 0..MaxFaults /\ due' \in BOOLEAN
        BY <1>18, FaultOK DEF RevertWipe, PlainOK
      <3> QED BY <1>18, <3>1, <3>2 DEF RevertWipe, PlainOK, row, content, bounds, counts
    <2>4. ClaimOK'
      BY <1>18 DEF RevertWipe, ClaimOK
    <2> QED BY <2>1, <2>2, <2>3, <2>4
  <1>19. CASE RevertUnfile
    <2>1. RvOK'
      BY <1>19 DEF RevertUnfile, RvOK, Revert
    <2>2. PlainOK'
      BY <1>19 DEF RevertUnfile, PlainOK, row, content, search, bounds
    <2>3. ClaimOK' /\ RunOK'
      BY <1>19 DEF RevertUnfile, ClaimOK, RunOK
    <2> QED BY <2>1, <2>2, <2>3
  <1>20. CASE RevertRelease
    <2>1. ClaimOK'
      BY <1>20, GiveBackOK DEF RevertRelease
    <2>2. RvOK'
      BY <1>20 DEF RevertRelease, RvOK, Revert, Pointer
    <2>3. RunOK' /\ PlainOK'
      BY <1>20 DEF RevertRelease, RunOK, PlainOK, row, content, search, bounds
    <2> QED BY <2>1, <2>2, <2>3
  <1>21. CASE RevertQueue
    <2>1. RvOK'
      BY <1>21 DEF RevertQueue, RvOK, Revert
    <2>2. PlainOK'
      BY <1>21, PutOK DEF RevertQueue, Enqueue, Kinds, PlainOK, Status, row, content, search, bounds
    <2>3. ClaimOK' /\ RunOK'
      BY <1>21 DEF RevertQueue, ClaimOK, RunOK
    <2> QED BY <2>1, <2>2, <2>3
  <1>22. CASE Sweep
    <2>1. ClaimOK'
      BY <1>22, FreeOK DEF Sweep, ClaimOK
    <2>2. RunOK'
      BY <1>22, RaisedOK DEF Sweep, RunOK
    <2>3. PlainOK'
      <3>1. CASE live # NoKey
        BY <1>22, <3>1, PutOK DEF Sweep, Enqueue, Kinds, PlainOK, Status, content, bounds
      <3>2. CASE live = NoKey
        <4>1. index' \in [1..Chunks -> Pointer]
          BY <1>22, <3>2 DEF Sweep, PlainOK, Pointer
        <4> QED BY <1>22, <3>2, <4>1 DEF Sweep, PlainOK, content, bounds
      <3> QED BY <3>1, <3>2
    <2>4. RvOK'
      BY <1>22 DEF Sweep, RvOK
    <2> QED BY <2>1, <2>2, <2>3, <2>4
  <1>23. CASE UNCHANGED vars
    BY <1>23 DEF vars, ClaimOK, RunOK, RvOK, PlainOK, row, content, search, bounds
  <1> QED BY <1>1, <1>2, <1>3, <1>4, <1>5, <1>6, <1>7, <1>8, <1>9, <1>10, <1>11, <1>12, <1>13, <1>14, <1>15, <1>16, <1>17, <1>18, <1>19, <1>20, <1>21, <1>22, <1>23 DEF Next, UploadStep, RevertStep

\* The types hold at the start.
LEMMA TypeInit == ASSUME Init PROVE TypeOK
  <1>1. ClaimOK BY FreeOK DEF Init, ClaimOK
  <1>2. RunOK BY IdleOK DEF Init, RunOK
  <1>3. RvOK BY DEF Init, RvOK, Revert, Pointer, NoKey
  <1>4. 1 \in Key /\ 2 \in 2..(MaxKey + 1) /\ 0 \in 0..MaxAsks /\ 0 \in 0..MaxFaults
    BY BoundsAssumption DEF Key
  <1>5. PlainOK BY <1>4 DEF Init, PlainOK, Pointer, Status
  <1> QED BY <1>1, <1>2, <1>3, <1>5 DEF TypeOK

\* Every variable keeps its type, however many workers, keys and faults there
\* are; the claim's columns are set and cleared together.
THEOREM TypeCorrect == Spec => []TypeOK
  <1>1. Init => TypeOK
    BY TypeInit
  <1>2. TypeOK /\ [Next]_vars => TypeOK'
    <2>1. CASE UNCHANGED vars
      BY <2>1, TypeOtherStep, TypeRunStep
    <2> QED BY <2>1, TypeRunStep, TypeOtherStep
  <1> QED BY <1>1, <1>2, PTL DEF Spec

(* The fence. *)

\* A statement under way belongs to the holder of the claim, and nobody else
\* is in the middle of one.
FenceKept ==
    /\ fence # "none" => Held(fence)
    /\ \A w \in Workers : run[w].pc = "landing" => fence = w
    /\ rv.pc = "landing" => fence = "revert"

\* A step that does not touch the fence, and does not move the claim under it.
Calm ==
    /\ fence' = fence
    /\ fence = "none" \/ claim'.by = claim.by
    /\ \A w \in Workers : run'[w].pc = "landing" => run[w].pc = "landing"
    /\ rv'.pc = "landing" => rv.pc = "landing"

\* What a stopped run may not do, as StoppedLandsNothing says it.
Landless(w) ==
    /\ UNCHANGED <<status, flaws, made, filed, live, versions, due>>
    /\ run[w].pc # "claim" => claim' = claim

\* One stray write at most, and after it no way to another.
Strayed(w) ==
    /\ run[w].strays <= 1
    /\ run[w].strays = 1 => ~Held(w) /\ run[w].pc \notin {"idle", "claim", "send"}
\* Nothing of the run moves, and it is not given the claim.
Still(w) ==
    /\ run'[w].pc = run[w].pc /\ run'[w].rest = run[w].rest
    /\ run'[w].strays = run[w].strays
    /\ claim'.by = w => claim.by = w
StrayBound == \A w \in Workers : Strayed(w)

\* A step of a run other than its publishing: the row is as locked as it was,
\* the claim keeps its owner while it is, and no statement gets under way.
LEMMA CalmRun == ASSUME TypeOK, NEW w \in Workers, RunStep(w), ~PublishStart(w), ~Publish(w) PROVE Calm
  <1>0. run \in [Workers -> Run] BY DEF TypeOK, RunOK
  <1>1. CASE \E k \in Kinds : Take(w, k)
    BY <1>0, <1>1 DEF Take, Idle, Calm, RowFree, Run
  <1>2. CASE ClaimRun(w)
    BY <1>0, <1>2 DEF ClaimRun, Goto, Calm, RowFree, Run
  <1>3. CASE Requeue(w)
    BY <1>0, <1>3 DEF Requeue, Goto, Calm, RowFree, Run
  <1>4. CASE BeginRun(w)
    BY <1>0, <1>4 DEF BeginRun, Goto, Calm, RowFree, Run
  <1>5. CASE Cancelled(w)
    BY <1>0, <1>5 DEF Cancelled, Leave, Idle, Calm, RowFree, Run
  <1>6. CASE Fetch(w)
    BY <1>0, <1>6 DEF Fetch, StartStep, Calm, RowFree, Run
  <1>7. CASE FetchFails(w)
    BY <1>0, <1>7 DEF FetchFails, StartStep, Goto, Calm, RowFree, Run
  <1>8. CASE FetchDeferred(w)
    BY <1>0, <1>8 DEF FetchDeferred, StartStep, Calm, RowFree, Run
  <1>9. CASE DeferStatus(w)
    BY <1>0, <1>9 DEF DeferStatus, Calm, RowFree, Run
  <1>10. CASE DeferEnqueue(w)
    BY <1>0, <1>10 DEF DeferEnqueue, Calm, RowFree, Run
  <1>11. CASE DeferRefused(w)
    BY <1>0, <1>11 DEF DeferRefused, Calm, RowFree, Run
  <1>12. CASE RunFails(w)
    BY <1>0, <1>12 DEF RunFails, Calm, RowFree, Run
  <1>13. CASE VersionGate(w)
    BY <1>0, <1>13 DEF VersionGate, StartStep, Goto, Calm, RowFree, Run
  <1>14. CASE InsertVersion(w)
    BY <1>0, <1>14 DEF InsertVersion, Calm, RowFree, Run
  <1>15. CASE Interpret(w)
    BY <1>0, <1>15 DEF Interpret, StartStep, Goto, Calm, RowFree, Run
  <1>16. CASE StepFails(w)
    BY <1>0, <1>16 DEF StepFails, Goto, Calm, RowFree, Run
  <1>17. CASE Interrupted(w)
    <2>1. \A u \in Workers : run'[u].pc = "landing" => run[u].pc = "landing"
      BY <1>0, <1>17, Interruption
    <2> QED BY <1>17, <2>1 DEF Interrupted, Calm, RowFree
  <1>18. CASE Describe(w)
    BY <1>0, <1>18 DEF Describe, Goto, Calm, RowFree, Run
  <1>19. CASE IndexStart(w)
    BY <1>0, <1>19 DEF IndexStart, StartStep, Calm, RowFree, Run
  <1>20. CASE Reuse(w)
    BY <1>0, <1>20 DEF Reuse, StartStep, Goto, Calm, RowFree, Run
  <1>21. CASE Check(w)
    BY <1>0, <1>21 DEF Check, Goto, Calm, RowFree, Run
  <1>22. CASE Send(w)
    BY <1>0, <1>22 DEF Send, Calm, RowFree, Run
  <1>23. CASE SendFails(w)
    BY <1>0, <1>23 DEF SendFails, Goto, Calm, RowFree, Run
  <1>24. CASE RaiseMark(w)
    BY <1>0, <1>24 DEF RaiseMark, Raised, Calm, RowFree, Run
  <1>25. CASE RecordIndexed(w)
    BY <1>0, <1>25 DEF RecordIndexed, Goto, Calm, RowFree, Run
  <1>26. CASE LowerMark(w)
    BY <1>0, <1>26 DEF LowerMark, Goto, Calm, RowFree, Run
  <1>27. CASE Finish(w)
    BY <1>0, <1>27 DEF Finish, Leave, Idle, Calm, RowFree, Run
  <1>28. CASE Release(w)
    BY <1>0, <1>28 DEF Release, Goto, GiveBack, Calm, RowFree, Run
  <1>29. CASE Done(w)
    BY <1>0, <1>29 DEF Done, Idle, Calm, RowFree, Run
  <1> QED BY <1>1, <1>2, <1>3, <1>4, <1>5, <1>6, <1>7, <1>8, <1>9, <1>10, <1>11, <1>12, <1>13, <1>14, <1>15, <1>16, <1>17, <1>18, <1>19, <1>20, <1>21, <1>22, <1>23, <1>24, <1>25, <1>26, <1>27, <1>28, <1>29 DEF RunStep

\* So is a step of anyone else, other than a revert's publishing and a death.
LEMMA CalmOther == ASSUME TypeOK, [Next]_vars, ~ \E w \in Workers : RunStep(w) \/ Crash(w),
                         ~JobDies, ~RevertPublishStart, ~RevertPublish PROVE Calm
  <1>0. run \in [Workers -> Run] BY DEF TypeOK, RunOK
  <1>1. ASSUME NEW k \in Asked, Ask(k) PROVE Calm
    BY <1>0, <1>1 DEF Ask, Enqueue, Calm, RowFree, Run
  <1>2. CASE CancelRun
    BY <1>0, <1>2 DEF CancelRun, StopRun, Calm, RowFree, Run
  <1>3. CASE UploadPrepare
    BY <1>0, <1>3 DEF UploadPrepare, Calm, RowFree, Run
  <1>4. CASE UploadStops
    BY <1>0, <1>4 DEF UploadStops, StopRun, Calm, RowFree, Run
  <1>5. CASE UploadAbandoned
    BY <1>0, <1>5 DEF UploadAbandoned, Calm, RowFree, Run
  <1>6. CASE UploadPromote
    BY <1>0, <1>6 DEF UploadPromote, Calm, RowFree, Run, TypeOK, RvOK, Revert
  <1>7. CASE UploadEnqueue
    BY <1>0, <1>7 DEF UploadEnqueue, Enqueue, Calm, RowFree, Run
  <1>8. CASE JobClaim
    BY <1>0, <1>8 DEF JobClaim, Calm, RowFree, Run
  <1>9. CASE JobRelease
    BY <1>0, <1>9 DEF JobRelease, GiveBack, Calm, RowFree, Run
  <1>10. ASSUME NEW to \in versions \cup {NoKey}, RevertAsk(to) PROVE Calm
    BY <1>0, <1>10 DEF RevertAsk, Calm, RowFree, Run, TypeOK, RvOK, Revert
  <1>11. CASE Takeover
    BY <1>0, <1>11 DEF Takeover, Calm, RowFree, Run, TypeOK, RvOK, Revert
  <1>12. CASE RevertRead
    BY <1>0, <1>12 DEF RevertRead, Calm, RowFree, Run, TypeOK, RvOK, Revert
  <1>13. CASE RevertWipe
    BY <1>0, <1>13 DEF RevertWipe, Raised, Calm, RowFree, Run, TypeOK, RvOK, Revert
  <1>14. CASE RevertUnfile
    BY <1>0, <1>14 DEF RevertUnfile, Calm, RowFree, Run, TypeOK, RvOK, Revert
  <1>15. CASE RevertRelease
    BY <1>0, <1>15 DEF RevertRelease, GiveBack, Calm, RowFree, Run, TypeOK, RvOK, Revert
  <1>16. CASE RevertQueue
    BY <1>0, <1>16 DEF RevertQueue, Enqueue, Calm, RowFree, Run, TypeOK, RvOK, Revert
  <1>17. CASE Sweep
    <2>1. fence = "none" /\ fence' = fence /\ rv' = rv
      BY <1>17 DEF Sweep, Enqueue, RowFree
    <2>2. \A w \in Workers : run'[w].pc = run[w].pc
      <3>1. run' = Raised \/ run' = run
        BY <1>17 DEF Sweep
      <3> QED BY <1>0, <3>1 DEF Raised, Run
    <2> QED BY <2>1, <2>2 DEF Calm
  <1>18. CASE GoStale
    BY <1>0, <1>18 DEF GoStale, TypeOK, ClaimOK, Calm
  <1>19. CASE UNCHANGED vars
    BY <1>19 DEF vars, Calm
  <1> QED BY <1>1, <1>2, <1>3, <1>4, <1>5, <1>6, <1>7, <1>8, <1>9, <1>10, <1>11, <1>12, <1>13, <1>14, <1>15, <1>16, <1>17, <1>18, <1>19 DEF Next, UploadStep, RevertStep

\* Where a run that gives up is left.
LEMMA Leaving == ASSUME run \in [Workers -> Run], NEW w \in Workers, Leave(w)
                 PROVE run'[w].pc = "release" /\ run'[w].strays = run[w].strays
  BY DEF Leave, Idle, Run

\* A calm step keeps the fence.
LEMMA FenceCalm == ASSUME FenceKept, Calm PROVE FenceKept'
  BY DEF FenceKept, Calm, Held

\* Every step keeps the fence: locking and unlocking the row, and the two
\* deaths, are what is left.
LEMMA FenceStep == ASSUME TypeOK, FenceKept, [Next]_vars PROVE FenceKept'
  <1>0. run \in [Workers -> Run] /\ rv \in Revert BY DEF TypeOK, RunOK, RvOK
  <1>1. ASSUME NEW w \in Workers, PublishStart(w) PROVE FenceKept'
    <2>1. fence = "none" /\ \A v \in Workers : run[v].pc # "landing"
      BY <1>1, WorkerNames DEF PublishStart, RowFree, FenceKept
    <2>2. \A v \in Workers \ {w} : run'[v] = run[v]
      BY <1>0, <1>1 DEF PublishStart, Goto, Leave
    <2>3. CASE Held(w)
      BY <1>0, <1>1, <2>1, <2>2, <2>3, WorkerNames DEF PublishStart, FenceKept, Held
    <2>4. CASE ~Held(w)
      <3>1. run'[w].pc # "landing" /\ fence' = "none" /\ rv' = rv
        BY <1>0, <1>1, <2>1, <2>4 DEF PublishStart, Leave, Idle
      <3> QED BY <2>1, <2>2, <3>1 DEF FenceKept
    <2> QED BY <2>3, <2>4
  <1>2. ASSUME NEW w \in Workers, Publish(w) PROVE FenceKept'
    <2>0. \/ run' = [run EXCEPT ![w] = [run[w] EXCEPT !.pc = "version", !.prev = NoKey]]
          \/ Leave(w)
      BY <1>2 DEF Publish
    <2>1. fence = w /\ fence' = "none" /\ \A v \in Workers \ {w} : run[v].pc # "landing"
      BY <1>2 DEF Publish, FenceKept
    <2>2. \A v \in Workers \ {w} : run'[v] = run[v]
      BY <1>0, <2>0 DEF Leave
    <2>3. run'[w].pc # "landing"
      <3>1. CASE Leave(w)
        BY <1>0, <3>1, Leaving
      <3>2. CASE ~Leave(w)
        BY <1>0, <2>0, <3>2 DEF Run
      <3> QED BY <3>1, <3>2
    <2>4. rv.pc # "landing" /\ rv'.pc = rv.pc
      BY <1>0, <1>2, <2>1, WorkerNames DEF Publish, FenceKept, Revert
    <2> QED BY <2>1, <2>2, <2>3, <2>4 DEF FenceKept
  <1>3. ASSUME NEW w \in Workers, Crash(w) PROVE FenceKept'
    BY <1>0, <1>3, WorkerNames DEF Crash, Orphan, Idle, FenceKept, Held, Run, row, content, search
  <1>4. CASE JobDies
    BY <1>0, <1>4, WorkerNames DEF JobDies, Orphan, FenceKept, Held, TypeOK, PlainOK
  <1>5. CASE RevertPublishStart
    BY <1>0, <1>5, WorkerNames DEF RevertPublishStart, RowFree, FenceKept, Held, Revert
  <1>6. CASE RevertPublish
    BY <1>0, <1>6, WorkerNames DEF RevertPublish, FenceKept, Held, Revert
  <1> QED BY <1>1, <1>2, <1>3, <1>4, <1>5, <1>6, CalmRun, CalmOther, FenceCalm

\* A step of a run that does not hold the claim lands on nothing.
LEMMA Stopped == ASSUME TypeOK, FenceKept, NEW w \in Workers, RunStep(w), ~Held(w) PROVE Landless(w)
  <1>0. run \in [Workers -> Run] BY DEF TypeOK, RunOK
  <1>1. CASE \E k \in Kinds : Take(w, k)
    BY <1>1 DEF Take, Landless, row, content, search
  <1>2. CASE ClaimRun(w)
    BY <1>2 DEF ClaimRun, Landless, row, content, search
  <1>3. CASE Requeue(w)
    BY <1>3 DEF Requeue, Landless, row, content, search
  <1>4. CASE BeginRun(w)
    BY <1>4 DEF BeginRun, IfHeld, Landless, row, content, search
  <1>5. CASE Cancelled(w)
    BY <1>5 DEF Cancelled, Landless, row, content, search
  <1>6. CASE Fetch(w)
    BY <1>6 DEF Fetch, StartStep, Landless, row, content, search
  <1>7. CASE FetchFails(w)
    BY <1>7 DEF FetchFails, StartStep, Landless, row, content, search
  <1>8. CASE FetchDeferred(w)
    BY <1>8 DEF FetchDeferred, StartStep, Landless, row, content, search
  <1>9. CASE DeferStatus(w)
    BY <1>9 DEF DeferStatus, IfHeld, Landless, row, content, search
  <1>10. CASE DeferEnqueue(w)
    BY <1>10 DEF DeferEnqueue, Landless, row, content, search
  <1>11. CASE DeferRefused(w)
    BY <1>11 DEF DeferRefused, Landless, row, content, search
  <1>12. CASE RunFails(w)
    BY <1>12 DEF RunFails, IfHeld, Landless, row, content, search
  <1>13. CASE PublishStart(w)
    BY <1>13 DEF PublishStart, Landless, row, content, search
  <1>14. CASE Publish(w)
    <2>1. fence = w /\ Held(w)
      BY <1>14, WorkerNames DEF Publish, FenceKept
    <2> QED BY <2>1
  <1>15. CASE VersionGate(w)
    BY <1>15 DEF VersionGate, StartStep, Landless, row, content, search
  <1>16. CASE InsertVersion(w)
    BY <1>16 DEF InsertVersion, IfHeld, Landless, row, content, search
  <1>17. CASE Interpret(w)
    BY <1>17 DEF Interpret, StartStep, Landless, row, content, search
  <1>18. CASE StepFails(w)
    BY <1>18 DEF StepFails, IfHeld, Landless, row, content, search
  <1>19. CASE Interrupted(w)
    BY <1>19 DEF Interrupted, Interrupts, IfHeld, Landless, row, content, search
  <1>20. CASE Describe(w)
    BY <1>20 DEF Describe, IfHeld, Landless, row, content, search
  <1>21. CASE IndexStart(w)
    BY <1>21 DEF IndexStart, StartStep, Landless, row, content, search
  <1>22. CASE Reuse(w)
    BY <1>22 DEF Reuse, StartStep, Landless, row, content, search
  <1>23. CASE Check(w)
    BY <1>23 DEF Check, Landless, row, content, search
  <1>24. CASE Send(w)
    BY <1>24 DEF Send, Landless, row, content, search
  <1>25. CASE SendFails(w)
    BY <1>25 DEF SendFails, IfHeld, Landless, row, content, search
  <1>26. CASE RaiseMark(w)
    BY <1>26 DEF RaiseMark, IfHeld, Landless, row, content, search
  <1>27. CASE RecordIndexed(w)
    BY <1>27 DEF RecordIndexed, IfHeld, Landless, row, content, search
  <1>28. CASE LowerMark(w)
    BY <1>28 DEF LowerMark, Landless, TypeOK, PlainOK, row, content, search
  <1>29. CASE Finish(w)
    BY <1>29 DEF Finish, IfHeld, Landless, row, content, search
  <1>30. CASE Release(w)
    BY <1>30 DEF Release, GiveBack, Landless, row, content, search
  <1>31. CASE Done(w)
    BY <1>31 DEF Done, Landless, row, content, search
  <1> QED BY <1>1, <1>2, <1>3, <1>4, <1>5, <1>6, <1>7, <1>8, <1>9, <1>10, <1>11, <1>12, <1>13, <1>14, <1>15, <1>16, <1>17, <1>18, <1>19, <1>20, <1>21, <1>22, <1>23, <1>24, <1>25, <1>26, <1>27, <1>28, <1>29, <1>30, <1>31 DEF RunStep

\* A step of one run is not a step of another.
LEMMA OnlyItself == ASSUME TypeOK, NEW v \in Workers, RunStep(v), NEW w \in Workers, w # v PROVE ~Acts(w)
  <1>0. run \in [Workers -> Run] BY DEF TypeOK, RunOK
  <1>1. CASE \E k \in Kinds : Take(v, k)
    BY <1>0, <1>1 DEF Take, Acts
  <1>2. CASE ClaimRun(v)
    BY <1>0, <1>2 DEF ClaimRun, Goto, Acts
  <1>3. CASE Requeue(v)
    BY <1>0, <1>3 DEF Requeue, Goto, Acts
  <1>4. CASE BeginRun(v)
    BY <1>0, <1>4 DEF BeginRun, Goto, Acts
  <1>5. CASE Cancelled(v)
    BY <1>0, <1>5 DEF Cancelled, Leave, Acts
  <1>6. CASE Fetch(v)
    BY <1>0, <1>6 DEF Fetch, Acts
  <1>7. CASE FetchFails(v)
    BY <1>0, <1>7 DEF FetchFails, Goto, Acts
  <1>8. CASE FetchDeferred(v)
    BY <1>0, <1>8 DEF FetchDeferred, Acts
  <1>9. CASE DeferStatus(v)
    BY <1>0, <1>9 DEF DeferStatus, Acts
  <1>10. CASE DeferEnqueue(v)
    BY <1>0, <1>10 DEF DeferEnqueue, Acts
  <1>11. CASE DeferRefused(v)
    BY <1>0, <1>11 DEF DeferRefused, Acts
  <1>12. CASE RunFails(v)
    BY <1>0, <1>12 DEF RunFails, Acts
  <1>13. CASE PublishStart(v)
    BY <1>0, <1>13 DEF PublishStart, Goto, Leave, Acts
  <1>14. CASE Publish(v)
    BY <1>0, <1>14 DEF Publish, Leave, Acts
  <1>15. CASE VersionGate(v)
    BY <1>0, <1>15 DEF VersionGate, Goto, Acts
  <1>16. CASE InsertVersion(v)
    BY <1>0, <1>16 DEF InsertVersion, Acts
  <1>17. CASE Interpret(v)
    BY <1>0, <1>17 DEF Interpret, Goto, Acts
  <1>18. CASE StepFails(v)
    BY <1>0, <1>18 DEF StepFails, Goto, Acts
  <1>19. CASE Interrupted(v)
    BY <1>0, <1>19 DEF Interrupted, Interrupts, Acts
  <1>20. CASE Describe(v)
    BY <1>0, <1>20 DEF Describe, Goto, Acts
  <1>21. CASE IndexStart(v)
    BY <1>0, <1>21 DEF IndexStart, Acts
  <1>22. CASE Reuse(v)
    BY <1>0, <1>22 DEF Reuse, Goto, Acts
  <1>23. CASE Check(v)
    BY <1>0, <1>23 DEF Check, Goto, Acts
  <1>24. CASE Send(v)
    BY <1>0, <1>24 DEF Send, Acts
  <1>25. CASE SendFails(v)
    BY <1>0, <1>25 DEF SendFails, Goto, Acts
  <1>26. CASE RaiseMark(v)
    BY <1>0, <1>26 DEF RaiseMark, Raised, Run, Acts
  <1>27. CASE RecordIndexed(v)
    BY <1>0, <1>27 DEF RecordIndexed, Goto, Acts
  <1>28. CASE LowerMark(v)
    BY <1>0, <1>28 DEF LowerMark, Goto, Acts
  <1>29. CASE Finish(v)
    BY <1>0, <1>29 DEF Finish, Leave, Acts
  <1>30. CASE Release(v)
    BY <1>0, <1>30 DEF Release, Goto, Acts
  <1>31. CASE Done(v)
    BY <1>0, <1>31 DEF Done, Acts
  <1> QED BY <1>1, <1>2, <1>3, <1>4, <1>5, <1>6, <1>7, <1>8, <1>9, <1>10, <1>11, <1>12, <1>13, <1>14, <1>15, <1>16, <1>17, <1>18, <1>19, <1>20, <1>21, <1>22, <1>23, <1>24, <1>25, <1>26, <1>27, <1>28, <1>29, <1>30, <1>31 DEF RunStep

\* What is no step of a run gives no run the claim, and changes nothing of a
\* run but the mark it read.
LEMMA SitsStill == ASSUME TypeOK, [Next]_vars, ~ \E w \in Workers : RunStep(w) \/ Crash(w)
                   PROVE \A w \in Workers : Still(w)
  <1> SUFFICES ASSUME NEW w \in Workers PROVE Still(w)
    OBVIOUS
  <1>0. run \in [Workers -> Run] /\ claim.by \in Owner BY DEF TypeOK, RunOK, ClaimOK
  <1>1. ASSUME NEW k \in Asked, Ask(k) PROVE Still(w)
    BY <1>0, <1>1 DEF Ask, Still
  <1>2. CASE CancelRun
    BY <1>0, <1>2, WorkerNames DEF CancelRun, StopRun, Free, Still
  <1>3. CASE UploadPrepare
    BY <1>0, <1>3 DEF UploadPrepare, Still
  <1>4. CASE UploadStops
    BY <1>0, <1>4, WorkerNames DEF UploadStops, StopRun, Free, Still
  <1>5. CASE UploadAbandoned
    BY <1>0, <1>5 DEF UploadAbandoned, Still
  <1>6. CASE UploadPromote
    BY <1>0, <1>6 DEF UploadPromote, Still
  <1>7. CASE UploadEnqueue
    BY <1>0, <1>7 DEF UploadEnqueue, Still
  <1>8. CASE JobClaim
    BY <1>0, <1>8, WorkerNames DEF JobClaim, Claimed, Still
  <1>9. CASE JobRelease
    BY <1>0, <1>9, WorkerNames DEF JobRelease, GiveBack, Free, Still
  <1>10. CASE JobDies
    BY <1>0, <1>10, WorkerNames DEF JobDies, Orphan, Held, TypeOK, ClaimOK, Still
  <1>11. ASSUME NEW to \in versions \cup {NoKey}, RevertAsk(to) PROVE Still(w)
    BY <1>0, <1>11 DEF RevertAsk, Still
  <1>12. CASE Takeover
    BY <1>0, <1>12, WorkerNames DEF Takeover, Claimed, Still
  <1>13. CASE RevertRead
    BY <1>0, <1>13 DEF RevertRead, Still
  <1>14. CASE RevertPublishStart
    BY <1>0, <1>14 DEF RevertPublishStart, Still
  <1>15. CASE RevertPublish
    BY <1>0, <1>15 DEF RevertPublish, Still
  <1>16. CASE RevertWipe
    BY <1>0, <1>16 DEF RevertWipe, Raised, Run, Still
  <1>17. CASE RevertUnfile
    BY <1>0, <1>17 DEF RevertUnfile, Still
  <1>18. CASE RevertRelease
    BY <1>0, <1>18, WorkerNames DEF RevertRelease, GiveBack, Free, Still
  <1>19. CASE RevertQueue
    BY <1>0, <1>19 DEF RevertQueue, Still
  <1>20. CASE Sweep
    <2>1. run' = Raised \/ run' = run
      BY <1>20 DEF Sweep
    <2>2. claim' = claim \/ claim' = Free
      BY <1>20 DEF Sweep
    <2>3. run'[w].pc = run[w].pc /\ run'[w].rest = run[w].rest /\ run'[w].strays = run[w].strays
      BY <1>0, <2>1 DEF Raised, Run
    <2> QED BY <2>2, <2>3, WorkerNames DEF Free, Still
  <1>21. CASE GoStale
    BY <1>0, <1>21 DEF GoStale, TypeOK, ClaimOK, Still
  <1>22. CASE UNCHANGED vars
    BY <1>22 DEF vars, Still
  <1> QED BY <1>1, <1>2, <1>3, <1>4, <1>5, <1>6, <1>7, <1>8, <1>9, <1>10, <1>11, <1>12, <1>13, <1>14, <1>15, <1>16, <1>17, <1>18, <1>19, <1>20, <1>21, <1>22 DEF Next, UploadStep, RevertStep

\* A step of a run keeps the bound on stray writes: a look succeeds only under
\* the claim, and one look allows one write.
LEMMA StrayRun == ASSUME TypeOK, StrayBound, NEW v \in Workers, RunStep(v) PROVE StrayBound'
  <1>0. run \in [Workers -> Run] BY DEF TypeOK, RunOK
  <1> SUFFICES ASSUME NEW w \in Workers PROVE Strayed(w)'
    BY DEF StrayBound
  <1>a. Strayed(w) /\ Strayed(v) BY DEF StrayBound
  <1>1. CASE \E k \in Kinds : Take(v, k)
    BY <1>0, <1>a, <1>1 DEF Take, Idle, Held, Strayed, Run
  <1>2. CASE ClaimRun(v)
    BY <1>0, <1>a, <1>2, WorkerNames DEF ClaimRun, Goto, Claimed, Held, Strayed, Run
  <1>3. CASE Requeue(v)
    BY <1>0, <1>a, <1>3 DEF Requeue, Goto, Held, Strayed, Run
  <1>4. CASE BeginRun(v)
    BY <1>0, <1>a, <1>4 DEF BeginRun, Goto, Held, Strayed, Run
  <1>5. CASE Cancelled(v)
    BY <1>0, <1>a, <1>5 DEF Cancelled, Leave, Idle, Held, Strayed, Run
  <1>6. CASE Fetch(v)
    BY <1>0, <1>a, <1>6 DEF Fetch, StartStep, Held, Strayed, Run, TypeOK, ClaimOK
  <1>7. CASE FetchFails(v)
    BY <1>0, <1>a, <1>7 DEF FetchFails, StartStep, Goto, Held, Strayed, Run, TypeOK, ClaimOK
  <1>8. CASE FetchDeferred(v)
    BY <1>0, <1>a, <1>8 DEF FetchDeferred, StartStep, Held, Strayed, Run, TypeOK, ClaimOK
  <1>9. CASE DeferStatus(v)
    BY <1>0, <1>a, <1>9 DEF DeferStatus, Held, Strayed, Run
  <1>10. CASE DeferEnqueue(v)
    BY <1>0, <1>a, <1>10 DEF DeferEnqueue, Held, Strayed, Run
  <1>11. CASE DeferRefused(v)
    BY <1>0, <1>a, <1>11 DEF DeferRefused, Held, Strayed, Run
  <1>12. CASE RunFails(v)
    BY <1>0, <1>a, <1>12 DEF RunFails, Held, Strayed, Run
  <1>13. CASE PublishStart(v)
    <2>0. claim' = claim /\ (Goto(v, "landing") \/ Leave(v))
      BY <1>13 DEF PublishStart
    <2>1. claim' = claim /\ \A u \in Workers \ {v} : run'[u] = run[u]
      BY <1>0, <2>0 DEF Goto, Leave
    <2>2. run'[v].strays = run[v].strays /\ run'[v].pc \in {"landing", "release"}
      <3>1. CASE Leave(v)
        BY <1>0, <3>1, Leaving
      <3>2. CASE Goto(v, "landing")
        BY <1>0, <3>2 DEF Goto, Run
      <3> QED BY <2>0, <3>1, <3>2
    <2> QED BY <1>a, <2>1, <2>2 DEF Strayed, Held
  <1>14. CASE Publish(v)
    <2>0. /\ claim' = claim
          /\ \/ run' = [run EXCEPT ![v] = [run[v] EXCEPT !.pc = "version", !.prev = NoKey]]
             \/ Leave(v)
      BY <1>14 DEF Publish
    <2>1. claim' = claim /\ \A u \in Workers \ {v} : run'[u] = run[u]
      BY <1>0, <2>0 DEF Leave
    <2>2. run'[v].strays = run[v].strays /\ run'[v].pc \in {"version", "release"}
      <3>1. CASE Leave(v)
        BY <1>0, <3>1, Leaving
      <3>2. CASE ~Leave(v)
        BY <1>0, <2>0, <3>2 DEF Run
      <3> QED BY <3>1, <3>2
    <2> QED BY <1>a, <2>1, <2>2 DEF Strayed, Held
  <1>15. CASE VersionGate(v)
    BY <1>0, <1>a, <1>15 DEF VersionGate, StartStep, Goto, Held, Strayed, Run, TypeOK, ClaimOK
  <1>16. CASE InsertVersion(v)
    BY <1>0, <1>a, <1>16 DEF InsertVersion, Held, Strayed, Run
  <1>17. CASE Interpret(v)
    BY <1>0, <1>a, <1>17 DEF Interpret, StartStep, Goto, Held, Strayed, Run, TypeOK, ClaimOK
  <1>18. CASE StepFails(v)
    BY <1>0, <1>a, <1>18 DEF StepFails, Goto, Held, Strayed, Run
  <1>19. CASE Interrupted(v)
    <2>1. claim' = claim /\ run[v].pc = "describe"
      BY <1>19 DEF Interrupted
    <2> QED BY <1>0, <1>a, <1>19, <2>1, Interruption DEF Strayed, Held
  <1>20. CASE Describe(v)
    BY <1>0, <1>a, <1>20 DEF Describe, Goto, Held, Strayed, Run
  <1>21. CASE IndexStart(v)
    BY <1>0, <1>a, <1>21 DEF IndexStart, StartStep, Held, Strayed, Run, TypeOK, ClaimOK
  <1>22. CASE Reuse(v)
    BY <1>0, <1>a, <1>22 DEF Reuse, StartStep, Goto, Held, Strayed, Run, TypeOK, ClaimOK
  <1>23. CASE Check(v)
    BY <1>0, <1>a, <1>23 DEF Check, Goto, Held, Strayed, Run
  <1>24. CASE Send(v)
    BY <1>0, <1>a, <1>24 DEF Send, Held, Strayed, Run
  <1>25. CASE SendFails(v)
    BY <1>0, <1>a, <1>25 DEF SendFails, Goto, Held, Strayed, Run
  <1>26. CASE RaiseMark(v)
    BY <1>0, <1>a, <1>26 DEF RaiseMark, Raised, Held, Strayed, Run
  <1>27. CASE RecordIndexed(v)
    BY <1>0, <1>a, <1>27 DEF RecordIndexed, Goto, Held, Strayed, Run
  <1>28. CASE LowerMark(v)
    BY <1>0, <1>a, <1>28 DEF LowerMark, Goto, Held, Strayed, Run
  <1>29. CASE Finish(v)
    BY <1>0, <1>a, <1>29 DEF Finish, Leave, Idle, Held, Strayed, Run
  <1>30. CASE Release(v)
    BY <1>0, <1>a, <1>30, WorkerNames DEF Release, Goto, GiveBack, Held, Free, Strayed, Run
  <1>31. CASE Done(v)
    BY <1>0, <1>a, <1>31 DEF Done, Idle, Held, Strayed, Run
  <1> QED BY <1>1, <1>2, <1>3, <1>4, <1>5, <1>6, <1>7, <1>8, <1>9, <1>10, <1>11, <1>12, <1>13, <1>14, <1>15, <1>16, <1>17, <1>18, <1>19, <1>20, <1>21, <1>22, <1>23, <1>24, <1>25, <1>26, <1>27, <1>28, <1>29, <1>30, <1>31 DEF RunStep

\* Nobody else gives a run the claim back.
LEMMA StrayOther == ASSUME TypeOK, StrayBound, [Next]_vars, ~ \E w \in Workers : RunStep(w)
                    PROVE StrayBound'
  <1>0. run \in [Workers -> Run] BY DEF TypeOK, RunOK
  <1>1. ASSUME NEW w \in Workers, Crash(w) PROVE StrayBound'
    <2>1. \A v \in Workers \ {w} : run'[v] = run[v] /\ (claim'.by = v => claim.by = v)
      BY <1>0, <1>1, WorkerNames DEF Crash, Orphan, Held, TypeOK, ClaimOK
    <2>2. run'[w].strays = 0
      BY <1>0, <1>1 DEF Crash, Idle
    <2> QED BY <2>1, <2>2 DEF StrayBound, Strayed, Held
  <1>2. ASSUME ~ \E w \in Workers : Crash(w) PROVE StrayBound'
    <2>1. \A w \in Workers : Still(w)
      BY <1>2, SitsStill
    <2> QED BY <2>1 DEF Still, StrayBound, Strayed, Held
  <1> QED BY <1>1, <1>2

----------------------------------------------------------------------------
\* The inductive invariant.
FullInv == TypeOK /\ FenceKept /\ StrayBound

\* The invariant holds at the start.
LEMMA FullInvInit == ASSUME Init PROVE FullInv
  <1>1. FenceKept
    BY WorkersAssumption DEF Init, Idle, FenceKept
  <1>2. StrayBound
    BY DEF Init, Idle, StrayBound, Strayed
  <1> QED BY <1>1, <1>2, TypeInit DEF FullInv

\* Every step keeps it.
LEMMA FullInvStep == ASSUME FullInv, [Next]_vars PROVE FullInv'
  BY TypeRunStep, TypeOtherStep, FenceStep, StrayRun, StrayOther DEF FullInv

\* "Stopped" means nothing more lands: a run that no longer holds the claim
\* changes neither the row, the pointer, the versions nor the mark.
THEOREM StoppedIsStopped == Spec => StoppedLandsNothing
  <1>1. Init => FullInv
    BY FullInvInit
  <1>2. FullInv /\ [Next]_vars => FullInv'
    BY FullInvStep
  <1>3. FullInv /\ [Next]_vars => [\A w \in Workers : (Acts(w) /\ ~Held(w)) => Landless(w)]_vars
    <2> SUFFICES ASSUME FullInv, [Next]_vars, NEW w \in Workers, Acts(w), ~Held(w) PROVE Landless(w)
      OBVIOUS
    <2>1. ASSUME NEW v \in Workers, RunStep(v) PROVE Landless(w)
      BY <2>1, Stopped, OnlyItself DEF FullInv
    <2>2. ASSUME NEW v \in Workers, Crash(v) PROVE Landless(w)
      <3>1. v = w
        BY <2>2 DEF Crash, Acts, FullInv, TypeOK, RunOK
      <3> QED BY <2>2, <3>1 DEF Crash, Orphan, Landless, row, content, search
    <2>3. CASE ~ \E v \in Workers : RunStep(v) \/ Crash(v)
      BY <2>3, SitsStill DEF FullInv, Still, Acts
    <2> QED BY <2>1, <2>2, <2>3
  <1> QED BY <1>1, <1>2, <1>3, PTL DEF Spec, StoppedLandsNothing, Landless

\* No step of a run moves a revert.
LEMMA RevertStays == ASSUME rv \in Revert, NEW w \in Workers, RunStep(w) PROVE rv'.pc = rv.pc
  <1>1. CASE Publish(w)
    BY <1>1 DEF Publish, Revert
  <1>2. CASE ~Publish(w)
    BY <1>2 DEF RunStep, Take, ClaimRun, Requeue, BeginRun, Cancelled, Fetch, FetchFails, FetchDeferred, DeferStatus, DeferEnqueue, DeferRefused, RunFails, PublishStart, VersionGate, InsertVersion, Interpret, StepFails, Interrupted, Interrupts, Describe, IndexStart, Reuse, Check, Send, SendFails, RaiseMark, RecordIndexed, LowerMark, Finish, Release, Done
  <1> QED BY <1>1, <1>2

\* One about to publish is moved by its own next step only.
LEMMA RevertWaits == ASSUME rv \in Revert, rv.pc = "publish", Next, ~RevertPublishStart,
                           ~ \E w \in Workers : RunStep(w)
                    PROVE rv'.pc = rv.pc
  <1>1. CASE UploadPromote
    BY <1>1 DEF UploadPromote, Revert
  <1>2. CASE ~UploadPromote
    BY <1>2 DEF Next, UploadStep, RevertStep, Crash, Ask, GoStale, CancelRun, UploadPrepare,
       UploadStops, UploadAbandoned, UploadEnqueue, JobClaim, JobRelease, JobDies, RevertAsk,
       Takeover, RevertRead, RevertPublish, RevertWipe, RevertUnfile, RevertRelease,
       RevertQueue, Sweep
  <1> QED BY <1>1, <1>2

\* Nor does a revert that was taken over part-way move the pointer, issue a
\* version or clear an interpretation.
THEOREM StoppedRevertIsStopped == Spec => StoppedRevertLandsNothing
  <1>1. Init => FullInv
    BY FullInvInit
  <1>2. FullInv /\ [Next]_vars => FullInv'
    BY FullInvStep
  <1>3. FullInv /\ [Next]_vars =>
           [(rv'.pc # rv.pc /\ rv.pc \in {"publish", "landing"} /\ ~Held("revert"))
                => UNCHANGED <<live, versions, made>>]_vars
    <2> SUFFICES ASSUME FullInv, Next, rv'.pc # rv.pc, rv.pc \in {"publish", "landing"},
                        ~Held("revert")
                 PROVE UNCHANGED <<live, versions, made>>
      BY DEF vars
    <2>1. rv.pc = "publish" /\ rv \in Revert
      BY DEF FullInv, TypeOK, RvOK, FenceKept
    <2>2. ASSUME NEW w \in Workers, RunStep(w) PROVE rv'.pc = rv.pc
      BY <2>1, <2>2, RevertStays
    <2>3. CASE RevertPublishStart
      BY <2>3 DEF RevertPublishStart, row, content
    <2> QED BY <2>1, <2>2, <2>3, RevertWaits
  <1> QED BY <1>1, <1>2, <1>3, PTL DEF Spec, StoppedRevertLandsNothing

\* At most one index write of a run lands after it lost the claim.
THEOREM StrayWritesBounded == Spec => []OneStrayWrite
  <1>1. Init => FullInv
    BY FullInvInit
  <1>2. FullInv /\ [Next]_vars => FullInv'
    BY FullInvStep
  <1>3. FullInv => OneStrayWrite
    BY DEF FullInv, StrayBound, Strayed, OneStrayWrite
  <1> QED BY <1>1, <1>2, <1>3, PTL DEF Spec

----------------------------------------------------------------------------
(* A retry keeps its payload. *)

\* No run fetches, and nothing that would make one do so is on its way.
NobodyFetches ==
    /\ \A w \in Workers : run[w].pc \in {"publish", "landing"} => run[w].key = run[w].prev
    /\ up = "promoted" => ~external
    /\ external => /\ waiting["ordinary"] = 0
                   /\ \A w \in Workers : run[w].pc # "idle" => run[w].kind # "ordinary"
FetchInv == fetchAsked \/ NobodyFetches

\* What a run that gives up takes with it, and that the others stay.
LEMMA Left == ASSUME run \in [Workers -> Run], NEW w \in Workers, Leave(w)
              PROVE /\ run'[w].pc = "release" /\ run'[w].kind = run[w].kind
                    /\ run'[w].again = run[w].again /\ run'[w].rest = {}
                    /\ \A u \in Workers \ {w} : run'[u] = run[u]
  BY DEF Leave, Idle, Run

\* Going on changes nothing but where the run is.
LEMMA Gone == ASSUME run \in [Workers -> Run], NEW w \in Workers, NEW pc, Goto(w, pc)
              PROVE /\ run'[w] = [run[w] EXCEPT !.pc = pc]
                    /\ \A u \in Workers \ {w} : run'[u] = run[u]
  BY DEF Goto, Run

\* A run puts its job back as what it was.
LEMMA FetchRun == ASSUME TypeOK, FetchInv, NEW w \in Workers, RunStep(w) PROVE FetchInv'
  <1>0. run \in [Workers -> Run] /\ waiting \in [Kinds -> Nat] /\ "ordinary" \in Kinds
    BY DEF TypeOK, RunOK, PlainOK, Kinds
  <1>1. CASE \E k \in Kinds : Take(w, k)
    BY <1>0, <1>1 DEF Take, Idle, FetchInv, NobodyFetches, Run, content, bounds
  <1>2. CASE ClaimRun(w)
    BY <1>0, <1>2 DEF ClaimRun, Goto, FetchInv, NobodyFetches, Run, content, bounds
  <1>3. CASE Requeue(w)
    BY <1>0, <1>3 DEF Requeue, Goto, Put, FetchInv, NobodyFetches, Run, content, bounds
  <1>4. CASE BeginRun(w)
    BY <1>0, <1>4 DEF BeginRun, Goto, FetchInv, NobodyFetches, Run, content, bounds
  <1>5. CASE Cancelled(w)
    BY <1>0, <1>5 DEF Cancelled, Leave, Idle, FetchInv, NobodyFetches, Run, content, bounds
  <1>6. CASE Fetch(w)
    BY <1>0, <1>6 DEF Fetch, FetchInv, NobodyFetches, Run, content
  <1>7. CASE FetchFails(w)
    BY <1>0, <1>7 DEF FetchFails, Goto, FetchInv, NobodyFetches, Run, content, counts
  <1>8. CASE FetchDeferred(w)
    BY <1>0, <1>8 DEF FetchDeferred, FetchInv, NobodyFetches, Run, content, counts
  <1>9. CASE DeferStatus(w)
    BY <1>0, <1>9 DEF DeferStatus, FetchInv, NobodyFetches, Run, content, bounds
  <1>10. CASE DeferEnqueue(w)
    BY <1>0, <1>10 DEF DeferEnqueue, Put, FetchInv, NobodyFetches, Run, content, bounds
  <1>11. CASE DeferRefused(w)
    BY <1>0, <1>11 DEF DeferRefused, FetchInv, NobodyFetches, Run, content, counts
  <1>12. CASE RunFails(w)
    BY <1>0, <1>12 DEF RunFails, FetchInv, NobodyFetches, Run, content, bounds
  <1>13. CASE PublishStart(w)
    <2>1. waiting' = waiting /\ external' = external /\ up' = up /\ fetchAsked' = fetchAsked
      BY <1>13 DEF PublishStart, content, bounds
    <2>2. CASE Leave(w)
      BY <1>0, <2>1, <2>2, <1>13, Left DEF PublishStart, FetchInv, NobodyFetches
    <2>3. CASE Goto(w, "landing")
      BY <1>0, <2>1, <2>3, <1>13 DEF Goto, PublishStart, FetchInv, NobodyFetches, Run
    <2> QED BY <2>2, <2>3, <1>13 DEF PublishStart
  <1>14. CASE Publish(w)
    <2>1. waiting' = waiting /\ external' = external /\ up' = up /\ fetchAsked' = fetchAsked
      BY <1>14 DEF Publish, bounds
    <2>2. CASE Leave(w)
      BY <1>0, <2>1, <2>2, <1>14, Left DEF Publish, FetchInv, NobodyFetches
    <2>3. CASE run' = [run EXCEPT ![w].pc = "version", ![w].prev = NoKey]
      BY <1>0, <2>1, <2>3, <1>14 DEF Goto, Publish, FetchInv, NobodyFetches, Run
    <2> QED BY <2>2, <2>3, <1>14 DEF Publish
  <1>15. CASE VersionGate(w)
    BY <1>0, <1>15 DEF VersionGate, Goto, FetchInv, NobodyFetches, Run, content, bounds
  <1>16. CASE InsertVersion(w)
    BY <1>0, <1>16 DEF InsertVersion, FetchInv, NobodyFetches, Run, bounds
  <1>17. CASE Interpret(w)
    BY <1>0, <1>17 DEF Interpret, Goto, FetchInv, NobodyFetches, Run, content, bounds
  <1>18. CASE StepFails(w)
    BY <1>0, <1>18 DEF StepFails, Goto, FetchInv, NobodyFetches, Run, content, counts
  <1>19. CASE Interrupted(w)
    <2>1. UNCHANGED <<waiting, external, fetchAsked, up>> /\ run[w].pc = "describe"
      BY <1>19 DEF Interrupted, content
    <2> QED BY <1>0, <1>19, <2>1, Interruption DEF FetchInv, NobodyFetches
  <1>20. CASE Describe(w)
    BY <1>0, <1>20 DEF Describe, Goto, FetchInv, NobodyFetches, Run, content, bounds
  <1>21. CASE IndexStart(w)
    BY <1>0, <1>21 DEF IndexStart, FetchInv, NobodyFetches, Run, content, bounds
  <1>22. CASE Reuse(w)
    BY <1>0, <1>22 DEF Reuse, Goto, FetchInv, NobodyFetches, Run, content, bounds
  <1>23. CASE Check(w)
    BY <1>0, <1>23 DEF Check, Goto, FetchInv, NobodyFetches, Run, content, bounds
  <1>24. CASE Send(w)
    BY <1>0, <1>24 DEF Send, FetchInv, NobodyFetches, Run, content, bounds
  <1>25. CASE SendFails(w)
    BY <1>0, <1>25 DEF SendFails, Goto, FetchInv, NobodyFetches, Run, content, counts
  <1>26. CASE RaiseMark(w)
    BY <1>0, <1>26 DEF RaiseMark, Raised, FetchInv, NobodyFetches, Run, content, bounds
  <1>27. CASE RecordIndexed(w)
    BY <1>0, <1>27 DEF RecordIndexed, Goto, FetchInv, NobodyFetches, Run, content, bounds
  <1>28. CASE LowerMark(w)
    BY <1>0, <1>28 DEF LowerMark, Goto, FetchInv, NobodyFetches, Run, content, bounds
  <1>29. CASE Finish(w)
    BY <1>0, <1>29 DEF Finish, Leave, Idle, FetchInv, NobodyFetches, Run, content, bounds
  <1>30. CASE Release(w)
    BY <1>0, <1>30 DEF Release, Goto, FetchInv, NobodyFetches, Run, content, bounds
  <1>31. CASE Done(w)
    BY <1>0, <1>31 DEF Done, Idle, Put, FetchInv, NobodyFetches, Run, content, bounds
  <1> QED BY <1>1, <1>2, <1>3, <1>4, <1>5, <1>6, <1>7, <1>8, <1>9, <1>10, <1>11, <1>12, <1>13,
       <1>14, <1>15, <1>16, <1>17, <1>18, <1>19, <1>20, <1>21, <1>22, <1>23, <1>24, <1>25, <1>26,
       <1>27, <1>28, <1>29, <1>30, <1>31 DEF RunStep

\* Nobody else asks for a run that fetches, save after an upload, which made
\* the content no longer external.
LEMMA FetchOther == ASSUME TypeOK, FetchInv, [Next]_vars, ~ \E w \in Workers : RunStep(w)
                    PROVE FetchInv'
  <1>0. run \in [Workers -> Run] /\ waiting \in [Kinds -> Nat] /\ "ordinary" \in Kinds
    BY DEF TypeOK, RunOK, PlainOK, Kinds
  <1>1. ASSUME NEW k \in Asked, Ask(k) PROVE FetchInv'
    BY <1>0, <1>1 DEF Ask, Enqueue, Put, FetchInv, NobodyFetches, Run, content
  <1>2. ASSUME NEW to \in versions \cup {NoKey}, RevertAsk(to) PROVE FetchInv'
    BY <1>0, <1>2 DEF RevertAsk, FetchInv, NobodyFetches, Run, content, bounds
  <1>3. CASE CancelRun
    BY <1>0, <1>3 DEF CancelRun, FetchInv, NobodyFetches, Run, content, bounds
  <1>4. CASE UploadPrepare
    BY <1>0, <1>4 DEF UploadPrepare, FetchInv, NobodyFetches, Run, content, bounds
  <1>5. CASE UploadStops
    BY <1>0, <1>5 DEF UploadStops, FetchInv, NobodyFetches, Run, content, bounds
  <1>6. CASE UploadPromote
    BY <1>0, <1>6 DEF UploadPromote, FetchInv, NobodyFetches, Run
  <1>7. CASE UploadEnqueue
    BY <1>0, <1>7 DEF UploadEnqueue, Enqueue, Put, FetchInv, NobodyFetches, Run, content, bounds
  <1>8. CASE UploadAbandoned
    BY <1>0, <1>8 DEF UploadAbandoned, FetchInv, NobodyFetches, Run, content, bounds
  <1>9. CASE JobClaim
    BY <1>0, <1>9 DEF JobClaim, FetchInv, NobodyFetches, Run, content, bounds
  <1>10. CASE JobRelease
    BY <1>0, <1>10 DEF JobRelease, FetchInv, NobodyFetches, Run, content, bounds
  <1>11. CASE JobDies
    BY <1>0, <1>11 DEF JobDies, FetchInv, NobodyFetches, Run, content, counts
  <1>12. CASE Takeover
    BY <1>0, <1>12 DEF Takeover, FetchInv, NobodyFetches, Run, content, bounds
  <1>13. CASE RevertRead
    BY <1>0, <1>13 DEF RevertRead, FetchInv, NobodyFetches, Run, content
  <1>14. CASE RevertPublishStart
    BY <1>0, <1>14 DEF RevertPublishStart, FetchInv, NobodyFetches, Run, content, bounds
  <1>15. CASE RevertPublish
    BY <1>0, <1>15 DEF RevertPublish, FetchInv, NobodyFetches, Run, bounds
  <1>16. CASE RevertWipe
    BY <1>0, <1>16 DEF RevertWipe, Raised, FetchInv, NobodyFetches, Run, content, counts
  <1>17. CASE RevertUnfile
    BY <1>0, <1>17 DEF RevertUnfile, FetchInv, NobodyFetches, Run, content, bounds
  <1>18. CASE RevertRelease
    BY <1>0, <1>18 DEF RevertRelease, FetchInv, NobodyFetches, Run, content, bounds
  <1>19. CASE RevertQueue
    BY <1>0, <1>19 DEF RevertQueue, Enqueue, Put, FetchInv, NobodyFetches, Run, content, bounds
  <1>20. CASE Sweep
    <2>1. run' = Raised \/ run' = run
      BY <1>20 DEF Sweep
    <2>2. \A w \in Workers : run'[w].pc = run[w].pc /\ run'[w].kind = run[w].kind
                              /\ run'[w].key = run[w].key /\ run'[w].prev = run[w].prev
      BY <1>0, <2>1 DEF Raised, Run
    <2>3. waiting'["ordinary"] = waiting["ordinary"]
      BY <1>0, <1>20 DEF Sweep, Enqueue, Put, Kinds
    <2> QED BY <2>2, <2>3, <1>20 DEF Sweep, FetchInv, NobodyFetches, content, bounds
  <1>21. CASE GoStale
    BY <1>0, <1>21 DEF GoStale, FetchInv, NobodyFetches, Run, content, counts
  <1>22. CASE UNCHANGED vars
    BY <1>0, <1>22 DEF vars, content, bounds, FetchInv, NobodyFetches, Run, counts
  <1>23. ASSUME NEW w \in Workers, Crash(w) PROVE FetchInv'
    BY <1>0, <1>23 DEF Crash, Put, Idle, FetchInv, NobodyFetches, Run, content, counts
  <1> QED BY <1>23, <1>1, <1>2, <1>3, <1>4, <1>5, <1>6, <1>7, <1>8, <1>9, <1>10, <1>11, <1>12,
       <1>13, <1>14, <1>15, <1>16, <1>17, <1>18, <1>19, <1>20, <1>21, <1>22 DEF Next, UploadStep,
       RevertStep

\* A retry keeps its payload: where nobody asked for a run that fetches, no run
\* reads the URL again, an upload's own run included.
THEOREM FetchesWereAsked == Spec => []OnlyAskedFetches
  <1>1. Init => TypeOK /\ FetchInv
    <2>1. Init => FetchInv
      BY DEF Init, Idle, FetchInv, NobodyFetches, Kinds
    <2> QED BY <2>1, TypeInit
  <1>2. TypeOK /\ FetchInv /\ [Next]_vars => (TypeOK /\ FetchInv)'
    BY TypeRunStep, TypeOtherStep, FetchRun, FetchOther
  <1>3. FetchInv => OnlyAskedFetches
    BY DEF FetchInv, NobodyFetches, OnlyAskedFetches
  <1> QED BY <1>1, <1>2, <1>3, PTL DEF Spec

(* A revert has the resource. *)

\* A revert's claim is a job's, which no stop releases.
RevertIsJob == claim.by = "revert" => claim.kind = "job"

\* Nobody takes the claim from a revert at work, save one that found it stale.
KeepsHold ==
    RevertAtWork'
        => \/ Held("revert")'
           \/ RevertAtWork /\ (claim.idle \/ ~Held("revert"))

\* The steps of a run.
LEMMA HoldRun == ASSUME TypeOK, RevertIsJob, NEW w \in Workers, RunStep(w)
                 PROVE RevertIsJob' /\ KeepsHold
  <1>0. rv \in Revert /\ claim \in [by : Owner, kind : {"none", "run", "job"}, idle : BOOLEAN]
        /\ w # "revert"
    BY WorkerNames DEF TypeOK, RvOK, ClaimOK
  <1>1. CASE \E k \in Kinds : Take(w, k)
    BY <1>0, <1>1 DEF Take, RevertIsJob, KeepsHold, RevertAtWork, Takeable, Held, Revert
  <1>2. CASE ClaimRun(w)
    BY <1>0, <1>2 DEF ClaimRun, Claimed, RevertIsJob, KeepsHold, RevertAtWork, Takeable, Held, Revert
  <1>3. CASE Requeue(w)
    BY <1>0, <1>3 DEF Requeue, RevertIsJob, KeepsHold, RevertAtWork, Takeable, Held, Revert
  <1>4. CASE BeginRun(w)
    BY <1>0, <1>4 DEF BeginRun, RevertIsJob, KeepsHold, RevertAtWork, Takeable, Held, Revert
  <1>5. CASE Cancelled(w)
    BY <1>0, <1>5 DEF Cancelled, RevertIsJob, KeepsHold, RevertAtWork, Takeable, Held, Revert
  <1>6. CASE Fetch(w)
    BY <1>0, <1>6 DEF Fetch, StartStep, RevertIsJob, KeepsHold, RevertAtWork, Takeable, Held, Revert
  <1>7. CASE FetchFails(w)
    BY <1>0, <1>7 DEF FetchFails, StartStep, RevertIsJob, KeepsHold, RevertAtWork, Takeable,
         Held, Revert
  <1>8. CASE FetchDeferred(w)
    BY <1>0, <1>8 DEF FetchDeferred, StartStep, RevertIsJob, KeepsHold, RevertAtWork, Takeable,
         Held, Revert
  <1>9. CASE DeferStatus(w)
    BY <1>0, <1>9 DEF DeferStatus, RevertIsJob, KeepsHold, RevertAtWork, Takeable, Held, Revert
  <1>10. CASE DeferEnqueue(w)
    BY <1>0, <1>10 DEF DeferEnqueue, RevertIsJob, KeepsHold, RevertAtWork, Takeable, Held, Revert
  <1>11. CASE DeferRefused(w)
    BY <1>0, <1>11 DEF DeferRefused, RevertIsJob, KeepsHold, RevertAtWork, Takeable, Held, Revert
  <1>12. CASE RunFails(w)
    BY <1>0, <1>12 DEF RunFails, RevertIsJob, KeepsHold, RevertAtWork, Takeable, Held, Revert
  <1>13. CASE PublishStart(w)
    BY <1>0, <1>13 DEF PublishStart, RevertIsJob, KeepsHold, RevertAtWork, Takeable, Held, Revert
  <1>14. CASE Publish(w)
    BY <1>0, <1>14 DEF Publish, RevertIsJob, KeepsHold, RevertAtWork, Takeable, Held, Revert
  <1>15. CASE VersionGate(w)
    BY <1>0, <1>15 DEF VersionGate, StartStep, RevertIsJob, KeepsHold, RevertAtWork, Takeable,
         Held, Revert
  <1>16. CASE InsertVersion(w)
    BY <1>0, <1>16 DEF InsertVersion, RevertIsJob, KeepsHold, RevertAtWork, Takeable, Held, Revert
  <1>17. CASE Interpret(w)
    BY <1>0, <1>17 DEF Interpret, StartStep, RevertIsJob, KeepsHold, RevertAtWork, Takeable,
         Held, Revert
  <1>18. CASE StepFails(w)
    BY <1>0, <1>18 DEF StepFails, RevertIsJob, KeepsHold, RevertAtWork, Takeable, Held, Revert
  <1>19. CASE Interrupted(w)
    BY <1>0, <1>19 DEF Interrupted, Interrupts, RevertIsJob, KeepsHold, RevertAtWork, Takeable, Held, Revert
  <1>20. CASE Describe(w)
    BY <1>0, <1>20 DEF Describe, RevertIsJob, KeepsHold, RevertAtWork, Takeable, Held, Revert
  <1>21. CASE IndexStart(w)
    BY <1>0, <1>21 DEF IndexStart, StartStep, RevertIsJob, KeepsHold, RevertAtWork, Takeable,
         Held, Revert
  <1>22. CASE Reuse(w)
    BY <1>0, <1>22 DEF Reuse, StartStep, RevertIsJob, KeepsHold, RevertAtWork, Takeable, Held, Revert
  <1>23. CASE Check(w)
    BY <1>0, <1>23 DEF Check, RevertIsJob, KeepsHold, RevertAtWork, Takeable, Held, Revert
  <1>24. CASE Send(w)
    BY <1>0, <1>24 DEF Send, RevertIsJob, KeepsHold, RevertAtWork, Takeable, Held, Revert
  <1>25. CASE SendFails(w)
    BY <1>0, <1>25 DEF SendFails, RevertIsJob, KeepsHold, RevertAtWork, Takeable, Held, Revert
  <1>26. CASE RaiseMark(w)
    BY <1>0, <1>26 DEF RaiseMark, RevertIsJob, KeepsHold, RevertAtWork, Takeable, Held, Revert
  <1>27. CASE RecordIndexed(w)
    BY <1>0, <1>27 DEF RecordIndexed, RevertIsJob, KeepsHold, RevertAtWork, Takeable, Held, Revert
  <1>28. CASE LowerMark(w)
    BY <1>0, <1>28 DEF LowerMark, RevertIsJob, KeepsHold, RevertAtWork, Takeable, Held, Revert
  <1>29. CASE Finish(w)
    BY <1>0, <1>29 DEF Finish, RevertIsJob, KeepsHold, RevertAtWork, Takeable, Held, Revert
  <1>30. CASE Release(w)
    BY <1>0, <1>30 DEF Release, GiveBack, Free, RevertIsJob, KeepsHold, RevertAtWork, Takeable,
         Held, Revert
  <1>31. CASE Done(w)
    BY <1>0, <1>31 DEF Done, RevertIsJob, KeepsHold, RevertAtWork, Takeable, Held, Revert
  <1> QED BY <1>1, <1>2, <1>3, <1>4, <1>5, <1>6, <1>7, <1>8, <1>9, <1>10, <1>11, <1>12, <1>13,
       <1>14, <1>15, <1>16, <1>17, <1>18, <1>19, <1>20, <1>21, <1>22, <1>23, <1>24, <1>25, <1>26,
       <1>27, <1>28, <1>29, <1>30, <1>31 DEF RunStep

\* The steps of everyone else.
LEMMA HoldOther == ASSUME TypeOK, RevertIsJob, [Next]_vars, ~ \E w \in Workers : RunStep(w)
                   PROVE RevertIsJob' /\ KeepsHold
  <1>0. rv \in Revert /\ claim \in [by : Owner, kind : {"none", "run", "job"}, idle : BOOLEAN]
        /\ "revert" \notin Workers
    BY WorkerNames DEF TypeOK, RvOK, ClaimOK
  <1>1. ASSUME NEW k \in Asked, Ask(k) PROVE RevertIsJob' /\ KeepsHold
    BY <1>0, <1>1 DEF Ask, RevertIsJob, KeepsHold, RevertAtWork, Takeable, Held, Revert
  <1>2. ASSUME NEW to \in versions \cup {NoKey}, RevertAsk(to) PROVE RevertIsJob' /\ KeepsHold
    BY <1>0, <1>2 DEF RevertAsk, RevertIsJob, KeepsHold, RevertAtWork, Takeable, Held, Revert
  <1>3. CASE CancelRun
    BY <1>0, <1>3 DEF CancelRun, StopRun, Free, RevertIsJob, KeepsHold, RevertAtWork, Takeable,
         Held, Revert
  <1>4. CASE UploadPrepare
    BY <1>0, <1>4 DEF UploadPrepare, RevertIsJob, KeepsHold, RevertAtWork, Takeable, Held, Revert
  <1>5. CASE UploadStops
    BY <1>0, <1>5 DEF UploadStops, StopRun, Free, RevertIsJob, KeepsHold, RevertAtWork,
         Takeable, Held, Revert
  <1>6. CASE UploadPromote
    BY <1>0, <1>6 DEF UploadPromote, RevertIsJob, KeepsHold, RevertAtWork, Takeable, Held, Revert
  <1>7. CASE UploadEnqueue
    BY <1>0, <1>7 DEF UploadEnqueue, RevertIsJob, KeepsHold, RevertAtWork, Takeable, Held, Revert
  <1>8. CASE UploadAbandoned
    BY <1>0, <1>8 DEF UploadAbandoned, RevertIsJob, KeepsHold, RevertAtWork, Takeable, Held, Revert
  <1>9. CASE JobClaim
    BY <1>0, <1>9 DEF JobClaim, Claimed, RevertIsJob, KeepsHold, RevertAtWork, Takeable, Held, Revert
  <1>10. CASE JobRelease
    BY <1>0, <1>10 DEF JobRelease, GiveBack, Free, RevertIsJob, KeepsHold, RevertAtWork,
         Takeable, Held, Revert
  <1>11. CASE JobDies
    BY <1>0, <1>11 DEF JobDies, Orphan, RevertIsJob, KeepsHold, RevertAtWork, Takeable, Held, Revert
  <1>12. CASE Takeover
    BY <1>0, <1>12 DEF Takeover, Claimed, RevertIsJob, KeepsHold, RevertAtWork, Takeable, Held, Revert
  <1>13. CASE RevertRead
    BY <1>0, <1>13 DEF RevertRead, RevertIsJob, KeepsHold, RevertAtWork, Takeable, Held, Revert
  <1>14. CASE RevertPublishStart
    BY <1>0, <1>14 DEF RevertPublishStart, RevertIsJob, KeepsHold, RevertAtWork, Takeable, Held, Revert
  <1>15. CASE RevertPublish
    BY <1>0, <1>15 DEF RevertPublish, RevertIsJob, KeepsHold, RevertAtWork, Takeable, Held, Revert
  <1>16. CASE RevertWipe
    BY <1>0, <1>16 DEF RevertWipe, RevertIsJob, KeepsHold, RevertAtWork, Takeable, Held, Revert
  <1>17. CASE RevertUnfile
    BY <1>0, <1>17 DEF RevertUnfile, RevertIsJob, KeepsHold, RevertAtWork, Takeable, Held, Revert
  <1>18. CASE RevertRelease
    BY <1>0, <1>18 DEF RevertRelease, GiveBack, Free, RevertIsJob, KeepsHold, RevertAtWork,
         Takeable, Held, Revert
  <1>19. CASE RevertQueue
    BY <1>0, <1>19 DEF RevertQueue, RevertIsJob, KeepsHold, RevertAtWork, Takeable, Held, Revert
  <1>20. CASE Sweep
    <2>1. rv' = rv /\ (claim' = claim \/ (Takeable /\ claim' = Free))
      BY <1>20 DEF Sweep
    <2> QED BY <1>0, <2>1 DEF Free, RevertIsJob, KeepsHold, RevertAtWork, Takeable, Held
  <1>21. CASE GoStale
    BY <1>0, <1>21 DEF GoStale, RevertIsJob, KeepsHold, RevertAtWork, Takeable, Held, Revert
  <1>22. CASE UNCHANGED vars
    BY <1>0, <1>22 DEF vars, row, content, search, bounds, RevertIsJob, KeepsHold,
         RevertAtWork, Takeable, Held, Revert
  <1>23. ASSUME NEW w \in Workers, Crash(w) PROVE RevertIsJob' /\ KeepsHold
    BY <1>0, <1>23 DEF Crash, Orphan, RevertIsJob, KeepsHold, RevertAtWork, Held
  <1> QED BY <1>23, <1>1, <1>2, <1>3, <1>4, <1>5, <1>6, <1>7, <1>8, <1>9, <1>10, <1>11, <1>12,
       <1>13, <1>14, <1>15, <1>16, <1>17, <1>18, <1>19, <1>20, <1>21, <1>22 DEF Next, UploadStep,
       RevertStep

\* From the takeover to its release a revert has the resource, unless it was
\* itself found stale.
THEOREM RevertHasResource == Spec => RevertUndisturbed
  <1>1. Init => TypeOK /\ RevertIsJob
    <2>1. Init => RevertIsJob
      BY DEF Init, Free, RevertIsJob
    <2> QED BY <2>1, TypeInit
  <1>2. TypeOK /\ RevertIsJob /\ [Next]_vars => (TypeOK /\ RevertIsJob)'
    BY TypeRunStep, TypeOtherStep, HoldRun, HoldOther
  <1>3. TypeOK /\ RevertIsJob /\ [Next]_vars => [KeepsHold]_vars
    BY HoldRun, HoldOther
  <1> QED BY <1>1, <1>2, <1>3, PTL DEF Spec, RevertUndisturbed, KeepsHold

(* A row that says queued or processing has somebody to take it further. *)

\* Still to be taken up: a job on its way, an upload about to ask for one, or
\* one that lies dead in the queue until it is retried.
Pend(w) == run[w].pc \in {"claim", "requeue"} \/ run[w].again
Coming ==
    \/ buried
    \/ \E k \in Kinds : waiting[k] > 0
    \/ \E w \in Workers : Pend(w)
    \/ up = "promoted"

Active == status \in {"queued", "processing"}
AtWork(w) == run[w].pc \notin {"idle", "claim", "requeue", "release", "done"}
Excused == status = "queued" /\ "fetch" \in flaws
Served == Excused \/ Coming \/ \E w \in Workers : Held(w) /\ AtWork(w)

\* What is behind the row when its holder is about to leave without settling
\* its status: superseded, put off, or refused by the queue.
Fits(w) ==
    /\ Held(w) => run[w].pc \notin {"idle", "claim", "requeue", "done"}
    /\ (Held(w) /\ run[w].pc = "release" /\ "status" \in run[w].rest) => "fetch" \in flaws
    /\ run[w].again => run[w].pc \in {"release", "done"}
    /\ (Held(w) /\ run[w].pc \in {"publish", "landing"}) => live = run[w].prev \/ Coming
    /\ (Held(w) /\ run[w].pc = "defer" /\ "enqueue" \notin run[w].rest) => Coming

\* Without hung holders, only a dead one's claim goes stale.
StaleIsDead == "stall" \in Faults \/ (claim.idle => claim.by = "dead")

\* What is asked of every run, and of the claim.
Fitting == (\A w \in Workers : Fits(w)) /\ StaleIsDead

WorkInv == (Active => Served) /\ Fitting

\* What is asked of a run is the same after the step.
Same(w) ==
    /\ run'[w].pc = run[w].pc /\ run'[w].rest = run[w].rest
    /\ run'[w].again = run[w].again /\ run'[w].prev = run[w].prev

\* A run's step leaves every other run as it was, and gives none the claim.
LEMMA OthersSame == ASSUME TypeOK, NEW v \in Workers, RunStep(v), NEW u \in Workers \ {v}
                    PROVE /\ Same(u) /\ (claim'.by = u => claim.by = u)
                          /\ ClaimRun(v) \/ (claim.by = u => claim'.by = u)
  <1>0. run \in [Workers -> Run] /\ claim \in [by : Owner, kind : {"none", "run", "job"}, idle : BOOLEAN]
        /\ u # "none" /\ u # v
    BY WorkerNames DEF TypeOK, RunOK, ClaimOK
  <1>1. CASE \E k \in Kinds : Take(v, k)
    BY <1>0, <1>1 DEF Take, Idle, Same, Run
  <1>2. CASE ClaimRun(v)
    <2>1. run'[u] = run[u] /\ (claim' = claim \/ claim' = Claimed(v, "run"))
      BY <1>0, <1>2 DEF ClaimRun, Goto
    <2>2. Same(u)
      BY <2>1 DEF Same
    <2>3. claim'.by = u => claim.by = u
      BY <1>0, <2>1 DEF Claimed
    <2> QED BY <2>2, <2>3, <1>2
  <1>3. CASE Requeue(v)
    BY <1>0, <1>3 DEF Requeue, Goto, Put, Same, Run
  <1>4. CASE BeginRun(v)
    BY <1>0, <1>4 DEF BeginRun, Goto, Same, Run
  <1>5. CASE Cancelled(v)
    BY <1>0, <1>5 DEF Cancelled, Leave, Idle, Same, Run
  <1>6. CASE Fetch(v)
    BY <1>0, <1>6 DEF Fetch, StartStep, Same, Run
  <1>7. CASE FetchFails(v)
    BY <1>0, <1>7 DEF FetchFails, StartStep, Goto, Same, Run
  <1>8. CASE FetchDeferred(v)
    BY <1>0, <1>8 DEF FetchDeferred, StartStep, Same, Run
  <1>9. CASE DeferStatus(v)
    BY <1>0, <1>9 DEF DeferStatus, Same, Run
  <1>10. CASE DeferEnqueue(v)
    BY <1>0, <1>10 DEF DeferEnqueue, Put, Same, Run
  <1>11. CASE DeferRefused(v)
    BY <1>0, <1>11 DEF DeferRefused, Same, Run
  <1>12. CASE RunFails(v)
    BY <1>0, <1>12 DEF RunFails, Same, Run
  <1>13. CASE PublishStart(v)
    <2>1. claim' = claim /\ (Leave(v) \/ Goto(v, "landing"))
      BY <1>13 DEF PublishStart
    <2>2. run'[u] = run[u]
      BY <1>0, <2>1, Left, Gone
    <2> QED BY <2>1, <2>2 DEF Same
  <1>14. CASE Publish(v)
    <2>1. claim' = claim /\ (Leave(v) \/ run' = [run EXCEPT ![v] = [run[v] EXCEPT !.pc = "version", !.prev = NoKey]])
      BY <1>14 DEF Publish
    <2>2. run'[u] = run[u]
      BY <1>0, <2>1, Left, Gone
    <2> QED BY <2>1, <2>2 DEF Same
  <1>15. CASE VersionGate(v)
    BY <1>0, <1>15 DEF VersionGate, StartStep, Goto, Same, Run
  <1>16. CASE InsertVersion(v)
    BY <1>0, <1>16 DEF InsertVersion, Same, Run
  <1>17. CASE Interpret(v)
    BY <1>0, <1>17 DEF Interpret, StartStep, Goto, Same, Run
  <1>18. CASE StepFails(v)
    BY <1>0, <1>18 DEF StepFails, Goto, Same, Run
  <1>19. CASE Interrupted(v)
    BY <1>0, <1>19 DEF Interrupted, Interrupts, Idle, Same, Run
  <1>20. CASE Describe(v)
    BY <1>0, <1>20 DEF Describe, Goto, Same, Run
  <1>21. CASE IndexStart(v)
    BY <1>0, <1>21 DEF IndexStart, StartStep, Same, Run
  <1>22. CASE Reuse(v)
    BY <1>0, <1>22 DEF Reuse, StartStep, Goto, Same, Run
  <1>23. CASE Check(v)
    BY <1>0, <1>23 DEF Check, Goto, Same, Run
  <1>24. CASE Send(v)
    BY <1>0, <1>24 DEF Send, Same, Run
  <1>25. CASE SendFails(v)
    BY <1>0, <1>25 DEF SendFails, Goto, Same, Run
  <1>26. CASE RaiseMark(v)
    BY <1>0, <1>26 DEF RaiseMark, Raised, Same, Run
  <1>27. CASE RecordIndexed(v)
    BY <1>0, <1>27 DEF RecordIndexed, Goto, Same, Run
  <1>28. CASE LowerMark(v)
    BY <1>0, <1>28 DEF LowerMark, Goto, Same, Run
  <1>29. CASE Finish(v)
    BY <1>0, <1>29 DEF Finish, Leave, Idle, Same, Run
  <1>30. CASE Release(v)
    <2>1. run'[u] = run[u] /\ (claim' = claim \/ (Held(v) /\ claim' = Free))
      BY <1>0, <1>30 DEF Release, Goto, GiveBack
    <2> QED BY <1>0, <2>1 DEF Free, Same, Held
  <1>31. CASE Done(v)
    BY <1>0, <1>31 DEF Done, Idle, Put, Same, Run
  <1> QED BY <1>1, <1>2, <1>3, <1>4, <1>5, <1>6, <1>7, <1>8, <1>9, <1>10, <1>11, <1>12, <1>13,
       <1>14, <1>15, <1>16, <1>17, <1>18, <1>19, <1>20, <1>21, <1>22, <1>23, <1>24, <1>25, <1>26,
       <1>27, <1>28, <1>29, <1>30, <1>31 DEF RunStep

\* A run gets the claim by asking for it only.
LEMMA OwnHold == ASSUME TypeOK, NEW v \in Workers, RunStep(v), ~ClaimRun(v)
                 PROVE claim'.by = v => claim.by = v
  <1>0. claim \in [by : Owner, kind : {"none", "run", "job"}, idle : BOOLEAN] /\ v # "none"
    BY WorkerNames DEF TypeOK, ClaimOK
  <1>1. CASE \E k \in Kinds : Take(v, k)
    BY <1>0, <1>1 DEF Take, Idle
  <1>2. CASE ClaimRun(v)
    BY <1>2
  <1>3. CASE Requeue(v)
    BY <1>0, <1>3 DEF Requeue, Goto, Put
  <1>4. CASE BeginRun(v)
    BY <1>0, <1>4 DEF BeginRun, Goto
  <1>5. CASE Cancelled(v)
    BY <1>0, <1>5 DEF Cancelled, Leave, Idle
  <1>6. CASE Fetch(v)
    BY <1>0, <1>6 DEF Fetch, StartStep
  <1>7. CASE FetchFails(v)
    BY <1>0, <1>7 DEF FetchFails, StartStep, Goto
  <1>8. CASE FetchDeferred(v)
    BY <1>0, <1>8 DEF FetchDeferred, StartStep
  <1>9. CASE DeferStatus(v)
    BY <1>0, <1>9 DEF DeferStatus
  <1>10. CASE DeferEnqueue(v)
    BY <1>0, <1>10 DEF DeferEnqueue, Put
  <1>11. CASE DeferRefused(v)
    BY <1>0, <1>11 DEF DeferRefused
  <1>12. CASE RunFails(v)
    BY <1>0, <1>12 DEF RunFails
  <1>13. CASE PublishStart(v)
    BY <1>0, <1>13 DEF PublishStart, Goto, Leave, Idle
  <1>14. CASE Publish(v)
    BY <1>0, <1>14 DEF Publish, Leave, Idle
  <1>15. CASE VersionGate(v)
    BY <1>0, <1>15 DEF VersionGate, StartStep, Goto
  <1>16. CASE InsertVersion(v)
    BY <1>0, <1>16 DEF InsertVersion
  <1>17. CASE Interpret(v)
    BY <1>0, <1>17 DEF Interpret, StartStep, Goto
  <1>18. CASE StepFails(v)
    BY <1>0, <1>18 DEF StepFails, Goto
  <1>19. CASE Interrupted(v)
    BY <1>0, <1>19 DEF Interrupted, Interrupts, Idle
  <1>20. CASE Describe(v)
    BY <1>0, <1>20 DEF Describe, Goto
  <1>21. CASE IndexStart(v)
    BY <1>0, <1>21 DEF IndexStart, StartStep
  <1>22. CASE Reuse(v)
    BY <1>0, <1>22 DEF Reuse, StartStep, Goto
  <1>23. CASE Check(v)
    BY <1>0, <1>23 DEF Check, Goto
  <1>24. CASE Send(v)
    BY <1>0, <1>24 DEF Send
  <1>25. CASE SendFails(v)
    BY <1>0, <1>25 DEF SendFails, Goto
  <1>26. CASE RaiseMark(v)
    BY <1>0, <1>26 DEF RaiseMark, Raised
  <1>27. CASE RecordIndexed(v)
    BY <1>0, <1>27 DEF RecordIndexed, Goto
  <1>28. CASE LowerMark(v)
    BY <1>0, <1>28 DEF LowerMark, Goto
  <1>29. CASE Finish(v)
    BY <1>0, <1>29 DEF Finish, Leave, Idle
  <1>30. CASE Release(v)
    <2>1. claim' = claim \/ claim' = Free
      BY <1>30 DEF Release, GiveBack
    <2> QED BY <1>0, <2>1 DEF Free
  <1>31. CASE Done(v)
    BY <1>0, <1>31 DEF Done, Idle, Put
  <1> QED BY <1>1, <1>2, <1>3, <1>4, <1>5, <1>6, <1>7, <1>8, <1>9, <1>10, <1>11, <1>12, <1>13,
       <1>14, <1>15, <1>16, <1>17, <1>18, <1>19, <1>20, <1>21, <1>22, <1>23, <1>24, <1>25, <1>26,
       <1>27, <1>28, <1>29, <1>30, <1>31 DEF RunStep

\* A job the queue gave up stays so.
LEMMA BuriedRun == ASSUME NEW v \in Workers, RunStep(v), buried PROVE buried'
  BY DEF RunStep, Take, ClaimRun, Requeue, BeginRun, Cancelled, Fetch, FetchFails,
       FetchDeferred, DeferStatus, DeferEnqueue, DeferRefused, RunFails, PublishStart, Publish,
       VersionGate, InsertVersion, Interpret, StepFails, Interrupted, GivenUp, Describe,
       IndexStart, Reuse, Check, Send, SendFails, RaiseMark, RecordIndexed, LowerMark, Finish,
       Release, Done, bounds, counts

\* And nobody else gives one up, but a run that dies.
LEMMA BuriedAside ==
    ASSUME [Next]_vars, ~ \E w \in Workers : RunStep(w) \/ Crash(w) PROVE buried' = buried
  BY DEF Next, Ask, GoStale, CancelRun, UploadPrepare, UploadStep, UploadStops, UploadPromote,
       UploadEnqueue, UploadAbandoned, JobClaim, JobRelease, JobDies, RevertAsk, RevertStep,
       Takeover, RevertRead, RevertPublishStart, RevertPublish, RevertWipe, RevertUnfile,
       RevertRelease, RevertQueue, Sweep, vars, bounds, counts

\* What is on its way is still on its way, unless it has just got the claim.
LEMMA ComingRun == ASSUME TypeOK, NEW v \in Workers, Fits(v), RunStep(v), Coming
                   PROVE Coming' \/ (ClaimRun(v) /\ Held(v)' /\ run'[v].pc = "begin")
  <1>0. run \in [Workers -> Run] /\ waiting \in [Kinds -> Nat] /\ run[v].kind \in Kinds
    BY DEF TypeOK, RunOK, PlainOK, Run
  <1>a. \A u \in Workers \ {v} : Pend(u) => Pend(u)'
    BY OthersSame DEF Pend, Same
  <1>b. up' = up
    BY DEF RunStep, Take, ClaimRun, Requeue, BeginRun, Cancelled, Fetch, FetchFails,
         FetchDeferred, DeferStatus, DeferEnqueue, DeferRefused, RunFails, PublishStart, Publish,
         VersionGate, InsertVersion, Interpret, StepFails, Interrupted, Interrupts, Describe, IndexStart, Reuse,
         Check, Send, SendFails, RaiseMark, RecordIndexed, LowerMark, Finish, Release, Done
  <1>c. ASSUME waiting' = waiting, Pend(v) => Pend(v)' PROVE Coming'
    BY <1>a, <1>b, <1>c, BuriedRun DEF Coming
  <1>d. ASSUME Put(run[v].kind) PROVE Coming'
    BY <1>0, <1>d DEF Put, Coming
  <1>e. ASSUME Pend(v)' \/ buried' PROVE Coming'
    BY <1>e DEF Coming
  <1>1. CASE \E k \in Kinds : Take(v, k)
    BY <1>0, <1>e, <1>1 DEF Take, Idle, Pend, Run
  <1>2. CASE ClaimRun(v)
    <2>1. CASE Takeable
      BY <1>0, <2>1, <1>2 DEF ClaimRun, Goto, Claimed, Held, Run
    <2>2. CASE ~Takeable
      BY <1>0, <1>e, <2>2, <1>2 DEF ClaimRun, Goto, Pend, Run
    <2> QED BY <2>1, <2>2
  <1>3. CASE Requeue(v)
    BY <1>d, <1>3 DEF Requeue
  <1>4. CASE BeginRun(v)
    BY <1>0, <1>c, <1>4 DEF BeginRun, Goto, Pend, Run
  <1>5. CASE Cancelled(v)
    BY <1>0, <1>c, <1>5, Left DEF Cancelled, Pend
  <1>6. CASE Fetch(v)
    BY <1>0, <1>c, <1>6 DEF Fetch, StartStep, Pend, Run
  <1>7. CASE FetchFails(v)
    BY <1>0, <1>c, <1>7 DEF FetchFails, StartStep, Goto, Pend, Run
  <1>8. CASE FetchDeferred(v)
    BY <1>0, <1>c, <1>8 DEF FetchDeferred, StartStep, Pend, Run
  <1>9. CASE DeferStatus(v)
    BY <1>0, <1>c, <1>9 DEF DeferStatus, Pend, Run
  <1>10. CASE DeferEnqueue(v)
    BY <1>d, <1>10 DEF DeferEnqueue
  <1>11. CASE DeferRefused(v)
    BY <1>0, <1>c, <1>11 DEF DeferRefused, Pend, Run
  <1>12. CASE RunFails(v)
    BY <1>0, <1>c, <1>12 DEF RunFails, Pend, Run
  <1>13. CASE PublishStart(v)
    <2>1. Leave(v) \/ Goto(v, "landing")
      BY <1>13 DEF PublishStart
    <2>2. run'[v].again = run[v].again
      <3>1. CASE Leave(v)
        BY <1>0, <3>1, Left
      <3>2. CASE Goto(v, "landing")
        BY <1>0, <3>2, Gone DEF Run
      <3> QED BY <2>1, <3>1, <3>2
    <2>4. run[v].pc = "publish"
      BY <1>13 DEF PublishStart
    <2>3. Pend(v) => Pend(v)'
      BY <2>2, <2>4 DEF Pend
    <2> QED BY <1>c, <2>3, <1>13 DEF PublishStart
  <1>14. CASE Publish(v)
    <2>1. Leave(v) \/ run' = [run EXCEPT ![v] = [run[v] EXCEPT !.pc = "version", !.prev = NoKey]]
      BY <1>14 DEF Publish
    <2>2. Pend(v) => Pend(v)'
      BY <1>0, <2>1, <1>14, Left DEF Publish, Pend, Run
    <2> QED BY <1>c, <2>2, <1>14 DEF Publish
  <1>15. CASE VersionGate(v)
    BY <1>0, <1>c, <1>15 DEF VersionGate, StartStep, Goto, Pend, Run
  <1>16. CASE InsertVersion(v)
    BY <1>0, <1>c, <1>16 DEF InsertVersion, Pend, Run
  <1>17. CASE Interpret(v)
    BY <1>0, <1>c, <1>17 DEF Interpret, StartStep, Goto, Pend, Run
  <1>18. CASE StepFails(v)
    BY <1>0, <1>c, <1>18 DEF StepFails, Goto, Pend, Run
  <1>19. CASE Interrupted(v)
    BY <1>0, <1>e, <1>19 DEF Interrupted, Interrupts, GivenUp, Idle, Pend, Run
  <1>20. CASE Describe(v)
    BY <1>0, <1>c, <1>20 DEF Describe, Goto, Pend, Run
  <1>21. CASE IndexStart(v)
    BY <1>0, <1>c, <1>21 DEF IndexStart, StartStep, Pend, Run
  <1>22. CASE Reuse(v)
    BY <1>0, <1>c, <1>22 DEF Reuse, StartStep, Goto, Pend, Run
  <1>23. CASE Check(v)
    BY <1>0, <1>c, <1>23 DEF Check, Goto, Pend, Run
  <1>24. CASE Send(v)
    BY <1>0, <1>c, <1>24 DEF Send, Pend, Run
  <1>25. CASE SendFails(v)
    BY <1>0, <1>c, <1>25 DEF SendFails, Goto, Pend, Run
  <1>26. CASE RaiseMark(v)
    BY <1>0, <1>c, <1>26 DEF RaiseMark, Raised, Pend, Run
  <1>27. CASE RecordIndexed(v)
    BY <1>0, <1>c, <1>27 DEF RecordIndexed, Goto, Pend, Run
  <1>28. CASE LowerMark(v)
    BY <1>0, <1>c, <1>28 DEF LowerMark, Goto, Pend, Run
  <1>29. CASE Finish(v)
    BY <1>0, <1>c, <1>29, Left DEF Finish, Pend
  <1>30. CASE Release(v)
    BY <1>0, <1>c, <1>30 DEF Release, Goto, GiveBack, Free, Pend, Run
  <1>31. CASE Done(v)
    <2>1. CASE run[v].again
      BY <1>d, <2>1, <1>31 DEF Done
    <2>2. CASE ~run[v].again
      BY <1>c, <2>2, <1>31 DEF Done, Pend
    <2> QED BY <2>1, <2>2
  <1> QED BY <1>1, <1>2, <1>3, <1>4, <1>5, <1>6, <1>7, <1>8, <1>9, <1>10, <1>11, <1>12, <1>13,
       <1>14, <1>15, <1>16, <1>17, <1>18, <1>19, <1>20, <1>21, <1>22, <1>23, <1>24, <1>25, <1>26,
       <1>27, <1>28, <1>29, <1>30, <1>31 DEF RunStep

\* The pointer is moved by a run that publishes, and the record of a failed
\* fetch is cleared by a run that begins.
LEMMA RowRun == ASSUME TypeOK, NEW v \in Workers, RunStep(v)
                PROVE /\ live' = live \/ run[v].pc = "landing"
                      /\ "fetch" \in flaws' \/ "fetch" \notin flaws
                         \/ (Held(v) /\ run[v].pc = "begin")
  <1>0. live = live
    OBVIOUS
  <1>1. CASE \E k \in Kinds : Take(v, k)
    BY <1>0, <1>1 DEF Take, Idle, row, content
  <1>2. CASE ClaimRun(v)
    BY <1>0, <1>2 DEF ClaimRun, Goto, Claimed, row, content
  <1>3. CASE Requeue(v)
    BY <1>0, <1>3 DEF Requeue, Goto, Put, row, content
  <1>4. CASE BeginRun(v)
    BY <1>0, <1>4 DEF BeginRun, Goto, content, IfHeld
  <1>5. CASE Cancelled(v)
    BY <1>0, <1>5 DEF Cancelled, Leave, Idle, row, content
  <1>6. CASE Fetch(v)
    BY <1>0, <1>6 DEF Fetch, StartStep, row, content
  <1>7. CASE FetchFails(v)
    BY <1>0, <1>7 DEF FetchFails, StartStep, Goto, row, content
  <1>8. CASE FetchDeferred(v)
    BY <1>0, <1>8 DEF FetchDeferred, StartStep, row, content
  <1>9. CASE DeferStatus(v)
    BY <1>0, <1>9 DEF DeferStatus, content, IfHeld
  <1>10. CASE DeferEnqueue(v)
    BY <1>0, <1>10 DEF DeferEnqueue, Put, row, content
  <1>11. CASE DeferRefused(v)
    BY <1>0, <1>11 DEF DeferRefused, row, content
  <1>12. CASE RunFails(v)
    BY <1>0, <1>12 DEF RunFails, content, IfHeld
  <1>13. CASE PublishStart(v)
    BY <1>0, <1>13 DEF PublishStart, Goto, Leave, Idle, row, content
  <1>14. CASE Publish(v)
    BY <1>0, <1>14 DEF Publish, Leave, Idle, row
  <1>15. CASE VersionGate(v)
    BY <1>0, <1>15 DEF VersionGate, StartStep, Goto, row, content
  <1>16. CASE InsertVersion(v)
    BY <1>0, <1>16 DEF InsertVersion, row, IfHeld
  <1>17. CASE Interpret(v)
    BY <1>0, <1>17 DEF Interpret, StartStep, Goto, row, content
  <1>18. CASE StepFails(v)
    BY <1>0, <1>18 DEF StepFails, Goto, content, IfHeld
  <1>19. CASE Interrupted(v)
    BY <1>0, <1>19 DEF Interrupted, Interrupts, Idle, content, IfHeld
  <1>20. CASE Describe(v)
    BY <1>0, <1>20 DEF Describe, Goto, content, IfHeld
  <1>21. CASE IndexStart(v)
    BY <1>0, <1>21 DEF IndexStart, StartStep, row, content
  <1>22. CASE Reuse(v)
    BY <1>0, <1>22 DEF Reuse, StartStep, Goto, row, content
  <1>23. CASE Check(v)
    BY <1>0, <1>23 DEF Check, Goto, row, content
  <1>24. CASE Send(v)
    BY <1>0, <1>24 DEF Send, row, content
  <1>25. CASE SendFails(v)
    BY <1>0, <1>25 DEF SendFails, Goto, content, IfHeld
  <1>26. CASE RaiseMark(v)
    BY <1>0, <1>26 DEF RaiseMark, Raised, row, content, IfHeld
  <1>27. CASE RecordIndexed(v)
    BY <1>0, <1>27 DEF RecordIndexed, Goto, content, IfHeld
  <1>28. CASE LowerMark(v)
    BY <1>0, <1>28 DEF LowerMark, Goto, row, content
  <1>29. CASE Finish(v)
    BY <1>0, <1>29 DEF Finish, Leave, Idle, content, IfHeld
  <1>30. CASE Release(v)
    BY <1>0, <1>30 DEF Release, Goto, GiveBack, Free, row, content
  <1>31. CASE Done(v)
    BY <1>0, <1>31 DEF Done, Idle, Put, row, content
  <1> QED BY <1>1, <1>2, <1>3, <1>4, <1>5, <1>6, <1>7, <1>8, <1>9, <1>10, <1>11, <1>12, <1>13,
       <1>14, <1>15, <1>16, <1>17, <1>18, <1>19, <1>20, <1>21, <1>22, <1>23, <1>24, <1>25, <1>26,
       <1>27, <1>28, <1>29, <1>30, <1>31 DEF RunStep

\* What the others are asked for, they still are.
LEMMA FitsOthers == ASSUME FullInv, \A w \in Workers : Fits(w), NEW v \in Workers, RunStep(v),
                           NEW u \in Workers \ {v}
                    PROVE Fits(u)'
  <1>1. Same(u) /\ (claim'.by = u => claim.by = u)
    BY OthersSame DEF FullInv
  <1> SUFFICES ASSUME run[u].again => run[u].pc \in {"release", "done"}, Held(u)', Held(u) PROVE Fits(u)'
    BY <1>1 DEF Fits, Held, Same
  <1>2. Coming => Coming'
    BY ComingRun DEF Held, FullInv
  <1>3. live' = live
    BY RowRun, WorkerNames DEF FullInv, FenceKept, Held
  <1>4. "fetch" \in flaws => "fetch" \in flaws'
    BY RowRun DEF FullInv, Held
  <1> QED BY <1>1, <1>2, <1>3, <1>4 DEF Fits, Same

\* A run that leaves has something else to go on after it.
LEMMA FitsOwn == ASSUME FullInv, \A w \in Workers : Fits(w), NEW v \in Workers, RunStep(v)
                 PROVE Fits(v)'
  <1>0. /\ run \in [Workers -> Run] /\ waiting \in [Kinds -> Nat] /\ run[v].kind \in Kinds
        /\ claim.by \in Owner /\ v # "none" /\ run[v] \in Run
    BY WorkerNames DEF FullInv, TypeOK, RunOK, ClaimOK, PlainOK, Run
  <1>1. Fits(v) /\ (run[v].pc = "landing" => fence = v)
    BY DEF FullInv, FenceKept
  <1>2. ~ClaimRun(v) => (Held(v)' => Held(v)) /\ (Coming => Coming')
    BY OwnHold, ComingRun DEF FullInv, Held
  <1>3. ASSUME Put(run[v].kind) PROVE Coming'
    BY <1>0, <1>3 DEF Put, Coming
  <1>l. ASSUME Leave(v) PROVE Fits(v)'
    BY <1>0, <1>1, <1>l, Left DEF Fits
  <1>h. ASSUME ~Held(v)', run'[v].again => run'[v].pc \in {"release", "done"} PROVE Fits(v)'
    BY <1>h DEF Fits
  <1>4. CASE \E k \in Kinds : Take(v, k)
    <2>1. ~Held(v)' /\ ~run'[v].again
      BY <1>0, <1>1, <1>4 DEF Take, Idle, Fits, Held
    <2> QED BY <1>h, <2>1
  <1>5. CASE ClaimRun(v)
    <2>1. run'[v].pc \in {"begin", "requeue"} /\ ~run'[v].again
      BY <1>0, <1>1, <1>5 DEF ClaimRun, Goto, Fits, Run
    <2>2. run'[v].pc = "requeue" => ~Held(v)'
      BY <1>0, <1>1, <1>5 DEF ClaimRun, Goto, Fits, Held, Run
    <2> QED BY <2>1, <2>2 DEF Fits
  <1>6. CASE Requeue(v)
    <2>1. ~Held(v) /\ claim' = claim /\ ~run[v].again
      BY <1>1, <1>6 DEF Requeue, Fits
    <2> QED BY <1>0, <1>h, <2>1, <1>6 DEF Requeue, Goto, Held, Run
  <1>7. CASE BeginRun(v)
    BY <1>0, <1>1, <1>2, <1>7 DEF BeginRun, Goto, Fits, Held, Run, content, IfHeld
  <1>8. CASE Cancelled(v)
    BY <1>l, <1>8 DEF Cancelled
  <1>9. CASE Fetch(v)
    BY <1>0, <1>1, <1>2, <1>9 DEF Fetch, StartStep, Fits, Held, Run, content, row
  <1>10. CASE FetchFails(v)
    BY <1>0, <1>1, <1>2, <1>10 DEF FetchFails, StartStep, Goto, Fits, Held, Run, content, row
  <1>11. CASE FetchDeferred(v)
    BY <1>0, <1>1, <1>2, <1>11 DEF FetchDeferred, StartStep, Fits, Held, Run, content, row
  <1>12. CASE DeferStatus(v)
    <2>1. /\ run'[v].rest = run[v].rest \ {"status"} /\ run'[v].again = run[v].again
          /\ run'[v].prev = run[v].prev
          /\ run'[v].pc = run[v].pc \/ (run[v].pc = "defer" /\ run'[v].pc = "release")
      BY <1>0, <1>12 DEF DeferStatus, Run
    <2>2. live' = live /\ flaws' = flaws /\ (Held(v)' => Held(v)) /\ (Coming => Coming')
      <3>1. "status" \in run[v].rest /\ claim' = claim
        BY <1>12 DEF DeferStatus
      <3>2. ClaimRun(v) => run'[v].rest = run[v].rest
        BY <1>0 DEF ClaimRun, Goto, Run
      <3>3. ~ClaimRun(v)
        BY <2>1, <3>1, <3>2
      <3> QED BY <1>2, <3>1, <3>3, <1>12 DEF DeferStatus, content, Held
    <2> QED BY <1>1, <2>1, <2>2 DEF Fits
  <1>13. CASE DeferEnqueue(v)
    <2>1. Coming' /\ ~run[v].again
      BY <1>1, <1>3, <1>13 DEF DeferEnqueue, Fits
    <2> QED BY <1>0, <1>1, <2>1, <1>13 DEF DeferEnqueue, Fits, Held, Run
  <1>14. CASE DeferRefused(v)
    BY <1>0, <1>1, <1>2, <1>14 DEF DeferRefused, Fits, Held, Run, content, row
  <1>15. CASE RunFails(v)
    BY <1>0, <1>1, <1>2, <1>15 DEF RunFails, Fits, Held, Run, content, IfHeld
  <1>16. CASE PublishStart(v)
    <2>1. Leave(v) \/ Goto(v, "landing")
      BY <1>16 DEF PublishStart
    <2>2. CASE Goto(v, "landing")
      <3>1. /\ run[v].pc = "publish"
            /\ run'[v].pc = "landing"
            /\ run'[v].again = run[v].again
            /\ run'[v].pc = "landing" => live' = live /\ run'[v].prev = run[v].prev
        BY <1>0, <2>2, <1>16 DEF PublishStart, Goto, content, Run
      <3>2. (Held(v)' => Held(v)) /\ (Coming => Coming')
        BY <1>2, <1>16 DEF PublishStart, ClaimRun
      <3> QED BY <1>1, <3>1, <3>2 DEF Fits
    <2> QED BY <1>l, <2>1, <2>2
  <1>17. CASE Publish(v)
    <2>1. Leave(v) \/ run' = [run EXCEPT ![v] = [run[v] EXCEPT !.pc = "version", !.prev = NoKey]]
      BY <1>17 DEF Publish
    <2>2. CASE run' = [run EXCEPT ![v] = [run[v] EXCEPT !.pc = "version", !.prev = NoKey]]
      <3>1. /\ run[v].pc = "landing"
            /\ run'[v].pc = "version"
            /\ run'[v].again = run[v].again
            /\ run'[v].pc = "landing" => live' = live /\ run'[v].prev = run[v].prev
        BY <1>0, <2>2, <1>17 DEF Publish, Run
      <3>2. (Held(v)' => Held(v)) /\ (Coming => Coming')
        BY <1>2, <1>17 DEF Publish, ClaimRun
      <3> QED BY <1>1, <3>1, <3>2 DEF Fits
    <2> QED BY <1>l, <2>1, <2>2
  <1>18. CASE VersionGate(v)
    BY <1>0, <1>1, <1>2, <1>18 DEF VersionGate, StartStep, Goto, Fits, Held, Run, content, row
  <1>19. CASE InsertVersion(v)
    BY <1>0, <1>1, <1>2, <1>19 DEF InsertVersion, Fits, Held, Run, row, IfHeld
  <1>20. CASE Interpret(v)
    BY <1>0, <1>1, <1>2, <1>20 DEF Interpret, StartStep, Goto, Fits, Held, Run, content, row
  <1>21. CASE StepFails(v)
    BY <1>0, <1>1, <1>2, <1>21 DEF StepFails, Goto, Fits, Held, Run, content, IfHeld
  <1>22. CASE Interrupted(v)
    BY <1>0, <1>22, Interruption DEF Fits
  <1>23. CASE Describe(v)
    BY <1>0, <1>1, <1>2, <1>23 DEF Describe, Goto, Fits, Held, Run, content, IfHeld
  <1>24. CASE IndexStart(v)
    BY <1>0, <1>1, <1>2, <1>24 DEF IndexStart, StartStep, Fits, Held, Run, content, row
  <1>25. CASE Reuse(v)
    BY <1>0, <1>1, <1>2, <1>25 DEF Reuse, StartStep, Goto, Fits, Held, Run, content, row
  <1>26. CASE Check(v)
    BY <1>0, <1>1, <1>2, <1>26 DEF Check, Goto, Fits, Held, Run, content, row
  <1>27. CASE Send(v)
    BY <1>0, <1>1, <1>2, <1>27 DEF Send, Fits, Held, Run, content, row
  <1>28. CASE SendFails(v)
    BY <1>0, <1>1, <1>2, <1>28 DEF SendFails, Goto, Fits, Held, Run, content, IfHeld
  <1>29. CASE RaiseMark(v)
    BY <1>0, <1>1, <1>2, <1>29 DEF RaiseMark, Raised, Fits, Held, Run, content, row, IfHeld
  <1>30. CASE RecordIndexed(v)
    BY <1>0, <1>1, <1>2, <1>30 DEF RecordIndexed, Goto, Fits, Held, Run, content, IfHeld
  <1>31. CASE LowerMark(v)
    BY <1>0, <1>1, <1>2, <1>31 DEF LowerMark, Goto, Fits, Held, Run, content, row
  <1>32. CASE Finish(v)
    BY <1>l, <1>32 DEF Finish
  <1>33. CASE Release(v)
    <2>1. ~Held(v)'
      BY <1>0, <1>33 DEF Release, GiveBack, Free, Held
    <2>2. run'[v].pc = "done"
      BY <1>0, <1>33 DEF Release, Goto, Run
    <2> QED BY <1>h, <2>1, <2>2
  <1>34. CASE Done(v)
    <2>1. ~Held(v) /\ claim' = claim
      BY <1>1, <1>34 DEF Done, Fits
    <2> QED BY <1>0, <1>h, <2>1, <1>34 DEF Done, Idle, Held
  <1> QED BY <1>4, <1>5, <1>6, <1>7, <1>8, <1>9, <1>10, <1>11, <1>12, <1>13, <1>14, <1>15,
       <1>16, <1>17, <1>18, <1>19, <1>20, <1>21, <1>22, <1>23, <1>24, <1>25, <1>26, <1>27, <1>28,
       <1>29, <1>30, <1>31, <1>32, <1>33, <1>34 DEF RunStep

\* A run that goes on: if it was what the row had behind it, it still is, or
\* something is coming.
Onward(v) ==
    /\ ~ClaimRun(v) /\ Active
    /\ Held(v) /\ AtWork(v) => Coming \/ (Held(v)' /\ AtWork(v)')
    /\ Excused => Excused'

\* Then the row has it still.
LEMMA OnwardServed == ASSUME TypeOK, NEW v \in Workers, Fits(v), RunStep(v), Onward(v),
                             Active => Served
                      PROVE Served'
  <1>1. CASE Excused
    BY <1>1 DEF Onward, Served
  <1>2. CASE Coming
    BY <1>2, ComingRun DEF Onward, Served
  <1>3. ASSUME NEW u \in Workers, Held(u), AtWork(u), ~Coming PROVE Served'
    <2>1. CASE u = v
      BY <1>3, <2>1 DEF Onward, Served
    <2>2. CASE u # v
      BY <1>3, <2>2, OthersSame DEF Onward, Served, Held, AtWork, Same
    <2> QED BY <2>1, <2>2
  <1> QED BY <1>1, <1>2, <1>3 DEF Onward, Served

\* A run settles the status before it leaves, or leaves it to what is coming.
LEMMA ServedRun == ASSUME FullInv, WorkInv, NEW v \in Workers, RunStep(v), Active'
                   PROVE Served'
  <1>0. /\ run \in [Workers -> Run] /\ waiting \in [Kinds -> Nat] /\ run[v].kind \in Kinds
        /\ claim.by \in Owner /\ v # "none" /\ run[v] \in Run
    BY WorkerNames DEF FullInv, TypeOK, RunOK, ClaimOK, PlainOK, Run
  <1>1. Fits(v) /\ (Active => Served)
    BY DEF WorkInv, Fitting
  <1>2. ASSUME Onward(v) PROVE Served'
    BY <1>1, <1>2, OnwardServed DEF FullInv
  <1>3. ASSUME Held(v)', AtWork(v)' PROVE Served'
    BY <1>3 DEF Served
  <1>4. ASSUME Pend(v)' \/ Put(run[v].kind) PROVE Served'
    BY <1>0, <1>4 DEF Put, Coming, Served
  <1>5. ASSUME run'[v].pc # "begin" PROVE ~ClaimRun(v) \/ run'[v].pc = "requeue"
    BY <1>0, <1>5 DEF ClaimRun, Goto, Run
  <1>6. CASE \E k \in Kinds : Take(v, k)
    BY <1>0, <1>4, <1>6 DEF Take, Idle, Pend
  <1>7. CASE ClaimRun(v)
    <2>1. CASE Takeable
      BY <1>0, <1>3, <2>1, <1>7 DEF ClaimRun, Goto, Claimed, Held, AtWork, Run
    <2>2. CASE ~Takeable
      BY <1>0, <1>4, <2>2, <1>7 DEF ClaimRun, Goto, Pend, Run
    <2> QED BY <2>1, <2>2
  <1>8. CASE Requeue(v)
    BY <1>4, <1>8 DEF Requeue
  <1>9. CASE BeginRun(v)
    <2>1. CASE Held(v)
      BY <1>0, <1>3, <2>1, <1>9 DEF BeginRun, Goto, AtWork, Held, Run
    <2>2. CASE ~Held(v)
      <3>1. Active /\ (Excused => Excused') /\ run'[v].pc = "fetch"
        BY <1>0, <2>2, <1>9 DEF BeginRun, Goto, IfHeld, Active, Excused, Run
      <3>2. ~ClaimRun(v)
        BY <1>5, <3>1
      <3> QED BY <1>2, <2>2, <3>1, <3>2 DEF Onward
    <2> QED BY <2>1, <2>2
  <1>10. CASE Cancelled(v)
    <2>1. status' = status /\ flaws' = flaws /\ ~Held(v) /\ run[v].pc # "claim"
      BY <1>10 DEF Cancelled, row
    <2> QED BY <1>2, <2>1 DEF Onward, ClaimRun, Active, Excused
  <1>11. CASE Fetch(v)
    BY <1>0, <1>2, <1>11 DEF Fetch, StartStep, Active, Excused, Onward, Held, AtWork, Run, row,
         content, ClaimRun
  <1>12. CASE FetchFails(v)
    BY <1>0, <1>2, <1>12 DEF FetchFails, StartStep, Goto, Active, Excused, Onward, Held,
         AtWork, Run, row, content, ClaimRun
  <1>13. CASE FetchDeferred(v)
    BY <1>0, <1>2, <1>13 DEF FetchDeferred, StartStep, Active, Excused, Onward, Held, AtWork,
         Run, row, content, ClaimRun
  <1>14. CASE DeferStatus(v)
    <2>1. CASE Held(v)
      <3>1. status' = "queued" /\ flaws' = flaws /\ claim' = claim /\ "status" \in run[v].rest
        BY <2>1, <1>14 DEF DeferStatus, IfHeld
      <3>2. \/ run'[v].pc = run[v].pc
            \/ run[v].pc = "defer" /\ run[v].rest = {"status"} /\ run'[v].pc = "release"
        BY <1>0, <1>14 DEF DeferStatus, Run
      <3>3. CASE run'[v].pc = run[v].pc /\ run[v].pc # "release"
        BY <1>1, <1>3, <2>1, <3>1, <3>3 DEF Fits, Held, AtWork
      <3>4. CASE run[v].pc = "release"
        BY <1>1, <2>1, <3>1, <3>4 DEF Fits, Excused, Served
      <3>5. CASE run[v].pc = "defer" /\ run[v].rest = {"status"}
        <4>1. Coming
          BY <1>1, <2>1, <3>5 DEF Fits
        <4>2. ~ClaimRun(v)
          BY <3>5 DEF ClaimRun
        <4> QED BY <1>1, <4>1, <4>2, ComingRun DEF FullInv, Served
      <3> QED BY <3>2, <3>3, <3>4, <3>5
    <2>2. CASE ~Held(v)
      <3>1. status' = status /\ flaws' = flaws /\ "status" \in run[v].rest
            /\ run'[v].rest = run[v].rest \ {"status"}
        BY <1>0, <2>2, <1>14 DEF DeferStatus, IfHeld, Run
      <3>2. ClaimRun(v) => run'[v].rest = run[v].rest
        BY <1>0 DEF ClaimRun, Goto, Run
      <3>3. ~ClaimRun(v)
        BY <3>1, <3>2
      <3> QED BY <1>2, <2>2, <3>1, <3>3 DEF Onward, Active, Excused
    <2> QED BY <2>1, <2>2
  <1>15. CASE DeferEnqueue(v)
    BY <1>4, <1>15 DEF DeferEnqueue
  <1>16. CASE DeferRefused(v)
    BY <1>0, <1>2, <1>16 DEF DeferRefused, Active, Excused, Onward, Held, AtWork, Run, row,
         content, ClaimRun
  <1>17. CASE RunFails(v)
    <2>1. status' = status /\ flaws' = flaws /\ ~Held(v) /\ run[v].pc # "claim"
      BY <1>17 DEF RunFails, IfHeld, Active
    <2> QED BY <1>2, <2>1 DEF Onward, ClaimRun, Active, Excused
  <1>18. CASE PublishStart(v)
    <2>1. status' = status /\ flaws' = flaws /\ run[v].pc = "publish" /\ claim' = claim
      BY <1>18 DEF PublishStart, row
    <2>2. Held(v) => run'[v].pc = "landing"
      BY <1>0, <1>18 DEF PublishStart, Goto, Run
    <2> QED BY <1>2, <2>1, <2>2 DEF Onward, ClaimRun, AtWork, Held, Active, Excused
  <1>19. CASE Publish(v)
    <2>1. status' = status /\ flaws' = flaws /\ run[v].pc = "landing" /\ claim' = claim
      BY <1>19 DEF Publish, row
    <2>2. live = run[v].prev => run'[v].pc = "version"
      BY <1>0, <1>19 DEF Publish, Run
    <2> QED BY <1>1, <1>2, <2>1, <2>2 DEF Fits, Onward, ClaimRun, AtWork, Held, Active, Excused
  <1>20. CASE VersionGate(v)
    BY <1>0, <1>2, <1>20 DEF VersionGate, StartStep, Goto, Active, Excused, Onward, Held,
         AtWork, Run, row, content, ClaimRun
  <1>21. CASE InsertVersion(v)
    BY <1>0, <1>2, <1>21 DEF InsertVersion, Active, Excused, Onward, Held, AtWork, Run, row,
         content, IfHeld, ClaimRun
  <1>22. CASE Interpret(v)
    BY <1>0, <1>2, <1>22 DEF Interpret, StartStep, Goto, Active, Excused, Onward, Held, AtWork,
         Run, row, content, ClaimRun
  <1>23. CASE StepFails(v)
    BY <1>0, <1>2, <1>23 DEF StepFails, Goto, Active, Excused, Onward, Held, AtWork, Run, row,
         content, IfHeld, ClaimRun
  <1>24. CASE Interrupted(v)
    <2>1. Coming'
      BY <1>0, <1>24, Interruption DEF Pend, Coming
    <2> QED BY <2>1 DEF Served
  <1>25. CASE Describe(v)
    BY <1>0, <1>2, <1>25 DEF Describe, Goto, Active, Excused, Onward, Held, AtWork, Run, row,
         content, IfHeld, ClaimRun
  <1>26. CASE IndexStart(v)
    BY <1>0, <1>2, <1>26 DEF IndexStart, StartStep, Active, Excused, Onward, Held, AtWork, Run,
         row, content, ClaimRun
  <1>27. CASE Reuse(v)
    BY <1>0, <1>2, <1>27 DEF Reuse, StartStep, Goto, Active, Excused, Onward, Held, AtWork,
         Run, row, content, ClaimRun
  <1>28. CASE Check(v)
    BY <1>0, <1>2, <1>28 DEF Check, Goto, Active, Excused, Onward, Held, AtWork, Run, row,
         content, ClaimRun
  <1>29. CASE Send(v)
    BY <1>0, <1>2, <1>29 DEF Send, Active, Excused, Onward, Held, AtWork, Run, row, content, ClaimRun
  <1>30. CASE SendFails(v)
    BY <1>0, <1>2, <1>30 DEF SendFails, Goto, Active, Excused, Onward, Held, AtWork, Run, row,
         content, IfHeld, ClaimRun
  <1>31. CASE RaiseMark(v)
    BY <1>0, <1>2, <1>31 DEF RaiseMark, Raised, Active, Excused, Onward, Held, AtWork, Run,
         row, content, IfHeld, ClaimRun
  <1>32. CASE RecordIndexed(v)
    BY <1>0, <1>2, <1>32 DEF RecordIndexed, Goto, Active, Excused, Onward, Held, AtWork, Run,
         row, content, IfHeld, ClaimRun
  <1>33. CASE LowerMark(v)
    BY <1>0, <1>2, <1>33 DEF LowerMark, Goto, Active, Excused, Onward, Held, AtWork, Run, row,
         content, ClaimRun
  <1>34. CASE Finish(v)
    <2>1. status' = status /\ flaws' = flaws /\ ~Held(v) /\ run[v].pc # "claim"
      BY <1>34 DEF Finish, IfHeld, Active
    <2> QED BY <1>2, <2>1 DEF Onward, ClaimRun, Active, Excused
  <1>35. CASE Release(v)
    <2>1. status' = status /\ flaws' = flaws /\ run[v].pc = "release"
      BY <1>35 DEF Release, row
    <2> QED BY <1>2, <2>1 DEF Onward, ClaimRun, AtWork, Active, Excused
  <1>36. CASE Done(v)
    <2>1. status' = status /\ flaws' = flaws /\ run[v].pc = "done"
      BY <1>36 DEF Done, row
    <2> QED BY <1>2, <2>1 DEF Onward, ClaimRun, AtWork, Active, Excused
  <1> QED BY <1>6, <1>7, <1>8, <1>9, <1>10, <1>11, <1>12, <1>13, <1>14, <1>15, <1>16, <1>17,
       <1>18, <1>19, <1>20, <1>21, <1>22, <1>23, <1>24, <1>25, <1>26, <1>27, <1>28, <1>29, <1>30,
       <1>31, <1>32, <1>33, <1>34, <1>35, <1>36 DEF RunStep

\* What is no step of a run leaves what runs are asked for, and what is coming.
Aside ==
    /\ \A w \in Workers : Same(w) /\ (claim'.by = w => claim.by = w)
    /\ Coming => Coming'
    /\ live' = live \/ Coming' \/ \A w \in Workers : ~Held(w)
    /\ flaws' = flaws

\* The row's status is as it was and its holder still is, or something comes.
Backed ==
    \/ Coming'
    \/ Active' => Active /\ (Excused => Excused')
                  /\ \A w \in Workers : Held(w) /\ AtWork(w) => Held(w)'

\* Everyone else's steps, one by one. A job's claim displaces a run that hangs
\* without a word on the row, which is why the two are not had together.
LEMMA AsideOther ==
    ASSUME FullInv, Fitting, [Next]_vars, ~ \E w \in Workers : RunStep(w) \/ Crash(w)
    PROVE Aside /\ (("job" \notin Others \/ "stall" \notin Faults) => Backed)
  <1>0. run \in [Workers -> Run] /\ waiting \in [Kinds -> Nat] /\ claim.by \in Owner
        /\ \A w \in Workers : w \notin {"none", "dead", "revert", "job"}
    BY WorkerNames DEF FullInv, TypeOK, RunOK, ClaimOK, PlainOK
  <1>s. \A w \in Workers : claim'.by = w => claim.by = w
    BY SitsStill DEF FullInv, Still
  <1>r. (run' = run \/ run' = Raised) => \A w \in Workers : Same(w)
    BY <1>0 DEF Raised, Same, Run
  <1>p. ASSUME \A w \in Workers : Same(w), NEW kind \in Kinds, Put(kind),
               flaws' = flaws
        PROVE Aside /\ Backed
    <2>1. Coming'
      BY <1>0, <1>p DEF Put, Coming
    <2> QED BY <1>p, <1>s, <2>1 DEF Aside, Backed
  <1>k. ASSUME \A w \in Workers : Same(w), waiting' = waiting, up = "promoted" => up' = "promoted",
               flaws' = flaws, live' = live \/ up' = "promoted" \/ \A w \in Workers : ~Held(w),
               \/ status' = status /\ \A w \in Workers : Held(w) => Held(w)'
               \/ status' = "cancelled"
               \/ status' = status /\ \A w \in Workers : ~Held(w)
        PROVE Aside /\ Backed
    <2>1. Coming => Coming'
      BY <1>k, BuriedAside DEF Coming, Pend, Same
    <2>2. live' = live \/ Coming' \/ \A w \in Workers : ~Held(w)
      BY <1>k DEF Coming
    <2>3. Backed
      BY <1>k DEF Backed, Active, Excused
    <2> QED BY <1>k, <1>s, <2>1, <2>2, <2>3 DEF Aside
  <1>1. ASSUME NEW k \in Asked, Ask(k) PROVE Aside /\ Backed
    BY <1>p, <1>r, AskedAssumption, <1>1 DEF Ask, Enqueue, content, Kinds
  <1>2. ASSUME NEW to \in versions \cup {NoKey}, RevertAsk(to) PROVE Aside /\ Backed
    BY <1>k, <1>r, <1>2 DEF RevertAsk, Held, row, content, search, bounds, Kinds
  <1>3. CASE CancelRun
    <2>1. \/ status' = status /\ claim' = claim
          \/ status' = "cancelled"
      BY <1>3 DEF CancelRun, StopRun
    <2> QED BY <1>k, <1>r, <2>1, <1>3 DEF CancelRun, content, Held
  <1>4. CASE UploadPrepare
    BY <1>k, <1>r, <1>4 DEF UploadPrepare, Held, row, content, search, bounds, Kinds
  <1>5. CASE UploadStops
    <2>1. \/ status' = status /\ claim' = claim
          \/ status' = "cancelled"
      BY <1>5 DEF UploadStops, StopRun
    <2> QED BY <1>k, <1>r, <2>1, <1>5 DEF UploadStops, content, Held
  <1>6. CASE UploadPromote
    BY <1>k, <1>r, <1>6 DEF UploadPromote, Held, row, search, Kinds
  <1>7. CASE UploadEnqueue
    BY <1>p, <1>r, <1>7 DEF UploadEnqueue, Enqueue, content, Kinds
  <1>8. CASE UploadAbandoned
    BY <1>k, <1>r, <1>8 DEF UploadAbandoned, Held, row, content, search, bounds, Kinds
  <1>9. CASE JobClaim
    <2>1. Aside
      BY <1>s, <1>9, BuriedAside DEF JobClaim, Aside, Same, Coming, Pend, row, content
    <2>2. CASE "job" \notin Others
      BY <2>1, <2>2, <1>9 DEF JobClaim
    <2>3. CASE "stall" \notin Faults
      <3>1. \A w \in Workers : ~Held(w)
        BY <1>0, <1>9, <2>3 DEF JobClaim, Takeable, Fitting, StaleIsDead, Held
      <3> QED BY <1>k, <1>r, <3>1, <1>9 DEF JobClaim, row, content
    <2> QED BY <2>1, <2>2, <2>3
  <1>10. CASE JobRelease
    <2>1. \A w \in Workers : Held(w) => Held(w)'
      BY <1>0, <1>10 DEF JobRelease, GiveBack, Held
    <2> QED BY <1>k, <1>r, <2>1, <1>10 DEF JobRelease, row, content
  <1>11. CASE JobDies
    <2>1. \A w \in Workers : Held(w) => Held(w)'
      BY <1>0, <1>11 DEF JobDies, Orphan, Held
    <2> QED BY <1>k, <1>r, <2>1, <1>11 DEF JobDies, row, content
  <1>12. CASE Takeover
    <2>1. \/ status' = status /\ claim' = claim
          \/ status' = "cancelled"
          \/ status' = status /\ claim.by = "none"
      BY <1>12 DEF Takeover
    <2>2. \/ status' = status /\ \A w \in Workers : Held(w) => Held(w)'
          \/ status' = "cancelled"
          \/ status' = status /\ \A w \in Workers : ~Held(w)
      BY <1>0, <2>1 DEF Held
    <2> QED BY <1>k, <1>r, <2>2, <1>12 DEF Takeover, content
  <1>13. CASE RevertRead
    BY <1>k, <1>r, <1>13 DEF RevertRead, Held, row, content, search, Kinds
  <1>14. CASE RevertPublishStart
    BY <1>k, <1>r, <1>14 DEF RevertPublishStart, Held, row, content, search, bounds, Kinds
  <1>15. CASE RevertPublish
    <2>1. \A w \in Workers : ~Held(w)
      BY <1>0, <1>15 DEF RevertPublish, FullInv, FenceKept, Held
    <2> QED BY <1>k, <1>r, <2>1, <1>15 DEF RevertPublish
  <1>16. CASE RevertWipe
    BY <1>k, <1>r, <1>16 DEF RevertWipe, Raised, Held, row, content, search, counts, Kinds
  <1>17. CASE RevertUnfile
    BY <1>k, <1>r, <1>17 DEF RevertUnfile, Held, content, search, bounds, Kinds
  <1>18. CASE RevertRelease
    <2>1. \A w \in Workers : Held(w) => Held(w)'
      BY <1>0, <1>18 DEF RevertRelease, GiveBack, Held
    <2> QED BY <1>k, <1>r, <2>1, <1>18 DEF RevertRelease, row, content
  <1>19. CASE RevertQueue
    BY <1>p, <1>r, <1>19 DEF RevertQueue, Enqueue, content, Kinds
  <1>20. CASE Sweep
    <2>1. CASE live # NoKey
      BY <1>p, <1>r, <2>1, <1>20 DEF Sweep, Enqueue, content, Kinds
    <2>2. CASE live = NoKey
      <3>1. \A w \in Workers : ~Held(w)
        BY <1>20 DEF Sweep, Fitting, Fits
      <3> QED BY <1>k, <1>r, <2>2, <3>1, <1>20 DEF Sweep, content
    <2> QED BY <2>1, <2>2
  <1>21. CASE GoStale
    <2>1. \A w \in Workers : Held(w) => Held(w)'
      BY <1>21 DEF GoStale, FullInv, TypeOK, ClaimOK, Held
    <2> QED BY <1>k, <1>r, <2>1, <1>21 DEF GoStale, row, content
  <1>22. CASE UNCHANGED vars
    BY <1>k, <1>r, <1>22 DEF vars, row, content, search, bounds, Held, counts, Kinds
  <1> QED BY <1>1, <1>2, <1>3, <1>4, <1>5, <1>6, <1>7, <1>8, <1>9, <1>10, <1>11, <1>12, <1>13,
       <1>14, <1>15, <1>16, <1>17, <1>18, <1>19, <1>20, <1>21, <1>22 DEF Next, UploadStep,
       RevertStep

\* They keep what is behind the row.
LEMMA WorkOther ==
    ASSUME "job" \notin Others \/ "stall" \notin Faults, FullInv, WorkInv, [Next]_vars,
           ~ \E w \in Workers : RunStep(w) \/ Crash(w)
    PROVE Active' => Served'
  <1>1. Aside /\ Backed
    BY AsideOther DEF WorkInv
  <1>2. ASSUME Active' PROVE Served'
    <2>1. CASE Coming'
      BY <2>1 DEF Served
    <2>2. CASE ~Coming'
      <3>1. Active /\ (Excused => Excused') /\ ~Coming
            /\ \A w \in Workers : Held(w) /\ AtWork(w) => Held(w)' /\ AtWork(w)'
        BY <1>1, <1>2, <2>2 DEF Aside, Backed, Same, AtWork
      <3> QED BY <3>1 DEF WorkInv, Served
    <2> QED BY <2>1, <2>2
  <1> QED BY <1>2

\* The job of a run that dies comes back.
LEMMA WorkCrash == ASSUME FullInv, Fitting, NEW v \in Workers, Crash(v)
                   PROVE Served' /\ \A w \in Workers : Fits(w)'
  <1>0. run \in [Workers -> Run] /\ waiting \in [Kinds -> Nat] /\ run[v].kind \in Kinds
        /\ v # "dead" /\ \A w \in Workers : w # "dead"
        /\ claim \in [by : Owner, kind : {"none", "run", "job"}, idle : BOOLEAN]
    BY WorkerNames DEF FullInv, TypeOK, RunOK, ClaimOK, PlainOK, Run
  <1>1. Coming'
    BY <1>0 DEF Crash, GivenUp, Put, Coming
  <1>2. ~Held(v)' /\ run'[v].pc = "idle" /\ ~run'[v].again
    BY <1>0 DEF Crash, Orphan, Idle, Held
  <1>3. Fits(v)'
    BY <1>2 DEF Fits
  <1>4. ASSUME NEW w \in Workers \ {v} PROVE Fits(w)'
    <2>1. run'[w] = run[w] /\ (Held(w)' => Held(w)) /\ flaws' = flaws
      BY <1>0 DEF Crash, Orphan, Held, row
    <2> QED BY <1>1, <2>1 DEF Fitting, Fits
  <1> QED BY <1>1, <1>3, <1>4 DEF Served

\* The claim goes stale under a living holder only if holders hang.
LEMMA StaleStep == ASSUME TypeOK, StaleIsDead, [Next]_vars PROVE StaleIsDead'
  <1>0. claim \in [by : Owner, kind : {"none", "run", "job"}, idle : BOOLEAN]
    BY DEF TypeOK, ClaimOK
  <1>1. ASSUME NEW w \in Workers, RunStep(w) PROVE StaleIsDead'
    <2>1. claim' = claim \/ claim' = Free \/ claim' = Claimed(w, "run")
          \/ claim' = [claim EXCEPT !.idle = FALSE]
  <3>1. CASE \E k \in Kinds : Take(w, k)
    BY <1>1, <3>1 DEF Take, Idle
  <3>2. CASE ClaimRun(w)
    BY <1>1, <3>2 DEF ClaimRun, Goto, Claimed
  <3>3. CASE Requeue(w)
    BY <1>1, <3>3 DEF Requeue, Goto, Put
  <3>4. CASE BeginRun(w)
    BY <1>1, <3>4 DEF BeginRun, Goto
  <3>5. CASE Cancelled(w)
    BY <1>1, <3>5 DEF Cancelled, Leave, Idle
  <3>6. CASE Fetch(w)
    BY <1>1, <3>6 DEF Fetch, StartStep
  <3>7. CASE FetchFails(w)
    BY <1>1, <3>7 DEF FetchFails, StartStep, Goto
  <3>8. CASE FetchDeferred(w)
    BY <1>1, <3>8 DEF FetchDeferred, StartStep
  <3>9. CASE DeferStatus(w)
    BY <1>1, <3>9 DEF DeferStatus
  <3>10. CASE DeferEnqueue(w)
    BY <1>1, <3>10 DEF DeferEnqueue, Put
  <3>11. CASE DeferRefused(w)
    BY <1>1, <3>11 DEF DeferRefused
  <3>12. CASE RunFails(w)
    BY <1>1, <3>12 DEF RunFails
  <3>13. CASE PublishStart(w)
    BY <1>1, <3>13 DEF PublishStart, Goto, Leave, Idle
  <3>14. CASE Publish(w)
    BY <1>1, <3>14 DEF Publish, Leave, Idle
  <3>15. CASE VersionGate(w)
    BY <1>1, <3>15 DEF VersionGate, StartStep, Goto
  <3>16. CASE InsertVersion(w)
    BY <1>1, <3>16 DEF InsertVersion
  <3>17. CASE Interpret(w)
    BY <1>1, <3>17 DEF Interpret, StartStep, Goto
  <3>18. CASE StepFails(w)
    BY <1>1, <3>18 DEF StepFails, Goto
  <3>19. CASE Interrupted(w)
    BY <1>1, <3>19 DEF Interrupted, Interrupts, Idle
  <3>20. CASE Describe(w)
    BY <1>1, <3>20 DEF Describe, Goto
  <3>21. CASE IndexStart(w)
    BY <1>1, <3>21 DEF IndexStart, StartStep
  <3>22. CASE Reuse(w)
    BY <1>1, <3>22 DEF Reuse, StartStep, Goto
  <3>23. CASE Check(w)
    BY <1>1, <3>23 DEF Check, Goto
  <3>24. CASE Send(w)
    BY <1>1, <3>24 DEF Send
  <3>25. CASE SendFails(w)
    BY <1>1, <3>25 DEF SendFails, Goto
  <3>26. CASE RaiseMark(w)
    BY <1>1, <3>26 DEF RaiseMark, Raised
  <3>27. CASE RecordIndexed(w)
    BY <1>1, <3>27 DEF RecordIndexed, Goto
  <3>28. CASE LowerMark(w)
    BY <1>1, <3>28 DEF LowerMark, Goto
  <3>29. CASE Finish(w)
    BY <1>1, <3>29 DEF Finish, Leave, Idle
  <3>30. CASE Release(w)
    BY <1>1, <3>30 DEF Release, Goto, GiveBack, Free
  <3>31. CASE Done(w)
    BY <1>1, <3>31 DEF Done, Idle, Put
  <3> QED BY <3>1, <3>2, <3>3, <3>4, <3>5, <3>6, <3>7, <3>8, <3>9, <3>10, <3>11, <3>12, <3>13,
       <3>14, <3>15, <3>16, <3>17, <3>18, <3>19, <3>20, <3>21, <3>22, <3>23, <3>24, <3>25, <3>26,
       <3>27, <3>28, <3>29, <3>30, <3>31, <1>1 DEF RunStep
    <2> QED BY <1>0, <2>1 DEF Free, Claimed, StaleIsDead
  <1>2. ASSUME NEW w \in Workers, Crash(w) PROVE StaleIsDead'
    BY <1>0, <1>2 DEF Crash, Orphan, StaleIsDead
  <1>3. CASE GoStale
    BY <1>0, <1>3 DEF GoStale, Fault, StaleIsDead
  <1>4. CASE JobDies
    BY <1>0, <1>4 DEF JobDies, Orphan, StaleIsDead
  <1>5. CASE ~ \E w \in Workers : RunStep(w) \/ Crash(w)
    <2>1. CASE ~GoStale /\ ~JobDies
      <3>1. claim' = claim \/ claim'.idle = FALSE
        <4>1. ASSUME NEW k \in Asked, Ask(k) PROVE claim' = claim \/ claim'.idle = FALSE
          BY <2>1, <4>1 DEF Ask, Enqueue, Put
        <4>2. ASSUME NEW to \in versions \cup {NoKey}, RevertAsk(to) PROVE claim' = claim \/ claim'.idle = FALSE
          BY <2>1, <4>2 DEF RevertAsk
        <4>3. CASE CancelRun
          BY <2>1, <4>3 DEF CancelRun, StopRun, Free
        <4>4. CASE UploadPrepare
          BY <2>1, <4>4 DEF UploadPrepare
        <4>5. CASE UploadStops
          BY <2>1, <4>5 DEF UploadStops, StopRun, Free
        <4>6. CASE UploadPromote
          BY <2>1, <4>6 DEF UploadPromote
        <4>7. CASE UploadEnqueue
          BY <2>1, <4>7 DEF UploadEnqueue, Enqueue, Put
        <4>8. CASE UploadAbandoned
          BY <2>1, <4>8 DEF UploadAbandoned
        <4>9. CASE JobClaim
          BY <2>1, <4>9 DEF JobClaim, Claimed
        <4>10. CASE JobRelease
          BY <2>1, <4>10 DEF JobRelease, GiveBack, Free
        <4>11. CASE JobDies
          BY <2>1, <4>11
        <4>12. CASE Takeover
          BY <2>1, <4>12 DEF Takeover, Claimed
        <4>13. CASE RevertRead
          BY <2>1, <4>13 DEF RevertRead
        <4>14. CASE RevertPublishStart
          BY <2>1, <4>14 DEF RevertPublishStart
        <4>15. CASE RevertPublish
          BY <2>1, <4>15 DEF RevertPublish
        <4>16. CASE RevertWipe
          BY <2>1, <4>16 DEF RevertWipe, Raised
        <4>17. CASE RevertUnfile
          BY <2>1, <4>17 DEF RevertUnfile
        <4>18. CASE RevertRelease
          BY <2>1, <4>18 DEF RevertRelease, GiveBack, Free
        <4>19. CASE RevertQueue
          BY <2>1, <4>19 DEF RevertQueue, Enqueue, Put
        <4>20. CASE Sweep
          <5>1. claim' = claim \/ claim' = Free
            BY <4>20 DEF Sweep
          <5> QED BY <5>1 DEF Free
        <4>21. CASE GoStale
          BY <2>1, <4>21
        <4>22. CASE UNCHANGED vars
          BY <2>1, <4>22 DEF vars, row, content, search, bounds, StopRun, GiveBack
        <4> QED BY <1>5, <4>1, <4>2, <4>3, <4>4, <4>5, <4>6, <4>7, <4>8, <4>9, <4>10, <4>11,
             <4>12, <4>13, <4>14, <4>15, <4>16, <4>17, <4>18, <4>19, <4>20, <4>21, <4>22 DEF Next,
             UploadStep, RevertStep
      <3> QED BY <3>1 DEF StaleIsDead
    <2> QED BY <1>3, <1>4, <2>1
  <1> QED BY <1>1, <1>2, <1>5

\* What is asked of the runs, and of the claim, is kept by every step.
LEMMA FittingStep == ASSUME FullInv, Fitting, [Next]_vars PROVE Fitting'
  <1>1. ASSUME NEW v \in Workers, RunStep(v) PROVE \A w \in Workers : Fits(w)'
    BY <1>1, FitsOwn, FitsOthers DEF Fitting
  <1>2. ASSUME NEW v \in Workers, Crash(v) PROVE \A w \in Workers : Fits(w)'
    BY <1>2, WorkCrash
  <1>3. ASSUME ~ \E w \in Workers : RunStep(w) \/ Crash(w), NEW w \in Workers PROVE Fits(w)'
    BY <1>3, AsideOther DEF Fitting, Aside, Fits, Same, Held
  <1> QED BY <1>1, <1>2, <1>3, StaleStep DEF Fitting, FullInv

\* A row that says queued or processing has somebody to take it further, where
\* claims of jobs and holders that hang do not come together.
THEOREM WorkBehindStatus ==
    ASSUME "job" \notin Others \/ "stall" \notin Faults
    PROVE Spec => []StatusHasWork
  <1>1. Init => FullInv /\ WorkInv
    <2>1. Init => WorkInv
      BY WorkerNames DEF Init, Idle, Free, Held, Active, Fits, StaleIsDead, Fitting, WorkInv
    <2> QED BY <2>1, FullInvInit
  <1>2. FullInv /\ WorkInv /\ [Next]_vars => (FullInv /\ WorkInv)'
    <2> SUFFICES ASSUME FullInv, WorkInv, [Next]_vars PROVE FullInv' /\ WorkInv'
      OBVIOUS
    <2>1. FullInv' /\ Fitting'
      BY FullInvStep, FittingStep DEF WorkInv
    <2>2. ASSUME NEW v \in Workers, RunStep(v) PROVE Active' => Served'
      BY <2>2, ServedRun
    <2>3. ASSUME NEW v \in Workers, Crash(v) PROVE Active' => Served'
      BY <2>3, WorkCrash DEF WorkInv
    <2> QED BY <2>1, <2>2, <2>3, WorkOther DEF WorkInv
  <1>3. WorkInv => StatusHasWork
    BY DEF WorkInv, Fitting, Active, Served, Excused, Coming, Pend, AtWork, Fits, StatusHasWork
  <1> QED BY <1>1, <1>2, <1>3, PTL DEF Spec

----------------------------------------------------------------------------
(* What is indexed, and what is on record of it. *)

\* Nothing makes the record of the index a lie: no index-only run, which removes
\* the documents it has on record, no search backend that fails and so asks for
\* one, and no rebuild of described content whose Interpret fails.
RecordSound ==
    /\ "index" \notin Asked /\ "search" \notin Faults
    /\ "step" \notin Faults \/ ("rebuild" \notin Asked /\ "revert" \notin Others)

\* Or nobody believes the record: only an ordinary run does.
RecordUnread == "ordinary" \notin Asked /\ "upload" \notin Others

\* A revert that begins ends.
RevertsAlive == "stall" \notin Faults \/ "revert" \notin Others

\* A job that asks for such a run, or a run that does.
Outstanding(k) == waiting[k] > 0 \/ \E w \in Workers : run[w].pc # "idle" /\ run[w].kind = k

\* Nobody is at work whom the instance has not.
Requests ==
    /\ "upload" \notin Others => up = "idle"
    /\ "revert" \notin Others => rv.pc = "idle"
    /\ RecordUnread => ~Outstanding("ordinary")
    /\ RecordSound => ~Outstanding("index") /\ ~due /\ \A w \in Workers : run[w].pc # "raise"
    /\ (RecordSound /\ "step" \in Faults) => ~Outstanding("rebuild")

\* A key is in use after it was minted, and what is described was kept.
Minted ==
    /\ live < next /\ versions \subseteq 1..(next - 1)
    /\ made \in versions \cup {NoKey}
    /\ live = NoKey => made = NoKey
    /\ rv.key < next /\ \A w \in Workers : run[w].key < next

\* What somebody put there is served, or an upload has replaced it and a run
\* that will look at the upload is on its way.
Replaced == live \notin versions \cup {NoKey} /\ Coming
Serves(k) == live = k \/ Replaced

Indexing == {"index", "check", "send", "record"}
Interpreted == Indexing \cup {"raise", "lower", "finish"}
Gated == {"interpret", "reused", "describe"} \cup Interpreted
Worked == {"version", "insert"} \cup Gated
Filled(k) == \A i \in 1..Chunks : index[i] = k

\* What holds of a run under its claim, by how far it is: what it publishes,
FreshContent(w) ==
    run[w].pc \in {"publish", "landing"} =>
        /\ run[w].key # NoKey
        /\ run[w].key = run[w].prev \/ (run[w].key \notin versions /\ run[w].key # live)

\* what it keeps and interprets,
KeptContent(w) ==
    /\ run[w].pc \in Worked => run[w].key # NoKey /\ Serves(run[w].key)
    /\ run[w].pc = "insert" => run[w].key \notin versions
    /\ run[w].pc \in {"interpret", "describe"} /\ run[w].fresh => made # run[w].key
    /\ run[w].pc \in Gated =>
          run[w].key \in versions \/ "version" \in flaws \/ live # run[w].key
    /\ run[w].pc = "describe" => run[w].key \in versions
    /\ run[w].pc = "describe" /\ run[w].kind = "ordinary" => ~(filed /\ made = run[w].key)
    /\ run[w].pc = "reused" => run[w].kind = "ordinary" /\ made = run[w].key /\ filed
    /\ run[w].pc \in Interpreted => flaws # {} \/ live # run[w].key \/ made = run[w].key

\* what it has written to the index, and what is on record meanwhile.
IndexedContent(w) ==
    /\ run[w].pc \in Indexing /\ RecordSound => ~(filed /\ made = run[w].key)
    /\ run[w].pc \in {"check", "send"} =>
          strayed \/ \A i \in 1..Chunks : i < run[w].n => index[i] = run[w].key
    /\ run[w].pc \in {"record", "lower"} => strayed \/ Filled(run[w].key)
    /\ run[w].pc = "lower" => filed
    /\ run[w].pc = "raise" => flaws # {}
    /\ run[w].pc = "finish" => flaws # {} \/ due \/ strayed \/ live # run[w].key \/ Current

Reads(w) ==
    /\ run[w].pc \notin {"begin", "release"} => status # "complete"
    /\ FreshContent(w) /\ KeptContent(w) /\ IndexedContent(w)
RunReads == \A w \in Workers : Held(w) => Reads(w)

\* What a revert retracted is out of the index, or marked.
Retracted ==
    /\ rv.pc \in {"wipe", "unfile", "release"} => Serves(rv.key) /\ made = NoKey
    /\ rv.pc = "unfile" => strayed \/ Filled(NoKey)
    /\ rv.pc = "release" => due \/ (~filed /\ (strayed \/ Filled(NoKey)))

\* Meanwhile it has the resource to itself.
Reverting == (RevertAtWork => Held("revert")) /\ Retracted

\* The record holds, outside a revert's removal.
Describes ==
    (RecordSound /\ filed /\ made = live /\ ~strayed /\ rv.pc \notin {"wipe", "unfile"})
        => Filled(live)

\* A run that issued a version is past doing so.
Kept == \A w \in Workers : run[w].fresh => run[w].pc \in Gated

\* Together.
RecordInv ==
    /\ FullInv /\ Fitting /\ RevertIsJob
    /\ Requests /\ Minted /\ Kept /\ RunReads /\ Reverting /\ Describes

\* A run's step leaves of every other run everything but the mark it read.
Apart(u) ==
    /\ run'[u].pc = run[u].pc /\ run'[u].kind = run[u].kind /\ run'[u].key = run[u].key
    /\ run'[u].prev = run[u].prev /\ run'[u].fresh = run[u].fresh /\ run'[u].n = run[u].n

\* It raises the mark under them, or does not touch them.
LEMMA RaisedApart == ASSUME TypeOK, NEW u \in Workers, run' = Raised \/ run' = run PROVE Apart(u)
  BY DEF TypeOK, RunOK, Raised, Run, Apart

\* It is said of a run's step.
LEMMA OthersApart == ASSUME TypeOK, NEW v \in Workers, RunStep(v), NEW u \in Workers \ {v}
                     PROVE Apart(u)
  <1>0. run \in [Workers -> Run]
    BY DEF TypeOK, RunOK
  <1>1. ASSUME run'[u] = run[u] PROVE Apart(u)
    BY <1>1 DEF Apart
  <1>2. CASE RaiseMark(v)
    <2>1. run'[u] = run[u] \/ run'[u] = Raised[u]
      BY <1>0, <1>2 DEF RaiseMark, Raised
    <2> QED BY <1>0, <2>1 DEF Raised, Run, Apart
  <1>3. CASE ~RaiseMark(v)
    <2>1. run'[u] = run[u]
      BY <1>0, <1>3 DEF RunStep, Take, ClaimRun, Requeue, BeginRun, Cancelled, Fetch, FetchFails,
         FetchDeferred, DeferStatus, DeferEnqueue, DeferRefused, RunFails, PublishStart, Publish,
         VersionGate, InsertVersion, Interpret, StepFails, Interrupted, Interrupts, Describe, IndexStart, Reuse,
         Check, Send, SendFails, RecordIndexed, LowerMark, Finish, Release, Done, Goto, Leave
    <2> QED BY <1>1, <2>1
  <1> QED BY <1>2, <1>3

\* What no step of a run does: move a revert or an upload, forget a stray write.
LEMMA RunLeaves == ASSUME TypeOK, NEW v \in Workers, RunStep(v)
                   PROVE /\ up' = up /\ rv'.pc = rv.pc /\ rv'.key = rv.key
                         /\ strayed => strayed'
                         /\ next' = next \/ (Fetch(v) /\ next' = next + 1)
                         /\ Held(v) \/ strayed' \/ index' = index
  <1>0. run \in [Workers -> Run] /\ rv \in Revert /\ v \in Workers
    BY DEF TypeOK, RunOK, RvOK
  <1>1. CASE Publish(v)
    BY <1>0, <1>1 DEF Publish, Revert, search, bounds
  <1>2. CASE Send(v)
    BY <1>0, <1>2 DEF Send, bounds
  <1>3. CASE Fetch(v)
    BY <1>0, <1>3 DEF Fetch, StartStep, search
  <1>9. CASE \E k \in Kinds : Take(v, k)
    BY <1>9 DEF Take, content, search, bounds
  <1>4. CASE ClaimRun(v) \/ Requeue(v) \/ BeginRun(v) \/ Cancelled(v)
    BY <1>4 DEF ClaimRun, Requeue, BeginRun, Cancelled, Goto, Leave, content, search, bounds
  <1>5. CASE FetchFails(v) \/ FetchDeferred(v) \/ DeferStatus(v) \/ DeferEnqueue(v) \/ DeferRefused(v) \/ RunFails(v)
    BY <1>5 DEF FetchFails, FetchDeferred, DeferStatus, DeferEnqueue, DeferRefused, RunFails, StartStep, counts, content, search, bounds
  <1>6. CASE PublishStart(v) \/ VersionGate(v) \/ InsertVersion(v) \/ Interpret(v) \/ StepFails(v) \/ Interrupted(v)
    BY <1>6 DEF PublishStart, VersionGate, InsertVersion, Interpret, StepFails, Interrupted, Interrupts, StartStep, counts, content, search, bounds
  <1>7. CASE Describe(v) \/ IndexStart(v) \/ Reuse(v) \/ Check(v) \/ SendFails(v) \/ RaiseMark(v)
    BY <1>7 DEF Describe, IndexStart, Reuse, Check, SendFails, RaiseMark, StartStep, counts, content, search, bounds
  <1>8. CASE RecordIndexed(v) \/ LowerMark(v) \/ Finish(v) \/ Release(v) \/ Done(v)
    BY <1>8 DEF RecordIndexed, LowerMark, Finish, Release, Done, GiveBack, content, search, bounds
  <1> QED BY <1>1, <1>2, <1>3, <1>4, <1>5, <1>6, <1>7, <1>8, <1>9 DEF RunStep

\* What is served stays so while nothing but what is coming changes.
LEMMA ServesKept == ASSUME live' = live, versions' = versions, Coming => Coming', NEW k, Serves(k)
                    PROVE Serves(k)'
  BY DEF Serves, Replaced

\* A step that leaves the row, the content and the run as they were, and the
\* index unless it strays, leaves what the run reads.
LEMMA ReadsFrame ==
    ASSUME NEW u \in Workers, Reads(u), Apart(u),
           UNCHANGED <<flaws, made, filed, live, versions, due>>,
           status' = status \/ status' # "complete",
           Coming => Coming', strayed => strayed', strayed' \/ index' = index
    PROVE Reads(u)'
  <1>1. FreshContent(u)'
    BY DEF Reads, FreshContent, Apart
  <1>2. KeptContent(u)'
    BY DEF Reads, KeptContent, Serves, Replaced, Apart
  <1>3. IndexedContent(u)'
    <2>1. CASE strayed'
      <3>1. run[u].pc \in Indexing /\ RecordSound => ~(filed /\ made = run[u].key)
        BY DEF Reads, IndexedContent
      <3>2. (run[u].pc = "lower" => filed) /\ (run[u].pc = "raise" => flaws # {})
        BY DEF Reads, IndexedContent
      <3> QED BY <2>1, <3>1, <3>2 DEF IndexedContent, Apart
    <2>2. CASE ~strayed' /\ index' = index
      <3>1. (Current => Current') /\ (Filled(run[u].key) => Filled(run[u].key)')
        BY <2>2 DEF Current, Filled, Apart
      <3>2. strayed = strayed' \/ ~strayed
        BY <2>2
      <3> QED BY <2>2, <3>1, <3>2 DEF Reads, IndexedContent, Apart, Filled
    <2> QED BY <2>1, <2>2
  <1> QED BY <1>1, <1>2, <1>3 DEF Reads, Apart

\* A run's step leaves what another run under its claim reads.
LEMMA ReadsOthers ==
    ASSUME FullInv, Fitting, RunReads, NEW v \in Workers, RunStep(v), NEW u \in Workers \ {v}, Held(u)'
    PROVE Reads(u)'
  <1>1. Held(u) /\ ~Held(v) /\ ~Held(v)'
    BY OthersSame DEF FullInv, Held
  <1>2. Landless(v)
    BY <1>1, Stopped DEF FullInv
  <1>3. Coming => Coming'
    BY <1>1, ComingRun DEF Fitting, FullInv
  <1>4. Apart(u)
    BY OthersApart DEF FullInv
  <1>5. (strayed => strayed') /\ (strayed' \/ index' = index)
    BY <1>1, RunLeaves DEF FullInv
  <1> QED BY <1>1, <1>2, <1>3, <1>4, <1>5, ReadsFrame DEF Landless, RunReads

\* A run's own step under its claim keeps what it reads.
LEMMA ReadsOwn ==
    ASSUME RecordSound \/ RecordUnread, RecordInv, NEW v \in Workers, RunStep(v), Held(v)'
    PROVE Reads(v)'
  <1>0. /\ run \in [Workers -> Run] /\ run[v] \in Run /\ index \in [1..Chunks -> Pointer]
        /\ Chunks \in Nat \ {0} /\ next \in Nat /\ next >= 2
    BY BoundsAssumption DEF RecordInv, FullInv, TypeOK, RunOK, PlainOK
  <1>1. Fits(v) /\ Fits(v)' /\ (run[v].fresh => run[v].pc \in Gated)
    BY FitsOwn DEF RecordInv, Fitting, Kept
  <1>2. ~ClaimRun(v) => Held(v) /\ Reads(v) /\ (Coming => Coming')
    <2>1. ~ClaimRun(v) => Held(v)
      BY OwnHold DEF RecordInv, FullInv, Held
    <2>2. ~ClaimRun(v) => (Coming => Coming')
      BY <1>1, ComingRun DEF RecordInv, FullInv
    <2> QED BY <2>1, <2>2 DEF RecordInv, RunReads
  <1>3. ASSUME \/ run'[v].pc \in {"begin", "release"}
               \/ run'[v].pc \in {"fetch", "defer", "error"} /\ status' # "complete"
        PROVE Reads(v)'
    BY <1>3 DEF Reads, FreshContent, KeptContent, IndexedContent, Indexing, Interpreted, Gated, Worked
  <1>4. CASE \E k \in Kinds : Take(v, k)
    BY <1>0, <1>1, <1>4 DEF Take, Idle, Fits
  <1>5. CASE ClaimRun(v)
    BY <1>0, <1>1, <1>3, <1>5 DEF ClaimRun, Goto, Run, Fits
  <1>6. CASE Requeue(v)
    BY <1>0, <1>1, <1>6 DEF Requeue, Goto, Run, Fits
  <1>7. CASE BeginRun(v)
    <2>1. Held(v) /\ run'[v].pc = "fetch"
      BY <1>0, <1>2, <1>7 DEF BeginRun, ClaimRun, Goto, Run
    <2> QED BY <1>3, <1>7, <2>1 DEF BeginRun, IfHeld
  <1>8. CASE Cancelled(v)
    BY <1>0, <1>3, <1>8, Left DEF Cancelled
  <1>9. CASE FetchFails(v)
    <2>1. Held(v) /\ Reads(v) /\ run[v].pc = "fetch" /\ run'[v].pc = "error" /\ status' = status
      BY <1>0, <1>2, <1>9 DEF FetchFails, ClaimRun, Goto, Run, row
    <2> QED BY <1>3, <2>1 DEF Reads
  <1>10. CASE FetchDeferred(v)
    <2>1. Held(v) /\ Reads(v) /\ run[v].pc = "fetch" /\ run'[v].pc = "defer" /\ status' = status
      BY <1>0, <1>2, <1>10 DEF FetchDeferred, ClaimRun, Run, row
    <2> QED BY <1>3, <2>1 DEF Reads
  <1>11. CASE DeferStatus(v)
    <2>1. ~ClaimRun(v)
      <3>1. "status" \in run[v].rest /\ "status" \notin run'[v].rest
        BY <1>0, <1>11 DEF DeferStatus, Run
      <3>2. ClaimRun(v) => run'[v].rest = run[v].rest
        BY <1>0 DEF ClaimRun, Goto, Run
      <3> QED BY <3>1, <3>2
    <2>2. CASE run'[v].pc = run[v].pc
      <3>1. Apart(v)
        BY <1>0, <1>11, <2>2 DEF DeferStatus, Apart, Run
      <3>2. UNCHANGED <<flaws, made, filed, live, versions, due>>
            /\ (status' = status \/ status' # "complete") /\ strayed' = strayed /\ index' = index
        BY <1>11 DEF DeferStatus, IfHeld, content, search
      <3> QED BY <1>2, <2>1, <3>1, <3>2, ReadsFrame
    <2>3. CASE run'[v].pc # run[v].pc
      BY <1>0, <1>3, <1>11, <2>3 DEF DeferStatus, Run
    <2> QED BY <2>2, <2>3
  <1>12. CASE DeferEnqueue(v)
    <2>1. /\ run[v].pc = "defer" /\ run'[v].pc \in {"defer", "release"} /\ status' = status
      BY <1>0, <1>12 DEF DeferEnqueue, Run, row
    <2>2. Reads(v)
      BY <1>2, <2>1 DEF ClaimRun
    <2> QED BY <1>3, <2>1, <2>2 DEF Reads
  <1>13. CASE DeferRefused(v)
    <2>1. run[v].pc = "defer" /\ run'[v].pc = "error" /\ status' = status
      BY <1>0, <1>13 DEF DeferRefused, Run, row
    <2>2. Reads(v)
      BY <1>2, <2>1 DEF ClaimRun
    <2> QED BY <1>3, <2>1, <2>2 DEF Reads
  <1>14. CASE RunFails(v)
    BY <1>0, <1>3, <1>14 DEF RunFails, Run
  <1>15. CASE Interrupted(v)
    BY <1>0, <1>3, <1>15 DEF Interrupted, Interrupts, Idle
  <1>16. CASE Finish(v)
    BY <1>0, <1>3, <1>16, Left DEF Finish
  <1>17. CASE Release(v)
    BY <1>0, <1>1, <1>17 DEF Release, Goto, Run, Fits
  <1>18. CASE Done(v)
    BY <1>0, <1>1, <1>18 DEF Done, Idle, Fits
  <1> DEFINE Row == <<status, flaws, made, filed, live, versions, due, index, strayed>>
  <1>a. ASSUME run[v].pc # "claim" PROVE Held(v) /\ Reads(v) /\ (Coming => Coming')
    BY <1>2, <1>a DEF ClaimRun
  <1>b. made \in versions \cup {NoKey} /\ live < next /\ next \notin versions /\ next # live
    BY <1>0 DEF RecordInv, Minted
  <1>19. CASE Fetch(v)
    <2>1. /\ run[v].pc = "fetch" /\ run'[v].pc = "publish" /\ UNCHANGED Row
          /\ \/ live # NoKey /\ run'[v].key = live /\ run'[v].prev = live
             \/ run'[v].key = next
      BY <1>0, <1>19 DEF Fetch, Run, row, content, search
    <2>2. FreshContent(v)'
      BY <1>0, <1>b, <2>1 DEF FreshContent, NoKey
    <2> QED BY <1>a, <2>1, <2>2 DEF Reads, KeptContent, IndexedContent, Indexing, Interpreted, Gated, Worked
  <1>20. CASE PublishStart(v)
    <2>1. CASE Goto(v, "landing")
      <3>1. /\ run[v].pc = "publish" /\ run'[v].pc = "landing" /\ UNCHANGED Row
            /\ run'[v].key = run[v].key /\ run'[v].prev = run[v].prev
        BY <1>0, <2>1, <1>20 DEF PublishStart, Goto, Run, row, content, search
      <3> QED BY <1>a, <3>1 DEF Reads, FreshContent, KeptContent, IndexedContent, Indexing,
                Interpreted, Gated, Worked
    <2>2. CASE Leave(v)
      BY <1>0, <1>3, <2>2, Left
    <2> QED BY <2>1, <2>2, <1>20 DEF PublishStart
  <1>21. CASE Publish(v)
    <2>1. CASE Leave(v)
      BY <1>0, <1>3, <2>1, Left
    <2>2. CASE ~Leave(v)
      <3>1. /\ run[v].pc = "landing" /\ run'[v].pc = "version" /\ live' = run[v].key
            /\ run'[v].key = run[v].key
            /\ UNCHANGED <<status, flaws, made, filed, versions, due, index, strayed>>
        BY <1>0, <2>2, <1>21 DEF Publish, Run, row, search
      <3>2. Reads(v)
        BY <1>a, <3>1
      <3> QED BY <3>1, <3>2 DEF Reads, FreshContent, KeptContent, IndexedContent, Indexing,
                Interpreted, Gated, Worked, Serves
    <2> QED BY <2>1, <2>2
  <1>22. CASE VersionGate(v)
    <2>1. /\ run[v].pc = "version" /\ run'[v].key = run[v].key /\ run'[v].fresh = run[v].fresh
          /\ \/ run'[v].pc = "insert" /\ live = run[v].key /\ run[v].key \notin versions
             \/ run'[v].pc = "interpret" /\ (run[v].key \in versions \/ live # run[v].key)
          /\ UNCHANGED Row
      BY <1>0, <1>22 DEF VersionGate, Goto, Run, row, content, search
    <2>2. Reads(v) /\ (Coming => Coming') /\ ~run[v].fresh
      BY <1>a, <1>1, <2>1 DEF Gated, Interpreted, Indexing
    <2>3. Serves(run[v].key)'
      BY <2>1, <2>2, ServesKept DEF Reads, KeptContent, Worked
    <2> QED BY <2>1, <2>2, <2>3 DEF Reads, FreshContent, KeptContent, IndexedContent, Indexing,
              Interpreted, Gated, Worked
  <1>23. CASE InsertVersion(v)
    <2>1. /\ run[v].pc = "insert" /\ run'[v].pc = "interpret" /\ run'[v].key = run[v].key
          /\ UNCHANGED <<status, flaws, made, filed, live, due, index, strayed>>
          /\ versions' = versions \cup {run[v].key}
      BY <1>0, <1>a, <1>23 DEF InsertVersion, IfHeld, Run, row, search
    <2>2. Reads(v) /\ (Coming => Coming')
      BY <1>a, <2>1
    <2>3. Serves(run[v].key)'
      BY <2>1, <2>2 DEF Reads, KeptContent, Worked, Serves, Replaced
    <2>4. made # run[v].key
      BY <1>b, <2>1, <2>2 DEF Reads, KeptContent, Worked
    <2> QED BY <2>1, <2>2, <2>3, <2>4 DEF Reads, FreshContent, KeptContent, IndexedContent,
              Indexing, Interpreted, Gated, Worked
  <1>24. CASE Interpret(v)
    <2>1. /\ run[v].pc = "interpret" /\ run'[v].key = run[v].key /\ run'[v].fresh = run[v].fresh
          /\ run'[v].kind = run[v].kind
          /\ \/ run'[v].pc = "index" /\ (run[v].key \notin versions \/ Stored(v))
             \/ run'[v].pc = "reused" /\ run[v].key \in versions /\ Described(v)
             \/ run'[v].pc = "describe" /\ run[v].key \in versions /\ ~Described(v)
          /\ UNCHANGED Row
      BY <1>0, <1>24 DEF Interpret, Goto, Run, row, content, search
    <2>2. Reads(v) /\ (Coming => Coming')
      BY <1>a, <2>1
    <2>3. Serves(run[v].key)'
      BY <2>1, <2>2, ServesKept DEF Reads, KeptContent, Worked, Gated
    <2>4. RecordSound => run[v].kind # "index"
      BY <2>1 DEF RecordInv, Requests, Outstanding
    <2>5. run[v].key # NoKey
      BY <2>1, <2>2 DEF Reads, KeptContent, Worked, Gated
    <2>6. KeptContent(v)'
      BY <2>1, <2>2, <2>3, <2>5 DEF Reads, KeptContent, Indexing, Interpreted, Gated, Worked,
         Described, Stored
    <2>7. IndexedContent(v)'
      BY <1>b, <2>1, <2>4, <2>5 DEF IndexedContent, Indexing, Stored
    <2> QED BY <2>1, <2>2, <2>6, <2>7 DEF Reads, FreshContent
  <1>25. CASE StepFails(v)
    <2>1. /\ run'[v].key = run[v].key /\ run'[v].kind = run[v].kind /\ run'[v].fresh = run[v].fresh
          /\ \/ run[v].pc = "insert" /\ run'[v].pc = "interpret" /\ flaws' = flaws \cup {"version"}
             \/ run[v].pc = "describe" /\ run'[v].pc = "index" /\ flaws' = flaws \cup {"interpret"}
          /\ UNCHANGED <<status, made, filed, live, versions, due, index, strayed>>
      BY <1>0, <1>a, <1>25 DEF StepFails, IfHeld, Goto, Run, content, search
    <2>2. Reads(v) /\ (Coming => Coming')
      BY <1>a, <2>1
    <2>3. Serves(run[v].key)'
      BY <2>1, <2>2, ServesKept DEF Reads, KeptContent, Worked, Gated
    <2>4. run[v].pc = "insert" => ~run[v].fresh
      BY <1>1 DEF Gated, Interpreted, Indexing
    <2>5. RecordSound => run[v].kind = "ordinary"
      <3>1. "step" \in Faults /\ run[v].pc # "idle" /\ run[v].kind \in Kinds
        BY <1>0, <1>25 DEF StepFails, Fault, Run
      <3> QED BY <3>1 DEF RecordInv, Requests, Outstanding, Kinds
    <2>6. KeptContent(v)'
      BY <2>1, <2>2, <2>3, <2>4 DEF Reads, KeptContent, Indexing, Interpreted, Gated, Worked
    <2>7. IndexedContent(v)'
      BY <2>1, <2>2, <2>5 DEF Reads, KeptContent, IndexedContent, Indexing
    <2> QED BY <2>1, <2>2, <2>6, <2>7 DEF Reads, FreshContent
  <1>26. CASE Describe(v)
    <2>1. /\ run[v].pc = "describe" /\ run'[v].pc = "index" /\ run'[v].key = run[v].key
          /\ made' = run[v].key /\ filed' = FALSE
          /\ UNCHANGED <<status, flaws, live, versions, due, index, strayed>>
      BY <1>0, <1>a, <1>26 DEF Describe, IfHeld, Goto, Run, content, search
    <2>2. Reads(v) /\ (Coming => Coming')
      BY <1>a, <2>1
    <2>3. Serves(run[v].key)'
      BY <2>1, <2>2, ServesKept DEF Reads, KeptContent, Worked, Gated
    <2> QED BY <2>1, <2>2, <2>3 DEF Reads, FreshContent, KeptContent, IndexedContent, Indexing,
              Interpreted, Gated, Worked
  <1>i. ASSUME run[v].pc \in Gated, run'[v].pc \in Interpreted, run'[v].key = run[v].key,
               UNCHANGED <<status, made, live, versions>>, flaws \subseteq flaws',
               flaws' # {} \/ live # run[v].key \/ made = run[v].key, IndexedContent(v)'
        PROVE Reads(v)'
    <2>1. Reads(v) /\ (Coming => Coming')
      BY <1>a, <1>i DEF Gated, Interpreted, Indexing
    <2>2. Serves(run[v].key)'
      BY <1>i, <2>1, ServesKept DEF Reads, KeptContent, Worked
    <2> QED BY <1>i, <2>1, <2>2 DEF Reads, FreshContent, KeptContent, Indexing, Interpreted, Gated, Worked
  <1>j. ASSUME run[v].pc \in Interpreted PROVE flaws # {} \/ live # run[v].key \/ made = run[v].key
    BY <1>a, <1>j DEF Reads, KeptContent, Interpreted, Indexing
  <1>27. CASE IndexStart(v)
    <2>1. /\ run[v].pc = "index" /\ run'[v].pc = "check" /\ run'[v].key = run[v].key
          /\ run'[v].n = 0 /\ UNCHANGED Row
      BY <1>0, <1>27 DEF IndexStart, Run, row, content, search
    <2>2. IndexedContent(v)'
      BY <1>a, <2>1 DEF Reads, IndexedContent, Indexing
    <2> QED BY <1>i, <1>j, <2>1, <2>2 DEF Gated, Interpreted, Indexing
  <1>28. CASE Reuse(v)
    <2>1. /\ run[v].pc = "reused" /\ run'[v].pc = "finish" /\ run'[v].key = run[v].key /\ UNCHANGED Row
      BY <1>0, <1>28 DEF Reuse, Goto, Run, row, content, search
    <2>2. Held(v) /\ run[v].kind = "ordinary" /\ made = run[v].key /\ filed /\ run[v].key # NoKey
      BY <1>a, <2>1 DEF Reads, KeptContent, Worked, Gated
    <2>3. RecordSound
      BY <2>1, <2>2 DEF RecordInv, Requests, Outstanding
    <2>4. rv.pc \notin {"wipe", "unfile"}
      BY <2>2, WorkerNames DEF RecordInv, Reverting, RevertAtWork, Held
    <2>5. live = run[v].key => strayed \/ Current
      BY <1>0, <2>2, <2>3, <2>4 DEF RecordInv, Describes, Filled, Current
    <2>6. IndexedContent(v)'
      BY <2>1, <2>5 DEF IndexedContent, Indexing, Current
    <2> QED BY <1>i, <2>1, <2>2, <2>6 DEF Gated, Interpreted, Indexing
  <1>29. CASE Check(v)
    <2>1. /\ run[v].pc = "check" /\ run'[v].pc = "send" /\ run'[v].key = run[v].key
          /\ run'[v].n = run[v].n /\ UNCHANGED Row
      BY <1>0, <1>29 DEF Check, Goto, Run, row, content, search
    <2>2. IndexedContent(v)'
      BY <1>a, <2>1 DEF Reads, IndexedContent, Indexing
    <2> QED BY <1>i, <1>j, <2>1, <2>2 DEF Gated, Interpreted, Indexing
  <1>30. CASE Send(v)
    <2>0. run[v].pc = "send" /\ Held(v) /\ Reads(v) /\ run[v].n \in 0..Chunks
      BY <1>0, <1>a, <1>30 DEF Send, Run
    <2>1. /\ run'[v].key = run[v].key /\ UNCHANGED <<status, flaws, made, filed, live, versions, due, strayed>>
          /\ run'[v].pc = IF run[v].n = Chunks THEN "record" ELSE "check"
          /\ run'[v].n = IF run[v].n = Chunks THEN 0 ELSE run[v].n + 1
          /\ index' = IF run[v].n = 0 THEN [i \in DOMAIN index |-> NoKey]
                                      ELSE [index EXCEPT ![run[v].n] = run[v].key]
      BY <1>0, <2>0, <1>30 DEF Send, Run, row, content
    <2>2. strayed \/ \A i \in 1..Chunks : i < run[v].n => index[i] = run[v].key
      BY <2>0 DEF Reads, IndexedContent
    <2>3. strayed \/ \A i \in 1..Chunks : i <= run[v].n => index'[i] = run[v].key
      BY <1>0, <2>0, <2>1, <2>2
    <2>4. IndexedContent(v)'
      <3>1. run[v].n = Chunks => strayed' \/ Filled(run[v].key)'
        BY <1>0, <2>1, <2>3 DEF Filled
      <3>2. run[v].n # Chunks => strayed' \/ \A i \in 1..Chunks : i < run'[v].n => index'[i] = run[v].key
        BY <1>0, <2>0, <2>1, <2>3
      <3> QED BY <2>0, <2>1, <3>1, <3>2 DEF Reads, IndexedContent, Indexing, Filled
    <2> QED BY <1>i, <1>j, <2>0, <2>1, <2>4 DEF Gated, Interpreted, Indexing
  <1>31. CASE SendFails(v)
    <2>1. /\ run[v].pc = "send" /\ run'[v].pc = "raise" /\ run'[v].key = run[v].key
          /\ flaws' = flaws \cup {"index"} /\ filed' = FALSE
          /\ UNCHANGED <<status, made, live, versions>>
      BY <1>0, <1>a, <1>31 DEF SendFails, IfHeld, Goto, Run, content
    <2>2. IndexedContent(v)'
      BY <2>1 DEF IndexedContent, Indexing
    <2> QED BY <1>i, <2>1, <2>2 DEF Gated, Interpreted, Indexing
  <1>32. CASE RaiseMark(v)
    <2>1. run[v].pc = "raise" /\ Held(v) /\ Reads(v)
      BY <1>a, <1>32 DEF RaiseMark
    <2>2. run'[v].pc = "finish" /\ run'[v].key = run[v].key
      <3>1. run' = [Raised EXCEPT ![v].pc = "finish"]
        BY <2>1, <1>32 DEF RaiseMark
      <3> QED BY <1>0, <3>1 DEF Raised, Run
    <2>3. UNCHANGED <<status, flaws, made, live, versions>>
      BY <1>32 DEF RaiseMark, row, content
    <2>4. flaws # {}
      BY <2>1 DEF Reads, IndexedContent
    <2>5. IndexedContent(v)'
      BY <2>2, <2>3, <2>4 DEF IndexedContent, Indexing
    <2> QED BY <1>i, <2>1, <2>2, <2>3, <2>4, <2>5 DEF Gated, Interpreted, Indexing
  <1>33. CASE RecordIndexed(v)
    <2>1. /\ run[v].pc = "record" /\ run'[v].pc = "lower" /\ run'[v].key = run[v].key /\ filed' = TRUE
          /\ UNCHANGED <<status, flaws, made, live, versions, due, index, strayed>>
      BY <1>0, <1>a, <1>33 DEF RecordIndexed, IfHeld, Goto, Run, content, search
    <2>2. IndexedContent(v)'
      BY <1>a, <2>1 DEF Reads, IndexedContent, Indexing, Filled
    <2> QED BY <1>i, <1>j, <2>1, <2>2 DEF Gated, Interpreted, Indexing
  <1>34. CASE LowerMark(v)
    <2>1. /\ run[v].pc = "lower" /\ run'[v].pc = "finish" /\ run'[v].key = run[v].key
          /\ UNCHANGED <<status, flaws, made, filed, live, versions, index, strayed>>
      BY <1>0, <1>34 DEF LowerMark, Goto, Run, row, content
    <2>2. filed /\ (strayed \/ Filled(run[v].key)) /\ run[v].key # NoKey
      BY <1>a, <2>1 DEF Reads, KeptContent, IndexedContent, Worked, Gated, Interpreted
    <2>3. flaws # {} \/ live # run[v].key \/ made = run[v].key
      BY <1>j, <2>1 DEF Interpreted
    <2>4. IndexedContent(v)'
      BY <1>0, <2>1, <2>2, <2>3 DEF IndexedContent, Indexing, Current, Filled
    <2> QED BY <1>i, <2>1, <2>3, <2>4 DEF Gated, Interpreted, Indexing
  <1> QED BY <1>4, <1>5, <1>6, <1>7, <1>8, <1>9, <1>10, <1>11, <1>12, <1>13, <1>14, <1>15,
       <1>16, <1>17, <1>18, <1>19, <1>20, <1>21, <1>22, <1>23, <1>24, <1>25, <1>26, <1>27, <1>28,
       <1>29, <1>30, <1>31, <1>32, <1>33, <1>34 DEF RunStep

\* What everyone else does leaves what a run under its claim reads; an upload
\* replaces it, and says so.
LEMMA ReadsAside ==
    ASSUME RecordInv, [Next]_vars, ~ \E w \in Workers : RunStep(w) \/ Crash(w),
           NEW u \in Workers, Held(u)'
    PROVE Reads(u)'
  <1>0. /\ next \in Nat /\ next >= 2 /\ u \notin {"none", "dead", "revert", "job"}
        /\ live \in Pointer /\ run[u].key < next /\ versions \subseteq 1..(next - 1)
    BY BoundsAssumption, WorkerNames DEF RecordInv, FullInv, TypeOK, PlainOK, Minted
  <1>1. Held(u) /\ Reads(u)
    BY SitsStill DEF RecordInv, FullInv, RunReads, Still, Held
  <1>2. Coming => Coming'
    BY AsideOther DEF RecordInv, Aside
  <1>3. ~RevertAtWork /\ fence # "revert"
    BY <1>0, <1>1 DEF RecordInv, FullInv, FenceKept, Reverting, Held
  <1>r. ASSUME run' = run \/ run' = Raised PROVE Apart(u)
    BY <1>r, RaisedApart DEF RecordInv, FullInv
  <1>f. ASSUME run' = run \/ run' = Raised,
               UNCHANGED <<flaws, made, filed, live, versions, due, index, strayed>>,
               status' = status \/ status' # "complete"
        PROVE Reads(u)'
    BY <1>1, <1>2, <1>r, <1>f, ReadsFrame
  <1>4. ASSUME NEW k \in Asked, Ask(k) PROVE Reads(u)'
    BY <1>f, <1>4 DEF Ask, Enqueue, content, search
  <1>5. ASSUME NEW to \in versions \cup {NoKey}, RevertAsk(to) PROVE Reads(u)'
    BY <1>f, <1>5 DEF RevertAsk, row, content, search
  <1>6. CASE CancelRun
    BY <1>f, <1>6 DEF CancelRun, StopRun, content, search
  <1>7. CASE UploadPrepare
    BY <1>f, <1>7 DEF UploadPrepare, row, content, search
  <1>8. CASE UploadStops
    BY <1>f, <1>8 DEF UploadStops, StopRun, content, search
  <1>9. CASE UploadPromote
    <2>1. Apart(u) /\ UNCHANGED <<status, flaws, made, filed, versions, due, index, strayed>>
          /\ live' = next /\ run'[u].key = run[u].key /\ next # run[u].key /\ Coming'
      BY <1>0, <1>r, <1>9 DEF UploadPromote, row, search, Coming
    <2>2. \A k : Serves(k)'
      BY <1>0, <2>1 DEF Serves, Replaced, NoKey
    <2>3. FreshContent(u)' /\ KeptContent(u)'
      BY <1>1, <2>1, <2>2 DEF Reads, FreshContent, KeptContent, Apart
    <2>4. IndexedContent(u)'
      BY <1>1, <2>1 DEF Reads, IndexedContent, Apart, Filled
    <2> QED BY <1>1, <2>1, <2>3, <2>4 DEF Reads, Apart
  <1>10. CASE UploadEnqueue
    BY <1>f, <1>10 DEF UploadEnqueue, Enqueue, content, search
  <1>11. CASE UploadAbandoned
    BY <1>f, <1>11 DEF UploadAbandoned, row, content, search
  <1>12. CASE JobClaim
    BY <1>f, <1>12 DEF JobClaim, row, content, search
  <1>13. CASE JobRelease
    BY <1>f, <1>13 DEF JobRelease, row, content, search
  <1>14. CASE JobDies
    BY <1>f, <1>14 DEF JobDies, row, content, search
  <1>15. CASE Takeover
    BY <1>f, <1>15 DEF Takeover, content, search
  <1>16. CASE RevertRead
    BY <1>f, <1>16 DEF RevertRead, row, content, search
  <1>17. CASE RevertPublishStart
    BY <1>f, <1>17 DEF RevertPublishStart, row, content, search
  <1>18. CASE RevertPublish
    BY <1>3, <1>18 DEF RevertPublish, RevertAtWork
  <1>19. CASE RevertWipe
    BY <1>3, <1>19 DEF RevertWipe, RevertAtWork
  <1>20. CASE RevertUnfile
    BY <1>3, <1>20 DEF RevertUnfile, RevertAtWork
  <1>21. CASE RevertRelease
    BY <1>f, <1>21 DEF RevertRelease, row, content, search
  <1>22. CASE RevertQueue
    BY <1>f, <1>22 DEF RevertQueue, Enqueue, content, search
  <1>23. CASE Sweep
    <2>1. CASE live # NoKey
      BY <1>f, <2>1, <1>23 DEF Sweep, Enqueue, content
    <2>2. CASE live = NoKey
      BY <1>0, <2>2, <1>23 DEF Sweep, Free, Held
    <2> QED BY <2>1, <2>2
  <1>24. CASE GoStale
    BY <1>f, <1>24 DEF GoStale, row, content, search
  <1>25. CASE UNCHANGED vars
    BY <1>f, <1>25 DEF vars, row, content, search
  <1> QED BY <1>4, <1>5, <1>6, <1>7, <1>8, <1>9, <1>10, <1>11, <1>12, <1>13, <1>14, <1>15,
       <1>16, <1>17, <1>18, <1>19, <1>20, <1>21, <1>22, <1>23, <1>24, <1>25 DEF Next, UploadStep,
       RevertStep

\* A run's death leaves what the holder reads.
LEMMA ReadsCrash ==
    ASSUME RecordInv, NEW v \in Workers, Crash(v), NEW u \in Workers, Held(u)'
    PROVE Reads(u)'
  <1>0. run \in [Workers -> Run] /\ waiting \in [Kinds -> Nat] /\ run[v].kind \in Kinds
        /\ \A w \in Workers : w # "dead"
    BY WorkerNames DEF RecordInv, FullInv, TypeOK, RunOK, PlainOK, Run
  <1>1. Held(u) /\ u # v
    BY <1>0 DEF Crash, Orphan, Held
  <1>2. Coming'
    BY <1>0 DEF Crash, GivenUp, Put, Coming
  <1>3. Apart(u)
    BY <1>0, <1>1 DEF Crash, Apart
  <1>4. UNCHANGED <<status, flaws, made, filed, live, versions, due, index, strayed>>
    BY DEF Crash, row, content, search
  <1> QED BY <1>1, <1>2, <1>3, <1>4, ReadsFrame DEF RecordInv, RunReads

\* Every step keeps what runs under their claim read.
LEMMA ReadsStep ==
    ASSUME RecordSound \/ RecordUnread, RecordInv, [Next]_vars PROVE RunReads'
  <1> SUFFICES ASSUME NEW u \in Workers, Held(u)' PROVE Reads(u)'
    BY DEF RunReads
  <1>1. ASSUME NEW v \in Workers, RunStep(v) PROVE Reads(u)'
    BY <1>1, ReadsOwn, ReadsOthers DEF RecordInv
  <1>2. ASSUME NEW v \in Workers, Crash(v) PROVE Reads(u)'
    BY <1>2, ReadsCrash
  <1> QED BY <1>1, <1>2, ReadsAside

\* A run keeps its kind, and puts back no job but its own.
LEMMA KindKept == ASSUME TypeOK, NEW v \in Workers, RunStep(v)
                  PROVE \/ \E k \in Kinds : Take(v, k)
                        \/ /\ \/ run'[v].pc = "idle"
                              \/ run[v].pc # "idle" /\ run'[v].kind = run[v].kind
                           /\ waiting' = waiting \/ (Put(run[v].kind) /\ run[v].pc # "idle")
  <1>0. run \in [Workers -> Run]
    BY DEF TypeOK, RunOK
  <1>1. CASE ClaimRun(v) \/ Requeue(v) \/ BeginRun(v) \/ Fetch(v) \/ FetchFails(v)
    BY <1>0, <1>1 DEF ClaimRun, Requeue, BeginRun, Fetch, FetchFails, Goto, Run
  <1>2. CASE Cancelled(v) \/ Finish(v)
    BY <1>0, <1>2, Left DEF Cancelled, Finish
  <1>3. CASE FetchDeferred(v) \/ DeferEnqueue(v) \/ DeferRefused(v) \/ RunFails(v)
    BY <1>0, <1>3 DEF FetchDeferred, DeferEnqueue, DeferRefused, RunFails, Run
  <1>4. CASE PublishStart(v)
    BY <1>0, <1>4, Left DEF PublishStart, Goto, Run
  <1>5. CASE Publish(v)
    <2>1. CASE Leave(v)
      BY <1>0, <1>5, <2>1, Left DEF Publish
    <2>2. CASE ~Leave(v)
      BY <1>0, <1>5, <2>2 DEF Publish, Run
    <2> QED BY <2>1, <2>2
  <1>6. CASE VersionGate(v) \/ InsertVersion(v) \/ Interpret(v) \/ StepFails(v) \/ Describe(v)
    BY <1>0, <1>6 DEF VersionGate, InsertVersion, Interpret, StepFails, Describe, Goto, Run
  <1>7. CASE Interrupted(v)
    BY <1>0, <1>7 DEF Interrupted, Interrupts, Idle
  <1>8. CASE IndexStart(v) \/ Reuse(v) \/ Check(v) \/ Send(v) \/ SendFails(v)
    BY <1>0, <1>8 DEF IndexStart, Reuse, Check, Send, SendFails, Goto, Run
  <1>9. CASE RaiseMark(v)
    <2>1. run' = [Raised EXCEPT ![v].pc = "finish"] \/ run' = [run EXCEPT ![v].pc = "finish"]
      BY <1>9 DEF RaiseMark
    <2> QED BY <1>0, <1>9, <2>1 DEF RaiseMark, Raised, Run
  <1>10. CASE RecordIndexed(v) \/ LowerMark(v) \/ Release(v)
    BY <1>0, <1>10 DEF RecordIndexed, LowerMark, Release, Goto, Run
  <1>11. CASE Done(v)
    BY <1>0, <1>11 DEF Done, Idle
  <1>12. CASE DeferStatus(v)
    BY <1>0, <1>12 DEF DeferStatus, Run
  <1> QED BY <1>1, <1>2, <1>3, <1>4, <1>5, <1>6, <1>7, <1>8, <1>9, <1>10, <1>11, <1>12 DEF RunStep

\* So no step of a run makes another kind of run outstanding.
LEMMA OutstandingRun == ASSUME TypeOK, NEW v \in Workers, RunStep(v), NEW k \in Kinds, ~Outstanding(k)
                        PROVE ~Outstanding(k)'
  <1>0. run \in [Workers -> Run] /\ waiting \in [Kinds -> Nat] /\ run[v].kind \in Kinds
    BY DEF TypeOK, RunOK, PlainOK, Run
  <1>1. \A u \in Workers \ {v} : run'[u].pc = run[u].pc /\ run'[u].kind = run[u].kind
    BY OthersApart DEF Apart
  <1>2. CASE \E j \in Kinds : Take(v, j)
    <2>1. PICK j \in Kinds : Take(v, j)
      BY <1>2
    <2>2. j # k /\ run'[v].kind = j /\ waiting'[k] = waiting[k]
      BY <1>0, <2>1 DEF Take, Idle, Outstanding
    <2> QED BY <1>1, <2>2 DEF Outstanding
  <1>3. CASE ~ \E j \in Kinds : Take(v, j)
    <2>1. /\ run'[v].pc = "idle" \/ (run[v].pc # "idle" /\ run'[v].kind = run[v].kind)
          /\ waiting' = waiting \/ (Put(run[v].kind) /\ run[v].pc # "idle")
      BY <1>3, KindKept
    <2>2. waiting'[k] = waiting[k]
      BY <1>0, <2>1 DEF Put, Outstanding
    <2> QED BY <1>1, <2>1, <2>2 DEF Outstanding
  <1> QED BY <1>2, <1>3

\* A run fails to write to the index, or raises the mark for it, only if the
\* search backend fails.
LEMMA RaisesOnly == ASSUME TypeOK, NEW v \in Workers, RunStep(v), run[v].pc # "raise", "search" \notin Faults
                    PROVE run'[v].pc # "raise" /\ (due' => due)
  <1>0. run \in [Workers -> Run]
    BY DEF TypeOK, RunOK
  <1>1. CASE \E k \in Kinds : Take(v, k)
    BY <1>0, <1>1 DEF Take, Idle, search
  <1>2. CASE ClaimRun(v) \/ Requeue(v) \/ BeginRun(v) \/ Fetch(v) \/ FetchFails(v)
    BY <1>0, <1>2 DEF ClaimRun, Requeue, BeginRun, Fetch, FetchFails, Goto, search, Run
  <1>3. CASE Cancelled(v) \/ Finish(v)
    BY <1>0, <1>3, Left DEF Cancelled, Finish, search
  <1>4. CASE FetchDeferred(v) \/ DeferEnqueue(v) \/ DeferRefused(v) \/ RunFails(v)
    BY <1>0, <1>4 DEF FetchDeferred, DeferEnqueue, DeferRefused, RunFails, search, Run
  <1>11. CASE DeferStatus(v)
    BY <1>0, <1>11 DEF DeferStatus, search, Run
  <1>5. CASE PublishStart(v) \/ Publish(v)
    <2>1. CASE Leave(v)
      BY <1>0, <1>5, <2>1, Left DEF PublishStart, Publish, search
    <2>2. CASE ~Leave(v)
      BY <1>0, <1>5, <2>2 DEF PublishStart, Publish, Goto, search, Run
    <2> QED BY <2>1, <2>2
  <1>6. CASE VersionGate(v) \/ InsertVersion(v) \/ Describe(v)
    BY <1>0, <1>6 DEF VersionGate, InsertVersion, Describe, content, Goto, search, Run
  <1>12. CASE Interpret(v) \/ StepFails(v)
    BY <1>0, <1>12 DEF Interpret, StepFails, Goto, search, Run
  <1>7. CASE Interrupted(v)
    BY <1>0, <1>7 DEF Interrupted, Interrupts, Idle, search
  <1>13. CASE Done(v)
    BY <1>0, <1>13 DEF Done, Idle, search
  <1>8. CASE IndexStart(v) \/ Reuse(v) \/ Check(v) \/ Send(v)
    BY <1>0, <1>8 DEF IndexStart, Reuse, Check, Send, Goto, search, Run
  <1>9. CASE SendFails(v) \/ RaiseMark(v)
    BY <1>9 DEF SendFails, RaiseMark, Fault
  <1>10. CASE RecordIndexed(v) \/ Release(v)
    BY <1>0, <1>10 DEF RecordIndexed, Release, Goto, search, Run
  <1>14. CASE LowerMark(v)
    <2>1. run'[v].pc = "finish"
      BY <1>0, <1>14 DEF LowerMark, Goto, Run
    <2> QED BY <1>14, <2>1 DEF LowerMark
  <1> QED BY <1>1, <1>2, <1>3, <1>4, <1>5, <1>6, <1>7, <1>8, <1>9, <1>10, <1>11, <1>12, <1>13, <1>14 DEF RunStep

\* A kind nobody adds a job of is not outstanding if it was not.
LEMMA OutstandingAside ==
    ASSUME TypeOK, NEW k \in Kinds, ~Outstanding(k),
           \A u \in Workers : run'[u].pc = run[u].pc /\ run'[u].kind = run[u].kind,
           waiting' = waiting \/ \E j \in Kinds \ {k} : Put(j)
    PROVE ~Outstanding(k)'
  <1>1. waiting'[k] = waiting[k]
    BY DEF TypeOK, PlainOK, Put
  <1> QED BY <1>1 DEF Outstanding

\* A run's step brings nobody to work whom the instance has not.
LEMMA RequestsRun == ASSUME RecordInv, NEW v \in Workers, RunStep(v) PROVE Requests'
  <1>1. TypeOK /\ Requests
    BY DEF RecordInv, FullInv
  <1>2. up' = up /\ rv'.pc = rv.pc
    BY <1>1, RunLeaves
  <1>3. \A k \in Kinds : ~Outstanding(k) => ~Outstanding(k)'
    BY <1>1, OutstandingRun
  <1>4. ASSUME RecordSound PROVE ~due' /\ \A w \in Workers : run'[w].pc # "raise"
    <2>1. "search" \notin Faults /\ ~due /\ \A w \in Workers : run[w].pc # "raise"
      BY <1>1, <1>4 DEF Requests, RecordSound
    <2>2. ~due' /\ run'[v].pc # "raise"
      BY <1>1, <2>1, RaisesOnly
    <2> QED BY <1>1, <2>1, <2>2, OthersApart DEF Apart
  <1> QED BY <1>1, <1>2, <1>3, <1>4 DEF Requests, Kinds

\* Nor does a run's death.
LEMMA RequestsCrash == ASSUME RecordInv, NEW v \in Workers, Crash(v) PROVE Requests'
  <1>0. run \in [Workers -> Run] /\ waiting \in [Kinds -> Nat] /\ run[v].kind \in Kinds /\ Requests
    BY DEF RecordInv, FullInv, TypeOK, RunOK, PlainOK, Run
  <1>1. /\ run'[v].pc = "idle" /\ \A u \in Workers \ {v} : run'[u] = run[u]
        /\ Outstanding(run[v].kind)
    BY <1>0 DEF Crash, Idle, Outstanding
  <1>2. ASSUME NEW k \in Kinds, ~Outstanding(k) PROVE ~Outstanding(k)'
    <2>1. waiting'[k] = waiting[k]
      BY <1>0, <1>1, <1>2 DEF Crash, Put
    <2> QED BY <1>1, <1>2, <2>1 DEF Outstanding
  <1>3. up' = up /\ rv' = rv /\ due' = due
    BY DEF Crash, search
  <1> QED BY <1>0, <1>1, <1>2, <1>3 DEF Requests, Kinds

\* Nor does anyone else.
LEMMA RequestsAside ==
    ASSUME RecordInv, [Next]_vars, ~ \E w \in Workers : RunStep(w) \/ Crash(w)
    PROVE Requests'
  <1>0. TypeOK /\ Requests /\ run \in [Workers -> Run]
    BY DEF RecordInv, FullInv, TypeOK, RunOK
  <1>r. ASSUME run' = run \/ run' = Raised
        PROVE \A u \in Workers : run'[u].pc = run[u].pc /\ run'[u].kind = run[u].kind
    BY <1>0, <1>r, RaisedApart DEF Apart
  <1>f. ASSUME run' = run \/ run' = Raised, due' => due \/ ~RecordSound,
               "upload" \notin Others => up' = "idle", "revert" \notin Others => rv'.pc = "idle",
               waiting' = waiting \/ \E j \in Kinds :
                   /\ Put(j) /\ (j = "ordinary" => ~RecordUnread) /\ (j = "index" => ~RecordSound)
                   /\ (j = "rebuild" => ~(RecordSound /\ "step" \in Faults))
        PROVE Requests'
    <2>1. ASSUME RecordUnread PROVE ~Outstanding("ordinary")'
      BY <1>0, <1>r, <1>f, <2>1, OutstandingAside DEF Requests, Kinds
    <2>2. ASSUME RecordSound PROVE ~Outstanding("index")'
      BY <1>0, <1>r, <1>f, <2>2, OutstandingAside DEF Requests, Kinds
    <2>3. ASSUME RecordSound, "step" \in Faults PROVE ~Outstanding("rebuild")'
      BY <1>0, <1>r, <1>f, <2>3, OutstandingAside DEF Requests, Kinds
    <2> QED BY <1>0, <1>r, <1>f, <2>1, <2>2, <2>3 DEF Requests
  <1>1. ASSUME NEW k \in Asked, Ask(k) PROVE Requests'
    <2>1. k \in Kinds /\ (k = "ordinary" => ~RecordUnread) /\ (k = "index" => ~RecordSound)
          /\ (k = "rebuild" => ~(RecordSound /\ "step" \in Faults))
      BY AskedAssumption, <1>1 DEF RecordSound, RecordUnread
    <2> QED BY <1>0, <1>f, <1>1, <2>1 DEF Ask, Enqueue, search, Requests
  <1>2. ASSUME NEW to \in versions \cup {NoKey}, RevertAsk(to) PROVE Requests'
    BY <1>0, <1>f, <1>2 DEF RevertAsk, search, Requests
  <1>3. CASE CancelRun \/ GoStale \/ JobClaim \/ JobRelease \/ JobDies
    BY <1>0, <1>f, <1>3 DEF CancelRun, GoStale, JobClaim, JobRelease, JobDies, search, Requests
  <1>4. CASE UploadPrepare \/ UploadStops \/ UploadAbandoned
    BY <1>0, <1>f, <1>4 DEF UploadPrepare, UploadStops, UploadAbandoned, search, Requests
  <1>5. CASE UploadPromote
    BY <1>0, <1>f, <1>5 DEF UploadPromote, search, Requests, TypeOK, RvOK, Revert
  <1>6. CASE UploadEnqueue
    <2>1. ~RecordUnread
      BY <1>0, <1>6 DEF UploadEnqueue, Requests, RecordUnread
    <2> QED BY <1>0, <1>f, <1>6, <2>1 DEF UploadEnqueue, Enqueue, search, Requests, Kinds
  <1>7. CASE Takeover \/ RevertRead \/ RevertPublishStart \/ RevertUnfile \/ RevertRelease
    <2>1. rv.pc # "idle"
      BY <1>7 DEF Takeover, RevertRead, RevertPublishStart, RevertUnfile, RevertRelease
    <2> QED BY <1>0, <1>f, <1>7, <2>1 DEF Takeover, RevertRead, RevertPublishStart, RevertUnfile,
         RevertRelease, search, Requests
  <1>8. CASE RevertPublish
    BY <1>0, <1>f, <1>8 DEF RevertPublish, search, Requests
  <1>9. CASE RevertWipe
    BY <1>0, <1>f, <1>9 DEF RevertWipe, Fault, search, RecordSound, Requests
  <1>10. CASE RevertQueue
    <2>1. ~(RecordSound /\ "step" \in Faults)
      BY <1>0, <1>10 DEF RevertQueue, Requests, RecordSound
    <2> QED BY <1>0, <1>f, <1>10, <2>1 DEF RevertQueue, Enqueue, search, Requests, Kinds
  <1>11. CASE Sweep
    <2>1. ~RecordSound
      BY <1>0, <1>11 DEF Sweep, Requests
    <2> QED BY <1>0, <1>f, <1>11, <2>1 DEF Sweep, Enqueue, Requests, Kinds
  <1>12. CASE UNCHANGED vars
    BY <1>0, <1>f, <1>12 DEF vars, search, Requests
  <1> QED BY <1>1, <1>2, <1>3, <1>4, <1>5, <1>6, <1>7, <1>8, <1>9, <1>10, <1>11, <1>12 DEF Next,
       UploadStep, RevertStep

\* Together.
LEMMA RequestsStep == ASSUME RecordInv, [Next]_vars PROVE Requests'
  BY RequestsRun, RequestsCrash, RequestsAside

\* A run that issued a version goes on to what comes after it.
LEMMA KeptOwn == ASSUME TypeOK, NEW v \in Workers, RunStep(v), run[v].fresh => run[v].pc \in Gated
                 PROVE run'[v].fresh => run'[v].pc \in Gated
  <1>0. run \in [Workers -> Run] /\ run[v] \in Run
    BY DEF TypeOK, RunOK
  <1>l. Leave(v) => ~run'[v].fresh
    BY <1>0 DEF Leave, Idle
  <1> USE DEF Gated, Interpreted, Indexing
  <1>1. CASE \E k \in Kinds : Take(v, k)
    BY <1>0, <1>1 DEF Take, Idle
  <1>2. CASE ClaimRun(v) \/ Requeue(v) \/ BeginRun(v) \/ Fetch(v) \/ FetchFails(v)
    BY <1>0, <1>2 DEF ClaimRun, Requeue, BeginRun, Fetch, FetchFails, Goto, Run
  <1>3. CASE Cancelled(v) \/ Finish(v)
    BY <1>l, <1>3 DEF Cancelled, Finish
  <1>4. CASE FetchDeferred(v) \/ DeferEnqueue(v) \/ DeferRefused(v) \/ RunFails(v)
    BY <1>0, <1>4 DEF FetchDeferred, DeferEnqueue, DeferRefused, RunFails, Run
  <1>5. CASE DeferStatus(v)
    BY <1>0, <1>5 DEF DeferStatus, Run
  <1>6. CASE PublishStart(v) \/ Publish(v)
    <2>1. CASE Leave(v)
      BY <1>l, <2>1
    <2>2. CASE ~Leave(v)
      BY <1>0, <1>6, <2>2 DEF PublishStart, Publish, Goto, Run
    <2> QED BY <2>1, <2>2
  <1>7. CASE VersionGate(v) \/ InsertVersion(v) \/ Describe(v)
    BY <1>0, <1>7 DEF VersionGate, InsertVersion, Describe, Goto, Run
  <1>8. CASE Interpret(v) \/ StepFails(v)
    BY <1>0, <1>8 DEF Interpret, StepFails, Goto, Run
  <1>9. CASE Interrupted(v)
    BY <1>0, <1>9 DEF Interrupted, Interrupts, Idle
  <1>10. CASE IndexStart(v) \/ Reuse(v) \/ Check(v) \/ Send(v) \/ SendFails(v)
    BY <1>0, <1>10 DEF IndexStart, Reuse, Check, Send, SendFails, Goto, Run
  <1>11. CASE RaiseMark(v)
    <2>1. PICK r \in [Workers -> Run] : run' = [r EXCEPT ![v].pc = "finish"]
      BY <1>0, <1>11, RaisedOK DEF RaiseMark, TypeOK
    <2>2. run'[v].pc = "finish"
      BY <2>1 DEF Run
    <2> QED BY <2>2
  <1>12. CASE RecordIndexed(v) \/ LowerMark(v) \/ Release(v)
    BY <1>0, <1>12 DEF RecordIndexed, LowerMark, Release, Goto, Run
  <1>13. CASE Done(v)
    BY <1>0, <1>13 DEF Done, Idle
  <1> QED BY <1>1, <1>2, <1>3, <1>4, <1>5, <1>6, <1>7, <1>8, <1>9, <1>10, <1>11, <1>12, <1>13 DEF RunStep

\* What is no run's step leaves the runs as they are, but for the mark they read.
LEMMA ApartAside == ASSUME TypeOK, [Next]_vars, ~ \E w \in Workers : RunStep(w) \/ Crash(w)
                    PROVE run' = run \/ run' = Raised
  <1>1. ASSUME NEW k \in Asked, Ask(k) PROVE run' = run
    BY <1>1 DEF Ask, Enqueue
  <1>2. ASSUME NEW to \in versions \cup {NoKey}, RevertAsk(to) PROVE run' = run
    BY <1>2 DEF RevertAsk
  <1>3. CASE CancelRun \/ GoStale \/ JobClaim \/ JobRelease \/ JobDies \/ UploadPrepare
    BY <1>3 DEF CancelRun, GoStale, JobClaim, JobRelease, JobDies, UploadPrepare
  <1>4. CASE UploadStops \/ UploadAbandoned \/ UploadPromote \/ UploadEnqueue
    BY <1>4 DEF UploadStops, UploadAbandoned, UploadPromote, UploadEnqueue
  <1>5. CASE Takeover \/ RevertRead \/ RevertPublishStart \/ RevertPublish
    BY <1>5 DEF Takeover, RevertRead, RevertPublishStart, RevertPublish
  <1>6. CASE RevertWipe \/ RevertUnfile \/ RevertRelease \/ RevertQueue
    BY <1>6 DEF RevertWipe, RevertUnfile, RevertRelease, RevertQueue
  <1>7. CASE Sweep
    BY <1>7 DEF Sweep
  <1>8. CASE UNCHANGED vars
    BY <1>8 DEF vars
  <1> QED BY <1>1, <1>2, <1>3, <1>4, <1>5, <1>6, <1>7, <1>8 DEF Next, UploadStep, RevertStep

\* Every step.
LEMMA KeptStep == ASSUME RecordInv, [Next]_vars PROVE Kept'
  <1>0. TypeOK /\ Kept /\ run \in [Workers -> Run]
    BY DEF RecordInv, FullInv, TypeOK, RunOK
  <1> SUFFICES ASSUME NEW u \in Workers, run'[u].fresh PROVE run'[u].pc \in Gated
    BY DEF Kept, Gated, Interpreted, Indexing
  <1>1. ASSUME NEW v \in Workers, RunStep(v) PROVE run'[u].pc \in Gated
    BY <1>0, <1>1, KeptOwn, OthersApart DEF Kept, Apart
  <1>2. ASSUME NEW v \in Workers, Crash(v) PROVE run'[u].pc \in Gated
    BY <1>0, <1>2 DEF Crash, Idle, Kept
  <1>3. ASSUME Apart(u) PROVE run'[u].pc \in Gated
    BY <1>0, <1>3 DEF Kept, Apart
  <1> QED BY <1>0, <1>1, <1>2, <1>3, ApartAside, RaisedApart

\* A key is a number.
LEMMA PointerInt == \A p \in Pointer : p \in Nat
  BY BoundsAssumption DEF Pointer, Key, NoKey

\* What was minted stays so.
LEMMA StillMinted ==
    ASSUME TypeOK, Minted, next' \in {next, next + 1}
    PROVE /\ live < next' /\ versions \subseteq 1..(next' - 1) /\ rv.key < next'
          /\ \A u \in Workers : run[u].key < next'
          /\ \A k \in Pointer \ {NoKey} : k < next => k \in 1..(next' - 1)
          /\ NoKey < next' /\ (next' = next + 1 => next < next')
  <1>1. next \in Nat /\ next >= 2 /\ live \in Nat /\ rv.key \in Nat
        /\ (\A u \in Workers : run[u].key \in Nat) /\ \A k \in versions : k \in Nat
    BY BoundsAssumption, PointerInt DEF TypeOK, PlainOK, RunOK, RvOK, Run, Revert
  <1>2. live < next' /\ rv.key < next' /\ \A u \in Workers : run[u].key < next'
    BY <1>1 DEF Minted
  <1>3. versions \subseteq 1..(next' - 1)
    <2> SUFFICES ASSUME NEW k \in versions PROVE k \in 1..(next' - 1)
      OBVIOUS
    <2>1. k \in 1..(next - 1)
      BY DEF Minted
    <2> QED BY <1>1, <2>1
  <1>4. \A k \in Pointer \ {NoKey} : k < next => k \in 1..(next' - 1)
    BY <1>1, PointerInt DEF NoKey
  <1>5. NoKey < next' /\ (next' = next + 1 => next < next')
    BY <1>1 DEF NoKey
  <1> QED BY <1>2, <1>3, <1>4, <1>5

\* A run's key is the one it has, until it fetches.
LEMMA KeyOwn == ASSUME TypeOK, NEW v \in Workers, RunStep(v), ~Fetch(v)
                PROVE run'[v].key \in {run[v].key, NoKey}
  <1>0. run \in [Workers -> Run] /\ run[v] \in Run
    BY DEF TypeOK, RunOK
  <1>l. Leave(v) => run'[v].key = NoKey
    BY <1>0 DEF Leave, Idle
  <1>1. CASE \E k \in Kinds : Take(v, k)
    BY <1>0, <1>1 DEF Take, Idle
  <1>2. CASE ClaimRun(v) \/ Requeue(v) \/ BeginRun(v) \/ FetchFails(v)
    BY <1>0, <1>2 DEF ClaimRun, Requeue, BeginRun, FetchFails, Goto, Run
  <1>3. CASE Cancelled(v) \/ Finish(v)
    BY <1>l, <1>3 DEF Cancelled, Finish
  <1>4. CASE FetchDeferred(v) \/ DeferEnqueue(v) \/ DeferRefused(v) \/ RunFails(v)
    BY <1>0, <1>4 DEF FetchDeferred, DeferEnqueue, DeferRefused, RunFails, Run
  <1>5. CASE DeferStatus(v)
    BY <1>0, <1>5 DEF DeferStatus, Run
  <1>6. CASE PublishStart(v) \/ Publish(v)
    <2>1. CASE Leave(v)
      BY <1>l, <2>1
    <2>2. CASE ~Leave(v)
      BY <1>0, <1>6, <2>2 DEF PublishStart, Publish, Goto, Run
    <2> QED BY <2>1, <2>2
  <1>7. CASE VersionGate(v) \/ InsertVersion(v) \/ Describe(v)
    BY <1>0, <1>7 DEF VersionGate, InsertVersion, Describe, Goto, Run
  <1>8. CASE Interpret(v) \/ StepFails(v)
    BY <1>0, <1>8 DEF Interpret, StepFails, Goto, Run
  <1>9. CASE Interrupted(v)
    BY <1>0, <1>9 DEF Interrupted, Interrupts, Idle
  <1>10. CASE IndexStart(v) \/ Reuse(v) \/ Check(v) \/ Send(v) \/ SendFails(v)
    BY <1>0, <1>10 DEF IndexStart, Reuse, Check, Send, SendFails, Goto, Run
  <1>11. CASE RaiseMark(v)
    <2>1. run' = [Raised EXCEPT ![v].pc = "finish"] \/ run' = [run EXCEPT ![v].pc = "finish"]
      BY <1>11 DEF RaiseMark
    <2>2. Raised[v].key = run[v].key
      BY <1>0 DEF Raised, Run
    <2>3. run'[v].key = Raised[v].key \/ run'[v].key = run[v].key
      BY <1>0, <2>1, RaisedOK DEF TypeOK, Run
    <2> QED BY <2>2, <2>3
  <1>12. CASE RecordIndexed(v) \/ LowerMark(v) \/ Release(v)
    BY <1>0, <1>12 DEF RecordIndexed, LowerMark, Release, Goto, Run
  <1>13. CASE Done(v)
    BY <1>0, <1>13 DEF Done, Idle
  <1> QED BY <1>1, <1>2, <1>3, <1>4, <1>5, <1>6, <1>7, <1>8, <1>9, <1>10, <1>11, <1>12, <1>13 DEF RunStep

\* A run changes the pointer, the versions, what is described, what is on record
\* of the index, and the index, in few of its steps.
LEMMA LandsContent == ASSUME NEW v \in Workers, RunStep(v)
                      PROVE /\ live' = live \/ Publish(v)
                            /\ versions' = versions \/ InsertVersion(v)
                            /\ made' = made \/ Describe(v)
                            /\ filed' = filed \/ Describe(v) \/ SendFails(v) \/ RecordIndexed(v)
                            /\ index' = index \/ Send(v)
  <1>1. CASE \E k \in Kinds : Take(v, k)
    BY <1>1 DEF Take, row, content, search
  <1>2. CASE ClaimRun(v) \/ Requeue(v) \/ BeginRun(v) \/ Fetch(v) \/ FetchFails(v)
    BY <1>2 DEF ClaimRun, Requeue, BeginRun, Fetch, FetchFails, row, content, search
  <1>3. CASE Cancelled(v) \/ Finish(v) \/ FetchDeferred(v) \/ DeferEnqueue(v) \/ DeferRefused(v)
    BY <1>3 DEF Cancelled, Finish, FetchDeferred, DeferEnqueue, DeferRefused, row, content, search
  <1>4. CASE RunFails(v) \/ DeferStatus(v) \/ PublishStart(v) \/ Publish(v)
    BY <1>4 DEF RunFails, DeferStatus, PublishStart, Publish, row, content, search
  <1>5. CASE VersionGate(v) \/ InsertVersion(v) \/ Describe(v) \/ Interpret(v) \/ StepFails(v)
    BY <1>5 DEF VersionGate, InsertVersion, Describe, Interpret, StepFails, row, content, search
  <1>6. CASE Interrupted(v) \/ IndexStart(v) \/ Reuse(v) \/ Check(v) \/ Send(v)
    BY <1>6 DEF Interrupted, Interrupts, IndexStart, Reuse, Check, Send, row, content, search
  <1>7. CASE SendFails(v) \/ RaiseMark(v) \/ RecordIndexed(v) \/ LowerMark(v)
    BY <1>7 DEF SendFails, RaiseMark, RecordIndexed, LowerMark, row, content, search
  <1>8. CASE Release(v) \/ Done(v)
    BY <1>8 DEF Release, Done, row, content, search
  <1> QED BY <1>1, <1>2, <1>3, <1>4, <1>5, <1>6, <1>7, <1>8 DEF RunStep

\* What a run puts there was minted, kept and served.
LEMMA MintedRun == ASSUME RecordInv, NEW v \in Workers, RunStep(v) PROVE Minted'
  <1>0. /\ TypeOK /\ FenceKept /\ Minted /\ run \in [Workers -> Run] /\ run[v] \in Run
        /\ next \in Nat /\ v # "none"
    BY BoundsAssumption, WorkerNames DEF RecordInv, FullInv, TypeOK, RunOK, PlainOK
  <1>1. next' \in {next, next + 1} /\ rv'.key = rv.key
    BY <1>0, RunLeaves
  <1>a. /\ live < next' /\ NoKey < next' /\ (next' = next + 1 => next < next')
        /\ \A u \in Workers : run[u].key < next'
    BY <1>0, <1>1, StillMinted
  <1>2. \A u \in Workers : run'[u].key < next'
    <2>1. ASSUME NEW u \in Workers \ {v} PROVE run'[u].key < next'
      BY <1>0, <1>1, <2>1, OthersApart, StillMinted DEF Apart
    <2>2. ASSUME Fetch(v) PROVE run'[v].key < next'
      <3>1. \/ run'[v].key = live
            \/ run'[v].key = next /\ next' = next + 1
        BY <1>0, <2>2 DEF Fetch, Run
      <3> QED BY <1>a, <3>1
    <2>3. ASSUME ~Fetch(v) PROVE run'[v].key < next'
      <3>1. run'[v].key = run[v].key \/ run'[v].key = NoKey
        BY <1>0, <2>3, KeyOwn
      <3> QED BY <1>a, <3>1
    <2> QED BY <2>1, <2>2, <2>3
  <1>3. live < next' /\ versions \subseteq 1..(next' - 1) /\ rv'.key < next'
    BY <1>0, <1>1, StillMinted
  <1>4. CASE Publish(v) /\ live' # live
    <2>1. Held(v) /\ live' = run[v].key
      BY <1>0, <1>4 DEF Publish, FenceKept
    <2>2. run[v].key # NoKey
      BY <1>4, <2>1 DEF Publish, RecordInv, RunReads, Reads, FreshContent
    <2>3. versions' = versions /\ made' = made
      BY <1>4 DEF Publish, row
    <2>4. live' < next'
      BY <1>0, <1>1, <2>1, StillMinted
    <2> QED BY <1>0, <1>2, <1>3, <2>1, <2>2, <2>3, <2>4 DEF Minted
  <1>5. CASE InsertVersion(v) /\ versions' # versions
    <2>1. versions' = versions \cup {run[v].key} /\ Held(v) /\ live' = live /\ made' = made
      BY <1>5 DEF InsertVersion, IfHeld, row
    <2>2. run[v].key # NoKey
      BY <1>5, <2>1 DEF InsertVersion, RecordInv, RunReads, Reads, KeptContent, Worked
    <2>3. run[v].key \in 1..(next' - 1)
      BY <1>0, <1>1, <2>2, StillMinted DEF Minted, Run
    <2> QED BY <1>0, <1>2, <1>3, <2>1, <2>3 DEF Minted
  <1>6. CASE Describe(v) /\ made' # made
    <2>1. made' = run[v].key /\ Held(v) /\ live' = live /\ versions' = versions
      BY <1>6 DEF Describe, IfHeld, content
    <2>2. run[v].key \in versions /\ run[v].key # NoKey /\ Serves(run[v].key)
      BY <1>6, <2>1 DEF Describe, RecordInv, RunReads, Reads, KeptContent, Worked, Gated
    <2>3. live' # NoKey
      BY <2>1, <2>2 DEF Serves, Replaced
    <2> QED BY <1>0, <1>2, <1>3, <2>1, <2>2, <2>3 DEF Minted
  <1>7. CASE live' = live /\ versions' = versions /\ made' = made
    BY <1>0, <1>2, <1>3, <1>7 DEF Minted
  <1>8. \/ Publish(v) /\ live' # live
        \/ InsertVersion(v) /\ versions' # versions
        \/ Describe(v) /\ made' # made
        \/ live' = live /\ versions' = versions /\ made' = made
    <2>1. \A u \in Workers : ~(Publish(u) /\ InsertVersion(u)) /\ ~(Publish(u) /\ Describe(u))
                             /\ ~(InsertVersion(u) /\ Describe(u))
      BY DEF Publish, InsertVersion, Describe
    <2> QED BY <2>1, LandsContent
  <1> QED BY <1>4, <1>5, <1>6, <1>7, <1>8

\* So was what anyone else does.
LEMMA MintedAside ==
    ASSUME RecordInv, [Next]_vars, ~ \E w \in Workers : RunStep(w) \/ Crash(w)
    PROVE Minted'
  <1>0. /\ TypeOK /\ Minted /\ run \in [Workers -> Run] /\ rv \in Revert
        /\ next \in Nat /\ next >= 2 /\ live \in Pointer
    BY BoundsAssumption DEF RecordInv, FullInv, TypeOK, RunOK, RvOK, PlainOK
  <1>1. \A u \in Workers : run'[u].key = run[u].key
    BY <1>0, ApartAside, RaisedApart DEF Apart
  <1>f. ASSUME next' = next, live' = live, versions' = versions, made' = made,
               rv'.key \in {rv.key, NoKey}
        PROVE Minted'
    BY <1>0, <1>1, <1>f DEF Minted, NoKey
  <1>2. ASSUME NEW k \in Asked, Ask(k) PROVE Minted'
    BY <1>f, <1>2 DEF Ask, Enqueue, content
  <1>3. ASSUME NEW to \in versions \cup {NoKey}, RevertAsk(to) PROVE Minted'
    BY <1>0, <1>f, <1>3 DEF RevertAsk, Revert, row, content, bounds
  <1>4. CASE CancelRun \/ GoStale \/ JobClaim \/ JobRelease \/ JobDies
    BY <1>f, <1>4 DEF CancelRun, GoStale, JobClaim, JobRelease, JobDies, row, content, bounds, counts
  <1>5. CASE UploadPrepare \/ UploadStops \/ UploadAbandoned \/ UploadEnqueue
    BY <1>f, <1>5 DEF UploadPrepare, UploadStops, UploadAbandoned, UploadEnqueue, row, content, bounds
  <1>6. CASE UploadPromote
    <2>1. next' = next + 1 /\ live' = next /\ versions' = versions /\ made' = made /\ rv'.key = rv.key
      BY <1>0, <1>6 DEF UploadPromote, row, Revert
    <2>2. live' < next' /\ versions' \subseteq 1..(next' - 1) /\ live' # NoKey
      BY <1>0, <2>1, StillMinted DEF NoKey
    <2>3. rv'.key < next' /\ \A u \in Workers : run'[u].key < next'
      BY <1>0, <1>1, <2>1, StillMinted
    <2> QED BY <1>0, <2>1, <2>2, <2>3 DEF Minted
  <1>7. CASE Takeover \/ RevertPublishStart
    BY <1>0, <1>f, <1>7 DEF Takeover, RevertPublishStart, Revert, row, content, bounds
  <1>8. CASE RevertRead
    <2>1. live' = live /\ versions' = versions /\ made' = made
      BY <1>8 DEF RevertRead, row, content
    <2>2. \/ next' = next /\ rv'.key \in {rv.key, NoKey}
          \/ next' = next + 1 /\ rv'.key = next
      BY <1>0, <1>8 DEF RevertRead, Revert
    <2>3. rv'.key < next'
      BY <1>0, <2>2, StillMinted
    <2>4. live' < next' /\ versions' \subseteq 1..(next' - 1) /\ \A u \in Workers : run'[u].key < next'
      BY <1>0, <1>1, <2>1, <2>2, StillMinted
    <2> QED BY <1>0, <2>1, <2>3, <2>4 DEF Minted
  <1>9. CASE RevertPublish
    <2>1. next' = next /\ rv'.key = rv.key
      BY <1>0, <1>9 DEF RevertPublish, Revert, bounds
    <2>2. CASE live = rv.prev
      <3>1. live' = rv.key /\ versions' = versions \cup ({rv.key} \ {NoKey}) /\ made' = NoKey
        BY <1>9, <2>2 DEF RevertPublish
      <3>2. {rv.key} \ {NoKey} \subseteq 1..(next - 1)
        BY <1>0, <2>1, StillMinted DEF Minted, Revert
      <3> QED BY <1>0, <1>1, <2>1, <3>1, <3>2 DEF Minted
    <2>3. CASE live # rv.prev
      BY <1>f, <1>9, <2>1, <2>3 DEF RevertPublish
    <2> QED BY <2>2, <2>3
  <1>10. CASE RevertWipe \/ RevertUnfile \/ RevertRelease \/ RevertQueue
    BY <1>0, <1>f, <1>10 DEF RevertWipe, RevertUnfile, RevertRelease, RevertQueue, Revert, Enqueue, row, content, bounds, counts
  <1>11. CASE Sweep
    BY <1>f, <1>11 DEF Sweep, content, bounds
  <1>12. CASE UNCHANGED vars
    BY <1>f, <1>12 DEF vars, row, content, bounds
  <1> QED BY <1>2, <1>3, <1>4, <1>5, <1>6, <1>7, <1>8, <1>9, <1>10, <1>11, <1>12 DEF Next,
       UploadStep, RevertStep

\* Every step.
LEMMA MintedStep == ASSUME RecordInv, [Next]_vars PROVE Minted'
  <1>1. ASSUME NEW v \in Workers, Crash(v) PROVE Minted'
    <2>0. Minted /\ run \in [Workers -> Run] /\ next \in Nat /\ next >= 2
      BY BoundsAssumption DEF RecordInv, FullInv, TypeOK, RunOK, PlainOK
    <2>1. \A u \in Workers : run'[u].key \in {run[u].key, NoKey}
      BY <2>0, <1>1 DEF Crash, Idle
    <2>2. UNCHANGED <<live, versions, made, rv, next>>
      BY <1>1 DEF Crash, row, content, counts
    <2> QED BY <2>0, <2>1, <2>2 DEF Minted, NoKey
  <1> QED BY <1>1, MintedRun, MintedAside

\* Where nobody hangs, a revert at work keeps the claim.
LEMMA RevertKeeps == ASSUME RevertsAlive, RecordInv, Requests', [Next]_vars
                     PROVE RevertAtWork' => Held("revert")'
  <1> SUFFICES ASSUME RevertAtWork' PROVE Held("revert")'
    OBVIOUS
  <1>1. "stall" \notin Faults
    BY DEF RevertsAlive, Requests, RevertAtWork
  <1>2. RevertAtWork => Held("revert") /\ ~claim.idle
    BY <1>1 DEF RecordInv, Reverting, Fitting, StaleIsDead, Held
  <1> QED BY <1>2, HoldRun, HoldOther DEF RecordInv, FullInv, KeepsHold

\* What is retracted stays so while nothing but what is coming changes, in the
\* index save for a stray write.
LEMMA RetractedFrame ==
    ASSUME Retracted, rv'.pc = rv.pc, rv'.key = rv.key,
           UNCHANGED <<made, filed, live, versions>>, due => due',
           Coming => Coming', strayed => strayed', strayed' \/ index' = index
    PROVE Retracted'
  <1>1. (rv.pc \in {"wipe", "unfile", "release"} => Serves(rv.key) /\ made = NoKey)'
    BY DEF Retracted, Serves, Replaced
  <1>2. (strayed \/ Filled(NoKey)) => (strayed \/ Filled(NoKey))'
    BY DEF Filled
  <1> QED BY <1>1, <1>2 DEF Retracted

\* A run lands nothing under a revert, but for a stray write.
LEMMA RetractedRun ==
    ASSUME RecordInv, NEW v \in Workers, RunStep(v), RevertAtWork' => Held("revert")'
    PROVE Retracted'
  <1>0. TypeOK /\ FenceKept /\ Fits(v) /\ Retracted /\ v # "revert"
    BY WorkerNames DEF RecordInv, FullInv, Fitting, Reverting
  <1>1. rv'.pc = rv.pc /\ rv'.key = rv.key /\ (strayed => strayed')
        /\ (Held(v) \/ strayed' \/ index' = index)
    BY <1>0, RunLeaves
  <1>2. CASE rv.pc \notin {"wipe", "unfile", "release"}
    BY <1>1, <1>2 DEF Retracted
  <1>3. CASE rv.pc \in {"wipe", "unfile", "release"}
    <2>1. RevertAtWork /\ RevertAtWork'
      BY <1>1, <1>3 DEF RevertAtWork
    <2>2. ~Held(v) /\ ~Held(v)'
      BY <1>0, <2>1 DEF RecordInv, Reverting, Held
    <2>3. Coming => Coming'
      BY <1>0, <2>2, ComingRun
    <2>4. Landless(v)
      BY <1>0, <2>2, Stopped
    <2> QED BY <1>0, <1>1, <2>2, <2>3, <2>4, RetractedFrame DEF Landless
  <1> QED BY <1>2, <1>3

\* What everyone else does, the revert itself among them.
LEMMA RetractedAside ==
    ASSUME RecordInv, [Next]_vars, ~ \E w \in Workers : RunStep(w) \/ Crash(w),
           RevertAtWork' => Held("revert")'
    PROVE Retracted'
  <1>0. /\ TypeOK /\ Minted /\ Retracted /\ rv \in Revert /\ next \in Nat /\ next >= 2
        /\ "revert" \notin {"none", "dead"} /\ Chunks \in Nat /\ index \in [1..Chunks -> Pointer]
    BY BoundsAssumption DEF RecordInv, FullInv, TypeOK, PlainOK, RvOK, Reverting
  <1>1. Coming => Coming'
    BY AsideOther DEF RecordInv, Aside
  <1>f. ASSUME rv'.pc = rv.pc, rv'.key = rv.key, UNCHANGED <<made, filed, live, versions>>,
               due => due', strayed' = strayed, index' = index
        PROVE Retracted'
    BY <1>0, <1>1, <1>f, RetractedFrame
  <1>p. ASSUME rv'.pc \notin {"wipe", "unfile", "release"} PROVE Retracted'
    BY <1>p DEF Retracted
  <1>2. ASSUME NEW k \in Asked, Ask(k) PROVE Retracted'
    BY <1>f, <1>2 DEF Ask, Enqueue, content, search
  <1>3. ASSUME NEW to \in versions \cup {NoKey}, RevertAsk(to) PROVE Retracted'
    BY <1>0, <1>p, <1>3 DEF RevertAsk, Revert
  <1>4. CASE CancelRun \/ GoStale \/ JobClaim \/ JobRelease \/ JobDies
    BY <1>f, <1>4 DEF CancelRun, GoStale, JobClaim, JobRelease, JobDies, row, content, search
  <1>5. CASE UploadPrepare \/ UploadStops \/ UploadAbandoned \/ UploadEnqueue
    BY <1>f, <1>5 DEF UploadPrepare, UploadStops, UploadAbandoned, UploadEnqueue, row, content, search
  <1>6. CASE UploadPromote
    <2>1. live' = next /\ versions' = versions /\ made' = made /\ filed' = filed /\ rv'.pc = rv.pc
          /\ rv'.key = rv.key /\ due' = due /\ index' = index /\ strayed' = strayed /\ Coming'
      BY <1>0, <1>6 DEF UploadPromote, row, search, Revert, Coming
    <2>2. Serves(rv.key)'
      BY <1>0, <2>1 DEF Minted, Serves, Replaced, NoKey
    <2>3. Filled(NoKey) => Filled(NoKey)'
      BY <2>1 DEF Filled
    <2> QED BY <1>0, <2>1, <2>2, <2>3 DEF Retracted, Serves, Replaced
  <1>7. CASE Takeover \/ RevertRead \/ RevertPublishStart \/ RevertRelease \/ RevertQueue
    BY <1>0, <1>p, <1>7 DEF Takeover, RevertRead, RevertPublishStart, RevertRelease, RevertQueue, Revert
  <1>8. CASE RevertPublish
    <2>1. CASE live = rv.prev
      <3>1. live' = rv.key /\ made' = NoKey /\ rv'.pc = "wipe" /\ rv'.key = rv.key
        BY <1>0, <1>8, <2>1 DEF RevertPublish, Revert
      <3> QED BY <3>1 DEF Retracted, Serves
    <2>2. CASE live # rv.prev
      BY <1>0, <1>p, <1>8, <2>2 DEF RevertPublish, Revert
    <2> QED BY <2>1, <2>2
  <1>9. CASE RevertWipe
    <2>1. rv.pc = "wipe" /\ rv'.key = rv.key /\ UNCHANGED <<made, filed, live, versions>>
      BY <1>0, <1>9 DEF RevertWipe, row, content, Revert
    <2>2. Serves(rv.key)' /\ made' = NoKey
      BY <1>0, <1>1, <2>1 DEF Retracted, Serves, Replaced
    <2>3. CASE rv'.pc = "unfile" /\ index' = [i \in DOMAIN index |-> NoKey]
      <3>1. Filled(NoKey)'
        BY <1>0, <2>3 DEF Filled
      <3> QED BY <2>2, <2>3, <3>1 DEF Retracted
    <2>4. CASE rv'.pc = "release" /\ due'
      BY <2>2, <2>4 DEF Retracted
    <2> QED BY <1>0, <1>9, <2>3, <2>4 DEF RevertWipe, Revert
  <1>10. CASE RevertUnfile
    <2>1. rv.pc = "unfile" /\ rv'.pc = "release" /\ rv'.key = rv.key /\ ~filed'
          /\ UNCHANGED <<made, live, versions, index, due, strayed>>
      BY <1>0, <1>10 DEF RevertUnfile, content, search, Revert
    <2>2. Serves(rv.key)' /\ made' = NoKey
      BY <1>0, <1>1, <2>1 DEF Retracted, Serves, Replaced
    <2>3. strayed' \/ Filled(NoKey)'
      BY <1>0, <2>1 DEF Retracted, Filled
    <2> QED BY <2>1, <2>2, <2>3 DEF Retracted
  <1>11. CASE Sweep
    <2>1. CASE live # NoKey
      BY <1>f, <2>1, <1>11 DEF Sweep, Enqueue, content
    <2>2. CASE live = NoKey
      <3>1. claim' = Free /\ rv' = rv
        BY <1>11, <2>2 DEF Sweep
      <3>2. ~RevertAtWork
        BY <3>1 DEF Free, Held, RevertAtWork
      <3> QED BY <1>p, <3>1, <3>2 DEF RevertAtWork
    <2> QED BY <2>1, <2>2
  <1>12. CASE UNCHANGED vars
    BY <1>f, <1>12 DEF vars, row, content, search
  <1> QED BY <1>2, <1>3, <1>4, <1>5, <1>6, <1>7, <1>8, <1>9, <1>10, <1>11, <1>12 DEF Next,
       UploadStep, RevertStep

\* Every step.
LEMMA RevertingStep == ASSUME RevertsAlive, RecordInv, Requests', [Next]_vars PROVE Reverting'
  <1>1. RevertAtWork' => Held("revert")'
    BY RevertKeeps
  <1>2. ASSUME NEW v \in Workers, Crash(v) PROVE Retracted'
    <2>1. Coming'
      BY <1>2 DEF Crash, GivenUp, Put, Coming, RecordInv, FullInv, TypeOK, RunOK, PlainOK, Run
    <2> QED BY <1>2, <2>1, RetractedFrame DEF Crash, row, content, search, RecordInv, Reverting
  <1> QED BY <1>1, <1>2, RetractedRun, RetractedAside DEF Reverting

\* What is on record of the index is as it was, while what it is read with is.
LEMMA DescribesFrame ==
    ASSUME Describes, UNCHANGED <<filed, made, live>>, strayed => strayed', strayed' \/ index' = index,
           rv'.pc \notin {"wipe", "unfile"} => rv.pc \notin {"wipe", "unfile"}
    PROVE Describes'
  BY DEF Describes, Filled

\* A run takes the record away before it touches the index, and makes it anew
\* when the index is full.
LEMMA DescribesRun == ASSUME RecordInv, NEW v \in Workers, RunStep(v) PROVE Describes'
  <1>0. TypeOK /\ FenceKept /\ Minted /\ Describes /\ (Held(v) => Reads(v)) /\ v # "none"
    BY WorkerNames DEF RecordInv, FullInv, RunReads
  <1>1. rv'.pc = rv.pc /\ (strayed => strayed') /\ (Held(v) \/ strayed' \/ index' = index)
    BY <1>0, RunLeaves
  <1>2. CASE ~Held(v)
    BY <1>0, <1>1, <1>2, Stopped, DescribesFrame DEF Landless
  <1>3. CASE Held(v) /\ Publish(v)
    <2>1. made' = made /\ filed' = filed /\ strayed' = strayed /\ index' = index
      BY <1>3 DEF Publish, row, search
    <2>2. CASE live' = live
      BY <1>0, <1>1, <2>1, <2>2, DescribesFrame
    <2>3. CASE live' # live
      <3>1. live' = run[v].key /\ run[v].key # run[v].prev
        BY <1>3, <2>3 DEF Publish
      <3>2. run[v].key # NoKey /\ run[v].key \notin versions
        BY <1>0, <1>3, <3>1 DEF Publish, Reads, FreshContent
      <3> QED BY <1>0, <2>1, <3>1, <3>2 DEF Minted, Describes
    <2> QED BY <2>2, <2>3
  <1>4. ASSUME RecordSound, Serves(run[v].key), live' = live, made' = made, filed' = filed,
               ~(filed /\ made = run[v].key)
        PROVE Describes'
    BY <1>0, <1>4 DEF Describes, Serves, Replaced, Minted
  <1>5. CASE Held(v) /\ Send(v)
    <2>1. run[v].pc = "send" /\ live' = live /\ made' = made /\ filed' = filed
      BY <1>5 DEF Send, row, content
    <2>2. Serves(run[v].key) /\ (RecordSound => ~(filed /\ made = run[v].key))
      BY <1>0, <1>5, <2>1 DEF Reads, KeptContent, IndexedContent, Worked, Gated, Interpreted, Indexing
    <2> QED BY <1>4, <2>1, <2>2 DEF Describes
  <1>6. CASE Held(v) /\ RecordIndexed(v)
    <2>1. /\ run[v].pc = "record" /\ live' = live /\ made' = made /\ versions' = versions
          /\ strayed' = strayed /\ index' = index
      BY <1>6 DEF RecordIndexed, content, search
    <2>2. Serves(run[v].key) /\ (strayed \/ Filled(run[v].key))
      BY <1>0, <1>6, <2>1 DEF Reads, KeptContent, IndexedContent, Worked, Gated, Interpreted, Indexing
    <2>3. CASE live = run[v].key
      BY <2>1, <2>2, <2>3 DEF Describes, Filled
    <2>4. CASE Replaced
      BY <1>0, <2>1, <2>4 DEF Describes, Replaced, Minted
    <2> QED BY <2>2, <2>3, <2>4 DEF Serves
  <1>7. CASE Held(v) /\ (Describe(v) \/ SendFails(v))
    BY <1>7 DEF Describe, SendFails, IfHeld, Describes
  <1>8. CASE /\ ~Publish(v) /\ ~Send(v) /\ ~RecordIndexed(v) /\ ~Describe(v) /\ ~SendFails(v)
    BY <1>0, <1>1, <1>8, LandsContent, DescribesFrame
  <1> QED BY <1>2, <1>3, <1>5, <1>6, <1>7, <1>8

\* A revert takes the record away when it has emptied the index; nobody else
\* touches either, as nothing is marked.
LEMMA DescribesAside ==
    ASSUME RecordInv, [Next]_vars, ~ \E w \in Workers : RunStep(w) \/ Crash(w)
    PROVE Describes'
  <1>0. /\ TypeOK /\ Minted /\ Describes /\ Requests /\ rv \in Revert /\ next \in Nat /\ next >= 2
    BY BoundsAssumption DEF RecordInv, FullInv, TypeOK, PlainOK, RvOK
  <1>f. ASSUME UNCHANGED <<filed, made, live, strayed, index>>,
               rv'.pc \notin {"wipe", "unfile"} => rv.pc \notin {"wipe", "unfile"}
        PROVE Describes'
    BY <1>0, <1>f, DescribesFrame
  <1>2. ASSUME NEW k \in Asked, Ask(k) PROVE Describes'
    BY <1>f, <1>2 DEF Ask, Enqueue, content, search
  <1>3. ASSUME NEW to \in versions \cup {NoKey}, RevertAsk(to) PROVE Describes'
    BY <1>f, <1>3 DEF RevertAsk, row, content, search
  <1>4. CASE CancelRun \/ GoStale \/ JobClaim \/ JobRelease \/ JobDies
    BY <1>f, <1>4 DEF CancelRun, GoStale, JobClaim, JobRelease, JobDies, row, content, search
  <1>5. CASE UploadPrepare \/ UploadStops \/ UploadAbandoned \/ UploadEnqueue
    BY <1>f, <1>5 DEF UploadPrepare, UploadStops, UploadAbandoned, UploadEnqueue, row, content, search
  <1>6. CASE UploadPromote
    BY <1>0, <1>6 DEF UploadPromote, Minted, Describes, row, NoKey
  <1>7. CASE Takeover \/ RevertRead \/ RevertPublishStart
    BY <1>0, <1>f, <1>7 DEF Takeover, RevertRead, RevertPublishStart, row, content, search
  <1>r. CASE RevertRelease \/ RevertQueue
    BY <1>0, <1>f, <1>r DEF RevertRelease, RevertQueue, Enqueue, row, content, search
  <1>8. CASE RevertPublish
    <2>1. CASE live = rv.prev
      BY <1>0, <1>8, <2>1 DEF RevertPublish, Describes, Revert
    <2>2. CASE live # rv.prev
      BY <1>f, <1>8, <2>2 DEF RevertPublish, search
    <2> QED BY <2>1, <2>2
  <1>9. CASE RevertWipe
    BY <1>0, <1>9 DEF RevertWipe, Fault, RecordSound, Describes, Revert
  <1>10. CASE RevertUnfile
    BY <1>10 DEF RevertUnfile, Describes
  <1>11. CASE Sweep
    BY <1>0, <1>11 DEF Sweep, Requests, Describes
  <1>12. CASE UNCHANGED vars
    BY <1>f, <1>12 DEF vars, row, content, search
  <1> QED BY <1>2, <1>3, <1>4, <1>5, <1>6, <1>7, <1>r, <1>8, <1>9, <1>10, <1>11, <1>12 DEF Next,
       UploadStep, RevertStep

\* Every step.
LEMMA DescribesStep == ASSUME RecordInv, [Next]_vars PROVE Describes'
  <1>1. ASSUME NEW v \in Workers, Crash(v) PROVE Describes'
    BY <1>1, DescribesFrame DEF Crash, row, content, search, RecordInv
  <1> QED BY <1>1, DescribesRun, DescribesAside

\* The invariant holds at the start.
LEMMA RecordInit == ASSUME Init PROVE RecordInv
  <1>1. FullInv /\ Fitting /\ RevertIsJob
    BY FullInvInit, WorkerNames DEF Init, Idle, Free, Held, Fits, StaleIsDead, Fitting, RevertIsJob
  <1>2. Requests
    BY DEF Init, Idle, Outstanding, Requests, Kinds
  <1>3. Minted
    BY DEF Init, Idle, Minted, NoKey
  <1>4. Kept /\ RunReads
    BY WorkerNames DEF Init, Idle, Free, Held, Kept, RunReads
  <1>5. Reverting /\ Describes
    BY DEF Init, RevertAtWork, Retracted, Reverting, Describes, Filled
  <1> QED BY <1>1, <1>2, <1>3, <1>4, <1>5 DEF RecordInv

\* Every step keeps it, where reverts end and the record is sound or unread.
LEMMA RecordStep ==
    ASSUME RevertsAlive, RecordSound \/ RecordUnread, RecordInv, [Next]_vars
    PROVE RecordInv'
  <1>1. FullInv' /\ Fitting' /\ RevertIsJob'
    BY FullInvStep, FittingStep, HoldRun, HoldOther DEF RecordInv, FullInv
  <1>2. Requests' /\ Minted' /\ Kept' /\ RunReads'
    BY RequestsStep, MintedStep, KeptStep, ReadsStep
  <1>3. Reverting' /\ Describes'
    BY <1>2, RevertingStep, DescribesStep
  <1> QED BY <1>1, <1>2, <1>3 DEF RecordInv

\* contentIndexed is a true record of the index: where it says so of the bytes
\* that are live, nothing is at work and no mark is raised, these bytes are what
\* the index holds.
THEOREM IndexRecordHolds ==
    ASSUME RecordSound, RevertsAlive PROVE Spec => []IndexedRecordTrue
  <1>1. Init => RecordInv
    BY RecordInit
  <1>2. RecordInv /\ [Next]_vars => RecordInv'
    BY RecordStep
  <1>3. RecordInv => IndexedRecordTrue
    <2>1. DOMAIN index = 1..Chunks \/ ~RecordInv
      BY DEF RecordInv, FullInv, TypeOK, PlainOK
    <2> QED BY <2>1 DEF RecordInv, Describes, Quiet, Filled, IndexedRecordTrue
  <1> QED BY <1>1, <1>2, <1>3, PTL DEF Spec

(* What is served is processed, or something says it may not be. *)

\* Claims do not change hands under their holder: nobody hangs, or only runs and
\* nobody but a run would take over.
NoHang == "stall" \notin Faults \/ ("job" \notin Others /\ "revert" \notin Others)

\* Something on the row says so, or all is of the content served.
Known == flaws # {} \/ due \/ strayed \/ Current

\* A run is about to begin under its claim.
Begun == \E w \in Workers : Held(w) /\ run[w].pc = "begin"

\* A complete row is true, or somebody will see to it.
Settled ==
    status = "complete" =>
        \/ Known \/ Coming \/ Begun
        \/ rv.pc \in {"wipe", "unfile", "queue"}
        \/ rv.pc = "release" /\ rv.key # NoKey

\* The row becomes complete when a run finishes, and is not while one is under
\* way.
LEMMA StatusRun == ASSUME NEW v \in Workers, RunStep(v), status' = "complete"
                   PROVE /\ status = "complete" \/ Finish(v)
                         /\ Held(v) /\ run[v].pc \in {"begin", "release"} => Release(v)
  <1>1. CASE \E k \in Kinds : Take(v, k)
    BY <1>1 DEF Take, row
  <1>2. CASE ClaimRun(v) \/ Requeue(v) \/ BeginRun(v) \/ Fetch(v) \/ FetchFails(v)
    BY <1>2 DEF ClaimRun, Requeue, BeginRun, IfHeld, Fetch, FetchFails, row
  <1>3. CASE Cancelled(v) \/ Finish(v) \/ FetchDeferred(v) \/ DeferEnqueue(v) \/ DeferRefused(v)
    BY <1>3 DEF Cancelled, Finish, FetchDeferred, DeferEnqueue, DeferRefused, row
  <1>4. CASE RunFails(v) \/ DeferStatus(v) \/ PublishStart(v) \/ Publish(v)
    BY <1>4 DEF RunFails, DeferStatus, IfHeld, PublishStart, Publish, row
  <1>5. CASE VersionGate(v) \/ InsertVersion(v) \/ Describe(v) \/ Interpret(v) \/ StepFails(v)
    BY <1>5 DEF VersionGate, InsertVersion, Describe, Interpret, StepFails, row
  <1>6. CASE Interrupted(v) \/ IndexStart(v) \/ Reuse(v) \/ Check(v) \/ Send(v)
    BY <1>6 DEF Interrupted, Interrupts, IfHeld, IndexStart, Reuse, Check, Send, row
  <1>7. CASE SendFails(v) \/ RaiseMark(v) \/ RecordIndexed(v) \/ LowerMark(v)
    BY <1>7 DEF SendFails, RaiseMark, RecordIndexed, LowerMark, row
  <1>8. CASE Release(v) \/ Done(v)
    BY <1>8 DEF Release, Done, row
  <1> QED BY <1>1, <1>2, <1>3, <1>4, <1>5, <1>6, <1>7, <1>8 DEF RunStep

\* What is known stays so while the row and the content do.
LEMMA KnownKept ==
    ASSUME Known, UNCHANGED <<flaws, made, filed, live>>, due => due', strayed => strayed',
           strayed' \/ index' = index
    PROVE Known'
  BY DEF Known, Current

\* A run says complete of content that is processed, or replaced.
LEMMA SettledRun ==
    ASSUME RecordInv, Settled, NEW v \in Workers, RunStep(v)
    PROVE Settled'
  <1>0. /\ TypeOK /\ FenceKept /\ Fits(v) /\ Settled /\ v # "none" /\ (Held(v) => Reads(v))
        /\ claim.by \in Owner
    BY WorkerNames DEF RecordInv, FullInv, Fitting, RunReads, TypeOK, ClaimOK
  <1>1. rv'.pc = rv.pc /\ rv'.key = rv.key /\ (strayed => strayed')
        /\ (Held(v) \/ strayed' \/ index' = index)
    BY <1>0, RunLeaves
  <1>2. Coming => Coming' \/ Begun'
    BY <1>0, ComingRun DEF Begun
  <1> SUFFICES ASSUME status' = "complete" PROVE Settled'
    BY DEF Settled
  <1>3. CASE Finish(v) /\ Held(v)
    <2>1. run[v].pc = "finish" /\ UNCHANGED <<flaws, made, filed, live, due, strayed, index>>
      BY <1>3 DEF Finish, content, search
    <2>2. Known \/ live # run[v].key
      BY <1>0, <1>3, <2>1 DEF Reads, IndexedContent, Known
    <2>3. live = run[v].key \/ Coming
      BY <1>0, <1>3, <2>1 DEF Reads, KeptContent, Worked, Gated, Interpreted, Serves, Replaced
    <2>4. Known => Known'
      BY <2>1, KnownKept
    <2> QED BY <1>2, <2>2, <2>3, <2>4 DEF Settled
  <1>4. CASE ~Held(v)
    <2>1. Landless(v)
      BY <1>0, <1>4, Stopped
    <2>2. status = "complete" /\ (Known => Known')
      BY <1>1, <1>4, <2>1, KnownKept DEF Landless
    <2>3. ASSUME NEW w \in Workers, Held(w), run[w].pc = "begin" PROVE Begun'
      <3>1. w # v
        BY <1>4, <2>3
      <3>2. CASE Held(w)'
        BY <1>0, <2>3, <3>1, <3>2, OthersSame DEF Begun, Same
      <3>3. CASE ClaimRun(v) /\ ~Held(w)'
        <4>1. claim' = Claimed(v, "run") /\ Goto(v, "begin")
          BY <2>3, <3>3 DEF ClaimRun, Held
        <4>2. Held(v)'
          BY <4>1 DEF Claimed, Held
        <4>3. run'[v].pc = "begin"
          BY <1>0, <4>1 DEF Goto, TypeOK, RunOK, Run
        <4> QED BY <4>2, <4>3 DEF Begun
      <3> QED BY <1>0, <2>3, <3>1, <3>2, <3>3, OthersSame DEF Held
    <2> QED BY <1>0, <1>1, <1>2, <2>2, <2>3 DEF Settled, Begun
  <1>5. CASE Held(v) /\ ~Finish(v)
    <2>1. status = "complete" /\ Release(v)
      BY <1>0, <1>5, StatusRun DEF Reads
    <2>2. UNCHANGED <<flaws, made, filed, live, due, strayed, index>> /\ run[v].pc = "release"
      BY <2>1 DEF Release, row, content, search
    <2>3. (Known => Known') /\ ~Begun
      BY <1>5, <2>2, KnownKept DEF Begun, Held
    <2> QED BY <1>0, <1>1, <1>2, <2>1, <2>3 DEF Settled
  <1> QED BY <1>3, <1>4, <1>5

\* Everyone else sees to what is not true of it.
LEMMA SettledAside ==
    ASSUME NoHang, RecordInv, Settled, [Next]_vars, ~ \E w \in Workers : RunStep(w) \/ Crash(w)
    PROVE Settled'
  <1>0. /\ TypeOK /\ Minted /\ Requests /\ Retracted /\ rv \in Revert /\ claim.by \in Owner
        /\ index \in [1..Chunks -> Pointer] /\ \A w \in Workers : w \notin {"none", "dead", "revert", "job"}
    BY WorkerNames DEF RecordInv, FullInv, TypeOK, ClaimOK, PlainOK, RvOK, Reverting
  <1>1. (Coming => Coming') /\ \A w \in Workers : run'[w].pc = run[w].pc
    BY AsideOther DEF RecordInv, Aside, Same
  <1>s. ASSUME status' # "complete" PROVE Settled'
    BY <1>s DEF Settled
  <1>f. ASSUME status' = status,
               UNCHANGED <<flaws, made, filed, live, strayed, index>>, due => due',
               \A w \in Workers : Held(w) => Held(w)',
               \/ rv' = rv
               \/ /\ rv.pc \notin {"wipe", "unfile", "queue"}
                  /\ rv.pc = "release" => rv.key = NoKey \/ rv'.pc = "queue"
        PROVE Settled'
    <2>1. (Known => Known') /\ (Begun => Begun')
      BY <1>1, <1>f, KnownKept DEF Begun
    <2> QED BY <1>1, <1>f, <2>1 DEF Settled
  <1>2. ASSUME NEW k \in Asked, Ask(k) PROVE Settled'
    BY <1>s, <1>2 DEF Ask, Enqueue
  <1>3. ASSUME NEW to \in versions \cup {NoKey}, RevertAsk(to) PROVE Settled'
    BY <1>f, <1>3 DEF RevertAsk, row, content, search, Held
  <1>4. CASE CancelRun \/ UploadStops
    BY <1>f, <1>s, <1>4 DEF CancelRun, UploadStops, StopRun, row, content, search, Held
  <1>5. CASE GoStale
    <2>1. \A w \in Workers : Held(w) => Held(w)'
      BY <1>5 DEF GoStale, Held, RecordInv, FullInv, TypeOK, ClaimOK
    <2> QED BY <1>f, <1>5, <2>1 DEF GoStale, row, content, search
  <1>6. CASE UploadPrepare \/ UploadAbandoned
    BY <1>f, <1>6 DEF UploadPrepare, UploadAbandoned, row, content, search, Held
  <1>7. CASE UploadPromote
    <2>1. Coming'
      BY <1>7 DEF UploadPromote, Coming
    <2> QED BY <2>1 DEF Settled
  <1>8. CASE UploadEnqueue \/ RevertQueue
    BY <1>s, <1>8 DEF UploadEnqueue, RevertQueue, Enqueue
  <1>9. CASE JobClaim
    <2>1. \A w \in Workers : ~Held(w)
      BY <1>0, <1>9 DEF JobClaim, Takeable, NoHang, RecordInv, Fitting, StaleIsDead, Held
    <2> QED BY <1>f, <1>9, <2>1 DEF JobClaim, row, content, search
  <1>10. CASE JobRelease
    <2>1. \A w \in Workers : Held(w) => Held(w)'
      BY <1>0, <1>10 DEF JobRelease, GiveBack, Held
    <2> QED BY <1>f, <1>10, <2>1 DEF JobRelease, row, content, search
  <1>11. CASE JobDies
    <2>1. \A w \in Workers : Held(w) => Held(w)'
      BY <1>0, <1>11 DEF JobDies, Orphan, Held
    <2> QED BY <1>f, <1>11, <2>1 DEF JobDies, row, content, search
  <1>12. CASE Takeover
    <2>1. UNCHANGED <<flaws, made, filed, live, strayed, index, due>> /\ rv.pc = "takeover"
      BY <1>12 DEF Takeover, content, search
    <2>2. CASE claim' = claim /\ status' = status
      BY <1>f, <2>1, <2>2 DEF Held
    <2>3. CASE claim.by = "none" /\ status' = status
      <3>1. \A w \in Workers : ~Held(w)
        BY <1>0, <2>3 DEF Held
      <3> QED BY <1>f, <2>1, <2>3, <3>1
    <2> QED BY <1>s, <1>12, <2>2, <2>3 DEF Takeover
  <1>13. CASE RevertRead \/ RevertPublishStart
    BY <1>f, <1>13 DEF RevertRead, RevertPublishStart, row, content, search, Held
  <1>14. CASE RevertPublish
    <2>1. CASE rv'.pc = "wipe"
      BY <2>1 DEF Settled
    <2>2. CASE live # rv.prev
      BY <1>f, <1>14, <2>2 DEF RevertPublish, search, Held
    <2> QED BY <1>0, <1>14, <2>1, <2>2 DEF RevertPublish, Revert
  <1>15. CASE RevertWipe
    <2>1. rv'.pc = "unfile" \/ due'
      BY <1>0, <1>15 DEF RevertWipe, Revert
    <2> QED BY <2>1 DEF Settled, Known
  <1>16. CASE RevertUnfile
    <2>1. /\ rv.pc = "unfile" /\ rv'.pc = "release" /\ rv'.key = rv.key
          /\ UNCHANGED <<made, live, index, due, strayed>>
      BY <1>0, <1>16 DEF RevertUnfile, content, search, Revert
    <2>2. (live = rv.key \/ Coming') /\ made = NoKey /\ (strayed \/ Filled(NoKey))
      BY <1>0, <1>1, <2>1 DEF Retracted, Serves, Replaced
    <2>3. CASE rv.key = NoKey /\ live = NoKey
      <3>1. strayed' \/ Current'
        BY <1>0, <2>1, <2>2, <2>3 DEF Current, Filled
      <3> QED BY <3>1 DEF Settled, Known
    <2> QED BY <2>1, <2>2, <2>3 DEF Settled
  <1>17. CASE RevertRelease
    <2>1. \A w \in Workers : Held(w) => Held(w)'
      BY <1>0, <1>17 DEF RevertRelease, GiveBack, Held
    <2>2. /\ rv.pc \in {"release", "refuse"} /\ UNCHANGED <<status, flaws, made, filed, live, strayed, index, due>>
          /\ rv.pc = "release" => rv.key = NoKey \/ rv'.pc = "queue"
      BY <1>0, <1>17 DEF RevertRelease, row, content, search, Revert
    <2> QED BY <1>f, <2>1, <2>2
  <1>18. CASE Sweep
    <2>1. CASE live # NoKey
      BY <1>s, <1>18, <2>1 DEF Sweep, Enqueue
    <2>2. CASE live = NoKey
      <3>1. index' = [i \in DOMAIN index |-> NoKey] /\ live' = NoKey /\ made' = NoKey
        BY <1>0, <1>18, <2>2 DEF Sweep, content, Minted
      <3> QED BY <1>0, <3>1 DEF Settled, Known, Current
    <2> QED BY <2>1, <2>2
  <1>19. CASE UNCHANGED vars
    BY <1>f, <1>19 DEF vars, row, content, search, Held
  <1> QED BY <1>2, <1>3, <1>4, <1>5, <1>6, <1>7, <1>8, <1>9, <1>10, <1>11, <1>12, <1>13,
       <1>14, <1>15, <1>16, <1>17, <1>18, <1>19 DEF Next, UploadStep, RevertStep

\* Once everything has come to rest, what the resource serves is processed, or
\* the row says it may not be.
THEOREM NobodyForgets ==
    ASSUME RecordSound \/ RecordUnread, NoHang PROVE Spec => []NothingForgotten
  <1>0. RevertsAlive
    BY DEF NoHang, RevertsAlive
  <1>1. Init => RecordInv /\ Settled
    <2>1. Init => Settled
      BY DEF Init, Settled, Known, Current, NoKey
    <2> QED BY <2>1, RecordInit
  <1>2. RecordInv /\ Settled /\ [Next]_vars => (RecordInv /\ Settled)'
    <2> SUFFICES ASSUME RecordInv, Settled, [Next]_vars PROVE RecordInv' /\ Settled'
      OBVIOUS
    <2>1. ASSUME NEW v \in Workers, Crash(v) PROVE Settled'
      BY <2>1 DEF Crash, GivenUp, Put, Coming, Settled, RecordInv, FullInv, TypeOK, RunOK, PlainOK, Run
    <2> QED BY <1>0, <2>1, RecordStep, SettledRun, SettledAside
  <1>3. RecordInv /\ Settled => NothingForgotten
    <2> SUFFICES ASSUME RecordInv, Settled, Quiet, status = "complete", ~buried PROVE Known
      BY DEF NothingForgotten, Known
    <2>1. ~Coming /\ ~Begun
      BY DEF Quiet, RecordInv, Fitting, Fits, Coming, Pend, Begun
    <2> QED BY <2>1 DEF Quiet, Settled
  <1> QED BY <1>1, <1>2, <1>3, PTL DEF Spec

=============================================================================
