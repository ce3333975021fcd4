------------------------ MODULE StorageObjectsProofs ------------------------
(***************************************************************************)
(* Who owns which object of a resource, what a purge leaves of it, that    *)
(* what is named is in the bucket, and when what is not named can be found *)
(* again: for any runs, any number of keys, with everybody at work at once *)
(* and anything going wrong any number of times.                           *)
(***************************************************************************)
EXTENDS StorageObjects, FiniteSetTheorems, SequenceTheorems, TLAPS

-----------------------------------------------------------------------------
(* The inductive invariant *)

Vs == [key : Key, state : {"active", "purging", "purged"}]
RunRec == [pc : RunPcs, key : Pointer, prev : Pointer, to : Pointer]
RvRec == [pc : {"idle", "take", "copy", "file", "detach", "drop", "leave"},
          key : Pointer, prev : Pointer, to : Pointer]
PurgeRec == [pc : {"idle", "delete", "detach", "drop", "lake", "move", "old", "ask",
                   "finish", "fail"},
             v : Nat, prev : Pointer, serves : BOOLEAN, to : Pointer]

\* Whoever is at a statement that needs a key has one.
Equipped(r) ==
    /\ r.pc \in {"publish", "gate", "owner", "take", "copy", "file"} => r.key # NoKey
    /\ r.pc \in {"store", "copy", "file", "paint", "point"} => r.to # NoKey
RevertEquipped ==
    /\ rv.pc = "take" => rv.to = NoKey
    /\ rv.pc = "copy" => rv.key # NoKey
    /\ rv.pc \in {"copy", "file"} => (rv.key = NoKey <=> rv.to = NoKey)
PurgeEquipped == purge.pc # "idle" => purge.v \in Numbers

Equipment == (\A w \in Runs : Equipped(run[w])) /\ RevertEquipped /\ PurgeEquipped

\* A key is minted for one purpose: an object a run is writing, the copy of a
\* revert, an upload. Then its object becomes the content of a run, the live one,
\* a version's.
OwnBy(w, k) == run[w].pc \in {"store", "copy", "file", "paint", "point"} /\ run[w].to = k
RvOwns(k) == rv.pc \in {"copy", "file"} /\ rv.to = k
UpOwns(k) == k \in urls \/ k = pending \/ k = up
VersionKey(k) == \E v \in Numbers : versions[v].key = k
Content(k) == k = live \/ VersionKey(k) \/ \E w \in Runs : run[w].key = k

Apart(k) ==
    /\ \A w \in Runs : OwnBy(w, k) =>
          /\ ~Content(k) /\ ~UpOwns(k) /\ ~RvOwns(k)
          /\ \A u \in Runs : OwnBy(u, k) => u = w
    /\ RvOwns(k) => ~Content(k) /\ ~UpOwns(k)
    /\ UpOwns(k) => ~Content(k)
Unused(k) == ~Content(k) /\ ~UpOwns(k) /\ ~RvOwns(k) /\ \A w \in Runs : ~OwnBy(w, k)
Keys ==
    \A k \in Key : /\ Apart(k)
                   /\ k \in urls => k \notin objects /\ k # up
                   /\ k >= next => Unused(k) /\ k \notin objects

\* What a run under its claim is about to file, or to serve.
Purged(k) == \E v \in WithState("purged") : versions[v].key = k
RunSound(w) ==
    LET r == run[w] IN
    Held(w) =>
       /\ r.key # NoKey => ~Purged(r.key)
       /\ r.pc = "publish" => r.key = r.prev \/ ~VersionKey(r.key)
       /\ r.pc \in {"gate", "owner", "take"} => live = r.key \/ ~Owned(live)
       /\ r.pc = "take" => ~Owned(r.key)

\* No two versions have one key, a tombstone counted too. A purge has the claim
\* from beginning to end: its version's file is gone, then the pointer is off it,
\* or on its way to the newest version.
OneVersion == \A u, v \in Numbers : versions[u].key = versions[v].key => u = v
OnePurging == \A u, v \in WithState("purging") : u = v
PurgeSound ==
    LET k == versions[purge.v].key IN
    purge.pc # "idle" =>
       /\ Held("purge")
       /\ versions[purge.v].state = "purging"
       /\ purge.pc # "delete" => k \notin objects
       /\ live = k => \/ purge.pc = "fail"
                      \/ purge.serves /\ purge.pc \in {"delete", "detach", "drop", "lake", "move"}
       /\ purge.pc = "move" /\ purge.to # NoKey =>
             \E n \in WithState("active") :
                versions[n].key = purge.to /\ \A u \in WithState("active") : u <= n

\* A quarter of an hour without progress is a dead holder's, or there are no purges:
\* a purge that lives does not lose the claim.
NobodyHangs == "stall" \notin Faults \cup Endless
NoPurge == purge.pc = "idle" /\ WithState("purging") = {}
PurgesLast == NobodyHangs \/ "purge" \notin Others
PurgeIsHolder == NobodyHangs \/ ("purge" \notin Others /\ NoPurge)

StorageInv ==
    /\ PurgeIsHolder
    /\ TypeOK /\ Equipment /\ Keys
    /\ \A w \in Runs : RunSound(w)
    /\ OneVersion /\ OnePurging /\ PurgeSound
    /\ LiveIsNewest /\ PurgedGone

-----------------------------------------------------------------------------
(* Keys and versions *)

LEMMA KeyIs ==
    /\ Key \subseteq Nat /\ NoKey \in Pointer /\ Key \subseteq Pointer /\ NoKey \notin Key
    /\ \A k \in Pointer : k # NoKey => k \in Key
    /\ \A k : Minted(k) => k = next /\ next' = next + 1 /\ next <= MaxKey
BY BoundsAssumption DEF Key, NoKey, Pointer, Minted

LEMMA RecordsIn == Idle \in RunRec /\ Idle \in RvRec /\ NotPurging \in PurgeRec /\ Idle.key = NoKey
                   /\ Idle.pc = "idle" /\ NotPurging.pc = "idle"
BY KeyIs DEF Idle, NotPurging, RunRec, RvRec, PurgeRec, RunPcs

\* The newest of some versions is one of them, and the newest.
LEMMA NewestIs ==
    /\ Newest({}) = 0
    /\ \A n \in Nat : \A vs \in SUBSET (1..n) : vs # {} =>
          Newest(vs) \in vs /\ \A u \in vs : u <= Newest(vs)
<1>1. ASSUME NEW n \in Nat, NEW vs \in SUBSET (1..n), vs # {}
      PROVE  Newest(vs) \in vs /\ \A u \in vs : u <= Newest(vs)
  <2> DEFINE Down == {n - v : v \in vs}
  <2>1. Down \in SUBSET Nat /\ Down # {}
    <3>1. \A v \in vs : v \in 1..n
      OBVIOUS
    <3>2. \A v \in vs : n - v \in Nat
      BY <3>1
    <3>3. QED BY <1>1, <3>2
  <2>2. PICK d \in Down : \A e \in Down : ~(<<e, d>> \in OpToRel(<, Nat))
    BY <2>1, NatLessThanWellFounded, WFMin
  <2>3. PICK v \in vs : d = n - v
    BY <2>2
  <2>4. ASSUME NEW u \in vs PROVE u <= v
    <3>1. n - u \in Down /\ n - u \in Nat /\ d \in Nat
      BY <2>1
    <3>2. ~(n - u < d)
      BY <2>2, <3>1 DEF OpToRel
    <3>3. u \in Nat /\ v \in Nat
      OBVIOUS
    <3>4. QED BY <2>3, <3>2, <3>3
  <2>5. QED BY <2>4 DEF Newest
<1>2. QED BY <1>1 DEF Newest

LEMMA VersionsAre ==
    ASSUME TypeOK
    PROVE  /\ Numbers = 1..Len(versions) /\ Len(versions) \in Nat /\ Numbers \subseteq Nat
           /\ versions \in Seq(Vs) /\ versions \in [Numbers -> Vs]
           /\ \A v \in Numbers : versions[v].key \in Key /\ versions[v].key # NoKey
                                 /\ versions[v].state \in {"active", "purging", "purged"}
<1>1. versions \in Seq(Vs)
  BY DEF TypeOK, Vs
<1>2. /\ Numbers = 1..Len(versions) /\ Len(versions) \in Nat /\ versions \in [Numbers -> Vs]
  BY <1>1, LenProperties DEF Numbers
<1>3. QED BY <1>1, <1>2, KeyIs DEF Vs

\* The newest of the versions that are something.
LEMMA NewestOf ==
    ASSUME TypeOK, NEW vs \in SUBSET Numbers
    PROVE  /\ vs = {} => Newest(vs) = 0
           /\ vs # {} => Newest(vs) \in vs /\ Newest(vs) # 0 /\ \A u \in vs : u <= Newest(vs)
           /\ KeyOf(Newest(vs)) \in Pointer
<1>1. /\ Numbers = 1..Len(versions) /\ Len(versions) \in Nat
      /\ \A v \in Numbers : versions[v].key \in Key
  BY VersionsAre
<1>2. CASE vs = {}
  BY <1>2, NewestIs, KeyIs DEF KeyOf
<1>3. CASE vs # {}
  <2>1. Newest(vs) \in vs /\ \A u \in vs : u <= Newest(vs)
    BY <1>1, <1>3, NewestIs
  <2>2. Newest(vs) \in Numbers /\ Newest(vs) # 0
    <3>1. Newest(vs) \in Numbers
      BY <2>1
    <3>2. 0 \notin Numbers
      BY <1>1
    <3>3. QED BY <3>1, <3>2
  <2>3. KeyOf(Newest(vs)) \in Pointer
    BY <1>1, <2>2, KeyIs DEF KeyOf
  <2>4. QED BY <1>3, <2>1, <2>2, <2>3
<1>4. QED BY <1>2, <1>3

\* One version more, or one that changes its state.
LEMMA FiledIs ==
    ASSUME TypeOK, NEW k \in Key, Filed(k)
    PROVE  /\ versions' \in Seq(Vs)
           /\ \E n \in Nat : /\ n \notin Numbers /\ Numbers' = Numbers \cup {n}
                             /\ versions'[n] = [key |-> k, state |-> "active"]
                             /\ \A v \in Numbers : versions'[v] = versions[v] /\ v < n
<1> DEFINE x == [key |-> k, state |-> "active"]
           n == Len(versions) + 1
<1>1. versions \in Seq(Vs) /\ Numbers = 1..Len(versions) /\ Len(versions) \in Nat /\ x \in Vs
  BY VersionsAre DEF Vs
<1>2. versions' = Append(versions, x)
  BY DEF Filed
<1>3. /\ versions' \in Seq(Vs) /\ Len(versions') = n
      /\ \A i \in 1..Len(versions) : versions'[i] = versions[i]
      /\ versions'[n] = x
  BY <1>1, <1>2, AppendProperties
<1>4. Numbers' = 1..n
  BY <1>3, LenProperties DEF Numbers
<1>5. n \in Nat /\ n \notin Numbers /\ Numbers' = Numbers \cup {n} /\ \A v \in Numbers : v < n
  BY <1>1, <1>4
<1>6. QED BY <1>1, <1>3, <1>5

LEMMA MarkedIs ==
    ASSUME TypeOK, NEW v \in Numbers, NEW s \in {"active", "purging", "purged"},
           versions' = [versions EXCEPT ![v].state = s]
    PROVE  /\ versions' \in Seq(Vs) /\ Numbers' = Numbers
           /\ \A u \in Numbers : /\ versions'[u].key = versions[u].key
                                 /\ u # v => versions'[u] = versions[u]
           /\ versions'[v].state = s
<1> DEFINE x == [versions[v] EXCEPT !.state = s]
<1>1. versions \in Seq(Vs) /\ Numbers = 1..Len(versions) /\ versions[v] \in Vs
  BY VersionsAre
<1>2. x \in Vs /\ x.key = versions[v].key /\ x.state = s
  BY <1>1 DEF Vs
<1>3. versions' = [versions EXCEPT ![v] = x]
  OBVIOUS
<1>4. /\ versions' \in Seq(Vs) /\ Len(versions') = Len(versions)
      /\ \A j \in 1..Len(versions) : versions'[j] = IF j = v THEN x ELSE versions[j]
  BY <1>1, <1>2, <1>3, ExceptSeq
<1>5. Numbers' = Numbers
  BY <1>1, <1>4, LenProperties DEF Numbers
<1>6. QED BY <1>1, <1>2, <1>4, <1>5

-----------------------------------------------------------------------------
(* Types, and who is equipped for what *)

StoreOK ==
    /\ live \in Pointer /\ hash \in Pointer /\ external \in BOOLEAN /\ pending \in Pointer
    /\ preview \in Pointer /\ objects \subseteq Key /\ origin \in [Key -> Key] /\ ledger \subseteq Key
RestOK ==
    /\ claim \in Holders \cup {"none"} /\ queued \in BOOLEAN /\ up \in Pointer /\ urls \subseteq Key
    /\ sweep \in [pc : {"idle", "ask", "delete", "untrack"}, key : Pointer]
    /\ recon \in [pc : {"idle", "ask", "known", "insert"}, keys : SUBSET Key]
    /\ next \in Nat /\ faults \in 0..MaxFaults

LEMMA TypeParts ==
    /\ TypeOK <=> /\ StoreOK /\ RestOK /\ versions \in Seq(Vs) /\ run \in [Runs -> RunRec]
                  /\ rv \in RvRec /\ purge \in PurgeRec
    /\ TypeOK' <=> /\ StoreOK' /\ RestOK' /\ versions' \in Seq(Vs) /\ run' \in [Runs -> RunRec]
                   /\ rv' \in RvRec /\ purge' \in PurgeRec
BY DEF TypeOK, StoreOK, RestOK, Vs, RunRec, RvRec, PurgeRec

LEMMA FaultCounts == ASSUME RestOK, NEW kind, Fault(kind) PROVE faults' \in 0..MaxFaults
BY BoundsAssumption DEF RestOK, Fault

LEMMA DeleteLeaves ==
    ASSUME RestOK, NEW ks, Delete(ks)
    PROVE  objects' \subseteq objects /\ origin' = origin /\ faults' \in 0..MaxFaults
<1>1. ASSUME ks \cap objects # {}, Fault("storage"), UNCHANGED objects PROVE faults' \in 0..MaxFaults
  BY <1>1, FaultCounts
<1>2. QED BY <1>1 DEF Delete, RestOK

LEMMA PublishTyped ==
    ASSUME StoreOK, NEW k \in Pointer, NEW prev \in Pointer, NEW bytes \in Pointer,
           NEW moved \in BOOLEAN, Publish(k, prev, bytes, moved)
    PROVE  /\ live' \in Pointer /\ hash' \in Pointer /\ ledger' \subseteq Key
           /\ UNCHANGED <<external, pending>>
           /\ moved => live' = k
           /\ ~moved => live' = live
<1>1. ledger' \subseteq Key
  BY KeyIs DEF Publish, Published, Parked, Dropped, StoreOK
<1>2. QED BY <1>1 DEF Publish, StoreOK

\* A run's next statement.
LEMMA Running ==
    ASSUME TypeOK, Equipment, NEW w \in Runs, NEW r \in RunRec, Equipped(r), SetRun(w, r)
    PROVE  /\ run' \in [Runs -> RunRec] /\ \A u \in Runs : Equipped(run'[u])
           /\ run'[w] = r /\ \A u \in Runs : u # w => run'[u] = run[u]
           /\ UNCHANGED <<rv, purge, queued, up, urls, sweep, recon>>
<1>1. run \in [Runs -> RunRec] /\ \A u \in Runs : Equipped(run[u])
  BY TypeParts DEF Equipment
<1>2. run' = [run EXCEPT ![w] = r] /\ RunOnly(w)
  BY DEF SetRun
<1>3. /\ run' \in [Runs -> RunRec] /\ run'[w] = r /\ \A u \in Runs : u # w => run'[u] = run[u]
  BY <1>1, <1>2
<1>4. \A u \in Runs : Equipped(run'[u])
  BY <1>1, <1>3
<1>5. QED BY <1>2, <1>3, <1>4 DEF RunOnly

RunsOK == run \in [Runs -> RunRec] /\ \A u \in Runs : Equipped(run[u])

LEMMA RunTyped ==
    ASSUME TypeOK, Equipment, NEW w \in Runs, RunStep(w)
    PROVE  StoreOK' /\ RestOK' /\ RunsOK' /\ UNCHANGED <<rv, purge>>
<1> DEFINE Others2 == UNCHANGED <<rv, purge, queued, up, urls, sweep, recon>>
<1>0. /\ run[w] \in RunRec /\ Equipped(run[w]) /\ StoreOK /\ RestOK /\ w \in Holders
      /\ \A r : SetRun(w, r) => Others2
      /\ \A r : r \in RunRec /\ Equipped(r) /\ SetRun(w, r) => RunsOK'
  <2>1. StoreOK /\ RestOK /\ run \in [Runs -> RunRec]
    BY TypeParts
  <2>2. ASSUME NEW r, r \in RunRec, Equipped(r), SetRun(w, r) PROVE RunsOK'
    BY <2>2, Running DEF RunsOK
  <2>3. QED BY <2>1, <2>2 DEF Equipment, SetRun, RunOnly, Holders
<1> USE DEF RunRec, RunPcs, Equipped
<1>1. ASSUME NEW fetches \in BOOLEAN, TakeClaim(w, fetches) PROVE StoreOK' /\ RestOK' /\ RunsOK' /\ Others2
  <2> DEFINE r == [Idle EXCEPT !.pc = IF fetches THEN "fetch" ELSE "publish",
                               !.prev = live, !.key = IF fetches THEN NoKey ELSE live]
  <2>1. r \in RunRec /\ Equipped(r)
    BY <1>0, <1>1, KeyIs, RecordsIn DEF TakeClaim, StoreOK
  <2>2. SetRun(w, r)
    BY <1>1 DEF TakeClaim
  <2>3. RunsOK' /\ Others2
    BY <1>0, <2>1, <2>2
  <2>4. StoreOK' /\ RestOK'
    BY <1>0, <1>1, <2>3 DEF TakeClaim, StoreOK, RestOK, row, bucket
  <2>5. QED BY <2>3, <2>4
<1>2. CASE Reserve(w)
  <2>1. PICK k \in Key : /\ Minted(k) /\ ledger' = Reserved(k)
                         /\ SetRun(w, [run[w] EXCEPT !.pc = "store", !.to = k])
    BY <1>2 DEF Reserve
  <2>2. RunsOK' /\ Others2
    BY <1>0, <2>1, KeyIs
  <2>3. StoreOK' /\ RestOK'
    BY <1>0, <1>2, <2>1, <2>2, KeyIs DEF Reserve, StoreOK, RestOK, row, bucket, Reserved
  <2>4. QED BY <2>2, <2>3
<1>3. CASE Store(w)
  <2>1. SetRun(w, [run[w] EXCEPT !.pc = "publish", !.key = run[w].to]) /\ run[w].to \in Key
    BY <1>0, <1>3, KeyIs DEF Store
  <2>2. RunsOK' /\ Others2
    BY <1>0, <2>1, KeyIs
  <2>3. PICK bytes \in {run[w].to, hash} \ {NoKey} : origin' = [origin EXCEPT ![run[w].to] = bytes]
    BY <1>3 DEF Store
  <2>4. bytes \in Key
    BY <1>0, <2>1, <2>3, KeyIs DEF StoreOK
  <2>5. StoreOK' /\ RestOK'
    BY <1>0, <1>3, <2>1, <2>2, <2>3, <2>4 DEF Store, StoreOK, RestOK, row
  <2>6. QED BY <2>2, <2>5
<1>4. CASE PublishContent(w)
  <2> DEFINE moved == live = run[w].prev /\ Held(w)
  <2>1. /\ SetRun(w, [run[w] EXCEPT !.pc = IF moved THEN "gate" ELSE "leave",
                                 !.prev = NoKey, !.to = NoKey])
        /\ Publish(run[w].key, run[w].prev, origin[run[w].key], moved)
        /\ run[w].key \in Key
    BY <1>0, <1>4, KeyIs DEF PublishContent
  <2>2. RunsOK' /\ Others2
    BY <1>0, <2>1, KeyIs
  <2>3. origin[run[w].key] \in Pointer /\ moved \in BOOLEAN /\ run[w].key \in Pointer /\ run[w].prev \in Pointer
    BY <1>0, <2>1, KeyIs DEF StoreOK
  <2>4. live' \in Pointer /\ hash' \in Pointer /\ ledger' \subseteq Key /\ UNCHANGED <<external, pending>>
    BY <1>0, <2>1, <2>3, PublishTyped
  <2>5. StoreOK' /\ RestOK'
    BY <1>0, <1>4, <2>2, <2>4 DEF PublishContent, StoreOK, RestOK, bucket
  <2>6. QED BY <2>2, <2>5
<1>5. CASE Gate(w)
  <2>1. PICK pc \in {"owner", "interpret"} : Goto(w, pc) /\ run[w].pc = "gate"
    BY <1>5 DEF Gate
  <2>2. RunsOK' /\ Others2
    BY <1>0, <2>1 DEF Goto
  <2>3. StoreOK' /\ RestOK'
    BY <1>0, <1>5, <2>2 DEF Gate, StoreOK, RestOK, row, bucket
  <2>4. QED BY <2>2, <2>3
<1>6. CASE AskOwner(w)
  <2>1. CASE Owned(run[w].key)
    <3>1. PICK k \in Key : /\ Minted(k) /\ ledger' = Reserved(k)
                           /\ SetRun(w, [run[w] EXCEPT !.pc = "copy", !.to = k])
      BY <1>6, <2>1 DEF AskOwner
    <3> DEFINE r == [run[w] EXCEPT !.pc = "copy", !.to = k]
    <3>2. r \in RunRec /\ Equipped(r)
      BY <1>0, <1>6, KeyIs DEF AskOwner
    <3> HIDE DEF RunRec, Equipped
    <3>5. RunsOK' /\ Others2
      BY <1>0, <3>1, <3>2
    <3>3. StoreOK' /\ RestOK'
      <4>1. UNCHANGED <<row, preview, bucket, claim, faults>>
        BY <1>6 DEF AskOwner
      <4>2. next' \in Nat
        BY <1>0, <3>1, KeyIs DEF RestOK
      <4>3. QED BY <1>0, <3>1, <3>5, <4>1, <4>2 DEF StoreOK, RestOK, row, bucket, Reserved
    <3>4. QED BY <3>5, <3>3
  <2>2. CASE ~Owned(run[w].key)
    <3>1. Goto(w, "take") /\ run[w].pc = "owner" /\ UNCHANGED <<ledger, next>>
      BY <1>6, <2>2 DEF AskOwner
    <3>2. RunsOK' /\ Others2
      BY <1>0, <3>1 DEF Goto
    <3>3. StoreOK' /\ RestOK'
      BY <1>0, <1>6, <3>1, <3>2 DEF AskOwner, StoreOK, RestOK, row, bucket
    <3>4. QED BY <3>2, <3>3
  <2>3. QED BY <2>1, <2>2
<1>7. CASE FileTaken(w)
  <2>1. Goto(w, "interpret") /\ run[w].pc = "take"
    BY <1>7 DEF FileTaken
  <2>2. RunsOK' /\ Others2
    BY <1>0, <2>1 DEF Goto
  <2>3. ledger' \subseteq Key
    BY <1>0, <1>7 DEF FileTaken, Dropped, StoreOK
  <2>4. StoreOK' /\ RestOK'
    BY <1>0, <1>7, <2>2, <2>3 DEF FileTaken, StoreOK, RestOK, row, bucket
  <2>5. QED BY <2>2, <2>4
<1>8. CASE Copy(w)
  <2>1. /\ run[w].pc = "copy" /\ run[w].to \in Key /\ run[w].key \in Key
        /\ Goto(w, "file") \/ Goto(w, "interpret")
    BY <1>0, <1>8, KeyIs DEF Copy
  <2>2. RunsOK' /\ Others2
    BY <1>0, <2>1 DEF Goto
  <2>3. objects' \subseteq Key /\ origin' \in [Key -> Key]
    BY <1>0, <1>8, <2>1 DEF Copy, StoreOK, bucket
  <2>4. faults' \in 0..MaxFaults
    BY <1>0, <1>8, FaultCounts DEF Copy, RestOK
  <2>5. StoreOK' /\ RestOK'
    BY <1>0, <1>8, <2>2, <2>3, <2>4 DEF Copy, StoreOK, RestOK, row
  <2>6. QED BY <2>2, <2>5
<1>9. CASE FileCopied(w)
  <2> DEFINE k == run[w].key
             t == run[w].to
  <2>1. /\ SetRun(w, [run[w] EXCEPT !.pc = "interpret", !.to = NoKey])
        /\ k \in Key /\ t \in Key /\ k \in Pointer /\ t \in Pointer /\ origin[k] \in Pointer
    BY <1>0, <1>9, KeyIs DEF FileCopied, StoreOK
  <2>2. RunsOK' /\ Others2
    BY <1>0, <2>1, KeyIs
  <2>3. Publish(t, k, origin[k], TRUE) \/ UNCHANGED <<row, ledger>>
    BY <1>9 DEF FileCopied
  <2>4. /\ live' \in Pointer /\ hash' \in Pointer /\ ledger' \subseteq Key /\ external' \in BOOLEAN
        /\ pending' \in Pointer
    BY <1>0, <2>1, <2>3, PublishTyped DEF StoreOK, row
  <2>5. StoreOK' /\ RestOK'
    BY <1>0, <1>9, <2>2, <2>4 DEF FileCopied, StoreOK, RestOK, bucket
  <2>6. QED BY <2>2, <2>5
<1>10. CASE Interpret(w)
  <2>1. PICK v : IF v = 0 \/ KeyOf(v) \notin objects
                 THEN SetRun(w, [Idle EXCEPT !.pc = "leave"]) /\ UNCHANGED <<ledger, next>>
                 ELSE \E k \in Key : /\ Minted(k) /\ ledger' = Reserved(k)
                                     /\ SetRun(w, [run[w] EXCEPT !.pc = "paint", !.to = k])
    BY <1>10 DEF Interpret
  <2>2. CASE SetRun(w, [Idle EXCEPT !.pc = "leave"]) /\ UNCHANGED <<ledger, next>>
    <3>1. RunsOK' /\ Others2
      BY <1>0, <2>2, RecordsIn
    <3>2. StoreOK' /\ RestOK'
      BY <1>0, <1>10, <2>2, <3>1 DEF Interpret, StoreOK, RestOK, row, bucket
    <3>3. QED BY <3>1, <3>2
  <2>3. ASSUME NEW k \in Key, Minted(k), ledger' = Reserved(k),
               SetRun(w, [run[w] EXCEPT !.pc = "paint", !.to = k])
        PROVE  StoreOK' /\ RestOK' /\ RunsOK' /\ Others2
    <3> DEFINE r == [run[w] EXCEPT !.pc = "paint", !.to = k]
    <3>4. r \in RunRec /\ Equipped(r)
      BY <1>0, KeyIs
    <3> HIDE DEF RunRec, Equipped
    <3>1. RunsOK' /\ Others2
      BY <1>0, <2>3, <3>4
    <3>2. StoreOK' /\ RestOK'
      <4>1. UNCHANGED <<row, preview, bucket, claim, faults>>
        BY <1>10 DEF Interpret
      <4>2. next' \in Nat
        BY <1>0, <2>3, KeyIs DEF RestOK
      <4>3. QED BY <1>0, <2>3, <3>1, <4>1, <4>2 DEF StoreOK, RestOK, row, bucket, Reserved
    <3>3. QED BY <3>1, <3>2
  <2>4. QED BY <2>1, <2>2, <2>3
<1>11. CASE Paint(w)
  <2>1. Goto(w, "point") /\ run[w].pc = "paint" /\ run[w].to \in Key
    BY <1>0, <1>11, KeyIs DEF Paint
  <2>2. RunsOK' /\ Others2
    BY <1>0, <2>1 DEF Goto
  <2>3. StoreOK' /\ RestOK'
    BY <1>0, <1>11, <2>1, <2>2 DEF Paint, StoreOK, RestOK, row
  <2>4. QED BY <2>2, <2>3
<1>12. CASE Point(w)
  <2>1. SetRun(w, [Idle EXCEPT !.pc = "leave"]) /\ run[w].to \in Key
    BY <1>0, <1>12, KeyIs DEF Point
  <2>2. RunsOK' /\ Others2
    BY <1>0, <2>1, RecordsIn
  <2>3. preview' \in Pointer /\ ledger' \subseteq Key
    BY <1>0, <1>12, <2>1, KeyIs DEF Point, Parked, Dropped, StoreOK
  <2>4. StoreOK' /\ RestOK'
    BY <1>0, <1>12, <2>2, <2>3 DEF Point, StoreOK, RestOK, row, bucket
  <2>5. QED BY <2>2, <2>4
<1>13. CASE GiveUp(w)
  <2>1. SetRun(w, [Idle EXCEPT !.pc = "leave"])
    BY <1>13 DEF GiveUp
  <2>2. RunsOK' /\ Others2
    BY <1>0, <2>1, RecordsIn
  <2>3. faults' \in 0..MaxFaults
    BY <1>0, <1>13, FaultCounts DEF GiveUp, RestOK
  <2>4. StoreOK' /\ RestOK'
    BY <1>0, <1>13, <2>2, <2>3 DEF GiveUp, StoreOK, RestOK, row, bucket
  <2>5. QED BY <2>2, <2>4
<1>14. CASE Leave(w)
  <2>1. SetRun(w, Idle)
    BY <1>14 DEF Leave
  <2>2. RunsOK' /\ Others2
    BY <1>0, <2>1, RecordsIn
  <2>3. StoreOK' /\ RestOK'
    BY <1>0, <1>14, <2>2 DEF Leave, StoreOK, RestOK, row, bucket
  <2>4. QED BY <2>2, <2>3
<1>15. CASE Crash(w)
  <2>1. SetRun(w, Idle) /\ faults' \in 0..MaxFaults
    BY <1>0, <1>15, FaultCounts DEF Crash
  <2>2. RunsOK' /\ Others2
    BY <1>0, <2>1, RecordsIn
  <2>3. StoreOK' /\ RestOK'
    BY <1>0, <1>15, <2>1, <2>2 DEF Crash, StoreOK, RestOK, row, bucket
  <2>4. QED BY <2>2, <2>3
<1>16. QED BY <1>1, <1>2, <1>3, <1>4, <1>5, <1>6, <1>7, <1>8, <1>9, <1>10, <1>11, <1>12, <1>13, <1>14, <1>15
           DEF RunStep

\* What uploads, the revert, the purge and the sweep write.
LEMMA UploadTyped ==
    ASSUME TypeOK, UploadStep
    PROVE  StoreOK' /\ RestOK' /\ UNCHANGED <<run, rv, purge, versions>>
<1>0. StoreOK /\ RestOK
  BY TypeParts
<1>1. CASE PrepareForUpload
  <2>1. PICK k \in Key : Minted(k) /\ pending' = k /\ urls' = urls \cup {k}
    BY <1>1 DEF PrepareForUpload
  <2>2. next' \in Nat /\ pending' \in Pointer /\ urls' \subseteq Key
    BY <1>0, <2>1, KeyIs DEF RestOK
  <2>3. QED BY <1>0, <1>1, <2>2, KeyIs DEF PrepareForUpload, UploadOnly, StoreOK, RestOK, bucket, Parked
<1>2. CASE \E k \in Key : ClientPuts(k)
  BY <1>0, <1>2 DEF ClientPuts, UploadOnly, StoreOK, RestOK, row
<1>3. CASE UploadArrived
  BY <1>0, <1>3, KeyIs DEF UploadArrived, UploadOnly, StoreOK, RestOK, row, bucket
<1>4. CASE Promote
  <2>1. ledger' \subseteq Key
    BY <1>0, <1>4, KeyIs DEF Promote, StoreOK, Parked
  <2>2. QED BY <1>0, <1>4, <2>1, KeyIs DEF Promote, UploadOnly, StoreOK, RestOK, row, bucket
<1>5. CASE ExpirePending
  BY <1>0, <1>5, KeyIs DEF ExpirePending, UploadOnly, StoreOK, RestOK, bucket, Parked
<1>6. QED BY <1>1, <1>2, <1>3, <1>4, <1>5 DEF UploadStep

RvOK == rv \in RvRec /\ RevertEquipped

LEMMA RevertTyped ==
    ASSUME TypeOK, Equipment, RevertStep
    PROVE  StoreOK' /\ RestOK' /\ RvOK' /\ UNCHANGED <<run, purge>>
<1> DEFINE Others2 == UNCHANGED <<run, purge, queued, up, urls, sweep, recon>>
<1>0. /\ StoreOK /\ RestOK /\ RvOK /\ \A r : SetRv(r) => Others2 /\ rv' = r
      /\ "revert" \in Holders /\ "none" \notin Runs
  BY TypeParts, RunsAssumption DEF Equipment, SetRv, Holders, RvOK
<1> USE DEF RvRec, RevertEquipped
<1>1. CASE AskRevert
  <2>1. UNCHANGED <<row, preview, bucket, ledger, claim, next, faults>>
    BY <1>1 DEF AskRevert
  <2>2. PICK k \in Pointer : SetRv([pc |-> "take", key |-> k, prev |-> live, to |-> NoKey])
    <3>1. CASE live # NoKey /\ SetRv([pc |-> "take", key |-> NoKey, prev |-> live, to |-> NoKey])
      BY <3>1, KeyIs
    <3>2. CASE \E v \in WithState("active") :
                 SetRv([pc |-> "take", key |-> KeyOf(v), prev |-> live, to |-> NoKey])
      <4>1. PICK v \in WithState("active") :
                 SetRv([pc |-> "take", key |-> KeyOf(v), prev |-> live, to |-> NoKey])
        BY <3>2
      <4>2. KeyOf(v) \in Pointer
        BY VersionsAre, KeyIs DEF KeyOf, WithState
      <4>3. QED BY <4>1, <4>2
    <3>3. QED BY <1>1, <3>1, <3>2 DEF AskRevert
  <2>3. RvOK' /\ Others2
    BY <1>0, <2>2, KeyIs DEF StoreOK, RvOK
  <2>4. QED BY <1>0, <2>1, <2>3 DEF StoreOK, RestOK, row, bucket
<1>2. CASE TakeOver
  <2>1. UNCHANGED <<row, preview, bucket, faults>> /\ rv.pc = "take"
        /\ claim' \in Holders \cup {"none"}
    BY <1>0, <1>2 DEF TakeOver, RestOK
  <2>2. CASE SetRv(Idle) /\ UNCHANGED <<claim, ledger, next>>
    <3>1. RvOK' /\ Others2
      BY <1>0, <2>2, RecordsIn DEF RvOK
    <3>2. QED BY <1>0, <2>1, <2>2, <3>1 DEF StoreOK, RestOK, row, bucket
  <2>3. CASE rv.key = NoKey /\ SetRv([rv EXCEPT !.pc = "file"]) /\ UNCHANGED <<ledger, next>>
    <3>1. RvOK' /\ Others2
      <4>1. rv'.to = NoKey /\ rv' = [rv EXCEPT !.pc = "file"]
        BY <1>0, <2>1, <2>3 DEF RvOK
      <4>2. QED BY <1>0, <2>3, <4>1 DEF RvOK
    <3>2. QED BY <1>0, <2>1, <2>3, <3>1 DEF StoreOK, RestOK, row, bucket
  <2>4. CASE rv.key # NoKey /\ \E k \in Key : /\ Minted(k) /\ ledger' = Reserved(k)
                                              /\ SetRv([rv EXCEPT !.pc = "copy", !.to = k])
    <3>1. PICK k \in Key : /\ Minted(k) /\ ledger' = Reserved(k)
                           /\ SetRv([rv EXCEPT !.pc = "copy", !.to = k])
      BY <2>4
    <3>2. RvOK' /\ Others2
      <4>1. rv' = [rv EXCEPT !.pc = "copy", !.to = k] /\ k \in Pointer /\ k # NoKey
        BY <1>0, <3>1, KeyIs
      <4>2. QED BY <1>0, <2>4, <3>1, <4>1 DEF RvOK
    <3>3. next' \in Nat /\ ledger' \subseteq Key
      BY <1>0, <3>1, KeyIs DEF StoreOK, RestOK, Reserved
    <3>4. QED BY <1>0, <2>1, <3>2, <3>3 DEF StoreOK, RestOK, row, bucket
  <2>5. QED BY <1>2, <2>2, <2>3, <2>4 DEF TakeOver
<1>3. CASE CopyVersion
  <2>1. UNCHANGED <<row, preview, ledger, claim, next, faults>> /\ rv.pc = "copy"
        /\ rv.key \in Key /\ rv.to \in Key
    BY <1>0, <1>3, KeyIs DEF CopyVersion, RvOK
  <2>2. objects' \subseteq Key /\ origin' \in [Key -> Key]
    BY <1>0, <1>3, <2>1 DEF CopyVersion, StoreOK, bucket
  <2>3. PICK pc \in {"file", "leave"} : SetRv([rv EXCEPT !.pc = pc])
    BY <1>3 DEF CopyVersion
  <2>4. rv' = [rv EXCEPT !.pc = pc] /\ Others2
    BY <1>0, <2>3
  <2>5. RvOK' /\ Others2
    BY <1>0, <2>1, <2>4 DEF RvOK
  <2>6. QED BY <1>0, <2>1, <2>2, <2>5 DEF StoreOK, RestOK, row
<1>4. CASE FileReverted
  <2> DEFINE bytes == IF rv.key = NoKey THEN NoKey ELSE origin[rv.key]
  <2>1. UNCHANGED <<preview, bucket, claim, next, faults>> /\ rv.pc = "file"
        /\ (Publish(rv.to, rv.prev, bytes, TRUE) \/ UNCHANGED <<row, ledger>>)
    BY <1>4 DEF FileReverted
  <2>2. rv.to \in Pointer /\ rv.prev \in Pointer /\ bytes \in Pointer
    BY <1>0, KeyIs DEF RvOK, StoreOK
  <2>3. /\ live' \in Pointer /\ hash' \in Pointer /\ ledger' \subseteq Key /\ external' \in BOOLEAN
        /\ pending' \in Pointer
    BY <1>0, <2>1, <2>2, PublishTyped DEF StoreOK, row
  <2>4. PICK pc \in {"detach", "leave"} : SetRv([rv EXCEPT !.pc = pc, !.to = NoKey])
    <3> DEFINE sound == rv.key = NoKey \/ \E v \in WithState("active") : versions[v].key = rv.key
               done == sound /\ Held("revert") /\ live = rv.prev
    <3>1. SetRv([rv EXCEPT !.pc = IF done THEN "detach" ELSE "leave", !.to = NoKey])
      BY <1>4 DEF FileReverted
    <3> HIDE DEF sound
    <3>2. CASE done
      BY <3>1, <3>2
    <3>3. CASE ~done
      BY <3>1, <3>3
    <3>4. QED BY <3>2, <3>3
  <2>5. rv' = [rv EXCEPT !.pc = pc, !.to = NoKey] /\ Others2
    BY <1>0, <2>4
  <2>6. RvOK' /\ Others2
    BY <1>0, <2>5, KeyIs DEF RvOK
  <2>7. QED BY <1>0, <2>1, <2>3, <2>6 DEF StoreOK, RestOK, bucket
<1>5. CASE DetachRetracted
  <2>1. UNCHANGED <<row, bucket, claim, next, faults>> /\ preview' = NoKey
        /\ rv' = [rv EXCEPT !.pc = "drop", !.to = preview] /\ Others2
    BY <1>0, <1>5 DEF DetachRetracted, Detach
  <2>2. ledger' \subseteq Key
    BY <1>0, <1>5, KeyIs DEF DetachRetracted, Detach, Parked, StoreOK
  <2>3. RvOK'
    BY <1>0, <2>1 DEF RvOK, StoreOK
  <2>4. QED BY <1>0, <2>1, <2>2, <2>3, KeyIs DEF StoreOK, RestOK, row, bucket
<1>6. CASE DropRetracted
  <2>1. UNCHANGED <<row, preview, ledger, claim, next>> /\ Delete({rv.to})
        /\ rv' = [rv EXCEPT !.pc = "leave", !.to = NoKey] /\ Others2
    BY <1>0, <1>6 DEF DropRetracted
  <2>2. objects' \subseteq objects /\ origin' = origin /\ faults' \in 0..MaxFaults
    BY <1>0, <2>1, DeleteLeaves
  <2>3. RvOK'
    BY <1>0, <2>1, KeyIs DEF RvOK
  <2>4. QED BY <1>0, <2>1, <2>2, <2>3 DEF StoreOK, RestOK, row
<1>7. CASE LeaveRevert
  <2>1. RvOK' /\ Others2
    BY <1>0, <1>7, RecordsIn DEF RvOK, LeaveRevert
  <2>2. QED BY <1>0, <1>7, <2>1 DEF LeaveRevert, StoreOK, RestOK, row, bucket
<1>8. CASE RevertDies
  <2>1. RvOK' /\ Others2
    BY <1>0, <1>8, RecordsIn DEF RvOK, RevertDies
  <2>2. faults' \in 0..MaxFaults
    BY <1>0, <1>8, FaultCounts DEF RevertDies
  <2>3. QED BY <1>0, <1>8, <2>1, <2>2 DEF RevertDies, StoreOK, RestOK, row, bucket
<1>9. QED BY <1>1, <1>2, <1>3, <1>4, <1>5, <1>6, <1>7, <1>8 DEF RevertStep

PurgeOK == purge \in PurgeRec /\ (purge.pc # "idle" => purge.v \in Numbers)

LEMMA PurgeTyped ==
    ASSUME TypeOK, Equipment, PurgeStep
    PROVE  StoreOK' /\ RestOK' /\ PurgeOK' /\ UNCHANGED <<run, rv>> /\ Numbers' = Numbers
<1> DEFINE Others2 == UNCHANGED <<run, rv, queued, up, urls, sweep, recon>>
           Done == StoreOK' /\ RestOK' /\ PurgeOK' /\ UNCHANGED <<run, rv>> /\ Numbers' = Numbers
<1>0. /\ StoreOK /\ RestOK /\ PurgeOK /\ \A p : SetPurge(p) => Others2 /\ purge' = p
      /\ "purge" \in Holders /\ Numbers \subseteq Nat
      /\ versions' = versions => Numbers' = Numbers
  BY TypeParts, VersionsAre DEF Equipment, PurgeEquipped, SetPurge, Holders, PurgeOK, Numbers
\* Most of them move on with the bucket and the tables as they were.
<1>a. ASSUME NEW p, p \in PurgeRec, p.pc # "idle" => p.v \in Numbers, SetPurge(p), StoreOK',
             claim' \in Holders \cup {"none"}, next' = next, faults' \in 0..MaxFaults,
             versions' = versions
      PROVE  Done
  <2>1. Others2 /\ purge' = p /\ Numbers' = Numbers
    BY <1>0, <1>a
  <2>2. PurgeOK'
    BY <1>a, <2>1 DEF PurgeOK
  <2>3. RestOK'
    BY <1>0, <1>a, <2>1 DEF RestOK
  <2>4. QED BY <1>a, <2>1, <2>2, <2>3
<1>b. /\ UNCHANGED <<row, preview, bucket, ledger>> => StoreOK'
      /\ faults' = faults => faults' \in 0..MaxFaults
      /\ claim' \in {claim, "none", "purge"} => claim' \in Holders \cup {"none"}
  BY <1>0 DEF StoreOK, RestOK, row, bucket
<1>1. CASE \E v \in Numbers : ClaimPurge(v)
  <2>1. PICK v \in Numbers : ClaimPurge(v)
    BY <1>1
  <2>2. Numbers' = Numbers
    BY <2>1, MarkedIs DEF ClaimPurge
  <2>3. PurgeOK'
    BY <1>0, <2>1, <2>2 DEF ClaimPurge, PurgeOK
  <2>4. RestOK'
    BY <1>0, <2>1 DEF ClaimPurge, RestOK
  <2>5. QED BY <1>b, <2>1, <2>2, <2>3, <2>4 DEF ClaimPurge
<1>2. CASE JobLost \/ QueueStranded
  <2>1. /\ UNCHANGED <<row, versions, preview, bucket, ledger, next, claim, run, rv, purge, up, urls, sweep, recon>>
        /\ queued' \in BOOLEAN
    BY <1>2 DEF JobLost, QueueStranded
  <2>2. faults' \in 0..MaxFaults
    BY <1>0, <1>2, <1>b, FaultCounts DEF JobLost, QueueStranded
  <2>3. RestOK'
    BY <1>0, <2>1, <2>2 DEF RestOK
  <2>4. PurgeOK'
    BY <1>0, <2>1 DEF PurgeOK
  <2>5. QED BY <1>0, <1>b, <2>1, <2>3, <2>4
<1> DEFINE Same == UNCHANGED <<row, versions, preview, bucket, ledger, next, faults>>
<1>3. CASE StartPurge
  <2>1. PICK v \in WithState("purging") :
           LET serves == LiveVersion = v
           IN  SetPurge([pc |-> "delete", v |-> v, serves |-> serves,
                         prev |-> IF serves THEN live ELSE NoKey, to |-> NoKey])
    BY <1>3 DEF StartPurge
  <2> DEFINE p == [pc |-> "delete", v |-> v, serves |-> LiveVersion = v,
                   prev |-> IF LiveVersion = v THEN live ELSE NoKey, to |-> NoKey]
  <2>2. v \in Numbers /\ v \in Nat /\ (LiveVersion = v) \in BOOLEAN
    BY <1>0 DEF WithState
  <2>3. p \in PurgeRec /\ p.v \in Numbers
    BY <1>0, <2>2, KeyIs DEF StoreOK, PurgeRec
  <2>4. SetPurge(p) /\ Same /\ claim' = "purge"
    BY <1>3, <2>1 DEF StartPurge
  <2> HIDE DEF p
  <2>5. QED BY <1>a, <1>b, <2>3, <2>4
<1> DEFINE Step(pc, p) == purge.pc = pc /\ SetPurge(p)
<1>4. CASE DeleteVersion
  <2> DEFINE p == [purge EXCEPT !.pc = IF purge.serves THEN "detach" ELSE "lake"]
  <2>1. p \in PurgeRec /\ p.v \in Numbers
    BY <1>0, <1>4 DEF PurgeOK, PurgeRec, DeleteVersion, PurgeAt
  <2>2. SetPurge(p) /\ UNCHANGED <<row, versions, preview, origin, ledger, claim, next, faults>>
        /\ objects' \subseteq objects
    BY <1>4 DEF DeleteVersion
  <2>3. StoreOK'
    BY <1>0, <2>2 DEF StoreOK, row
  <2> HIDE DEF p
  <2>4. QED BY <1>a, <1>b, <2>1, <2>2, <2>3
<1>5. CASE DetachPurged
  <2> DEFINE p == [purge EXCEPT !.pc = "drop", !.to = preview]
  <2>1. p \in PurgeRec /\ p.v \in Numbers
    BY <1>0, <1>5 DEF PurgeOK, PurgeRec, StoreOK, DetachPurged, PurgeAt
  <2>2. SetPurge(p) /\ UNCHANGED <<row, versions, bucket, claim, next, faults>>
        /\ preview' = NoKey /\ ledger' = Parked(ledger, preview)
    BY <1>5 DEF DetachPurged, Detach
  <2>3. StoreOK'
    BY <1>0, <2>2, KeyIs DEF StoreOK, row, bucket, Parked
  <2> HIDE DEF p
  <2>4. QED BY <1>a, <1>b, <2>1, <2>2, <2>3
<1>6. CASE DropPurged
  <2> DEFINE p == [purge EXCEPT !.pc = "lake", !.to = NoKey]
  <2>1. p \in PurgeRec /\ p.v \in Numbers
    BY <1>0, <1>6, KeyIs DEF PurgeOK, PurgeRec, DropPurged, PurgeAt
  <2>2. SetPurge(p) /\ UNCHANGED <<row, versions, preview, ledger, claim, next>> /\ Delete({purge.to})
    BY <1>6 DEF DropPurged
  <2>3. objects' \subseteq objects /\ origin' = origin /\ faults' \in 0..MaxFaults
    BY <1>0, <2>2, DeleteLeaves
  <2>4. StoreOK'
    BY <1>0, <2>2, <2>3 DEF StoreOK, row
  <2> HIDE DEF p
  <2>5. QED BY <1>a, <1>b, <2>1, <2>2, <2>3, <2>4
<1>7. CASE PurgeLake
  <2> DEFINE k == KeyOf(Newest(WithState("active")))
             p == [purge EXCEPT !.pc = IF purge.serves THEN "move" ELSE "ask",
                                !.to = IF purge.serves THEN k ELSE NoKey]
  <2>1. WithState("active") \subseteq Numbers
    BY DEF WithState
  <2>2. k \in Pointer
    BY <2>1, NewestOf
  <2>3. SetPurge(p) /\ Same /\ claim' = claim /\ purge.pc = "lake"
    BY <1>7 DEF PurgeLake, PurgeAt
  <2> HIDE DEF k
  <2>4. p \in PurgeRec /\ p.v \in Numbers
    BY <1>0, <2>2, <2>3, KeyIs DEF PurgeOK, PurgeRec
  <2> HIDE DEF p
  <2>5. QED BY <1>a, <1>b, <2>3, <2>4
<1>8. CASE RestoreLive
  <2> DEFINE moved == live = purge.prev
             bytes == IF purge.to = NoKey THEN NoKey ELSE origin[purge.to]
             p == [purge EXCEPT !.pc = IF moved THEN "old" ELSE "fail", !.to = NoKey]
  <2>1. SetPurge(p) /\ UNCHANGED <<versions, preview, bucket, claim, next, faults>> /\ purge.pc = "move"
        /\ (Publish(purge.to, purge.prev, bytes, moved) \/ UNCHANGED <<row, ledger>>)
    BY <1>8 DEF RestoreLive, PurgeAt
  <2>2. purge.to \in Pointer /\ purge.prev \in Pointer /\ bytes \in Pointer /\ moved \in BOOLEAN
    BY <1>0, KeyIs DEF PurgeOK, PurgeRec, StoreOK
  <2>3. p \in PurgeRec /\ p.v \in Numbers
    BY <1>0, <2>1, KeyIs DEF PurgeOK, PurgeRec
  <2> HIDE DEF p, bytes, moved
  <2>4. /\ live' \in Pointer /\ hash' \in Pointer /\ ledger' \subseteq Key /\ external' \in BOOLEAN
        /\ pending' \in Pointer
    BY <1>0, <2>1, <2>2, PublishTyped DEF StoreOK, row
  <2>5. StoreOK'
    BY <1>0, <2>1, <2>4 DEF StoreOK, bucket
  <2>6. QED BY <1>a, <1>b, <2>1, <2>3, <2>5
<1>9. CASE DeleteServed
  <2> DEFINE p == [purge EXCEPT !.pc = "ask", !.prev = NoKey]
  <2>1. p \in PurgeRec /\ p.v \in Numbers
    BY <1>0, <1>9, KeyIs DEF PurgeOK, PurgeRec, DeleteServed, PurgeAt
  <2>2. SetPurge(p) /\ UNCHANGED <<row, versions, preview, origin, ledger, claim, next, faults>>
        /\ objects' \subseteq objects
    BY <1>9 DEF DeleteServed
  <2>3. StoreOK'
    BY <1>0, <2>2 DEF StoreOK, row
  <2> HIDE DEF p
  <2>4. QED BY <1>a, <1>b, <2>1, <2>2, <2>3
<1>10. CASE AskRebuild
  <2> DEFINE p == [purge EXCEPT !.pc = "finish"]
  <2>1. p \in PurgeRec /\ p.v \in Numbers
    BY <1>0, <1>10 DEF PurgeOK, PurgeRec, AskRebuild, PurgeAt
  <2>2. SetPurge(p) /\ Same /\ claim' = claim
    BY <1>10 DEF AskRebuild
  <2> HIDE DEF p
  <2>3. QED BY <1>a, <1>b, <2>1, <2>2
<1>11. CASE FinishPurge
  <2>1. purge.v \in Numbers
    BY <1>0, <1>11 DEF FinishPurge, PurgeAt, PurgeOK
  <2>2. versions' = [versions EXCEPT ![purge.v].state = "purged"]
    BY <1>11 DEF FinishPurge
  <2>3. Numbers' = Numbers
    BY <2>1, <2>2, MarkedIs
  <2>4. PurgeOK'
    BY <1>11, RecordsIn DEF FinishPurge, PurgeOK
  <2>5. StoreOK' /\ RestOK' /\ UNCHANGED <<run, rv>>
    BY <1>0, <1>11 DEF FinishPurge, StoreOK, RestOK, row, bucket
  <2>6. QED BY <2>3, <2>4, <2>5
<1>12. CASE PurgeFails \/ PurgeDies
  <2>1. SetPurge(NotPurging) /\ UNCHANGED <<row, versions, preview, bucket, ledger, next>>
        /\ claim' \in {claim, "none"}
    BY <1>12 DEF PurgeFails, PurgeDies
  <2>2. faults' \in 0..MaxFaults
    BY <1>0, <1>b, <1>12, FaultCounts DEF PurgeFails, PurgeDies
  <2>3. QED BY <1>a, <1>b, <2>1, <2>2, RecordsIn
<1>13. QED BY <1>1, <1>2, <1>3, <1>4, <1>5, <1>6, <1>7, <1>8, <1>9, <1>10, <1>11, <1>12 DEF PurgeStep

LEMMA LedgerTyped ==
    ASSUME TypeOK, LedgerStep
    PROVE  StoreOK' /\ RestOK' /\ UNCHANGED <<run, rv, purge, versions>>
<1>0. StoreOK /\ RestOK
  BY TypeParts
<1>1. CASE \E k \in Key : SweepLists(k)
  BY <1>0, <1>1, KeyIs DEF SweepLists, SetSweep, StoreOK, RestOK, row, bucket
<1>2. CASE SweepAsks
  BY <1>0, <1>2 DEF SweepAsks, SetSweep, StoreOK, RestOK, row, bucket
<1>3. CASE SweepDeletes
  <2>1. UNCHANGED <<row, versions, preview, origin, ledger, next>> /\ objects' \subseteq objects
        /\ \E s \in {[sweep EXCEPT !.pc = "untrack"], NoSweep} : SetSweep(s)
    BY <1>3 DEF SweepDeletes
  <2>2. faults' \in 0..MaxFaults
    BY <1>0, <1>3, FaultCounts DEF SweepDeletes, RestOK
  <2>3. sweep' \in [pc : {"idle", "ask", "delete", "untrack"}, key : Pointer]
    BY <1>0, <2>1, KeyIs DEF SetSweep, RestOK, NoSweep
  <2>4. QED BY <1>0, <2>1, <2>2, <2>3 DEF SetSweep, StoreOK, RestOK, row
<1>4. CASE SweepUntracks
  BY <1>0, <1>4, KeyIs DEF SweepUntracks, SetSweep, StoreOK, RestOK, row, bucket, NoSweep, Dropped
<1>5. CASE SweepDies
  <2>1. faults' \in 0..MaxFaults
    BY <1>0, <1>5, FaultCounts DEF SweepDies
  <2>2. QED BY <1>0, <1>5, <2>1, KeyIs DEF SweepDies, SetSweep, StoreOK, RestOK, row, bucket, NoSweep
<1>6. ASSUME NEW s, SetRecon(s), s \in [pc : {"idle", "ask", "known", "insert"}, keys : SUBSET Key],
             UNCHANGED <<row, versions, preview, bucket, next, faults>>, ledger' \subseteq Key
      PROVE  StoreOK' /\ RestOK' /\ UNCHANGED <<run, rv, purge, versions>>
  BY <1>0, <1>6 DEF SetRecon, StoreOK, RestOK, row, bucket
<1> DEFINE Recons == [pc : {"idle", "ask", "known", "insert"}, keys : SUBSET Key]
<1>7. recon \in Recons /\ objects \subseteq Key /\ ledger \subseteq Key
  BY <1>0 DEF RestOK, StoreOK
<1>8. CASE ReconLists
  BY <1>6, <1>7, <1>8 DEF ReconLists
<1>9. CASE ReconAsks
  <2> DEFINE s == [recon EXCEPT !.pc = "known", !.keys = {k \in recon.keys : ~Referenced(k)}]
  <2>1. s \in Recons
    BY <1>7
  <2> HIDE DEF s
  <2>2. SetRecon(s) /\ UNCHANGED <<row, versions, preview, bucket, ledger, next, faults>>
    BY <1>9 DEF ReconAsks, s
  <2>3. QED BY <1>6, <1>7, <2>1, <2>2
<1>10. CASE ReconKnown
  <2> DEFINE s == [recon EXCEPT !.pc = "insert", !.keys = recon.keys \ ledger]
  <2>1. s \in Recons
    BY <1>7
  <2> HIDE DEF s
  <2>2. SetRecon(s) /\ UNCHANGED <<row, versions, preview, bucket, ledger, next, faults>>
    BY <1>10 DEF ReconKnown, s
  <2>3. QED BY <1>6, <1>7, <2>1, <2>2
<1>11. CASE ReconNominates
  <2>1. ledger' \subseteq Key
    BY <1>7, <1>11 DEF ReconNominates
  <2>2. NoList \in Recons
    BY DEF NoList
  <2>3. QED BY <1>6, <1>11, <2>1, <2>2 DEF ReconNominates
<1>12. QED BY <1>1, <1>2, <1>3, <1>4, <1>5, <1>8, <1>9, <1>10, <1>11 DEF LedgerStep

-----------------------------------------------------------------------------
(* What a step comes to, for the keys and who has them *)

Calm == UNCHANGED <<live, versions, objects, next>>

\* A run takes the claim, mints a key, or lets go of what it had.
Takes(w) ==
    /\ claim = "none" /\ claim' = w /\ Calm
    /\ run'[w].pc \in {"fetch", "publish"} /\ run'[w].key \in {NoKey, live}
    /\ run'[w].pc = "publish" => run'[w].key = run'[w].prev
Mints(w) ==
    /\ next <= MaxKey /\ next' = next + 1 /\ UNCHANGED <<live, versions, objects, claim>>
    /\ run'[w].pc \in {"store", "copy", "paint"} /\ run'[w].key = run[w].key /\ run'[w].to = next
LetsGo(w) ==
    /\ Calm /\ claim' \in {claim, IF Held(w) THEN "none" ELSE claim}
    /\ run'[w].pc \in {"idle", "interpret", "leave"} /\ run'[w].key \in {run[w].key, NoKey}

\* It writes an object for its key, which is its content from then on or stays apart.
Stores(w) ==
    /\ run[w].pc = "store" /\ objects' = objects \cup {run[w].to}
    /\ UNCHANGED <<live, versions, claim, next>>
    /\ run'[w].pc = "publish" /\ run'[w].key = run[w].to
Copies(w) ==
    /\ run[w].pc \in {"copy", "paint"} /\ objects' = objects \cup {run[w].to}
    /\ UNCHANGED <<live, versions, claim, next>>
    /\ run'[w].pc \in {"file", "point"} /\ run'[w].key = run[w].key /\ run'[w].to = run[w].to

\* It serves its content, asks who owns it, and files it or a copy of it.
Serves(w) ==
    /\ run[w].pc = "publish" /\ Held(w) /\ live = run[w].prev
    /\ live' = run[w].key /\ UNCHANGED <<versions, objects, claim, next>>
    /\ run'[w].pc = "gate" /\ run'[w].key = run[w].key
Asks(w) ==
    /\ Calm /\ claim' = claim /\ run'[w].key = run[w].key
    /\ \/ run[w].pc = "gate" /\ run'[w].pc = "owner"
       \/ run[w].pc = "owner" /\ run'[w].pc = "take" /\ ~Owned(run[w].key)
FilesTaken(w) ==
    /\ run[w].pc = "take" /\ Held(w) /\ Filed(run[w].key)
    /\ UNCHANGED <<live, objects, claim, next>>
    /\ run'[w].pc = "interpret" /\ run'[w].key = run[w].key
FilesCopied(w) ==
    /\ run[w].pc = "file" /\ Held(w) /\ Filed(run[w].to) /\ live' = run[w].to
    /\ UNCHANGED <<objects, claim, next>>
    /\ run'[w].pc = "interpret" /\ run'[w].key = run[w].key

RunMoves(w) ==
    \/ Takes(w) \/ Mints(w) \/ LetsGo(w) \/ Stores(w) \/ Copies(w)
    \/ Serves(w) \/ Asks(w) \/ FilesTaken(w) \/ FilesCopied(w)

LEMMA RunIs ==
    ASSUME TypeOK, Equipment, NEW w \in Runs, RunStep(w)
    PROVE  /\ RunMoves(w)
           /\ \A u \in Runs : u # w => run'[u] = run[u]
           /\ UNCHANGED <<pending, rv, purge, up, urls>>
<1>1. /\ run[w] \in RunRec /\ run \in [Runs -> RunRec]
      /\ \A r : SetRun(w, r) => /\ run'[w] = r /\ \A u \in Runs : u # w => run'[u] = run[u]
                                /\ UNCHANGED <<rv, purge, up, urls>>
  BY TypeParts DEF SetRun, RunOnly
<1> DEFINE Kept == (\A u \in Runs : u # w => run'[u] = run[u]) /\ UNCHANGED <<pending, rv, purge, up, urls>>
<1>2. \A r : SetRun(w, r) /\ pending' = pending => Kept
  BY <1>1
<1>3. \A r : SetRun(w, r) => run'[w] = r
  BY <1>1
<1> DEFINE With(pc, k) == SetRun(w, [run[w] EXCEPT !.pc = pc, !.to = k])
           Moved(pc, k) == Kept /\ run'[w].pc = pc /\ run'[w].key = run[w].key /\ run'[w].to = k
<1>4. ASSUME NEW pc, Goto(w, pc), pending' = pending PROVE Moved(pc, run[w].to)
  <2> DEFINE r == [run[w] EXCEPT !.pc = pc]
  <2>1. r.pc = pc /\ r.key = run[w].key /\ r.to = run[w].to
    BY <1>1 DEF RunRec
  <2>2. SetRun(w, r)
    BY <1>4 DEF Goto
  <2> HIDE DEF r
  <2>3. QED BY <1>2, <1>3, <1>4, <2>1, <2>2
<1>4a. ASSUME NEW pc, NEW k, With(pc, k), pending' = pending PROVE Moved(pc, k)
  <2> DEFINE r == [run[w] EXCEPT !.pc = pc, !.to = k]
  <2>1. r.pc = pc /\ r.key = run[w].key /\ r.to = k
    BY <1>1 DEF RunRec
  <2>2. SetRun(w, r)
    BY <1>4a
  <2> HIDE DEF r
  <2>3. QED BY <1>2, <1>3, <1>4a, <2>1, <2>2
<1>4b. ASSUME NEW r \in {Idle, [Idle EXCEPT !.pc = "leave"]}, SetRun(w, r), pending' = pending
       PROVE  Kept /\ run'[w].pc \in {"idle", "leave"} /\ run'[w].key = NoKey
  <2>1. r.pc \in {"idle", "leave"} /\ r.key = NoKey
    BY DEF Idle
  <2>2. QED BY <1>2, <1>3, <1>4b, <2>1
<1>5. ASSUME NEW fetches \in BOOLEAN, TakeClaim(w, fetches) PROVE RunMoves(w) /\ Kept
  <2> DEFINE r == [Idle EXCEPT !.pc = IF fetches THEN "fetch" ELSE "publish",
                               !.prev = live, !.key = IF fetches THEN NoKey ELSE live]
  <2>1. /\ r.pc \in {"fetch", "publish"} /\ r.key \in {NoKey, live}
        /\ r.pc = "publish" => r.key = r.prev
    BY DEF Idle
  <2>2. /\ SetRun(w, r) /\ claim = "none" /\ claim' = w
        /\ UNCHANGED <<row, versions, preview, bucket, ledger, next, faults>>
    BY <1>5 DEF TakeClaim
  <2> HIDE DEF r
  <2>3. run'[w] = r /\ Kept
    BY <1>2, <1>3, <2>2 DEF row
  <2>4. Takes(w)
    BY <2>1, <2>2, <2>3 DEF Takes, Calm, row, bucket
  <2>5. QED BY <2>3, <2>4 DEF RunMoves
<1> HIDE DEF With
<1>6. ASSUME NEW pc \in {"store", "copy", "paint"}, NEW k \in Key, Minted(k), With(pc, k),
             UNCHANGED <<row, versions, bucket, claim>>
      PROVE  RunMoves(w) /\ Kept
  <2>1. Moved(pc, k)
    BY <1>4a, <1>6 DEF row
  <2>2. Mints(w)
    BY <1>6, <2>1, KeyIs DEF Mints, row, bucket
  <2>3. QED BY <2>1, <2>2 DEF RunMoves
<1>7. ASSUME Kept, run'[w].pc \in {"idle", "interpret", "leave"}, run'[w].key \in {run[w].key, NoKey},
             UNCHANGED <<live, versions, bucket, next>>,
             claim' \in {claim, IF Held(w) THEN "none" ELSE claim}
      PROVE  RunMoves(w) /\ Kept
  BY <1>7 DEF LetsGo, Calm, bucket, RunMoves
<1>8. CASE Reserve(w)
  BY <1>6, <1>8 DEF Reserve, With
<1>9. CASE Store(w)
  <2> DEFINE r == [run[w] EXCEPT !.pc = "publish", !.key = run[w].to]
  <2>1. r.pc = "publish" /\ r.key = run[w].to
    BY <1>1 DEF RunRec
  <2>2. /\ SetRun(w, r) /\ run[w].pc = "store" /\ objects' = objects \cup {run[w].to}
        /\ UNCHANGED <<row, versions, preview, ledger, claim, next, faults>>
    BY <1>9 DEF Store
  <2> HIDE DEF r
  <2>3. run'[w] = r /\ Kept
    BY <1>2, <1>3, <2>2 DEF row
  <2>4. Stores(w)
    BY <2>1, <2>2, <2>3 DEF Stores, row
  <2>5. QED BY <2>3, <2>4 DEF RunMoves
<1>10. CASE PublishContent(w)
  <2> DEFINE moved == live = run[w].prev /\ Held(w)
             r == [run[w] EXCEPT !.pc = IF moved THEN "gate" ELSE "leave", !.prev = NoKey, !.to = NoKey]
  <2>1. r.pc = (IF moved THEN "gate" ELSE "leave") /\ r.key = run[w].key
    BY <1>1 DEF RunRec
  <2>2. /\ run[w].pc = "publish" /\ SetRun(w, r)
        /\ Publish(run[w].key, run[w].prev, origin[run[w].key], moved)
        /\ UNCHANGED <<versions, preview, bucket, claim, next, faults>>
    BY <1>10 DEF PublishContent
  <2>3. pending' = pending /\ live' = IF moved THEN run[w].key ELSE live
    BY <2>2 DEF Publish
  <2> HIDE DEF r
  <2>4. run'[w] = r /\ Kept
    BY <1>2, <1>3, <2>2, <2>3
  <2>5. CASE moved
    <3>1. run'[w].pc = "gate" /\ run'[w].key = run[w].key /\ live' = run[w].key
      BY <2>1, <2>3, <2>4, <2>5
    <3>2. run[w].pc = "publish" /\ Held(w) /\ live = run[w].prev /\ UNCHANGED <<versions, objects, claim, next>>
      BY <2>2, <2>5 DEF bucket
    <3>3. Serves(w)
      BY <3>1, <3>2 DEF Serves
    <3>4. QED BY <2>4, <3>3 DEF RunMoves
  <2>6. CASE ~moved
    <3>1. run'[w].pc = "leave" /\ run'[w].key = run[w].key /\ live' = live
      BY <2>1, <2>3, <2>4, <2>6
    <3>2. UNCHANGED <<versions, bucket, claim, next>>
      BY <2>2
    <3>3. QED BY <1>7, <2>4, <3>1, <3>2
  <2>7. QED BY <2>5, <2>6
<1>11. CASE Gate(w)
  <2>1. PICK pc \in {"owner", "interpret"} : Goto(w, pc)
    BY <1>11 DEF Gate
  <2>2. run[w].pc = "gate" /\ UNCHANGED <<row, versions, preview, bucket, ledger, claim, next, faults>>
    BY <1>11 DEF Gate
  <2>3. Moved(pc, run[w].to)
    BY <1>4, <2>1, <2>2 DEF row
  <2>4. CASE pc = "owner"
    BY <2>2, <2>3, <2>4 DEF Asks, Calm, RunMoves, row, bucket
  <2>5. CASE pc = "interpret"
    BY <1>7, <2>2, <2>3, <2>5 DEF row
  <2>6. QED BY <2>4, <2>5
<1>12. CASE AskOwner(w)
  <2>1. run[w].pc = "owner" /\ UNCHANGED <<row, versions, preview, bucket, claim, faults>>
    BY <1>12 DEF AskOwner
  <2>2. CASE Owned(run[w].key)
    BY <1>6, <1>12, <2>1, <2>2 DEF AskOwner, With
  <2>3. CASE ~Owned(run[w].key)
    <3>1. Goto(w, "take") /\ next' = next
      BY <1>12, <2>3 DEF AskOwner
    <3>2. Moved("take", run[w].to)
      BY <1>4, <2>1, <3>1 DEF row
    <3>3. QED BY <2>1, <2>3, <3>1, <3>2 DEF Asks, Calm, RunMoves, row, bucket
  <2>4. QED BY <2>2, <2>3
<1>13. CASE FileTaken(w)
  <2>1. Goto(w, "interpret") /\ run[w].pc = "take" /\ UNCHANGED <<row, preview, bucket, claim, next, faults>>
    BY <1>13 DEF FileTaken
  <2>2. Moved("interpret", run[w].to)
    BY <1>4, <2>1 DEF row
  <2>3. CASE Held(w)
    <3>1. Filed(run[w].key)
      BY <1>13, <2>3 DEF FileTaken
    <3>2. QED BY <2>1, <2>2, <2>3, <3>1 DEF FilesTaken, RunMoves, row, bucket
  <2>4. CASE ~Held(w)
    <3>1. versions' = versions
      BY <1>13, <2>4 DEF FileTaken
    <3>2. QED BY <1>7, <2>1, <2>2, <3>1 DEF row
  <2>5. QED BY <2>3, <2>4
<1>14. CASE Copy(w)
  <2>1. /\ run[w].pc = "copy" /\ UNCHANGED <<row, versions, preview, ledger, claim, next>>
        /\ \/ Goto(w, "file") /\ objects' = objects \cup {run[w].to}
           \/ Goto(w, "interpret") /\ UNCHANGED bucket
    BY <1>14 DEF Copy
  <2>2. CASE Goto(w, "file") /\ objects' = objects \cup {run[w].to}
    <3>1. Goto(w, "file") /\ objects' = objects \cup {run[w].to}
      BY <2>2
    <3>2. Moved("file", run[w].to)
      BY <1>4, <2>1, <3>1 DEF row
    <3>3. QED BY <2>1, <3>1, <3>2 DEF Copies, RunMoves, row
  <2>3. CASE Goto(w, "interpret") /\ UNCHANGED bucket
    <3>1. Goto(w, "interpret") /\ UNCHANGED bucket
      BY <2>3
    <3>2. Moved("interpret", run[w].to)
      BY <1>4, <2>1, <3>1 DEF row
    <3>3. QED BY <1>7, <2>1, <3>1, <3>2 DEF row
  <2>4. QED BY <2>1, <2>2, <2>3
<1>15. CASE FileCopied(w)
  <2> DEFINE filed == ~OwnerPurging(run[w].key) /\ Held(w) /\ live = run[w].key
  <2>1. With("interpret", NoKey) /\ run[w].pc = "file" /\ UNCHANGED <<preview, bucket, claim, next, faults>>
    BY <1>15 DEF FileCopied, With
  <2>2. CASE filed
    <3>1. Filed(run[w].to) /\ Publish(run[w].to, run[w].key, origin[run[w].key], TRUE)
      BY <1>15, <2>2 DEF FileCopied
    <3>2. live' = run[w].to /\ pending' = pending
      BY <3>1 DEF Publish
    <3>3. Moved("interpret", NoKey)
      BY <1>4a, <2>1, <3>2
    <3>4. QED BY <2>1, <2>2, <3>1, <3>2, <3>3 DEF FilesCopied, RunMoves, bucket
  <2>3. CASE ~filed
    <3>1. UNCHANGED <<row, versions, ledger>>
      BY <1>15, <2>3 DEF FileCopied
    <3>2. Moved("interpret", NoKey)
      BY <1>4a, <2>1, <3>1 DEF row
    <3>3. QED BY <1>7, <2>1, <3>1, <3>2 DEF row
  <2>4. QED BY <2>2, <2>3
<1>16. CASE Interpret(w)
  <2>1. UNCHANGED <<row, versions, preview, bucket, claim, faults>>
    BY <1>16 DEF Interpret
  <2>2. PICK v : IF v = 0 \/ KeyOf(v) \notin objects
                 THEN SetRun(w, [Idle EXCEPT !.pc = "leave"]) /\ UNCHANGED <<ledger, next>>
                 ELSE \E k \in Key : Minted(k) /\ ledger' = Reserved(k) /\ With("paint", k)
    BY <1>16 DEF Interpret, With
  <2>3. CASE SetRun(w, [Idle EXCEPT !.pc = "leave"]) /\ UNCHANGED <<ledger, next>>
    BY <1>4b, <1>7, <2>1, <2>3 DEF row
  <2>4. CASE \E k \in Key : Minted(k) /\ With("paint", k)
    BY <1>6, <2>1, <2>4
  <2>5. QED BY <2>2, <2>3, <2>4
<1>17. CASE Paint(w)
  <2>1. /\ Goto(w, "point") /\ objects' = objects \cup {run[w].to} /\ run[w].pc = "paint"
        /\ UNCHANGED <<row, versions, preview, origin, ledger, claim, next, faults>>
    BY <1>17 DEF Paint
  <2>2. Moved("point", run[w].to)
    BY <1>4, <2>1 DEF row
  <2>3. QED BY <2>1, <2>2 DEF Copies, RunMoves, row
<1>18. CASE Point(w) \/ GiveUp(w)
  <2>1. SetRun(w, [Idle EXCEPT !.pc = "leave"]) /\ UNCHANGED <<row, versions, bucket, claim, next>>
    BY <1>18 DEF Point, GiveUp
  <2>2. QED BY <1>4b, <1>7, <2>1 DEF row
<1>19. CASE Leave(w) \/ Crash(w)
  <2>1. /\ SetRun(w, Idle) /\ UNCHANGED <<row, versions, bucket, next>>
        /\ claim' \in {claim, IF Held(w) THEN "none" ELSE claim}
    BY <1>19 DEF Leave, Crash
  <2>2. QED BY <1>4b, <1>7, <2>1 DEF row
<1>20. QED BY <1>5, <1>8, <1>9, <1>10, <1>11, <1>12, <1>13, <1>14, <1>15, <1>16, <1>17, <1>18, <1>19
           DEF RunStep

\* Uploads: a key of their own until it is promoted.
Prepares ==
    /\ next <= MaxKey /\ next' = next + 1 /\ pending' = next /\ urls' = urls \cup {next}
    /\ UNCHANGED <<live, objects, up>>
Puts(k) ==
    /\ k \in urls /\ urls' = urls \ {k} /\ objects' = objects \cup {k}
    /\ UNCHANGED <<live, pending, up, next>>
Arrives == pending \in objects /\ up' = pending /\ Calm /\ UNCHANGED <<pending, urls>>
Promotes ==
    /\ up # NoKey /\ pending = up /\ up' = NoKey /\ pending' = NoKey /\ live' = up
    /\ UNCHANGED <<objects, urls, next>>
Drops == up' \in {up, NoKey} /\ pending' \in {pending, NoKey} /\ Calm /\ urls' = urls

UploadMoves == Prepares \/ (\E k \in Key : Puts(k)) \/ Arrives \/ Promotes \/ Drops

LEMMA UploadIs ==
    ASSUME UploadStep
    PROVE  UploadMoves /\ UNCHANGED <<versions, claim, run, rv, purge>>
<1>0. UNCHANGED <<versions, claim, run, rv, purge>>
  BY DEF UploadStep, PrepareForUpload, ClientPuts, UploadArrived, Promote, ExpirePending, UploadOnly
<1>1. CASE PrepareForUpload
  BY <1>0, <1>1, KeyIs DEF PrepareForUpload, Prepares, UploadMoves, bucket
<1>2. CASE \E k \in Key : ClientPuts(k)
  BY <1>0, <1>2 DEF ClientPuts, Puts, UploadMoves, row
<1>3. CASE UploadArrived
  <2>1. pending \in objects /\ up' = pending /\ UNCHANGED <<row, versions, preview, bucket, ledger, urls, next, faults>>
    BY <1>3 DEF UploadArrived
  <2>2. QED BY <1>0, <2>1 DEF Arrives, UploadMoves, Calm, row, bucket
<1>4. CASE Promote
  <2>1. up # NoKey /\ up' = NoKey /\ UNCHANGED <<versions, preview, bucket, urls, next, faults>>
    BY <1>4 DEF Promote
  <2>2. CASE pending = up
    <3>1. live' = up /\ pending' = NoKey
      BY <1>4, <2>2 DEF Promote
    <3>2. QED BY <1>0, <2>1, <2>2, <3>1 DEF Promotes, UploadMoves, bucket
  <2>3. CASE pending # up
    <3>1. UNCHANGED row
      BY <1>4, <2>3 DEF Promote
    <3>2. QED BY <1>0, <2>1, <3>1 DEF Drops, Calm, UploadMoves, row, bucket
  <2>4. QED BY <2>2, <2>3
<1>5. CASE ExpirePending
  BY <1>0, <1>5 DEF ExpirePending, Drops, Calm, UploadMoves, bucket
<1>6. QED BY <1>0, <1>1, <1>2, <1>3, <1>4, <1>5 DEF UploadStep

\* The revert takes the claim over and mints a key, writes the copy, files it as
\* what is served, or empties the pointer.
TakesOver ==
    /\ claim \in Runs \cup {"none"} /\ claim' = "revert"
    /\ next <= MaxKey /\ next' = next + 1 /\ UNCHANGED <<live, versions, objects>>
    /\ rv'.pc = "copy" /\ rv'.to = next
CopiesBack ==
    /\ rv.pc = "copy" /\ objects' = objects \cup {rv.to} /\ UNCHANGED <<live, versions, claim, next>>
    /\ rv'.pc = "file" /\ rv'.to = rv.to
FilesCopyBack ==
    /\ rv.pc = "file" /\ rv.to # NoKey /\ Held("revert") /\ Filed(rv.to) /\ live' = rv.to
    /\ UNCHANGED <<objects, claim, next>> /\ rv'.pc \notin {"copy", "file"}
Empties ==
    /\ rv.pc = "file" /\ Held("revert") /\ live' = NoKey
    /\ UNCHANGED <<versions, objects, claim, next>> /\ rv'.pc \notin {"copy", "file"}
RevertLetsGo ==
    /\ UNCHANGED <<live, versions, next>> /\ objects' \subseteq objects
    /\ rv'.pc # "copy" /\ (rv'.pc = "file" => rv'.to = NoKey)
    /\ \/ claim' \in {claim, IF Held("revert") THEN "none" ELSE claim}
       \/ claim \in Runs \cup {"none"} /\ claim' = "revert"

RevertMoves == TakesOver \/ CopiesBack \/ FilesCopyBack \/ Empties \/ RevertLetsGo

LEMMA RevertIs ==
    ASSUME TypeOK, Equipment, RevertStep
    PROVE  RevertMoves /\ UNCHANGED <<pending, up, urls, run, purge>>
<1>0. /\ rv \in RvRec /\ RevertEquipped
      /\ \A r : SetRv(r) => rv' = r /\ UNCHANGED <<run, purge, up, urls>>
  BY TypeParts DEF Equipment, SetRv
<1> DEFINE Kept == UNCHANGED <<pending, up, urls, run, purge>>
           With(pc, k) == SetRv([rv EXCEPT !.pc = pc, !.to = k])
           Goes(pc) == SetRv([rv EXCEPT !.pc = pc])
<1>1. ASSUME NEW pc, NEW k, With(pc, k) PROVE rv'.pc = pc /\ rv'.to = k /\ UNCHANGED <<run, purge, up, urls>>
  <2> DEFINE r == [rv EXCEPT !.pc = pc, !.to = k]
  <2>1. r.pc = pc /\ r.to = k
    BY <1>0 DEF RvRec
  <2>2. SetRv(r)
    BY <1>1
  <2> HIDE DEF r
  <2>3. QED BY <1>0, <2>1, <2>2
<1>2. ASSUME NEW pc, Goes(pc) PROVE rv'.pc = pc /\ rv'.to = rv.to /\ UNCHANGED <<run, purge, up, urls>>
  <2> DEFINE r == [rv EXCEPT !.pc = pc]
  <2>1. r.pc = pc /\ r.to = rv.to
    BY <1>0 DEF RvRec
  <2>2. SetRv(r)
    BY <1>2
  <2> HIDE DEF r
  <2>3. QED BY <1>0, <2>1, <2>2
<1> HIDE DEF With, Goes
<1>3. CASE AskRevert
  <2>1. UNCHANGED <<row, versions, preview, bucket, ledger, claim, next, faults>>
    BY <1>3 DEF AskRevert
  <2>2. PICK k : SetRv([pc |-> "take", key |-> k, prev |-> live, to |-> NoKey])
    BY <1>3 DEF AskRevert
  <2>3. rv'.pc = "take" /\ UNCHANGED <<run, purge, up, urls>>
    BY <1>0, <2>2
  <2>4. QED BY <2>1, <2>3 DEF RevertLetsGo, RevertMoves, row, bucket
<1>4. CASE TakeOver
  <2>1. rv.pc = "take" /\ UNCHANGED <<row, versions, preview, bucket, faults>> /\ rv.to = NoKey
    BY <1>0, <1>4 DEF TakeOver, RevertEquipped
  <2>2. CASE ~(claim \in Runs \cup {"none"} /\ live = rv.prev)
    <3>1. SetRv(Idle) /\ UNCHANGED <<claim, ledger, next>>
      BY <1>4, <2>2 DEF TakeOver
    <3>2. rv'.pc = "idle" /\ UNCHANGED <<run, purge, up, urls>>
      BY <1>0, <3>1, RecordsIn
    <3>3. QED BY <2>1, <3>1, <3>2 DEF RevertLetsGo, RevertMoves, row, bucket
  <2>3. CASE claim \in Runs \cup {"none"} /\ live = rv.prev
    <3>1. claim' = "revert"
      BY <1>4, <2>3 DEF TakeOver
    <3>2. CASE rv.key = NoKey
      <4>1. Goes("file") /\ UNCHANGED <<ledger, next>>
        BY <1>4, <2>3, <3>2 DEF TakeOver, Goes
      <4>2. QED BY <1>2, <2>1, <2>3, <3>1, <4>1 DEF RevertLetsGo, RevertMoves, row, bucket
    <3>3. CASE rv.key # NoKey
      <4>1. PICK k \in Key : Minted(k) /\ With("copy", k)
        BY <1>4, <2>3, <3>3 DEF TakeOver, With
      <4>2. rv'.pc = "copy" /\ rv'.to = next /\ UNCHANGED <<run, purge, up, urls>>
        BY <1>1, <4>1, KeyIs
      <4>3. next' = next + 1 /\ next <= MaxKey
        BY <4>1, KeyIs
      <4>4. QED BY <2>1, <2>3, <3>1, <4>2, <4>3 DEF TakesOver, RevertMoves, row, bucket
    <3>4. QED BY <3>2, <3>3
  <2>4. QED BY <2>2, <2>3
<1>5. CASE CopyVersion
  <2>1. rv.pc = "copy" /\ UNCHANGED <<row, versions, preview, ledger, claim, next, faults>>
    BY <1>5 DEF CopyVersion
  <2>2. CASE rv.key \in objects
    <3>1. Goes("file") /\ objects' = objects \cup {rv.to}
      BY <1>5, <2>2 DEF CopyVersion, Goes
    <3>2. QED BY <1>2, <2>1, <3>1 DEF CopiesBack, RevertMoves, row
  <2>3. CASE rv.key \notin objects
    <3>1. Goes("leave") /\ UNCHANGED bucket
      BY <1>5, <2>3 DEF CopyVersion, Goes
    <3>2. QED BY <1>2, <2>1, <3>1 DEF RevertLetsGo, RevertMoves, row, bucket
  <2>4. QED BY <2>2, <2>3
<1>6. CASE FileReverted
  <2> DEFINE sound == rv.key = NoKey \/ \E v \in WithState("active") : versions[v].key = rv.key
             done == sound /\ Held("revert") /\ live = rv.prev
  <2>1. rv.pc = "file" /\ UNCHANGED <<preview, bucket, claim, next, faults>>
    BY <1>6 DEF FileReverted
  <2>2. CASE ~done
    <3>1. UNCHANGED <<row, versions, ledger>> /\ With("leave", NoKey)
      BY <1>6, <2>2 DEF FileReverted, With
    <3>2. QED BY <1>1, <2>1, <3>1 DEF RevertLetsGo, RevertMoves, row, bucket
  <2>3. CASE done
    <3>1. /\ Publish(rv.to, rv.prev, IF rv.key = NoKey THEN NoKey ELSE origin[rv.key], TRUE)
          /\ IF rv.key = NoKey THEN UNCHANGED versions ELSE Filed(rv.to)
          /\ With("detach", NoKey)
      BY <1>6, <2>3 DEF FileReverted, With
    <3>2. live' = rv.to /\ pending' = pending
      BY <3>1 DEF Publish
    <3>3. rv'.pc = "detach" /\ UNCHANGED <<run, purge, up, urls>>
      BY <1>1, <3>1
    <3>4. rv.key = NoKey <=> rv.to = NoKey
      BY <1>0, <2>1 DEF RevertEquipped
    <3>5. CASE rv.key = NoKey
      BY <2>1, <2>3, <3>1, <3>2, <3>3, <3>4, <3>5 DEF Empties, RevertMoves, bucket
    <3>6. CASE rv.key # NoKey
      BY <2>1, <2>3, <3>1, <3>2, <3>3, <3>4, <3>6 DEF FilesCopyBack, RevertMoves, bucket
    <3>7. QED BY <3>5, <3>6
  <2>4. QED BY <2>2, <2>3
<1>7. CASE DetachRetracted
  <2>1. With("drop", preview) /\ UNCHANGED <<row, versions, bucket, claim, next, faults>>
    BY <1>7 DEF DetachRetracted, With
  <2>2. QED BY <1>1, <2>1 DEF RevertLetsGo, RevertMoves, row, bucket
<1>8. CASE DropRetracted
  <2>1. With("leave", NoKey) /\ UNCHANGED <<row, versions, preview, ledger, claim, next>> /\ Delete({rv.to})
    BY <1>8 DEF DropRetracted, With
  <2>2. objects' \subseteq objects
    BY <2>1 DEF Delete
  <2>3. QED BY <1>1, <2>1, <2>2 DEF RevertLetsGo, RevertMoves, row
<1>9. CASE LeaveRevert \/ RevertDies
  <2>1. /\ SetRv(Idle) /\ UNCHANGED <<row, versions, bucket, next>>
        /\ claim' \in {claim, IF Held("revert") THEN "none" ELSE claim}
    BY <1>9 DEF LeaveRevert, RevertDies
  <2>2. rv'.pc = "idle" /\ UNCHANGED <<run, purge, up, urls>>
    BY <1>0, <2>1, RecordsIn
  <2>3. QED BY <2>1, <2>2 DEF RevertLetsGo, RevertMoves, row, bucket
<1>10. QED BY <1>3, <1>4, <1>5, <1>6, <1>7, <1>8, <1>9 DEF RevertStep

\* A purge is claimed, goes through its statements under the claim, and ends, or
\* stops and is begun again.
Claims(v) ==
    /\ versions[v].state = "active" /\ WithState("purging") = {}
    /\ versions' = [versions EXCEPT ![v].state = "purging"]
    /\ UNCHANGED <<live, objects, claim, purge>>
Starts ==
    /\ claim = "none" /\ claim' = "purge" /\ UNCHANGED <<live, versions, objects>>
    /\ \E v \in WithState("purging") :
          purge'.pc = "delete" /\ purge'.v = v /\ (LiveVersion = v => purge'.serves)
Deletes ==
    /\ purge.pc = "delete" /\ purge'.pc = (IF purge.serves THEN "detach" ELSE "lake")
    /\ live' = live /\ objects' = objects \ {KeyOf(purge.v)}
Passes ==
    /\ \/ purge.pc = "detach" /\ purge'.pc = "drop"
       \/ purge.pc = "drop" /\ purge'.pc = "lake"
       \/ purge.pc = "old" /\ purge'.pc = "ask"
       \/ purge.pc = "ask" /\ purge'.pc = "finish"
    /\ live' = live /\ objects' \subseteq objects
LooksBack ==
    /\ purge.pc = "lake" /\ UNCHANGED <<live, objects>>
    /\ \/ ~purge.serves /\ purge'.pc = "ask"
       \/ /\ purge.serves /\ purge'.pc = "move"
          /\ purge'.to = KeyOf(Newest(WithState("active")))
FallsBack ==
    /\ purge.pc = "move" /\ objects' = objects
    /\ \/ live = purge.prev /\ live' = purge.to /\ purge'.pc = "old"
       \/ live' = live /\ purge'.pc = "fail"
GoesOn ==
    /\ Deletes \/ Passes \/ LooksBack \/ FallsBack
    /\ purge'.v = purge.v /\ purge'.serves = purge.serves /\ UNCHANGED <<versions, claim>>
Ends ==
    /\ purge.pc = "finish" /\ purge'.pc = "idle" /\ UNCHANGED <<live, objects>>
    /\ versions' = [versions EXCEPT ![purge.v].state = "purged"]
    /\ claim' = IF Held("purge") THEN "none" ELSE claim
Stops ==
    /\ purge'.pc = "idle" /\ UNCHANGED <<live, versions, objects>>
    /\ claim' \in {claim, IF Held("purge") THEN "none" ELSE claim}
Rests == UNCHANGED <<live, versions, objects, claim, purge>>

PurgeMoves == (\E v \in Numbers : Claims(v)) \/ Starts \/ GoesOn \/ Ends \/ Stops \/ Rests

LEMMA PurgeIs ==
    ASSUME TypeOK, Equipment, PurgeStep
    PROVE  PurgeMoves /\ UNCHANGED <<pending, up, urls, run, rv, next>>
<1>0. /\ purge \in PurgeRec
      /\ \A p : SetPurge(p) => purge' = p /\ UNCHANGED <<run, rv, up, urls>>
  BY TypeParts DEF SetPurge
<1> DEFINE With(pc, k) == SetPurge([purge EXCEPT !.pc = pc, !.to = k])
           Goes(pc) == SetPurge([purge EXCEPT !.pc = pc])
           Same == purge'.v = purge.v /\ purge'.serves = purge.serves /\ UNCHANGED <<run, rv, up, urls>>
<1>1. ASSUME NEW pc, NEW k, With(pc, k) PROVE purge'.pc = pc /\ purge'.to = k /\ Same
  <2> DEFINE p == [purge EXCEPT !.pc = pc, !.to = k]
  <2>1. p.pc = pc /\ p.to = k /\ p.v = purge.v /\ p.serves = purge.serves
    BY <1>0 DEF PurgeRec
  <2>2. SetPurge(p)
    BY <1>1
  <2> HIDE DEF p
  <2>3. QED BY <1>0, <2>1, <2>2
<1>2. ASSUME NEW pc, Goes(pc) PROVE purge'.pc = pc /\ Same
  <2> DEFINE p == [purge EXCEPT !.pc = pc]
  <2>1. p.pc = pc /\ p.v = purge.v /\ p.serves = purge.serves
    BY <1>0 DEF PurgeRec
  <2>2. SetPurge(p)
    BY <1>2
  <2> HIDE DEF p
  <2>3. QED BY <1>0, <2>1, <2>2
<1> HIDE DEF With, Goes
<1>3. CASE \E v \in Numbers : ClaimPurge(v)
  BY <1>3 DEF ClaimPurge, Claims, PurgeMoves, row, bucket
<1>4. CASE JobLost \/ QueueStranded
  BY <1>4 DEF JobLost, QueueStranded, Rests, PurgeMoves, row, bucket
<1>5. CASE StartPurge
  <2>1. PICK v \in WithState("purging") :
           SetPurge([pc |-> "delete", v |-> v, serves |-> LiveVersion = v,
                     prev |-> IF LiveVersion = v THEN live ELSE NoKey, to |-> NoKey])
    BY <1>5 DEF StartPurge
  <2> DEFINE p == [pc |-> "delete", v |-> v, serves |-> LiveVersion = v,
                   prev |-> IF LiveVersion = v THEN live ELSE NoKey, to |-> NoKey]
  <2>2. p.pc = "delete" /\ p.v = v
    OBVIOUS
  <2>3. LiveVersion = v => p.serves
    OBVIOUS
  <2>4. SetPurge(p)
    BY <2>1
  <2> HIDE DEF p
  <2>5. purge' = p /\ UNCHANGED <<run, rv, up, urls>>
    BY <1>0, <2>4
  <2>6. claim = "none" /\ claim' = "purge" /\ UNCHANGED <<row, versions, preview, bucket, ledger, next, faults>>
    BY <1>5 DEF StartPurge
  <2>7. purge'.pc = "delete" /\ purge'.v = v
    BY <2>2, <2>5
  <2>8. LiveVersion = v => purge'.serves
    BY <2>3, <2>5
  <2>9. Starts
    BY <2>6, <2>7, <2>8 DEF Starts, row, bucket
  <2>10. QED BY <2>5, <2>6, <2>9 DEF PurgeMoves, row
<1>6. CASE DeleteVersion
  <2>1. /\ Goes(IF purge.serves THEN "detach" ELSE "lake") /\ purge.pc = "delete"
        /\ UNCHANGED <<row, versions, preview, origin, ledger, claim, next, faults>>
        /\ objects' = objects \ {KeyOf(purge.v)}
    BY <1>6 DEF DeleteVersion, PurgeAt, Goes
  <2>2. purge'.pc = (IF purge.serves THEN "detach" ELSE "lake") /\ Same
    BY <1>2, <2>1
  <2>3. Deletes
    BY <2>1, <2>2 DEF Deletes, row
  <2>4. QED BY <2>1, <2>2, <2>3 DEF GoesOn, PurgeMoves, row
<1>7. CASE DetachPurged
  <2>1. With("drop", preview) /\ UNCHANGED <<row, versions, bucket, claim, next, faults>> /\ purge.pc = "detach"
    BY <1>7 DEF DetachPurged, PurgeAt, With
  <2>2. QED BY <1>1, <2>1 DEF Passes, GoesOn, PurgeMoves, row, bucket
<1>8. CASE DropPurged
  <2>1. /\ With("lake", NoKey) /\ UNCHANGED <<row, versions, preview, ledger, claim, next>>
        /\ Delete({purge.to}) /\ purge.pc = "drop"
    BY <1>8 DEF DropPurged, PurgeAt, With
  <2>2. objects' \subseteq objects
    BY <2>1 DEF Delete
  <2>3. QED BY <1>1, <2>1, <2>2 DEF Passes, GoesOn, PurgeMoves, row
<1>9. CASE PurgeLake
  <2> DEFINE k == KeyOf(Newest(WithState("active")))
  <2>1. purge.pc = "lake" /\ UNCHANGED <<row, versions, preview, bucket, ledger, claim, next, faults>>
    BY <1>9 DEF PurgeLake, PurgeAt
  <2>2. CASE purge.serves
    <3>1. With("move", k)
      BY <1>9, <2>2 DEF PurgeLake, With
    <3> HIDE DEF k
    <3>2. purge'.pc = "move" /\ purge'.to = k /\ Same
      BY <1>1, <3>1
    <3>3. QED BY <2>1, <2>2, <3>2 DEF LooksBack, GoesOn, PurgeMoves, k, row, bucket
  <2>3. CASE ~purge.serves
    <3>1. With("ask", NoKey)
      BY <1>9, <2>3 DEF PurgeLake, With
    <3>2. QED BY <1>1, <2>1, <2>3, <3>1 DEF LooksBack, GoesOn, PurgeMoves, row, bucket
  <2>4. QED BY <2>2, <2>3
<1>10. CASE RestoreLive
  <2> DEFINE bytes == IF purge.to = NoKey THEN NoKey ELSE origin[purge.to]
             moved == live = purge.prev
  <2>1. purge.pc = "move" /\ UNCHANGED <<versions, preview, bucket, claim, next, faults>>
    BY <1>10 DEF RestoreLive, PurgeAt
  <2>2. CASE moved
    <3>1. Publish(purge.to, purge.prev, bytes, moved) /\ With("old", NoKey)
      BY <1>10, <2>2 DEF RestoreLive, With
    <3>2. live' = purge.to /\ pending' = pending
      BY <2>2, <3>1 DEF Publish
    <3>3. purge'.pc = "old" /\ Same
      BY <1>1, <3>1
    <3>4. QED BY <2>1, <2>2, <3>2, <3>3 DEF FallsBack, GoesOn, PurgeMoves, bucket
  <2>3. CASE ~moved
    <3>1. UNCHANGED <<row, ledger>> \/ Publish(purge.to, purge.prev, bytes, moved)
      BY <1>10, <2>3 DEF RestoreLive
    <3>2. With("fail", NoKey)
      BY <1>10, <2>3 DEF RestoreLive, With
    <3>3. live' = live /\ pending' = pending
      BY <2>3, <3>1 DEF Publish, row
    <3>4. purge'.pc = "fail" /\ Same
      BY <1>1, <3>2
    <3>5. QED BY <2>1, <3>3, <3>4 DEF FallsBack, GoesOn, PurgeMoves, bucket
  <2>4. QED BY <2>2, <2>3
<1>11. CASE DeleteServed
  <2> DEFINE p == [purge EXCEPT !.pc = "ask", !.prev = NoKey]
  <2>1. p.pc = "ask" /\ p.v = purge.v /\ p.serves = purge.serves
    BY <1>0 DEF PurgeRec
  <2>2. /\ SetPurge(p) /\ purge.pc = "old" /\ objects' \subseteq objects
        /\ UNCHANGED <<row, versions, preview, origin, ledger, claim, next, faults>>
    BY <1>11 DEF DeleteServed, PurgeAt
  <2> HIDE DEF p
  <2>3. purge'.pc = "ask" /\ Same
    BY <1>0, <2>1, <2>2
  <2>4. QED BY <2>2, <2>3 DEF Passes, GoesOn, PurgeMoves, row
<1>12. CASE AskRebuild
  <2>1. /\ Goes("finish") /\ purge.pc = "ask"
        /\ UNCHANGED <<row, versions, preview, bucket, ledger, claim, next, faults>>
    BY <1>12 DEF AskRebuild, PurgeAt, Goes
  <2>2. QED BY <1>2, <2>1 DEF Passes, GoesOn, PurgeMoves, row, bucket
<1>13. CASE FinishPurge
  <2>1. purge'.pc = "idle" /\ purge.pc = "finish" /\ UNCHANGED <<row, bucket, run, rv, up, urls, next>>
    BY <1>13, RecordsIn DEF FinishPurge, PurgeAt
  <2>2. /\ versions' = [versions EXCEPT ![purge.v].state = "purged"]
        /\ claim' = IF Held("purge") THEN "none" ELSE claim
    BY <1>13 DEF FinishPurge
  <2>3. QED BY <2>1, <2>2 DEF Ends, PurgeMoves, row, bucket
<1>14. CASE PurgeFails \/ PurgeDies
  <2>1. /\ SetPurge(NotPurging) /\ UNCHANGED <<row, versions, preview, bucket, ledger, next>>
        /\ claim' \in {claim, IF Held("purge") THEN "none" ELSE claim}
    BY <1>14 DEF PurgeFails, PurgeDies
  <2>2. purge'.pc = "idle" /\ UNCHANGED <<run, rv, up, urls>>
    BY <1>0, <2>1, RecordsIn
  <2>3. QED BY <2>1, <2>2 DEF Stops, PurgeMoves, row, bucket
<1>15. QED BY <1>3, <1>4, <1>5, <1>6, <1>7, <1>8, <1>9, <1>10, <1>11, <1>12, <1>13, <1>14 DEF PurgeStep

\* Who takes the claim from somebody, and what the ledger's jobs delete.
LosesClaim == claim' = "none" /\ (NobodyHangs => claim \in Runs \/ ~Busy(claim))

LEMMA RestIs ==
    /\ Cancel \/ GoesStale => LosesClaim /\ Calm /\ UNCHANGED <<pending, up, urls, run, rv, purge>>
    /\ LedgerStep => /\ UNCHANGED <<live, versions, next, claim, pending, up, urls, run, rv, purge>>
                     /\ objects' \subseteq objects
<1>1. Cancel \/ GoesStale => LosesClaim /\ Calm /\ UNCHANGED <<pending, up, urls, run, rv, purge>>
  BY DEF Cancel, GoesStale, LosesClaim, Calm, row, bucket, Fault, NobodyHangs
<1>2. ASSUME LedgerStep
      PROVE  /\ UNCHANGED <<live, versions, next, claim, pending, up, urls, run, rv, purge>>
             /\ objects' \subseteq objects
  <2>1. (\E s : SetSweep(s)) \/ (\E s : SetRecon(s))
    BY <1>2 DEF LedgerStep, SweepLists, SweepAsks, SweepDeletes, SweepUntracks, SweepDies,
                ReconLists, ReconAsks, ReconKnown, ReconNominates
  <2>2. UNCHANGED <<claim, up, urls, run, rv, purge>>
    BY <2>1 DEF SetSweep, SetRecon
  <2>3. UNCHANGED <<row, versions, next>> /\ objects' \subseteq objects
    BY <1>2 DEF LedgerStep, SweepLists, SweepAsks, SweepDeletes, SweepUntracks, SweepDies,
                ReconLists, ReconAsks, ReconKnown, ReconNominates, bucket
  <2>4. QED BY <2>2, <2>3 DEF row
<1>3. QED BY <1>1, <1>2

\* The whole next-state relation, by who moves.
RunPart(w) ==
    /\ RunMoves(w) /\ UNCHANGED <<pending, rv, purge, up, urls>>
    /\ \A u \in Runs : u # w => run'[u] = run[u]
UploadPart == UploadMoves /\ UNCHANGED <<versions, claim, run, rv, purge>>
RevertPart == RevertMoves /\ UNCHANGED <<pending, up, urls, run, purge>>
PurgePart == PurgeMoves /\ UNCHANGED <<pending, up, urls, run, rv, next>>
ClaimPart == LosesClaim /\ Calm /\ UNCHANGED <<pending, up, urls, run, rv, purge>>
RestPart ==
    /\ UNCHANGED <<live, versions, next, claim, pending, up, urls, run, rv, purge>>
    /\ objects' \subseteq objects
Parts ==
    \/ \E w \in Runs : RunPart(w)
    \/ UploadPart \/ RevertPart \/ PurgePart \/ ClaimPart \/ RestPart

LEMMA NextIs == ASSUME TypeOK, Equipment, [Next]_vars PROVE Parts
<1>1. ASSUME NEW w \in Runs, RunStep(w) PROVE RunPart(w)
  BY <1>1, RunIs DEF RunPart
<1>2. CASE UploadStep
  BY <1>2, UploadIs DEF Parts, UploadPart
<1>3. CASE RevertStep
  BY <1>3, RevertIs DEF Parts, RevertPart
<1>4. CASE PurgeStep
  BY <1>4, PurgeIs DEF Parts, PurgePart
<1>5. CASE Cancel \/ GoesStale
  BY <1>5, RestIs DEF Parts, ClaimPart
<1>6. CASE LedgerStep
  BY <1>6, RestIs DEF Parts, RestPart
<1>7. CASE UNCHANGED vars
  BY <1>7 DEF Parts, RestPart, vars, row, bucket, actors
<1>8. QED BY <1>1, <1>2, <1>3, <1>4, <1>5, <1>6, <1>7 DEF Next, Parts

\* Who has a key to file.
LEMMA KeysAtHand ==
    ASSUME TypeOK, Equipment
    PROVE  /\ \A w \in Runs : /\ run[w].key \in Pointer /\ run[w].to \in Pointer
                              /\ run[w].pc \in {"publish", "gate", "owner", "take", "copy", "file"}
                                    => run[w].key \in Key
                              /\ run[w].pc \in {"store", "copy", "file", "paint", "point"}
                                    => run[w].to \in Key
           /\ rv.to \in Pointer /\ live \in Pointer /\ pending \in Pointer /\ up \in Pointer
           /\ rv.pc = "copy" => rv.to \in Key
<1>1. run \in [Runs -> RunRec] /\ rv \in RvRec /\ StoreOK /\ RestOK
  BY TypeParts
<1>2. ASSUME NEW w \in Runs
      PROVE  /\ run[w].key \in Pointer /\ run[w].to \in Pointer
             /\ run[w].pc \in {"publish", "gate", "owner", "take", "copy", "file"} => run[w].key \in Key
             /\ run[w].pc \in {"store", "copy", "file", "paint", "point"} => run[w].to \in Key
  <2>1. run[w] \in RunRec /\ Equipped(run[w])
    BY <1>1 DEF Equipment
  <2>2. run[w].key \in Pointer /\ run[w].to \in Pointer
    BY <2>1 DEF RunRec
  <2>3. QED BY <2>1, <2>2, KeyIs DEF Equipped
<1>3. rv.to \in Pointer /\ (rv.pc = "copy" => rv.to \in Key)
  <2>1. rv.to \in Pointer
    BY <1>1 DEF RvRec
  <2>2. RevertEquipped
    BY DEF Equipment
  <2>3. QED BY <2>1, <2>2, KeyIs DEF RevertEquipped
<1>4. QED BY <1>1, <1>2, <1>3 DEF StoreOK, RestOK

\* One version more, one that changes its state, or none.
LEMMA VersionsMove ==
    ASSUME TypeOK, Equipment, Parts
    PROVE  \/ versions' = versions
           \/ \E k \in Key : Filed(k)
           \/ \E v \in Numbers : \E s \in {"purging", "purged"} :
                 versions' = [versions EXCEPT ![v].state = s]
<1>1. ASSUME NEW w \in Runs, RunPart(w) PROVE versions' = versions \/ \E k \in Key : Filed(k)
  <2>1. CASE FilesTaken(w)
    BY <2>1, KeysAtHand DEF FilesTaken
  <2>2. CASE FilesCopied(w)
    BY <2>2, KeysAtHand DEF FilesCopied
  <2>3. QED BY <1>1, <2>1, <2>2 DEF RunPart, RunMoves, Takes, Mints, LetsGo, Stores, Copies, Serves, Asks, Calm
<1>2. CASE RevertPart
  <2>1. CASE FilesCopyBack
    BY <2>1, KeysAtHand, KeyIs DEF FilesCopyBack
  <2>2. QED BY <1>2, <2>1 DEF RevertPart, RevertMoves, TakesOver, CopiesBack, Empties, RevertLetsGo
<1>3. CASE PurgePart
  <2>1. purge.pc = "finish" => purge.v \in Numbers
    BY DEF Equipment, PurgeEquipped
  <2>2. QED BY <1>3, <2>1 DEF PurgePart, PurgeMoves, Claims, Starts, GoesOn, Ends, Stops, Rests
<1>4. CASE UploadPart \/ ClaimPart \/ RestPart
  BY <1>4 DEF UploadPart, ClaimPart, RestPart, Calm
<1>5. QED BY <1>1, <1>2, <1>3, <1>4 DEF Parts

LEMMA VersionsTyped ==
    ASSUME TypeOK, Equipment, Parts
    PROVE  versions' \in Seq(Vs) /\ \A v \in Numbers : v \in Numbers' /\ versions'[v].key = versions[v].key
<1>0. versions \in Seq(Vs)
  BY VersionsAre
<1>1. CASE versions' = versions
  BY <1>0, <1>1 DEF Numbers
<1>2. ASSUME NEW k \in Key, Filed(k)
      PROVE  versions' \in Seq(Vs) /\ \A v \in Numbers : v \in Numbers' /\ versions'[v].key = versions[v].key
  BY <1>2, FiledIs
<1>3. ASSUME NEW v \in Numbers, NEW s \in {"purging", "purged"},
             versions' = [versions EXCEPT ![v].state = s]
      PROVE  versions' \in Seq(Vs) /\ \A u \in Numbers : u \in Numbers' /\ versions'[u].key = versions[u].key
  BY <1>3, MarkedIs
<1>4. QED BY <1>1, <1>2, <1>3, VersionsMove

LEMMA TypedStep == ASSUME TypeOK, Equipment, [Next]_vars PROVE TypeOK' /\ Equipment'
<1>1. Parts
  BY NextIs
<1>2. versions' \in Seq(Vs) /\ \A v \in Numbers : v \in Numbers'
  BY <1>1, VersionsTyped
<1>3. StoreOK /\ RestOK /\ RunsOK /\ RvOK /\ PurgeOK
  BY TypeParts DEF Equipment, RunsOK, RvOK, PurgeOK, PurgeEquipped
<1>4. UNCHANGED run => RunsOK'
  BY <1>3 DEF RunsOK
<1>5. UNCHANGED rv => RvOK'
  BY <1>3 DEF RvOK, RevertEquipped
<1>6. UNCHANGED purge => PurgeOK'
  BY <1>2, <1>3 DEF PurgeOK
<1> DEFINE Typed == StoreOK' /\ RestOK' /\ RunsOK' /\ RvOK' /\ PurgeOK'
<1>7. ASSUME NEW w \in Runs, RunStep(w) PROVE Typed
  BY <1>5, <1>6, <1>7, RunTyped
<1>8. Typed
  <2>1. CASE UploadStep
    BY <1>4, <1>5, <1>6, <2>1, UploadTyped
  <2>2. CASE RevertStep
    BY <1>4, <1>6, <2>2, RevertTyped
  <2>3. CASE PurgeStep
    BY <1>4, <1>5, <2>3, PurgeTyped
  <2>4. CASE LedgerStep
    BY <1>4, <1>5, <1>6, <2>4, LedgerTyped
  <2>5. CASE Cancel \/ GoesStale
    <3>1. StoreOK' /\ UNCHANGED <<run, rv, purge>>
      BY <1>3, <2>5 DEF Cancel, GoesStale, StoreOK, row, bucket
    <3>2. RestOK'
      BY <1>3, <2>5, FaultCounts DEF Cancel, GoesStale, RestOK
    <3>3. QED BY <1>4, <1>5, <1>6, <3>1, <3>2
  <2>6. CASE UNCHANGED vars
    <3>1. StoreOK' /\ RestOK' /\ UNCHANGED <<run, rv, purge>>
      BY <1>3, <2>6 DEF vars, row, bucket, actors, StoreOK, RestOK
    <3>2. QED BY <1>4, <1>5, <1>6, <3>1
  <2>7. QED BY <1>7, <2>1, <2>2, <2>3, <2>4, <2>5, <2>6 DEF Next
<1>9. QED BY <1>2, <1>8, TypeParts DEF Equipment, RunsOK, RvOK, PurgeOK, PurgeEquipped

-----------------------------------------------------------------------------
(* Every key has one use at a time *)

\* What a new version, or one that changes its state, means for the keys.
LEMMA StateKeys ==
    ASSUME TypeOK
    PROVE  /\ \A x \in Key : Filed(x) =>
                 /\ \A k : /\ VersionKey(k)' <=> VersionKey(k) \/ k = x
                           /\ Owned(k)' <=> Owned(k) \/ k = x
                           /\ Purged(k)' <=> Purged(k)
                 /\ WithState("purging")' = WithState("purging")
           /\ versions' = versions =>
                 /\ \A k : /\ VersionKey(k)' <=> VersionKey(k)
                           /\ Owned(k)' <=> Owned(k)
                           /\ Purged(k)' <=> Purged(k)
                 /\ WithState("purging")' = WithState("purging")
           /\ \A v \in Numbers :
                 versions[v].state = "active" /\ versions' = [versions EXCEPT ![v].state = "purging"] =>
                 /\ \A k : /\ VersionKey(k)' <=> VersionKey(k)
                           /\ Owned(k)' <=> Owned(k)
                           /\ Purged(k)' <=> Purged(k)
                 /\ WithState("purging")' = WithState("purging") \cup {v}
           /\ \A v \in Numbers :
                 versions' = [versions EXCEPT ![v].state = "purged"] =>
                 /\ \A k : /\ VersionKey(k)' <=> VersionKey(k)
                           /\ Purged(k)' <=> Purged(k) \/ k = versions[v].key
                 /\ WithState("purging")' = WithState("purging") \ {v}
<1> USE DEF VersionKey, Owned, Purged, WithState
<1>1. ASSUME NEW x \in Key, Filed(x)
      PROVE  /\ \A k : /\ VersionKey(k)' <=> VersionKey(k) \/ k = x
                       /\ Owned(k)' <=> Owned(k) \/ k = x
                       /\ Purged(k)' <=> Purged(k)
             /\ WithState("purging")' = WithState("purging")
  <2>1. PICK n \in Nat : /\ n \notin Numbers /\ Numbers' = Numbers \cup {n}
                         /\ versions'[n] = [key |-> x, state |-> "active"]
                         /\ \A v \in Numbers : versions'[v] = versions[v]
    BY <1>1, FiledIs
  <2>2. versions'[n].key = x /\ versions'[n].state = "active"
    BY <2>1
  <2>3. ASSUME NEW k PROVE VersionKey(k)' <=> VersionKey(k) \/ k = x
    BY <2>1, <2>2
  <2>4. ASSUME NEW k PROVE Owned(k)' <=> Owned(k) \/ k = x
    BY <2>1, <2>2
  <2>5. WithState("purging")' = WithState("purging")
    BY <2>1, <2>2
  <2>6. ASSUME NEW k PROVE Purged(k)' <=> Purged(k)
    BY <2>1, <2>2
  <2>7. QED BY <2>3, <2>4, <2>5, <2>6
<1>2. ASSUME versions' = versions
      PROVE  /\ \A k : /\ VersionKey(k)' <=> VersionKey(k)
                       /\ Owned(k)' <=> Owned(k)
                       /\ Purged(k)' <=> Purged(k)
             /\ WithState("purging")' = WithState("purging")
  BY <1>2 DEF Numbers
<1>3. ASSUME NEW v \in Numbers, versions[v].state = "active",
             versions' = [versions EXCEPT ![v].state = "purging"]
      PROVE  /\ \A k : /\ VersionKey(k)' <=> VersionKey(k)
                       /\ Owned(k)' <=> Owned(k)
                       /\ Purged(k)' <=> Purged(k)
             /\ WithState("purging")' = WithState("purging") \cup {v}
  <2>1. /\ Numbers' = Numbers /\ versions'[v].state = "purging"
        /\ \A u \in Numbers : versions'[u].key = versions[u].key /\ (u # v => versions'[u] = versions[u])
    BY <1>3, MarkedIs
  <2>2. QED BY <1>3, <2>1
<1>4. ASSUME NEW v \in Numbers, versions' = [versions EXCEPT ![v].state = "purged"]
      PROVE  /\ \A k : /\ VersionKey(k)' <=> VersionKey(k)
                       /\ Purged(k)' <=> Purged(k) \/ k = versions[v].key
             /\ WithState("purging")' = WithState("purging") \ {v}
  <2>1. /\ Numbers' = Numbers /\ versions'[v].state = "purged"
        /\ \A u \in Numbers : versions'[u].key = versions[u].key /\ (u # v => versions'[u] = versions[u])
    BY <1>4, MarkedIs
  <2>2. QED BY <2>1
<1>5. QED BY <1>1, <1>2, <1>3, <1>4

NoNewUse(k) ==
    /\ \A w \in Runs : OwnBy(w, k)' => OwnBy(w, k)
    /\ RvOwns(k)' => RvOwns(k)
    /\ UpOwns(k)' => UpOwns(k)
    /\ Content(k)' => Content(k)
UseMoves(k) == (NoNewUse(k) \/ Apart(k)') /\ (k >= next' => k >= next /\ NoNewUse(k))

\* A key that was somebody's alone is content afterwards, or one just minted is
\* somebody's alone.
Loose(k) == (\A w \in Runs : ~OwnBy(w, k)) /\ ~RvOwns(k) /\ ~UpOwns(k)

LEMMA LooseIsApart == ASSUME NEW k, Loose(k)' PROVE Apart(k)'
BY DEF Loose, Apart

LEMMA Counts ==
    ASSUME TypeOK
    PROVE  /\ next \in Nat
           /\ next' = next => \A k \in Key : k >= next' => k >= next
           /\ next' = next + 1 => \A k \in Key : k >= next' => k >= next /\ k # next
<1>1. next \in Nat
  BY DEF TypeOK
<1>2. QED BY <1>1, KeyIs

LEMMA RunUses ==
    ASSUME TypeOK, Equipment, Keys, NEW w \in Runs, RunPart(w), NEW k \in Key
    PROVE  UseMoves(k)
<1>1. /\ \A u \in Runs : u # w => (OwnBy(u, k)' <=> OwnBy(u, k))
      /\ RvOwns(k)' <=> RvOwns(k)
      /\ UpOwns(k)' <=> UpOwns(k)
  BY DEF RunPart, OwnBy, RvOwns, UpOwns
<1>2. k # NoKey /\ \A u \in Runs : u # w => run'[u] = run[u]
  BY KeyIs DEF RunPart
<1>3. Apart(k) /\ (k >= next => Unused(k))
  BY DEF Keys
\* Most leave the content as it is, and take no key into their own hands.
<1>4. ASSUME live' \in {live, run[w].key}, run'[w].key \in {run[w].key, NoKey, live},
             VersionKey(k)' => Content(k)
      PROVE  Content(k)' => Content(k)
  BY <1>2, <1>4 DEF Content
<1>5. run'[w].pc \notin {"store", "copy", "file", "paint", "point"} => ~OwnBy(w, k)'
  BY DEF OwnBy
<1>6. ASSUME ~OwnBy(w, k)', Content(k)' => Content(k), next' = next PROVE UseMoves(k)
  BY <1>1, <1>6, Counts DEF NoNewUse, UseMoves
<1>7. ASSUME OwnBy(w, k), run'[w].pc \in {"publish", "interpret"}, next' = next PROVE UseMoves(k)
  <2>1. ~Unused(k) /\ \A u \in Runs : u # w => ~OwnBy(u, k)
    BY <1>3, <1>7 DEF Unused, Apart
  <2>2. Loose(k)'
    BY <1>1, <1>3, <1>5, <1>7, <2>1 DEF Loose, Apart
  <2>3. QED BY <1>3, <1>7, <2>1, <2>2, LooseIsApart, Counts DEF UseMoves
<1>8. versions' = versions => (VersionKey(k)' => Content(k))
  BY StateKeys DEF Content
<1>9. CASE Takes(w)
  BY <1>4, <1>5, <1>6, <1>8, <1>9 DEF Takes, Calm
<1>10. CASE Mints(w)
  <2>1. Content(k)' => Content(k)
    BY <1>4, <1>8, <1>10 DEF Mints
  <2>2. OwnBy(w, k)' <=> k = next
    BY <1>10 DEF Mints, OwnBy
  <2>3. CASE k = next
    <3>1. Unused(k)
      BY <1>3, <2>3, Counts
    <3>2. Apart(k)'
      BY <1>1, <2>1, <3>1 DEF Unused, Apart
    <3>3. QED BY <1>10, <2>3, <3>2, Counts DEF UseMoves, Mints
  <2>4. CASE k # next
    BY <1>1, <1>10, <2>1, <2>2, <2>4, Counts DEF NoNewUse, UseMoves, Mints
  <2>5. QED BY <2>3, <2>4
<1>11. CASE LetsGo(w)
  BY <1>4, <1>5, <1>6, <1>8, <1>11 DEF LetsGo, Calm
<1>12. CASE Stores(w)
  <2>1. CASE k = run[w].to
    BY <1>7, <1>12, <2>1 DEF Stores, OwnBy
  <2>2. CASE k # run[w].to
    <3>1. Content(k)' => Content(k)
      BY <1>2, <1>8, <1>12, <2>2 DEF Stores, Content
    <3>2. QED BY <1>5, <1>6, <1>12, <3>1 DEF Stores
  <2>3. QED BY <2>1, <2>2
<1>13. CASE Copies(w)
  <2>1. Content(k)' => Content(k)
    BY <1>4, <1>8, <1>13 DEF Copies
  <2>2. OwnBy(w, k)' => OwnBy(w, k)
    BY <1>13 DEF Copies, OwnBy
  <2>3. QED BY <1>1, <1>13, <2>1, <2>2, Counts DEF NoNewUse, UseMoves, Copies
<1>14. CASE Serves(w)
  BY <1>4, <1>5, <1>6, <1>8, <1>14 DEF Serves
<1>15. CASE Asks(w)
  BY <1>4, <1>5, <1>6, <1>8, <1>15 DEF Asks, Calm
<1>16. CASE FilesTaken(w)
  <2>1. run[w].key \in Key
    BY <1>16, KeysAtHand DEF FilesTaken
  <2>2. VersionKey(k)' => Content(k)
    BY <1>16, <2>1, StateKeys DEF FilesTaken, Content
  <2>3. QED BY <1>4, <1>5, <1>6, <1>16, <2>2 DEF FilesTaken
<1>17. CASE FilesCopied(w)
  <2>1. run[w].to \in Key
    BY <1>17, KeysAtHand DEF FilesCopied
  <2>2. CASE k = run[w].to
    BY <1>7, <1>17, <2>2 DEF FilesCopied, OwnBy
  <2>3. CASE k # run[w].to
    <3>1. VersionKey(k)' => VersionKey(k)
      BY <1>17, <2>1, <2>3, StateKeys DEF FilesCopied
    <3>2. Content(k)' => Content(k)
      BY <1>2, <1>17, <2>3, <3>1 DEF FilesCopied, Content
    <3>3. QED BY <1>5, <1>6, <1>17, <3>2 DEF FilesCopied
  <2>4. QED BY <2>2, <2>3
<1>18. QED BY <1>9, <1>10, <1>11, <1>12, <1>13, <1>14, <1>15, <1>16, <1>17 DEF RunPart, RunMoves

LEMMA UploadUses ==
    ASSUME TypeOK, Equipment, Keys, UploadPart, NEW k \in Key
    PROVE  UseMoves(k)
<1>1. /\ \A u \in Runs : OwnBy(u, k)' <=> OwnBy(u, k)
      /\ RvOwns(k)' <=> RvOwns(k)
  BY DEF UploadPart, OwnBy, RvOwns
<1>2. Apart(k) /\ (k >= next => Unused(k)) /\ (k \in urls => k \notin objects /\ k # up) /\ k # NoKey
  BY KeyIs DEF Keys
<1>3. live' = live => (Content(k)' <=> Content(k))
  BY StateKeys DEF UploadPart, Content
<1>4. CASE Prepares
  <2>1. UpOwns(k)' <=> k \in urls \/ k = next \/ k = up
    BY <1>4 DEF Prepares, UpOwns
  <2>2. CASE k = next
    <3>1. Unused(k)
      BY <1>2, <2>2, Counts
    <3>2. Apart(k)'
      BY <1>1, <1>3, <1>4, <3>1 DEF Unused, Apart, Prepares
    <3>3. QED BY <1>4, <2>2, <3>2, Counts DEF UseMoves, Prepares
  <2>3. CASE k # next
    <3>1. UpOwns(k)' => UpOwns(k)
      BY <2>1, <2>3 DEF UpOwns
    <3>2. NoNewUse(k)
      BY <1>1, <1>3, <1>4, <3>1 DEF NoNewUse, Prepares
    <3>3. QED BY <1>4, <3>2, Counts DEF UseMoves, Prepares
  <2>4. QED BY <2>2, <2>3
<1>5. ASSUME live' = live, next' = next, UpOwns(k)' => UpOwns(k) PROVE UseMoves(k)
  BY <1>1, <1>3, <1>5, Counts DEF NoNewUse, UseMoves
<1>6. CASE \E q \in Key : Puts(q)
  BY <1>5, <1>6 DEF Puts, UpOwns
<1>7. CASE Arrives
  BY <1>5, <1>7 DEF Arrives, Calm, UpOwns
<1>8. CASE Drops
  BY <1>2, <1>5, <1>8 DEF Drops, Calm, UpOwns
<1>9. CASE Promotes
  <2>1. CASE k = up
    <3>1. UpOwns(k) /\ ~UpOwns(k)'
      BY <1>2, <1>9, <2>1 DEF Promotes, UpOwns
    <3>2. Loose(k)' /\ ~Unused(k)
      BY <1>1, <1>2, <3>1 DEF Loose, Apart, Unused
    <3>3. QED BY <1>2, <1>9, <3>2, LooseIsApart, Counts DEF UseMoves, Promotes
  <2>2. CASE k # up
    <3>1. Content(k)' => Content(k)
      BY <1>9, <2>2, StateKeys DEF Promotes, UploadPart, Content
    <3>2. UpOwns(k)' => UpOwns(k)
      BY <1>2, <1>9 DEF Promotes, UpOwns
    <3>3. QED BY <1>1, <1>9, <3>1, <3>2, Counts DEF NoNewUse, UseMoves, Promotes
  <2>3. QED BY <2>1, <2>2
<1>10. QED BY <1>4, <1>6, <1>7, <1>8, <1>9 DEF UploadPart, UploadMoves

LEMMA RevertUses ==
    ASSUME TypeOK, Equipment, Keys, RevertPart, NEW k \in Key
    PROVE  UseMoves(k)
<1>1. /\ \A u \in Runs : OwnBy(u, k)' <=> OwnBy(u, k)
      /\ UpOwns(k)' <=> UpOwns(k)
  BY DEF RevertPart, OwnBy, UpOwns
<1>2. Apart(k) /\ (k >= next => Unused(k)) /\ k # NoKey
  BY KeyIs DEF Keys
<1>3. live' \in {live, NoKey} /\ versions' = versions => (Content(k)' => Content(k))
  BY <1>2, StateKeys DEF RevertPart, Content
<1>4. ASSUME Content(k)' => Content(k), next' = next, RvOwns(k)' => RvOwns(k) PROVE UseMoves(k)
  BY <1>1, <1>4, Counts DEF NoNewUse, UseMoves
<1>5. CASE TakesOver
  <2>1. RvOwns(k)' <=> k = next
    BY <1>5 DEF TakesOver, RvOwns
  <2>2. CASE k = next
    <3>1. Unused(k)
      BY <1>2, <2>2, Counts
    <3>2. Apart(k)'
      BY <1>1, <1>3, <1>5, <3>1 DEF Unused, Apart, TakesOver
    <3>3. QED BY <1>5, <2>2, <3>2, Counts DEF UseMoves, TakesOver
  <2>3. CASE k # next
    BY <1>1, <1>3, <1>5, <2>1, <2>3, Counts DEF NoNewUse, UseMoves, TakesOver
  <2>4. QED BY <2>2, <2>3
<1>6. CASE CopiesBack
  BY <1>3, <1>4, <1>6 DEF CopiesBack, RvOwns
<1>7. CASE FilesCopyBack
  <2>1. rv.to \in Key /\ ~RvOwns(k)'
    BY <1>7, KeysAtHand, KeyIs DEF FilesCopyBack, RvOwns
  <2>2. CASE k = rv.to
    <3>1. RvOwns(k)
      BY <1>7, <2>2 DEF FilesCopyBack, RvOwns
    <3>2. Loose(k)' /\ ~Unused(k)
      BY <1>1, <1>2, <2>1, <3>1 DEF Loose, Apart, Unused
    <3>3. QED BY <1>2, <1>7, <3>2, LooseIsApart, Counts DEF UseMoves, FilesCopyBack
  <2>3. CASE k # rv.to
    <3>1. VersionKey(k)' => VersionKey(k)
      BY <1>7, <2>1, <2>3, StateKeys DEF FilesCopyBack
    <3>2. Content(k)' => Content(k)
      BY <1>7, <2>3, <3>1 DEF FilesCopyBack, RevertPart, Content
    <3>3. QED BY <1>4, <1>7, <2>1, <3>2 DEF FilesCopyBack
  <2>4. QED BY <2>2, <2>3
<1>8. CASE Empties
  BY <1>3, <1>4, <1>8 DEF Empties, RvOwns
<1>9. CASE RevertLetsGo
  <2>1. ~RvOwns(k)'
    BY <1>2, <1>9 DEF RevertLetsGo, RvOwns
  <2>2. QED BY <1>3, <1>4, <1>9, <2>1 DEF RevertLetsGo
<1>10. QED BY <1>5, <1>6, <1>7, <1>8, <1>9 DEF RevertPart, RevertMoves

LEMMA OtherUses ==
    ASSUME TypeOK, Equipment, PurgeSound, PurgePart \/ ClaimPart \/ RestPart, NEW k \in Key
    PROVE  NoNewUse(k) /\ UseMoves(k) /\ next' = next
<1>1. UNCHANGED <<pending, up, urls, run, rv, next>>
  BY DEF PurgePart, ClaimPart, RestPart, Calm
<1>2. /\ \A u \in Runs : OwnBy(u, k)' <=> OwnBy(u, k)
      /\ RvOwns(k)' <=> RvOwns(k)
      /\ UpOwns(k)' <=> UpOwns(k)
  BY <1>1 DEF OwnBy, RvOwns, UpOwns
<1>3. VersionKey(k)' <=> VersionKey(k)
  <2>1. CASE versions' = versions
    BY <2>1, StateKeys
  <2>2. CASE \E v \in Numbers : Claims(v)
    BY <2>2, StateKeys DEF Claims
  <2>3. CASE Ends
    <3>1. purge.v \in Numbers
      BY <2>3 DEF Ends, Equipment, PurgeEquipped
    <3>2. QED BY <2>3, <3>1, StateKeys DEF Ends
  <2>4. QED BY <2>1, <2>2, <2>3 DEF PurgePart, ClaimPart, RestPart, Calm, PurgeMoves, Starts, GoesOn, Stops, Rests
<1>4. live' = k => live = k \/ VersionKey(k)
  <2>1. CASE live' = live
    BY <2>1
  <2>2. CASE FallsBack /\ live' = purge.to
    <3>1. purge.pc = "move" /\ k # NoKey
      BY <2>2, KeyIs DEF FallsBack
    <3>2. live' = k => \E n \in WithState("active") : versions[n].key = k
      BY <2>2, <3>1 DEF PurgeSound
    <3>3. QED BY <3>2 DEF VersionKey, WithState
  <2>3. QED BY <2>1, <2>2 DEF PurgePart, ClaimPart, RestPart, Calm, PurgeMoves, Claims, Starts, GoesOn,
                Deletes, Passes, LooksBack, FallsBack, Ends, Stops, Rests
<1>5. Content(k)' => Content(k)
  BY <1>1, <1>3, <1>4 DEF Content
<1>6. QED BY <1>1, <1>2, <1>5, Counts DEF NoNewUse, UseMoves

LEMMA UsesMove ==
    ASSUME TypeOK, Equipment, Keys, PurgeSound, Parts
    PROVE  \A k \in Key : UseMoves(k)
BY RunUses, UploadUses, RevertUses, OtherUses DEF Parts

\* An object is written only for a key that is somebody's own.
LEMMA ObjectsMove ==
    ASSUME TypeOK, Equipment, Parts, NEW k \in Key, k \in objects', k \notin objects
    PROVE  (\E w \in Runs : OwnBy(w, k)) \/ RvOwns(k) \/ (k \in urls /\ k \notin urls')
<1>1. ASSUME NEW w \in Runs, RunPart(w) PROVE OwnBy(w, k)
  <2>1. CASE Stores(w)
    BY <2>1 DEF Stores, OwnBy
  <2>2. CASE Copies(w)
    BY <2>2 DEF Copies, OwnBy
  <2>3. QED BY <1>1, <2>1, <2>2
            DEF RunPart, RunMoves, Takes, Mints, LetsGo, Serves, Asks, FilesTaken, FilesCopied, Calm
<1>2. CASE UploadPart
  BY <1>2 DEF UploadPart, UploadMoves, Prepares, Puts, Arrives, Promotes, Drops, Calm
<1>3. CASE RevertPart
  BY <1>3 DEF RevertPart, RevertMoves, TakesOver, CopiesBack, FilesCopyBack, Empties, RevertLetsGo, RvOwns
<1>4. CASE PurgePart \/ ClaimPart \/ RestPart
  BY <1>4 DEF PurgePart, ClaimPart, RestPart, Calm, PurgeMoves, Claims, Starts, GoesOn, Deletes, Passes,
     LooksBack, FallsBack, Ends, Stops, Rests
<1>5. QED BY <1>1, <1>2, <1>3, <1>4 DEF Parts

LEMMA WrittenIsNoVersion ==
    ASSUME TypeOK, Equipment, Keys, Parts, NEW k \in Key, VersionKey(k), k \in objects'
    PROVE  k \in objects
<1>1. Apart(k) /\ Content(k)
  BY DEF Keys, Content
<1>2. QED BY <1>1, ObjectsMove DEF Apart, UpOwns

\* How the URLs and the upload's key change.
LEMMA UrlsMove ==
    ASSUME Parts
    PROVE  /\ next' = next \/ next' = next + 1
           /\ \A k \in urls' : \/ k \in urls
                               \/ k = next /\ next' = next + 1 /\ objects' = objects /\ up' = up
           /\ \/ up' \in {up, NoKey}
              \/ up' \in objects /\ objects' = objects /\ urls' = urls
<1>1. CASE \E w \in Runs : RunPart(w)
  BY <1>1 DEF RunPart, RunMoves, Takes, Mints, LetsGo, Stores, Copies, Serves, Asks, FilesTaken,
              FilesCopied, Calm
<1>2. CASE UploadPart
  BY <1>2 DEF UploadPart, UploadMoves, Prepares, Puts, Arrives, Promotes, Drops, Calm
<1>3. CASE RevertPart
  BY <1>3 DEF RevertPart, RevertMoves, TakesOver, CopiesBack, FilesCopyBack, Empties, RevertLetsGo
<1>4. CASE PurgePart \/ ClaimPart \/ RestPart
  BY <1>4 DEF PurgePart, ClaimPart, RestPart, Calm
<1>5. QED BY <1>1, <1>2, <1>3, <1>4 DEF Parts

LEMMA KeysKept ==
    ASSUME TypeOK, Equipment, Keys, PurgeSound, Parts
    PROVE  Keys'
<1> SUFFICES ASSUME NEW k \in Key
             PROVE  /\ Apart(k)'
                    /\ k \in urls' => k \notin objects' /\ k # up'
                    /\ k >= next' => Unused(k)' /\ k \notin objects'
  BY DEF Keys
<1>1. Apart(k) /\ (k \in urls => k \notin objects /\ k # up) /\ (k >= next => Unused(k) /\ k \notin objects)
      /\ k # NoKey
  BY KeyIs DEF Keys
<1>2. UseMoves(k)
  BY UsesMove
<1>3. Apart(k)'
  BY <1>1, <1>2 DEF UseMoves, NoNewUse, Apart
<1>4. ASSUME k >= next' PROVE Unused(k)' /\ k \notin objects'
  <2>1. k >= next /\ NoNewUse(k)
    BY <1>2, <1>4 DEF UseMoves
  <2>2. Unused(k) /\ k \notin objects
    BY <1>1, <2>1
  <2>3. k \notin objects'
    BY <2>2, ObjectsMove DEF Unused, UpOwns
  <2>4. QED BY <2>1, <2>2, <2>3 DEF Unused, NoNewUse
<1>5. ASSUME k \in urls' PROVE k \notin objects' /\ k # up'
  <2>1. CASE k \in urls
    <3>1. UpOwns(k)
      BY <2>1 DEF UpOwns
    <3>2. ~RvOwns(k) /\ \A w \in Runs : ~OwnBy(w, k)
      BY <1>1, <3>1 DEF Apart
    <3>3. k \notin objects'
      BY <1>1, <1>5, <2>1, <3>2, ObjectsMove
    <3>4. k # up'
      BY <1>1, <2>1, UrlsMove
    <3>5. QED BY <3>3, <3>4
  <2>2. CASE k \notin urls
    <3>1. k = next /\ objects' = objects /\ up' = up
      BY <1>5, <2>2, UrlsMove
    <3>2. Unused(k) /\ k \notin objects
      BY <1>1, <3>1, Counts
    <3>3. QED BY <3>1, <3>2 DEF Unused, UpOwns
  <2>3. QED BY <2>1, <2>2
<1>6. QED BY <1>3, <1>4, <1>5

-----------------------------------------------------------------------------
(* What is served and what is filed *)

LEMMA ClaimsMove ==
    ASSUME Parts
    PROVE  /\ \A w \in Runs : Held(w)' => Held(w) \/ Takes(w)
           /\ NobodyHangs /\ Held("purge") /\ purge.pc # "idle" =>
                 Held("purge")' \/ (PurgePart /\ purge'.pc = "idle")
<1>0. "none" \notin Runs /\ "revert" \notin Runs /\ "purge" \notin Runs
  BY RunsAssumption
<1>1. ASSUME NEW w \in Runs, RunPart(w)
      PROVE  claim' = claim \/ (Held(w) /\ claim' = "none") \/ (claim = "none" /\ claim' = w /\ Takes(w))
  BY <1>1 DEF RunPart, RunMoves, Takes, Mints, LetsGo, Stores, Copies, Serves, Asks, FilesTaken, FilesCopied
<1>2. CASE \E w \in Runs : RunPart(w)
  BY <1>0, <1>1, <1>2 DEF Held
<1>3. CASE RevertPart
  <2>1. claim' = claim \/ (Held("revert") /\ claim' = "none") \/ (claim \in Runs \cup {"none"} /\ claim' = "revert")
    BY <1>3 DEF RevertPart, RevertMoves, TakesOver, CopiesBack, FilesCopyBack, Empties, RevertLetsGo
  <2>2. QED BY <1>0, <2>1 DEF Held
<1>4. CASE PurgePart
  <2>1. /\ claim' \in {claim, "none"} \/ (claim = "none" /\ claim' = "purge")
        /\ claim' = claim \/ purge'.pc = "idle" \/ claim' = "purge"
    BY <1>4 DEF PurgePart, PurgeMoves, Claims, Starts, GoesOn, Ends, Stops, Rests
  <2>2. QED BY <1>0, <1>4, <2>1 DEF Held
<1>5. CASE ClaimPart
  BY <1>0, <1>5 DEF ClaimPart, LosesClaim, Busy, Held
<1>6. CASE UploadPart \/ RestPart
  BY <1>6 DEF UploadPart, RestPart, Held
<1>7. QED BY <1>2, <1>3, <1>4, <1>5, <1>6 DEF Parts

\* Whoever moves the pointer or files a version, and has not the claim, is a purge
\* or an upload.
WorldMoves ==
    \/ UNCHANGED <<live, versions>>
    \/ \E w \in Runs : FilesTaken(w) \/ FilesCopied(w) \/ Serves(w)
    \/ FilesCopyBack \/ Empties
    \/ \E v \in Numbers : Claims(v)
    \/ Ends
    \/ GoesOn /\ FallsBack
    \/ Promotes /\ versions' = versions

LEMMA WorldIs == ASSUME Parts PROVE WorldMoves
<1>1. ASSUME NEW w \in Runs, RunPart(w) PROVE WorldMoves
  BY <1>1 DEF RunPart, RunMoves, Takes, Mints, LetsGo, Stores, Copies, Asks, Calm, WorldMoves
<1>2. CASE UploadPart
  BY <1>2 DEF UploadPart, UploadMoves, Prepares, Puts, Arrives, Drops, Calm, WorldMoves
<1>3. CASE RevertPart
  BY <1>3 DEF RevertPart, RevertMoves, TakesOver, CopiesBack, RevertLetsGo, WorldMoves
<1>4. CASE PurgePart
  <2>1. CASE GoesOn
    BY <2>1 DEF GoesOn, Deletes, Passes, LooksBack, WorldMoves
  <2>2. QED BY <1>4, <2>1 DEF PurgePart, PurgeMoves, Starts, Stops, Rests, WorldMoves
<1>5. CASE ClaimPart \/ RestPart
  BY <1>5 DEF ClaimPart, RestPart, Calm, WorldMoves
<1>6. QED BY <1>1, <1>2, <1>3, <1>4, <1>5 DEF Parts

\* A key that is somebody's own is neither served nor a version's.
LEMMA OwnIsNobodys ==
    ASSUME Keys, NEW k \in Key
    PROVE  /\ \A w \in Runs : OwnBy(w, k) => ~VersionKey(k) /\ ~Purged(k) /\ live # k
           /\ RvOwns(k) => ~VersionKey(k) /\ ~Purged(k) /\ live # k
           /\ UpOwns(k) => ~VersionKey(k) /\ ~Purged(k) /\ ~Owned(k)
<1>1. Apart(k)
  BY DEF Keys
<1>2. Purged(k) \/ Owned(k) => VersionKey(k)
  BY DEF Purged, Owned, VersionKey, WithState
<1>3. QED BY <1>1, <1>2 DEF Apart, Content

LEMMA RunSoundKept ==
    ASSUME StorageInv, Parts, NEW w \in Runs
    PROVE  RunSound(w)'
<1>0. /\ TypeOK /\ Equipment /\ Keys /\ RunSound(w) /\ PurgeSound /\ PurgedGone
      /\ "none" \notin Runs /\ "revert" \notin Runs /\ "purge" \notin Runs
  BY RunsAssumption DEF StorageInv
<1> DEFINE r == run[w]
           s == run'[w]
<1>a. PICK k : k = s.key
  OBVIOUS
<1>b. PICK m : m = live'
  OBVIOUS
<1> DEFINE Sound == /\ k # NoKey => ~Purged(k)'
                    /\ s.pc = "publish" => k = s.prev \/ ~VersionKey(k)'
                    /\ s.pc \in {"gate", "owner", "take"} => m = k \/ ~Owned(m)'
                    /\ s.pc = "take" => ~Owned(k)'
<1> SUFFICES ASSUME Held(w)' PROVE Sound
  BY <1>a, <1>b DEF RunSound, Held, Purged, VersionKey, Owned, WithState
<1> HIDE DEF Sound
<1>1. CASE ~Held(w)
  <2>1. Takes(w)
    BY <1>1, ClaimsMove
  <2>2. /\ m = live /\ versions' = versions /\ s.pc \in {"fetch", "publish"}
        /\ k \in {NoKey, live} /\ (s.pc = "publish" => k = s.prev)
    BY <1>a, <1>b, <2>1 DEF Takes, Calm
  <2>3. live # NoKey => ~Purged(live)
    BY <1>0 DEF PurgedGone, Purged
  <2>4. \A q : Purged(q)' <=> Purged(q)
    BY <1>0, <2>2, StateKeys
  <2>5. QED BY <2>2, <2>3, <2>4 DEF Sound
<1>2. CASE Held(w)
  <2>1. /\ ~Held("revert") /\ ~Held("purge") /\ claim # "none" /\ claim' # "none" /\ claim' # "revert"
        /\ \A u \in Runs : u # w => ~Held(u)
    BY <1>0, <1>2 DEF Held
  <2>2. purge.pc = "idle"
    BY <1>0, <2>1 DEF PurgeSound
  <2>3. /\ r.key # NoKey => ~Purged(r.key)
        /\ r.pc = "publish" => r.key = r.prev \/ ~VersionKey(r.key)
        /\ r.pc \in {"gate", "owner", "take"} => live = r.key \/ ~Owned(live)
        /\ r.pc = "take" => ~Owned(r.key)
    BY <1>0, <1>2 DEF RunSound
  <2> DEFINE SameKeys == \A q : /\ VersionKey(q)' <=> VersionKey(q)
                                /\ Owned(q)' <=> Owned(q)
                                /\ Purged(q)' <=> Purged(q)
  <2>4. ASSUME s = r, SameKeys, m = live \/ ~Owned(m)' PROVE Sound
    BY <1>a, <2>3, <2>4 DEF Sound
  <2>5. versions' = versions => SameKeys
    BY <1>0, StateKeys
  <2>6. CASE RunPart(w)
    <3>1. CASE Takes(w)
      BY <2>1, <3>1 DEF Takes
    <3>2. CASE Mints(w) \/ Copies(w)
      <4>1. k = r.key /\ versions' = versions /\ s.pc \in {"store", "copy", "paint", "file", "point"}
        BY <1>a, <1>b, <3>2 DEF Mints, Copies
      <4>2. QED BY <2>3, <2>5, <4>1 DEF Sound
    <3>3. CASE LetsGo(w)
      <4>1. k \in {r.key, NoKey} /\ versions' = versions /\ s.pc \in {"idle", "interpret", "leave"}
        BY <1>a, <1>b, <3>3 DEF LetsGo, Calm
      <4>2. QED BY <2>3, <2>5, <4>1 DEF Sound
    <3>4. CASE Stores(w)
      <4>1. k = r.to /\ versions' = versions /\ s.pc = "publish" /\ OwnBy(w, r.to) /\ r.to \in Key
        BY <1>a, <1>b, <1>0, <3>4, KeysAtHand DEF Stores, OwnBy
      <4>2. ~VersionKey(r.to) /\ ~Purged(r.to)
        BY <1>0, <4>1, OwnIsNobodys
      <4>3. QED BY <2>5, <4>1, <4>2 DEF Sound
    <3>5. CASE Serves(w)
      <4>1. k = r.key /\ versions' = versions /\ s.pc = "gate" /\ m = r.key
        BY <1>a, <1>b, <3>5 DEF Serves
      <4>2. QED BY <2>3, <2>5, <4>1 DEF Sound
    <3>6. CASE Asks(w)
      <4>1. /\ k = r.key /\ versions' = versions /\ m = live
            /\ (r.pc = "gate" /\ s.pc = "owner") \/ (r.pc = "owner" /\ s.pc = "take" /\ ~Owned(r.key))
        BY <1>a, <1>b, <3>6 DEF Asks, Calm
      <4>2. QED BY <2>3, <2>5, <4>1 DEF Sound
    <3>7. CASE FilesTaken(w) \/ FilesCopied(w)
      <4>1. k = r.key /\ s.pc = "interpret" /\ \E q \in Key : Filed(q)
        BY <1>a, <1>b, <1>0, <3>7, KeysAtHand DEF FilesTaken, FilesCopied
      <4>2. Purged(k)' <=> Purged(k)
        BY <1>0, <4>1, StateKeys
      <4>3. QED BY <2>3, <4>1, <4>2 DEF Sound
    <3>8. QED BY <2>6, <3>1, <3>2, <3>3, <3>4, <3>5, <3>6, <3>7 DEF RunPart, RunMoves
  <2>7. CASE ~RunPart(w)
    <3>1. s = r
      BY <2>7 DEF Parts, RunPart, UploadPart, RevertPart, PurgePart, ClaimPart, RestPart
    <3>2. CASE UNCHANGED <<live, versions>>
      BY <1>b, <2>4, <2>5, <3>1, <3>2
    <3>3. CASE \E u \in Runs : FilesTaken(u) \/ FilesCopied(u) \/ Serves(u)
      <4>1. PICK u \in Runs : FilesTaken(u) \/ FilesCopied(u) \/ Serves(u)
        BY <3>3
      <4>2. u = w /\ r.pc \in {"take", "file", "publish"} /\ s.pc \in {"interpret", "gate"}
        BY <2>1, <4>1 DEF FilesTaken, FilesCopied, Serves
      <4>3. QED BY <3>1, <4>2
    <3>4. CASE FilesCopyBack \/ Empties
      BY <2>1, <3>4 DEF FilesCopyBack, Empties
    <3>5. CASE \E v \in Numbers : Claims(v)
      BY <1>0, <1>b, <2>4, <3>1, <3>5, StateKeys DEF Claims
    <3>6. CASE Ends \/ (GoesOn /\ FallsBack)
      BY <2>2, <3>6 DEF Ends, FallsBack
    <3>7. CASE Promotes /\ versions' = versions
      <4>1. m = up /\ up \in Key /\ UpOwns(up)
        BY <1>a, <1>b, <1>0, <3>7, KeysAtHand, KeyIs DEF Promotes, UpOwns
      <4>2. ~Owned(m)'
        BY <1>0, <2>5, <3>7, <4>1, OwnIsNobodys
      <4>3. QED BY <2>4, <2>5, <3>1, <3>7, <4>2
    <3>8. QED BY <3>2, <3>3, <3>4, <3>5, <3>6, <3>7, WorldIs DEF WorldMoves
  <2>8. QED BY <2>6, <2>7
<1>3. QED BY <1>1, <1>2

\* What is filed has a key no version has had.
LEMMA FiledIsNew ==
    ASSUME StorageInv
    PROVE  /\ \A w \in Runs : FilesTaken(w) =>
                 /\ run[w].key \in Key /\ Filed(run[w].key) /\ ~VersionKey(run[w].key)
                 /\ live' = live /\ (~Owned(live) \/ live = run[w].key)
           /\ \A w \in Runs : FilesCopied(w) =>
                 /\ run[w].to \in Key /\ Filed(run[w].to) /\ ~VersionKey(run[w].to)
                 /\ live' = run[w].to
           /\ FilesCopyBack => /\ rv.to \in Key /\ Filed(rv.to) /\ ~VersionKey(rv.to)
                               /\ live' = rv.to
<1>0. TypeOK /\ Equipment /\ Keys /\ \A w \in Runs : RunSound(w)
  BY DEF StorageInv
<1>1. ASSUME NEW w \in Runs, FilesTaken(w)
      PROVE  /\ run[w].key \in Key /\ Filed(run[w].key) /\ ~VersionKey(run[w].key)
             /\ live' = live /\ (~Owned(live) \/ live = run[w].key)
  <2>1. run[w].pc = "take" /\ Held(w) /\ Filed(run[w].key) /\ live' = live /\ run[w].key \in Key
    BY <1>0, <1>1, KeysAtHand DEF FilesTaken
  <2>2. ~Purged(run[w].key) /\ ~Owned(run[w].key) /\ (live = run[w].key \/ ~Owned(live))
    BY <1>0, <2>1, KeyIs DEF RunSound
  <2>3. ~VersionKey(run[w].key)
    BY <2>2 DEF Purged, Owned, VersionKey, WithState
  <2>4. QED BY <2>1, <2>2, <2>3
<1>2. ASSUME NEW w \in Runs, FilesCopied(w)
      PROVE  /\ run[w].to \in Key /\ Filed(run[w].to) /\ ~VersionKey(run[w].to)
             /\ live' = run[w].to
  <2>1. run[w].to \in Key /\ OwnBy(w, run[w].to)
    BY <1>0, <1>2, KeysAtHand DEF FilesCopied, OwnBy
  <2>2. QED BY <1>0, <1>2, <2>1, OwnIsNobodys DEF FilesCopied
<1>3. ASSUME FilesCopyBack
      PROVE  /\ rv.to \in Key /\ Filed(rv.to) /\ ~VersionKey(rv.to)
             /\ live' = rv.to
  <2>1. rv.to \in Key /\ RvOwns(rv.to)
    BY <1>0, <1>3, KeysAtHand, KeyIs DEF FilesCopyBack, RvOwns
  <2>2. QED BY <1>0, <1>3, <2>1, OwnIsNobodys DEF FilesCopyBack
<1>4. QED BY <1>1, <1>2, <1>3

\* The kinds of change a version table and the pointer go through.
NewVersion(k) ==
    /\ Filed(k) /\ ~VersionKey(k)
    /\ live' = k \/ (live' = live /\ (live = k \/ ~Owned(live)))

LEMMA TableMoves ==
    ASSUME StorageInv, Parts
    PROVE  \/ versions' = versions
           \/ \E k \in Key : NewVersion(k)
           \/ \E v \in Numbers : Claims(v)
           \/ Ends /\ purge.v \in Numbers
<1>0. Equipment
  BY DEF StorageInv
<1>1. Ends => purge.v \in Numbers
  BY <1>0 DEF Ends, Equipment, PurgeEquipped
<1>2. ASSUME NEW w \in Runs, FilesTaken(w) \/ FilesCopied(w) PROVE \E k \in Key : NewVersion(k)
  BY <1>2, FiledIsNew DEF NewVersion
<1>3. FilesCopyBack => \E k \in Key : NewVersion(k)
  BY FiledIsNew DEF NewVersion
<1>4. QED BY <1>1, <1>2, <1>3, WorldIs DEF WorldMoves, Serves, Empties, GoesOn

LEMMA TableKept ==
    ASSUME StorageInv, Parts
    PROVE  OneVersion' /\ OnePurging'
<1>0. TypeOK /\ OneVersion /\ OnePurging
  BY DEF StorageInv
<1>1. CASE versions' = versions
  BY <1>0, <1>1 DEF OneVersion, OnePurging, Numbers, WithState
<1>2. ASSUME NEW k \in Key, NewVersion(k) PROVE OneVersion' /\ OnePurging'
  <2>1. OnePurging'
    BY <1>0, <1>2, StateKeys DEF OnePurging, NewVersion
  <2>2. PICK n \in Nat : /\ n \notin Numbers /\ Numbers' = Numbers \cup {n}
                         /\ versions'[n] = [key |-> k, state |-> "active"]
                         /\ \A v \in Numbers : versions'[v] = versions[v]
    BY <1>0, <1>2, FiledIs DEF NewVersion
  <2>3. versions'[n].key = k /\ \A v \in Numbers : versions'[v].key # k
    BY <1>2, <2>2 DEF NewVersion, VersionKey
  <2>4. OneVersion'
    BY <1>0, <2>2, <2>3 DEF OneVersion
  <2>5. QED BY <2>1, <2>4
<1>3. ASSUME NEW v \in Numbers, Claims(v) PROVE OneVersion' /\ OnePurging'
  <2>1. Numbers' = Numbers /\ \A u \in Numbers : versions'[u].key = versions[u].key
    BY <1>0, <1>3, MarkedIs DEF Claims
  <2>2. WithState("purging")' = {v}
    BY <1>0, <1>3, StateKeys DEF Claims
  <2>3. QED BY <1>0, <2>1, <2>2 DEF OneVersion, OnePurging
<1>4. CASE Ends /\ purge.v \in Numbers
  <2>1. Numbers' = Numbers /\ \A u \in Numbers : versions'[u].key = versions[u].key
    BY <1>0, <1>4, MarkedIs DEF Ends
  <2>2. WithState("purging")' = WithState("purging") \ {purge.v}
    BY <1>0, <1>4, StateKeys DEF Ends
  <2>3. QED BY <1>0, <2>1, <2>2 DEF OneVersion, OnePurging
<1>5. QED BY <1>1, <1>2, <1>3, <1>4, TableMoves

\* Where the pointer goes, when no version is filed for it.
LEMMA PointerMoves ==
    ASSUME StorageInv, Parts
    PROVE  \/ live' = live \/ live' = NoKey
           \/ /\ live' \in Key /\ ~VersionKey(live')
              /\ versions' = versions \/ Filed(live')
           \/ /\ versions' = versions
              /\ \E n \in WithState("active") :
                    versions[n].key = live' /\ \A u \in WithState("active") : u <= n
<1>0. TypeOK /\ Equipment /\ Keys /\ PurgeSound /\ \A w \in Runs : RunSound(w)
  BY DEF StorageInv
<1>1. ASSUME NEW w \in Runs, Serves(w)
      PROVE  live' = live \/ (live' \in Key /\ ~VersionKey(live') /\ versions' = versions)
  <2>1. run[w].pc = "publish" /\ Held(w) /\ live = run[w].prev /\ live' = run[w].key /\ versions' = versions
    BY <1>1 DEF Serves
  <2>2. run[w].key \in Key /\ (run[w].key = run[w].prev \/ ~VersionKey(run[w].key))
    BY <1>0, <2>1, KeysAtHand DEF RunSound
  <2>3. QED BY <2>1, <2>2
<1>2. ASSUME NEW w \in Runs, FilesTaken(w) \/ FilesCopied(w)
      PROVE  live' = live \/ (live' \in Key /\ ~VersionKey(live') /\ Filed(live'))
  BY <1>2, FiledIsNew
<1>3. FilesCopyBack => live' \in Key /\ ~VersionKey(live') /\ Filed(live')
  BY FiledIsNew
<1>4. Promotes => live' \in Key /\ ~VersionKey(live')
  BY <1>0, KeysAtHand, KeyIs, OwnIsNobodys DEF Promotes, UpOwns
<1>5. ASSUME GoesOn, FallsBack, live' # live, live' # NoKey
      PROVE  /\ versions' = versions
             /\ \E n \in WithState("active") :
                    versions[n].key = live' /\ \A u \in WithState("active") : u <= n
  <2>1. live' = purge.to /\ purge.pc = "move" /\ versions' = versions
    BY <1>5 DEF GoesOn, FallsBack
  <2>2. QED BY <1>0, <1>5, <2>1 DEF PurgeSound
<1>6. QED BY <1>1, <1>2, <1>3, <1>4, <1>5, WorldIs DEF WorldMoves, Empties, Claims, Ends

LEMMA LiveKept ==
    ASSUME StorageInv, Parts
    PROVE  LiveIsNewest'
<1>0. TypeOK /\ OneVersion /\ LiveIsNewest /\ \A v \in Numbers : versions[v].key # NoKey
  BY VersionsAre DEF StorageInv
<1> SUFFICES ASSUME NEW u \in Numbers', NEW v \in Numbers', u < v,
                    versions'[u].key = live', live' # NoKey, versions'[u].state = "active",
                    versions'[v].state = "active"
             PROVE  FALSE
  BY DEF LiveIsNewest
\* Both are there already, unless the later one has just been filed.
<1>1. CASE /\ u \in Numbers /\ v \in Numbers /\ versions[u].key = versions'[u].key
           /\ versions[u].state = "active" /\ versions[v].state = "active"
  <2>1. VersionKey(live')
    BY <1>1 DEF VersionKey
  <2>2. CASE live' = live
    BY <1>0, <1>1, <2>2 DEF LiveIsNewest
  <2>3. CASE live' # live
    <3>1. PICK n \in WithState("active") :
             versions[n].key = live' /\ \A q \in WithState("active") : q <= n
      BY <2>1, <2>3, PointerMoves
    <3>2. n = u /\ v <= n
      BY <1>0, <1>1, <3>1 DEF OneVersion, WithState
    <3>3. u \in Nat /\ v \in Nat
      BY <1>0, <1>1, VersionsAre
    <3>4. QED BY <3>2, <3>3
  <2>4. QED BY <2>2, <2>3
<1>2. CASE versions' = versions
  BY <1>1, <1>2 DEF Numbers
<1>3. ASSUME NEW q \in Numbers, Claims(q) PROVE FALSE
  <2>1. /\ Numbers' = Numbers /\ versions'[q].state = "purging"
        /\ \A x \in Numbers : versions'[x].key = versions[x].key /\ (x # q => versions'[x] = versions[x])
    BY <1>0, <1>3, MarkedIs DEF Claims
  <2>2. u # q /\ v # q
    BY <2>1
  <2>3. QED BY <1>1, <2>1, <2>2
<1>4. CASE Ends /\ purge.v \in Numbers
  <2>1. /\ Numbers' = Numbers /\ versions'[purge.v].state = "purged"
        /\ \A x \in Numbers : versions'[x].key = versions[x].key
                              /\ (x # purge.v => versions'[x] = versions[x])
    BY <1>0, <1>4, MarkedIs DEF Ends
  <2>2. u # purge.v /\ v # purge.v
    BY <2>1
  <2>3. QED BY <1>1, <2>1, <2>2
<1>5. ASSUME NEW k \in Key, NewVersion(k) PROVE FALSE
  <2>1. PICK n \in Nat : /\ n \notin Numbers /\ Numbers' = Numbers \cup {n}
                         /\ versions'[n] = [key |-> k, state |-> "active"]
                         /\ \A x \in Numbers : versions'[x] = versions[x] /\ x < n
    BY <1>0, <1>5, FiledIs DEF NewVersion
  <2>2. Numbers \subseteq Nat
    BY <1>0, VersionsAre
  <2>3. CASE v \in Numbers /\ u \in Numbers
    BY <1>1, <2>1, <2>3
  <2>4. CASE u = n
    <3>1. v \in Numbers => v < n
      BY <2>1
    <3>2. QED BY <2>1, <2>2, <2>4, <3>1
  <2>5. CASE v = n /\ u \in Numbers
    <3>1. versions[u].key = live' /\ versions[u].state = "active"
      BY <2>1, <2>5
    <3>2. VersionKey(live') /\ Owned(live')
      BY <2>5, <3>1 DEF VersionKey, Owned
    <3>3. QED BY <1>5, <3>2 DEF NewVersion
  <2>6. QED BY <2>1, <2>3, <2>4, <2>5
<1>6. QED BY <1>2, <1>3, <1>4, <1>5, TableMoves

\* A purged key: not there, not served.
LEMMA PurgedKept ==
    ASSUME StorageInv, Parts
    PROVE  PurgedGone'
<1>0. /\ TypeOK /\ Equipment /\ Keys /\ OneVersion /\ PurgeSound /\ PurgedGone
      /\ \A w \in Runs : RunSound(w)
  BY DEF StorageInv
<1>1. /\ versions' \in Seq(Vs) /\ \A v \in Numbers : v \in Numbers' /\ versions'[v].key = versions[v].key
  BY <1>0, VersionsTyped
<1>2. ASSUME NEW k \in Key, Purged(k) PROVE k \notin objects' /\ live' # k
  <2>1. VersionKey(k) /\ k \notin objects /\ live # k /\ k # NoKey
    BY <1>0, <1>2, KeyIs DEF Purged, VersionKey, WithState, PurgedGone
  <2>2. k \notin objects'
    BY <1>0, <2>1, WrittenIsNoVersion
  <2>3. ASSUME NEW n \in WithState("active") PROVE versions[n].key # k
    BY <1>0, <1>2, <2>3 DEF OneVersion, WithState, Purged
  <2>4. QED BY <2>1, <2>2, <2>3, PointerMoves
<1>3. ASSUME NEW k \in Key, Purged(k)', ~Purged(k) PROVE k \notin objects' /\ live' # k
  <2>1. Ends /\ purge.v \in Numbers
    BY <1>0, <1>3, StateKeys, TableMoves DEF NewVersion, Claims
  <2>2. k = versions[purge.v].key
    BY <1>0, <1>3, <2>1, StateKeys DEF Ends
  <2>3. k \notin objects /\ live # k
    BY <1>0, <2>1, <2>2 DEF Ends, PurgeSound
  <2>4. QED BY <2>1, <2>3 DEF Ends
<1>4. ASSUME NEW v \in WithState("purged")' PROVE versions'[v].key \notin objects' \cup {live'}
  <2>1. v \in Numbers' /\ versions'[v].state = "purged"
    BY DEF WithState
  <2>2. versions'[v].key \in Key
    <3>1. versions' \in [Numbers' -> Vs]
      BY <1>1, LenProperties DEF Numbers
    <3>2. QED BY <2>1, <3>1 DEF Vs
  <2>3. PICK k \in Key : k = versions'[v].key
    BY <2>2
  <2>4. Purged(k)'
    BY <2>3, <1>4 DEF Purged
  <2>5. QED BY <1>2, <1>3, <2>3, <2>4
<1>5. QED BY <1>4 DEF PurgedGone

\* The version whose file is served is the live one.
LEMMA LiveVersionIs ==
    ASSUME TypeOK, OneVersion, NEW v \in WithState("purging"), live = versions[v].key
    PROVE  LiveVersion = v
<1> DEFINE owners == {u \in Numbers : versions[u].key = live /\ versions[u].state # "purged"}
<1>1. v \in Numbers /\ versions[v].state = "purging"
  BY DEF WithState
<1>2. owners = {v}
  BY <1>1 DEF OneVersion
<1>3. Newest(owners) = v /\ Newest(owners) # 0 /\ live # NoKey
  BY <1>1, <1>2, NewestOf, VersionsAre
<1>4. QED BY <1>3 DEF LiveVersion

LEMMA PurgeKept ==
    ASSUME StorageInv, Parts
    PROVE  PurgeSound'
<1>0. TypeOK /\ Equipment /\ Keys /\ OneVersion /\ OnePurging /\ PurgeSound
  BY DEF StorageInv
<1> DEFINE k == versions[purge.v].key
<1>1. ASSUME purge.pc # "idle"
      PROVE  /\ Held("purge") /\ purge.v \in Numbers /\ versions[purge.v].state = "purging"
             /\ k \in Key /\ VersionKey(k) /\ purge.v \in WithState("purging")
             /\ purge.pc # "delete" => k \notin objects
             /\ live = k => \/ purge.pc = "fail"
                            \/ purge.serves /\ purge.pc \in {"delete", "detach", "drop", "lake", "move"}
  BY <1>0, <1>1, VersionsAre DEF PurgeSound, Equipment, PurgeEquipped, VersionKey, WithState
<1>2. versions' = versions => \A s : WithState(s)' = WithState(s)
  BY DEF WithState, Numbers
<1>3. CASE ~PurgePart
  <2>1. purge' = purge
    BY <1>3 DEF Parts, RunPart, UploadPart, RevertPart, ClaimPart, RestPart
  <2> SUFFICES ASSUME purge.pc # "idle" PROVE PurgeSound'
    BY <2>1 DEF PurgeSound
  <2>2. Held("purge") /\ Held("purge")'
    BY <1>1, <1>3, ClaimsMove DEF StorageInv, PurgeIsHolder, NoPurge
  <2>3. \A w \in Runs \cup {"revert"} : ~Held(w)
    BY <2>2, RunsAssumption DEF Held
  <2>4. versions' = versions /\ (live' = live \/ Promotes)
    <3>1. WithState("purging") # {} /\ ~PurgePart
      BY <1>1, <1>3
    <3>2. \A v \in Numbers : ~Claims(v)
      BY <3>1 DEF Claims
    <3>3. CASE Ends \/ (GoesOn /\ FallsBack)
      <4>1. purge'.pc \in {"idle", "old", "fail"} /\ purge.pc \in {"finish", "move"}
        BY <3>3 DEF Ends, FallsBack
      <4>2. QED BY <2>1, <4>1
    <3>4. QED BY <2>3, <3>2, <3>3, WorldIs
              DEF WorldMoves, FilesTaken, FilesCopied, Serves, FilesCopyBack, Empties
  <2>5. live' = k => live = k
    <3>1. Promotes => live' \in Key /\ ~VersionKey(live')
      BY <1>0, KeysAtHand, KeyIs, OwnIsNobodys DEF Promotes, UpOwns
    <3>2. QED BY <1>1, <2>4, <3>1
  <2>6. k \in objects' => k \in objects
    BY <1>0, <1>1, WrittenIsNoVersion
  <2>7. \A s : WithState(s)' = WithState(s)
    BY <1>2, <2>4
  <2>8. purge.pc = "move" /\ purge.to # NoKey =>
             \E n \in WithState("active") :
                versions[n].key = purge.to /\ \A u \in WithState("active") : u <= n
    BY <1>0 DEF PurgeSound
  <2>9. QED BY <1>1, <2>1, <2>2, <2>4, <2>5, <2>6, <2>7, <2>8 DEF PurgeSound
<1>4. CASE PurgePart
  <2> SUFFICES ASSUME purge'.pc # "idle" PROVE PurgeSound'
    BY DEF PurgeSound
  <2>1. CASE \E v \in Numbers : Claims(v)
    <3>1. purge' = purge /\ WithState("purging") = {}
      BY <2>1 DEF Claims
    <3>2. QED BY <1>1, <3>1
  <2>2. CASE Rests
    BY <1>0, <1>2, <2>2 DEF Rests, PurgeSound, Held
  <2>3. CASE Starts
    <3>1. PICK v \in WithState("purging") :
             purge'.pc = "delete" /\ purge'.v = v /\ (LiveVersion = v => purge'.serves)
      BY <2>3 DEF Starts
    <3>2. Held("purge")' /\ UNCHANGED <<live, versions, objects>>
      BY <2>3 DEF Starts, Held
    <3>3. live = versions[v].key => purge'.serves
      BY <1>0, <3>1, LiveVersionIs
    <3>4. versions[v].state = "purging"
      BY DEF WithState
    <3>5. QED BY <3>1, <3>2, <3>3, <3>4 DEF PurgeSound
  <2>4. CASE GoesOn
    <3>0. /\ purge'.v = purge.v /\ purge'.serves = purge.serves /\ UNCHANGED <<versions, claim>>
          /\ purge.pc # "idle"
      BY <2>4 DEF GoesOn, Deletes, Passes, LooksBack, FallsBack
    <3>1. Held("purge")' /\ k \in Key
      BY <1>1, <3>0 DEF Held
    <3>2. /\ versions'[purge'.v].key = k /\ versions'[purge'.v].state = "purging"
          /\ \A s : WithState(s)' = WithState(s)
      BY <1>1, <1>2, <3>0
    <3>3. ASSUME k \notin objects',
                 live' = k => \/ purge'.pc = "fail"
                              \/ purge.serves /\ purge'.pc \in {"detach", "drop", "lake", "move"},
                 purge'.pc # "move"
          PROVE  PurgeSound'
      BY <3>0, <3>1, <3>2, <3>3 DEF PurgeSound
    <3>4. CASE Deletes
      <4>1. KeyOf(purge.v) = k
        <5>1. purge.v # 0
          BY <1>0, <1>1, <3>0, VersionsAre
        <5>2. QED BY <5>1 DEF KeyOf
      <4>2. k \notin objects' /\ live' = live /\ purge'.pc = (IF purge.serves THEN "detach" ELSE "lake")
            /\ purge.pc = "delete"
        BY <3>4, <4>1 DEF Deletes
      <4>3. live = k => purge.serves
        BY <1>1, <4>2
      <4>4. QED BY <3>3, <4>2, <4>3
    <3>5. CASE Passes
      <4>1. k \notin objects' /\ live' = live
        BY <1>1, <3>0, <3>5 DEF Passes
      <4>2. QED BY <1>1, <3>0, <3>3, <3>5, <4>1 DEF Passes
    <3>6. CASE LooksBack
      <4>1. k \notin objects /\ UNCHANGED <<live, objects>> /\ purge.pc = "lake"
        BY <1>1, <3>0, <3>6 DEF LooksBack
      <4>2. CASE ~purge.serves
        <5>1. purge'.pc = "ask"
          BY <3>6, <4>2 DEF LooksBack
        <5>2. QED BY <1>1, <3>0, <3>3, <4>1, <4>2, <5>1
      <4>3. CASE purge.serves
        <5>1. purge'.pc = "move" /\ purge'.to = KeyOf(Newest(WithState("active")))
          BY <3>6, <4>3 DEF LooksBack
        <5> DEFINE n == Newest(WithState("active"))
        <5>2. ASSUME purge'.to # NoKey
              PROVE  /\ n \in WithState("active") /\ versions[n].key = purge'.to
                     /\ \A u \in WithState("active") : u <= n
          <6>1. WithState("active") \in SUBSET Numbers
            BY DEF WithState
          <6>2. n # 0
            BY <5>1, <5>2 DEF KeyOf
          <6>3. WithState("active") # {}
            BY <1>0, <6>1, <6>2, NewestOf
          <6>4. n \in WithState("active") /\ \A u \in WithState("active") : u <= n
            BY <1>0, <6>1, <6>3, NewestOf
          <6>5. QED BY <5>1, <6>2, <6>4 DEF KeyOf
        <5> HIDE DEF n
        <5>3. QED BY <3>0, <3>1, <3>2, <4>1, <4>3, <5>1, <5>2 DEF PurgeSound
      <4>4. QED BY <4>2, <4>3
    <3>7. CASE FallsBack
      <4>1. k \notin objects' /\ purge.pc = "move"
        BY <1>1, <3>0, <3>7 DEF FallsBack
      <4>2. CASE live' = live /\ purge'.pc = "fail"
        BY <3>3, <4>1, <4>2
      <4>3. CASE live' = purge.to /\ purge'.pc = "old"
        <5>1. purge.to # k
          <6>1. SUFFICES ASSUME purge.to = k PROVE FALSE
            OBVIOUS
          <6>2. purge.to # NoKey
            BY <3>1, <6>1, KeyIs
          <6>3. PICK n \in WithState("active") : versions[n].key = k
            BY <1>0, <3>0, <4>1, <6>1, <6>2 DEF PurgeSound
          <6>4. n \in Numbers /\ versions[n].state = "active"
            BY <6>3 DEF WithState
          <6>5. QED BY <1>0, <1>1, <3>0, <6>3, <6>4 DEF OneVersion
        <5>2. QED BY <3>3, <4>1, <4>3, <5>1
      <4>4. QED BY <3>7, <4>2, <4>3 DEF FallsBack
    <3>8. QED BY <2>4, <3>4, <3>5, <3>6, <3>7 DEF GoesOn
  <2>5. CASE Ends \/ Stops
    BY <2>5 DEF Ends, Stops
  <2>6. QED BY <1>4, <2>1, <2>2, <2>3, <2>4, <2>5 DEF PurgePart, PurgeMoves
<1>5. QED BY <1>3, <1>4

-----------------------------------------------------------------------------
(* What is in the bucket *)

\* Nobody has the key as an object of his own, nor will anybody have.
HandsOff(k) ==
    /\ k \in Key /\ k < next
    /\ ~RvOwns(k) /\ \A w \in Runs : ~OwnBy(w, k)

\* Its run, if one is about to publish it, took it from the pointer.
Quiet(k) ==
    /\ HandsOff(k)
    /\ \A w \in Runs : run[w].pc = "publish" /\ run[w].key = k => run[w].prev = k

\* It has had its use: a preview.
Spent(k) == HandsOff(k) /\ ~UpOwns(k) /\ ~Content(k)

\* What the next statement points at is there, whoever makes it.
InBucket ==
    /\ \A w \in Runs :
          /\ run[w].pc \in {"file", "point"} => run[w].to \in objects
          /\ run[w].pc = "publish" => run[w].key \in {run[w].prev, run[w].to}
          /\ Held(w) /\ run[w].pc = "publish" /\ run[w].key # run[w].prev => run[w].key \in objects
    /\ rv.pc = "file" /\ rv.to # NoKey => rv.to \in objects
    /\ up # NoKey /\ up = pending => up \in objects
    /\ preview # NoKey => Spent(preview) /\ preview \in objects

\* What is about to be deleted is not pointed at, nor will be.
SweepSound ==
    /\ \A k \in ledger \cup recon.keys : k < next
    /\ sweep.pc \in {"ask", "delete"} => Quiet(sweep.key)
    /\ sweep.pc = "delete" => sweep.key \notin {live, pending, preview}

\* A version that counts has it.
ActiveKey(k) == \E v \in WithState("active") : versions[v].key = k
DropSound ==
    /\ rv.pc = "drop" /\ rv.to # NoKey => Spent(rv.to) /\ rv.to # preview
    /\ purge.pc = "drop" /\ purge.to # NoKey => Spent(purge.to) /\ purge.to # preview
    /\ purge.pc \notin {"idle", "ask", "finish", "fail"} /\ purge.prev # NoKey => ~ActiveKey(purge.prev)
    /\ purge.pc = "old" /\ purge.prev # NoKey =>
          HandsOff(purge.prev) /\ purge.prev \notin {live, pending, preview}

UseInv == InBucket /\ SweepSound /\ DropSound

LiveStored == live # NoKey /\ ~OwnerPurging(live) => live \in objects

\* No run is about to file the object a sweep has decided to delete.
NotOvertaken ==
    sweep.pc = "delete" =>
        \A w \in Runs : Held(w) /\ run[w].pc \in {"owner", "take"} => run[w].key # sweep.key

\* The versions' files, and the objects runs are about to file; no sweep is after them.
Files ==
    /\ VersionsStored
    /\ \A w \in Runs : Held(w) /\ run[w].pc \in {"owner", "take"} => run[w].key \in objects
    /\ sweep.pc = "delete" => ~VersionKey(sweep.key)

\* The actors that a step of somebody else's leaves alone.
LEMMA OthersRest ==
    /\ \A w \in Runs : RunStep(w) => UNCHANGED <<pending, rv, purge, up, urls, sweep, recon>>
    /\ UploadStep => UNCHANGED <<versions, preview, claim, run, rv, purge, sweep, recon>>
    /\ RevertStep => UNCHANGED <<pending, run, purge, up, urls, sweep, recon>>
    /\ PurgeStep => UNCHANGED <<pending, run, rv, up, urls, sweep, recon>>
    /\ Cancel \/ GoesStale => UNCHANGED <<row, versions, preview, bucket, ledger, next,
                                          run, rv, purge, up, urls, sweep, recon>>
    /\ LedgerStep => UNCHANGED <<row, versions, preview, origin, next, claim, run, rv, purge, up, urls>>
<1>1. ASSUME NEW w \in Runs, RunStep(w) PROVE UNCHANGED <<pending, rv, purge, up, urls, sweep, recon>>
  <2>1. \E r : SetRun(w, r)
    BY <1>1 DEF RunStep, TakeClaim, Reserve, Store, PublishContent, Gate, AskOwner, FileTaken, Copy,
                FileCopied, Interpret, Paint, Point, GiveUp, Leave, Crash, Goto
  <2>2. pending' = pending
    BY <1>1 DEF RunStep, TakeClaim, Reserve, Store, PublishContent, Gate, AskOwner, FileTaken, Copy,
                FileCopied, Interpret, Paint, Point, GiveUp, Leave, Crash, Publish, row
  <2>3. QED BY <2>1, <2>2 DEF SetRun, RunOnly
<1>2. UploadStep => UNCHANGED <<versions, preview, claim, run, rv, purge, sweep, recon>>
  BY DEF UploadStep, PrepareForUpload, ClientPuts, UploadArrived, Promote, ExpirePending, UploadOnly
<1>3. ASSUME RevertStep PROVE UNCHANGED <<pending, run, purge, up, urls, sweep, recon>>
  <2>1. \E r : SetRv(r)
    BY <1>3 DEF RevertStep, AskRevert, TakeOver, CopyVersion, FileReverted, DetachRetracted,
                DropRetracted, LeaveRevert, RevertDies
  <2>2. pending' = pending
    BY <1>3 DEF RevertStep, AskRevert, TakeOver, CopyVersion, FileReverted, DetachRetracted,
                DropRetracted, LeaveRevert, RevertDies, Publish, row
  <2>3. QED BY <2>1, <2>2 DEF SetRv
<1>4. ASSUME PurgeStep PROVE UNCHANGED <<pending, run, rv, up, urls, sweep, recon>>
  <2>1. (\E p : SetPurge(p)) \/ UNCHANGED <<run, rv, up, urls, sweep, recon>>
    BY <1>4 DEF PurgeStep, ClaimPurge, JobLost, QueueStranded, StartPurge, DeleteVersion, DetachPurged,
                DropPurged, PurgeLake, RestoreLive, DeleteServed, AskRebuild, FinishPurge, PurgeFails, PurgeDies
  <2>2. pending' = pending
    BY <1>4 DEF PurgeStep, ClaimPurge, JobLost, QueueStranded, StartPurge, DeleteVersion, DetachPurged,
                DropPurged, PurgeLake, RestoreLive, DeleteServed, AskRebuild, FinishPurge, PurgeFails,
                PurgeDies, Publish, row
  <2>3. QED BY <2>1, <2>2 DEF SetPurge
<1>5. Cancel \/ GoesStale => UNCHANGED <<row, versions, preview, bucket, ledger, next,
                                          run, rv, purge, up, urls, sweep, recon>>
  BY DEF Cancel, GoesStale
<1>6. ASSUME LedgerStep
      PROVE  UNCHANGED <<row, versions, preview, origin, next, claim, run, rv, purge, up, urls>>
  <2>1. (\E s : SetSweep(s)) \/ (\E s : SetRecon(s))
    BY <1>6 DEF LedgerStep, SweepLists, SweepAsks, SweepDeletes, SweepUntracks, SweepDies,
                ReconLists, ReconAsks, ReconKnown, ReconNominates
  <2>2. UNCHANGED <<row, versions, preview, origin, next>>
    BY <1>6 DEF LedgerStep, SweepLists, SweepAsks, SweepDeletes, SweepUntracks, SweepDies,
                ReconLists, ReconAsks, ReconKnown, ReconNominates, bucket
  <2>3. QED BY <2>1, <2>2 DEF SetSweep, SetRecon
<1>7. QED BY <1>1, <1>2, <1>3, <1>4, <1>5, <1>6

\* A preview is pointed at by the run that made it.
Points(w) ==
    /\ run[w].pc = "point" /\ Held(w) /\ preview' = run[w].to
    /\ run'[w].pc = "leave" /\ run'[w].key = NoKey
    /\ \A u \in Runs : u # w => run'[u] = run[u]
    /\ UNCHANGED <<row, versions, bucket, claim, next, rv, purge, up, urls, sweep, recon>>

LEMMA PreviewMoves ==
    ASSUME TypeOK, [Next]_vars
    PROVE  preview' \in {preview, NoKey} \/ \E w \in Runs : Points(w)
<1>1. ASSUME NEW w \in Runs, RunStep(w) PROVE preview' = preview \/ Points(w)
  <2>1. CASE Point(w)
    <3>1. CASE Held(w)
      <4> DEFINE r == [Idle EXCEPT !.pc = "leave"]
      <4>1. r.pc = "leave" /\ r.key = NoKey
        BY DEF Idle
      <4>2. run \in [Runs -> RunRec] /\ SetRun(w, r)
        BY <2>1, TypeParts DEF Point
      <4> HIDE DEF r
      <4>3. run'[w] = r /\ \A u \in Runs : u # w => run'[u] = run[u]
        BY <4>2 DEF SetRun
      <4>4. UNCHANGED <<rv, purge, up, urls, sweep, recon>>
        BY <4>2 DEF SetRun, RunOnly
      <4>5. QED BY <2>1, <3>1, <4>1, <4>3, <4>4 DEF Point, Points
    <3>2. CASE ~Held(w)
      BY <2>1, <3>2 DEF Point
    <3>3. QED BY <3>1, <3>2
  <2>2. CASE ~Point(w)
    BY <1>1, <2>2 DEF RunStep, TakeClaim, Reserve, Store, PublishContent, Gate, AskOwner, FileTaken, Copy,
                FileCopied, Interpret, Paint, GiveUp, Leave, Crash
  <2>3. QED BY <2>1, <2>2
<1>2. CASE RevertStep
  BY <1>2 DEF RevertStep, AskRevert, TakeOver, CopyVersion, FileReverted, DetachRetracted, Detach,
              DropRetracted, LeaveRevert, RevertDies
<1>3. CASE PurgeStep
  BY <1>3 DEF PurgeStep, ClaimPurge, JobLost, QueueStranded, StartPurge, DeleteVersion, DetachPurged, Detach,
                DropPurged, PurgeLake, RestoreLive, DeleteServed, AskRebuild, FinishPurge, PurgeFails, PurgeDies
<1>4. CASE UploadStep \/ Cancel \/ GoesStale \/ LedgerStep
  BY <1>4, OthersRest
<1>5. CASE UNCHANGED vars
  BY <1>5 DEF vars
<1>6. QED BY <1>1, <1>2, <1>3, <1>4, <1>5 DEF Next

\* Whose key an object that goes has.
Doomed(k) ==
    \/ sweep.pc = "delete" /\ k = sweep.key
    \/ rv.pc = "drop" /\ k = rv.to
    \/ purge.pc = "delete" /\ k = KeyOf(purge.v)
    \/ purge.pc = "drop" /\ k = purge.to
    \/ purge.pc = "old" /\ k = purge.prev

LEMMA ObjectsGo ==
    ASSUME TypeOK, [Next]_vars, NEW k \in objects, k \notin objects'
    PROVE  Doomed(k) /\ UNCHANGED <<row, versions, preview, ledger, next, claim, run, up, urls>>
<1>1. ASSUME NEW w \in Runs, RunStep(w) PROVE FALSE
  BY <1>1 DEF RunStep, TakeClaim, Reserve, Store, PublishContent, Gate, AskOwner, FileTaken, Copy,
                FileCopied, Interpret, Paint, Point, GiveUp, Leave, Crash, bucket
<1>2. ~UploadStep
  BY DEF UploadStep, PrepareForUpload, ClientPuts, UploadArrived, Promote, ExpirePending, bucket
<1>3. CASE RevertStep
  <2>1. DropRetracted
    BY <1>3 DEF RevertStep, AskRevert, TakeOver, CopyVersion, FileReverted, DetachRetracted,
                LeaveRevert, RevertDies, bucket
  <2>2. rv.pc = "drop" /\ k = rv.to
    BY <2>1 DEF DropRetracted, Delete
  <2>3. QED BY <1>3, <2>1, <2>2, OthersRest DEF DropRetracted, Doomed
<1>4. CASE PurgeStep
  <2>1. DeleteVersion \/ DropPurged \/ DeleteServed
    BY <1>4 DEF PurgeStep, ClaimPurge, JobLost, QueueStranded, StartPurge, DetachPurged,
                PurgeLake, RestoreLive, AskRebuild, FinishPurge, PurgeFails, PurgeDies, bucket
  <2>2. Doomed(k)
    BY <2>1 DEF DeleteVersion, DropPurged, DeleteServed, PurgeAt, Delete, Doomed
  <2>3. QED BY <1>4, <2>1, <2>2, OthersRest DEF DeleteVersion, DropPurged, DeleteServed
<1>5. CASE LedgerStep
  <2>1. SweepDeletes
    BY <1>5 DEF LedgerStep, SweepLists, SweepAsks, SweepUntracks, SweepDies,
                ReconLists, ReconAsks, ReconKnown, ReconNominates, bucket
  <2>2. Doomed(k)
    BY <2>1 DEF SweepDeletes, Doomed
  <2>3. QED BY <1>5, <2>1, <2>2, OthersRest DEF SweepDeletes
<1>6. CASE UNCHANGED vars \/ Cancel \/ GoesStale
  BY <1>6, OthersRest DEF vars, bucket
<1>7. QED BY <1>1, <1>2, <1>3, <1>4, <1>5, <1>6 DEF Next

-----------------------------------------------------------------------------
(* Keys that are nobody's stay so *)

LEMMA HandsOffKept ==
    ASSUME TypeOK, Equipment, Parts, NEW k, HandsOff(k)
    PROVE  HandsOff(k)'
<1>1. k \in Key /\ k \in Nat /\ k < next /\ next \in Nat /\ k # NoKey /\ k # next
  BY KeyIs, Counts DEF HandsOff
<1>2. k < next'
  BY <1>1, UrlsMove
<1>3. ASSUME NEW w \in Runs, RunPart(w) PROVE ~RvOwns(k)' /\ \A u \in Runs : ~OwnBy(u, k)'
  <2>1. ~RvOwns(k)' /\ \A u \in Runs : u # w => ~OwnBy(u, k)'
    BY <1>3 DEF RunPart, HandsOff, RvOwns, OwnBy
  <2>2. CASE Mints(w)
    BY <1>1, <2>1, <2>2 DEF Mints, OwnBy
  <2>3. CASE Copies(w)
    BY <2>1, <2>3 DEF Copies, HandsOff, OwnBy
  <2>4. CASE ~Mints(w) /\ ~Copies(w)
    BY <1>3, <2>1, <2>4
       DEF RunPart, RunMoves, Takes, LetsGo, Stores, Serves, Asks, FilesTaken, FilesCopied, OwnBy
  <2>5. QED BY <2>2, <2>3, <2>4
<1>4. ASSUME RevertPart PROVE ~RvOwns(k)' /\ \A u \in Runs : ~OwnBy(u, k)'
  <2>1. \A u \in Runs : ~OwnBy(u, k)'
    BY <1>4 DEF RevertPart, HandsOff, OwnBy
  <2>2. ~RvOwns(k)'
    BY <1>1, <1>4 DEF RevertPart, RevertMoves, TakesOver, CopiesBack, FilesCopyBack, Empties, RevertLetsGo,
                      HandsOff, RvOwns
  <2>3. QED BY <2>1, <2>2
<1>5. ASSUME UploadPart \/ PurgePart \/ ClaimPart \/ RestPart
      PROVE  ~RvOwns(k)' /\ \A u \in Runs : ~OwnBy(u, k)'
  BY <1>5 DEF UploadPart, PurgePart, ClaimPart, RestPart, HandsOff, RvOwns, OwnBy
<1>6. QED BY <1>1, <1>2, <1>3, <1>4, <1>5 DEF Parts, HandsOff

\* Whoever comes to publish took the key from the pointer, or has just written it.
LEMMA PublishMoves ==
    ASSUME TypeOK, Equipment, [Next]_vars, NEW w \in Runs, run'[w].pc = "publish"
    PROVE  \/ run'[w] = run[w] /\ ~Takes(w)
           \/ run'[w].key = run'[w].prev
           \/ run[w].pc = "store" /\ run'[w].key = run[w].to /\ run'[w].to = run[w].to
              /\ objects' = objects \cup {run[w].to}
<1>1. Parts
  BY NextIs
<1>2. CASE RunStep(w)
  <2>1. Takes(w) \/ Stores(w)
    BY <1>2, RunIs DEF RunMoves, Mints, LetsGo, Copies, Serves, Asks, FilesTaken, FilesCopied
  <2>2. CASE Stores(w)
    <3>1. Store(w)
      <4>1. CASE GiveUp(w)
        <5>1. run \in [Runs -> RunRec] /\ [Idle EXCEPT !.pc = "leave"].pc = "leave"
          BY TypeParts DEF Idle
        <5>2. QED BY <4>1, <5>1 DEF GiveUp, SetRun
      <4>2. CASE Crash(w)
        BY <4>2, TypeParts, RecordsIn DEF Crash, SetRun
      <4>3. QED BY <1>2, <2>2, <4>1, <4>2
                DEF Stores, RunStep, TakeClaim, Reserve, PublishContent, Gate, AskOwner, FileTaken, Copy,
                    FileCopied, Interpret, Paint, Point, Leave
    <3>2. run \in [Runs -> RunRec] /\ run[w] \in RunRec
      BY TypeParts
    <3>3. run' = [run EXCEPT ![w] = [run[w] EXCEPT !.pc = "publish", !.key = run[w].to]]
      BY <3>1 DEF Store, SetRun
    <3>4. run'[w] = [run[w] EXCEPT !.pc = "publish", !.key = run[w].to]
      BY <3>2, <3>3
    <3>5. run'[w].key = run[w].to /\ run'[w].to = run[w].to
      BY <3>2, <3>4 DEF RunRec
    <3>6. QED BY <2>2, <3>5 DEF Stores
  <2>3. QED BY <2>1, <2>2 DEF Takes
<1>3. CASE ~RunStep(w)
  <2>1. run'[w] = run[w]
    <3>1. ASSUME NEW u \in Runs, RunStep(u) PROVE run'[w] = run[w]
      BY <1>3, <3>1, RunIs
    <3>2. CASE UNCHANGED vars
      BY <3>2 DEF vars, actors
    <3>3. QED BY <3>1, <3>2, OthersRest DEF Next
  <2>2. CASE Takes(w)
    BY <2>2 DEF Takes
  <2>3. QED BY <2>1, <2>2
<1>4. QED BY <1>2, <1>3

LEMMA QuietKept ==
    ASSUME TypeOK, Equipment, [Next]_vars, NEW k, Quiet(k)
    PROVE  Quiet(k)'
<1>1. Parts /\ HandsOff(k)
  BY NextIs DEF Quiet
<1>2. HandsOff(k)'
  BY <1>1, HandsOffKept
<1>3. ASSUME NEW w \in Runs, run'[w].pc = "publish", run'[w].key = k PROVE run'[w].prev = k
  <2>1. ~(run[w].pc = "store" /\ run[w].to = k)
    BY <1>1 DEF HandsOff, OwnBy
  <2>2. QED BY <1>3, <2>1, PublishMoves DEF Quiet
<1>4. QED BY <1>2, <1>3 DEF Quiet

LEMMA SpentKept ==
    ASSUME TypeOK, Equipment, PurgeSound, Parts, NEW k, Spent(k)
    PROVE  Spent(k)'
<1>1. HandsOff(k) /\ HandsOff(k)' /\ ~UpOwns(k) /\ ~Content(k) /\ k \in Key /\ k # NoKey
  BY HandsOffKept, KeyIs DEF Spent, HandsOff
<1>2. k # next
  BY <1>1, Counts, KeyIs DEF HandsOff
<1>3. k # live /\ ~VersionKey(k) /\ \A w \in Runs : run[w].key # k
  BY <1>1 DEF Content
<1>4. ASSUME NEW w \in Runs, RunPart(w) PROVE ~Content(k)'
  <2>1. \A u \in Runs : u # w => run'[u].key # k
    BY <1>3, <1>4 DEF RunPart
  <2>2. ~OwnBy(w, k)
    BY <1>1 DEF HandsOff
  <2>3. run'[w].key # k /\ live' # k
    BY <1>1, <1>3, <1>4, <2>2 DEF RunPart, RunMoves, Takes, Mints, LetsGo, Stores, Copies, Serves, Asks,
         FilesTaken, FilesCopied, Calm, OwnBy
  <2>4. ~VersionKey(k)'
    <3>1. CASE FilesTaken(w)
      BY <1>3, <3>1, KeysAtHand, StateKeys DEF FilesTaken
    <3>2. CASE FilesCopied(w)
      BY <1>3, <2>2, <3>2, KeysAtHand, StateKeys DEF FilesCopied, OwnBy
    <3>3. CASE versions' = versions
      BY <1>3, <3>3, StateKeys
    <3>4. QED BY <1>4, <3>1, <3>2, <3>3
              DEF RunPart, RunMoves, Takes, Mints, LetsGo, Stores, Copies, Serves, Asks, Calm
  <2>5. QED BY <2>1, <2>3, <2>4 DEF Content
<1>5. CASE UploadPart
  <2>1. ~VersionKey(k)' /\ \A u \in Runs : run'[u].key # k
    BY <1>3, <1>5, StateKeys DEF UploadPart
  <2>2. live' # k
    BY <1>1, <1>3, <1>5 DEF UploadPart, UploadMoves, Prepares, Puts, Arrives, Promotes, Drops, Calm, UpOwns
  <2>3. ~UpOwns(k)'
    BY <1>1, <1>2, <1>5 DEF UploadPart, UploadMoves, Prepares, Puts, Arrives, Promotes, Drops, Calm, UpOwns
  <2>4. QED BY <1>1, <2>1, <2>2, <2>3 DEF Content, Spent
<1>6. ASSUME RevertPart PROVE ~Content(k)'
  <2>1. CASE FilesCopyBack
    <3>1. rv.to \in Key /\ k # rv.to /\ Filed(rv.to) /\ live' = rv.to
      BY <1>1, <2>1, KeysAtHand, KeyIs DEF FilesCopyBack, HandsOff, RvOwns
    <3>2. ~VersionKey(k)'
      BY <1>3, <3>1, StateKeys
    <3>3. QED BY <1>3, <1>6, <3>1, <3>2 DEF RevertPart, Content
  <2>2. CASE ~FilesCopyBack
    <3>1. versions' = versions /\ live' \in {live, NoKey}
      BY <1>6, <2>2 DEF RevertPart, RevertMoves, TakesOver, CopiesBack, Empties, RevertLetsGo
    <3>2. QED BY <1>1, <1>3, <1>6, <3>1, StateKeys DEF RevertPart, Content
  <2>3. QED BY <2>1, <2>2
<1>7. CASE PurgePart \/ ClaimPart \/ RestPart
  BY <1>1, <1>7, OtherUses DEF NoNewUse, Spent
<1>8. UpOwns(k)' => UploadPart
  BY <1>1 DEF Parts, RunPart, RevertPart, PurgePart, ClaimPart, RestPart, UpOwns, Calm
<1>9. QED BY <1>1, <1>4, <1>5, <1>6, <1>7, <1>8 DEF Parts, Spent

-----------------------------------------------------------------------------
(* The ledger and the sweep *)

LEMMA PublishParks ==
    ASSUME NEW k, NEW prev, NEW bytes, NEW moved \in BOOLEAN, Publish(k, prev, bytes, moved)
    PROVE  \A x \in ledger' : x \in ledger \/ x = (IF moved THEN prev ELSE k)
BY DEF Publish, Published, Parked, Dropped

\* What the ledger has it has had, or it has come from a pointer or a version, from
\* the bucket, or from whoever has just minted it.
LEMMA LedgerMoves ==
    ASSUME TypeOK, Equipment, PurgeSound, [Next]_vars, NEW k \in Key, k \in ledger' \cup recon'.keys
    PROVE  \/ k \in ledger \cup recon.keys \cup objects
           \/ k \in {live, pending, preview} \/ (\E w \in Runs : run[w].key = k) \/ VersionKey(k)
           \/ k = next /\ next' = next + 1
<1> DEFINE Known == \/ k \in ledger \cup recon.keys \cup objects
                    \/ k \in {live, pending, preview} \/ (\E w \in Runs : run[w].key = k) \/ VersionKey(k)
                    \/ k = next /\ next' = next + 1
<1>1. ASSUME NEW w \in Runs, RunStep(w) PROVE Known
  <2>0. recon' = recon
    BY <1>1, OthersRest
  <2>1. CASE PublishContent(w)
    <3> DEFINE moved == live = run[w].prev /\ Held(w)
    <3>1. Publish(run[w].key, run[w].prev, origin[run[w].key], moved)
      BY <2>1 DEF PublishContent
    <3>2. k \in ledger' => k \in ledger \/ k = (IF moved THEN run[w].prev ELSE run[w].key)
      BY <3>1, PublishParks
    <3>3. QED BY <2>0, <3>2
  <2>2. CASE FileCopied(w)
    <3>1. ledger' = ledger \/ Publish(run[w].to, run[w].key, origin[run[w].key], TRUE)
      BY <2>2 DEF FileCopied
    <3>2. k \in ledger' => k \in ledger \/ k = run[w].key
      BY <3>1, PublishParks
    <3>3. QED BY <2>0, <3>2
  <2>3. CASE ~PublishContent(w) /\ ~FileCopied(w)
    <3> DEFINE Old == k \in ledger' => k \in ledger \/ k = preview \/ (k = next /\ next' = next + 1)
    <3>1. \A q : Minted(q) /\ ledger' = Reserved(q) => Old
      BY DEF Reserved, Minted
    <3>2. CASE Reserve(w)
      BY <2>0, <3>1, <3>2 DEF Reserve
    <3>3. CASE AskOwner(w)
      BY <2>0, <3>1, <3>3 DEF AskOwner
    <3>4. CASE Interpret(w)
      BY <2>0, <3>1, <3>4 DEF Interpret
    <3>5. CASE Point(w)
      BY <2>0, <3>5 DEF Point, Dropped, Parked
    <3>6. CASE FileTaken(w)
      BY <2>0, <3>6 DEF FileTaken, Dropped
    <3>7. CASE ~Reserve(w) /\ ~AskOwner(w) /\ ~Interpret(w) /\ ~Point(w) /\ ~FileTaken(w)
      BY <1>1, <2>0, <2>3, <3>7 DEF RunStep, TakeClaim, Store, Gate, Copy, Paint, GiveUp, Leave, Crash
    <3>8. QED BY <2>0, <3>2, <3>3, <3>4, <3>5, <3>6, <3>7
  <2>4. QED BY <2>1, <2>2, <2>3
<1>2. CASE UploadStep
  <2>1. recon' = recon
    BY <1>2, OthersRest
  <2>2. k \in ledger' => k \in ledger \/ k \in {pending, live}
    BY <1>2 DEF UploadStep, PrepareForUpload, ClientPuts, UploadArrived, Promote, ExpirePending, Parked, row
  <2>3. QED BY <2>1, <2>2
<1>3. CASE RevertStep
  <2>0. recon' = recon
    BY <1>3, OthersRest
  <2>1. CASE FileReverted
    <3>1. PICK bytes : ledger' = ledger \/ (live = rv.prev /\ Publish(rv.to, rv.prev, bytes, TRUE))
      BY <2>1 DEF FileReverted
    <3>2. k \in ledger' => k \in ledger \/ k = live
      BY <3>1, PublishParks
    <3>3. QED BY <2>0, <3>2
  <2>2. CASE ~FileReverted
    <3> DEFINE Old == k \in ledger' => k \in ledger \/ k = preview \/ (k = next /\ next' = next + 1)
    <3>1. CASE TakeOver
      <4>1. \A q : Minted(q) /\ ledger' = Reserved(q) => Old
        BY DEF Reserved, Minted
      <4>2. QED BY <2>0, <3>1, <4>1 DEF TakeOver
    <3>2. CASE ~TakeOver
      BY <1>3, <2>0, <2>2, <3>2 DEF RevertStep, AskRevert, CopyVersion, DetachRetracted, Detach,
              DropRetracted, LeaveRevert, RevertDies, Parked
    <3>3. QED BY <2>0, <3>1, <3>2
  <2>3. QED BY <2>1, <2>2
<1>4. CASE PurgeStep
  <2>0. recon' = recon
    BY <1>4, OthersRest
  <2>1. CASE RestoreLive
    <3> DEFINE moved == live = purge.prev
    <3>1. PICK bytes : ledger' = ledger \/ Publish(purge.to, purge.prev, bytes, moved)
      BY <2>1 DEF RestoreLive
    <3>2. k \in ledger' => k \in ledger \/ k = live \/ k = purge.to
      BY <3>1, PublishParks
    <3>3. k = purge.to => VersionKey(k)
      <4>1. purge.pc = "move" /\ k # NoKey
        BY <2>1, KeyIs DEF RestoreLive, PurgeAt
      <4>2. QED BY <4>1 DEF PurgeSound, VersionKey, WithState
    <3>4. QED BY <2>0, <3>2, <3>3
  <2>2. CASE ~RestoreLive
    <3>1. k \in ledger' => k \in ledger \/ k = preview
      BY <1>4, <2>2 DEF PurgeStep, ClaimPurge, JobLost, QueueStranded, StartPurge, DeleteVersion, DetachPurged,
              Detach, DropPurged, PurgeLake, DeleteServed, AskRebuild, FinishPurge, PurgeFails, PurgeDies, Parked
    <3>2. QED BY <2>0, <3>1
  <2>3. QED BY <2>1, <2>2
<1>5. CASE LedgerStep
  <2>1. CASE (\E q \in Key : SweepLists(q)) \/ SweepAsks \/ SweepDeletes \/ SweepUntracks \/ SweepDies
    BY <2>1 DEF SweepLists, SweepAsks, SweepDeletes, SweepUntracks, SweepDies, SetSweep, Dropped
  <2>2. recon \in [pc : {"idle", "ask", "known", "insert"}, keys : SUBSET Key]
    BY DEF TypeOK
  <2>3. CASE ReconLists
    BY <2>3 DEF ReconLists, SetRecon
  <2>4. CASE ReconAsks
    <3>1. ledger' = ledger /\ recon' = [recon EXCEPT !.pc = "known", !.keys = {q \in recon.keys : ~Referenced(q)}]
      BY <2>4 DEF ReconAsks, SetRecon
    <3>2. recon'.keys \subseteq recon.keys
      BY <2>2, <3>1
    <3>3. QED BY <3>1, <3>2
  <2>5. CASE ReconKnown
    <3>1. ledger' = ledger /\ recon' = [recon EXCEPT !.pc = "insert", !.keys = recon.keys \ ledger]
      BY <2>5 DEF ReconKnown, SetRecon
    <3>2. recon'.keys \subseteq recon.keys
      BY <2>2, <3>1
    <3>3. QED BY <3>1, <3>2
  <2>6. CASE ReconNominates
    BY <2>6 DEF ReconNominates, SetRecon, NoList
  <2>7. QED BY <1>5, <2>1, <2>3, <2>4, <2>5, <2>6 DEF LedgerStep
<1>6. CASE Cancel \/ GoesStale \/ UNCHANGED vars
  <2>1. ledger' = ledger /\ recon' = recon
    BY <1>6, OthersRest DEF vars, actors
  <2>2. QED BY <2>1
<1>7. QED BY <1>1, <1>2, <1>3, <1>4, <1>5, <1>6 DEF Next

\* Nothing else moves when the sweep lists a key or asks who names it.
LEMMA SweepMoves ==
    ASSUME TypeOK, [Next]_vars
    PROVE  \/ sweep' = sweep \/ sweep'.pc \in {"idle", "untrack"}
           \/ /\ UNCHANGED <<row, versions, preview, bucket, ledger, next, claim, run, rv, purge, up, urls>>
              /\ \/ sweep'.pc = "ask" /\ sweep'.key \in ledger /\ sweep'.key \in Key /\ ~InFlight(sweep'.key)
                 \/ sweep.pc = "ask" /\ sweep'.pc = "delete" /\ sweep'.key = sweep.key
                    /\ ~Referenced(sweep.key)
<1>1. CASE LedgerStep
  <2>1. sweep \in [pc : {"idle", "ask", "delete", "untrack"}, key : Pointer]
    BY DEF TypeOK
  <2>2. CASE \E k \in Key : SweepLists(k)
    BY <2>2, OthersRest, <1>1 DEF SweepLists, SetSweep
  <2>3. CASE SweepAsks
    <3>1. sweep' = [sweep EXCEPT !.pc = IF Referenced(sweep.key) THEN "untrack" ELSE "delete"]
      BY <2>3 DEF SweepAsks, SetSweep
    <3>2. sweep'.key = sweep.key /\ sweep'.pc = IF Referenced(sweep.key) THEN "untrack" ELSE "delete"
      BY <2>1, <3>1
    <3>3. UNCHANGED <<row, versions, preview, bucket, ledger, next, claim, run, rv, purge, up, urls>>
      BY <2>3 DEF SweepAsks, SetSweep
    <3>4. QED BY <2>3, <3>2, <3>3 DEF SweepAsks
  <2>4. CASE SweepDeletes
    <3>1. sweep' \in {[sweep EXCEPT !.pc = "untrack"], NoSweep}
      BY <2>4 DEF SweepDeletes, SetSweep
    <3>2. sweep'.pc \in {"idle", "untrack"}
      BY <2>1, <3>1 DEF NoSweep
    <3>3. QED BY <3>2
  <2>5. CASE SweepUntracks \/ SweepDies
    BY <2>5 DEF SweepUntracks, SweepDies, SetSweep, NoSweep
  <2>6. CASE ReconLists \/ ReconAsks \/ ReconKnown \/ ReconNominates
    BY <2>6 DEF ReconLists, ReconAsks, ReconKnown, ReconNominates, SetRecon
  <2>7. QED BY <1>1, <2>2, <2>3, <2>4, <2>5, <2>6 DEF LedgerStep
<1>2. CASE ~LedgerStep
  <2>1. sweep' = sweep
    BY <1>2, OthersRest DEF Next, vars, actors
  <2>2. QED BY <2>1
<1>3. QED BY <1>1, <1>2

\* A key that is known is an old one.
LEMMA KnownIsOld ==
    ASSUME TypeOK, Keys, preview # NoKey => HandsOff(preview), NEW k \in Key,
           \/ k \in objects \/ k \in {live, pending, preview}
           \/ (\E w \in Runs : run[w].key = k) \/ VersionKey(k)
    PROVE  k < next
<1>1. next \in Nat /\ k \in Nat /\ k # NoKey
  BY KeyIs DEF TypeOK
<1>2. CASE k = preview
  BY <1>1, <1>2 DEF HandsOff
<1>3. CASE k # preview
  <2>1. k \in objects \/ ~Unused(k)
    BY <1>3 DEF Unused, Content, UpOwns
  <2>2. QED BY <1>1, <2>1 DEF Keys
<1>4. QED BY <1>2, <1>3

LEMMA SweepKept ==
    ASSUME StorageInv, InBucket, SweepSound, [Next]_vars,
           purge.pc = "move" /\ sweep.pc = "delete" => purge.to # sweep.key
    PROVE  SweepSound'
<1>0. TypeOK /\ Equipment /\ Keys /\ PurgeSound /\ Parts /\ TypeOK'
  BY NextIs, TypedStep DEF StorageInv
<1>1. next \in Nat /\ next' \in Nat /\ (next' = next \/ next' = next + 1)
  BY <1>0, UrlsMove DEF TypeOK
<1>2. ASSUME NEW k \in ledger' \cup recon'.keys PROVE k < next'
  <2>1. k \in Key /\ k \in Nat
    BY <1>0, KeyIs DEF TypeOK
  <2>2. k < next \/ (k = next /\ next' = next + 1)
    BY <1>0, <2>1, LedgerMoves, KnownIsOld DEF SweepSound, InBucket, Spent
  <2>3. QED BY <1>1, <2>1, <2>2
<1> DEFINE k == sweep.key
<1>3. ASSUME sweep' = sweep, sweep.pc \in {"ask", "delete"} PROVE Quiet(k)'
  BY <1>0, <1>3, QuietKept DEF SweepSound
<1>4. ASSUME sweep' = sweep, sweep.pc = "delete" PROVE k \notin {live', pending', preview'}
  <2>1. /\ Quiet(k) /\ HandsOff(k) /\ k \in Key /\ k # NoKey /\ k < next /\ k # next
        /\ k \notin {live, pending, preview}
    BY <1>1, <1>4, KeyIs DEF SweepSound, Quiet, HandsOff
  <2>2. k # preview'
    BY <1>0, <2>1, PreviewMoves DEF Points, HandsOff, OwnBy
  <2>3. k # pending'
    BY <1>0, <2>1 DEF Parts, RunPart, UploadPart, UploadMoves, Prepares, Puts, Arrives, Promotes, Drops,
                      RevertPart, PurgePart, ClaimPart, RestPart, Calm
  <2>4. k # live'
    <3>1. ASSUME NEW w \in Runs, FilesCopied(w) \/ Serves(w) PROVE k # live'
      BY <2>1, <3>1 DEF FilesCopied, Serves, Quiet, HandsOff, OwnBy
    <3>2. FilesCopyBack \/ Empties => k # live'
      BY <2>1 DEF FilesCopyBack, Empties, HandsOff, RvOwns
    <3>3. GoesOn /\ FallsBack => k # live'
      BY <1>4, <2>1 DEF FallsBack
    <3>4. Promotes => k # live'
      BY <2>1 DEF Promotes
    <3>5. QED BY <1>0, <2>1, <3>1, <3>2, <3>3, <3>4, WorldIs DEF WorldMoves, FilesTaken, Claims, Ends
  <2>5. QED BY <2>2, <2>3, <2>4
<1>5. ASSUME sweep'.pc = "ask", sweep'.key \in ledger, sweep'.key \in Key, ~InFlight(sweep'.key),
             UNCHANGED <<row, versions, preview, bucket, ledger, next, claim, run, rv, purge, up, urls>>
      PROVE  Quiet(sweep.key)'
  <2> DEFINE q == sweep'.key
  <2>1. q < next /\ q # NoKey
    BY <1>5, KeyIs DEF SweepSound
  <2>2. ~RvOwns(q) /\ \A w \in Runs : ~OwnBy(w, q)
    BY <1>5 DEF InFlight, RvOwns, OwnBy
  <2>3. \A w \in Runs : run[w].pc = "publish" /\ run[w].key = q => run[w].prev = q
    BY <1>5 DEF InFlight, InBucket
  <2>4. QED BY <1>5, <2>1, <2>2, <2>3 DEF Quiet, HandsOff, RvOwns, OwnBy
<1>6. ASSUME sweep.pc = "ask", sweep'.pc = "delete", sweep'.key = k, ~Referenced(k),
             UNCHANGED <<row, versions, preview, bucket, ledger, next, claim, run, rv, purge, up, urls>>
      PROVE  Quiet(sweep.key)' /\ sweep'.key \notin {live', pending', preview'}
  <2>1. Quiet(k)
    BY <1>6 DEF SweepSound
  <2>2. QED BY <1>6, <2>1 DEF Referenced, Quiet, HandsOff, RvOwns, OwnBy, row
<1>7. QED BY <1>0, <1>2, <1>3, <1>4, <1>5, <1>6, SweepMoves DEF SweepSound

-----------------------------------------------------------------------------
(* What reverts and purges delete *)

LEMMA RevertDrops ==
    ASSUME TypeOK, RevertStep, rv'.pc = "drop"
    PROVE  rv'.to = preview /\ preview' = NoKey
<1>0. rv \in RvRec
  BY TypeParts
<1>1. \A r : SetRv(r) => rv' = r
  BY DEF SetRv
<1>2. \A pc : [rv EXCEPT !.pc = pc].pc = pc
  BY <1>0 DEF RvRec
<1>3. \A pc, k : [rv EXCEPT !.pc = pc, !.to = k].pc = pc /\ [rv EXCEPT !.pc = pc, !.to = k].to = k
  BY <1>0 DEF RvRec
<1> DEFINE Elsewhere == rv'.pc # "drop"
<1>4. ASSUME NEW pc, pc # "drop", SetRv([rv EXCEPT !.pc = pc]) PROVE Elsewhere
  BY <1>1, <1>2, <1>4
<1>5. ASSUME NEW pc, NEW k, pc # "drop", SetRv([rv EXCEPT !.pc = pc, !.to = k]) PROVE Elsewhere
  BY <1>1, <1>3, <1>5
<1>6. ASSUME SetRv(Idle) PROVE Elsewhere
  BY <1>1, <1>6, RecordsIn
<1>7. ~AskRevert
  <2>1. ASSUME NEW k, SetRv([pc |-> "take", key |-> k, prev |-> live, to |-> NoKey]) PROVE Elsewhere
    BY <1>1, <2>1
  <2>2. QED BY <2>1 DEF AskRevert
<1>8. ~TakeOver
  BY <1>4, <1>5, <1>6 DEF TakeOver
<1>9. ~CopyVersion
  BY <1>4 DEF CopyVersion
<1>10. ~FileReverted
  <2>1. ASSUME FileReverted PROVE \E pc \in {"detach", "leave"} : SetRv([rv EXCEPT !.pc = pc, !.to = NoKey])
    BY <2>1 DEF FileReverted
  <2>2. QED BY <1>5, <2>1
<1>11. ~DropRetracted
  BY <1>5 DEF DropRetracted
<1>12. ~LeaveRevert /\ ~RevertDies
  BY <1>6 DEF LeaveRevert, RevertDies
<1>13. DetachRetracted
  BY <1>7, <1>8, <1>9, <1>10, <1>11, <1>12 DEF RevertStep
<1>14. rv' = [rv EXCEPT !.pc = "drop", !.to = preview] /\ preview' = NoKey
  BY <1>1, <1>13 DEF DetachRetracted, Detach
<1>15. QED BY <1>3, <1>14

\* How far a purge goes, as long as it has objects to delete.
PurgeGoes ==
    \/ /\ purge'.pc = "delete" /\ UNCHANGED <<live, versions>>
       /\ purge'.prev = NoKey \/ (purge'.prev = live /\ LiveVersion \in WithState("purging"))
    \/ /\ purge.pc \in {"delete", "detach", "drop", "lake"} /\ purge'.prev = purge.prev
       /\ purge'.pc \in {"detach", "drop", "lake", "move"}
       /\ purge'.pc = "drop" => purge'.to = preview /\ preview' = NoKey
    \/ /\ purge.pc = "move" /\ purge'.pc = "old" /\ purge'.prev = purge.prev
       /\ live = purge.prev /\ live' = purge.to /\ preview' = preview

LEMMA PurgeGoesOn ==
    ASSUME TypeOK, PurgeStep, purge'.pc \notin {"idle", "ask", "finish", "fail"}
    PROVE  purge' = purge \/ PurgeGoes
<1>0. purge \in PurgeRec /\ \A p : SetPurge(p) => purge' = p
  BY TypeParts DEF SetPurge
<1>1. ASSUME NEW pc, SetPurge([purge EXCEPT !.pc = pc]) PROVE purge'.pc = pc /\ purge'.prev = purge.prev
  <2>1. purge' = [purge EXCEPT !.pc = pc]
    BY <1>0, <1>1
  <2>2. QED BY <1>0, <2>1 DEF PurgeRec
<1>2. ASSUME NEW pc, NEW k, SetPurge([purge EXCEPT !.pc = pc, !.to = k])
      PROVE  purge'.pc = pc /\ purge'.to = k /\ purge'.prev = purge.prev
  <2>1. purge' = [purge EXCEPT !.pc = pc, !.to = k]
    BY <1>0, <1>2
  <2>2. QED BY <1>0, <2>1 DEF PurgeRec
<1>3. CASE (\E v \in Numbers : ClaimPurge(v)) \/ JobLost \/ QueueStranded
  BY <1>3 DEF ClaimPurge, JobLost, QueueStranded
<1>4. CASE StartPurge
  <2>1. PICK v \in WithState("purging") :
           SetPurge([pc |-> "delete", v |-> v, serves |-> LiveVersion = v,
                     prev |-> IF LiveVersion = v THEN live ELSE NoKey, to |-> NoKey])
    BY <1>4 DEF StartPurge
  <2>2. purge'.pc = "delete" /\ purge'.prev = IF LiveVersion = v THEN live ELSE NoKey
    BY <1>0, <2>1
  <2>3. QED BY <1>4, <2>1, <2>2 DEF StartPurge, PurgeGoes, row
<1>5. CASE DeleteVersion
  <2>1. purge.pc = "delete" /\ SetPurge([purge EXCEPT !.pc = IF purge.serves THEN "detach" ELSE "lake"])
    BY <1>5 DEF DeleteVersion, PurgeAt
  <2>2. purge'.pc \in {"detach", "lake"} /\ purge'.prev = purge.prev
    BY <1>1, <2>1
  <2>3. QED BY <2>1, <2>2 DEF PurgeGoes
<1>6. CASE DetachPurged
  <2>1. purge'.pc = "drop" /\ purge'.to = preview /\ purge'.prev = purge.prev /\ purge.pc = "detach"
        /\ preview' = NoKey
    BY <1>2, <1>6 DEF DetachPurged, PurgeAt, Detach
  <2>2. QED BY <2>1 DEF PurgeGoes
<1>7. CASE DropPurged
  <2>1. purge'.pc = "lake" /\ purge'.prev = purge.prev /\ purge.pc = "drop"
    BY <1>2, <1>7 DEF DropPurged, PurgeAt
  <2>2. QED BY <2>1 DEF PurgeGoes
<1>8. CASE PurgeLake
  <2>1. \E pc \in {"move", "ask"} : \E k : SetPurge([purge EXCEPT !.pc = pc, !.to = k])
    BY <1>8 DEF PurgeLake
  <2>2. purge'.pc \in {"move", "ask"} /\ purge'.prev = purge.prev /\ purge.pc = "lake"
    BY <1>2, <1>8, <2>1 DEF PurgeLake, PurgeAt
  <2>3. QED BY <2>2 DEF PurgeGoes
<1>9. CASE RestoreLive
  <2> DEFINE moved == live = purge.prev
  <2>1. purge.pc = "move" /\ SetPurge([purge EXCEPT !.pc = IF moved THEN "old" ELSE "fail", !.to = NoKey])
        /\ preview' = preview
    BY <1>9 DEF RestoreLive, PurgeAt
  <2>2. purge'.pc = (IF moved THEN "old" ELSE "fail") /\ purge'.prev = purge.prev
    BY <1>2, <2>1
  <2>3. moved /\ purge'.pc = "old"
    BY <2>2
  <2>4. PICK bytes : Publish(purge.to, purge.prev, bytes, moved)
    BY <1>9, <2>3 DEF RestoreLive
  <2>5. live' = purge.to
    BY <2>3, <2>4 DEF Publish
  <2>6. QED BY <2>1, <2>2, <2>3, <2>5 DEF PurgeGoes
<1>10. CASE DeleteServed
  <2>1. purge' = [purge EXCEPT !.pc = "ask", !.prev = NoKey]
    BY <1>0, <1>10 DEF DeleteServed
  <2>2. purge'.pc = "ask"
    BY <1>0, <2>1 DEF PurgeRec
  <2>3. QED BY <2>2
<1>11. CASE AskRebuild
  <2>1. purge'.pc = "finish"
    BY <1>1, <1>11 DEF AskRebuild
  <2>2. QED BY <2>1
<1>12. CASE FinishPurge \/ PurgeFails \/ PurgeDies
  BY <1>0, <1>12, RecordsIn DEF FinishPurge, PurgeFails, PurgeDies
<1>13. QED BY <1>3, <1>4, <1>5, <1>6, <1>7, <1>8, <1>9, <1>10, <1>11, <1>12 DEF PurgeStep

\* While a purge is at work no version is filed, and none is claimed.
LEMMA VersionsStill ==
    ASSUME StorageInv, Parts, purge.pc # "idle", purge'.pc # "idle"
    PROVE  /\ versions' = versions /\ \A w \in Runs \cup {"revert"} : ~Held(w)
           /\ live' = live \/ Promotes \/ (purge.pc = "move" /\ purge'.pc \in {"old", "fail"})
<1>0. TypeOK /\ Equipment /\ PurgeSound
  BY DEF StorageInv
<1>1. Held("purge") /\ WithState("purging") # {}
  <2>1. Held("purge") /\ versions[purge.v].state = "purging"
    BY <1>0 DEF PurgeSound
  <2>2. purge.v \in Numbers
    BY <1>0 DEF Equipment, PurgeEquipped
  <2>3. QED BY <2>1, <2>2 DEF WithState
<1>2. \A w \in Runs \cup {"revert"} : ~Held(w)
  BY <1>1, RunsAssumption DEF Held
<1>3. \A v \in Numbers : ~Claims(v)
  BY <1>1 DEF Claims
<1>4. ~Ends
  BY DEF Ends
<1>5. QED BY <1>2, <1>3, <1>4, WorldIs
          DEF WorldMoves, FilesTaken, FilesCopied, Serves, FilesCopyBack, Empties, GoesOn, FallsBack

\* What a purge is to find at the pointer is no version's that counts.
LEMMA StartsApart ==
    ASSUME TypeOK, OneVersion, LiveVersion \in WithState("purging"), live # NoKey
    PROVE  ~ActiveKey(live)
<1> SUFFICES ASSUME NEW n \in WithState("active"), versions[n].key = live PROVE FALSE
  BY DEF ActiveKey
<1> DEFINE owners == {u \in Numbers : versions[u].key = live /\ versions[u].state # "purged"}
<1>1. n \in Numbers /\ versions[n].state = "active"
  BY DEF WithState
<1>2. owners = {n}
  BY <1>1 DEF OneVersion
<1>3. Newest(owners) = n /\ Newest(owners) # 0
  BY <1>1, <1>2, NewestOf
<1>4. LiveVersion = n
  BY <1>3 DEF LiveVersion
<1>5. QED BY <1>1, <1>4 DEF WithState

LEMMA NotPreview ==
    ASSUME TypeOK, [Next]_vars, NEW k, HandsOff(k), k # preview
    PROVE  k # preview'
<1>1. k # NoKey
  BY KeyIs DEF HandsOff
<1>2. QED BY <1>1, PreviewMoves DEF Points, HandsOff, OwnBy

LEMMA NotPending ==
    ASSUME TypeOK, Parts, NEW k, HandsOff(k), k # pending
    PROVE  k # pending'
<1>1. k # NoKey /\ k # next
  BY Counts, KeyIs DEF HandsOff
<1>2. QED BY <1>1 DEF Parts, RunPart, UploadPart, UploadMoves, Prepares, Puts, Arrives, Promotes, Drops,
                      RevertPart, PurgePart, ClaimPart, RestPart, Calm

\* What is served is no object anybody has yet to put to use.
LEMMA LiveIsNobodys ==
    ASSUME TypeOK, Keys, InBucket, live # NoKey
    PROVE  HandsOff(live) /\ live # pending /\ live # preview
<1>1. live \in Key /\ Apart(live) /\ Content(live)
  BY KeyIs DEF Keys, TypeOK, Content
<1>2. live < next
  BY <1>1, KnownIsOld DEF InBucket, Spent
<1>3. live # preview
  BY <1>1 DEF InBucket, Spent
<1>4. QED BY <1>1, <1>2, <1>3 DEF Apart, HandsOff, UpOwns

LEMMA DropKept ==
    ASSUME StorageInv, InBucket, DropSound, [Next]_vars
    PROVE  DropSound'
<1>0. TypeOK /\ Equipment /\ Keys /\ PurgeSound /\ OneVersion /\ Parts /\ TypeOK'
  BY NextIs, TypedStep DEF StorageInv
<1>1. ASSUME NEW k, Spent(k) PROVE Spent(k)' /\ (k # preview => k # preview')
  BY <1>0, <1>1, SpentKept, NotPreview DEF Spent
<1>2. preview # NoKey => Spent(preview)
  BY DEF InBucket
<1>3. rv'.pc = "drop" => rv' = rv \/ (rv'.to = preview /\ preview' = NoKey)
  BY <1>0, RevertDrops, OthersRest DEF Next, vars, actors
<1>4. purge' = purge \/ PurgeStep
  BY OthersRest DEF Next, vars, actors
<1>5. purge'.pc \notin {"idle", "ask", "finish", "fail"} => purge' = purge \/ PurgeGoes
  BY <1>0, <1>4, PurgeGoesOn
<1>6. ASSUME rv'.pc = "drop", rv'.to # NoKey PROVE Spent(rv.to)' /\ rv'.to # preview'
  <2> PICK k : k = rv'.to
    OBVIOUS
  <2>1. Spent(k) /\ (k # preview \/ preview' = NoKey)
    BY <1>2, <1>3, <1>6 DEF DropSound
  <2>2. Spent(k)' /\ k # preview'
    BY <1>1, <1>6, <2>1
  <2>3. QED BY <2>2
<1>7. ASSUME purge'.pc = "drop", purge'.to # NoKey PROVE Spent(purge.to)' /\ purge'.to # preview'
  <2> PICK k : k = purge'.to
    OBVIOUS
  <2>1. PurgeGoes => k = preview /\ preview' = NoKey
    BY <1>7 DEF PurgeGoes
  <2>2. Spent(k) /\ (k # preview \/ preview' = NoKey)
    BY <1>2, <1>5, <1>7, <2>1 DEF DropSound
  <2>3. Spent(k)' /\ k # preview'
    BY <1>1, <1>7, <2>2
  <2>4. QED BY <2>3
<1>8. ASSUME purge'.pc \notin {"idle", "ask", "finish", "fail"}, purge'.prev # NoKey
      PROVE  ~ActiveKey(purge.prev)'
  <2> PICK k : k = purge'.prev
    OBVIOUS
  <2>1. versions' = versions => ActiveKey(k)' = ActiveKey(k)
    BY DEF ActiveKey, WithState, Numbers
  <2>2. CASE purge.pc \notin {"idle", "ask", "finish", "fail"} /\ purge'.prev = purge.prev
    <3>1. versions' = versions
      BY <1>0, <1>8, <2>2, VersionsStill
    <3>2. ~ActiveKey(k)
      BY <1>8, <2>2 DEF DropSound
    <3>3. ~ActiveKey(k)'
      BY <2>1, <3>1, <3>2
    <3>4. QED BY <3>3
  <2>3. CASE versions' = versions /\ purge'.prev = live /\ LiveVersion \in WithState("purging")
    <3>1. ~ActiveKey(k)
      BY <1>0, <1>8, <2>3, StartsApart
    <3>2. ~ActiveKey(k)'
      BY <2>1, <2>3, <3>1
    <3>3. QED BY <3>2
  <2>4. QED BY <1>5, <1>8, <2>2, <2>3 DEF PurgeGoes
<1>9. ASSUME purge'.pc = "old", purge'.prev # NoKey
      PROVE  HandsOff(purge.prev)' /\ purge'.prev \notin {live', pending', preview'}
  <2> PICK k : k = purge'.prev
    OBVIOUS
  <2>1. ASSUME HandsOff(k), k \notin {pending, preview}, k # live'
        PROVE  HandsOff(k)' /\ k \notin {live', pending', preview'}
    BY <1>0, <2>1, HandsOffKept, NotPending, NotPreview
  <2>2. CASE purge' = purge
    <3>1. HandsOff(k) /\ k \notin {live, pending, preview}
      BY <1>9, <2>2 DEF DropSound
    <3>2. live' = live \/ Promotes
      BY <1>0, <1>9, <2>2, VersionsStill
    <3>3. k # live'
      BY <3>1, <3>2 DEF Promotes
    <3>4. HandsOff(k)' /\ k \notin {live', pending', preview'}
      BY <2>1, <3>1, <3>3
    <3>5. QED BY <3>4
  <2>3. CASE PurgeGoes
    <3>1. purge.pc = "move" /\ k = purge.prev /\ live = k /\ live' = purge.to
      BY <1>9, <2>3 DEF PurgeGoes
    <3>2. HandsOff(k) /\ k \notin {pending, preview} /\ k # NoKey
      BY <1>0, <1>9, <3>1, LiveIsNobodys
    <3>3. k # purge.to
      <4>1. ~ActiveKey(k)
        BY <3>1, <3>2 DEF DropSound
      <4>2. QED BY <1>0, <3>1, <3>2, <4>1 DEF PurgeSound, ActiveKey
    <3>4. HandsOff(k)' /\ k \notin {live', pending', preview'}
      BY <2>1, <3>1, <3>2, <3>3
    <3>5. QED BY <3>4
  <2>4. QED BY <1>5, <1>9, <2>2, <2>3
<1>10. QED BY <1>6, <1>7, <1>8, <1>9 DEF DropSound

-----------------------------------------------------------------------------
(* What is there, and what goes *)

\* An object that goes is nobody's, and not served but by a version on its way out.
LEMMA DoomedIs ==
    ASSUME StorageInv, UseInv, NEW k \in Key, Doomed(k)
    PROVE  /\ HandsOff(k) /\ k # pending /\ k # preview
           /\ k = live => OwnerPurging(k)
           /\ \A w \in Runs : Held(w) /\ run[w].pc = "publish" /\ run[w].key = k => run[w].prev = k
           /\ Files /\ NotOvertaken =>
                 /\ ~ActiveKey(k)
                 /\ \A w \in Runs : Held(w) /\ run[w].pc \in {"owner", "take"} => run[w].key # k
<1>0. /\ TypeOK /\ Equipment /\ Keys /\ OneVersion /\ PurgeSound
      /\ InBucket /\ SweepSound /\ DropSound /\ k # NoKey
  BY KeyIs DEF StorageInv, UseInv
<1>1. ActiveKey(k) => VersionKey(k)
  BY DEF ActiveKey, VersionKey, WithState
<1>2. purge.pc # "idle" => \A w \in Runs : ~Held(w)
  BY <1>0, RunsAssumption DEF PurgeSound, Held
<1>3. CASE sweep.pc = "delete" /\ k = sweep.key
  BY <1>0, <1>1, <1>3 DEF SweepSound, Quiet, Files, NotOvertaken
<1>4. CASE (rv.pc = "drop" /\ k = rv.to) \/ (purge.pc = "drop" /\ k = purge.to)
  <2>1. Spent(k) /\ k # preview
    BY <1>0, <1>4 DEF DropSound
  <2>2. QED BY <1>0, <1>1, <2>1 DEF Spent, Content, UpOwns
<1>5. CASE purge.pc = "delete" /\ k = KeyOf(purge.v)
  <2>1. purge.v \in Numbers /\ versions[purge.v].state = "purging" /\ k = versions[purge.v].key
    <3>1. purge.v \in Numbers /\ purge.v # 0
      BY <1>0, <1>5, VersionsAre DEF Equipment, PurgeEquipped
    <3>2. QED BY <1>0, <1>5, <3>1 DEF PurgeSound, KeyOf
  <2>2. VersionKey(k) /\ Content(k) /\ OwnerPurging(k) /\ Apart(k)
    BY <1>0, <2>1 DEF VersionKey, Content, OwnerPurging, WithState, Keys
  <2>3. ~ActiveKey(k)
    BY <1>0, <2>1 DEF ActiveKey, WithState, OneVersion
  <2>4. k # preview /\ k < next
    BY <1>0, <2>2, KnownIsOld DEF InBucket, Spent
  <2>5. QED BY <1>2, <1>5, <2>2, <2>3, <2>4 DEF Apart, HandsOff, UpOwns
<1>6. CASE purge.pc = "old" /\ k = purge.prev
  BY <1>0, <1>2, <1>6 DEF DropSound
<1>7. QED BY <1>3, <1>4, <1>5, <1>6 DEF Doomed

\* Who files or points is who has just written the object.
LEMMA FileMoves ==
    ASSUME Parts
    PROVE  /\ \A w \in Runs : run'[w].pc \in {"file", "point"} =>
                 run'[w] = run[w] \/ run'[w].to \in objects'
           /\ rv'.pc = "file" /\ rv'.to # NoKey => rv' = rv \/ rv'.to \in objects'
<1>1. ASSUME NEW w \in Runs, RunPart(w), run'[w].pc \in {"file", "point"} PROVE run'[w].to \in objects'
  BY <1>1 DEF RunPart, RunMoves, Takes, Mints, LetsGo, Stores, Copies, Serves, Asks, FilesTaken, FilesCopied
<1>2. ASSUME NEW w \in Runs, ~RunPart(w) PROVE run'[w] = run[w]
  BY <1>2 DEF Parts, RunPart, UploadPart, RevertPart, PurgePart, ClaimPart, RestPart
<1>3. rv'.pc = "file" /\ rv'.to # NoKey => rv' = rv \/ rv'.to \in objects'
  <2>1. CASE RevertPart
    BY <2>1 DEF RevertPart, RevertMoves, TakesOver, CopiesBack, FilesCopyBack, Empties, RevertLetsGo
  <2>2. CASE ~RevertPart
    BY <2>2 DEF Parts, RunPart, UploadPart, PurgePart, ClaimPart, RestPart
  <2>3. QED BY <2>1, <2>2
<1>4. QED BY <1>1, <1>2, <1>3

\* What upload-complete is about to promote is the key it asked about, or another.
LEMMA PendingMoves ==
    ASSUME TypeOK, Keys, Parts, up' # NoKey, up' = pending'
    PROVE  (up' = up /\ pending' = pending) \/ (up' \in objects /\ UploadPart)
<1>1. ~Prepares
  <2> SUFFICES ASSUME Prepares PROVE FALSE
    OBVIOUS
  <2>1. up = next /\ up \in Key /\ next \in Nat
    BY KeyIs DEF Prepares, TypeOK
  <2>2. Unused(up)
    BY <2>1 DEF Keys
  <2>3. QED BY <2>2 DEF Unused, UpOwns
<1>2. QED BY <1>1 DEF Parts, RunPart, UploadPart, UploadMoves, Puts, Arrives, Promotes, Drops, RevertPart,
                      PurgePart, ClaimPart, RestPart, Calm

LEMMA PreviewKept ==
    ASSUME StorageInv, InBucket, [Next]_vars, NEW w \in Runs, Points(w)
    PROVE  Spent(preview)' /\ preview' \in objects'
<1>0. TypeOK /\ Equipment /\ Keys
  BY DEF StorageInv
<1> PICK k : k = run[w].to
  OBVIOUS
<1>1. k \in Key /\ OwnBy(w, k) /\ k \in objects /\ preview' = k
  BY <1>0, KeysAtHand DEF Points, OwnBy, InBucket
<1>2. Apart(k) /\ k < next
  <2>1. Apart(k) /\ (k >= next => Unused(k)) /\ k \in Nat /\ next \in Nat
    BY <1>0, <1>1, KeyIs DEF Keys, TypeOK
  <2>2. QED BY <1>1, <2>1 DEF Unused
<1>3. ~RvOwns(k) /\ ~UpOwns(k) /\ ~Content(k) /\ \A u \in Runs : u # w => ~OwnBy(u, k)
  BY <1>1, <1>2 DEF Apart
<1>4. /\ UNCHANGED <<live, pending, versions, objects, next, rv, up, urls>>
      /\ run'[w].pc = "leave" /\ run'[w].key = NoKey /\ \A u \in Runs : u # w => run'[u] = run[u]
  BY DEF Points, row, bucket
<1>5. HandsOff(k)'
  BY <1>1, <1>2, <1>3, <1>4 DEF HandsOff, RvOwns, OwnBy
<1>6. ~UpOwns(k)'
  BY <1>3, <1>4 DEF UpOwns
<1>7. ~Content(k)'
  <2>1. k # NoKey /\ ~VersionKey(k) /\ k # live /\ \A u \in Runs : run[u].key # k
    BY <1>1, <1>3, KeyIs DEF Content
  <2>2. ~VersionKey(k)'
    BY <1>0, <1>4, <2>1, StateKeys
  <2>3. QED BY <1>4, <2>1, <2>2 DEF Content
<1>8. Spent(k)' /\ k \in objects'
  BY <1>1, <1>4, <1>5, <1>6, <1>7 DEF Spent
<1>9. QED BY <1>1, <1>8

LEMMA InBucketKept ==
    ASSUME StorageInv, UseInv, [Next]_vars
    PROVE  InBucket'
<1>0. /\ TypeOK /\ Equipment /\ Keys /\ PurgeSound /\ Parts /\ InBucket /\ TypeOK' /\ Equipment'
  BY NextIs, TypedStep DEF StorageInv, UseInv
<1>1. ASSUME NEW k \in objects, k \notin objects'
      PROVE  /\ HandsOff(k) /\ k # pending /\ k # preview /\ UNCHANGED <<preview, run, up, row, claim>>
             /\ \A w \in Runs : Held(w) /\ run[w].pc = "publish" /\ run[w].key = k => run[w].prev = k
  <2>1. k \in Key
    BY <1>0 DEF TypeOK
  <2>2. QED BY <1>0, <1>1, <2>1, ObjectsGo, DoomedIs
<1>2. ASSUME NEW w \in Runs, run'[w].pc \in {"file", "point"} PROVE run'[w].to \in objects'
  <2>1. CASE run'[w] = run[w]
    BY <1>0, <1>1, <1>2, <2>1 DEF InBucket, HandsOff, OwnBy
  <2>2. QED BY <1>0, <1>2, <2>1, FileMoves
<1>3. ASSUME NEW w \in Runs, run'[w].pc = "publish"
      PROVE  run'[w].key \in {run'[w].prev, run'[w].to}
  BY <1>0, <1>3, PublishMoves DEF InBucket
<1>4. ASSUME NEW w \in Runs, Held(w)', run'[w].pc = "publish", run'[w].key # run'[w].prev
      PROVE  run'[w].key \in objects'
  <2>1. CASE run'[w] = run[w] /\ ~Takes(w)
    <3>1. Held(w)
      BY <1>0, <1>4, <2>1, ClaimsMove
    <3>2. run[w].key \in objects
      BY <1>0, <1>4, <2>1, <3>1 DEF InBucket
    <3>3. QED BY <1>1, <1>4, <2>1, <3>1, <3>2
  <2>2. QED BY <1>0, <1>4, <2>1, PublishMoves
<1>5. ASSUME rv'.pc = "file", rv'.to # NoKey PROVE rv'.to \in objects'
  <2>1. CASE rv' = rv
    BY <1>0, <1>1, <1>5, <2>1 DEF InBucket, HandsOff, RvOwns
  <2>2. QED BY <1>0, <1>5, <2>1, FileMoves
<1>6. ASSUME up' # NoKey, up' = pending' PROVE up' \in objects'
  <2>1. up' \in objects
    BY <1>0, <1>6, PendingMoves DEF InBucket
  <2>2. ASSUME up' \notin objects' PROVE FALSE
    <3>1. up' # pending /\ up' = up /\ pending' = pending
      BY <1>1, <2>1, <2>2 DEF row
    <3>2. QED BY <1>6, <3>1
  <2>3. QED BY <2>2
<1>7. ASSUME preview' # NoKey PROVE Spent(preview)' /\ preview' \in objects'
  <2>1. CASE \E w \in Runs : Points(w)
    BY <1>0, <2>1, PreviewKept
  <2>2. CASE preview' = preview
    <3> PICK k : k = preview
      OBVIOUS
    <3>1. Spent(k) /\ k \in objects
      BY <1>0, <1>7, <2>2 DEF InBucket
    <3>2. Spent(k)' /\ k \in objects'
      BY <1>0, <1>1, <3>1, SpentKept
    <3>3. QED BY <2>2, <3>2
  <2>3. QED BY <1>0, <1>7, <2>1, <2>2, PreviewMoves
<1>8. QED BY <1>2, <1>3, <1>4, <1>5, <1>6, <1>7 DEF InBucket

\* A version on its way out stays so until it is gone.
LEMMA PurgingStays ==
    ASSUME StorageInv, Parts, NEW k, OwnerPurging(k)
    PROVE  OwnerPurging(k)' \/ (Ends /\ k # live)
<1>0. TypeOK /\ Equipment /\ OnePurging /\ PurgeSound
  BY DEF StorageInv
<1>1. PICK v \in WithState("purging") : versions[v].key = k
  BY DEF OwnerPurging
<1>2. versions'[v].key = k
  BY <1>0, <1>1, VersionsTyped DEF WithState
<1>3. CASE v \in WithState("purging")'
  BY <1>2, <1>3 DEF OwnerPurging
<1>4. CASE v \notin WithState("purging")'
  <2>1. Ends /\ purge.v \in Numbers
    BY <1>0, <1>4, StateKeys, TableMoves DEF NewVersion, Claims
  <2>2. WithState("purging")' = WithState("purging") \ {purge.v}
    BY <1>0, <2>1, StateKeys DEF Ends
  <2>3. k = versions[purge.v].key
    BY <1>1, <1>4, <2>2
  <2>4. k # live
    BY <2>1, <2>3, <1>0 DEF Ends, PurgeSound
  <2>5. QED BY <2>1, <2>4
<1>5. QED BY <1>3, <1>4

LEMMA LiveStoredKept ==
    ASSUME StorageInv, UseInv, LiveStored, [Next]_vars, purge.pc = "move" => VersionsStored
    PROVE  LiveStored'
<1>0. /\ TypeOK /\ Equipment /\ Keys /\ PurgeSound /\ Parts /\ InBucket
  BY NextIs DEF StorageInv, UseInv
<1> SUFFICES ASSUME live' # NoKey, ~OwnerPurging(live)' PROVE live' \in objects'
  BY DEF LiveStored
<1>1. CASE live' = live
  <2>1. ~OwnerPurging(live)
    <3>1. SUFFICES ASSUME OwnerPurging(live) PROVE FALSE
      OBVIOUS
    <3> PICK k : k = live
      OBVIOUS
    <3>2. OwnerPurging(k)'
      BY <3>1, <1>0, PurgingStays
    <3>3. QED BY <1>1, <3>2
  <2>2. live \in objects /\ live \in Key
    BY <1>0, <1>1, <2>1, KeyIs DEF LiveStored, TypeOK
  <2>3. ASSUME live \notin objects' PROVE FALSE
    BY <1>0, <2>1, <2>2, <2>3, ObjectsGo, DoomedIs
  <2>4. QED BY <1>1, <2>3
<1>2. CASE live' # live
  <2>1. live' \in objects
    <3>1. ASSUME NEW w \in Runs, Serves(w) PROVE live' \in objects
      BY <1>0, <1>2, <3>1 DEF Serves, InBucket
    <3>2. ASSUME NEW w \in Runs, FilesCopied(w) PROVE live' \in objects
      BY <1>0, <3>2 DEF FilesCopied, InBucket
    <3>3. FilesCopyBack => live' \in objects
      BY <1>0 DEF FilesCopyBack, InBucket
    <3>4. Promotes => live' \in objects
      BY <1>0 DEF Promotes, InBucket
    <3>5. GoesOn /\ FallsBack => live' \in objects
      BY <1>0, <1>2 DEF FallsBack, PurgeSound, VersionsStored
    <3>6. QED BY <1>0, <1>2, <3>1, <3>2, <3>3, <3>4, <3>5, WorldIs
              DEF WorldMoves, FilesTaken, Empties, Claims, Ends
  <2>2. live' \in objects'
    <3>1. SUFFICES ASSUME live' \notin objects' PROVE FALSE
      OBVIOUS
    <3> PICK k : k = live'
      OBVIOUS
    <3>2. live' = live
      BY <1>0, <2>1, <3>1, ObjectsGo DEF row
    <3>3. QED BY <1>2, <3>2
  <2>3. QED BY <2>2
<1>3. QED BY <1>1, <1>2

\* A run comes to file what is served, as it stands.
LEMMA OwnerMoves ==
    ASSUME TypeOK, Equipment, [Next]_vars, NEW w \in Runs, run'[w].pc \in {"owner", "take"}
    PROVE  \/ run'[w] = run[w]
           \/ /\ run'[w].key = run[w].key /\ claim' = claim /\ objects' = objects
              /\ \/ run[w].pc = "owner"
                 \/ live = run[w].key /\ ~OwnerPurging(run[w].key)
<1>1. CASE RunStep(w)
  <2>1. Asks(w)
    BY <1>1, RunIs DEF RunMoves, Takes, Mints, LetsGo, Stores, Copies, Serves, FilesTaken, FilesCopied
  <2>2. CASE run[w].pc = "owner"
    BY <2>1, <2>2 DEF Asks, Calm
  <2>3. CASE run[w].pc = "gate"
    <3>1. \A r : SetRun(w, r) => run'[w] = r
      BY TypeParts DEF SetRun
    <3>2. ~GiveUp(w) /\ ~Crash(w)
      <4>1. [Idle EXCEPT !.pc = "leave"].pc = "leave" /\ Idle.pc = "idle"
        BY DEF Idle
      <4> DEFINE r == [Idle EXCEPT !.pc = "leave"]
      <4> HIDE DEF r
      <4>2. GiveUp(w) => SetRun(w, r)
        BY DEF GiveUp, r
      <4>3. r.pc = "leave"
        BY <4>1 DEF r
      <4>4. Crash(w) => SetRun(w, Idle)
        BY DEF Crash
      <4>5. QED BY <3>1, <4>1, <4>2, <4>3, <4>4
    <3>3. Gate(w)
      BY <1>1, <2>3, <3>2
         DEF RunStep, TakeClaim, Reserve, Store, PublishContent, AskOwner, FileTaken, Copy, FileCopied,
             Interpret, Paint, Point, Leave
    <3> DEFINE open == live = run[w].key /\ ~OwnerPurging(run[w].key)
    <3>4. open
      <4>1. SUFFICES ASSUME ~open PROVE FALSE
        OBVIOUS
      <4>2. SetRun(w, [run[w] EXCEPT !.pc = "interpret"])
        BY <3>3, <4>1 DEF Gate, Goto
      <4>3. run'[w] = [run[w] EXCEPT !.pc = "interpret"] /\ run[w] \in RunRec
        BY <3>1, <4>2, TypeParts
      <4>4. run'[w].pc = "interpret"
        BY <4>3 DEF RunRec
      <4>5. QED BY <4>4
    <3>5. QED BY <2>1, <3>4 DEF Asks, Calm
  <2>4. QED BY <2>1, <2>2, <2>3 DEF Asks
<1>2. CASE ~RunStep(w)
  <2>1. ASSUME NEW u \in Runs, RunStep(u) PROVE run'[w] = run[w]
    BY <1>2, <2>1, RunIs
  <2>2. CASE UNCHANGED vars
    BY <2>2 DEF vars, actors
  <2>3. QED BY <2>1, <2>2, OthersRest DEF Next
<1>3. QED BY <1>1, <1>2

\* Which keys the versions that count have.
LEMMA ActiveMoves ==
    ASSUME StorageInv, Parts, NEW k, ActiveKey(k)'
    PROVE  \/ ActiveKey(k)
           \/ \E w \in Runs : FilesTaken(w) /\ k = run[w].key
           \/ \E w \in Runs : FilesCopied(w) /\ k = run[w].to
           \/ FilesCopyBack /\ k = rv.to
<1>0. TypeOK /\ Equipment
  BY DEF StorageInv
<1>1. PICK v \in WithState("active")' : versions'[v].key = k
  BY DEF ActiveKey
<1>2. v \in Numbers' /\ versions'[v].state = "active"
  BY DEF WithState
<1>3. ASSUME NEW q \in Key, Filed(q) PROVE ActiveKey(k) \/ k = q
  <2>1. PICK n \in Nat : /\ n \notin Numbers /\ Numbers' = Numbers \cup {n}
                         /\ versions'[n] = [key |-> q, state |-> "active"]
                         /\ \A x \in Numbers : versions'[x] = versions[x]
    BY <1>0, <1>3, FiledIs
  <2>2. CASE v = n
    BY <1>1, <2>1, <2>2
  <2>3. CASE v \in Numbers
    <3>1. v \in WithState("active") /\ versions[v].key = k
      BY <1>1, <1>2, <2>1, <2>3 DEF WithState
    <3>2. QED BY <3>1 DEF ActiveKey
  <2>4. QED BY <1>2, <2>1, <2>2, <2>3
<1>4. ASSUME NEW u \in Numbers, NEW s \in {"purging", "purged"},
             versions' = [versions EXCEPT ![u].state = s]
      PROVE  ActiveKey(k)
  <2>1. /\ Numbers' = Numbers /\ versions'[u].state = s
        /\ \A x \in Numbers : x # u => versions'[x] = versions[x]
    BY <1>0, <1>4, MarkedIs
  <2>2. v # u /\ v \in Numbers /\ versions'[v] = versions[v]
    BY <1>2, <2>1
  <2>3. QED BY <1>1, <1>2, <2>2 DEF ActiveKey, WithState
<1>5. CASE versions' = versions
  BY <1>1, <1>5 DEF ActiveKey, WithState, Numbers
<1>6. ASSUME NEW w \in Runs, FilesTaken(w) PROVE ActiveKey(k) \/ k = run[w].key
  BY <1>0, <1>3, <1>6, KeysAtHand DEF FilesTaken
<1>7. ASSUME NEW w \in Runs, FilesCopied(w) PROVE ActiveKey(k) \/ k = run[w].to
  BY <1>0, <1>3, <1>7, KeysAtHand DEF FilesCopied
<1>8. FilesCopyBack => ActiveKey(k) \/ k = rv.to
  BY <1>0, <1>3, KeysAtHand, KeyIs DEF FilesCopyBack
<1>9. ASSUME NEW u \in Numbers, Claims(u) PROVE ActiveKey(k)
  BY <1>4, <1>9 DEF Claims
<1>10. Ends => ActiveKey(k)
  BY <1>0, <1>4 DEF Ends, Equipment, PurgeEquipped
<1>11. QED BY <1>5, <1>6, <1>7, <1>8, <1>9, <1>10, WorldIs
           DEF WorldMoves, Serves, Empties, GoesOn

LEMMA FilesKept ==
    ASSUME StorageInv, UseInv, LiveStored, Files, NotOvertaken, [Next]_vars
    PROVE  Files'
<1>0. /\ TypeOK /\ Equipment /\ Keys /\ PurgeSound /\ Parts /\ InBucket /\ SweepSound /\ TypeOK'
  BY NextIs, TypedStep DEF StorageInv, UseInv
<1>1. ASSUME NEW k \in objects, k \notin objects'
      PROVE  /\ ~ActiveKey(k) /\ UNCHANGED <<run, claim, versions>>
             /\ \A w \in Runs : Held(w) /\ run[w].pc \in {"owner", "take"} => run[w].key # k
  <2>1. k \in Key
    BY <1>0 DEF TypeOK
  <2>2. QED BY <1>0, <1>1, <2>1, ObjectsGo, DoomedIs
<1>2. \A k : ActiveKey(k) => k \in objects
  BY DEF ActiveKey, Files, VersionsStored
<1>3. ASSUME NEW k, ActiveKey(k)' PROVE k \in objects'
  <2>1. CASE ActiveKey(k)
    BY <1>1, <1>2, <2>1
  <2>2. CASE ~ActiveKey(k)
    <3>1. ASSUME NEW w \in Runs, FilesTaken(w), k = run[w].key PROVE k \in objects'
      BY <3>1 DEF FilesTaken, Files
    <3>2. ASSUME NEW w \in Runs, FilesCopied(w), k = run[w].to PROVE k \in objects'
      BY <1>0, <3>2 DEF FilesCopied, InBucket
    <3>3. FilesCopyBack /\ k = rv.to => k \in objects'
      BY <1>0 DEF FilesCopyBack, InBucket
    <3>4. QED BY <1>0, <1>3, <2>2, <3>1, <3>2, <3>3, ActiveMoves
  <2>3. QED BY <2>1, <2>2
<1>4. ASSUME NEW w \in Runs, Held(w)', run'[w].pc \in {"owner", "take"} PROVE run'[w].key \in objects'
  <2>1. CASE run'[w] = run[w]
    <3>1. Held(w)
      BY <1>0, <1>4, ClaimsMove DEF Takes
    <3>2. run[w].key \in objects
      BY <1>4, <2>1, <3>1 DEF Files
    <3>3. QED BY <1>1, <1>4, <2>1, <3>1, <3>2
  <2>2. CASE run'[w] # run[w]
    <3>1. /\ run'[w].key = run[w].key /\ claim' = claim /\ objects' = objects
          /\ run[w].pc = "owner" \/ (live = run[w].key /\ ~OwnerPurging(run[w].key))
      BY <1>0, <1>4, <2>2, OwnerMoves
    <3>2. CASE run[w].pc = "owner"
      BY <1>4, <3>1, <3>2 DEF Files, Held
    <3>3. CASE live = run[w].key /\ ~OwnerPurging(run[w].key)
      <4>1. run'[w].key # NoKey
        BY <1>0, <1>4, TypedStep, KeysAtHand, KeyIs DEF Equipment, Equipped
      <4>2. QED BY <3>1, <3>3, <4>1 DEF LiveStored
    <3>4. QED BY <3>1, <3>2, <3>3
  <2>3. QED BY <2>1, <2>2
<1>5. ASSUME sweep'.pc = "delete" PROVE ~VersionKey(sweep.key)'
  <2> PICK k : k = sweep'.key
    OBVIOUS
  <2>1. CASE sweep' = sweep
    <3>1. HandsOff(k) /\ ~VersionKey(k) /\ \A w \in Runs : Held(w) /\ run[w].pc = "take" => run[w].key # k
      BY <1>0, <1>5, <2>1 DEF SweepSound, Quiet, Files, NotOvertaken
    <3>2. ASSUME NEW q \in Key, Filed(q), q # k PROVE ~VersionKey(k)'
      BY <1>0, <3>1, <3>2, StateKeys
    <3>3. ASSUME NEW w \in Runs, FilesTaken(w) PROVE ~VersionKey(k)'
      BY <1>0, <3>1, <3>2, <3>3, KeysAtHand DEF FilesTaken
    <3>4. ASSUME NEW w \in Runs, FilesCopied(w) PROVE ~VersionKey(k)'
      BY <1>0, <3>1, <3>2, <3>4, KeysAtHand DEF FilesCopied, HandsOff, OwnBy
    <3>5. FilesCopyBack => ~VersionKey(k)'
      BY <1>0, <3>1, <3>2, KeysAtHand, KeyIs DEF FilesCopyBack, HandsOff, RvOwns
    <3>6. ~VersionKey(k)'
      <4>1. CASE versions' = versions \/ (\E v \in Numbers : Claims(v)) \/ (Ends /\ purge.v \in Numbers)
        BY <1>0, <3>1, <4>1, StateKeys DEF Claims, Ends
      <4>2. Ends => purge.v \in Numbers
        BY <1>0 DEF Ends, Equipment, PurgeEquipped
      <4>3. QED BY <1>0, <3>3, <3>4, <3>5, <4>1, <4>2, WorldIs DEF WorldMoves, Serves, Empties, GoesOn
    <3>7. QED BY <3>6
  <2>2. CASE sweep' # sweep
    <3>1. versions' = versions /\ sweep'.key = sweep.key /\ ~Referenced(sweep.key)
      BY <1>0, <1>5, <2>2, SweepMoves
    <3>2. ~VersionKey(k)
      BY <3>1 DEF Referenced, VersionKey
    <3>3. ~VersionKey(k)'
      BY <1>0, <3>1, <3>2, StateKeys
    <3>4. QED BY <3>3
  <2>3. QED BY <2>1, <2>2
<1>6. VersionsStored'
  <2> SUFFICES ASSUME NEW v \in WithState("active")' PROVE versions'[v].key \in objects'
    BY DEF VersionsStored
  <2> PICK k : k = versions'[v].key
    OBVIOUS
  <2>1. ActiveKey(k)'
    BY DEF ActiveKey
  <2>2. QED BY <1>3, <2>1
<1>7. QED BY <1>4, <1>5, <1>6 DEF Files

-----------------------------------------------------------------------------
(* Without uploads a run serves what it is about to file *)

NoUpload ==
    /\ pending = NoKey /\ up = NoKey /\ urls = {}
    /\ \A w \in Runs : Held(w) /\ run[w].pc \in {"gate", "owner", "take"} => live = run[w].key

\* Nobody but who has the claim moves the pointer.
LEMMA LiveUnderClaim ==
    ASSUME PurgeSound, NoUpload, Parts, NEW w \in Runs, Held(w), ~RunPart(w)
    PROVE  live' = live
<1>0. ~Held("purge") /\ ~Held("revert") /\ \A u \in Runs : RunPart(u) => ~Held(u)
  BY RunsAssumption DEF Held
<1>1. ~Promotes
  BY DEF Promotes, NoUpload
<1>2. ~(GoesOn /\ FallsBack)
  BY <1>0 DEF FallsBack, PurgeSound
<1>3. ASSUME NEW u \in Runs, RunPart(u) PROVE live' = live
  BY <1>0, <1>3 DEF RunPart, RunMoves, Takes, Mints, LetsGo, Stores, Copies, Serves, Asks,
                    FilesTaken, FilesCopied, Calm
<1>4. CASE RevertPart
  BY <1>0, <1>4 DEF RevertPart, RevertMoves, TakesOver, CopiesBack, FilesCopyBack, Empties, RevertLetsGo
<1>5. CASE PurgePart
  BY <1>2, <1>5 DEF PurgePart, PurgeMoves, Claims, Starts, GoesOn, Deletes, Passes, LooksBack,
                    Ends, Stops, Rests
<1>6. CASE UploadPart
  BY <1>1, <1>6 DEF UploadPart, UploadMoves, Prepares, Puts, Arrives, Drops, Calm
<1>7. QED BY <1>3, <1>4, <1>5, <1>6 DEF Parts, ClaimPart, RestPart, Calm

LEMMA NoUploadKept ==
    ASSUME "upload" \notin Others, StorageInv, NoUpload, [Next]_vars
    PROVE  NoUpload'
<1>0. TypeOK /\ Equipment /\ PurgeSound /\ Parts
  BY NextIs DEF StorageInv
<1>1. ~UploadStep
  <2>1. NoKey \notin objects
    BY <1>0, KeyIs DEF TypeOK
  <2>2. QED BY <2>1 DEF NoUpload, UploadStep, PrepareForUpload, ClientPuts, UploadArrived, Promote, ExpirePending
<1>2. UNCHANGED <<pending, up, urls>>
  BY <1>1, OthersRest DEF Next, vars, row, actors
<1>3. ASSUME NEW w \in Runs, Held(w)', run'[w].pc \in {"gate", "owner", "take"} PROVE live' = run'[w].key
  <2>1. Held(w) /\ ~Held("purge") /\ ~Held("revert")
    BY <1>0, <1>3, ClaimsMove, RunsAssumption DEF Takes, Held
  <2>2. CASE RunPart(w)
    <3>1. Serves(w) \/ Asks(w)
      BY <1>3, <2>2 DEF RunPart, RunMoves, Takes, Mints, LetsGo, Stores, Copies, FilesTaken, FilesCopied
    <3>2. CASE Serves(w)
      BY <3>2 DEF Serves
    <3>3. CASE Asks(w)
      BY <2>1, <3>3 DEF Asks, Calm, NoUpload
    <3>4. QED BY <3>1, <3>2, <3>3
  <2>3. CASE ~RunPart(w)
    <3>1. run'[w] = run[w]
      BY <1>0, <2>3 DEF Parts, RunPart, UploadPart, RevertPart, PurgePart, ClaimPart, RestPart
    <3>2. live = run[w].key
      BY <1>3, <2>1, <3>1 DEF NoUpload
    <3>3. live' = live
      BY <1>0, <2>1, <2>3, LiveUnderClaim
    <3>4. QED BY <3>1, <3>2, <3>3
  <2>4. QED BY <2>2, <2>3
<1>4. QED BY <1>2, <1>3 DEF NoUpload

LEMMA NobodyOvertakes == ASSUME SweepSound, NoUpload PROVE NotOvertaken
BY DEF SweepSound, NoUpload, NotOvertaken

-----------------------------------------------------------------------------
(* Without purges *)

LEMMA NoPurgeKept ==
    ASSUME "purge" \notin Others, StorageInv, NoPurge, [Next]_vars
    PROVE  NoPurge'
<1>0. TypeOK /\ Equipment /\ Parts
  BY NextIs DEF StorageInv
<1>1. ASSUME PurgeStep PROVE UNCHANGED <<purge, versions>>
  <2>1. JobLost \/ QueueStranded
    BY <1>1 DEF NoPurge, PurgeStep, ClaimPurge, StartPurge, DeleteVersion, DetachPurged, DropPurged,
                PurgeLake, RestoreLive, DeleteServed, AskRebuild, FinishPurge, PurgeFails, PurgeDies, PurgeAt
  <2>2. QED BY <2>1 DEF JobLost, QueueStranded
<1>2. purge' = purge
  BY <1>1, OthersRest DEF Next, vars, actors
<1>3. versions' = versions \/ \E k \in Key : Filed(k)
  <2>1. ASSUME NEW w \in Runs, RunStep(w) PROVE versions' = versions \/ \E k \in Key : Filed(k)
    <3>1. RunMoves(w)
      BY <1>0, <2>1, RunIs
    <3>2. FilesTaken(w) \/ FilesCopied(w) => \E k \in Key : Filed(k)
      BY <1>0, KeysAtHand DEF FilesTaken, FilesCopied
    <3>3. QED BY <3>1, <3>2 DEF RunMoves, Takes, Mints, LetsGo, Stores, Copies, Serves, Asks, Calm
  <2>2. ASSUME RevertStep PROVE versions' = versions \/ \E k \in Key : Filed(k)
    <3>1. RevertMoves
      BY <1>0, <2>2, RevertIs
    <3>2. FilesCopyBack => \E k \in Key : Filed(k)
      BY <1>0, KeysAtHand, KeyIs DEF FilesCopyBack
    <3>3. QED BY <3>1, <3>2 DEF RevertMoves, TakesOver, CopiesBack, Empties, RevertLetsGo
  <2>3. QED BY <1>1, <2>1, <2>2, OthersRest DEF Next, vars
<1>4. WithState("purging")' = {}
  BY <1>0, <1>3, StateKeys DEF NoPurge
<1>5. QED BY <1>2, <1>4 DEF NoPurge

-----------------------------------------------------------------------------
(* The theorems *)

LEMMA InitTyped == ASSUME Init PROVE TypeOK /\ Equipment
<1> DEFINE one == [key |-> 1, state |-> "active"]
           two == [key |-> 2, state |-> "active"]
<1>1. 1 \in Key /\ 2 \in Key /\ \A k \in Key : k \in Nat /\ k # 0
  BY BoundsAssumption DEF Key
<1>2. one \in Vs /\ two \in Vs /\ versions = <<one, two>>
  BY <1>1 DEF Vs, Init
<1>3. /\ versions \in Seq(Vs) /\ Numbers = {1, 2}
      /\ versions[1].key = 1 /\ versions[2].key = 2
      /\ versions[1].state = "active" /\ versions[2].state = "active"
  BY <1>2 DEF Numbers
<1>4. /\ live = 2 /\ pending = 0 /\ up = 0 /\ urls = {} /\ next = 3 /\ objects = {1, 2}
      /\ rv = Idle /\ purge = NotPurging /\ claim = "none" /\ run = [w \in Runs |-> Idle]
  BY DEF Init, NoKey
<1>5. TypeOK
  <2>1. StoreOK /\ RestOK
    <3>1. NoKey \in Pointer /\ live \in Pointer /\ hash \in Pointer /\ objects \subseteq Key
      BY <1>1, <1>4, KeyIs DEF Init
    <3>2. StoreOK
      BY <3>1 DEF StoreOK, Init
    <3>3. sweep \in [pc : {"idle", "ask", "delete", "untrack"}, key : Pointer]
      BY <3>1 DEF Init, NoSweep
    <3>4. recon \in [pc : {"idle", "ask", "known", "insert"}, keys : SUBSET Key]
      BY DEF Init, NoList
    <3>5. faults \in 0..MaxFaults
      BY BoundsAssumption DEF Init
    <3>6. RestOK
      BY <3>1, <3>3, <3>4, <3>5 DEF RestOK, Init
    <3>7. QED BY <3>2, <3>6
  <2>2. run \in [Runs -> RunRec] /\ rv \in RvRec /\ purge \in PurgeRec
    BY <1>4, RecordsIn
  <2>3. QED BY <1>3, <2>1, <2>2, TypeParts
<1>6. \A w \in Runs : run[w].pc = "idle" /\ run[w].key = 0
  BY <1>4, RecordsIn DEF NoKey
<1>7. rv.pc = "idle" /\ purge.pc = "idle"
  BY <1>4, RecordsIn
<1>8. Equipment
  BY <1>6, <1>7 DEF Equipment, Equipped, RevertEquipped, PurgeEquipped
<1>9. QED BY <1>5, <1>8

LEMMA InitHolds == ASSUME PurgesLast, Init PROVE StorageInv
<1> DEFINE one == [key |-> 1, state |-> "active"]
           two == [key |-> 2, state |-> "active"]
<1>1. 1 \in Key /\ 2 \in Key /\ \A k \in Key : k \in Nat /\ k # 0
  BY BoundsAssumption DEF Key
<1>2. one \in Vs /\ two \in Vs /\ versions = <<one, two>>
  BY <1>1 DEF Vs, Init
<1>3. /\ versions \in Seq(Vs) /\ Numbers = {1, 2}
      /\ versions[1].key = 1 /\ versions[2].key = 2
      /\ versions[1].state = "active" /\ versions[2].state = "active"
  BY <1>2 DEF Numbers
<1>4. /\ live = 2 /\ pending = 0 /\ up = 0 /\ urls = {} /\ next = 3 /\ objects = {1, 2}
      /\ rv = Idle /\ purge = NotPurging /\ claim = "none" /\ run = [w \in Runs |-> Idle]
  BY DEF Init, NoKey
<1>5. TypeOK /\ Equipment
  BY InitTyped
<1>6. \A w \in Runs : run[w].pc = "idle" /\ run[w].key = 0
  BY <1>4, RecordsIn DEF NoKey
<1>7. rv.pc = "idle" /\ purge.pc = "idle"
  BY <1>4, RecordsIn
<1>9. \A k \in Key : /\ \A w \in Runs : ~OwnBy(w, k)
                     /\ ~RvOwns(k) /\ ~UpOwns(k)
                     /\ Content(k) => k \in {1, 2}
  BY <1>1, <1>3, <1>4, <1>6, <1>7 DEF OwnBy, RvOwns, UpOwns, Content, VersionKey
<1>10. Keys
  <2> SUFFICES ASSUME NEW k \in Key
               PROVE  /\ Apart(k)
                      /\ k \in urls => k \notin objects /\ k # up
                      /\ k >= next => Unused(k) /\ k \notin objects
    BY DEF Keys
  <2>1. Apart(k)
    BY <1>9, LooseIsApart DEF Apart
  <2>2. k >= next => k # 1 /\ k # 2
    BY <1>1, <1>4
  <2>3. QED BY <1>4, <1>9, <2>1, <2>2 DEF Unused
<1>11. (\A w \in Runs : RunSound(w)) /\ PurgeSound
  BY <1>4, <1>7, RunsAssumption DEF RunSound, Held, PurgeSound
<1>12. OneVersion /\ OnePurging
  BY <1>3 DEF OneVersion, OnePurging, WithState
<1>13. LiveIsNewest
  BY <1>3, <1>4 DEF LiveIsNewest
<1>14. PurgedGone
  BY <1>3 DEF PurgedGone, WithState
<1>15. PurgeIsHolder
  BY <1>3, <1>7 DEF PurgesLast, PurgeIsHolder, NoPurge, WithState
<1>16. QED BY <1>5, <1>10, <1>11, <1>12, <1>13, <1>14, <1>15 DEF StorageInv

LEMMA StepKeeps == ASSUME StorageInv, [Next]_vars PROVE StorageInv'
<1>1. TypeOK /\ Equipment /\ Keys /\ PurgeSound
  BY DEF StorageInv
<1>2. TypeOK' /\ Equipment' /\ Parts
  BY <1>1, TypedStep, NextIs
<1>3. Keys' /\ PurgeSound' /\ OneVersion' /\ OnePurging' /\ LiveIsNewest' /\ PurgedGone'
  BY <1>1, <1>2, KeysKept, PurgeKept, TableKept, LiveKept, PurgedKept
<1>4. \A w \in Runs : RunSound(w)'
  BY <1>2, RunSoundKept
<1>5. PurgeIsHolder'
  BY NoPurgeKept DEF StorageInv, PurgeIsHolder
<1>6. QED BY <1>2, <1>3, <1>4, <1>5 DEF StorageInv

\* Keys of one use, what the claim's holder knows of its content, and how far a purge
\* has come, together: what every publish, filing and purge keeps, as long as no purge
\* that lives loses the claim. A run may, at any time.
THEOREM InvHolds == PurgesLast => (Spec => []StorageInv)
<1> SUFFICES ASSUME PurgesLast PROVE Spec => []StorageInv
  OBVIOUS
<1>1. Init => StorageInv
  BY InitHolds
<1>2. StorageInv /\ [Next]_vars => StorageInv'
  BY StepKeeps
<1>3. QED BY <1>1, <1>2, PTL DEF Spec

\* Every variable holds what the table, the bucket or the process it stands for can.
THEOREM TypeCorrect == Spec => []TypeOK
<1>1. Init => TypeOK /\ Equipment
  BY InitTyped
<1>2. TypeOK /\ Equipment /\ [Next]_vars => (TypeOK /\ Equipment)'
  BY TypedStep
<1>3. QED BY <1>1, <1>2, PTL DEF Spec

\* objectAlreadyVersioned and the copy it asks for: whatever files a version, for as
\* many runs and reverts as there are, no two versions that count own one object.
THEOREM OwnersDiffer == PurgesLast => (Spec => []OneOwner)
<1>1. StorageInv => OneOwner
  BY DEF StorageInv, OneVersion, OneOwner
<1>2. QED BY <1>1, InvHolds, PTL

\* The pointer moves under the claim, and with the version it files: a version later
\* than the owner of what is served is on its way out.
THEOREM NewestIsServed == PurgesLast => (Spec => []LiveIsNewest)
<1>1. StorageInv => LiveIsNewest
  BY DEF StorageInv
<1>2. QED BY <1>1, InvHolds, PTL

\* executePurge, cut off and begun again as often as may be: a version marked purged
\* has no file in the bucket, and nothing serves it, ever after.
THEOREM PurgeIsFinal == PurgesLast => (Spec => []PurgedGone)
<1>1. StorageInv => PurgedGone
  BY DEF StorageInv
<1>2. QED BY <1>1, InvHolds, PTL

-----------------------------------------------------------------------------
(* What is stored, together *)

\* At the start there is one object to each of the two versions.
LEMMA StoredAtStart ==
    ASSUME Init
    PROVE  UseInv /\ LiveStored /\ Files /\ NoUpload /\ NoPurge
<1>1. 1 \in Key /\ 2 \in Key /\ NoKey = 0
  BY BoundsAssumption DEF Key, NoKey
<1>2. /\ live = 2 /\ pending = NoKey /\ up = NoKey /\ urls = {} /\ preview = NoKey /\ objects = {1, 2}
      /\ ledger = {} /\ next = 3 /\ claim = "none"
      /\ rv = Idle /\ purge = NotPurging /\ run = [w \in Runs |-> Idle] /\ sweep = NoSweep /\ recon = NoList
  BY DEF Init
<1>3. /\ Idle.pc = "idle" /\ NotPurging.pc = "idle" /\ NoSweep.pc = "idle" /\ NoList.keys = {}
      /\ rv.pc = "idle" /\ purge.pc = "idle" /\ sweep.pc = "idle" /\ recon.keys = {}
  BY <1>2 DEF Idle, NotPurging, NoSweep, NoList
<1>4. \A w \in Runs : run[w].pc = "idle" /\ ~Held(w)
  BY <1>2, <1>3, RunsAssumption DEF Held
<1>5. /\ Numbers = {1, 2} /\ \A v \in Numbers : versions[v].key \in objects /\ versions[v].state = "active"
  BY <1>2 DEF Init, Numbers
<1>6. UseInv
  BY <1>2, <1>3, <1>4 DEF UseInv, InBucket, SweepSound, DropSound
<1>7. LiveStored
  BY <1>2 DEF LiveStored
<1>8. Files
  BY <1>3, <1>4, <1>5 DEF Files, VersionsStored, WithState
<1>9. NoUpload /\ NoPurge
  BY <1>2, <1>3, <1>4, <1>5 DEF NoUpload, NoPurge, WithState
<1>10. QED BY <1>6, <1>7, <1>8, <1>9

LEMMA UseKept ==
    ASSUME StorageInv, UseInv, [Next]_vars, (Files \/ NoPurge)
    PROVE  UseInv'
<1>1. PurgeSound /\ InBucket /\ SweepSound /\ DropSound
  BY DEF StorageInv, UseInv
<1>2. purge.pc = "move" /\ sweep.pc = "delete" => purge.to # sweep.key
  <2> SUFFICES ASSUME purge.pc = "move", sweep.pc = "delete", purge.to = sweep.key PROVE FALSE
    OBVIOUS
  <2>1. sweep.key # NoKey /\ ~VersionKey(sweep.key)
    BY <1>1, KeyIs DEF Files, NoPurge, SweepSound, Quiet, HandsOff
  <2>2. QED BY <1>1, <2>1 DEF PurgeSound, VersionKey, WithState
<1>3. QED BY <1>1, <1>2, InBucketKept, SweepKept, DropKept DEF UseInv

StoredInv == StorageInv /\ UseInv /\ LiveStored /\ Files

LEMMA StoredStep ==
    ASSUME StoredInv, NotOvertaken, [Next]_vars
    PROVE  StoredInv'
<1>1. StorageInv /\ UseInv /\ LiveStored /\ Files
  BY DEF StoredInv
<1>2. StorageInv' /\ UseInv' /\ Files'
  BY <1>1, StepKeeps, UseKept, FilesKept
<1>3. LiveStored'
  BY <1>1, LiveStoredKept DEF Files
<1>4. QED BY <1>2, <1>3 DEF StoredInv

\* A run can file an object the sweep has decided on, where its content was uploaded over
\* meanwhile and the decision fell before it asked. Nothing else takes a version's
\* file: as long as no run is overtaken so, every version that counts has its file.
THEOREM FilesUnlessOvertaken == PurgesLast => (Spec /\ []NotOvertaken => []VersionsStored)
<1> SUFFICES ASSUME PurgesLast PROVE Spec /\ []NotOvertaken => []VersionsStored
  OBVIOUS
<1>1. Init => StoredInv
  BY InitHolds, StoredAtStart DEF StoredInv
<1>2. StoredInv /\ NotOvertaken /\ [Next]_vars => StoredInv'
  BY StoredStep
<1>3. StoredInv => VersionsStored
  BY DEF StoredInv, Files
<1>4. QED BY <1>1, <1>2, <1>3, PTL DEF Spec

LEMMA StoredHolds == PurgesLast /\ "upload" \notin Others => (Spec => []StoredInv)
<1> SUFFICES ASSUME PurgesLast, "upload" \notin Others PROVE Spec => []StoredInv
  OBVIOUS
<1>1. Init => StoredInv /\ NoUpload
  BY InitHolds, StoredAtStart DEF StoredInv
<1>2. StoredInv /\ NoUpload /\ [Next]_vars => (StoredInv /\ NoUpload)'
  <2> SUFFICES ASSUME StoredInv, NoUpload, [Next]_vars PROVE StoredInv' /\ NoUpload'
    OBVIOUS
  <2>1. NotOvertaken
    BY NobodyOvertakes DEF StoredInv, UseInv
  <2>2. QED BY <2>1, StoredStep, NoUploadKept DEF StoredInv
<1>3. QED BY <1>1, <1>2, PTL DEF Spec

\* The deletes of the sweep, the revert and the purge beside every filing: where nobody
\* uploads, no version that counts loses its file, for as many runs, keys and failures
\* as there are.
THEOREM FilesStay == PurgesLast /\ "upload" \notin Others => (Spec => []VersionsStored)
<1>1. StoredInv => VersionsStored
  BY DEF StoredInv, Files
<1>2. QED BY <1>1, StoredHolds, PTL

\* The pointer and the preview name objects that are there, whatever is swept, reverted
\* or purged, and with uploads too where there are no purges: the exception is a
\* version whose purge is under way.
THEOREM ServedStays ==
    (NobodyHangs /\ "upload" \notin Others) \/ "purge" \notin Others => (Spec => []ServedStored)
<1>1. UseInv /\ LiveStored => ServedStored
  BY DEF UseInv, InBucket, LiveStored, ServedStored
<1>2. ASSUME NobodyHangs, "upload" \notin Others PROVE Spec => []ServedStored
  <2>1. StoredInv => ServedStored
    BY <1>1 DEF StoredInv
  <2>2. Spec => []StoredInv
    BY <1>2, StoredHolds DEF PurgesLast
  <2>3. QED BY <2>1, <2>2, PTL
<1>3. ASSUME "purge" \notin Others PROVE Spec => []ServedStored
  <2> DEFINE I == StorageInv /\ UseInv /\ LiveStored /\ NoPurge
  <2>1. Init => I
    BY <1>3, InitHolds, StoredAtStart DEF PurgesLast
  <2>2. I /\ [Next]_vars => I'
    <3> SUFFICES ASSUME I, [Next]_vars PROVE I'
      OBVIOUS
    <3>1. StorageInv' /\ UseInv' /\ NoPurge'
      BY <1>3, StepKeeps, UseKept, NoPurgeKept
    <3>2. LiveStored'
      BY LiveStoredKept DEF NoPurge
    <3>3. QED BY <3>1, <3>2
  <2>3. I => ServedStored
    BY <1>1
  <2>4. QED BY <2>1, <2>2, <2>3, PTL DEF Spec
<1>4. QED BY <1>2, <1>3

-----------------------------------------------------------------------------
(* What nothing names is on the ledger *)

\* A key the sweep found named is still named when its record goes.
StillNamed == sweep.pc = "untrack" => Referenced(sweep.key) \/ sweep.key \notin objects

\* The record comes before the object, and stays until a pointer names it. What the
\* sweep is at is nobody's own.
Tracked ==
    /\ preview # NoKey => HandsOff(preview)
    /\ \A k \in ledger \cup recon.keys : k < next
    /\ sweep.pc # "idle" => HandsOff(sweep.key)
    /\ \A k \in Key : RvOwns(k) \/ (\E w \in Runs : OwnBy(w, k)) => k \in ledger
    /\ \A k \in objects : Referenced(k) \/ k \in ledger

\* A version keeps its key for good.
LEMMA VersionKeyStays ==
    ASSUME TypeOK, Equipment, Parts, NEW k, VersionKey(k)
    PROVE  VersionKey(k)'
<1>1. CASE versions' = versions \/ \E x \in Key : Filed(x)
  BY <1>1, StateKeys
<1>2. ASSUME NEW v \in Numbers, NEW s \in {"purging", "purged"},
             versions' = [versions EXCEPT ![v].state = s]
      PROVE  VersionKey(k)'
  <2>1. Numbers' = Numbers /\ \A u \in Numbers : versions'[u].key = versions[u].key
    BY <1>2, MarkedIs
  <2>2. QED BY <2>1 DEF VersionKey
<1>3. QED BY <1>1, <1>2, VersionsMove

\* What publishing does to the ledger.
LEMMA PublishKeeps ==
    ASSUME NEW k, NEW prev, NEW bytes, NEW moved \in BOOLEAN, Publish(k, prev, bytes, moved)
    PROVE  /\ moved => live' = k /\ (prev \in {k, NoKey} \cup ledger' \/ Owned(prev))
           /\ ~moved => live' = live
           /\ \A x \in ledger : x \in ledger' \/ (moved /\ x = k)
           /\ pending' = pending
<1>1. CASE moved
  <2>1. live' = k /\ pending' = pending /\ ledger' = Published(k, prev, TRUE)
    BY <1>1 DEF Publish
  <2>2. CASE prev = k
    BY <1>1, <2>1, <2>2 DEF Published, Parked, Dropped
  <2>3. CASE prev # k
    BY <1>1, <2>1, <2>3 DEF Published, Parked, Dropped
  <2>4. QED BY <2>2, <2>3
<1>2. CASE ~moved
  BY <1>2 DEF Publish, Published, Parked
<1>3. QED BY <1>1, <1>2

\* A key that loses its last name is on the ledger from then on.
LEMMA NamesParked ==
    ASSUME TypeOK, Equipment, [Next]_vars, NEW k \in Key, Referenced(k), ~Referenced(k)'
    PROVE  k \in ledger'
<1>0. Parts /\ k # NoKey
  BY NextIs, KeyIs
<1>1. ~VersionKey(k) /\ ~Owned(k) /\ k \in {live, pending, preview} /\ k \notin {live', pending', preview'}
  BY <1>0, VersionKeyStays DEF Referenced, VersionKey, Owned
<1>2. ASSUME NEW new, NEW bytes, Publish(new, live, bytes, TRUE), k = live PROVE k \in ledger'
  BY <1>0, <1>1, <1>2, PublishKeeps
<1>3. ASSUME NEW w \in Runs, RunStep(w) PROVE k \in ledger'
  <2>0. pending' = pending
    BY <1>3, OthersRest
  <2>1. CASE PublishContent(w)
    <3> DEFINE moved == live = run[w].prev /\ Held(w)
    <3>1. Publish(run[w].key, run[w].prev, origin[run[w].key], moved) /\ preview' = preview
      BY <2>1 DEF PublishContent
    <3>2. CASE moved
      BY <1>1, <1>2, <2>0, <3>1, <3>2
    <3>3. CASE ~moved
      BY <1>1, <2>0, <3>1, <3>3 DEF Publish
    <3>4. QED BY <3>2, <3>3
  <2>2. CASE FileCopied(w)
    <3>1. /\ preview' = preview
          /\ live' = live \/ (live = run[w].key /\ Publish(run[w].to, run[w].key, origin[run[w].key], TRUE))
      BY <2>2 DEF FileCopied, row
    <3>2. QED BY <1>1, <1>2, <2>0, <3>1
  <2>3. CASE Point(w)
    <3>1. live' = live /\ k = preview /\ preview' = run[w].to /\ ledger' = Dropped(Parked(ledger, preview), run[w].to)
      BY <1>1, <2>0, <2>3 DEF Point, row
    <3>2. QED BY <1>0, <1>1, <3>1 DEF Dropped, Parked
  <2>4. CASE ~PublishContent(w) /\ ~FileCopied(w) /\ ~Point(w)
    <3>1. live' = live /\ preview' = preview
      BY <1>3, <2>4 DEF RunStep, TakeClaim, Reserve, Store, Gate, AskOwner, FileTaken, Copy, Interpret, Paint,
                        GiveUp, Leave, Crash, row
    <3>2. QED BY <1>1, <2>0, <3>1
  <2>5. QED BY <2>1, <2>2, <2>3, <2>4
<1>4. CASE UploadStep
  <2>1. CASE Promote
    <3>1. k = live /\ ledger' = Parked(ledger, live)
      BY <1>1, <1>4, <2>1, OthersRest DEF Promote, row
    <3>2. QED BY <1>0, <3>1 DEF Parked
  <2>2. CASE PrepareForUpload \/ ExpirePending
    <3>1. k = pending /\ ledger' = Parked(ledger, pending)
      BY <1>1, <1>4, <2>2, OthersRest DEF PrepareForUpload, ExpirePending
    <3>2. QED BY <1>0, <3>1 DEF Parked
  <2>3. QED BY <1>1, <1>4, <2>1, <2>2, OthersRest DEF UploadStep, ClientPuts, UploadArrived, row
<1>5. CASE RevertStep
  <2>0. pending' = pending
    BY <1>5, OthersRest
  <2>1. CASE FileReverted
    <3>1. PICK bytes : /\ preview' = preview
                       /\ live' = live \/ (live = rv.prev /\ Publish(rv.to, rv.prev, bytes, TRUE))
      BY <2>1 DEF FileReverted, row
    <3>2. QED BY <1>1, <1>2, <2>0, <3>1
  <2>2. CASE DetachRetracted
    <3>1. k = preview /\ ledger' = Parked(ledger, preview)
      BY <1>1, <2>0, <2>2 DEF DetachRetracted, Detach, row
    <3>2. QED BY <1>0, <3>1 DEF Parked
  <2>3. CASE ~FileReverted /\ ~DetachRetracted
    <3>1. live' = live /\ preview' = preview
      BY <1>5, <2>3 DEF RevertStep, AskRevert, TakeOver, CopyVersion, DropRetracted, LeaveRevert, RevertDies, row
    <3>2. QED BY <1>1, <2>0, <3>1
  <2>4. QED BY <2>1, <2>2, <2>3
<1>6. CASE PurgeStep
  <2>0. pending' = pending
    BY <1>6, OthersRest
  <2>1. CASE RestoreLive
    <3> DEFINE moved == live = purge.prev
    <3>1. PICK bytes : /\ preview' = preview
                       /\ live' = live \/ Publish(purge.to, purge.prev, bytes, moved)
      BY <2>1 DEF RestoreLive, row
    <3>2. CASE moved
      BY <1>1, <1>2, <2>0, <3>1, <3>2
    <3>3. CASE ~moved
      BY <1>1, <2>0, <3>1, <3>3 DEF Publish
    <3>4. QED BY <3>2, <3>3
  <2>2. CASE DetachPurged
    <3>1. k = preview /\ ledger' = Parked(ledger, preview)
      BY <1>1, <2>0, <2>2 DEF DetachPurged, Detach, row
    <3>2. QED BY <1>0, <3>1 DEF Parked
  <2>3. CASE ~RestoreLive /\ ~DetachPurged
    <3>1. live' = live /\ preview' = preview
      BY <1>6, <2>3 DEF PurgeStep, ClaimPurge, JobLost, QueueStranded, StartPurge, DeleteVersion,
              DropPurged, PurgeLake, DeleteServed, AskRebuild, FinishPurge, PurgeFails, PurgeDies, row
    <3>2. QED BY <1>1, <2>0, <3>1
  <2>4. QED BY <2>1, <2>2, <2>3
<1>7. CASE Cancel \/ GoesStale \/ LedgerStep \/ UNCHANGED vars
  <2>1. UNCHANGED <<row, preview>>
    BY <1>7, OthersRest DEF vars
  <2>2. QED BY <1>1, <2>1 DEF row
<1>8. QED BY <1>3, <1>4, <1>5, <1>6, <1>7 DEF Next

\* A record goes because something names the key from then on, or because the sweep
\* is done with it.
LEMMA RecordsGo ==
    ASSUME TypeOK, Equipment, [Next]_vars, NEW k \in ledger, k \notin ledger'
    PROVE  \/ k \in {live', preview'} \/ VersionKey(k)'
           \/ /\ sweep.pc = "untrack" /\ k = sweep.key
              /\ UNCHANGED <<row, versions, preview, bucket, next, claim, run, rv, purge, up, urls>>
<1>0. k \in Key /\ k # NoKey
  BY KeyIs DEF TypeOK
<1> DEFINE Named == k \in {live', preview'} \/ VersionKey(k)'
<1>1. ASSUME NEW w \in Runs, RunStep(w) PROVE Named
  <2>1. CASE PublishContent(w)
    <3> DEFINE moved == live = run[w].prev /\ Held(w)
    <3>1. Publish(run[w].key, run[w].prev, origin[run[w].key], moved)
      BY <2>1 DEF PublishContent
    <3>2. QED BY <3>1, PublishKeeps
  <2>2. CASE FileCopied(w)
    <3>1. ledger' = ledger \/ Publish(run[w].to, run[w].key, origin[run[w].key], TRUE)
      BY <2>2 DEF FileCopied
    <3>2. QED BY <3>1, PublishKeeps
  <2>3. CASE Point(w)
    BY <2>3 DEF Point, Dropped, Parked
  <2>4. CASE FileTaken(w)
    <3>1. k = run[w].key /\ Filed(k)
      BY <2>4 DEF FileTaken, Dropped
    <3>2. QED BY <1>0, <3>1, StateKeys
  <2>5. CASE ~PublishContent(w) /\ ~FileCopied(w) /\ ~Point(w) /\ ~FileTaken(w)
    BY <1>1, <2>5 DEF RunStep, TakeClaim, Reserve, Store, Gate, AskOwner, Copy, Interpret, Paint,
                      GiveUp, Leave, Crash, Reserved
  <2>6. QED BY <2>1, <2>2, <2>3, <2>4, <2>5
<1>2. ~UploadStep
  BY DEF UploadStep, PrepareForUpload, ClientPuts, UploadArrived, Promote, ExpirePending, Parked, row
<1>3. CASE RevertStep
  <2>1. CASE FileReverted
    <3>1. PICK bytes : ledger' = ledger \/ Publish(rv.to, rv.prev, bytes, TRUE)
      BY <2>1 DEF FileReverted
    <3>2. QED BY <3>1, PublishKeeps
  <2>2. CASE ~FileReverted
    BY <1>3, <2>2 DEF RevertStep, AskRevert, TakeOver, CopyVersion, DetachRetracted, Detach,
              DropRetracted, LeaveRevert, RevertDies, Parked, Reserved
  <2>3. QED BY <2>1, <2>2
<1>4. CASE PurgeStep
  <2>1. CASE RestoreLive
    <3> DEFINE moved == live = purge.prev
    <3>1. PICK bytes : ledger' = ledger \/ Publish(purge.to, purge.prev, bytes, moved)
      BY <2>1 DEF RestoreLive
    <3>2. QED BY <3>1, PublishKeeps
  <2>2. CASE ~RestoreLive
    BY <1>4, <2>2 DEF PurgeStep, ClaimPurge, JobLost, QueueStranded, StartPurge, DeleteVersion, DetachPurged,
              Detach, DropPurged, PurgeLake, DeleteServed, AskRebuild, FinishPurge, PurgeFails, PurgeDies, Parked
  <2>3. QED BY <2>1, <2>2
<1>5. CASE LedgerStep
  <2>1. SweepUntracks
    BY <1>5 DEF LedgerStep, SweepLists, SweepAsks, SweepDeletes, SweepDies,
                ReconLists, ReconAsks, ReconKnown, ReconNominates
  <2>2. sweep.pc = "untrack" /\ k = sweep.key
    BY <2>1 DEF SweepUntracks, Dropped
  <2>3. QED BY <1>5, <2>1, <2>2, OthersRest DEF SweepUntracks
<1>6. ~(Cancel \/ GoesStale \/ UNCHANGED vars)
  BY OthersRest DEF vars
<1>7. QED BY <1>1, <1>2, <1>3, <1>4, <1>5, <1>6 DEF Next

\* putObject and the copies: a key that is minted for an object is on the ledger.
LEMMA MintedIsReserved ==
    ASSUME TypeOK, [Next]_vars, ~UploadStep, next' # next
    PROVE  ledger' = Reserved(next)
<1>1. \A q : Minted(q) /\ ledger' = Reserved(q) => ledger' = Reserved(next)
  BY DEF Minted
<1>2. ASSUME NEW w \in Runs, RunStep(w) PROVE ledger' = Reserved(next)
  <2>1. Reserve(w) \/ AskOwner(w) \/ Interpret(w)
    BY <1>2 DEF RunStep, TakeClaim, Store, PublishContent, Gate, FileTaken, Copy, FileCopied, Paint,
                Point, GiveUp, Leave, Crash
  <2>2. QED BY <1>1, <2>1 DEF Reserve, AskOwner, Interpret
<1>3. CASE RevertStep
  <2>1. TakeOver
    BY <1>3 DEF RevertStep, AskRevert, CopyVersion, FileReverted, DetachRetracted, DropRetracted,
                LeaveRevert, RevertDies
  <2>2. QED BY <1>1, <2>1 DEF TakeOver
<1>4. ~PurgeStep
  BY DEF PurgeStep, ClaimPurge, JobLost, QueueStranded, StartPurge, DeleteVersion, DetachPurged, DropPurged,
         PurgeLake, RestoreLive, DeleteServed, AskRebuild, FinishPurge, PurgeFails, PurgeDies
<1>5. ~(Cancel \/ GoesStale \/ LedgerStep \/ UNCHANGED vars)
  BY OthersRest DEF vars
<1>6. QED BY <1>2, <1>3, <1>4, <1>5 DEF Next

\* What the sweep goes on with is what it has listed.
LEMMA SweepGoesOn ==
    ASSUME TypeOK, [Next]_vars, sweep'.pc # "idle"
    PROVE  \/ sweep' = sweep
           \/ \E k \in Key : SweepLists(k) /\ sweep' = [pc |-> "ask", key |-> k]
           \/ SweepAsks /\ sweep'.key = sweep.key
                        /\ sweep'.pc = IF Referenced(sweep.key) THEN "untrack" ELSE "delete"
           \/ SweepDeletes /\ sweep'.key = sweep.key /\ sweep'.pc = "untrack"
                           /\ objects' = objects \ {sweep.key}
<1>0. sweep \in [pc : {"idle", "ask", "delete", "untrack"}, key : Pointer]
  BY DEF TypeOK
<1>1. CASE LedgerStep
  <2>1. ASSUME NEW k \in Key, SweepLists(k) PROVE sweep' = [pc |-> "ask", key |-> k]
    BY <2>1 DEF SweepLists, SetSweep
  <2>2. CASE SweepAsks
    <3>1. sweep' = [sweep EXCEPT !.pc = IF Referenced(sweep.key) THEN "untrack" ELSE "delete"]
      BY <2>2 DEF SweepAsks, SetSweep
    <3>2. sweep'.key = sweep.key /\ sweep'.pc = IF Referenced(sweep.key) THEN "untrack" ELSE "delete"
      BY <1>0, <3>1
    <3>3. QED BY <2>2, <3>2
  <2>3. CASE SweepDeletes
    <3>1. \/ sweep' = [sweep EXCEPT !.pc = "untrack"] /\ objects' = objects \ {sweep.key}
          \/ sweep' = NoSweep
      BY <2>3 DEF SweepDeletes, SetSweep
    <3>2. sweep' = [sweep EXCEPT !.pc = "untrack"] /\ objects' = objects \ {sweep.key}
      BY <3>1 DEF NoSweep
    <3>3. sweep'.key = sweep.key /\ sweep'.pc = "untrack"
      BY <1>0, <3>2
    <3>4. QED BY <2>3, <3>2, <3>3
  <2>4. ~SweepUntracks /\ ~SweepDies
    BY DEF SweepUntracks, SweepDies, SetSweep, NoSweep
  <2>5. CASE ReconLists \/ ReconAsks \/ ReconKnown \/ ReconNominates
    BY <2>5 DEF ReconLists, ReconAsks, ReconKnown, ReconNominates, SetRecon
  <2>6. QED BY <1>1, <2>1, <2>2, <2>3, <2>4, <2>5 DEF LedgerStep
<1>2. CASE ~LedgerStep
  <2>1. sweep' = sweep
    BY <1>2, OthersRest DEF Next, vars, actors
  <2>2. QED BY <2>1
<1>3. QED BY <1>1, <1>2

\* Whoever has an object of his own has had it, or has just minted its key.
LEMMA OwnersMove ==
    ASSUME TypeOK, [Next]_vars, Parts, NEW k \in Key, RvOwns(k)' \/ \E w \in Runs : OwnBy(w, k)'
    PROVE  \/ RvOwns(k) \/ \E w \in Runs : OwnBy(w, k)
           \/ k = next /\ next' # next /\ ~UploadStep
<1>0. next \in Nat /\ k # NoKey
  BY KeyIs DEF TypeOK
<1> DEFINE Had == RvOwns(k) \/ \E w \in Runs : OwnBy(w, k)
<1>1. CASE UploadStep
  BY <1>1, OthersRest DEF RvOwns, OwnBy
<1>2. ASSUME NEW u \in Runs, RunPart(u), ~UploadStep PROVE Had \/ (k = next /\ next' # next)
  <2>1. CASE RvOwns(k)'
    BY <1>2, <2>1 DEF RunPart, RvOwns
  <2>2. ASSUME NEW w \in Runs, OwnBy(w, k)', w # u PROVE Had
    BY <1>2, <2>2 DEF RunPart, OwnBy
  <2>3. CASE OwnBy(u, k)'
    <3>1. Mints(u) \/ Copies(u)
      BY <1>2, <2>3 DEF RunPart, RunMoves, Takes, LetsGo, Stores, Serves, Asks, FilesTaken, FilesCopied, OwnBy
    <3>2. QED BY <1>0, <2>3, <3>1 DEF Mints, Copies, OwnBy
  <2>4. QED BY <2>1, <2>2, <2>3
<1>3. CASE RevertPart
  <2>1. ASSUME NEW w \in Runs, OwnBy(w, k)' PROVE Had
    BY <1>3, <2>1 DEF RevertPart, OwnBy
  <2>2. CASE RvOwns(k)'
    <3>1. TakesOver \/ CopiesBack
      BY <1>0, <1>3, <2>2 DEF RevertPart, RevertMoves, FilesCopyBack, Empties, RevertLetsGo, RvOwns
    <3>2. CASE CopiesBack
      BY <2>2, <3>2 DEF CopiesBack, RvOwns
    <3>3. CASE TakesOver
      <4>1. k = next /\ next' # next
        BY <1>0, <2>2, <3>3 DEF TakesOver, RvOwns
      <4>2. QED BY <1>1, <4>1
    <3>4. QED BY <3>1, <3>2, <3>3
  <2>3. QED BY <2>1, <2>2
<1>4. CASE UploadPart \/ PurgePart \/ ClaimPart \/ RestPart
  BY <1>4 DEF UploadPart, PurgePart, ClaimPart, RestPart, RvOwns, OwnBy
<1>5. QED BY <1>1, <1>2, <1>3, <1>4 DEF Parts

LEMMA PointedApart ==
    ASSUME TypeOK, Equipment, Keys, NEW w \in Runs, Points(w)
    PROVE  HandsOff(preview)'
<1> PICK k : k = run[w].to
  OBVIOUS
<1>1. k \in Key /\ OwnBy(w, k) /\ preview' = k
  BY KeysAtHand DEF Points, OwnBy
<1>2. Apart(k) /\ k < next
  <2>1. Apart(k) /\ (k >= next => Unused(k)) /\ k \in Nat /\ next \in Nat
    BY <1>1, KeyIs DEF Keys, TypeOK
  <2>2. QED BY <1>1, <2>1 DEF Unused
<1>3. ~RvOwns(k) /\ \A u \in Runs : u # w => ~OwnBy(u, k)
  BY <1>1, <1>2 DEF Apart
<1>4. UNCHANGED <<next, rv>> /\ run'[w].pc = "leave" /\ \A u \in Runs : u # w => run'[u] = run[u]
  BY DEF Points
<1>5. HandsOff(k)'
  BY <1>1, <1>2, <1>3, <1>4 DEF HandsOff, RvOwns, OwnBy
<1>6. QED BY <1>1, <1>5

LEMMA TrackedKept ==
    ASSUME StorageInv, Tracked, StillNamed, [Next]_vars
    PROVE  Tracked'
<1>0. TypeOK /\ Equipment /\ Keys /\ PurgeSound /\ Parts /\ TypeOK' /\ Keys'
  BY NextIs, TypedStep, KeysKept DEF StorageInv
<1>1. ASSUME preview' # NoKey PROVE HandsOff(preview)'
  <2>1. CASE \E w \in Runs : Points(w)
    BY <1>0, <2>1, PointedApart
  <2>2. CASE preview' = preview
    <3> PICK k : k = preview
      OBVIOUS
    <3>1. HandsOff(k)'
      BY <1>0, <1>1, <2>2, HandsOffKept DEF Tracked
    <3>2. QED BY <2>2, <3>1
  <2>3. QED BY <1>0, <1>1, <2>1, <2>2, PreviewMoves
<1>2. ASSUME NEW k \in ledger' \cup recon'.keys PROVE k < next'
  <2>1. k \in Key /\ k \in Nat /\ next \in Nat /\ next' \in Nat /\ (next' = next \/ next' = next + 1)
    BY <1>0, KeyIs, UrlsMove DEF TypeOK
  <2>2. k < next \/ (k = next /\ next' = next + 1)
    BY <1>0, <2>1, LedgerMoves, KnownIsOld DEF Tracked
  <2>3. QED BY <2>1, <2>2
<1>3. ASSUME sweep'.pc # "idle" PROVE HandsOff(sweep.key)'
  <2> PICK k : k = sweep'.key
    OBVIOUS
  <2>1. CASE sweep.pc # "idle" /\ k = sweep.key
    BY <1>0, <2>1, HandsOffKept DEF Tracked
  <2>2. ASSUME NEW q \in Key, SweepLists(q), k = q PROVE HandsOff(k)'
    <3>1. q \in ledger /\ ~InFlight(q) /\ UNCHANGED <<next, run, rv>>
      BY <2>2 DEF SweepLists, SetSweep
    <3>2. HandsOff(k)
      BY <2>2, <3>1 DEF InFlight, HandsOff, RvOwns, OwnBy, Tracked
    <3>3. QED BY <3>1, <3>2 DEF HandsOff, RvOwns, OwnBy
  <2>3. HandsOff(k)'
    BY <1>0, <1>3, <2>1, <2>2, SweepGoesOn DEF SweepAsks, SweepDeletes
  <2>4. QED BY <2>3
<1> DEFINE Owner(k) == RvOwns(k) \/ \E w \in Runs : OwnBy(w, k)
\* The record of an object somebody is writing stays.
<1>4. ASSUME NEW k \in Key, Owner(k), k \notin ledger' PROVE k \in {live', preview'} \/ VersionKey(k)'
  <2>1. k \in ledger /\ ~HandsOff(k)
    BY <1>4 DEF Tracked, HandsOff
  <2>2. ~(sweep.pc = "untrack" /\ k = sweep.key)
    BY <2>1 DEF Tracked
  <2>3. QED BY <1>0, <1>4, <2>1, <2>2, RecordsGo
<1>5. ASSUME NEW k \in Key, RvOwns(k)' \/ \E w \in Runs : OwnBy(w, k)' PROVE k \in ledger'
  <2>1. CASE k = next /\ next' # next /\ ~UploadStep
    BY <2>1, <1>0, MintedIsReserved DEF Reserved
  <2>2. CASE Owner(k)
    <3>1. ~Content(k)'
      BY <1>0, <1>5 DEF Keys, Apart
    <3>2. k # preview'
      <4>1. k # NoKey /\ ~HandsOff(k)'
        BY <1>5, KeyIs DEF HandsOff
      <4>2. QED BY <1>1, <4>1
    <3>3. QED BY <1>4, <2>2, <3>1, <3>2 DEF Content
  <2>3. QED BY <1>0, <1>5, <2>1, <2>2, OwnersMove
<1>6. ASSUME NEW k \in objects' PROVE Referenced(k)' \/ k \in ledger'
  <2>0. k \in Key /\ (k \in {live', preview'} \/ VersionKey(k)' => Referenced(k)')
    BY <1>0 DEF TypeOK, Referenced, VersionKey
  <2>1. CASE Referenced(k)
    BY <1>0, <2>0, <2>1, NamesParked
  <2>2. CASE k \in objects /\ k \in ledger /\ k \notin ledger' /\ ~Referenced(k)
    <3>1. sweep.pc # "untrack" \/ k # sweep.key
      BY <2>2 DEF StillNamed
    <3>2. QED BY <1>0, <2>0, <2>2, <3>1, RecordsGo
  <2>3. CASE k \notin objects
    <3>1. CASE Owner(k)
      BY <1>4, <2>0, <3>1
    <3>2. CASE k \in urls /\ k \notin urls'
      <4>1. UploadStep
        BY <3>2, OthersRest DEF Next, vars, actors
      <4>2. ClientPuts(k)
        BY <3>2, <4>1 DEF UploadStep, PrepareForUpload, ClientPuts, UploadArrived, Promote, ExpirePending
      <4>3. (k = pending \/ k \in ledger) /\ UNCHANGED <<pending, ledger>>
        BY <4>2 DEF ClientPuts, row
      <4>4. QED BY <4>3 DEF Referenced
    <3>3. QED BY <1>0, <2>0, <2>3, <3>1, <3>2, ObjectsMove
  <2>4. QED BY <2>1, <2>2, <2>3 DEF Tracked
<1>7. QED BY <1>1, <1>2, <1>3, <1>5, <1>6 DEF Tracked

LEMMA TrackedAtStart == ASSUME Init PROVE Tracked
<1>1. /\ live = 2 /\ preview = NoKey /\ objects = {1, 2} /\ ledger = {} /\ recon = NoList /\ sweep = NoSweep
      /\ rv = Idle /\ run = [w \in Runs |-> Idle]
  BY DEF Init
<1>2. /\ sweep.pc = "idle" /\ recon.keys = {} /\ rv.pc = "idle" /\ \A w \in Runs : run[w].pc = "idle"
  BY <1>1 DEF NoSweep, NoList, Idle
<1>3. Numbers = {1, 2} /\ versions[1].key = 1
  BY DEF Init, Numbers
<1>4. \A k \in objects : Referenced(k)
  BY <1>1, <1>3 DEF Referenced
<1>5. QED BY <1>1, <1>2, <1>4 DEF Tracked, RvOwns, OwnBy

\* The write-ahead record and the parking, whoever runs, reverts, uploads, purges and
\* reconciles at once and whatever fails: an object nothing names is on the ledger,
\* unless the sweep found it named and drops its record after the name has gone.
THEOREM StrandedOnlyIfUnnamed == PurgesLast => (Spec /\ []StillNamed => []NothingStranded)
<1> SUFFICES ASSUME PurgesLast PROVE Spec /\ []StillNamed => []NothingStranded
  OBVIOUS
<1>1. Init => StorageInv /\ Tracked
  BY InitHolds, TrackedAtStart
<1>2. StorageInv /\ Tracked /\ StillNamed /\ [Next]_vars => (StorageInv /\ Tracked)'
  BY StepKeeps, TrackedKept
<1>3. Tracked => NothingStranded
  BY DEF Tracked, NothingStranded
<1>4. QED BY <1>1, <1>2, <1>3, PTL DEF Spec

-----------------------------------------------------------------------------
(* Where nobody takes the claim from a run                                  *)

Unshared == NobodyHangs /\ {"cancel", "upload", "revert"} \cap Others = {}

\* Whoever is at work has the claim, and finds the pointer where he read it.
Solo ==
    /\ rv.pc = "idle"
    /\ \A w \in Runs : /\ run[w].pc # "idle" => Held(w)
                       /\ run[w].pc \in {"fetch", "store", "publish"} => run[w].prev = live
    /\ purge.pc = "move" => purge.serves
    /\ purge.pc \in {"delete", "detach", "drop", "lake", "move"} /\ purge.serves => purge.prev = live

\* No record is of a key that has a name; what the sweep and the reconciliation are
\* at gets none.
Nameless(k) == Quiet(k) /\ ~Referenced(k)
Clean ==
    /\ \A k \in ledger : ~Referenced(k)
    /\ sweep.pc # "idle" => Nameless(sweep.key)
    /\ sweep.pc = "untrack" => sweep.key \notin objects
    /\ \A k \in recon.keys : Quiet(k) /\ (recon.pc \in {"known", "insert"} => ~Referenced(k))

\* Which of the endpoints are there.
LEMMA NobodyElse ==
    ASSUME Unshared, TypeOK, NoUpload, Solo
    PROVE  ~UploadStep /\ ~RevertStep /\ ~Cancel
<1>1. NoKey \notin objects
  BY KeyIs DEF TypeOK
<1>2. ~UploadStep
  BY <1>1 DEF Unshared, NoUpload, UploadStep, PrepareForUpload, ClientPuts, UploadArrived, Promote, ExpirePending
<1>3. ~RevertStep
  BY DEF Unshared, Solo, RevertStep, AskRevert, TakeOver, CopyVersion, FileReverted, DetachRetracted,
         DropRetracted, LeaveRevert, RevertDies
<1>4. QED BY <1>2, <1>3 DEF Unshared, Cancel

\* A run that has the claim has it to its end.
LEMMA ClaimStays ==
    ASSUME Unshared, TypeOK, NoUpload, Solo, [Next]_vars, NEW u \in Runs, run'[u].pc # "idle"
    PROVE  Held(u)'
<1>0. /\ run \in [Runs -> RunRec] /\ "none" \notin Runs /\ "purge" \notin Runs
      /\ ~UploadStep /\ ~RevertStep /\ ~Cancel
  BY TypeParts, RunsAssumption, NobodyElse
<1>1. ASSUME NEW w \in Runs, RunStep(w) PROVE Held(u)'
  <2>0. \A r : SetRun(w, r) => run'[w] = r /\ \A x \in Runs : x # w => run'[x] = run[x]
    BY <1>0 DEF SetRun
  <2>1. ASSUME NEW fetches \in BOOLEAN, TakeClaim(w, fetches) PROVE Held(u)'
    <3>1. claim = "none" /\ claim' = w
      BY <2>1 DEF TakeClaim
    <3>2. \A x \in Runs : x # w => run'[x] = run[x]
      BY <2>0, <2>1 DEF TakeClaim
    <3>3. u = w
      BY <1>0, <3>1, <3>2 DEF Solo, Held
    <3>4. QED BY <3>1, <3>3 DEF Held
  <2>2. CASE Leave(w)
    <3>1. run[w].pc = "leave" /\ SetRun(w, Idle) /\ claim' = IF Held(w) THEN "none" ELSE claim
      BY <2>2 DEF Leave
    <3>2. Held(w) /\ run'[w].pc = "idle" /\ \A x \in Runs : x # w => run'[x] = run[x]
      BY <2>0, <3>1, RecordsIn DEF Solo
    <3>3. u # w /\ run[u].pc # "idle"
      BY <3>2
    <3>4. QED BY <3>2, <3>3 DEF Solo, Held
  <2>3. CASE (\A fetches \in BOOLEAN : ~TakeClaim(w, fetches)) /\ ~Leave(w)
    <3>1. claim' = claim
      BY <1>1, <2>3 DEF RunStep, Reserve, Store, PublishContent, Gate, AskOwner, FileTaken, Copy,
                FileCopied, Interpret, Paint, Point, GiveUp, Crash
    <3>2. run[w].pc # "idle"
      BY <1>1, <2>3 DEF RunStep, Reserve, Store, PublishContent, Gate, AskOwner, FileTaken, Copy,
                FileCopied, Interpret, Paint, Point, GiveUp, Crash
    <3>3. \E r : SetRun(w, r)
      BY <1>1, <2>3 DEF RunStep, Reserve, Store, PublishContent, Gate, AskOwner, FileTaken, Copy,
                FileCopied, Interpret, Paint, Point, GiveUp, Crash, Goto
    <3>4. u # w => run'[u] = run[u]
      BY <2>0, <3>3
    <3>5. QED BY <3>1, <3>2, <3>4 DEF Solo, Held
  <2>4. QED BY <1>1, <2>1, <2>2, <2>3
<1>2. CASE ~\E w \in Runs : RunStep(w)
  <2>1. run' = run
    BY <1>0, <1>2, OthersRest DEF Next, vars, actors
  <2>2. Held(u) /\ claim = u /\ Busy(claim)
    BY <2>1 DEF Solo, Held, Busy
  <2>3. claim' = claim
    <3>1. PurgeStep => claim' = claim
      BY <1>0, <2>2 DEF PurgeStep, ClaimPurge, JobLost, QueueStranded, StartPurge, DeleteVersion, DetachPurged,
              DropPurged, PurgeLake, RestoreLive, DeleteServed, AskRebuild, FinishPurge, PurgeFails,
              PurgeDies, SetPurge, Held
    <3>2. ~GoesStale
      BY <2>2 DEF GoesStale, Unshared, NobodyHangs, Fault
    <3>3. LedgerStep \/ UNCHANGED vars => claim' = claim
      BY OthersRest DEF vars, actors
    <3>4. QED BY <1>0, <1>2, <3>1, <3>2, <3>3 DEF Next
  <2>4. QED BY <2>2, <2>3 DEF Held
<1>3. QED BY <1>1, <1>2

\* Where a run is before it publishes, it has what it read of the pointer.
LEMMA ReadStays ==
    ASSUME TypeOK, Equipment, [Next]_vars, NEW w \in Runs, run'[w].pc \in {"fetch", "store", "publish"}
    PROVE  \/ run'[w] = run[w] /\ ~RunStep(w)
           \/ run'[w].prev = live /\ live' = live
           \/ run[w].pc \in {"fetch", "store"} /\ run'[w].prev = run[w].prev /\ live' = live
<1>0. /\ run \in [Runs -> RunRec] /\ run[w] \in RunRec
      /\ \A r : SetRun(w, r) => run'[w] = r
  BY TypeParts DEF SetRun
<1>1. CASE RunStep(w)
  <2>1. ASSUME NEW fetches \in BOOLEAN, TakeClaim(w, fetches) PROVE run'[w].prev = live /\ live' = live
    <3> DEFINE r == [Idle EXCEPT !.pc = IF fetches THEN "fetch" ELSE "publish",
                                 !.prev = live, !.key = IF fetches THEN NoKey ELSE live]
    <3>1. r.prev = live
      BY DEF Idle
    <3>2. SetRun(w, r) /\ live' = live
      BY <2>1 DEF TakeClaim, row
    <3> HIDE DEF r
    <3>3. QED BY <1>0, <3>1, <3>2
  <2>2. CASE Reserve(w)
    <3>1. PICK k \in Key : SetRun(w, [run[w] EXCEPT !.pc = "store", !.to = k])
      BY <2>2 DEF Reserve
    <3>2. run'[w] = [run[w] EXCEPT !.pc = "store", !.to = k]
      BY <1>0, <3>1
    <3>3. run'[w].prev = run[w].prev
      BY <1>0, <3>2 DEF RunRec
    <3>4. QED BY <2>2, <3>3 DEF Reserve, row
  <2>3. CASE Store(w)
    <3>1. run'[w] = [run[w] EXCEPT !.pc = "publish", !.key = run[w].to]
      BY <1>0, <2>3 DEF Store
    <3>2. run'[w].prev = run[w].prev
      BY <1>0, <3>1 DEF RunRec
    <3>3. QED BY <2>3, <3>2 DEF Store, row
  <2> DEFINE Before == run'[w].pc \in {"fetch", "store", "publish"}
             With(pc, k) == SetRun(w, [run[w] EXCEPT !.pc = pc, !.to = k])
  <2>4. ASSUME NEW pc, pc \notin {"fetch", "store", "publish"}, Goto(w, pc) PROVE ~Before
    <3>1. run'[w] = [run[w] EXCEPT !.pc = pc]
      BY <1>0, <2>4 DEF Goto
    <3>2. run'[w].pc = pc
      BY <1>0, <3>1 DEF RunRec
    <3>3. QED BY <2>4, <3>2
  <2>5. ASSUME NEW pc, NEW k, pc \notin {"fetch", "store", "publish"}, With(pc, k)
        PROVE  ~Before
    <3>1. run'[w] = [run[w] EXCEPT !.pc = pc, !.to = k]
      BY <1>0, <2>5
    <3>2. run'[w].pc = pc
      BY <1>0, <3>1 DEF RunRec
    <3>3. QED BY <2>5, <3>2
  <2> HIDE DEF With
  <2>6. ASSUME NEW r \in {Idle, [Idle EXCEPT !.pc = "leave"]}, SetRun(w, r) PROVE ~Before
    <3>1. r.pc \in {"idle", "leave"}
      BY DEF Idle
    <3>2. QED BY <1>0, <2>6, <3>1
  <2>7. ~PublishContent(w)
    <3> SUFFICES ASSUME PublishContent(w) PROVE ~Before
      OBVIOUS
    <3>1. PICK pc \in {"gate", "leave"} : SetRun(w, [run[w] EXCEPT !.pc = pc, !.prev = NoKey, !.to = NoKey])
      BY DEF PublishContent
    <3>2. run'[w] = [run[w] EXCEPT !.pc = pc, !.prev = NoKey, !.to = NoKey]
      BY <1>0, <3>1
    <3>3. run'[w].pc = pc
      BY <1>0, <3>2 DEF RunRec
    <3>4. QED BY <3>3
  <2>8. ~Gate(w) /\ ~AskOwner(w) /\ ~FileTaken(w) /\ ~Copy(w)
    <3>1. Gate(w) => \E pc \in {"owner", "interpret"} : Goto(w, pc)
      BY DEF Gate
    <3>2. AskOwner(w) => Goto(w, "take") \/ \E k : With("copy", k)
      BY DEF AskOwner, With
    <3>3. FileTaken(w) => Goto(w, "interpret")
      BY DEF FileTaken
    <3>4. Copy(w) => Goto(w, "file") \/ Goto(w, "interpret")
      BY DEF Copy
    <3>5. ~Gate(w) /\ ~FileTaken(w)
      BY <2>4, <3>1, <3>3
    <3>6. ~Copy(w)
      BY <2>4, <3>4
    <3>7. ~AskOwner(w)
      <4>1. ~Goto(w, "take")
        BY <2>4
      <4>2. \A k : ~With("copy", k)
        BY <2>5
      <4>3. QED BY <3>2, <4>1, <4>2
    <3>8. QED BY <3>5, <3>6, <3>7
  <2>9. ~FileCopied(w) /\ ~Interpret(w) /\ ~Paint(w)
    <3>1. FileCopied(w) => With("interpret", NoKey)
      BY DEF FileCopied, With
    <3>2. Interpret(w) => \/ SetRun(w, [Idle EXCEPT !.pc = "leave"])
                          \/ \E k : With("paint", k)
      BY DEF Interpret, With
    <3>3. Paint(w) => Goto(w, "point")
      BY DEF Paint
    <3>4. ~FileCopied(w)
      BY <2>5, <3>1
    <3>5. ~Paint(w)
      BY <2>4, <3>3
    <3>6. ~Interpret(w)
      <4>1. ~SetRun(w, [Idle EXCEPT !.pc = "leave"])
        BY <2>6
      <4>2. \A k : ~With("paint", k)
        BY <2>5
      <4>3. QED BY <3>2, <4>1, <4>2
    <3>7. QED BY <3>4, <3>5, <3>6
  <2>10. ~Point(w) /\ ~GiveUp(w) /\ ~Leave(w) /\ ~Crash(w)
    BY <2>6 DEF Point, GiveUp, Leave, Crash
  <2>11. QED BY <1>1, <2>1, <2>2, <2>3, <2>7, <2>8, <2>9, <2>10 DEF RunStep
<1>2. CASE ~RunStep(w)
  <2>1. ASSUME NEW u \in Runs, RunStep(u) PROVE run'[w] = run[w]
    BY <1>2, <2>1, RunIs
  <2>2. run'[w] = run[w]
    BY <1>2, <2>1, OthersRest DEF Next, vars, actors
  <2>3. QED BY <1>2, <2>2
<1>3. QED BY <1>1, <1>2

\* What a purge that serves read of the pointer, it reads only once.
LEMMA PurgeReads ==
    ASSUME TypeOK, [Next]_vars, purge'.pc \in {"delete", "detach", "drop", "lake", "move"}
    PROVE  \/ purge' = purge
           \/ /\ purge'.pc = "delete" /\ live' = live
              /\ purge'.serves => purge'.prev = live
           \/ /\ purge.pc \in {"delete", "detach", "drop", "lake"} /\ live' = live
              /\ purge'.prev = purge.prev /\ purge'.serves = purge.serves
              /\ purge'.pc = "move" => purge.serves
<1>0. purge \in PurgeRec /\ \A p : SetPurge(p) => purge' = p
  BY TypeParts DEF SetPurge
<1>1. ASSUME NEW pc, SetPurge([purge EXCEPT !.pc = pc])
      PROVE  purge'.pc = pc /\ purge'.prev = purge.prev /\ purge'.serves = purge.serves
  <2>1. purge' = [purge EXCEPT !.pc = pc]
    BY <1>0, <1>1
  <2>2. QED BY <1>0, <2>1 DEF PurgeRec
<1>2. ASSUME NEW pc, NEW k, SetPurge([purge EXCEPT !.pc = pc, !.to = k])
      PROVE  purge'.pc = pc /\ purge'.prev = purge.prev /\ purge'.serves = purge.serves
  <2>1. purge' = [purge EXCEPT !.pc = pc, !.to = k]
    BY <1>0, <1>2
  <2>2. QED BY <1>0, <2>1 DEF PurgeRec
<1> DEFINE Read ==
      \/ purge' = purge
      \/ purge'.pc = "delete" /\ live' = live /\ (purge'.serves => purge'.prev = live)
      \/ /\ purge.pc \in {"delete", "detach", "drop", "lake"} /\ live' = live
         /\ purge'.prev = purge.prev /\ purge'.serves = purge.serves
         /\ purge'.pc = "move" => purge.serves
<1>3. CASE PurgeStep
  <2>1. CASE (\E v \in Numbers : ClaimPurge(v)) \/ JobLost \/ QueueStranded
    BY <2>1 DEF ClaimPurge, JobLost, QueueStranded
  <2>2. CASE StartPurge
    <3>1. PICK v, s, q : /\ s = (LiveVersion = v) /\ q = (IF LiveVersion = v THEN live ELSE NoKey)
                         /\ SetPurge([pc |-> "delete", v |-> v, serves |-> s, prev |-> q, to |-> NoKey])
      BY <2>2 DEF StartPurge
    <3>2. s => q = live
      BY <3>1
    <3>3. purge'.pc = "delete" /\ purge'.serves = s /\ purge'.prev = q
      BY <1>0, <3>1
    <3>4. QED BY <2>2, <3>2, <3>3 DEF StartPurge, row
  <2>3. CASE DeleteVersion
    <3>1. purge.pc = "delete" /\ SetPurge([purge EXCEPT !.pc = IF purge.serves THEN "detach" ELSE "lake"])
      BY <2>3 DEF DeleteVersion, PurgeAt
    <3>2. \A pc : SetPurge([purge EXCEPT !.pc = pc]) =>
                purge'.pc = pc /\ purge'.prev = purge.prev /\ purge'.serves = purge.serves
      BY <1>1
    <3>3. purge'.pc \in {"detach", "lake"} /\ purge'.prev = purge.prev /\ purge'.serves = purge.serves
      BY <3>1, <3>2
    <3>4. QED BY <2>3, <3>1, <3>3 DEF DeleteVersion, row
  <2>4. CASE DetachPurged
    <3>1. purge.pc = "detach" /\ purge'.pc # "move" /\ purge'.prev = purge.prev /\ purge'.serves = purge.serves
      BY <1>2, <2>4 DEF DetachPurged, PurgeAt
    <3>2. QED BY <2>4, <3>1 DEF DetachPurged, row
  <2>5. CASE DropPurged
    <3>1. purge.pc = "drop" /\ purge'.pc # "move" /\ purge'.prev = purge.prev /\ purge'.serves = purge.serves
      BY <1>2, <2>5 DEF DropPurged, PurgeAt
    <3>2. QED BY <2>5, <3>1 DEF DropPurged, row
  <2>6. CASE PurgeLake
    <3>1. PICK k : SetPurge([purge EXCEPT !.pc = IF purge.serves THEN "move" ELSE "ask", !.to = k])
      BY <2>6 DEF PurgeLake
    <3>2. /\ purge'.pc = (IF purge.serves THEN "move" ELSE "ask")
          /\ purge'.prev = purge.prev /\ purge'.serves = purge.serves
      BY <1>2, <3>1
    <3>3. purge.pc = "lake" /\ live' = live
      BY <2>6 DEF PurgeLake, PurgeAt, row
    <3>4. QED BY <3>2, <3>3
  <2>7. ~RestoreLive
    <3> DEFINE moved == live = purge.prev
    <3>1. RestoreLive => SetPurge([purge EXCEPT !.pc = IF moved THEN "old" ELSE "fail", !.to = NoKey])
      BY DEF RestoreLive
    <3>2. RestoreLive => purge'.pc = IF moved THEN "old" ELSE "fail"
      BY <1>2, <3>1
    <3>3. QED BY <3>2
  <2>8. ~DeleteServed /\ ~AskRebuild
    <3>1. ASSUME DeleteServed PROVE FALSE
      <4>1. purge' = [purge EXCEPT !.pc = "ask", !.prev = NoKey]
        BY <1>0, <3>1 DEF DeleteServed
      <4>2. purge'.pc = "ask"
        BY <1>0, <4>1 DEF PurgeRec
      <4>3. QED BY <4>2
    <3>2. AskRebuild => purge'.pc = "finish"
      BY <1>1 DEF AskRebuild
    <3>3. QED BY <3>1, <3>2
  <2>9. ~FinishPurge /\ ~PurgeFails /\ ~PurgeDies
    BY <1>0, RecordsIn DEF FinishPurge, PurgeFails, PurgeDies
  <2>10. QED BY <1>3, <2>1, <2>2, <2>3, <2>4, <2>5, <2>6, <2>7, <2>8, <2>9 DEF PurgeStep
<1>4. CASE ~PurgeStep
  <2>1. purge' = purge
    BY <1>4, OthersRest DEF Next, vars, actors
  <2>2. QED BY <2>1
<1>5. QED BY <1>3, <1>4

LEMMA SoloKept ==
    ASSUME Unshared, StorageInv, NoUpload, Solo, [Next]_vars
    PROVE  Solo'
<1>0. TypeOK /\ Equipment /\ PurgeSound /\ Parts
  BY NextIs DEF StorageInv
<1>1. rv' = rv
  BY <1>0, NobodyElse, OthersRest DEF Next, vars, actors
<1>2. ASSUME NEW w \in Runs, run'[w].pc # "idle" PROVE Held(w)'
  BY <1>0, <1>2, ClaimStays
<1>3. ASSUME NEW w \in Runs, run'[w].pc \in {"fetch", "store", "publish"} PROVE run'[w].prev = live'
  <2>1. CASE run'[w] = run[w] /\ ~RunStep(w)
    <3>1. Held(w) /\ run[w].prev = live
      BY <1>3, <2>1 DEF Solo
    <3>2. CASE ~RunPart(w)
      BY <1>0, <2>1, <3>1, <3>2, LiveUnderClaim
    <3>3. CASE RunPart(w)
      <4>1. live' = live
        BY <1>3, <2>1, <3>3 DEF RunPart, RunMoves, Takes, Mints, LetsGo, Stores, Copies, Serves, Asks,
                                FilesTaken, FilesCopied, Calm
      <4>2. QED BY <2>1, <3>1, <4>1
    <3>4. QED BY <3>2, <3>3
  <2>2. CASE run'[w] # run[w] \/ RunStep(w)
    BY <1>0, <1>3, <2>2, ReadStays DEF Solo
  <2>3. QED BY <2>1, <2>2
<1>4. ASSUME purge'.pc \in {"delete", "detach", "drop", "lake", "move"}
      PROVE  /\ purge'.pc = "move" => purge'.serves
             /\ purge'.serves => purge'.prev = live'
  <2>1. CASE purge' = purge
    <3>1. live' = live
      <4>1. live' = live \/ Promotes
        BY <1>0, <1>4, <2>1, VersionsStill
      <4>2. QED BY <4>1 DEF Promotes, NoUpload
    <3>2. QED BY <1>4, <2>1, <3>1 DEF Solo
  <2>2. CASE purge' # purge
    BY <1>0, <1>4, <2>2, PurgeReads DEF Solo
  <2>3. QED BY <2>1, <2>2
<1>5. QED BY <1>1, <1>2, <1>3, <1>4 DEF Solo

\* A key that is nobody's own and has no name gets none.
LEMMA NamelessKept ==
    ASSUME StorageInv, NoUpload, Solo, [Next]_vars, NEW k, Nameless(k)
    PROVE  Nameless(k)'
<1>0. /\ TypeOK /\ Equipment /\ PurgeSound /\ Parts
      /\ Quiet(k) /\ HandsOff(k) /\ k \in Key /\ k # NoKey
      /\ k \notin {live, pending, preview} /\ ~VersionKey(k)
  BY NextIs, KeyIs DEF StorageInv, Nameless, Quiet, HandsOff, Referenced, VersionKey
<1>1. Quiet(k)'
  BY <1>0, QuietKept
<1>2. k # preview' /\ k # pending'
  BY <1>0, NotPreview, NotPending
<1>3. ~FilesCopyBack /\ ~Empties /\ ~Promotes
  BY DEF FilesCopyBack, Empties, Promotes, Solo, NoUpload
<1>4. k # live'
  <2>1. ASSUME NEW w \in Runs, FilesCopied(w) \/ Serves(w) PROVE k # live'
    BY <1>0, <2>1 DEF FilesCopied, Serves, Quiet, HandsOff, OwnBy
  <2>2. FallsBack => k # live'
    BY <1>0 DEF FallsBack, PurgeSound, VersionKey, WithState
  <2>3. QED BY <1>0, <1>3, <2>1, <2>2, WorldIs DEF WorldMoves, FilesTaken, Claims, Ends
<1>5. ~VersionKey(k)'
  <2>1. ASSUME NEW w \in Runs, FilesTaken(w) PROVE ~VersionKey(k)'
    <3>1. run[w].key \in Key /\ run[w].key = live /\ Filed(run[w].key)
      BY <1>0, <2>1, KeysAtHand DEF FilesTaken, NoUpload
    <3>2. QED BY <1>0, <3>1, StateKeys
  <2>2. ASSUME NEW w \in Runs, FilesCopied(w) PROVE ~VersionKey(k)'
    <3>1. run[w].to \in Key /\ run[w].to # k /\ Filed(run[w].to)
      BY <1>0, <2>2, KeysAtHand DEF FilesCopied, HandsOff, OwnBy
    <3>2. QED BY <1>0, <3>1, StateKeys
  <2>3. CASE versions' = versions
    BY <1>0, <2>3, StateKeys
  <2>4. ASSUME NEW v \in Numbers, Claims(v) PROVE ~VersionKey(k)'
    BY <1>0, <2>4, StateKeys DEF Claims
  <2>5. CASE Ends
    <3>1. purge.v \in Numbers
      BY <1>0, <2>5 DEF Ends, Equipment, PurgeEquipped
    <3>2. QED BY <1>0, <2>5, <3>1, StateKeys DEF Ends
  <2>6. QED BY <1>0, <1>3, <2>1, <2>2, <2>3, <2>4, <2>5, WorldIs DEF WorldMoves, Serves, GoesOn
<1>6. ~Referenced(k)'
  BY <1>2, <1>4, <1>5 DEF Referenced, VersionKey
<1>7. QED BY <1>1, <1>6 DEF Nameless

\* A key on the ledger that gets a name comes off it with that.
LEMMA NamedComesOff ==
    ASSUME Unshared, StorageInv, NoUpload, Solo, [Next]_vars,
           NEW k \in Key, ~Referenced(k), Referenced(k)'
    PROVE  k \notin ledger'
<1>0. /\ TypeOK /\ Equipment /\ PurgeSound /\ Parts /\ k # NoKey
      /\ k \notin {live, pending, preview} /\ ~VersionKey(k)
      /\ ~UploadStep /\ ~RevertStep
  BY NextIs, KeyIs, NobodyElse DEF StorageInv, Referenced, VersionKey
<1>1. pending' = pending
  BY <1>0, OthersRest DEF Next, vars, row
<1>2. k \in {live', preview'} \/ VersionKey(k)'
  BY <1>0, <1>1 DEF Referenced, VersionKey
<1>3. ASSUME NEW prev, NEW bytes, NEW new, Publish(new, prev, bytes, TRUE) PROVE new \notin ledger' /\ live' = new
  BY <1>3 DEF Publish, Published, Dropped
<1>4. ASSUME NEW w \in Runs, RunStep(w) PROVE k \notin ledger'
  <2>1. CASE PublishContent(w)
    <3> DEFINE moved == live = run[w].prev /\ Held(w)
    <3>1. /\ Publish(run[w].key, run[w].prev, origin[run[w].key], moved)
          /\ versions' = versions /\ preview' = preview
      BY <2>1 DEF PublishContent
    <3>2. k = live'
      BY <1>0, <1>2, <3>1, StateKeys
    <3>3. moved
      BY <1>0, <3>1, <3>2 DEF Publish
    <3>4. QED BY <1>3, <3>1, <3>2, <3>3
  <2>2. CASE FileCopied(w)
    <3>1. \/ UNCHANGED <<live, versions>>
          \/ Filed(run[w].to) /\ Publish(run[w].to, run[w].key, origin[run[w].key], TRUE)
      BY <2>2 DEF FileCopied, row
    <3>2. preview' = preview /\ run[w].to \in Key
      BY <1>0, <2>2, KeysAtHand DEF FileCopied
    <3>3. Filed(run[w].to) /\ k = run[w].to
      BY <1>0, <1>2, <1>3, <3>1, <3>2, StateKeys
    <3>4. QED BY <1>0, <1>2, <1>3, <3>1, <3>2, <3>3, StateKeys
  <2>3. CASE Point(w)
    <3>1. /\ UNCHANGED <<live, versions>>
          /\ \/ preview' = preview
             \/ ledger' = Dropped(Parked(ledger, preview), run[w].to) /\ preview' = run[w].to
      BY <2>3 DEF Point, row
    <3>2. ~VersionKey(k)'
      BY <1>0, <3>1, StateKeys
    <3>3. k = preview'
      BY <1>0, <1>2, <3>1, <3>2
    <3>4. QED BY <1>0, <3>1, <3>3 DEF Dropped
  <2>4. ~FileTaken(w)
    <3> SUFFICES ASSUME FileTaken(w) PROVE FALSE
      OBVIOUS
    <3>1. UNCHANGED <<live, preview>> /\ run[w].key \in Key
      BY <1>0, KeysAtHand DEF FileTaken, row
    <3>2. Held(w) /\ Filed(run[w].key) /\ run[w].pc = "take"
      BY <1>0, <1>2, <3>1, StateKeys DEF FileTaken
    <3>3. k = run[w].key
      BY <1>0, <1>2, <3>1, <3>2, StateKeys
    <3>4. QED BY <1>0, <3>2, <3>3 DEF NoUpload
  <2>5. CASE ~PublishContent(w) /\ ~FileCopied(w) /\ ~Point(w)
    <3>1. UNCHANGED <<live, versions, preview>>
      BY <1>4, <2>4, <2>5 DEF RunStep, TakeClaim, Reserve, Store, Gate, AskOwner, Copy, Interpret, Paint,
                        GiveUp, Leave, Crash, row
    <3>2. QED BY <1>0, <1>2, <3>1, StateKeys
  <2>6. QED BY <2>1, <2>2, <2>3, <2>5
<1>5. ~PurgeStep
  <2> SUFFICES ASSUME PurgeStep PROVE FALSE
    OBVIOUS
  <2>1. preview' \in {preview, NoKey}
    BY DEF PurgeStep, ClaimPurge, JobLost, QueueStranded, StartPurge, DeleteVersion, DetachPurged, Detach,
           DropPurged, PurgeLake, RestoreLive, DeleteServed, AskRebuild, FinishPurge, PurgeFails, PurgeDies
  <2>2. ~VersionKey(k)'
    <3>1. CASE versions' = versions
      BY <1>0, <3>1, StateKeys
    <3>2. ASSUME NEW v \in Numbers, ClaimPurge(v) PROVE ~VersionKey(k)'
      BY <1>0, <3>2, StateKeys DEF ClaimPurge
    <3>3. CASE FinishPurge
      <4>1. purge.v \in Numbers
        BY <1>0, <3>3 DEF FinishPurge, PurgeAt, Equipment, PurgeEquipped
      <4>2. QED BY <1>0, <3>3, <4>1, StateKeys DEF FinishPurge
    <3>4. QED BY <3>1, <3>2, <3>3
              DEF PurgeStep, JobLost, QueueStranded, StartPurge, DeleteVersion, DetachPurged, DropPurged,
                  PurgeLake, RestoreLive, DeleteServed, AskRebuild, PurgeFails, PurgeDies
  <2>3. k # live'
    <3>1. RestoreLive => live' = live \/ live' = purge.to
      BY DEF RestoreLive, Publish, row
    <3>2. RestoreLive => k # purge.to
      BY <1>0 DEF RestoreLive, PurgeAt, PurgeSound, VersionKey, WithState
    <3>3. ~RestoreLive => live' = live
      BY DEF PurgeStep, ClaimPurge, JobLost, QueueStranded, StartPurge, DeleteVersion, DetachPurged, DropPurged,
             PurgeLake, DeleteServed, AskRebuild, FinishPurge, PurgeFails, PurgeDies, row
    <3>4. QED BY <1>0, <3>1, <3>2, <3>3
  <2>4. QED BY <1>0, <1>2, <2>1, <2>2, <2>3
<1>6. ~(Cancel \/ GoesStale \/ LedgerStep \/ UNCHANGED vars)
  BY <1>0, <1>2, StateKeys, OthersRest DEF vars, row
<1>7. QED BY <1>0, <1>4, <1>5, <1>6 DEF Next

\* What a move of the pointer parks has no name left.
LEMMA ParkedIsFree ==
    ASSUME StorageInv, InBucket, NoUpload, NEW new, NEW bytes, Publish(new, live, bytes, TRUE),
           NEW k \in Key, k \in ledger', k \notin ledger,
           preview' = preview, versions' = versions \/ (new \in Key /\ Filed(new))
    PROVE  ~Referenced(k)'
<1>0. TypeOK /\ Keys /\ PurgedGone /\ k # NoKey
  BY KeyIs DEF StorageInv
<1>1. k = live /\ k # new /\ ~Owned(k) /\ live' = new /\ pending' = NoKey
  BY DEF Publish, Published, Parked, Dropped, NoUpload
<1>2. ~VersionKey(k)
  BY <1>0, <1>1 DEF VersionKey, Owned, PurgedGone, WithState
<1>3. ~VersionKey(k)' /\ k # preview
  BY <1>0, <1>1, <1>2, StateKeys, LiveIsNobodys
<1>4. QED BY <1>0, <1>1, <1>3 DEF Referenced, VersionKey

\* What comes onto the ledger has no name, or has just lost it.
LEMMA ParkedHasNoName ==
    ASSUME Unshared, StorageInv, InBucket, NoUpload, Solo, Clean, [Next]_vars,
           NEW k \in Key, k \in ledger', k \notin ledger
    PROVE  ~Referenced(k)'
<1>0. /\ TypeOK /\ Equipment /\ Keys /\ PurgeSound /\ Parts /\ k # NoKey
      /\ ~UploadStep /\ ~RevertStep
  BY NextIs, KeyIs, NobodyElse DEF StorageInv
<1>1. pending' = NoKey /\ pending = NoKey
  BY <1>0, OthersRest DEF Next, vars, row, NoUpload
<1>2. ASSUME k = preview, preview' # k, UNCHANGED <<live, versions>> PROVE ~Referenced(k)'
  <2>1. k # live /\ ~VersionKey(k)
    BY <1>0, <1>2 DEF InBucket, Spent, Content
  <2>2. ~VersionKey(k)'
    BY <1>0, <1>2, <2>1, StateKeys
  <2>3. QED BY <1>0, <1>1, <1>2, <2>1, <2>2 DEF Referenced, VersionKey
<1>3. ASSUME ledger' = Reserved(next), UNCHANGED <<live, preview, versions>> PROVE ~Referenced(k)'
  <2>1. k = next /\ next \in Nat
    BY <1>0, <1>3 DEF Reserved, TypeOK
  <2>2. Unused(k) /\ k # preview
    BY <1>0, <2>1 DEF Keys, InBucket, Spent, HandsOff
  <2>3. k # live /\ ~VersionKey(k)
    BY <2>2 DEF Unused, Content
  <2>4. ~VersionKey(k)'
    BY <1>0, <1>3, <2>3, StateKeys
  <2>5. QED BY <1>0, <1>1, <1>3, <2>2, <2>3, <2>4 DEF Referenced, VersionKey
<1>4. ASSUME NEW w \in Runs, RunStep(w) PROVE ~Referenced(k)'
  <2>1. CASE PublishContent(w)
    <3>1. live = run[w].prev /\ Held(w)
      BY <2>1 DEF PublishContent, Solo
    <3>2. Publish(run[w].key, live, origin[run[w].key], TRUE) /\ preview' = preview /\ versions' = versions
      BY <2>1, <3>1 DEF PublishContent
    <3>3. QED BY <3>2, ParkedIsFree
  <2>2. CASE FileCopied(w)
    <3>1. /\ live = run[w].key /\ Publish(run[w].to, run[w].key, origin[run[w].key], TRUE)
          /\ Filed(run[w].to) /\ preview' = preview
      BY <2>2 DEF FileCopied
    <3>2. run[w].to \in Key
      BY <1>0, <2>2, KeysAtHand DEF FileCopied
    <3>3. Publish(run[w].to, live, origin[run[w].key], TRUE)
      BY <3>1
    <3>4. QED BY <3>1, <3>2, <3>3, ParkedIsFree
  <2>3. CASE Point(w)
    <3>1. UNCHANGED <<live, versions>> /\ k = preview /\ preview' # k
      BY <2>3 DEF Point, row, Dropped, Parked
    <3>2. QED BY <1>2, <3>1
  <2>4. CASE ~PublishContent(w) /\ ~FileCopied(w) /\ ~Point(w)
    <3>1. ~FileTaken(w)
      BY DEF FileTaken, Dropped
    <3>2. UNCHANGED <<live, preview, versions>>
      BY <1>4, <2>4, <3>1 DEF RunStep, TakeClaim, Reserve, Store, Gate, AskOwner, Copy, Interpret, Paint,
                        GiveUp, Leave, Crash, row
    <3>3. \A q : Minted(q) /\ ledger' = Reserved(q) => ledger' = Reserved(next)
      BY DEF Minted
    <3>4. ledger' = Reserved(next)
      BY <1>4, <2>4, <3>1, <3>3 DEF RunStep, TakeClaim, Reserve, Store, Gate, AskOwner, Copy, Interpret, Paint,
                        GiveUp, Leave, Crash
    <3>5. QED BY <1>3, <3>2, <3>4
  <2>5. QED BY <2>1, <2>2, <2>3, <2>4
<1>5. CASE PurgeStep
  <2>1. CASE RestoreLive
    <3>1. live = purge.prev
      BY <2>1 DEF RestoreLive, PurgeAt, Solo
    <3>2. PICK bytes : Publish(purge.to, live, bytes, TRUE) /\ preview' = preview /\ versions' = versions
      BY <2>1, <3>1 DEF RestoreLive
    <3>3. QED BY <3>2, ParkedIsFree
  <2>2. CASE DetachPurged
    <3>1. UNCHANGED <<live, versions>> /\ k = preview /\ preview' # k
      BY <1>0, <2>2 DEF DetachPurged, Detach, row, Parked
    <3>2. QED BY <1>2, <3>1
  <2>3. CASE ~RestoreLive /\ ~DetachPurged
    BY <1>5, <2>3 DEF PurgeStep, ClaimPurge, JobLost, QueueStranded, StartPurge, DeleteVersion,
              DropPurged, PurgeLake, DeleteServed, AskRebuild, FinishPurge, PurgeFails, PurgeDies
  <2>4. QED BY <2>1, <2>2, <2>3
<1>6. CASE LedgerStep
  <2>1. ReconNominates
    BY <1>6 DEF LedgerStep, SweepLists, SweepAsks, SweepDeletes, SweepUntracks, SweepDies, Dropped,
                ReconLists, ReconAsks, ReconKnown
  <2>2. ~Referenced(k)
    BY <2>1 DEF ReconNominates, Clean
  <2>3. UNCHANGED <<row, versions, preview>>
    BY <2>1 DEF ReconNominates
  <2>4. QED BY <1>0, <1>1, <2>2, <2>3, StateKeys DEF Referenced, VersionKey, row
<1>7. ~(Cancel \/ GoesStale \/ UNCHANGED vars)
  BY OthersRest DEF vars
<1>8. QED BY <1>0, <1>4, <1>5, <1>6, <1>7 DEF Next

\* Old enough, and no write under way.
LEMMA ListedIsQuiet ==
    ASSUME InBucket, NEW k \in Key, k < next, ~InFlight(k)
    PROVE  Quiet(k)
BY DEF InFlight, InBucket, Quiet, HandsOff, RvOwns, OwnBy

\* What the reconciliation goes on with it has listed, and has asked about.
LEMMA ReconGoesOn ==
    ASSUME TypeOK, [Next]_vars, NEW k \in recon'.keys
    PROVE  \/ k \in recon.keys
              /\ \/ recon' = recon
                 \/ recon.pc = "ask" /\ ~Referenced(k)
                 \/ recon.pc = "known"
           \/ recon'.pc = "ask" /\ k \in objects /\ ~InFlight(k)
<1>0. recon \in [pc : {"idle", "ask", "known", "insert"}, keys : SUBSET Key]
  BY DEF TypeOK
<1>1. CASE LedgerStep
  <2>1. CASE (\E q \in Key : SweepLists(q)) \/ SweepAsks \/ SweepDeletes \/ SweepUntracks \/ SweepDies
    <3>1. recon' = recon
      BY <2>1 DEF SweepLists, SweepAsks, SweepDeletes, SweepUntracks, SweepDies, SetSweep
    <3>2. QED BY <3>1
  <2>2. CASE ReconLists
    BY <2>2 DEF ReconLists, SetRecon
  <2>3. CASE ReconAsks
    <3>1. recon' = [recon EXCEPT !.pc = "known", !.keys = {q \in recon.keys : ~Referenced(q)}]
      BY <2>3 DEF ReconAsks, SetRecon
    <3>2. recon'.keys = {q \in recon.keys : ~Referenced(q)}
      BY <1>0, <3>1
    <3>3. QED BY <2>3, <3>2 DEF ReconAsks
  <2>4. CASE ReconKnown
    <3>1. recon' = [recon EXCEPT !.pc = "insert", !.keys = recon.keys \ ledger]
      BY <2>4 DEF ReconKnown, SetRecon
    <3>2. recon'.keys = recon.keys \ ledger
      BY <1>0, <3>1
    <3>3. QED BY <2>4, <3>2 DEF ReconKnown
  <2>5. ~ReconNominates
    BY DEF ReconNominates, SetRecon, NoList
  <2>6. QED BY <1>1, <2>1, <2>2, <2>3, <2>4, <2>5 DEF LedgerStep
<1>2. CASE ~LedgerStep
  <2>1. recon' = recon
    BY <1>2, OthersRest DEF Next, vars, actors
  <2>2. QED BY <2>1
<1>3. QED BY <1>1, <1>2

LEMMA CleanKept ==
    ASSUME Unshared, StorageInv, UseInv, NoUpload, Solo, Clean, [Next]_vars
    PROVE  Clean'
<1>0. TypeOK /\ Equipment /\ Keys /\ Parts /\ InBucket /\ SweepSound /\ TypeOK'
  BY NextIs, TypedStep DEF StorageInv, UseInv
<1>1. ASSUME NEW k \in ledger' PROVE ~Referenced(k)'
  <2>1. k \in Key
    BY <1>0 DEF TypeOK
  <2>2. CASE k \in ledger
    BY <2>1, <2>2, NamedComesOff DEF Clean
  <2>3. CASE k \notin ledger
    BY <1>0, <2>1, <2>3, ParkedHasNoName
  <2>4. QED BY <2>2, <2>3
<1>2. ASSUME sweep'.pc # "idle"
      PROVE  Nameless(sweep.key)' /\ (sweep'.pc = "untrack" => sweep'.key \notin objects')
  <2> PICK k : k = sweep'.key
    OBVIOUS
  <2>1. ASSUME sweep.pc # "idle", k = sweep.key PROVE Nameless(k) /\ Nameless(k)'
    BY <2>1, NamelessKept DEF Clean
  <2>2. CASE sweep' = sweep
    <3>1. Nameless(k) /\ Nameless(k)' /\ (sweep.pc = "untrack" => k \notin objects)
      BY <1>2, <2>1, <2>2 DEF Clean
    <3>2. k \in Key /\ ~RvOwns(k) /\ (\A w \in Runs : ~OwnBy(w, k)) /\ k \notin urls
      BY <3>1 DEF Nameless, Quiet, HandsOff, NoUpload
    <3>3. sweep.pc = "untrack" => k \notin objects'
      BY <1>0, <3>1, <3>2, ObjectsMove
    <3>4. QED BY <2>2, <3>1, <3>3
  <2>3. ASSUME NEW q \in Key, SweepLists(q), sweep' = [pc |-> "ask", key |-> q]
        PROVE  Nameless(k)' /\ sweep'.pc = "ask"
    <3>1. q = k /\ k \in ledger /\ ~InFlight(k)
      BY <2>3 DEF SweepLists
    <3>2. Nameless(k)
      BY <1>0, <2>3, <3>1, ListedIsQuiet DEF Nameless, Clean, SweepSound
    <3>3. QED BY <2>3, <3>2, NamelessKept
  <2>4. CASE SweepAsks /\ sweep'.key = sweep.key
             /\ sweep'.pc = IF Referenced(sweep.key) THEN "untrack" ELSE "delete"
    <3>1. sweep.pc # "idle" /\ k = sweep.key
      BY <2>4 DEF SweepAsks
    <3>2. Nameless(k) /\ Nameless(k)'
      BY <2>1, <3>1
    <3>3. sweep'.pc = "delete"
      BY <2>4, <3>1, <3>2 DEF Nameless
    <3>4. QED BY <3>2, <3>3
  <2>5. CASE SweepDeletes /\ sweep'.key = sweep.key /\ objects' = objects \ {sweep.key}
    <3>1. sweep.pc # "idle" /\ k = sweep.key
      BY <2>5 DEF SweepDeletes
    <3>2. QED BY <2>1, <2>5, <3>1
  <2>6. Nameless(k)' /\ (sweep'.pc = "untrack" => sweep'.key \notin objects')
    BY <1>0, <1>2, <2>2, <2>3, <2>4, <2>5, SweepGoesOn
  <2>7. QED BY <2>6
<1>3. ASSUME NEW k \in recon'.keys
      PROVE  Quiet(k)' /\ (recon'.pc \in {"known", "insert"} => ~Referenced(k)')
  <2>1. CASE k \in recon.keys
    <3>1. Quiet(k)'
      BY <1>0, <2>1, QuietKept DEF Clean
    <3>2. ASSUME Nameless(k) PROVE ~Referenced(k)'
      BY <3>2, NamelessKept DEF Nameless
    <3>3. recon'.pc \in {"known", "insert"} => Nameless(k) \/ (k \in objects /\ ~InFlight(k) /\ recon'.pc = "ask")
      BY <1>0, <2>1, ReconGoesOn DEF Clean, Nameless
    <3>4. QED BY <3>1, <3>2, <3>3
  <2>2. CASE k \notin recon.keys
    <3>1. recon'.pc = "ask" /\ k \in objects /\ ~InFlight(k)
      BY <1>0, <2>2, ReconGoesOn
    <3>2. k \in Key /\ k < next
      <4>1. k \in Key /\ k \in Nat /\ next \in Nat
        BY <1>0, <3>1, KeyIs DEF TypeOK
      <4>2. QED BY <1>0, <3>1, <4>1 DEF Keys
    <3>3. Quiet(k)'
      BY <1>0, <3>1, <3>2, ListedIsQuiet, QuietKept
    <3>4. QED BY <3>1, <3>3
  <2>3. QED BY <2>1, <2>2
<1>4. QED BY <1>1, <1>2, <1>3 DEF Clean

LEMMA SoloAtStart == ASSUME Init PROVE Solo /\ Clean
<1>1. /\ ledger = {} /\ recon = NoList /\ sweep = NoSweep
      /\ rv = Idle /\ purge = NotPurging /\ run = [w \in Runs |-> Idle]
  BY DEF Init
<1>2. /\ sweep.pc = "idle" /\ recon.keys = {} /\ rv.pc = "idle" /\ purge.pc = "idle"
      /\ \A w \in Runs : run[w].pc = "idle"
  BY <1>1 DEF NoSweep, NoList, Idle, NotPurging
<1>3. QED BY <1>1, <1>2 DEF Solo, Clean

\* Where no claim is taken from a run and nobody uploads, the sweep never finds a
\* name, and loses no record: for as many runs, purges, reconciliations and failures
\* as there are, an object nothing names is on the ledger.
THEOREM NothingIsStranded == Unshared => (Spec => []NothingStranded)
<1> SUFFICES ASSUME Unshared PROVE Spec => []NothingStranded
  OBVIOUS
<1> DEFINE I == StoredInv /\ NoUpload /\ Solo /\ Clean
<1>0. PurgesLast
  BY DEF Unshared, PurgesLast
<1>1. Init => I
  BY <1>0, InitHolds, StoredAtStart, SoloAtStart DEF StoredInv
<1>2. I /\ [Next]_vars => I'
  <2> SUFFICES ASSUME I, [Next]_vars PROVE I'
    OBVIOUS
  <2>1. StorageInv /\ UseInv /\ NotOvertaken
    BY NobodyOvertakes DEF StoredInv, UseInv
  <2>2. "upload" \notin Others
    BY DEF Unshared
  <2>3. StoredInv' /\ NoUpload' /\ Solo' /\ Clean'
    BY <2>1, <2>2, StoredStep, NoUploadKept, SoloKept, CleanKept
  <2>4. QED BY <2>3
<1>3. I => StillNamed
  BY DEF Clean, StillNamed
<1>4. Spec /\ []StillNamed => []NothingStranded
  BY <1>0, StrandedOnlyIfUnnamed
<1>5. QED BY <1>1, <1>2, <1>3, <1>4, PTL DEF Spec
====
