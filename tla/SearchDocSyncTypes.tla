-------------------------- MODULE SearchDocSyncTypes -------------------------
(* The types of SearchDocSync, for any documents, actors, bounds, faults and *)
(* size of a batch.                                                          *)
(*                                                                           *)
(* TypeOK is not inductive as it stands: what an actor does next depends on  *)
(* what it is and on the kind of the part it is at (WellFormed), and a       *)
(* rename's commit on a transaction being left for it (Room).                *)
EXTENDS SearchDocSync, TLAPS

Holding == {"read", "build", "write", "settle"}

\* What an actor's record may be, by who it is and where it stands.
WellFormed(a, r) ==
    /\ r \in Actor
    /\ a \in Requests => r.pc # "list" /\ \A i \in DOMAIN r.todo : r.todo[i].how \in {"sync", "purge"}
    /\ a \in Workers => r.pc \notin {"ask", "rows"} /\ \A i \in DOMAIN r.todo : r.todo[i].how # "purge"
    /\ \A i \in DOMAIN r.todo : r.todo[i].how = "purge" => dataset \in r.todo[i].scope
    /\ r.pc \in Holding \cup {"list", "lock"} => r.todo # <<>>
    /\ r.pc = "list" => r.todo[1].how = "drop"
    /\ r.pc = "build" => r.todo[1].how # "purge"
    /\ r.pc = "write" /\ r.todo[1].how = "purge" =>
          dataset \in DOMAIN r.read /\ r.read[dataset].do = "remove"

Formed == \A a \in Actors : WellFormed(a, act[a])

\* The bounds are numbers.
LEMMA Bounds == MaxCommits \in Nat /\ MaxFaults \in Nat /\ Batch \in Nat
  BY SyncAssumption

\* An actor is a request or a worker, never both.
LEMMA WhoIsWho == \A a \in Actors : (a \in Requests) # (a \in Workers)
  BY SyncAssumption DEF Actors

\* An actor between two things to do is in order.
LEMMA IdleFormed == ASSUME NEW a \in Actors PROVE WellFormed(a, Idle)
  <1>1. <<>> \in [{} -> Reading] OBVIOUS
  <1>2. <<>> \in UNION {[D -> Reading] : D \in SUBSET Docs} BY <1>1
  <1> QED BY <1>2, Bounds DEF Idle, Actor, WellFormed, Holding

\* A request, or a job, that is to go on with parts of the right kind.
LEMMA QueuedFormed ==
    ASSUME NEW a \in Actors, NEW todo \in Seq(Part), todo # <<>>,
           a \in Requests => \A i \in DOMAIN todo : todo[i].how \in {"sync", "purge"},
           a \in Workers => \A i \in DOMAIN todo : todo[i].how # "purge",
           \A i \in DOMAIN todo : todo[i].how = "purge" => dataset \in todo[i].scope,
           NEW pc, pc = "lock" \/ (pc = "list" /\ a \in Workers /\ todo[1].how = "drop"),
           NEW since \in 0..MaxCommits, NEW again \in SUBSET Docs, NEW skip \in SUBSET Docs,
           NEW r \in Actor, 
           r.pc = pc, r.todo = todo
    PROVE WellFormed(a, r)
  BY DEF WellFormed, Holding

\* What a request or a job asks for is a part.
LEMMA PartsOK == ASSUME NEW scope \in SUBSET Docs PROVE Sync(scope) \in Part /\ Hiding(scope) \in Part /\ MayWait(scope) \in Part
  BY DEF Sync, Hiding, MayWait, Part

\* A sequence of one member of a set.
LEMMA OneOf == ASSUME NEW S, NEW x \in S
               PROVE <<x>> \in Seq(S) /\ <<x>> # <<>> /\ \A i \in DOMAIN <<x>> : <<x>>[i] = x
  OBVIOUS

\* A sequence of two members of a set, written or joined.
LEMMA TwoOf == ASSUME NEW S, NEW x \in S, NEW y \in S
               PROVE /\ <<x>> \o <<y>> \in Seq(S) /\ <<x>> \o <<y>> # <<>>
                     /\ \A i \in DOMAIN (<<x>> \o <<y>>) : (<<x>> \o <<y>>)[i] \in {x, y}
                     /\ <<x, y>> \in Seq(S) /\ <<x, y>> # <<>>
                     /\ \A i \in DOMAIN <<x, y>> : <<x, y>>[i] \in {x, y}
  <1>1. <<x>> \o <<y>> \in Seq(S) /\ Len(<<x>> \o <<y>>) = 2 OBVIOUS
  <1>2. \A i \in 1..2 : (<<x>> \o <<y>>)[i] \in {x, y} OBVIOUS
  <1>3. DOMAIN (<<x>> \o <<y>>) = 1..2 BY <1>1
  <1>4. \A i \in DOMAIN <<x, y>> : <<x, y>>[i] \in {x, y} OBVIOUS
  <1> QED BY <1>1, <1>2, <1>3, <1>4

\* What an actor goes on to after a part is in order (After).
LEMMA AfterFormed ==
    ASSUME NEW a \in Actors, WellFormed(a, act[a]), act[a].todo # <<>>,
           NEW again \in SUBSET Docs, NEW skip \in SUBSET Docs
    PROVE WellFormed(a, After(a, again, skip))
  <1> DEFINE rest == Tail(act[a].todo)
             at == IF rest[1].how = "drop" THEN "list" ELSE "lock"
  <1>1. act[a].todo \in Seq(Part) /\ act[a].since \in 0..MaxCommits BY DEF WellFormed, Actor
  <1>2. rest \in Seq(Part) /\ \A i \in DOMAIN rest : rest[i] = act[a].todo[i + 1] /\ i + 1 \in DOMAIN act[a].todo
    BY <1>1
  <1>3. CASE rest # <<>>
    <2>1. rest[1] \in Part /\ 1 \in DOMAIN rest BY <1>2, <1>3
    <2> DEFINE r == [Idle EXCEPT !.pc = at, !.todo = rest, !.again = again, !.skip = skip, !.since = act[a].since]
    <2>2. r \in Actor /\ r.pc = at /\ r.todo = rest BY <1>1, <1>2, IdleFormed DEF WellFormed, Actor, Idle
    <2>3. After(a, again, skip) = r BY <1>3 DEF After
    <2>4. a \in Requests => at = "lock" BY <1>2, <2>1 DEF WellFormed
    <2> HIDE DEF r, rest
    <2>5. \A i \in DOMAIN rest : /\ a \in Requests => rest[i].how \in {"sync", "purge"}
                                 /\ a \in Workers => rest[i].how # "purge"
                                 /\ rest[i].how = "purge" => dataset \in rest[i].scope
      BY <1>2 DEF WellFormed
    <2>6. WellFormed(a, r)
      BY <1>3, <2>1, <2>2, <2>4, <2>5, WhoIsWho DEF WellFormed, Holding
    <2> QED BY <2>3, <2>6
  <1>4. CASE rest = <<>> /\ again = {} BY <1>4, IdleFormed DEF After
  <1>5. CASE rest = <<>> /\ again # {}
    <2> DEFINE todo == (IF again \cap Resources = {} THEN <<>> ELSE <<Hiding(Resources)>>)
                                  \o (IF dataset \in again THEN <<Hiding({dataset})>> ELSE <<>>)
    <2>1. Hiding(Resources) \in Part /\ Hiding({dataset}) \in Part BY PartsOK DEF Docs
    <2>2. todo \in Seq(Part) /\ todo # <<>> /\ \A i \in DOMAIN todo : todo[i] \in {Hiding(Resources), Hiding({dataset})}
      <3>1. again \cap Resources # {} \/ dataset \in again BY <1>5 DEF Docs
      <3>2. CASE again \cap Resources = {} 
        <4>1. todo = <<Hiding({dataset})>> BY <3>1, <3>2, <2>1
        <4> HIDE DEF todo
        <4> QED BY <4>1, <2>1, OneOf
      <3>3. CASE again \cap Resources # {} /\ dataset \in again
        <4>1. todo = <<Hiding(Resources)>> \o <<Hiding({dataset})>> BY <3>3
        <4> HIDE DEF todo
        <4>2. ASSUME NEW x \in Part, NEW y \in Part, todo = <<x>> \o <<y>>
              PROVE todo \in Seq(Part) /\ todo # <<>> /\ \A i \in DOMAIN todo : todo[i] \in {x, y}
          <5>1. <<x>> \o <<y>> \in Seq(Part) /\ <<x>> \o <<y>> # <<>>
                /\ \A i \in DOMAIN (<<x>> \o <<y>>) : (<<x>> \o <<y>>)[i] \in {x, y}
            BY TwoOf
          <5> QED BY <4>2, <5>1, Zenon
        <4> QED BY <4>1, <4>2, <2>1
      <3>4. CASE again \cap Resources # {} /\ dataset \notin again
        <4>1. todo = <<Hiding(Resources)>> BY <3>4, <2>1
        <4>2. \A i \in DOMAIN <<Hiding(Resources)>> : <<Hiding(Resources)>>[i] = Hiding(Resources)
          BY <2>1, OneOf
        <4> HIDE DEF todo
        <4> QED BY <4>1, <4>2, <2>1, OneOf
      <3> QED BY <3>2, <3>3, <3>4
    <2>3. \A i \in DOMAIN todo : todo[i].how = "sync" BY <2>2 DEF Hiding
    <2> DEFINE r == [Idle EXCEPT !.pc = "lock", !.skip = skip, !.todo = todo]
    <2>4. After(a, again, skip) = r BY <1>5 DEF After
    <2> HIDE DEF todo
    <2>5. r \in Actor /\ r.pc = "lock" /\ r.todo = todo BY <2>2, IdleFormed DEF WellFormed, Actor, Idle
    <2>6. WellFormed(a, r) BY <2>2, <2>3, <2>5 DEF WellFormed, Holding
    <2> QED BY <2>4, <2>6
  <1> QED BY <1>3, <1>4, <1>5

\* One actor changes, into something it may be.
LEMMA ActorChanged ==
    ASSUME act \in [Actors -> Actor], Formed, NEW a \in Actors, NEW r, WellFormed(a, r),
           act' = [act EXCEPT ![a] = r]
    PROVE /\ act' \in [Actors -> Actor] /\ Formed'
          /\ \A q \in Requests : act'[q].pc # "list"
          /\ \A w \in Workers : act'[w].pc \notin {"ask", "rows"}
  <1>1. act' \in [Actors -> Actor] BY DEF WellFormed
  <1>2. Formed' BY DEF Formed, WellFormed
  <1> QED BY <1>1, <1>2 DEF Formed, WellFormed, Actors

(* The types. *)

States == {"absent", "draft", "active", "deleted", "purging", "gone"}
Rows == [state : States, text : 0..MaxCommits, due : BOOLEAN]

\* A rename begun has a transaction left to end with.
Room == org.rename # "none" => clock < MaxCommits

Typed == TypeOK /\ Formed /\ Room

\* What a document says is content.
LEMMA NowOK == ASSUME TypeOK, NEW d \in Docs PROVE Now(d) \in Content
  BY Bounds DEF TypeOK, Now, Content

\* No document is content, too.
LEMMA NothingOK == Nothing \in Content
  BY Bounds DEF Nothing, Content

\* A transaction that marks leaves rows, and counts.
LEMMA MarkOK ==
    ASSUME TypeOK, Room, NEW D \in SUBSET Docs, NEW to \in [Docs -> States],
           NEW due \in [Docs -> BOOLEAN], Mark(D, to, due), UNCHANGED org
    PROVE row' \in [Docs -> Rows] /\ clock' \in 0..MaxCommits /\ clock' = clock + 1 /\ Room'
  <1>1. clock + 1 \in 0..MaxCommits /\ clock' = clock + 1 /\ Room'
    BY Bounds DEF TypeOK, Mark, Counted, Room
  <1>2. row' \in [Docs -> Rows]
    BY <1>1 DEF TypeOK, Mark, Rows, States
  <1> QED BY <1>1, <1>2

\* What a transaction leaves of the states, and marks of them, is of its type.
LEMMA SameOK == ASSUME TypeOK PROVE Same \in [Docs -> States] /\ All \in [Docs -> BOOLEAN]
  BY DEF TypeOK, Same, All, State, States

\* The request that goes on to its documents.
LEMMA ThenOK ==
    ASSUME Typed, NEW q \in Requests, NEW todo \in Seq(Part), clock' \in 0..MaxCommits, Then(q, todo),
           \A i \in DOMAIN todo : todo[i].how = "sync"
    PROVE /\ act' \in [Actors -> Actor] /\ Formed'
          /\ \A p \in Requests : act'[p].pc # "list"
          /\ \A w \in Workers : act'[w].pc \notin {"ask", "rows"}
  <1> DEFINE r == [Idle EXCEPT !.pc = IF todo = <<>> THEN "ask" ELSE "lock",
                               !.todo = todo, !.since = clock']
  <1>1. r \in Actor BY IdleFormed DEF WellFormed, Actor, Idle, Actors
  <1>2. WellFormed(q, r) BY <1>1, SyncAssumption DEF WellFormed, Holding, Idle, Actor
  <1>3. act' = [act EXCEPT ![q] = r] BY DEF Then
  <1> HIDE DEF r
  <1> QED BY <1>2, <1>3, ActorChanged DEF Typed, TypeOK, Actors

\* A transaction that marks, and whoever made it, keep the types.
LEMMA TypeMarked ==
    ASSUME Typed, NEW q \in Requests, NEW D \in SUBSET Docs, NEW to \in [Docs -> States],
           NEW due \in [Docs -> BOOLEAN], Mark(D, to, due),
           NEW todo \in Seq(Part), \A i \in DOMAIN todo : todo[i].how = "sync", Then(q, todo)
    PROVE Typed'
  <1>1. UNCHANGED <<org, index, lock, waiting, faults>> BY DEF Then
  <1>2. row' \in [Docs -> Rows] /\ clock' \in 0..MaxCommits /\ Room' BY <1>1, MarkOK DEF Typed
  <1>3. /\ act' \in [Actors -> Actor] /\ Formed'
        /\ \A p \in Requests : act'[p].pc # "list"
        /\ \A w \in Workers : act'[w].pc \notin {"ask", "rows"}
    BY <1>2, ThenOK
  <1> QED BY <1>1, <1>2, <1>3 DEF Typed, TypeOK, Rows, States

\* What a request asks for, when it is one part.
LEMMA OnePart == ASSUME NEW x \in Part, x.how = "sync"
                 PROVE <<x>> \in Seq(Part) /\ \A i \in DOMAIN <<x>> : <<x>>[i].how = "sync"
  BY OneOf

\* What a request asks for, when it is two parts.
LEMMA TwoParts == ASSUME NEW x \in Part, NEW y \in Part, x.how = "sync", y.how = "sync"
                  PROVE <<x, y>> \in Seq(Part) /\ \A i \in DOMAIN <<x, y>> : <<x, y>>[i].how = "sync"
  <1>1. \A i \in DOMAIN <<x, y>> : <<x, y>>[i] \in {x, y} BY TwoOf
  <1> QED BY <1>1

\* The parts requests ask for clear marks.
LEMMA SyncParts == ASSUME NEW scope \in SUBSET Docs
                   PROVE \A x \in {Sync(scope), Hiding(scope), MayWait(scope)} : x \in Part /\ x.how = "sync"
  <1>1. Sync(scope) \in Part /\ Sync(scope).how = "sync" BY DEF Sync, Part
  <1>2. Hiding(scope) \in Part /\ Hiding(scope).how = "sync" BY DEF Hiding, Part
  <1>3. MayWait(scope) \in {Sync(scope), Hiding(scope)} BY DEF MayWait
  <1> QED BY <1>1, <1>2, <1>3

\* What transactions mark is documents.
LEMMA Scopes == {dataset} \in SUBSET Docs /\ Resources \in SUBSET Docs /\ Docs \in SUBSET Docs
                /\ ActiveResources \in SUBSET Docs /\ \A r \in Resources : {r} \in SUBSET Docs
  BY DEF Docs, ActiveResources

\* No transaction of a request breaks a type.
LEMMA TypeCommit == ASSUME Typed, NEW q \in Requests, Commit(q) PROVE Typed'
  <1>t. TypeOK BY DEF Typed
  <1>s. Same \in [Docs -> States] /\ All \in [Docs -> BOOLEAN] BY <1>t, SameOK
  <1>1. CASE Create(q)
    <2>1. PICK s \in {"active", "draft"} :
             Mark(Docs, [d \in Docs |-> IF d = dataset THEN s ELSE "active"],
                  [d \in Docs |-> d # dataset \/ s = "active"])
      BY <1>1 DEF Create
    <2>2. [d \in Docs |-> IF d = dataset THEN s ELSE "active"] \in [Docs -> States] BY DEF States
    <2>3. [d \in Docs |-> d # dataset \/ s = "active"] \in [Docs -> BOOLEAN] OBVIOUS
    <2>4. Then(q, <<Sync({dataset}), Sync(Resources)>>) BY <1>1 DEF Create
    <2> QED BY <2>1, <2>2, <2>3, <2>4, TypeMarked, TwoParts, SyncParts, Scopes
  <1>2. CASE EditDataset(q)
    <2>1. PICK part \in {Sync({dataset}), MayWait({dataset})} : Then(q, <<part>>)
      BY <1>2 DEF EditDataset
    <2>2. Mark({dataset}, Same, All) BY <1>2 DEF EditDataset
    <2>3. part \in Part /\ part.how = "sync" BY SyncParts, Scopes
    <2> QED BY <1>s, <2>1, <2>2, <2>3, TypeMarked, OnePart, Scopes
  <1>3. ASSUME NEW r \in Resources, EditResource(q, r) PROVE Typed'
    <2>1. Mark({r}, Same, All) /\ Then(q, <<Sync({r})>>) BY <1>3 DEF EditResource
    <2> QED BY <1>s, <2>1, TypeMarked, OnePart, SyncParts, Scopes
  <1>4. ASSUME NEW r \in Resources, DeleteResource(q, r) PROVE Typed'
    <2>1. Mark({r}, [Same EXCEPT ![r] = "deleted"], All) /\ Then(q, <<Sync({r})>>) BY <1>4 DEF DeleteResource
    <2>2. [Same EXCEPT ![r] = "deleted"] \in [Docs -> States] BY <1>s DEF States
    <2> QED BY <1>s, <2>1, <2>2, TypeMarked, OnePart, SyncParts, Scopes
  <1>5. ASSUME NEW r \in Resources, EditByRun(q, r) PROVE Typed'
    <2>1. Mark({r}, Same, All) /\ Then(q, <<>>) BY <1>5 DEF EditByRun
    <2>2. <<>> \in Seq(Part) /\ \A i \in DOMAIN <<>> : <<>>[i].how = "sync" OBVIOUS
    <2> QED BY <1>s, <2>1, <2>2, TypeMarked, Scopes
  <1>6. CASE DeleteDataset(q)
    <2>1. /\ Mark({dataset} \cup ActiveResources, [Same EXCEPT ![dataset] = "deleted"], All)
          /\ Then(q, <<MayWait({dataset}), Sync(Resources)>>)
      BY <1>6 DEF DeleteDataset
    <2>2. [Same EXCEPT ![dataset] = "deleted"] \in [Docs -> States] BY <1>s DEF States
    <2>3. {dataset} \cup ActiveResources \in SUBSET Docs BY Scopes
    <2>4. PICK todo \in Seq(Part) : /\ Then(q, todo) /\ \A i \in DOMAIN todo : todo[i].how = "sync"
      BY <2>1, TwoParts, SyncParts, Scopes
    <2> QED BY <1>s, <2>1, <2>2, <2>3, <2>4, TypeMarked
  <1>7. CASE MakeLive(q)
    <2>1. /\ Mark({dataset} \cup ActiveResources, [Same EXCEPT ![dataset] = "active"], All)
          /\ Then(q, <<Sync({dataset}), Sync(Resources)>>)
      BY <1>7 DEF MakeLive
    <2>2. [Same EXCEPT ![dataset] = "active"] \in [Docs -> States] BY <1>s DEF States
    <2>3. {dataset} \cup ActiveResources \in SUBSET Docs BY Scopes
    <2>4. PICK todo \in Seq(Part) : /\ Then(q, todo) /\ \A i \in DOMAIN todo : todo[i].how = "sync"
      BY <2>1, TwoParts, SyncParts, Scopes
    <2> QED BY <1>s, <2>1, <2>2, <2>3, <2>4, TypeMarked
  <1> DEFINE r == [Idle EXCEPT !.pc = "lock", !.todo = <<Purging>>]
  <1>p. WellFormed(q, r)
    <2>1. Purging \in Part /\ Purging.how = "purge" /\ Purging.scope = {dataset} BY Scopes DEF Purging, Part
    <2>2. <<Purging>> \in Seq(Part) /\ <<Purging>> # <<>> /\ \A i \in DOMAIN <<Purging>> : <<Purging>>[i] = Purging
      BY <2>1, OneOf
    <2>3. r \in Actor /\ r.pc = "lock" /\ r.todo = <<Purging>>
      BY <2>2, IdleFormed DEF WellFormed, Actor, Idle, Actors
    <2> HIDE DEF r
    <2> QED BY <2>1, <2>2, <2>3, SyncAssumption DEF WellFormed, Holding
  <1> HIDE DEF r
  <1>8. ASSUME act' = [act EXCEPT ![q] = r]
        PROVE /\ act' \in [Actors -> Actor] /\ Formed'
              /\ \A p \in Requests : act'[p].pc # "list"
              /\ \A w \in Workers : act'[w].pc \notin {"ask", "rows"}
    BY <1>8, <1>p, ActorChanged DEF Typed, TypeOK, Actors
  <1>9. CASE PurgeDeleted(q)
    <2>1. act' = [act EXCEPT ![q] = r] /\ UNCHANGED <<row, org, index, lock, waiting, clock, faults>>
      BY <1>9 DEF PurgeDeleted, r
    <2> QED BY <1>8, <2>1 DEF Typed, TypeOK, Room
  <1>10. CASE PurgeDraft(q)
    <2>1. /\ act' = [act EXCEPT ![q] = r] /\ UNCHANGED <<org, index, lock, waiting, clock, faults>>
          /\ row' = [row EXCEPT ![dataset].state = "purging"]
      BY <1>10 DEF PurgeDraft, r
    <2>2. row' \in [Docs -> [state : {"absent", "draft", "active", "deleted", "purging", "gone"},
                             text : 0..MaxCommits, due : BOOLEAN]]
      BY <2>1 DEF Typed, TypeOK
    <2> QED BY <1>8, <2>1, <2>2 DEF Typed, TypeOK, Room
  <1> QED BY <1>1, <1>2, <1>3, <1>4, <1>5, <1>6, <1>7, <1>9, <1>10 DEF Commit

\* An actor's step that changes no row and no document.
LEMMA TypeActor ==
    ASSUME Typed, NEW a \in Actors, NEW r, WellFormed(a, r), act' = [act EXCEPT ![a] = r],
           lock' \in {lock, a, Nobody}, waiting' \in BOOLEAN, faults' \in 0..MaxFaults,
           row' \in [Docs -> Rows], index' \in [Docs -> Content], UNCHANGED <<org, clock>>
    PROVE Typed'
  <1>1. act \in [Actors -> Actor] BY DEF Typed, TypeOK
  <1>2. /\ act' \in [Actors -> Actor] /\ Formed'
        /\ \A q \in Requests : act'[q].pc # "list"
        /\ \A w \in Workers : act'[w].pc \notin {"ask", "rows"}
    BY <1>1, ActorChanged DEF Typed
  <1> QED BY <1>2 DEF Typed, TypeOK, Room, Rows, States

\* Faults are counted up to their bound.
LEMMA FaultOK == ASSUME faults \in 0..MaxFaults, NEW kind, Fault(kind) PROVE faults' \in 0..MaxFaults
  BY Bounds DEF Fault

\* The rest of the state as it was is the rest of the state as it should be.
LEMMA Rest == ASSUME Typed
              PROVE /\ act \in [Actors -> Actor] /\ waiting \in BOOLEAN /\ faults \in 0..MaxFaults
                    /\ row \in [Docs -> Rows] /\ index \in [Docs -> Content]
                    /\ \A a \in Actors : WellFormed(a, act[a])
                    /\ Nobody \notin Actors
  BY SyncAssumption DEF Typed, TypeOK, Formed, Rows, States

\* An actor that asks for the job is in order.
LEMMA AskingFormed ==
    ASSUME NEW q \in Actors, q \in Requests, act \in [Actors -> Actor], WellFormed(q, act[q])
    PROVE WellFormed(q, Asking(q))
  <1>1. <<>> \in [{} -> Reading] OBVIOUS
  <1>2. <<>> \in UNION {[D -> Reading] : D \in SUBSET Docs} BY <1>1
  <1>3. Asking(q) \in Actor BY <1>2 DEF Asking, Actor
  <1>4. Asking(q).pc = "ask" /\ Asking(q).todo = act[q].todo BY DEF Asking, Actor
  <1> QED BY <1>3, <1>4, SyncAssumption DEF WellFormed, Holding

\* A batch given up leaves the types (GivenUp).
LEMMA GivenUpOK ==
    ASSUME Typed, NEW a \in Actors, GivenUp(a), faults' \in 0..MaxFaults, UNCHANGED <<row, org, clock>>,
           index' \in [Docs -> Content]
    PROVE Typed'
  <1> DEFINE r == IF a \in Requests /\ Part1(a).how = "sync" THEN Asking(a) ELSE Idle
  <1>1. WellFormed(a, r) BY AskingFormed, IdleFormed, Rest
  <1>2. act' = [act EXCEPT ![a] = r] /\ lock' = Nobody BY DEF GivenUp
  <1>3. waiting' \in BOOLEAN BY Rest DEF GivenUp
  <1> HIDE DEF r
  <1> QED BY <1>1, <1>2, <1>3, TypeActor, Rest

\* What is read of a row.
LEMMA SeenOK ==
    ASSUME TypeOK, NEW D \in SUBSET Docs, NEW do \in [D -> {"write", "remove", "clear"}]
    PROVE Seen(do, D) \in [D -> Reading]
  <1>1. \A d \in D : Now(d) \in Content /\ row[d].text \in 0..MaxCommits BY NowOK DEF TypeOK
  <1> QED BY <1>1 DEF Seen, Reading

\* The index after some of a batch.
LEMMA LandedOK ==
    ASSUME Typed, NEW E \in SUBSET Docs, NEW read \in [E -> Reading]
    PROVE Landed(read) \in [Docs -> Content]
  <1>1. index \in [Docs -> Content] BY Rest
  <1>2. \A d \in E : read[d].content \in Content /\ read[d].do \in {"write", "remove", "clear"} BY DEF Reading
  <1>3. DOMAIN read = E OBVIOUS
  <1> HIDE DEF Content
  <1> QED BY <1>1, <1>2, <1>3, NothingOK DEF Landed

\* What was read is of documents.
LEMMA ReadOK == ASSUME Typed, NEW a \in Actors
                PROVE \E E \in SUBSET Docs : act[a].read \in [E -> Reading]
  <1>1. act[a].read \in UNION {[D -> Reading] : D \in SUBSET Docs} BY Rest DEF Actor
  <1> QED BY <1>1, Zenon

\* Every actor's record is one.
LEMMA ActorOK == ASSUME Typed PROVE act \in [Actors -> Actor] /\ \A a \in Actors : act[a] \in Actor
  BY DEF Typed, TypeOK

Pcs == {"idle", "list", "lock", "read", "build", "write", "settle", "ask", "rows"}

Readings == UNION {[D -> Reading] : D \in SUBSET Docs}

\* An actor's record with another pc.
LEMMA Moved ==
    ASSUME NEW x \in Actor, NEW pc \in Pcs
    PROVE /\ [x EXCEPT !.pc = pc] \in Actor
          /\ [x EXCEPT !.pc = pc].pc = pc /\ [x EXCEPT !.pc = pc].todo = x.todo
  BY DEF Actor, Pcs

\* Taking the lock.
LEMMA TypeTakeLock == ASSUME Typed, NEW a \in Actors, TakeLock(a) PROVE Typed'
  <1> DEFINE r == [act[a] EXCEPT !.pc = "read"]
  <1>1. act' = [act EXCEPT ![a] = r] BY ActorOK DEF TakeLock
  <1>s. "read" \in Pcs BY DEF Pcs
  <1>2. r \in Actor /\ r.pc = "read" /\ r.todo = act[a].todo BY ActorOK, <1>s, Moved
  <1> HIDE DEF r
  <1>3. WellFormed(a, r) BY <1>2, Rest DEF WellFormed, Holding, TakeLock
  <1> QED BY <1>1, <1>3, TypeActor, Rest DEF TakeLock

\* Leaving a part to the job.
LEMMA TypeLeaveToJob == ASSUME Typed, NEW a \in Actors, LeaveToJob(a) PROVE Typed'
  <1>0. act[a].todo # <<>> BY Rest DEF LeaveToJob, WellFormed, Holding
  <1>1. WellFormed(a, After(a, {}, {})) BY <1>0, AfterFormed, Rest
  <1>2. WellFormed(a, Asking(a)) BY AskingFormed, Rest DEF LeaveToJob
  <1>3. PICK r \in {After(a, {}, {}), Asking(a)} : act' = [act EXCEPT ![a] = r] BY DEF LeaveToJob
  <1> QED BY <1>1, <1>2, <1>3, TypeActor, Rest DEF LeaveToJob

\* What a row asks for is one of three.
LEMMA DoOK == \A d : Do(d) \in {"write", "remove", "clear"}
  BY DEF Do

\* A holder that has read its batch.
LEMMA TypeRead ==
    ASSUME Typed, NEW a \in Actors, act[a].pc = "read", NEW E \in SUBSET Docs, NEW read \in [E -> Reading],
           NEW pc \in {"build", "write"}, NEW since \in 0..MaxCommits,
           pc = "build" => Part1(a).how # "purge",
           Part1(a).how = "purge" => dataset \in E /\ read[dataset].do = "remove",
           NEW r, r \in {[act[a] EXCEPT !.read = read, !.pc = pc],
                         [act[a] EXCEPT !.read = read, !.pc = pc, !.since = since]}
    PROVE WellFormed(a, r)
  <1>1. read \in UNION {[D -> Reading] : D \in SUBSET Docs} OBVIOUS
  <1>2. act[a] \in Actor BY Rest
  <1>3. r \in Actor /\ r.pc = pc /\ r.todo = act[a].todo /\ r.read = read BY <1>1, <1>2 DEF Actor
  <1> HIDE DEF Actor, Reading
  <1> QED BY <1>3, Rest DEF WellFormed, Holding, Part1

\* Reading the rows.
LEMMA TypeReadRows == ASSUME Typed, NEW a \in Actors, ReadRows(a) PROVE Typed'
  <1> DEFINE scope == Part1(a).scope
             how == Part1(a).how
             pc == IF dataset \in scope /\ how \in {"sync", "copy"} THEN "build" ELSE "write"
             r(read) == [act[a] EXCEPT !.read = read, !.pc = pc]
  <1>1. act[a].pc = "read" /\ UNCHANGED <<row, org, index, waiting, clock, faults>> BY DEF ReadRows
  <1>2. act[a].todo \in Seq(Part) /\ act[a].todo # <<>> BY <1>1, Rest DEF WellFormed, Holding, Actor
  <1>3. Part1(a) \in Part /\ 1 \in DOMAIN act[a].todo BY <1>2 DEF Part1
  <1>4. scope \in SUBSET Docs BY <1>3 DEF Part
  <1>5. ASSUME NEW E \in SUBSET Docs, NEW read \in [E -> Reading], how # "purge",
               act' = [act EXCEPT ![a].read = read, ![a].pc = pc], lock' = lock
        PROVE Typed'
    <2>1. act' = [act EXCEPT ![a] = r(read)] BY <1>5, Rest
    <2>2. pc \in {"build", "write"} /\ 0 \in 0..MaxCommits BY Bounds
    <2>3. pc = "build" => how # "purge" OBVIOUS
    <2> HIDE DEF pc
    <2>4. WellFormed(a, r(read)) BY <1>1, <1>5, <2>2, <2>3, TypeRead
    <2> HIDE DEF r
    <2> QED BY <1>1, <1>5, <2>1, <2>4, TypeActor, Rest
  <1>6. CASE how = "sync"
    <2>1. PICK B \in SUBSET scope :
              act' = [act EXCEPT ![a].read = Seen([d \in B |-> Do(d)], B), ![a].pc = pc]
      BY <1>6 DEF ReadRows
    <2>2. [d \in B |-> Do(d)] \in [B -> {"write", "remove", "clear"}] BY DoOK
    <2>3. Seen([d \in B |-> Do(d)], B) \in [B -> Reading] BY <1>4, <2>2, SeenOK DEF Typed
    <2>4. lock' = lock BY <1>6 DEF ReadRows
    <2> QED BY <1>4, <1>5, <1>6, <2>1, <2>3, <2>4
  <1>7. CASE how = "copy"
    <2> DEFINE D == {d \in scope : Live(d)}
    <2>1. act' = [act EXCEPT ![a].read = Seen([d \in D |-> "write"], D), ![a].pc = pc] /\ lock' = lock
      BY <1>7 DEF ReadRows
    <2>2. Seen([d \in D |-> "write"], D) \in [D -> Reading] BY <1>4, SeenOK DEF Typed
    <2> QED BY <1>4, <1>5, <1>7, <2>1, <2>2
  <1>8. CASE how = "drop"
    <2> DEFINE D == {d \in scope : ~Live(d)}
    <2>1. act' = [act EXCEPT ![a].read = Seen([d \in D |-> "remove"], D), ![a].pc = pc] /\ lock' = lock
      BY <1>8 DEF ReadRows
    <2>2. Seen([d \in D |-> "remove"], D) \in [D -> Reading] BY <1>4, SeenOK DEF Typed
    <2> QED BY <1>4, <1>5, <1>8, <2>1, <2>2
  <1>9. CASE how = "purge" /\ State(dataset) \in {"deleted", "purging"}
    <2> DEFINE read == Seen([d \in scope |-> "remove"], scope)
               p == [act[a] EXCEPT !.read = read, !.pc = "write", !.since = row[dataset].text]
    <2>0. /\ act' = [[act EXCEPT ![a].read = read, ![a].pc = pc] EXCEPT ![a].since = row[dataset].text]
          /\ lock' = lock /\ pc = "write"
      BY <1>9 DEF ReadRows
    <2>1. act' = [act EXCEPT ![a] = p] BY <2>0, Rest
    <2>2. read \in [scope -> Reading] BY <1>4, SeenOK DEF Typed
    <2>3. dataset \in scope /\ read[dataset].do = "remove"
      BY <1>1, <1>3, <1>9, Rest DEF WellFormed, Part1, Seen
    <2>4. row[dataset].text \in 0..MaxCommits BY Rest, Scopes DEF Rows
    <2> HIDE DEF read
    <2>5. WellFormed(a, p) BY <1>1, <1>4, <2>2, <2>3, <2>4, TypeRead
    <2> HIDE DEF p
    <2> QED BY <1>1, <2>0, <2>1, <2>5, TypeActor, Rest
  <1>10. CASE how = "purge" /\ State(dataset) \notin {"deleted", "purging"}
    <2>1. act' = [act EXCEPT ![a] = Idle] /\ lock' = Nobody BY <1>10 DEF ReadRows
    <2> QED BY <1>1, <2>1, TypeActor, IdleFormed, Rest
  <1> QED BY <1>3, <1>6, <1>7, <1>8, <1>9, <1>10 DEF Part

\* Building the documents.
LEMMA TypeBuildDoc == ASSUME Typed, NEW a \in Actors, BuildDoc(a) PROVE Typed'
  <1> DEFINE old == act[a].read
             read == [d \in DOMAIN old |->
                         IF old[d].do = "write" /\ ~Live(d) THEN [old[d] EXCEPT !.do = "clear"]
                         ELSE [old[d] EXCEPT !.content = Now(d)]]
             r == [act[a] EXCEPT !.pc = "write", !.read = read]
  <1>1. act[a].pc = "build" /\ act' = [act EXCEPT ![a] = r] /\ UNCHANGED <<row, org, index, lock, waiting, clock, faults>>
    BY ActorOK DEF BuildDoc
  <1>2. PICK E \in SUBSET Docs : old \in [E -> Reading] BY ReadOK
  <1>3. read \in [E -> Reading]
    <2>1. \A d \in E : Now(d) \in Content BY NowOK DEF Typed
    <2> HIDE DEF Content
    <2> QED BY <1>2, <2>1 DEF Reading
  <1> HIDE DEF read
  <1>4. read \in Readings /\ "write" \in Pcs BY <1>2, <1>3 DEF Readings, Pcs
  <1>5. r \in Actor /\ r.pc = "write" /\ r.todo = act[a].todo BY <1>4, ActorOK DEF Actor, Readings
  <1>6. WellFormed(a, r) BY <1>1, <1>5, Rest DEF WellFormed, Holding
  <1> HIDE DEF r
  <1> QED BY <1>1, <1>6, TypeActor, Rest

\* Writing the index.
LEMMA TypeWriteIndex == ASSUME Typed, NEW a \in Actors, WriteIndex(a) PROVE Typed'
  <1> DEFINE r == [act[a] EXCEPT !.pc = "settle"]
  <1>1. act' = [act EXCEPT ![a] = r] BY ActorOK DEF WriteIndex
  <1>s. "settle" \in Pcs BY DEF Pcs
  <1>2. r \in Actor /\ r.pc = "settle" /\ r.todo = act[a].todo BY ActorOK, <1>s, Moved
  <1>3. index' \in [Docs -> Content] BY ReadOK, LandedOK DEF WriteIndex
  <1> HIDE DEF r
  <1>4. WellFormed(a, r) BY <1>2, Rest DEF WellFormed, Holding, WriteIndex
  <1> QED BY <1>1, <1>3, <1>4, TypeActor, Rest DEF WriteIndex

\* Failing to.
LEMMA TypeIndexFails == ASSUME Typed, NEW a \in Actors, IndexFails(a) PROVE Typed'
  <1>1. PICK E \in SUBSET Docs : act[a].read \in [E -> Reading] BY ReadOK
  <1>4. index' \in [Docs -> Content]
    <2>1. CASE \E D \in SUBSET E : index' = Landed([d \in D |-> act[a].read[d]])
      <3>1. PICK D \in SUBSET E : index' = Landed([d \in D |-> act[a].read[d]]) BY <2>1
      <3>2. [d \in D |-> act[a].read[d]] \in [D -> Reading] BY <1>1
      <3> QED BY <3>1, <3>2, LandedOK
    <2>2. CASE index' = ChildrenGone
      <3>1. Nothing \in Content BY Bounds DEF Nothing, Content
      <3> QED BY <2>2, <3>1, Rest DEF ChildrenGone
    <2> QED BY <1>1, <2>1, <2>2 DEF IndexFails
  <1>5. faults' \in 0..MaxFaults BY FaultOK, Rest DEF IndexFails
  <1> QED BY <1>4, <1>5, GivenUpOK DEF IndexFails

\* Waiting for a row in vain.
LEMMA TypeRowTimesOut == ASSUME Typed, NEW a \in Actors, RowTimesOut(a) PROVE Typed'
  BY GivenUpOK, Rest DEF RowTimesOut

\* The end of a batch.
LEMMA TypeSettle == ASSUME Typed, NEW a \in Actors, Settle(a) PROVE Typed'
  <1> DEFINE read == act[a].read
             refused == {d \in DOMAIN read : read[d].do = "write" /\ d \in Rejected}
  <1>1. /\ act[a].pc = "settle" /\ lock' = Nobody
        /\ UNCHANGED <<org, index, waiting, clock, faults>>
    BY DEF Settle
  <1>2. act[a].todo # <<>> /\ act[a].todo \in Seq(Part) BY <1>1, Rest DEF WellFormed, Holding, Actor
  <1>3. DOMAIN read \in SUBSET Docs BY ReadOK
  <1>4. act[a].again \in SUBSET Docs /\ act[a].skip \in SUBSET Docs /\ act[a].since \in 0..MaxCommits
        /\ Part1(a) \in Part
    BY <1>2, Rest DEF Actor, Part1
  <1>5. Part1(a).scope \in SUBSET Docs BY <1>4 DEF Part
  <1>6. ASSUME NEW r, WellFormed(a, r), act' = [act EXCEPT ![a] = r], row' \in [Docs -> Rows] PROVE Typed'
    BY <1>1, <1>6, TypeActor, Rest
  <1>7. CASE Part1(a).how = "sync"
    <2>1. row' \in [Docs -> Rows]
      <3>1. row' = [d \in Docs |-> IF d \in Cleared(read) THEN [row[d] EXCEPT !.due = FALSE] ELSE row[d]]
        BY <1>7 DEF Settle
      <3> QED BY <3>1, Rest DEF Rows
    <2>2. CASE a \in Requests
      <3>1. PICK r \in {After(a, {}, {}), Asking(a)} : act' = [act EXCEPT ![a] = r] BY <1>7, <2>2 DEF Settle
      <3>2. WellFormed(a, After(a, {}, {})) BY <1>2, AfterFormed, Rest
      <3>3. WellFormed(a, Asking(a)) BY <2>2, AskingFormed, Rest
      <3> QED BY <1>6, <2>1, <3>1, <3>2, <3>3
    <2>3. CASE a \notin Requests
      <3> DEFINE drained == /\ Cardinality(DOMAIN read) < Batch
                            /\ Cleared(read) \cup refused = DOMAIN read
                 again == act[a].again \cup (IF drained THEN {} ELSE Part1(a).scope)
                 skip == act[a].skip \cup refused
      <3>1. act' = [act EXCEPT ![a] = After(a, again, skip)] BY <1>7, <2>3 DEF Settle
      <3>2. again \in SUBSET Docs /\ skip \in SUBSET Docs BY <1>3, <1>4, <1>5
      <3> HIDE DEF again, skip
      <3>3. WellFormed(a, After(a, again, skip)) BY <1>2, <3>2, AfterFormed, Rest
      <3> QED BY <1>6, <2>1, <3>1, <3>3
    <2> QED BY <2>2, <2>3
  <1>8. CASE Part1(a).how = "purge"
    <2> DEFINE r == [Idle EXCEPT !.pc = "rows", !.since = act[a].since]
    <2>1. act' = [act EXCEPT ![a] = r] /\ row' = row BY <1>8 DEF Settle
    <2>2. a \in Requests /\ a \notin Workers
      BY <1>2, <1>8, Rest, WhoIsWho DEF WellFormed, Part1
    <2>3. r \in Actor /\ r.pc = "rows" /\ r.todo = <<>> BY <1>4, IdleFormed DEF WellFormed, Actor, Idle
    <2>4. WellFormed(a, r) BY <2>2, <2>3 DEF WellFormed, Holding
    <2> HIDE DEF r
    <2> QED BY <1>6, <2>1, <2>4, Rest
  <1>9. CASE Part1(a).how \in {"copy", "drop"}
    <2>1. PICK r \in {After(a, {}, {}), Idle} : act' = [act EXCEPT ![a] = r] BY <1>9 DEF Settle
    <2>2. row' = row BY <1>9 DEF Settle
    <2>3. WellFormed(a, After(a, {}, {})) BY <1>2, AfterFormed, Rest
    <2> QED BY <1>6, <2>1, <2>2, <2>3, IdleFormed, Rest
  <1> QED BY <1>4, <1>7, <1>8, <1>9 DEF Part

\* Asking for the job.
LEMMA TypeAsk == ASSUME Typed, NEW q \in Requests, Ask(q) PROVE Typed'
  <1>1. WellFormed(q, IF act[q].todo = <<>> THEN Idle ELSE After(q, {}, {}))
    BY AfterFormed, IdleFormed, Rest DEF Actors
  <1>2. faults' \in 0..MaxFaults /\ waiting' \in BOOLEAN BY FaultOK, Rest DEF Ask
  <1> QED BY <1>1, <1>2, TypeActor, Rest DEF Ask, Actors

\* Starting the job.
LEMMA TypeStartJob == ASSUME Typed, NEW w \in Workers, StartJob(w) PROVE Typed'
  <1> DEFINE todo == <<Hiding(Resources), Hiding({dataset})>>
             r == [Idle EXCEPT !.pc = "lock", !.todo = todo]
  <1>1. todo \in Seq(Part) /\ todo # <<>> /\ \A i \in DOMAIN todo : todo[i].how = "sync"
    BY TwoParts, SyncParts, Scopes, TwoOf
  <1> HIDE DEF todo
  <1>2. r \in Actor /\ r.pc = "lock" /\ r.todo = todo BY <1>1, IdleFormed DEF WellFormed, Actor, Idle, Actors
  <1>3. WellFormed(w, r) BY <1>1, <1>2 DEF WellFormed, Holding
  <1>4. act' = [act EXCEPT ![w] = r] BY DEF StartJob, todo
  <1> HIDE DEF r
  <1> QED BY <1>3, <1>4, TypeActor, Rest DEF StartJob, Actors

\* Starting a rebuild.
LEMMA TypeStartRebuild == ASSUME Typed, NEW w \in Workers, StartRebuild(w) PROVE Typed'
  <1> DEFINE part(scope, how) == [scope |-> scope, how |-> how, waits |-> TRUE]
             c1 == part(Resources, "copy")
             c2 == part({dataset}, "copy")
             e1 == part({dataset}, "drop")
             e2 == part(Resources, "drop")
             drops == <<e1, e2>>
             copies == <<c1, c2>>
  <1>1. {c1, c2, e1, e2} \subseteq Part /\ \A x \in {c1, c2, e1, e2} : x.how # "purge"
    BY Scopes DEF Part
  <1>2. e1.how = "drop" OBVIOUS
  <1> HIDE DEF c1, c2, e1, e2
  <1>3. /\ drops \in Seq(Part) /\ drops # <<>> /\ drops[1] = e1
        /\ \A i \in DOMAIN drops : drops[i] \in {e1, e2}
    BY <1>1, TwoOf
  <1>4. /\ copies \in Seq(Part) /\ copies # <<>>
        /\ \A i \in DOMAIN copies : copies[i] \in {c1, c2}
    BY <1>1, TwoOf
  <1>5. ASSUME NEW todo \in Seq(Part), todo # <<>>, \A i \in DOMAIN todo : todo[i].how # "purge",
               NEW pc \in {"lock", "list"}, pc = "list" => todo[1].how = "drop",
               act' = [act EXCEPT ![w] = [Idle EXCEPT !.pc = pc, !.todo = todo]]
        PROVE Typed'
    <2> DEFINE r == [Idle EXCEPT !.pc = pc, !.todo = todo]
    <2>1. r \in Actor /\ r.pc = pc /\ r.todo = todo BY IdleFormed DEF WellFormed, Actor, Idle, Actors
    <2>2. WellFormed(w, r) BY <1>5, <2>1, SyncAssumption DEF WellFormed, Holding
    <2> HIDE DEF r
    <2> QED BY <1>5, <2>2, TypeActor, Rest DEF StartRebuild, Actors, r
  <1>6. CASE State(dataset) = "active"
    <2>1. act' = [act EXCEPT ![w] = [Idle EXCEPT !.pc = "lock", !.todo = copies \o drops]]
      BY <1>6 DEF StartRebuild, c1, c2, e1, e2
    <2> HIDE DEF copies, drops
    <2>2. copies \o drops \in Seq(Part) /\ copies \o drops # <<>> BY <1>3, <1>4
    <2>3. \A i \in DOMAIN (copies \o drops) : (copies \o drops)[i] \in {c1, c2, e1, e2} BY <1>3, <1>4
    <2> QED BY <1>1, <1>5, <2>1, <2>2, <2>3
  <1>7. CASE State(dataset) # "active"
    <2>1. act' = [act EXCEPT ![w] = [Idle EXCEPT !.pc = "list", !.todo = drops]]
      BY <1>7 DEF StartRebuild, e1, e2
    <2> HIDE DEF drops
    <2> QED BY <1>1, <1>2, <1>3, <1>5, <2>1
  <1> QED BY <1>6, <1>7

\* Listing what the index holds.
LEMMA TypeListIndexed == ASSUME Typed, NEW w \in Workers, ListIndexed(w) PROVE Typed'
  <1> DEFINE page == {d \in act[w].todo[1].scope : index[d] # Nothing}
             todo == [act[w].todo EXCEPT ![1].scope = page]
             r == [act[w] EXCEPT !.pc = "lock", !.todo = todo]
  <1>1. act[w].pc = "list" /\ act' = [act EXCEPT ![w] = r] BY ActorOK DEF ListIndexed, Actors
  <1>2. /\ act[w].todo \in Seq(Part) /\ act[w].todo # <<>> /\ act[w] \in Actor
        /\ act[w].todo[1].how = "drop" /\ \A i \in DOMAIN act[w].todo : act[w].todo[i].how # "purge"
    BY <1>1, Rest DEF WellFormed, Actor, Actors, Holding
  <1>3. 1 \in DOMAIN act[w].todo /\ act[w].todo[1] \in Part BY <1>2
  <1>4. page \in SUBSET Docs BY <1>3 DEF Part
  <1> HIDE DEF page
  <1>5. [act[w].todo[1] EXCEPT !.scope = page] \in Part /\ [act[w].todo[1] EXCEPT !.scope = page].how = "drop"
    BY <1>2, <1>3, <1>4 DEF Part
  <1>6. todo \in Seq(Part) /\ todo # <<>> /\ \A i \in DOMAIN todo : todo[i].how # "purge"
    BY <1>2, <1>3, <1>5
  <1> HIDE DEF todo
  <1>7. r \in Actor /\ r.pc = "lock" /\ r.todo = todo BY <1>2, <1>6 DEF Actor
  <1> HIDE DEF r
  <1>8. WellFormed(w, r) BY <1>6, <1>7, SyncAssumption DEF WellFormed, Holding
  <1> QED BY <1>1, <1>8, TypeActor, Rest DEF ListIndexed, Actors

\* Dying.
LEMMA TypeCrash == ASSUME Typed, NEW a \in Actors, Crash(a) PROVE Typed'
  <1>1. waiting' \in BOOLEAN BY DEF Crash
  <1>2. faults' \in 0..MaxFaults BY FaultOK, Rest DEF Crash
  <1> QED BY <1>1, <1>2, TypeActor, IdleFormed, Rest DEF Crash

\* The rows of a purge.
LEMMA TypePurgeRows == ASSUME Typed, NEW q \in Requests, PurgeRows(q) PROVE Typed'
  <1>1. row' \in [Docs -> Rows]
    <2>1. q \in Actors /\ act[q].since \in 0..MaxCommits /\ row[dataset].text \in 0..MaxCommits
      BY Rest, Scopes DEF Actors, WellFormed, Actor, Rows
    <2>2. row[dataset].text # act[q].since => 1 \in 0..MaxCommits
      <3> DEFINE x == row[dataset].text
                 y == act[q].since
      <3>1. x \in 0..MaxCommits /\ y \in 0..MaxCommits BY <2>1
      <3> HIDE DEF x, y
      <3>2. x # y => 1 \in 0..MaxCommits BY <3>1, Bounds
      <3> QED BY <3>2 DEF x, y
    <2>3. 0 \in 0..MaxCommits BY Bounds
    <2> DEFINE again == IF row[dataset].text = act[q].since THEN 0 ELSE 1
    <2>4. again \in 0..MaxCommits BY <2>2, <2>3
    <2>5. row' \in {[d \in Docs |-> [state |-> "gone", text |-> again, due |-> FALSE]], row}
      BY DEF PurgeRows
    <2> HIDE DEF again
    <2>6. [d \in Docs |-> [state |-> "gone", text |-> again, due |-> FALSE]] \in [Docs -> Rows]
      BY <2>4 DEF Rows, States
    <2> QED BY <2>5, <2>6, Rest
  <1> QED BY <1>1, TypeActor, IdleFormed, Rest DEF PurgeRows, Actors

\* The rename's three steps.
LEMMA TypeRename == ASSUME Typed, RenameMark \/ RenameTake \/ RenameCommit PROVE Typed'
  <1>1. CASE RenameMark
    <2>1. Room' BY <1>1, Bounds DEF Typed, TypeOK, Room, RenameMark, Counted
    <2>2. Formed' BY <1>1 DEF Typed, RenameMark, Formed, WellFormed
    <2>3. org' \in [name : 0..MaxCommits, rename : {"none", "marked", "taken"},
                   joined : BOOLEAN, locks : BOOLEAN]
      BY <1>1 DEF Typed, TypeOK, RenameMark
    <2>4. UNCHANGED <<row, index, lock, act, waiting, clock, faults>> BY <1>1 DEF RenameMark
    <2> QED BY <2>1, <2>2, <2>3, <2>4 DEF Typed, TypeOK
  <1>2. CASE RenameTake
    BY <1>2 DEF Typed, TypeOK, RenameTake, Room, Formed, WellFormed
  <1>3. CASE RenameCommit
    <2>1. clock + 1 \in 0..MaxCommits BY <1>3, Bounds DEF Typed, TypeOK, Room, RenameCommit
    <2>2. faults' \in 0..MaxFaults /\ waiting' \in BOOLEAN
      BY <1>3, FaultOK, Rest DEF RenameCommit
    <2>3. row' \in [Docs -> Rows]
      <3>1. row \in [Docs -> Rows] BY Rest
      <3>2. \A x \in Rows : [state |-> x.state, text |-> clock + 1, due |-> TRUE] \in Rows
                            /\ [[x EXCEPT !.text = clock + 1] EXCEPT !.due = TRUE] \in Rows
        BY <2>1 DEF Rows
      <3>3. row' \in {row, [row EXCEPT ![dataset] = [[@ EXCEPT !.text = clock + 1] EXCEPT !.due = TRUE]]}
        BY <1>3, <3>1 DEF RenameCommit
      <3> HIDE DEF Rows
      <3> QED BY <3>1, <3>2, <3>3
    <2>4. Formed' BY <1>3 DEF Typed, RenameCommit, Formed, WellFormed
    <2> QED BY <1>3, <2>1, <2>2, <2>3, <2>4 DEF Typed, TypeOK, RenameCommit, Room, Rows, States
  <1> QED BY <1>1, <1>2, <1>3

\* The sweep.
LEMMA TypeSweep == ASSUME Typed, Sweep PROVE Typed'
  BY DEF Typed, TypeOK, Sweep, Room, Formed, WellFormed

\* Every step keeps the types.
LEMMA TypeNext == ASSUME Typed, [Next]_vars PROVE Typed'
  <1>1. CASE \E q \in Requests : Commit(q) \/ PurgeRows(q) \/ Ask(q)
    BY <1>1, TypeCommit, TypePurgeRows, TypeAsk
  <1>2. CASE \E a \in Actors : \/ TakeLock(a) \/ LeaveToJob(a) \/ Step(a)
                               \/ IndexFails(a) \/ RowTimesOut(a) \/ Crash(a)
    BY <1>2, TypeTakeLock, TypeLeaveToJob, TypeReadRows, TypeBuildDoc, TypeWriteIndex, TypeSettle,
       TypeIndexFails, TypeRowTimesOut, TypeCrash DEF Step
  <1>3. CASE \E w \in Workers : StartJob(w) \/ StartRebuild(w) \/ ListIndexed(w)
    BY <1>3, TypeStartJob, TypeStartRebuild, TypeListIndexed
  <1>4. CASE UNCHANGED vars
    BY <1>4 DEF Typed, TypeOK, vars, Room, Formed, WellFormed
  <1> QED BY <1>1, <1>2, <1>3, <1>4, TypeRename, TypeSweep DEF Next

\* The types at the start.
LEMMA TypeInit == ASSUME Init PROVE Typed
  <1>1. act \in [Actors -> Actor] /\ Formed
    BY IdleFormed DEF Init, Formed, WellFormed
  <1>2. row \in [Docs -> Rows] BY Bounds DEF Init, Rows, States
  <1>3. index \in [Docs -> Content]
    <2>1. \A d \in Docs : Wanted(d) \in Content BY <1>2, Bounds, NothingOK DEF Wanted, Now, Content, Rows, Init
    <2> QED BY <2>1 DEF Init
  <1>4. \A a \in Actors : act[a].pc = "idle" BY DEF Init, Idle
  <1>5. org \in [name : 0..MaxCommits, rename : {"none", "marked", "taken"}, joined : BOOLEAN, locks : BOOLEAN]
        /\ Room
    <2>1. org = [name |-> 0, rename |-> "none", joined |-> FALSE, locks |-> FALSE] BY DEF Init
    <2>2. 0 \in 0..MaxCommits BY Bounds
    <2>3. Room BY <2>1 DEF Room
    <2>4. [name |-> 0, rename |-> "none", joined |-> FALSE, locks |-> FALSE]
             \in [name : 0..MaxCommits, rename : {"none", "marked", "taken"}, joined : BOOLEAN, locks : BOOLEAN]
      BY <2>2
    <2> QED BY <2>1, <2>3, <2>4
  <1>6. lock \in Actors \cup {Nobody} /\ waiting \in BOOLEAN /\ clock \in 0..MaxCommits /\ faults \in 0..MaxFaults
    <2>1. lock = Nobody BY DEF Init
    <2>2. waiting = FALSE BY Zenon DEF Init
    <2>3. clock = 0 BY DEF Init
    <2>4. faults = 0 BY DEF Init
    <2>5. 0 \in 0..MaxCommits /\ 0 \in 0..MaxFaults BY Bounds
    <2> QED BY <2>1, <2>2, <2>3, <2>4, <2>5
  <1>7. /\ \A q \in Requests : act[q].pc # "list"
        /\ \A w \in Workers : act[w].pc \notin {"ask", "rows"}
    BY <1>4 DEF Actors
  <1> QED BY <1>1, <1>2, <1>3, <1>5, <1>6, <1>7 DEF Typed, TypeOK, Rows, States

\* The types of every state of the sync (search-index.ts), for any documents, actors and bounds.
THEOREM Types == Spec => []TypeOK
  <1>1. Init => Typed BY TypeInit
  <1>2. Typed /\ [Next]_vars => Typed' BY TypeNext
  <1>3. Typed => TypeOK BY DEF Typed
  <1> QED BY <1>1, <1>2, <1>3, PTL DEF Spec

=============================================================================
