------------------------- MODULE LakeCatalogProofs -------------------------
(***************************************************************************)
(* The catalog of a resource's tables and the snapshots its version rows   *)
(* record say the same, and nothing the catalog reads is ever deleted,     *)
(* whoever loses its claim half-way: for any number of workers, versions   *)
(* and faults of every kind.                                               *)
(***************************************************************************)
EXTENDS LakeCatalog, FiniteSetTheorems, FunctionTheorems, SequenceTheorems, TLAPS

-----------------------------------------------------------------------------
(* Types, and what kind of job gets where *)

Row == [state : {"none", "active", "purging", "purged"}, kind : {"table", "noTable", "badKey"},
        snap : Nat, refused : BOOLEAN, noTable : BOOLEAN, failures : Nat]
Files == [gen : Nat, of : Versions, n : Nat]
Catalogs == [gen : Nat, reads : Seq(Files)]
Objects == Files \cup Catalogs

Jobs == [type : {"ingest", "purge", "run"}, v : Versions] \cup {Rebuild}
Pcs == {"idle", "ask", "open", "load", "publish", "commit", "clear", "list", "recheck",
        "delete", "decide", "read", "check", "finish", "release", "chain"}
Outs == {"none", "done", "failed", "stopped", "cleared"}
Writer == [pc : Pcs, job : Jobs \cup {NoJob}, gen : Nat, from : Catalogs, draft : Seq(Files),
           known : Catalogs, doomed : SUBSET Objects, todo : SUBSET Versions,
           refused : SUBSET (Versions \X {"refused", "noTable"}), out : Outs]

JobFits(a) ==
    /\ a.pc # "idle" => a.job \in Jobs
    /\ a.pc \in {"ask", "open", "load"} => a.job.type \in {"ingest", "run"}
    /\ a.pc = "decide" => a.job.type = "rebuild"
    /\ a.pc = "read" => a.job.type \in {"rebuild", "purge"}
    /\ a.pc \in {"check", "finish"} => a.job.type = "purge"

\* The table, the bucket, the queue and the claim; what there is of objects is
\* finitely much.
Stored ==
    /\ row \in [Versions -> Row]
    /\ pointer \in Catalogs
    /\ bucket \subseteq Objects /\ ledger \subseteq Catalogs
    /\ left \subseteq Objects /\ lost \subseteq Objects
    /\ IsFiniteSet(bucket) /\ IsFiniteSet(ledger) /\ IsFiniteSet(left) /\ IsFiniteSet(lost)
    /\ claim \in [by : Workers \cup {"free", "dead"}, idle : BOOLEAN]
    /\ leased \subseteq Versions
    /\ waiting \subseteq Jobs
    /\ faults \in Nat

\* What the workers are at.
Typed(a) == a \in Writer /\ JobFits(a) /\ IsFiniteSet(a.doomed)
Working == act \in [Workers -> Writer] /\ \A w \in Workers : Typed(act[w])

TypeOK == Stored /\ Working

-----------------------------------------------------------------------------
(* Objects *)

\* A data file is told from a catalog.
LEMMA FileOrCatalog ==
    /\ \A o \in Files : IsFile(o)
    /\ \A o \in Catalogs : ~IsFile(o)
BY DEF IsFile, Files, Catalogs

\* No catalog at all reads nothing.
LEMMA NilIsCatalog == Nil \in Catalogs /\ Nil.reads = <<>> /\ Nil.gen = 0 /\ Reads(Nil) = {}
<1>1. <<>> \in Seq(Files) /\ DOMAIN <<>> = {}
  BY EmptySeq
<1>2. QED BY <1>1 DEF Nil, Catalogs, Reads, Range

\* What a catalog reads are files, finitely many.
LEMMA ReadsOfSeq ==
    ASSUME NEW s \in Seq(Files)
    PROVE  Range(s) \subseteq Files /\ IsFiniteSet(Range(s)) /\ DOMAIN s = 1..Len(s) /\ Len(s) \in Nat
<1>1. DOMAIN s = 1..Len(s) /\ Len(s) \in Nat /\ s \in [1..Len(s) -> Files]
  BY LenProperties
<1>2. Range(s) \subseteq Files
  BY <1>1 DEF Range
<1>3. IsFiniteSet(1..Len(s))
  BY <1>1, FS_Interval
<1>4. s \in Surjection(1..Len(s), Range(s))
  BY <1>1 DEF Range, Surjection
<1>5. QED BY <1>1, <1>2, <1>3, <1>4, FS_Surjection

\* Another file at the end.
LEMMA Appended ==
    ASSUME NEW s \in Seq(Files), NEW f \in Files
    PROVE  LET t == Append(s, f) IN
           /\ t \in Seq(Files) /\ t # <<>>
           /\ Len(t) = Len(s) + 1 /\ DOMAIN t = 1..Len(t) /\ DOMAIN s = 1..Len(s) /\ Len(s) \in Nat
           /\ \A i \in DOMAIN s : i \in DOMAIN t /\ t[i] = s[i]
           /\ t[Len(t)] = f
           /\ Range(t) = Range(s) \cup {f}
<1> DEFINE t == Append(s, f)
<1>1. /\ t \in Seq(Files) /\ t # <<>> /\ Len(t) = Len(s) + 1
      /\ \A i \in 1..Len(s) : t[i] = s[i]
      /\ t[Len(s) + 1] = f
  BY AppendProperties
<1>2. Len(s) \in Nat /\ DOMAIN s = 1..Len(s) /\ DOMAIN t = 1..Len(t)
  BY <1>1, LenProperties
<1>3. \A i \in DOMAIN s : i \in DOMAIN t /\ t[i] = s[i]
  BY <1>1, <1>2
<1>4. Range(t) = Range(s) \cup {f}
  <2>1. ASSUME NEW x \in Range(t) PROVE x \in Range(s) \cup {f}
    <3>1. PICK i \in DOMAIN t : t[i] = x
      BY <2>1 DEF Range
    <3>2. CASE i \in 1..Len(s)
      BY <1>1, <1>2, <3>1, <3>2 DEF Range
    <3>3. CASE i = Len(s) + 1
      BY <1>1, <3>1, <3>3
    <3>4. QED BY <1>1, <1>2, <3>1, <3>2, <3>3
  <2>2. ASSUME NEW x \in Range(s) PROVE x \in Range(t)
    BY <1>3, <2>2 DEF Range
  <2>3. f \in Range(t)
    BY <1>1, <1>2 DEF Range
  <2>4. QED BY <2>1, <2>2, <2>3
<1>5. QED BY <1>1, <1>2, <1>3, <1>4

-----------------------------------------------------------------------------
(* Names nobody knows *)

\* The least of some numbers, or the oldest of some versions.
LEMMA Least ==
    ASSUME NEW S \in SUBSET Nat, S # {}
    PROVE  Min(S) \in S /\ \A v \in S : Min(S) <= v
<1>1. PICK x \in S : \A y \in S : ~(<<y, x>> \in OpToRel(<, Nat))
  BY NatLessThanWellFounded, WFMin
<1>2. ASSUME NEW y \in S PROVE x =< y
  <2>1. ~(y < x)
    BY <1>1, <1>2 DEF OpToRel
  <2>2. QED BY <2>1
<1>3. QED BY <1>2 DEF Min

\* The least unused number is one, and it is not used.
LEMMA UnusedIsNew ==
    ASSUME NEW T, IsFiniteSet(T)
    PROVE  Unused(T) \in Nat \ {0} /\ Unused(T) \notin T
<1> DEFINE n == Cardinality(T) + 1
           S == (1..n) \ T
<1>1. n \in Nat /\ Cardinality(T) \in Nat
  BY FS_CardinalityType
<1>2. S # {}
  <2>1. SUFFICES ASSUME 1..n \subseteq T PROVE FALSE
    OBVIOUS
  <2>2. Cardinality(1..n) <= Cardinality(T)
    BY <2>1, FS_Subset
  <2>3. Cardinality(1..n) = n
    BY <1>1, FS_Interval
  <2>4. QED BY <1>1, <2>2, <2>3
<1>3. Min(S) \in S
  BY <1>1, <1>2, Least
<1>4. QED BY <1>1, <1>3 DEF Unused

\* Everything that can still be named is finitely much.
LEMMA MentionedFinite ==
    ASSUME TypeOK
    PROVE  IsFiniteSet(Mentioned) /\ Mentioned \subseteq Objects
<1> DEFINE Cats == {o \in bucket \cup ledger : ~IsFile(o)}
           Read1 == {Reads(c) : c \in Cats}
           Holds(w) == act[w].doomed \cup Range(act[w].draft)
                         \cup {act[w].known, act[w].from, Catalog(act[w].gen, <<>>)}
                         \cup Reads(act[w].known)
           Holds1 == {Holds(w) : w \in Workers}
<1>1. /\ IsFiniteSet(Cats) /\ Cats \subseteq Catalogs
      /\ \A c \in Catalogs : IsFiniteSet(Reads(c)) /\ Reads(c) \subseteq Files
  <2>1. IsFiniteSet(bucket \cup ledger)
    BY FS_Union DEF TypeOK, Stored, Working, Typed
  <2>2. IsFiniteSet(Cats)
    BY <2>1, FS_Subset
  <2>3. Cats \subseteq Catalogs
    BY FileOrCatalog DEF TypeOK, Stored, Objects
  <2>4. ASSUME NEW c \in Catalogs PROVE IsFiniteSet(Reads(c)) /\ Reads(c) \subseteq Files
    <3>1. c.reads \in Seq(Files)
      BY DEF Catalogs
    <3>2. QED BY <3>1, ReadsOfSeq DEF Reads
  <2>5. QED BY <2>2, <2>3, <2>4
<1>2. IsFiniteSet(UNION Read1) /\ UNION Read1 \subseteq Files
  <2>1. [c \in Cats |-> Reads(c)] \in Surjection(Cats, Read1)
    BY DEF Surjection
  <2>2. IsFiniteSet(Read1)
    BY <1>1, <2>1, FS_Surjection
  <2>3. \A T \in Read1 : IsFiniteSet(T) /\ T \subseteq Files
    BY <1>1
  <2>4. IsFiniteSet(UNION Read1)
    BY <2>2, <2>3, FS_UNION
  <2>5. QED BY <2>3, <2>4
<1>3. ASSUME NEW w \in Workers
      PROVE  IsFiniteSet(Holds(w)) /\ Holds(w) \subseteq Objects
  <2>1. /\ act[w].doomed \subseteq Objects /\ act[w].draft \in Seq(Files) /\ act[w].known \in Catalogs
        /\ act[w].from \in Catalogs /\ act[w].gen \in Nat
    BY DEF TypeOK, Working, Writer
  <2>2. Catalog(act[w].gen, <<>>) \in Catalogs
    BY <2>1, EmptySeq DEF Catalog, Catalogs
  <2>3. IsFiniteSet(act[w].doomed) /\ IsFiniteSet(Range(act[w].draft))
        /\ IsFiniteSet({act[w].known, act[w].from, Catalog(act[w].gen, <<>>)})
        /\ IsFiniteSet(Reads(act[w].known))
    <3>1. IsFiniteSet({} \cup {act[w].known} \cup {act[w].from} \cup {Catalog(act[w].gen, <<>>)})
      BY FS_EmptySet, FS_AddElement
    <3>2. {act[w].known, act[w].from, Catalog(act[w].gen, <<>>)}
             = {} \cup {act[w].known} \cup {act[w].from} \cup {Catalog(act[w].gen, <<>>)}
      OBVIOUS
    <3>3. IsFiniteSet({act[w].known, act[w].from, Catalog(act[w].gen, <<>>)})
      BY <3>1, <3>2
    <3>4. QED BY <1>1, <2>1, <3>3, ReadsOfSeq DEF TypeOK, Stored, Working, Typed
  <2>4. IsFiniteSet(Holds(w))
    BY <2>3, FS_Union
  <2>5. Range(act[w].draft) \subseteq Files
    BY <2>1, ReadsOfSeq
  <2>6. QED BY <1>1, <2>1, <2>2, <2>4, <2>5 DEF Objects
<1>4. IsFiniteSet(UNION Holds1) /\ UNION Holds1 \subseteq Objects
  <2> HIDE DEF Holds
  <2>1. [w \in Workers |-> Holds(w)] \in Surjection(Workers, Holds1)
    BY DEF Surjection
  <2>2. IsFiniteSet(Holds1)
    BY <2>1, WorkersAssumption, FS_Surjection
  <2>3. \A T \in Holds1 : IsFiniteSet(T) /\ T \subseteq Objects
    BY <1>3
  <2>4. IsFiniteSet(UNION Holds1)
    BY <2>2, <2>3, FS_UNION
  <2>5. QED BY <2>3, <2>4
<1>5. Mentioned = bucket \cup ledger \cup left \cup lost \cup {pointer} \cup Reads(pointer)
                    \cup (UNION Read1) \cup (UNION Holds1)
  <2>1. Mentioned = UNION {bucket, ledger, left, lost, {pointer}, Reads(pointer),
                           UNION Read1, UNION Holds1}
    BY DEF Mentioned
  <2> HIDE DEF Read1, Holds1
  <2>2. QED BY <2>1
<1>6. /\ IsFiniteSet(bucket) /\ IsFiniteSet(ledger) /\ IsFiniteSet(left) /\ IsFiniteSet(lost)
      /\ IsFiniteSet({pointer}) /\ IsFiniteSet(Reads(pointer))
      /\ bucket \subseteq Objects /\ ledger \subseteq Objects /\ left \subseteq Objects
      /\ lost \subseteq Objects /\ {pointer} \subseteq Objects /\ Reads(pointer) \subseteq Objects
  BY <1>1, FS_Singleton DEF TypeOK, Stored, Objects
<1> HIDE DEF Read1, Holds1
<1>7. IsFiniteSet(Mentioned)
  BY <1>2, <1>4, <1>5, <1>6, FS_Union
<1>8. QED BY <1>2, <1>4, <1>5, <1>6, <1>7 DEF Objects

\* A name or a generation given out is new: no object that anybody can still name
\* has it.
LEMMA NamesAreNew ==
    ASSUME TypeOK
    PROVE  /\ NewName \in Nat /\ NewGeneration \in Nat \ {0}
           /\ \A o \in Mentioned : IsFile(o) => o.n # NewName
           /\ \A o \in Mentioned : o.gen # NewGeneration
<1> DEFINE F == {o \in Mentioned : IsFile(o)}
           N == {o.n : o \in F}
           G == {o.gen : o \in Mentioned}
<1>1. IsFiniteSet(Mentioned)
  BY MentionedFinite
<1>2. IsFiniteSet(F)
  BY <1>1, FS_Subset
<1>3. IsFiniteSet(N)
  <2>1. [o \in F |-> o.n] \in Surjection(F, N)
    BY DEF Surjection
  <2>2. QED BY <1>2, <2>1, FS_Surjection
<1>4. IsFiniteSet(G)
  <2>1. [o \in Mentioned |-> o.gen] \in Surjection(Mentioned, G)
    BY DEF Surjection
  <2>2. QED BY <1>1, <2>1, FS_Surjection
<1>5. NewName = Unused(N)
  BY DEF NewName
<1>6. NewGeneration = Unused(G)
  BY DEF NewGeneration
<1> HIDE DEF N, G
<1>7. NewName \in Nat \ {0} /\ NewName \notin N /\ NewGeneration \in Nat \ {0} /\ NewGeneration \notin G
  BY <1>3, <1>4, <1>5, <1>6, UnusedIsNew
<1>8. QED BY <1>7 DEF N, G

\* What a worker has in its hands, and what it deletes, it can name.
LEMMA HandsMentioned ==
    ASSUME NEW w \in Workers
    PROVE  /\ act[w].doomed \subseteq Mentioned /\ Range(act[w].draft) \subseteq Mentioned
           /\ Catalog(act[w].gen, <<>>) \in Mentioned
           /\ bucket \subseteq Mentioned /\ lost \subseteq Mentioned
           /\ pointer \in Mentioned /\ Reads(pointer) \subseteq Mentioned
BY DEF Mentioned

-----------------------------------------------------------------------------
(* Types are kept *)

\* A worker's step is nobody else's.
LEMMA Setting ==
    ASSUME Working, NEW w \in Workers, NEW a, Set(w, a)
    PROVE  /\ act'[w] = a
           /\ \A u \in Workers : u # w => act'[u] = act[u]
           /\ Typed(a) => Working'
BY DEF Set, Working, Typed

\* A worker with nothing in its hands.
LEMMA IdleTyped ==
    /\ Typed(Idle)
    /\ Idle.pc = "idle" /\ Idle.job = NoJob /\ Idle.draft = <<>> /\ Idle.todo = {} /\ Idle.doomed = {}
<1>1. Idle \in Writer /\ IsFiniteSet({})
  BY NilIsCatalog, EmptySeq, FS_EmptySet DEF Idle, Writer, Pcs, Outs
<1>2. Idle.pc = "idle" /\ Idle.job = NoJob /\ Idle.draft = <<>> /\ Idle.todo = {} /\ Idle.doomed = {}
  BY DEF Idle
<1>3. QED BY <1>1, <1>2 DEF Typed, JobFits

LEMMA JobsTyped ==
    /\ \A v \in Versions : Ingest(v) \in Jobs /\ Purge(v) \in Jobs /\ RunOf(v) \in Jobs
    /\ Rebuild \in Jobs
    /\ \A j \in Jobs : /\ j.type \in {"ingest", "purge", "run", "rebuild"}
                       /\ j.type # "rebuild" => j.v \in Versions
                       /\ j.type = "rebuild" => j = Rebuild
                       /\ j.type = "run" => j = RunOf(j.v)
                       /\ j.type = "ingest" => j = Ingest(j.v)
                       /\ j.type = "purge" => j = Purge(j.v)
BY DEF Jobs, Ingest, Purge, RunOf, Rebuild

LEMMA TypeOKInit == Init => TypeOK
<1> SUFFICES ASSUME Init PROVE TypeOK
  OBVIOUS
<1>1. 1 \in Versions
  BY BoundsAssumption DEF Versions
<1>2. \A v \in Versions : NoRow \in Row
  BY DEF NoRow, Row
<1> DEFINE f == File(1, 1, 1)
           c == Catalog(1, <<f>>)
<1>3. f \in Files /\ <<f>> \in Seq(Files) /\ c \in Catalogs /\ Reads(c) = {f}
  <2>1. f \in Files
    BY <1>1 DEF File, Files
  <2>2. <<f>> = Append(<<>>, f) /\ <<>> \in Seq(Files)
    BY EmptySeq
  <2>3. <<f>> \in Seq(Files) /\ Range(<<f>>) = Range(<<>>) \cup {f}
    BY <2>1, <2>2, Appended
  <2>4. Range(<<>>) = {}
    BY NilIsCatalog DEF Reads
  <2>5. QED BY <2>1, <2>3, <2>4 DEF Catalog, Catalogs, Reads
<1>4. IsFiniteSet({}) /\ IsFiniteSet({c} \cup {f})
  BY FS_EmptySet, FS_Singleton, FS_Union
<1>5. CASE Loaded
  <2>1. row \in [Versions -> Row]
    BY <1>2, <1>5 DEF Loaded, Row, NoRow
  <2>2. pointer = c /\ bucket = {c} \cup {f}
    BY <1>3, <1>5 DEF Loaded
  <2>3. pointer \in Catalogs /\ bucket \subseteq Objects /\ IsFiniteSet(bucket)
    BY <1>3, <1>4, <2>2 DEF Objects
  <2>4. QED BY <1>4, <2>1, <2>3, IdleTyped DEF Init, TypeOK, Stored, Working, Free, Typed
<1>6. CASE ToLoad
  <2>1. row \in [Versions -> Row]
    <3>1. PICK k \in {"table", "noTable"} :
             row = [v \in Versions |->
                      IF v = 1 THEN [NoRow EXCEPT !.state = "active", !.kind = k] ELSE NoRow]
      BY <1>6 DEF ToLoad
    <3>2. [NoRow EXCEPT !.state = "active", !.kind = k] \in Row
      BY DEF Row, NoRow
    <3>3. QED BY <1>2, <3>1, <3>2
  <2>2. pointer \in Catalogs /\ bucket = {}
    BY <1>6, NilIsCatalog DEF ToLoad
  <2>3. QED BY <1>4, <2>1, <2>2, IdleTyped DEF Init, TypeOK, Stored, Working, Free, Typed
<1>7. QED BY <1>5, <1>6 DEF Init

\* What is loaded is a file of the worker's generation, with a name of its own.
LEMMA NewFile ==
    ASSUME TypeOK, NEW w \in Workers, NEW v \in Versions
    PROVE  LET f == File(act[w].gen, v, NewName) IN
           /\ f \in Files /\ f.of = v /\ f.gen = act[w].gen /\ f \notin Mentioned
<1>1. act[w].gen \in Nat
  BY DEF TypeOK, Working, Writer
<1>2. QED BY <1>1, NamesAreNew, FileOrCatalog DEF File, Files

\* Nothing changed in a worker's hands.
SameHands(a, b) ==
    /\ b.job = a.job /\ b.gen = a.gen /\ b.from = a.from /\ b.draft = a.draft /\ b.known = a.known
    /\ b.doomed = a.doomed /\ b.todo = a.todo /\ b.refused = a.refused

\* What the ways a worker goes on change.
LEMMA Moved ==
    ASSUME Working, NEW w \in Workers
    PROVE  /\ \A pc : Goto(w, pc) =>
                 act'[w].pc = pc /\ act'[w].out = act[w].out /\ SameHands(act[w], act'[w])
           /\ Aborts(w) =>
                 act'[w].pc = "clear" /\ act'[w].out = "failed" /\ SameHands(act[w], act'[w])
           /\ \A v, why : Refuse(w, v, why) =>
                 /\ act'[w].pc = act[w].pc /\ act'[w].out = act[w].out /\ act'[w].job = act[w].job
                 /\ act'[w].gen = act[w].gen /\ act'[w].from = act[w].from
                 /\ act'[w].draft = act[w].draft /\ act'[w].todo = act[w].todo \ {v}
           /\ \A out : Over(w, out) =>
                 /\ act'[w].pc = "release" /\ act'[w].out = out /\ act'[w].job = act[w].job
           /\ Ends(w) => act'[w] = Idle
<1>0. \A a : Set(w, a) => act'[w] = a
  BY Setting
<1>1. act[w] \in Writer /\ Idle \in Writer
  BY IdleTyped DEF Working, Typed
<1>2. ASSUME NEW pc, Goto(w, pc)
      PROVE  act'[w].pc = pc /\ act'[w].out = act[w].out /\ SameHands(act[w], act'[w])
  <2>1. act'[w] = [act[w] EXCEPT !.pc = pc]
    BY <1>0, <1>2 DEF Goto
  <2>2. QED BY <1>1, <2>1 DEF Writer, SameHands
<1>3. ASSUME Aborts(w)
      PROVE  act'[w].pc = "clear" /\ act'[w].out = "failed" /\ SameHands(act[w], act'[w])
  <2>1. act'[w] = [act[w] EXCEPT !.pc = "clear", !.out = "failed"]
    BY <1>0, <1>3 DEF Aborts
  <2>2. QED BY <1>1, <2>1 DEF Writer, SameHands
<1>4. ASSUME NEW v, NEW why, Refuse(w, v, why)
      PROVE  /\ act'[w].pc = act[w].pc /\ act'[w].out = act[w].out /\ act'[w].job = act[w].job
             /\ act'[w].gen = act[w].gen /\ act'[w].from = act[w].from
             /\ act'[w].draft = act[w].draft /\ act'[w].todo = act[w].todo \ {v}
  <2>1. act'[w] = [act[w] EXCEPT !.todo = @ \ {v}, !.refused = @ \cup {<<v, why>>}]
    BY <1>0, <1>4 DEF Refuse
  <2>2. QED BY <1>1, <2>1 DEF Writer
<1>5. ASSUME NEW out, Over(w, out)
      PROVE  act'[w].pc = "release" /\ act'[w].out = out /\ act'[w].job = act[w].job
  <2>1. act'[w] = [Idle EXCEPT !.pc = "release", !.job = act[w].job, !.out = out]
    BY <1>0, <1>5 DEF Over
  <2>2. QED BY <1>1, <2>1 DEF Writer
<1>6. Ends(w) => act'[w] = Idle
  BY <1>0 DEF Ends
<1>7. QED BY <1>2, <1>3, <1>4, <1>5, <1>6

LEMMA OverTyped ==
    ASSUME Working, NEW w \in Workers, act[w].pc # "idle", NEW out \in Outs, Over(w, out)
    PROVE  Working'
<1>1. act[w].job \in Jobs
  BY DEF Working, Typed, JobFits
<1>2. Typed([Idle EXCEPT !.pc = "release", !.job = act[w].job, !.out = out])
  BY <1>1, IdleTyped DEF Typed, JobFits, Writer, Pcs
<1>3. QED BY <1>2, Setting DEF Over

LEMMA GotoTyped ==
    ASSUME Working, NEW w \in Workers, NEW pc \in Pcs, Goto(w, pc), act[w].pc # "idle",
           JobFits([act[w] EXCEPT !.pc = pc])
    PROVE  Working'
<1>1. Typed([act[w] EXCEPT !.pc = pc])
  BY DEF Working, Typed, Writer
<1>2. QED BY <1>1, Setting DEF Goto

LEMMA AbortsTyped ==
    ASSUME Working, NEW w \in Workers, Aborts(w), act[w].pc # "idle"
    PROVE  Working'
<1> DEFINE b == [act[w] EXCEPT !.pc = "clear", !.out = "failed"]
<1>1. act[w] \in Writer /\ Typed(act[w]) /\ act[w].job \in Jobs
  BY DEF Working, Typed, JobFits
<1>2. b \in Writer
  <2>1. act[w] \in Writer
    BY <1>1
  <2>2. "clear" \in Pcs /\ "failed" \in Outs
    BY DEF Pcs, Outs
  <2>3. QED BY <2>1, <2>2 DEF Writer
<1>3. b.pc = "clear" /\ b.job = act[w].job /\ b.doomed = act[w].doomed
  <2>1. act[w] \in Writer
    BY <1>1
  <2>2. QED BY <2>1 DEF Writer
<1> HIDE DEF b
<1>4. Typed(b)
  BY <1>1, <1>2, <1>3 DEF Typed, JobFits
<1>5. QED BY <1>4, Setting DEF Aborts, b
LEMMA StartTyped ==
    ASSUME TypeOK, NEW w \in Workers, StartRun(w) \/ StartIngest(w) \/ StartOther(w)
    PROVE  Working'
<1>1. CASE StartRun(w)
  <2>1. PICK v \in Versions : Set(w, [Idle EXCEPT !.pc = "ask", !.job = RunOf(v)])
    BY <1>1 DEF StartRun
  <2>2. Typed([Idle EXCEPT !.pc = "ask", !.job = RunOf(v)])
    <3>1. RunOf(v).type = "run"
      BY DEF RunOf
    <3>2. QED BY <3>1, JobsTyped, IdleTyped DEF Typed, JobFits, Writer, Pcs
  <2>3. QED BY <2>1, <2>2, Setting DEF TypeOK
<1>2. CASE StartIngest(w)
  <2>1. PICK j \in waiting :
           /\ j.type = "ingest"
           /\ \/ Set(w, [Idle EXCEPT !.pc = "chain", !.job = j])
              \/ UNCHANGED act
              \/ Set(w, [Idle EXCEPT !.pc = "ask", !.job = j])
    BY <1>2 DEF StartIngest
  <2>2. j \in Jobs
    BY DEF TypeOK, Stored
  <2>3. /\ Typed([Idle EXCEPT !.pc = "ask", !.job = j])
        /\ Typed([Idle EXCEPT !.pc = "chain", !.job = j])
    BY <2>1, <2>2, IdleTyped DEF Typed, JobFits, Writer, Pcs
  <2>4. UNCHANGED act => Working'
    BY DEF TypeOK, Working
  <2>5. QED BY <2>1, <2>3, <2>4, Setting DEF TypeOK
<1>3. CASE StartOther(w)
  <2>1. PICK j \in waiting :
           /\ j.type \in {"rebuild", "purge"}
           /\ Set(w, [Idle EXCEPT !.pc = IF j.type = "rebuild" THEN "decide" ELSE "check", !.job = j])
    BY <1>3 DEF StartOther
  <2>2. j \in Jobs
    BY DEF TypeOK, Stored
  <2>3. Typed([Idle EXCEPT !.pc = IF j.type = "rebuild" THEN "decide" ELSE "check", !.job = j])
    <3>1. (IF j.type = "rebuild" THEN "decide" ELSE "check") \in Pcs
      BY DEF Pcs
    <3>2. QED BY <2>1, <2>2, <3>1, IdleTyped DEF Typed, JobFits, Writer
  <2>4. QED BY <2>1, <2>3, Setting DEF TypeOK
<1>4. QED BY <1>1, <1>2, <1>3

LEMMA IngestTyped ==
    ASSUME TypeOK, NEW w \in Workers, Ask(w) \/ Open(w) \/ Load(w) \/ LoadErrs(w) \/ Publish(w)
    PROVE  Working'
<1>1. CASE Ask(w)
  <2>1. PICK pc \in {"open", "release"} : Goto(w, pc)
    BY <1>1 DEF Ask
  <2>2. JobFits([act[w] EXCEPT !.pc = pc]) /\ act[w].pc # "idle" /\ pc \in Pcs
    BY <1>1 DEF Ask, At, TypeOK, Working, Typed, JobFits, Writer, Pcs
  <2>3. QED BY <2>1, <2>2, GotoTyped DEF TypeOK
<1>2. CASE Open(w)
  <2>0. act[w].pc = "open" /\ act[w] \in Writer /\ pointer \in Catalogs
        /\ act[w].job \in Jobs /\ IsFiniteSet(act[w].doomed) /\ act[w].job.type \in {"ingest", "run"}
    BY <1>2 DEF Open, At, TypeOK, Working, Typed, JobFits, Stored
  <2>1. CASE Over(w, "failed")
    BY <2>0, <2>1, OverTyped DEF Outs, TypeOK
  <2>2. CASE ~Over(w, "failed")
    <3> DEFINE gen == IF pointer = Nil THEN NewGeneration ELSE pointer.gen
               a == [act[w] EXCEPT !.pc = "load", !.from = pointer, !.known = pointer,
                        !.draft = pointer.reads, !.gen = gen]
    <3>1. Set(w, a)
      BY <1>2, <2>2 DEF Open
    <3>2. gen \in Nat /\ pointer.reads \in Seq(Files)
      BY <2>0, NamesAreNew DEF Catalogs
    <3> HIDE DEF gen
    <3>3. Typed(a)
      BY <2>0, <3>2 DEF Typed, JobFits, Writer, Pcs
    <3>4. QED BY <3>1, <3>3, Setting DEF TypeOK
  <2>3. QED BY <2>1, <2>2
<1>3. CASE Load(w)
  <2>0. act[w].pc = "load" /\ act[w] \in Writer /\ act[w].job.v \in Versions
        /\ act[w].job \in Jobs /\ IsFiniteSet(act[w].doomed)
    BY <1>3, JobsTyped DEF Load, At, TypeOK, Working, Typed, JobFits
  <2> DEFINE f == File(act[w].gen, act[w].job.v, NewName)
  <2>1. CASE Goto(w, "release")
    <3>1. JobFits([act[w] EXCEPT !.pc = "release"]) /\ "release" \in Pcs
      BY <2>0 DEF JobFits, Writer, Pcs
    <3>2. QED BY <2>0, <2>1, <3>1, GotoTyped DEF TypeOK
  <2>2. CASE Set(w, [act[w] EXCEPT !.draft = Append(@, f), !.pc = "publish"])
    <3>1. f \in Files
      BY <2>0, NewFile
    <3>2. Append(act[w].draft, f) \in Seq(Files)
      BY <2>0, <3>1, Appended DEF Writer
    <3> HIDE DEF f
    <3>3. Typed([act[w] EXCEPT !.draft = Append(@, f), !.pc = "publish"])
      BY <2>0, <3>2 DEF Typed, JobFits, Writer, Pcs
    <3>4. QED BY <2>2, <3>3, Setting DEF TypeOK
  <2>3. QED BY <1>3, <2>1, <2>2 DEF Load, Loads
<1>4. CASE LoadErrs(w)
  <2>0. act[w].pc \in {"load", "publish"} /\ act[w] \in Writer
        /\ act[w].job \in Jobs /\ IsFiniteSet(act[w].doomed)
    BY <1>4 DEF LoadErrs, At, TypeOK, Working, Typed, JobFits
  <2>1. Typed([act[w] EXCEPT !.pc = "clear", !.out = "stopped"])
    BY <2>0 DEF Typed, JobFits, Writer, Pcs, Outs
  <2>2. QED BY <1>4, <2>0, <2>1, AbortsTyped, Setting DEF LoadErrs, TypeOK
<1>5. CASE Publish(w)
  <2>1. Goto(w, "commit") /\ act[w].pc = "publish" /\ "commit" \in Pcs
    BY <1>5 DEF Publish, At, Pcs
  <2>2. JobFits([act[w] EXCEPT !.pc = "commit"])
    BY <2>1 DEF TypeOK, Working, Typed, JobFits, Writer
  <2>3. QED BY <2>1, <2>2, GotoTyped DEF TypeOK
<1>6. QED BY <1>1, <1>2, <1>3, <1>4, <1>5

LEMMA ClearTyped ==
    ASSUME TypeOK, NEW w \in Workers,
           Commit(w) \/ Clear(w) \/ List(w) \/ Recheck(w) \/ Delete(w)
    PROVE  Working'
<1>0. act[w] \in Writer /\ IsFiniteSet(act[w].doomed) /\ JobFits(act[w])
  BY DEF TypeOK, Working, Typed
<1>1. CASE Commit(w)
  <2>1. act[w].pc = "commit"
    BY <1>1 DEF Commit, At
  <2>2. CASE Aborts(w)
    BY <2>1, <2>2, AbortsTyped DEF TypeOK
  <2>3. CASE ~Aborts(w)
    <3> DEFINE known == IF On(w, {"ingest", "run"}) THEN Draft(w) ELSE Nil
               a == [act[w] EXCEPT !.pc = "clear", !.out = "done", !.refused = {}, !.known = known]
    <3>1. Set(w, a)
      BY <1>1, <2>3 DEF Commit
    <3>2. known \in Catalogs
      BY <1>0, NilIsCatalog DEF Draft, Catalog, Catalogs, Writer
    <3> HIDE DEF known
    <3>3. Typed(a)
      BY <1>0, <2>1, <3>2 DEF Typed, JobFits, Writer, Pcs, Outs
    <3>4. QED BY <3>1, <3>3, Setting DEF TypeOK
  <2>4. QED BY <2>2, <2>3
<1>2. ASSUME act[w].pc \in {"clear", "list", "recheck", "delete"}, NotCleared(w)
      PROVE  Working'
  <2>1. PICK out \in Outs : Over(w, out)
    BY <1>0, <1>2 DEF NotCleared, Outs, Writer
  <2>2. QED BY <1>2, <2>1, OverTyped DEF TypeOK
<1>3. ASSUME act[w].pc \in {"list", "delete"}, Cleared(w)
      PROVE  Working'
  <2>1. CASE act[w].job.type = "purge" /\ act[w].out = "done"
    <3>1. Typed([Idle EXCEPT !.pc = "finish", !.job = act[w].job, !.out = "done"])
      BY <1>0, <1>3, <2>1, IdleTyped DEF Typed, JobFits, Writer, Pcs, Outs
    <3>2. QED BY <1>3, <2>1, <3>1, Setting DEF Cleared, TypeOK
  <2>2. CASE ~(act[w].job.type = "purge" /\ act[w].out = "done")
    <3>1. Over(w, act[w].out)
      BY <1>3, <2>2 DEF Cleared
    <3>2. act[w].out \in Outs
      BY <1>0 DEF Writer
    <3>3. QED BY <1>3, <3>1, <3>2, OverTyped DEF TypeOK
  <2>3. QED BY <2>1, <2>2
<1>4. CASE Clear(w)
  <2>1. act[w].pc = "clear" /\ pointer \in Catalogs
    BY <1>4 DEF Clear, At, TypeOK, Stored
  <2>2. Typed([act[w] EXCEPT !.pc = "list", !.from = pointer])
    BY <1>0, <2>1 DEF Typed, JobFits, Writer, Pcs
  <2>3. QED BY <1>2, <1>4, <2>1, <2>2, Setting DEF Clear, TypeOK
<1>5. CASE List(w)
  <2> DEFINE doomed == {o \in bucket : Leftover(w, o)}
  <2>1. act[w].pc = "list" /\ doomed \subseteq Objects /\ IsFiniteSet(doomed)
    BY <1>5, FS_Subset DEF List, At, TypeOK, Stored
  <2>2. Cleared(w) \/ Set(w, [act[w] EXCEPT !.pc = "recheck", !.doomed = doomed])
    BY <1>5 DEF List
  <2> HIDE DEF doomed
  <2>3. Typed([act[w] EXCEPT !.pc = "recheck", !.doomed = doomed])
    BY <1>0, <2>1 DEF Typed, JobFits, Writer, Pcs
  <2>4. QED BY <1>3, <2>1, <2>2, <2>3, Setting DEF TypeOK
<1>6. CASE Recheck(w)
  <2>1. act[w].pc = "recheck" /\ "delete" \in Pcs /\ (NotCleared(w) \/ Goto(w, "delete"))
    BY <1>6 DEF Recheck, At, Pcs
  <2>2. JobFits([act[w] EXCEPT !.pc = "delete"])
    BY <1>0, <2>1 DEF JobFits, Writer
  <2>3. QED BY <1>2, <2>1, <2>2, GotoTyped DEF TypeOK
<1>7. CASE Delete(w)
  BY <1>2, <1>3, <1>7 DEF Delete, At
<1>8. QED BY <1>1, <1>4, <1>5, <1>6, <1>7

LEMMA RebuildsTyped ==
    ASSUME TypeOK, NEW w \in Workers, act[w].pc \in {"decide", "check"}
    PROVE  Typed(Rebuilds(w))
<1>1. act[w] \in Writer /\ IsFiniteSet(act[w].doomed) /\ JobFits(act[w])
  BY DEF TypeOK, Working, Typed
<1> DEFINE todo == {v \in Versions : RebuildLoads(v)}
           a == [act[w] EXCEPT !.pc = "read", !.from = pointer, !.gen = NewGeneration, !.todo = todo]
<1>2. /\ pointer \in Catalogs /\ NewGeneration \in Nat /\ todo \subseteq Versions
  BY NamesAreNew DEF TypeOK, Stored
<1>3. Rebuilds(w) = a
  BY DEF Rebuilds
<1> HIDE DEF todo
<1>4. a \in Writer /\ a.doomed = act[w].doomed /\ a.pc = "read" /\ a.job = act[w].job
  BY <1>1, <1>2 DEF Writer, Pcs
<1>5. Typed(a)
  BY <1>1, <1>4 DEF Typed, JobFits
<1>6. QED BY <1>3, <1>5

LEMMA RebuildTyped ==
    ASSUME TypeOK, NEW w \in Workers,
           Decide(w) \/ Read(w) \/ ReadEnds(w) \/ Check(w)
    PROVE  Working'
<1>0. act[w] \in Writer /\ IsFiniteSet(act[w].doomed) /\ JobFits(act[w]) /\ pointer \in Catalogs
  BY DEF TypeOK, Working, Typed, Stored
<1>1. CASE Decide(w)
  <2>1. act[w].pc = "decide"
    BY <1>1 DEF Decide, At
  <2>2. Typed([act[w] EXCEPT !.pc = "clear", !.out = "cleared", !.known = pointer])
    BY <1>0, <2>1 DEF Typed, JobFits, Writer, Pcs, Outs
  <2>3. QED BY <1>1, <2>1, <2>2, RebuildsTyped, Setting DEF Decide, TypeOK
<1>2. CASE Read(w)
  <2> DEFINE v == Min(act[w].todo)
             f == File(act[w].gen, v, NewName)
  <2>1. act[w].pc = "read" /\ v \in Versions /\ act[w].todo \subseteq Versions
    <3>1. act[w].pc = "read" /\ act[w].todo # {} /\ act[w].todo \subseteq Versions
      BY <1>0, <1>2 DEF Read, At, Writer
    <3>2. Versions \subseteq Nat
      BY DEF Versions
    <3>3. QED BY <3>1, <3>2, Least
  <2>2. f \in Files
    BY <2>1, NewFile
  <2>3. Append(act[w].draft, f) \in Seq(Files)
    BY <1>0, <2>2, Appended DEF Writer
  <2>4. \/ Refuse(w, v, "noTable") \/ Refuse(w, v, "refused") \/ Aborts(w)
        \/ Set(w, [act[w] EXCEPT !.draft = Append(@, f), !.todo = @ \ {v}])
    BY <1>2 DEF Read
  <2> HIDE DEF v, f
  <2>5. ASSUME NEW why \in {"noTable", "refused"}, Refuse(w, v, why) PROVE Working'
    <3>1. act[w].refused \cup {<<v, why>>} \subseteq Versions \X {"refused", "noTable"}
      BY <1>0, <2>1 DEF Writer
    <3>2. Typed([act[w] EXCEPT !.todo = @ \ {v}, !.refused = @ \cup {<<v, why>>}])
      BY <1>0, <2>1, <3>1 DEF Typed, JobFits, Writer
    <3>3. QED BY <2>5, <3>2, Setting DEF Refuse, TypeOK
  <2>6. Typed([act[w] EXCEPT !.draft = Append(@, f), !.todo = @ \ {v}])
    BY <1>0, <2>1, <2>3 DEF Typed, JobFits, Writer
  <2>7. QED BY <2>1, <2>4, <2>5, <2>6, AbortsTyped, Setting DEF TypeOK
<1>3. CASE ReadEnds(w)
  <2>1. act[w].pc = "read"
    BY <1>3 DEF ReadEnds, At
  <2>2. PICK pc \in {"commit", "publish"} : Aborts(w) \/ Goto(w, pc)
    BY <1>3 DEF ReadEnds
  <2>3. JobFits([act[w] EXCEPT !.pc = pc]) /\ pc \in Pcs
    BY <1>0, <2>1 DEF JobFits, Writer, Pcs
  <2>4. QED BY <2>1, <2>2, <2>3, AbortsTyped, GotoTyped DEF TypeOK
<1>4. CASE Check(w)
  <2>1. act[w].pc = "check"
    BY <1>4 DEF Check, At
  <2>2. /\ Typed([act[w] EXCEPT !.pc = "release"])
        /\ Typed([act[w] EXCEPT !.pc = "clear", !.out = "done"])
    BY <1>0, <2>1 DEF Typed, JobFits, Writer, Pcs, Outs
  <2>3. QED BY <1>4, <2>1, <2>2, RebuildsTyped, Setting DEF Check, TypeOK
<1>5. QED BY <1>1, <1>2, <1>3, <1>4

LEMMA EndTyped ==
    ASSUME TypeOK, NEW w \in Workers,
           Finish(w) \/ Release(w) \/ EndJob(w) \/ Crash(w)
    PROVE  Working'
<1>0. act[w] \in Writer /\ JobFits(act[w])
  BY DEF TypeOK, Working, Typed
<1>1. Ends(w) => Working'
  BY IdleTyped, Setting DEF Ends, TypeOK
<1>2. CASE Finish(w)
  <2>1. JobFits([act[w] EXCEPT !.pc = "release"]) /\ "release" \in Pcs
    BY <1>0, <1>2 DEF Finish, At, JobFits, Writer, Pcs
  <2>2. QED BY <1>2, <2>1, GotoTyped DEF Finish, At, TypeOK
<1>3. CASE Release(w)
  <2>1. JobFits([act[w] EXCEPT !.pc = "chain"]) /\ "chain" \in Pcs
    BY <1>0, <1>3 DEF Release, At, JobFits, Writer, Pcs
  <2>2. QED BY <1>1, <1>3, <2>1, GotoTyped DEF Release, At, TypeOK
<1>4. QED BY <1>1, <1>2, <1>3 DEF EndJob, Crash

LEMMA WorkingNext == TypeOK /\ [Next]_vars => Working'
<1> SUFFICES ASSUME TypeOK, [Next]_vars PROVE Working'
  OBVIOUS
<1>1. UNCHANGED act => Working'
  BY DEF TypeOK, Working
<1>2. ASSUME NEW w \in Workers,
             StartRun(w) \/ StartIngest(w) \/ StartOther(w) \/ WriterStep(w)
             \/ LoadErrs(w) \/ Crash(w)
      PROVE  Working'
  BY <1>2, StartTyped, IngestTyped, ClearTyped, RebuildTyped, EndTyped DEF WriterStep
<1>3. CASE \E v \in Versions : ClaimPurge(v)
  BY <1>1, <1>3 DEF ClaimPurge
<1>4. CASE Cancel \/ Diff \/ Sweep \/ Lapse \/ GoStale \/ Damage
  BY <1>1, <1>4 DEF Cancel, Diff, Sweep, Lapse, GoStale, Damage
<1>5. CASE \E c \in ledger : SweepCatalog(c)
  BY <1>1, <1>5 DEF SweepCatalog
<1>6. CASE UNCHANGED vars
  BY <1>1, <1>6 DEF vars
<1>7. QED BY <1>2, <1>3, <1>4, <1>5, <1>6 DEF Next

-----------------------------------------------------------------------------
(* What a commit records *)

Ingests(w) == On(w, {"ingest", "run"})
Places(w, v) ==
    LET d == act[w].draft
    IN  {i \in DOMAIN d : d[i].of = v /\ (Ingests(w) => i = Len(d))}

LEMMA RecordedIs ==
    ASSUME TypeOK, NEW w \in Workers
    PROVE  /\ Recorded(w) \in [Versions -> Row]
           /\ \A v \in Versions :
                 /\ Recorded(w)[v].state = row[v].state /\ Recorded(w)[v].kind = row[v].kind
                 /\ Places(w, v) # {} => Recorded(w)[v].snap \in Places(w, v)
                 /\ Places(w, v) = {} =>
                       Recorded(w)[v].snap = IF Ingests(w) THEN row[v].snap ELSE 0
<1> DEFINE d == act[w].draft
           snap(v) == IF Places(w, v) # {} THEN CHOOSE i \in Places(w, v) : TRUE
                      ELSE IF Ingests(w) THEN row[v].snap ELSE 0
<1>1. d \in Seq(Files) /\ DOMAIN d = 1..Len(d) /\ Len(d) \in Nat
  BY ReadsOfSeq DEF TypeOK, Working, Writer
<1>2. row \in [Versions -> Row]
  BY DEF TypeOK, Stored
<1>3. ASSUME NEW v \in Versions
      PROVE  /\ snap(v) \in Nat
             /\ Places(w, v) # {} => snap(v) \in Places(w, v)
             /\ Places(w, v) = {} => snap(v) = IF Ingests(w) THEN row[v].snap ELSE 0
  <2>1. row[v].snap \in Nat /\ Places(w, v) \subseteq Nat
    BY <1>1, <1>2 DEF Row, Places
  <2>2. QED BY <2>1
<1>4. ASSUME NEW v \in Versions
      PROVE  Recorded(w)[v] = [row[v] EXCEPT
                !.snap = snap(v),
                !.refused = @ \/ <<v, "refused">> \in act[w].refused,
                !.noTable = @ \/ <<v, "noTable">> \in act[w].refused]
  BY DEF Recorded, Places, Ingests
<1>5. Recorded(w) = [v \in Versions |-> Recorded(w)[v]]
  BY DEF Recorded
<1> HIDE DEF snap
<1>6. ASSUME NEW v \in Versions
      PROVE  /\ Recorded(w)[v] \in Row /\ Recorded(w)[v].snap = snap(v)
             /\ Recorded(w)[v].state = row[v].state /\ Recorded(w)[v].kind = row[v].kind
  <2>1. row[v] \in Row
    BY <1>2
  <2>2. snap(v) \in Nat
    BY <1>3
  <2> DEFINE p == row[v].refused \/ <<v, "refused">> \in act[w].refused
             q == row[v].noTable \/ <<v, "noTable">> \in act[w].refused
  <2>3. Recorded(w)[v] = [row[v] EXCEPT !.snap = snap(v), !.refused = p, !.noTable = q]
    BY <2>1, <1>4 DEF Row
  <2>4. p \in BOOLEAN /\ q \in BOOLEAN
    OBVIOUS
  <2> HIDE DEF p, q
  <2>5. QED BY <2>1, <2>2, <2>3, <2>4 DEF Row
<1>7. QED BY <1>3, <1>5, <1>6

LEMMA DraftIs ==
    ASSUME TypeOK, NEW w \in Workers
    PROVE  /\ Draft(w) \in Catalogs /\ Draft(w).reads = act[w].draft
           /\ act[w].draft # <<>> => Draft(w).gen = act[w].gen
           /\ act[w].draft = <<>> => Draft(w) = Nil
<1>1. act[w].draft \in Seq(Files) /\ act[w].gen \in Nat
  BY DEF TypeOK, Working, Writer
<1>2. QED BY <1>1, NilIsCatalog DEF Draft, Catalog, Catalogs

-----------------------------------------------------------------------------
(* The store keeps its types *)

LEMMA RowKept ==
    ASSUME TypeOK, [Next]_vars
    PROVE  row' \in [Versions -> Row]
<1>0. row \in [Versions -> Row]
  BY DEF TypeOK, Stored
<1>1. ASSUME NEW w \in Workers,
             StartRun(w) \/ StartIngest(w) \/ StartOther(w) \/ LoadErrs(w) \/ Crash(w)
      PROVE  row' \in [Versions -> Row]
  <2>1. CASE StartRun(w)
    <3>1. PICK v \in Versions :
             \/ row' = row
             \/ row' = [row EXCEPT ![v].state = "active"]
             \/ row' = [row EXCEPT ![v].state = "active", ![v].kind = "badKey"]
      BY <2>1 DEF StartRun
    <3>2. QED BY <1>0, <3>1 DEF Row
  <2>2. CASE ~StartRun(w)
    BY <1>0, <1>1, <2>2 DEF StartIngest, StartOther, LoadErrs, Crash, Kept
  <2>3. QED BY <2>1, <2>2
<1>2. ASSUME NEW w \in Workers, WriterStep(w)
      PROVE  row' \in [Versions -> Row]
  <2>0. act[w].pc # "idle" => act[w].job \in Jobs
    BY DEF TypeOK, Working, Typed, JobFits
  <2>1. CASE UNCHANGED row
    BY <1>0, <2>1
  <2>2. CASE Load(w)
    <3>1. row' = row \/ row' = [row EXCEPT ![act[w].job.v].refused = TRUE]
      BY <2>2 DEF Load, Loads
    <3>2. \A r \in Row : [r EXCEPT !.refused = TRUE] \in Row
      BY DEF Row
    <3>3. QED BY <1>0, <3>1, <3>2
  <2>3. CASE Commit(w)
    BY <1>0, <2>3, RecordedIs DEF Commit, Moves
  <2>4. CASE Finish(w)
    <3>1. row' = [row EXCEPT ![act[w].job.v].state = "purged", ![act[w].job.v].snap = 0]
      BY <2>4 DEF Finish
    <3>2. /\ \A r \in Row : [r EXCEPT !.state = "purged"] \in Row
          /\ \A r \in Row : [r EXCEPT !.snap = 0] \in Row
      BY DEF Row
    <3>3. [row EXCEPT ![act[w].job.v].state = "purged"] \in [Versions -> Row]
      BY <1>0, <3>2
    <3>4. QED BY <3>1, <3>2, <3>3
  <2>5. CASE EndJob(w)
    <3>1. PICK v \in {act[w].job.v} : row' = row \/ Failed(v)
      BY <2>5 DEF EndJob
    <3>2. CASE Failed(v) /\ row' # row
      <4>1. PICK counted \in BOOLEAN :
               LET n == row[v].failures + IF counted THEN 1 ELSE 0
               IN  row' = [row EXCEPT ![v].failures = n, ![v].refused = n >= FailureLimit]
        BY <3>2 DEF Failed
      <4>2. v \in Versions => row[v].failures \in Nat
        BY <1>0 DEF Row
      <4> DEFINE n == row[v].failures + IF counted THEN 1 ELSE 0
      <4>3. v \in Versions => n \in Nat
        BY <4>2
      <4>4. row' = [row EXCEPT ![v].failures = n, ![v].refused = n >= FailureLimit]
        BY <4>1
      <4> HIDE DEF n
      <4>5. (n >= FailureLimit) \in BOOLEAN
        OBVIOUS
      <4> DEFINE over == n >= FailureLimit
      <4>6. CASE v \in Versions
        <5>1. n \in Nat /\ over \in BOOLEAN
          BY <4>3, <4>5, <4>6
        <5>2. row' = [row EXCEPT ![v].failures = n, ![v].refused = over]
          BY <4>4
        <5> HIDE DEF over
        <5>3. /\ \A r \in Row : [r EXCEPT !.failures = n] \in Row
              /\ \A r \in Row : [r EXCEPT !.refused = over] \in Row
          BY <5>1 DEF Row
        <5>4. [row EXCEPT ![v].failures = n] \in [Versions -> Row]
          BY <1>0, <5>3
        <5>5. QED BY <5>2, <5>3, <5>4
      <4>7. CASE v \notin Versions
        BY <1>0, <4>4, <4>7 DEF Row
      <4>8. QED BY <4>6, <4>7
    <3>3. QED BY <1>0, <3>1, <3>2
  <2>6. QED BY <1>2, <2>1, <2>2, <2>3, <2>4, <2>5 DEF WriterStep, Ask, Open, Publish, Clear, List,
                 Recheck, Delete, Decide, Read, ReadEnds, Check, Release, Kept
<1>3. ASSUME NEW v \in Versions, ClaimPurge(v)
      PROVE  row' \in [Versions -> Row]
  BY <1>0, <1>3 DEF ClaimPurge, Row
<1>4. CASE Cancel \/ Diff \/ Sweep \/ Lapse \/ GoStale \/ Damage
  BY <1>0, <1>4 DEF Cancel, Diff, Sweep, Lapse, GoStale, Damage, Kept
<1>5. CASE \E c \in ledger : SweepCatalog(c)
  BY <1>0, <1>5 DEF SweepCatalog
<1>6. CASE UNCHANGED vars
  BY <1>0, <1>6 DEF vars
<1>7. QED BY <1>1, <1>2, <1>3, <1>4, <1>5, <1>6 DEF Next

LEMMA DebrisTyped ==
    ASSUME Stored, NEW w \in Workers
    PROVE  Debris(w) \subseteq Objects /\ IsFiniteSet(Debris(w)) /\ IsFiniteSet(left \cup Debris(w))
<1>1. Debris(w) \subseteq bucket
  BY DEF Debris
<1>2. IsFiniteSet(bucket) /\ IsFiniteSet(left) /\ bucket \subseteq Objects
  BY DEF Stored
<1>3. IsFiniteSet(Debris(w))
  BY <1>1, <1>2, FS_Subset
<1>4. QED BY <1>1, <1>2, <1>3, FS_Union

\* The catalogs and the objects there are, and have been.
ObjectsOK ==
    /\ pointer \in Catalogs
    /\ bucket \subseteq Objects /\ ledger \subseteq Catalogs
    /\ left \subseteq Objects /\ lost \subseteq Objects
    /\ IsFiniteSet(bucket) /\ IsFiniteSet(ledger) /\ IsFiniteSet(left) /\ IsFiniteSet(lost)

LEMMA ObjectsKept == TypeOK /\ [Next]_vars => ObjectsOK'
<1> SUFFICES ASSUME TypeOK, [Next]_vars PROVE ObjectsOK'
  OBVIOUS
<1>0. ObjectsOK
  BY DEF TypeOK, Stored, ObjectsOK
<1>1. UNCHANGED <<pointer, bucket, ledger, left, lost>> => ObjectsOK'
  BY <1>0 DEF ObjectsOK
<1>2. ASSUME NEW w \in Workers,
             StartRun(w) \/ StartIngest(w) \/ StartOther(w) \/ LoadErrs(w)
      PROVE  ObjectsOK'
  BY <1>1, <1>2 DEF StartRun, StartIngest, StartOther, LoadErrs, Kept
<1>3. ASSUME NEW w \in Workers, left' \in {left, left \cup Debris(w)},
             UNCHANGED <<pointer, ledger, lost>>, bucket' \subseteq bucket
      PROVE  ObjectsOK'
  <2>1. IsFiniteSet(bucket')
    BY <1>0, <1>3, FS_Subset DEF ObjectsOK
  <2>2. QED BY <1>0, <1>3, <2>1, DebrisTyped DEF ObjectsOK, TypeOK
<1>4. ASSUME NEW w \in Workers, Crash(w) PROVE ObjectsOK'
  BY <1>3, <1>4 DEF Crash, Kept
<1>5. ASSUME NEW w \in Workers, WriterStep(w) PROVE ObjectsOK'
  <2>0. act[w].pc # "idle" => act[w].job \in Jobs
    BY DEF TypeOK, Working, Typed, JobFits
  <2>1. ASSUME NEW v \in Versions, bucket' = bucket \cup {File(act[w].gen, v, NewName)},
               UNCHANGED <<pointer, ledger, left, lost>>
        PROVE  ObjectsOK'
    <3> DEFINE f == File(act[w].gen, v, NewName)
    <3>1. f \in Files
      BY NewFile
    <3>2. bucket' = bucket \cup {f}
      BY <2>1
    <3> HIDE DEF f
    <3>3. bucket' \subseteq Objects /\ IsFiniteSet(bucket')
      BY <1>0, <3>1, <3>2, FS_AddElement DEF ObjectsOK, Objects
    <3>4. QED BY <1>0, <2>1, <3>3 DEF ObjectsOK
  <2>2. CASE Load(w)
    <3>1. act[w].job.v \in Versions
      BY <2>2, JobsTyped DEF Load, At, TypeOK, Working, Typed, JobFits
    <3>2. QED BY <1>1, <2>1, <2>2, <3>1 DEF Load, Loads
  <2>3. CASE Read(w)
    <3>1. Min(act[w].todo) \in Versions
      <4>1. act[w].todo # {} /\ act[w].todo \subseteq Versions /\ Versions \subseteq Nat
        BY <2>3 DEF Read, TypeOK, Working, Writer, Versions
      <4>2. QED BY <4>1, Least
    <3>2. QED BY <1>1, <2>1, <2>3, <3>1 DEF Read
  <2>4. CASE Publish(w)
    <3>1. Draft(w) \in Catalogs
      BY DraftIs
    <3>2. IsFiniteSet(bucket \cup {Draft(w)}) /\ IsFiniteSet(ledger \cup {Draft(w)})
      BY <1>0, FS_AddElement DEF ObjectsOK
    <3>3. /\ bucket' = bucket \cup {Draft(w)} /\ ledger' = ledger \cup {Draft(w)}
          /\ UNCHANGED <<pointer, left, lost>>
      BY <2>4 DEF Publish
    <3>4. QED BY <1>0, <3>1, <3>2, <3>3 DEF ObjectsOK, Objects
  <2>5. CASE Commit(w)
    <3>1. CASE Moves(w)
      <4>1. Draft(w) \in Catalogs
        BY DraftIs
      <4>2. IsFiniteSet(ledger \cup {pointer})
        BY <1>0, FS_AddElement DEF ObjectsOK
      <4>3. /\ ledger' = (ledger \cup ({pointer} \ {Nil})) \ {Draft(w)} /\ pointer' = Draft(w)
            /\ UNCHANGED <<bucket, left, lost>>
        BY <2>5, <3>1 DEF Moves, Commit
      <4>4. IsFiniteSet(ledger')
        BY <4>2, <4>3, FS_Subset
      <4>5. QED BY <1>0, <4>1, <4>3, <4>4 DEF ObjectsOK
    <3>2. CASE ~Moves(w)
      BY <1>1, <2>5, <3>2 DEF Commit
    <3>3. QED BY <3>1, <3>2
  <2>6. CASE Delete(w)
    <3>1. CASE left' = left \cap bucket'
      <4>1. /\ UNCHANGED <<pointer, ledger, lost>> /\ bucket' \subseteq bucket
        BY <2>6 DEF Delete
      <4>2. IsFiniteSet(left') /\ IsFiniteSet(bucket')
        BY <1>0, <3>1, <4>1, FS_Subset DEF ObjectsOK
      <4>3. QED BY <1>0, <3>1, <4>1, <4>2 DEF ObjectsOK
    <3>2. CASE left' # left \cap bucket'
      <4>1. /\ UNCHANGED <<pointer, ledger, lost>> /\ NotCleared(w)
            /\ \E kept \in act[w].doomed : bucket' = bucket \ (act[w].doomed \ {kept})
        BY <2>6, <3>2 DEF Delete
      <4>2. bucket' \subseteq bucket /\ left' \in {left, left \cup Debris(w)}
        BY <4>1 DEF NotCleared
      <4>3. QED BY <1>3, <4>1, <4>2
    <3>3. QED BY <3>1, <3>2
  <2>7. CASE Clear(w) \/ Recheck(w)
    BY <1>3, <2>7 DEF Clear, Recheck, NotCleared, Kept
  <2>8. CASE Ask(w) \/ Open(w) \/ List(w) \/ Decide(w) \/ ReadEnds(w) \/ Check(w) \/ Finish(w)
             \/ Release(w) \/ EndJob(w)
    BY <1>1, <2>8 DEF Ask, Open, List, Decide, ReadEnds, Check, Finish, Release, EndJob, Kept
  <2>9. QED BY <1>5, <2>2, <2>3, <2>4, <2>5, <2>6, <2>7, <2>8 DEF WriterStep
<1>6. ASSUME NEW v \in Versions, ClaimPurge(v) PROVE ObjectsOK'
  BY <1>1, <1>6 DEF ClaimPurge
<1>7. CASE Cancel \/ Diff \/ Sweep \/ Lapse \/ GoStale
  BY <1>1, <1>7 DEF Cancel, Diff, Sweep, Lapse, GoStale, Kept
<1>8. CASE Damage
  <2>1. PICK o \in bucket : /\ bucket' = bucket \ {o} /\ lost' = lost \cup {o}
                            /\ UNCHANGED <<pointer, ledger, left>>
    BY <1>8 DEF Damage
  <2>2. IsFiniteSet(bucket') /\ IsFiniteSet(lost')
    BY <1>0, <2>1, FS_Subset, FS_AddElement DEF ObjectsOK
  <2>3. QED BY <1>0, <2>1, <2>2 DEF ObjectsOK
<1>9. ASSUME NEW c \in ledger, SweepCatalog(c) PROVE ObjectsOK'
  <2>1. bucket' = bucket \ {c} /\ ledger' = ledger \ {c} /\ UNCHANGED <<pointer, left, lost>>
    BY <1>9 DEF SweepCatalog
  <2>2. IsFiniteSet(bucket') /\ IsFiniteSet(ledger')
    BY <1>0, <2>1, FS_Subset DEF ObjectsOK
  <2>3. QED BY <1>0, <2>1, <2>2 DEF ObjectsOK
<1>10. CASE UNCHANGED vars
  BY <1>1, <1>10 DEF vars
<1>11. QED BY <1>2, <1>4, <1>5, <1>6, <1>7, <1>8, <1>9, <1>10 DEF Next

\* The claim, the queue and the leases.
QueueOK ==
    /\ claim \in [by : Workers \cup {"free", "dead"}, idle : BOOLEAN]
    /\ leased \subseteq Versions
    /\ waiting \subseteq Jobs
    /\ faults \in Nat

LEMMA HandsTyped ==
    ASSUME Stored, NEW others \in SUBSET Versions, NEW v \in Due(others), Hands(v)
    PROVE  waiting' \subseteq Jobs /\ leased' \subseteq Versions
<1>1. v \in Versions
  BY DEF Due
<1>2. QED BY <1>1, JobsTyped DEF Stored, Hands

LEMMA QueueKept == TypeOK /\ [Next]_vars => QueueOK'
<1> SUFFICES ASSUME TypeOK, [Next]_vars PROVE QueueOK'
  OBVIOUS
<1>0. QueueOK /\ Outstanding \subseteq Versions
  BY DEF TypeOK, Stored, QueueOK, Outstanding
<1>1. \A k \in {"crash", "stall", "load", "read", "answer", "delete", "stop", "damage", "cancel",
                "rerun", "late", "badKey"} : Fault(k) => faults' \in Nat
  BY <1>0 DEF Fault, QueueOK
<1> DEFINE Claims == [by : Workers \cup {"free", "dead"}, idle : BOOLEAN]
<1>2. /\ \A w \in Workers : TakeClaim(w) => claim' \in Claims
      /\ Touch => claim' \in Claims
      /\ Free \in Claims
      /\ [claim EXCEPT !.by = "dead"] \in Claims
      /\ [claim EXCEPT !.idle = TRUE] \in Claims
  <2>1. claim \in Claims
    BY <1>0 DEF QueueOK
  <2>2. \A w \in Workers : TakeClaim(w) => claim' \in Claims
    BY DEF TakeClaim
  <2>3. Touch => claim' \in Claims
    BY <2>1 DEF Touch
  <2>4. Free \in Claims
    BY DEF Free
  <2>5. [claim EXCEPT !.by = "dead"] \in Claims /\ [claim EXCEPT !.idle = TRUE] \in Claims
    BY <2>1
  <2>6. QED BY <2>2, <2>3, <2>4, <2>5
<1>3. ASSUME NEW w \in Workers, StartRun(w) PROVE QueueOK'
  <2>1. UNCHANGED faults \/ Fault("badKey") \/ Fault("rerun")
    BY <1>3 DEF StartRun
  <2>2. TakeClaim(w) /\ UNCHANGED <<leased, waiting>>
    BY <1>3 DEF StartRun
  <2>3. QED BY <1>0, <1>1, <1>2, <2>1, <2>2 DEF QueueOK
<1>4. ASSUME NEW w \in Workers, StartIngest(w) \/ StartOther(w) PROVE QueueOK'
  <2>1. CASE StartIngest(w)
    <3>1. PICK j \in waiting : waiting' \in {waiting \ {j}, (waiting \ {j}) \cup {Rebuild}}
      BY <2>1 DEF StartIngest
    <3>2. UNCHANGED <<leased, faults>> /\ (TakeClaim(w) \/ UNCHANGED claim)
      BY <2>1 DEF StartIngest
    <3>3. QED BY <1>0, <1>2, <3>1, <3>2, JobsTyped DEF QueueOK
  <2>2. CASE StartOther(w)
    <3>1. waiting' \subseteq waiting /\ UNCHANGED <<leased, faults>> /\ TakeClaim(w)
      BY <2>2 DEF StartOther
    <3>2. QED BY <1>0, <1>2, <3>1 DEF QueueOK
  <2>3. QED BY <1>4, <2>1, <2>2
<1>5. ASSUME NEW w \in Workers, LoadErrs(w) PROVE QueueOK'
  BY <1>0, <1>1, <1>5 DEF LoadErrs, QueueOK
<1>6. ASSUME NEW w \in Workers, Crash(w) PROVE QueueOK'
  <2>1. act[w].job \in Jobs
    BY <1>6 DEF Crash, At, TypeOK, Working, Typed, JobFits
  <2>2. QED BY <1>0, <1>1, <1>2, <1>6, <2>1 DEF Crash, QueueOK
<1>7. ASSUME NEW w \in Workers, WriterStep(w) PROVE QueueOK'
  <2>0. act[w].pc # "idle" => act[w].job \in Jobs
    BY DEF TypeOK, Working, Typed, JobFits
  <2>1. \/ UNCHANGED faults \/ Fault("answer") \/ Fault("delete") \/ Fault("read")
    BY <1>7 DEF WriterStep, Ask, Open, Load, Publish, Commit, Clear, List, Recheck, Delete, Decide,
                Read, ReadEnds, Check, Finish, Release, EndJob
  <2>2. \/ UNCHANGED claim \/ Touch \/ claim' = Free
    BY <1>7 DEF WriterStep, Ask, Open, Load, Publish, Commit, Clear, List, Recheck, Delete, Decide,
                Read, ReadEnds, Check, Finish, Release, EndJob, Touched
  <2>3. waiting' \subseteq Jobs /\ leased' \subseteq Versions
    <3>1. CASE UNCHANGED <<waiting, leased>>
      BY <1>0, <3>1 DEF QueueOK
    <3>2. CASE waiting' = waiting \cup {Rebuild} /\ UNCHANGED leased
      BY <1>0, <3>2, JobsTyped DEF QueueOK
    <3>3. CASE Release(w)
      <4>1. act[w].job \in Jobs /\ UNCHANGED leased
            /\ waiting' \in {waiting, waiting \cup {Ingest(act[w].job.v)}}
            /\ (act[w].job.type = "run" \/ waiting' = waiting)
        BY <2>0, <3>3 DEF Release, At, On
      <4>2. QED BY <1>0, <4>1, JobsTyped DEF QueueOK
    <3>4. CASE EndJob(w)
      <4>1. act[w].job \in Jobs
        BY <2>0, <3>4 DEF EndJob, At
      <4>2. CASE waiting' = waiting \cup {act[w].job} /\ UNCHANGED leased
        BY <1>0, <4>1, <4>2 DEF QueueOK
      <4>3. CASE HandOn(act[w].job.v)
        <5>1. (Outstanding \ {act[w].job.v}) \in SUBSET Versions
          BY <1>0
        <5>2. QED BY <3>1, <4>3, <5>1, HandsTyped DEF HandOn, TypeOK
      <4>4. QED BY <3>1, <3>2, <3>4, <4>2, <4>3 DEF EndJob
    <3>5. UNCHANGED leased \/ EndJob(w)
      BY <1>7 DEF WriterStep, Ask, Open, Load, Publish, Commit, Clear, List, Recheck, Delete, Decide,
                Read, ReadEnds, Check, Finish, Release
    <3>6. CASE Clear(w) \/ Recheck(w) \/ Delete(w) \/ Ask(w)
      <4>1. UNCHANGED leased /\ waiting' \in {waiting, waiting \cup {Rebuild}}
        BY <3>6 DEF Clear, Recheck, Delete, Ask, NotCleared
      <4>2. QED BY <3>1, <3>2, <4>1
    <3>7. QED BY <1>7, <3>1, <3>3, <3>4, <3>5, <3>6 DEF WriterStep, Open, Load, Publish, Commit, List,
                Decide, Read, ReadEnds, Check, Finish
  <2>4. QED BY <1>0, <1>1, <1>2, <2>1, <2>2, <2>3 DEF QueueOK
<1>8. ASSUME NEW v \in Versions, ClaimPurge(v) PROVE QueueOK'
  BY <1>0, <1>8, JobsTyped DEF ClaimPurge, QueueOK
<1>9. CASE Cancel \/ Diff \/ Sweep \/ Lapse \/ GoStale \/ Damage
  <2>1. CASE Cancel
    BY <1>0, <1>1, <2>1 DEF Cancel, QueueOK, Free
  <2>2. CASE Diff
    BY <1>0, <2>2, JobsTyped DEF Diff, QueueOK
  <2>3. CASE Sweep
    <3>1. PICK v \in Due(Outstanding) : Hands(v)
      BY <2>3 DEF Sweep
    <3>2. QED BY <1>0, <2>3, <3>1, HandsTyped DEF Sweep, QueueOK, TypeOK
  <2>4. CASE Lapse \/ GoStale \/ Damage
    BY <1>0, <1>1, <2>4 DEF Lapse, GoStale, Damage, QueueOK
  <2>5. QED BY <1>9, <2>1, <2>2, <2>3, <2>4
<1>10. ASSUME NEW c \in ledger, SweepCatalog(c) PROVE QueueOK'
  BY <1>0, <1>10 DEF SweepCatalog, QueueOK
<1>11. CASE UNCHANGED vars
  BY <1>0, <1>11 DEF vars, QueueOK
<1>12. QED BY <1>3, <1>4, <1>5, <1>6, <1>7, <1>8, <1>9, <1>10, <1>11 DEF Next

LEMMA TypeOKNext == TypeOK /\ [Next]_vars => TypeOK'
BY RowKept, ObjectsKept, QueueKept, WorkingNext DEF TypeOK, Stored, ObjectsOK, QueueOK

\* Every variable of the lake keeps its type, what is named and stored stays
\* finite, and every worker is where its job may be.
THEOREM TypeCorrect == Spec => []TypeOK
BY TypeOKInit, TypeOKNext, PTL DEF Spec

-----------------------------------------------------------------------------
(* Who moves what *)

Turn(w) ==
    StartRun(w) \/ StartIngest(w) \/ StartOther(w) \/ WriterStep(w) \/ LoadErrs(w) \/ Crash(w)

\* A worker is moved by itself only.
LEMMA WhoMoves ==
    ASSUME TypeOK, [Next]_vars, NEW u \in Workers, act'[u] # act[u]
    PROVE  Turn(u)
<1>1. ASSUME NEW w \in Workers, Turn(w), w # u
      PROVE  FALSE
  <2>1. PICK a : Set(w, a) \/ act' = act
    BY <1>1 DEF Turn, StartRun, StartIngest, StartOther, WriterStep, LoadErrs, Crash, Ask, Open, Load,
                Loads, Publish, Commit, Clear, List, Recheck, Delete, Decide, Read, ReadEnds, Check,
                Finish, Release, EndJob, Over, Aborts, Cleared, NotCleared, Refuse, Ends, Goto
  <2>2. QED BY <1>1, <2>1 DEF Set, TypeOK, Working
<1>2. ASSUME NEW w \in Workers, Turn(w) PROVE Turn(u)
  BY <1>1, <1>2
<1>3. CASE \E v \in Versions : ClaimPurge(v)
  BY <1>3 DEF ClaimPurge
<1>4. CASE Cancel \/ Diff \/ Sweep \/ Lapse \/ GoStale \/ Damage
  BY <1>4 DEF Cancel, Diff, Sweep, Lapse, GoStale, Damage
<1>5. CASE \E c \in ledger : SweepCatalog(c)
  BY <1>5 DEF SweepCatalog
<1>6. CASE UNCHANGED vars
  BY <1>6 DEF vars
<1>7. QED BY <1>2, <1>3, <1>4, <1>5, <1>6 DEF Next, Turn

\* Where each step leads.
LEMMA Leads ==
    ASSUME TypeOK, NEW w \in Workers
    PROVE  LET pc == act'[w].pc IN
           /\ StartRun(w) => pc = "ask"
           /\ StartIngest(w) => pc \in {"idle", "chain", "ask"}
           /\ StartOther(w) => pc \in {"decide", "check"}
           /\ Ask(w) => pc \in {"open", "release"}
           /\ Open(w) => pc \in {"load", "release"}
           /\ Load(w) => pc \in {"publish", "release"}
           /\ LoadErrs(w) => pc = "clear"
           /\ Publish(w) => pc = "commit"
           /\ Commit(w) => pc = "clear"
           /\ Clear(w) => pc \in {"list", "release"}
           /\ List(w) => pc \in {"finish", "recheck", "release"}
           /\ Recheck(w) => pc \in {"delete", "release"}
           /\ Delete(w) => pc \in {"finish", "release"}
           /\ Decide(w) => pc \in {"read", "clear"}
           /\ Read(w) => pc \in {"read", "clear"}
           /\ ReadEnds(w) => pc \in {"clear", "publish", "commit"}
           /\ Check(w) => pc \in {"read", "clear", "release"}
           /\ Finish(w) => pc = "release"
           /\ Release(w) => pc \in {"idle", "chain"}
           /\ EndJob(w) => pc = "idle"
           /\ Crash(w) => pc = "idle"
<1>1. act[w] \in Writer /\ act \in [Workers -> Writer] /\ Idle \in Writer /\ Idle.pc = "idle"
  BY IdleTyped DEF TypeOK, Working, Typed
<1>2. \A a : Set(w, a) => act'[w] = a
  BY <1>1 DEF Set
<1>3. /\ \A pc : Goto(w, pc) => act'[w].pc = pc
      /\ \A out : Over(w, out) => act'[w].pc = "release"
      /\ Aborts(w) => act'[w].pc = "clear"
      /\ Ends(w) => act'[w].pc = "idle"
      /\ NotCleared(w) => act'[w].pc = "release"
      /\ Cleared(w) => act'[w].pc \in {"finish", "release"}
      /\ \A v, why : Refuse(w, v, why) => act'[w].pc = act[w].pc
  <2>1. \A pc : Goto(w, pc) => act'[w].pc = pc
    BY <1>1, <1>2 DEF Goto, Writer
  <2>2. \A out : Over(w, out) => act'[w].pc = "release"
    BY <1>1, <1>2 DEF Over, Writer
  <2>3. Aborts(w) => act'[w].pc = "clear"
    BY <1>1, <1>2 DEF Aborts, Writer
  <2>4. Ends(w) => act'[w].pc = "idle"
    BY <1>1, <1>2 DEF Ends
  <2>5. NotCleared(w) => act'[w].pc = "release"
    BY <2>2 DEF NotCleared
  <2>6. Cleared(w) => act'[w].pc \in {"finish", "release"}
    BY <1>1, <1>2, <2>2 DEF Cleared, Writer
  <2>7. \A v, why : Refuse(w, v, why) => act'[w].pc = act[w].pc
    BY <1>1, <1>2 DEF Refuse, Writer
  <2>8. QED BY <2>1, <2>2, <2>3, <2>4, <2>5, <2>6, <2>7
<1>4. StartRun(w) => act'[w].pc = "ask"
  BY <1>1, <1>2 DEF StartRun, Writer
<1>5. StartIngest(w) => act'[w].pc \in {"idle", "chain", "ask"}
  BY <1>1, <1>2 DEF StartIngest, Writer, At
<1>6. StartOther(w) => act'[w].pc \in {"decide", "check"}
  BY <1>1, <1>2 DEF StartOther, Writer
<1>7. Ask(w) => act'[w].pc \in {"open", "release"}
  BY <1>3 DEF Ask
<1>8. Open(w) => act'[w].pc \in {"load", "release"}
  BY <1>1, <1>2, <1>3 DEF Open, Writer
<1>9. Load(w) => act'[w].pc \in {"publish", "release"}
  BY <1>1, <1>2, <1>3 DEF Load, Loads, Writer
<1>10. LoadErrs(w) => act'[w].pc = "clear"
  BY <1>1, <1>2, <1>3 DEF LoadErrs, Writer
<1>11. Publish(w) => act'[w].pc = "commit"
  BY <1>3 DEF Publish
<1>12. Commit(w) => act'[w].pc = "clear"
  BY <1>1, <1>2, <1>3 DEF Commit, Writer
<1>13. Clear(w) => act'[w].pc \in {"list", "release"}
  BY <1>1, <1>2, <1>3 DEF Clear, Writer
<1>14. List(w) => act'[w].pc \in {"finish", "recheck", "release"}
  BY <1>1, <1>2, <1>3 DEF List, Writer
<1>15. Recheck(w) => act'[w].pc \in {"delete", "release"}
  BY <1>3 DEF Recheck
<1>16. Delete(w) => act'[w].pc \in {"finish", "release"}
  BY <1>3 DEF Delete
<1>17. Rebuilds(w).pc = "read"
  BY <1>1 DEF Rebuilds, Writer
<1>18. Decide(w) => act'[w].pc \in {"read", "clear"}
  BY <1>1, <1>2, <1>17 DEF Decide, Writer
<1>19. Read(w) => act'[w].pc \in {"read", "clear"}
  BY <1>1, <1>2, <1>3 DEF Read, Writer, At
<1>20. ReadEnds(w) => act'[w].pc \in {"clear", "publish", "commit"}
  BY <1>3 DEF ReadEnds
<1>21. Check(w) => act'[w].pc \in {"read", "clear", "release"}
  BY <1>1, <1>2, <1>17 DEF Check, Writer
<1>22. Finish(w) => act'[w].pc = "release"
  BY <1>3 DEF Finish
<1>23. Release(w) => act'[w].pc \in {"idle", "chain"}
  BY <1>3 DEF Release
<1>24. (EndJob(w) => act'[w].pc = "idle") /\ (Crash(w) => act'[w].pc = "idle")
  BY <1>3 DEF EndJob, Crash
<1>25. QED BY <1>4, <1>5, <1>6, <1>7, <1>8, <1>9, <1>10, <1>11, <1>12, <1>13, <1>14, <1>15, <1>16,
              <1>18, <1>19, <1>20, <1>21, <1>22, <1>23, <1>24

\* And where a worker that has moved comes from.
LEMMA Arrivals ==
    ASSUME TypeOK, NEW w \in Workers, Turn(w)
    PROVE  LET pc == act'[w].pc IN
           /\ pc = "ask" => StartRun(w) \/ StartIngest(w)
           /\ pc = "open" => Ask(w)
           /\ pc = "load" => Open(w)
           /\ pc = "publish" => Load(w) \/ ReadEnds(w)
           /\ pc = "commit" => Publish(w) \/ ReadEnds(w)
           /\ pc = "clear" => LoadErrs(w) \/ Commit(w) \/ Decide(w) \/ Read(w) \/ ReadEnds(w) \/ Check(w)
           /\ pc = "list" => Clear(w)
           /\ pc = "recheck" => List(w)
           /\ pc = "delete" => Recheck(w)
           /\ pc = "finish" => List(w) \/ Delete(w)
           /\ pc \in {"decide", "check"} => StartOther(w)
           /\ pc = "read" => Decide(w) \/ Read(w) \/ Check(w)
BY Leads DEF Turn, WriterStep

\* A worker keeps its job until it is through with it.
LEMMA JobStays ==
    ASSUME TypeOK, NEW w \in Workers, Turn(w)
    PROVE  \/ act'[w].job = act[w].job
           \/ act'[w].job = NoJob
           \/ act[w].pc = "idle"
<1>1. act[w] \in Writer /\ act \in [Workers -> Writer] /\ Idle \in Writer /\ Idle.job = NoJob
  BY IdleTyped DEF TypeOK, Working, Typed
<1>2. \A a : Set(w, a) => act'[w] = a
  BY <1>1 DEF Set
<1> DEFINE Kp == act'[w].job = act[w].job
<1>3. /\ \A pc : Goto(w, pc) => Kp
      /\ \A out : Over(w, out) => Kp
      /\ Aborts(w) => Kp
      /\ Ends(w) => act'[w].job = NoJob
      /\ NotCleared(w) => Kp
      /\ Cleared(w) => Kp
      /\ \A v, why : Refuse(w, v, why) => Kp
  <2>1. \A pc : Goto(w, pc) => Kp
    BY <1>1, <1>2 DEF Goto, Writer
  <2>2. \A out : Over(w, out) => Kp
    BY <1>1, <1>2 DEF Over, Writer
  <2>3. Aborts(w) => Kp
    BY <1>1, <1>2 DEF Aborts, Writer
  <2>4. Ends(w) => act'[w].job = NoJob
    BY <1>1, <1>2 DEF Ends
  <2>5. NotCleared(w) => Kp
    BY <2>2 DEF NotCleared
  <2>6. Cleared(w) => Kp
    BY <1>1, <1>2, <2>2 DEF Cleared, Writer
  <2>7. \A v, why : Refuse(w, v, why) => Kp
    BY <1>1, <1>2 DEF Refuse, Writer
  <2>8. QED BY <2>1, <2>2, <2>3, <2>4, <2>5, <2>6, <2>7
<1>4. CASE StartRun(w) \/ StartIngest(w) \/ StartOther(w)
  BY <1>4 DEF StartRun, StartIngest, StartOther, At
<1>5. CASE Ask(w) \/ Open(w) \/ Load(w) \/ LoadErrs(w) \/ Publish(w) \/ Commit(w)
  <2>1. CASE Ask(w) \/ Publish(w)
    BY <1>3, <2>1 DEF Ask, Publish
  <2>2. CASE Open(w)
    <3>1. CASE ~Over(w, "failed")
      <4>1. act'[w] = [act[w] EXCEPT !.pc = "load", !.from = pointer, !.known = pointer,
                          !.draft = pointer.reads,
                          !.gen = IF pointer = Nil THEN NewGeneration ELSE pointer.gen]
        BY <1>2, <2>2, <3>1 DEF Open
      <4>2. QED BY <1>1, <4>1 DEF Writer
    <3>2. QED BY <1>3, <3>1
  <2>3. CASE Load(w)
    <3>1. CASE ~Goto(w, "release")
      <4>1. PICK f : act'[w] = [act[w] EXCEPT !.draft = Append(@, f), !.pc = "publish"]
        BY <1>2, <2>3, <3>1 DEF Load, Loads
      <4>2. QED BY <1>1, <4>1 DEF Writer
    <3>2. QED BY <1>3, <3>1
  <2>4. CASE LoadErrs(w)
    <3>1. CASE ~Aborts(w)
      <4>1. act'[w] = [act[w] EXCEPT !.pc = "clear", !.out = "stopped"]
        BY <1>2, <2>4, <3>1 DEF LoadErrs
      <4>2. QED BY <1>1, <4>1 DEF Writer
    <3>2. QED BY <1>3, <3>1
  <2>5. CASE Commit(w)
    <3>1. CASE ~Aborts(w)
      <4>1. PICK known : act'[w] = [act[w] EXCEPT !.pc = "clear", !.out = "done", !.refused = {},
                                                  !.known = known]
        BY <1>2, <2>5, <3>1 DEF Commit
      <4>2. QED BY <1>1, <4>1 DEF Writer
    <3>2. QED BY <1>3, <3>1
  <2>6. QED BY <1>5, <2>1, <2>2, <2>3, <2>4, <2>5
<1>6. CASE Clear(w) \/ List(w) \/ Recheck(w) \/ Delete(w)
  BY <1>1, <1>2, <1>3, <1>6 DEF Clear, List, Recheck, Delete, Writer
<1>7. CASE Decide(w) \/ Read(w) \/ ReadEnds(w) \/ Check(w)
  <2>1. Rebuilds(w).job = act[w].job
    BY <1>1 DEF Rebuilds, Writer
  <2>2. QED BY <1>1, <1>2, <1>3, <1>7, <2>1 DEF Decide, Read, ReadEnds, Check, Writer
<1>8. CASE Finish(w) \/ Release(w) \/ EndJob(w) \/ Crash(w)
  BY <1>3, <1>8 DEF Finish, Release, EndJob, Crash
<1>9. QED BY <1>4, <1>5, <1>6, <1>7, <1>8 DEF Turn, WriterStep

\* The rows: what is filed stays filed, what is being purged is never active again,
\* and only a commit gives a snapshot.
LEMMA RowsMove ==
    ASSUME TypeOK, [Next]_vars, NEW v \in Versions
    PROVE  /\ row[v].state # "none" => row'[v].state # "none"
           /\ row[v].state \in {"purging", "purged"} => row'[v].state \in {"purging", "purged"}
           /\ \/ row'[v].snap = row[v].snap
              \/ \E w \in Workers : Commit(w) /\ Moves(w)
              \/ \E w \in Workers : Finish(w) /\ act[w].job.v = v /\ row'[v].snap = 0
                                      /\ row'[v].state = "purged"
<1> DEFINE S == row[v].state
           T == row'[v].state
           Rows == /\ S # "none" => T # "none"
                   /\ S \in {"purging", "purged"} => T \in {"purging", "purged"}
           Same == Rows /\ row'[v].snap = row[v].snap
<1>0. row \in [Versions -> Row]
  BY DEF TypeOK, Stored
<1>1. UNCHANGED row => Same
  OBVIOUS
<1>2. ASSUME NEW w \in Workers,
             StartRun(w) \/ StartIngest(w) \/ StartOther(w) \/ LoadErrs(w) \/ Crash(w)
      PROVE  Same
  <2>1. CASE StartRun(w)
    <3>1. PICK u \in Versions :
             \/ row' = row
             \/ row' = [row EXCEPT ![u].state = "active"] /\ row[u].state = "none"
             \/ row' = [row EXCEPT ![u].state = "active", ![u].kind = "badKey"] /\ row[u].state = "none"
      BY <2>1 DEF StartRun
    <3>2. QED BY <1>0, <3>1 DEF Row
  <2>2. CASE ~StartRun(w)
    BY <1>1, <1>2, <2>2 DEF StartIngest, StartOther, LoadErrs, Crash, Kept
  <2>3. QED BY <2>1, <2>2
<1>3. ASSUME NEW w \in Workers, WriterStep(w)
      PROVE  \/ Same
             \/ Rows /\ Commit(w) /\ Moves(w)
             \/ Rows /\ Finish(w) /\ act[w].job.v = v /\ row'[v].snap = 0 /\ row'[v].state = "purged"
  <2>1. CASE Load(w)
    <3>1. row' = row \/ row' = [row EXCEPT ![act[w].job.v].refused = TRUE]
      BY <2>1 DEF Load, Loads
    <3>2. QED BY <1>0, <3>1 DEF Row
  <2>2. CASE Commit(w)
    <3>1. CASE Moves(w)
      BY <2>2, <3>1, RecordedIs DEF Moves
    <3>2. CASE ~Moves(w)
      BY <1>1, <2>2, <3>2 DEF Commit
    <3>3. QED BY <3>1, <3>2
  <2>3. CASE Finish(w)
    <3>1. row' = [row EXCEPT ![act[w].job.v].state = "purged", ![act[w].job.v].snap = 0]
      BY <2>3 DEF Finish
    <3>2. QED BY <1>0, <2>3, <3>1 DEF Row
  <2>4. CASE EndJob(w)
    <3>1. PICK u \in {act[w].job.v} : row' = row \/ Failed(u)
      BY <2>4 DEF EndJob
    <3>2. CASE Failed(u) /\ row' # row
      <4>1. PICK counted \in BOOLEAN :
               LET n == row[u].failures + IF counted THEN 1 ELSE 0
               IN  row' = [row EXCEPT ![u].failures = n, ![u].refused = n >= FailureLimit]
        BY <3>2 DEF Failed
      <4> DEFINE n == row[u].failures + IF counted THEN 1 ELSE 0
      <4>2. row' = [row EXCEPT ![u].failures = n, ![u].refused = n >= FailureLimit]
        BY <4>1
      <4> HIDE DEF n
      <4>3. QED BY <1>0, <4>2 DEF Row
    <3>3. QED BY <1>1, <3>1, <3>2
  <2>5. CASE UNCHANGED row
    BY <1>1, <2>5
  <2>6. QED BY <1>3, <2>1, <2>2, <2>3, <2>4, <2>5 DEF WriterStep, Ask, Open, Publish, Clear, List,
                 Recheck, Delete, Decide, Read, ReadEnds, Check, Release, Kept
<1>4. ASSUME NEW u \in Versions, ClaimPurge(u)
      PROVE  Same
  <2>1. row' = [row EXCEPT ![u].state = "purging"] /\ row[u].state = "active"
    BY <1>4 DEF ClaimPurge
  <2>2. QED BY <1>0, <2>1 DEF Row
<1>5. CASE Cancel \/ Diff \/ Sweep \/ Lapse \/ GoStale \/ Damage
  BY <1>1, <1>5 DEF Cancel, Diff, Sweep, Lapse, GoStale, Damage, Kept
<1>6. CASE \E c \in ledger : SweepCatalog(c)
  BY <1>1, <1>6 DEF SweepCatalog
<1>7. CASE UNCHANGED vars
  BY <1>1, <1>7 DEF vars
<1>8. QED BY <1>2, <1>3, <1>4, <1>5, <1>6, <1>7 DEF Next

\* The pointer is moved by commits only.
LEMMA PointerMoves ==
    ASSUME TypeOK, [Next]_vars, pointer' # pointer
    PROVE  \E w \in Workers : Commit(w) /\ Moves(w)
<1>1. ASSUME NEW w \in Workers, WriterStep(w)
      PROVE  Commit(w) /\ Moves(w)
  BY <1>1 DEF WriterStep, Ask, Open, Load, Publish, Commit, Clear, List, Recheck, Delete, Decide, Read,
              ReadEnds, Check, Finish, Release, EndJob, Kept
<1>2. ASSUME NEW w \in Workers,
             StartRun(w) \/ StartIngest(w) \/ StartOther(w) \/ LoadErrs(w) \/ Crash(w)
      PROVE  FALSE
  BY <1>2 DEF StartRun, StartIngest, StartOther, LoadErrs, Crash, Kept
<1>3. ~(Cancel \/ Diff \/ Sweep \/ Lapse \/ GoStale \/ Damage)
  BY DEF Cancel, Diff, Sweep, Lapse, GoStale, Damage, Kept
<1>4. \A v \in Versions : ~ClaimPurge(v)
  BY DEF ClaimPurge
<1>5. \A c \in ledger : ~SweepCatalog(c)
  BY DEF SweepCatalog
<1>6. QED BY <1>1, <1>2, <1>3, <1>4, <1>5 DEF Next, vars

\* The claim is had by starting a job only.
LEMMA ClaimMoves ==
    ASSUME TypeOK, [Next]_vars, NEW u \in Workers, Held(u)', ~Held(u)
    PROVE  /\ StartRun(u) \/ StartIngest(u) \/ StartOther(u)
           /\ act[u].pc = "idle" /\ claim'.by = u
<1>0. claim'.by = u /\ claim.by # u /\ u # "free" /\ u # "dead"
      /\ claim \in [by : Workers \cup {"free", "dead"}, idle : BOOLEAN]
  BY WorkersAssumption DEF Held, TypeOK, Stored
<1>1. ~UNCHANGED claim /\ ~Touch /\ claim' # Free /\ claim' # [claim EXCEPT !.by = "dead"]
      /\ claim' # [claim EXCEPT !.idle = TRUE]
  BY <1>0 DEF Touch, Free
<1>2. \A w \in Workers : TakeClaim(w) => w = u
  BY <1>0 DEF TakeClaim
<1>3. ASSUME NEW w \in Workers, WriterStep(w) PROVE FALSE
  BY <1>1, <1>3 DEF WriterStep, Ask, Open, Load, Publish, Commit, Clear, List, Recheck, Delete, Decide,
              Read, ReadEnds, Check, Finish, Release, EndJob, Touched
<1>4. ASSUME NEW w \in Workers, LoadErrs(w) \/ Crash(w) PROVE FALSE
  BY <1>1, <1>4 DEF LoadErrs, Crash
<1>5. ASSUME NEW w \in Workers, StartRun(w) \/ StartIngest(w) \/ StartOther(w)
      PROVE  w = u /\ act[w].pc = "idle"
  BY <1>1, <1>2, <1>5 DEF StartRun, StartIngest, StartOther, At
<1>6. ~(Cancel \/ Diff \/ Sweep \/ Lapse \/ GoStale \/ Damage)
  BY <1>1 DEF Cancel, Diff, Sweep, Lapse, GoStale, Damage
<1>7. \A v \in Versions : ~ClaimPurge(v)
  BY <1>1 DEF ClaimPurge
<1>8. \A c \in ledger : ~SweepCatalog(c)
  BY <1>1 DEF SweepCatalog
<1>9. QED BY <1>0, <1>1, <1>3, <1>4, <1>5, <1>6, <1>7, <1>8 DEF Next, vars

\* One worker has the claim.
LEMMA OneHolds ==
    ASSUME NEW u \in Workers, NEW w \in Workers, Held(u), Held(w)
    PROVE  u = w
BY DEF Held

-----------------------------------------------------------------------------
(* What a worker has in its hands *)

Of(d) == {d[i].of : i \in DOMAIN d}
OneGen(g, d) == \A i \in DOMAIN d : d[i].gen = g

\* A load appends one file to the catalog it started from.
LoadShape(w) ==
    LET a == act[w] IN
    Ingests(w) =>
       /\ a.pc = "load" => a.draft = a.from.reads
       /\ a.pc \in {"publish", "commit"} =>
             \E f \in Files : f.of = a.job.v /\ a.draft = Append(a.from.reads, f)

\* A rebuild reads one version after another, in their order.
RebuildShape(w) ==
    LET a == act[w] d == act[w].draft IN
    ~Ingests(w) =>
       /\ a.pc \in {"decide", "check"} => d = <<>>
       /\ a.pc \in {"read", "publish", "commit"} =>
             /\ \A i, j \in DOMAIN d : i < j => d[i].of < d[j].of
             /\ \A i \in DOMAIN d, v \in a.todo : d[i].of < v

\* What is loaded is of the generation it is loaded into.
GenShape(w) ==
    act[w].pc \in {"load", "read", "publish", "commit"} => OneGen(act[w].gen, act[w].draft)

\* What is deleted was left over when it was listed; the catalog a writer knows is
\* the one it compared with.
ClearShape(w) ==
    LET a == act[w] IN
    /\ a.pc \in {"list", "recheck", "delete"} => (a.known # Nil => a.known = a.from)
    /\ a.pc \in {"recheck", "delete"} => \A o \in a.doomed : Leftover(w, o)

Shapes ==
    /\ OneGen(pointer.gen, pointer.reads)
    /\ \A w \in Workers : LoadShape(w) /\ RebuildShape(w) /\ GenShape(w) /\ ClearShape(w)

LEMMA LoadShapeKept ==
    ASSUME TypeOK, NEW w \in Workers, Turn(w), LoadShape(w)
    PROVE  LoadShape(w)'
<1>0. /\ act[w] \in Writer /\ act \in [Workers -> Writer] /\ JobFits(act[w]) /\ pointer \in Catalogs
      /\ \A a : Set(w, a) => act'[w] = a
  BY DEF TypeOK, Working, Typed, Stored, Set
<1>1. CASE act'[w].pc = "load"
  <2>1. Open(w)
    BY <1>1, Arrivals
  <2>2. ~Over(w, "failed")
    BY <1>0, <1>1, IdleTyped DEF Over, Typed, Writer
  <2>3. act'[w].from = pointer /\ act'[w].draft = pointer.reads
    BY <1>0, <2>1, <2>2 DEF Open, Writer
  <2>4. QED BY <1>1, <2>3 DEF LoadShape
<1>2. ASSUME ReadEnds(w) PROVE ~Ingests(w)'
  <2>1. act[w].pc = "read" /\ act'[w].job = act[w].job
    <3>1. act[w].pc = "read" /\ (Aborts(w) \/ \E pc \in Pcs : Goto(w, pc))
      BY <1>2 DEF ReadEnds, At, Pcs
    <3>2. QED BY <1>0, <3>1 DEF Aborts, Goto, Writer
  <2>2. QED BY <1>0, <2>1 DEF Ingests, On, JobFits
<1>3. CASE Load(w) /\ act'[w].pc = "publish"
  <2> DEFINE f == File(act[w].gen, act[w].job.v, NewName)
  <2>1. act[w].pc = "load" /\ act[w].job.v \in Versions /\ Ingests(w)
    BY <1>0, <1>3, JobsTyped DEF Load, At, JobFits, Ingests, On
  <2>2. f \in Files /\ f.of = act[w].job.v
    BY <2>1, NewFile
  <2>3. Set(w, [act[w] EXCEPT !.draft = Append(@, f), !.pc = "publish"])
    BY <1>0, <1>3 DEF Load, Loads, Goto, Writer
  <2> HIDE DEF f
  <2>4. /\ act'[w].draft = Append(act[w].draft, f) /\ act'[w].from = act[w].from
        /\ act'[w].job = act[w].job
    BY <1>0, <2>3 DEF Writer
  <2>5. act[w].draft = act[w].from.reads
    BY <2>1 DEF LoadShape
  <2>6. QED BY <1>3, <2>2, <2>4, <2>5 DEF LoadShape
<1>4. CASE Publish(w)
  <2>1. /\ act[w].pc = "publish" /\ act'[w].draft = act[w].draft /\ act'[w].from = act[w].from
        /\ act'[w].job = act[w].job /\ act'[w].pc = "commit"
    BY <1>0, <1>4 DEF Publish, At, Goto, Writer
  <2>2. QED BY <2>1 DEF LoadShape, Ingests, On
<1>5. CASE act'[w].pc \in {"publish", "commit"}
  <2>1. Load(w) \/ ReadEnds(w) \/ Publish(w)
    BY <1>5, Arrivals
  <2>2. CASE ReadEnds(w)
    BY <1>2, <2>2 DEF LoadShape
  <2>3. CASE Load(w)
    BY <1>3, <1>5, <2>3, Leads
  <2>4. QED BY <1>4, <2>1, <2>2, <2>3
<1>6. CASE act'[w].pc \notin {"load", "publish", "commit"}
  BY <1>6 DEF LoadShape
<1>7. QED BY <1>1, <1>5, <1>6

LEMMA RebuildShapeKept ==
    ASSUME TypeOK, NEW w \in Workers, Turn(w), RebuildShape(w)
    PROVE  RebuildShape(w)'
<1> DEFINE d == act[w].draft
           e == act'[w].draft
<1>0. /\ act[w] \in Writer /\ act \in [Workers -> Writer] /\ JobFits(act[w])
      /\ \A a : Set(w, a) => act'[w] = a
      /\ d \in Seq(Files) /\ act[w].todo \subseteq Versions /\ Versions \subseteq Nat
      /\ Idle \in Writer
  BY IdleTyped DEF TypeOK, Working, Typed, Set, Writer, Versions
<1>1. ASSUME e = <<>> PROVE RebuildShape(w)'
  <2>1. DOMAIN <<>> = {}
    BY EmptySeq
  <2>2. QED BY <1>1, <2>1 DEF RebuildShape
<1>2. CASE act'[w].pc \in {"decide", "check"}
  <2>1. StartOther(w)
    BY <1>2, Arrivals
  <2>2. e = <<>>
    <3>1. PICK pc, j : act'[w] = [Idle EXCEPT !.pc = pc, !.job = j]
      BY <1>0, <2>1 DEF StartOther
    <3>2. Idle \in Writer /\ Idle.draft = <<>>
      BY IdleTyped DEF Typed
    <3>3. QED BY <3>1, <3>2 DEF Writer
  <2>3. QED BY <1>1, <2>2
<1>3. CASE act'[w].pc = "read"
  <2>1. CASE Decide(w) \/ Check(w)
    <3>1. act[w].pc \in {"decide", "check"} /\ ~Ingests(w)
      BY <1>0, <2>1 DEF Decide, Check, At, JobFits, Ingests, On
    <3>2. d = <<>>
      BY <3>1 DEF RebuildShape
    <3>3. e = d
      BY <1>0, <2>1, <1>3 DEF Decide, Check, Rebuilds, Writer
    <3>4. QED BY <1>1, <3>2, <3>3
  <2>2. CASE Read(w)
    <3> DEFINE v == Min(act[w].todo)
               f == File(act[w].gen, v, NewName)
    <3>1. /\ act[w].pc = "read" /\ ~Ingests(w) /\ act[w].todo # {}
      BY <1>0, <2>2 DEF Read, At, JobFits, Ingests, On
    <3>2. v \in act[w].todo /\ \A u \in act[w].todo : v <= u
      BY <1>0, <3>1, Least
    <3>3. /\ \A i, j \in DOMAIN d : i < j => d[i].of < d[j].of
          /\ \A i \in DOMAIN d, u \in act[w].todo : d[i].of < u
      BY <3>1 DEF RebuildShape
    <3>4. CASE \E why : Refuse(w, v, why)
      <4>1. e = d /\ act'[w].todo = act[w].todo \ {v}
        BY <1>0, <3>4 DEF Refuse, Writer
      <4>2. QED BY <3>3, <4>1, <1>3 DEF RebuildShape
    <3>5. CASE Set(w, [act[w] EXCEPT !.draft = Append(@, f), !.todo = @ \ {v}])
      <4>1. e = Append(d, f) /\ act'[w].todo = act[w].todo \ {v}
        BY <1>0, <3>5 DEF Writer
      <4>2. f \in Files /\ f.of = v
        BY <1>0, <3>2, NewFile
      <4> HIDE DEF f, v
      <4>3. /\ Len(e) = Len(d) + 1 /\ DOMAIN e = 1..Len(e) /\ DOMAIN d = 1..Len(d) /\ Len(d) \in Nat
            /\ \A i \in DOMAIN d : i \in DOMAIN e /\ e[i] = d[i]
            /\ e[Len(e)] = f
        BY <1>0, <4>1, <4>2, Appended
      <4>4. ASSUME NEW i \in DOMAIN e, NEW j \in DOMAIN e, i < j PROVE e[i].of < e[j].of
        <5>1. i \in DOMAIN d /\ e[i] = d[i]
          BY <4>3, <4>4
        <5>2. CASE j \in DOMAIN d
          BY <3>3, <4>3, <4>4, <5>1, <5>2
        <5>3. CASE j = Len(e)
          BY <3>2, <3>3, <4>2, <4>3, <5>1, <5>3
        <5>4. QED BY <4>3, <5>2, <5>3
      <4>5. ASSUME NEW i \in DOMAIN e, NEW u \in act[w].todo \ {v} PROVE e[i].of < u
        <5>1. v < u
          <6>1. u \in Nat /\ v \in Nat /\ v <= u /\ u # v
            BY <1>0, <3>2, <4>5
          <6>2. QED BY <6>1
        <5>2. CASE i \in DOMAIN d
          BY <3>3, <4>3, <5>2
        <5>3. CASE i = Len(e)
          BY <4>2, <4>3, <5>1, <5>3
        <5>4. i \in DOMAIN d \/ i = Len(e)
          BY <4>3
        <5>5. QED BY <5>2, <5>3, <5>4
      <4>6. QED BY <1>3, <4>1, <4>4, <4>5 DEF RebuildShape
    <3>6. ~Aborts(w)
      BY <1>0, <1>3 DEF Aborts, Writer
    <3>7. QED BY <2>2, <3>4, <3>5, <3>6 DEF Read
  <2>3. QED BY <1>3, <2>1, <2>2, Arrivals
<1>4. CASE act'[w].pc \in {"publish", "commit"}
  <2>1. Load(w) \/ ReadEnds(w) \/ Publish(w)
    BY <1>4, Arrivals
  <2>2. CASE Load(w)
    <3>1. act[w].pc # "idle" /\ act'[w].job = act[w].job
      <4>1. act[w].pc = "load"
        BY <2>2 DEF Load, At
      <4>2. act'[w].job \in {act[w].job, NoJob}
        BY <4>1, JobStays
      <4>3. act'[w].pc # "idle"
        BY <1>4
      <4>4. act'[w].job = act[w].job
        BY <1>0, <2>2 DEF Load, Loads, Goto, Writer
      <4>5. QED BY <4>1, <4>4
    <3>2. Ingests(w)'
      BY <1>0, <2>2, <3>1 DEF Load, At, JobFits, Ingests, On
    <3>3. QED BY <3>2 DEF RebuildShape
  <2>3. CASE ReadEnds(w) \/ Publish(w)
    <3>1. /\ act[w].pc \in {"read", "publish"} /\ e = d /\ act'[w].todo = act[w].todo
          /\ act'[w].job = act[w].job
      BY <1>0, <1>4, <2>3 DEF ReadEnds, Publish, Goto, At, Aborts, Writer
    <3>2. Ingests(w)' = Ingests(w)
      BY <3>1 DEF Ingests, On
    <3>3. CASE Ingests(w)
      BY <3>2, <3>3 DEF RebuildShape
    <3>4. CASE ~Ingests(w)
      <4>1. /\ \A i, j \in DOMAIN d : i < j => d[i].of < d[j].of
            /\ \A i \in DOMAIN d, v \in act[w].todo : d[i].of < v
        BY <3>1, <3>4 DEF RebuildShape
      <4>2. QED BY <1>4, <3>1, <4>1 DEF RebuildShape
    <3>5. QED BY <3>3, <3>4
  <2>4. QED BY <2>1, <2>2, <2>3
<1>5. CASE act'[w].pc \notin {"decide", "check", "read", "publish", "commit"}
  BY <1>5 DEF RebuildShape
<1>6. QED BY <1>2, <1>3, <1>4, <1>5

LEMMA GenShapeKept ==
    ASSUME TypeOK, NEW w \in Workers, Turn(w), GenShape(w), RebuildShape(w),
           OneGen(pointer.gen, pointer.reads)
    PROVE  GenShape(w)'
<1> DEFINE d == act[w].draft
           e == act'[w].draft
<1>0. /\ act[w] \in Writer /\ act \in [Workers -> Writer] /\ JobFits(act[w])
      /\ \A a : Set(w, a) => act'[w] = a
      /\ d \in Seq(Files) /\ Idle \in Writer /\ pointer \in Catalogs
  BY IdleTyped DEF TypeOK, Working, Typed, Set, Writer, Stored
<1>1. ASSUME NEW v \in Versions, act'[w].gen = act[w].gen, OneGen(act[w].gen, d),
             e = Append(d, File(act[w].gen, v, NewName))
      PROVE  GenShape(w)'
  <2> DEFINE f == File(act[w].gen, v, NewName)
  <2>1. f \in Files /\ f.gen = act[w].gen
    BY NewFile
  <2>2. /\ Len(e) = Len(d) + 1 /\ DOMAIN e = 1..Len(e) /\ DOMAIN d = 1..Len(d) /\ Len(d) \in Nat
        /\ \A i \in DOMAIN d : i \in DOMAIN e /\ e[i] = d[i]
        /\ e[Len(e)] = f
    BY <1>0, <1>1, <2>1, Appended
  <2> HIDE DEF f
  <2>3. ASSUME NEW i \in DOMAIN e PROVE e[i].gen = act[w].gen
    <3>1. i \in DOMAIN d \/ i = Len(e)
      BY <2>2
    <3>2. QED BY <1>1, <2>1, <2>2, <3>1 DEF OneGen
  <2>4. QED BY <1>1, <2>3 DEF GenShape, OneGen
<1>2. ASSUME e = d, act'[w].gen = act[w].gen, act[w].pc \in {"load", "read", "publish", "commit"}
      PROVE  GenShape(w)'
  BY <1>2 DEF GenShape, OneGen
<1>3. CASE act'[w].pc = "load"
  <2>1. Open(w) /\ ~Over(w, "failed")
    BY <1>0, <1>3, Arrivals DEF Over, Writer
  <2>2. e = pointer.reads /\ act'[w].gen = IF pointer = Nil THEN NewGeneration ELSE pointer.gen
    BY <1>0, <2>1 DEF Open, Writer
  <2>3. CASE pointer = Nil
    <3>1. DOMAIN e = {}
      BY <2>2, <2>3, NilIsCatalog, EmptySeq
    <3>2. QED BY <3>1 DEF GenShape, OneGen
  <2>4. CASE pointer # Nil
    BY <2>2, <2>4 DEF GenShape, OneGen
  <2>5. QED BY <2>3, <2>4
<1>4. CASE act'[w].pc = "read"
  <2>1. CASE Decide(w) \/ Check(w)
    <3>1. act[w].pc \in {"decide", "check"} /\ ~Ingests(w)
      BY <1>0, <2>1 DEF Decide, Check, At, JobFits, Ingests, On
    <3>2. d = <<>>
      BY <3>1 DEF RebuildShape
    <3>3. e = d
      BY <1>0, <2>1, <1>4 DEF Decide, Check, Rebuilds, Writer
    <3>4. DOMAIN e = {}
      BY <3>2, <3>3, EmptySeq
    <3>5. QED BY <3>4 DEF GenShape, OneGen
  <2>2. CASE Read(w)
    <3> DEFINE v == Min(act[w].todo)
               f == File(act[w].gen, v, NewName)
    <3>1. act[w].pc = "read" /\ act[w].todo # {} /\ act[w].todo \subseteq Versions /\ Versions \subseteq Nat
      BY <1>0, <2>2 DEF Read, At, Writer, Versions
    <3>2. v \in Versions
      BY <3>1, Least
    <3>3. CASE \E why : Refuse(w, v, why)
      <4>1. e = d /\ act'[w].gen = act[w].gen
        BY <1>0, <3>3 DEF Refuse, Writer
      <4>2. QED BY <1>2, <3>1, <4>1
    <3>4. CASE Set(w, [act[w] EXCEPT !.draft = Append(@, f), !.todo = @ \ {v}])
      <4>1. e = Append(d, f) /\ act'[w].gen = act[w].gen
        BY <1>0, <3>4 DEF Writer
      <4>2. OneGen(act[w].gen, d)
        BY <3>1 DEF GenShape
      <4>3. QED BY <1>1, <3>2, <4>1, <4>2
    <3>5. ~Aborts(w)
      BY <1>0, <1>4 DEF Aborts, Writer
    <3>6. QED BY <2>2, <3>3, <3>4, <3>5 DEF Read
  <2>3. QED BY <1>4, <2>1, <2>2, Arrivals
<1>5. CASE act'[w].pc \in {"publish", "commit"}
  <2>1. Load(w) \/ ReadEnds(w) \/ Publish(w)
    BY <1>5, Arrivals
  <2>2. CASE Load(w)
    <3> DEFINE f == File(act[w].gen, act[w].job.v, NewName)
    <3>1. act[w].pc = "load" /\ act[w].job.v \in Versions
      BY <1>0, <2>2, JobsTyped DEF Load, At, JobFits
    <3>2. Set(w, [act[w] EXCEPT !.draft = Append(@, f), !.pc = "publish"])
      BY <1>0, <1>5, <2>2 DEF Load, Loads, Goto, Writer
    <3>3. e = Append(d, f) /\ act'[w].gen = act[w].gen
      BY <1>0, <3>2 DEF Writer
    <3>4. OneGen(act[w].gen, d)
      BY <3>1 DEF GenShape
    <3>5. QED BY <1>1, <3>1, <3>3, <3>4
  <2>3. CASE ReadEnds(w) \/ Publish(w)
    <3>1. act[w].pc \in {"read", "publish"} /\ e = d /\ act'[w].gen = act[w].gen
      BY <1>0, <1>5, <2>3 DEF ReadEnds, Publish, Goto, At, Aborts, Writer
    <3>2. QED BY <1>2, <3>1
  <2>4. QED BY <2>1, <2>2, <2>3
<1>6. CASE act'[w].pc \notin {"load", "read", "publish", "commit"}
  BY <1>6 DEF GenShape
<1>7. QED BY <1>3, <1>4, <1>5, <1>6

LEMMA ClearShapeKept ==
    ASSUME TypeOK, NEW w \in Workers, Turn(w), ClearShape(w)
    PROVE  ClearShape(w)'
<1>0. /\ act[w] \in Writer /\ act \in [Workers -> Writer] /\ Idle \in Writer
      /\ \A a : Set(w, a) => act'[w] = a
  BY IdleTyped DEF TypeOK, Working, Typed, Set
<1>1. ASSUME act'[w].known = act[w].known, act'[w].from = act[w].from,
             \A o \in act'[w].doomed : Leftover(w, o),
             act[w].known # Nil => act[w].known = act[w].from
      PROVE  ClearShape(w)'
  BY <1>1 DEF ClearShape, Leftover
<1>2. CASE act'[w].pc = "list"
  <2>1. Clear(w)
    BY <1>2, Arrivals
  <2>2. Clears(w) /\ Set(w, [act[w] EXCEPT !.pc = "list", !.from = pointer])
    BY <1>0, <1>2, <2>1 DEF Clear, NotCleared, Over, Writer
  <2>3. act'[w].known = act[w].known /\ act'[w].from = pointer
    BY <1>0, <2>2 DEF Writer
  <2>4. QED BY <1>2, <2>2, <2>3 DEF ClearShape, Clears
<1>3. CASE act'[w].pc = "recheck"
  <2> DEFINE doomed == {o \in bucket : Leftover(w, o)}
  <2>1. List(w)
    BY <1>3, Arrivals
  <2>2. ~Cleared(w)
    BY <1>0, <1>3 DEF Cleared, Over, Writer
  <2>3. act[w].pc = "list" /\ Set(w, [act[w] EXCEPT !.pc = "recheck", !.doomed = doomed])
    BY <2>1, <2>2 DEF List, At
  <2>4. act'[w].known = act[w].known /\ act'[w].from = act[w].from /\ act'[w].doomed = doomed
    BY <1>0, <2>3 DEF Writer
  <2>5. act[w].known # Nil => act[w].known = act[w].from
    BY <2>3 DEF ClearShape
  <2>6. QED BY <1>1, <2>4, <2>5
<1>4. CASE act'[w].pc = "delete"
  <2>1. Recheck(w)
    BY <1>4, Arrivals
  <2>2. act[w].pc = "recheck" /\ Goto(w, "delete")
    BY <1>0, <1>4, <2>1 DEF Recheck, NotCleared, Over, At, Writer
  <2>3. /\ act'[w].known = act[w].known /\ act'[w].from = act[w].from
        /\ act'[w].doomed = act[w].doomed
    BY <1>0, <2>2 DEF Goto, Writer
  <2>4. QED BY <1>1, <2>2, <2>3 DEF ClearShape
<1>5. CASE act'[w].pc \notin {"list", "recheck", "delete"}
  BY <1>5 DEF ClearShape
<1>6. QED BY <1>2, <1>3, <1>4, <1>5

LEMMA ShapesInit == Init => Shapes
<1> SUFFICES ASSUME Init PROVE Shapes
  OBVIOUS
<1>1. \A w \in Workers : act[w] = Idle /\ Idle.pc = "idle"
  BY IdleTyped DEF Init
<1>2. \A w \in Workers : LoadShape(w) /\ RebuildShape(w) /\ GenShape(w) /\ ClearShape(w)
  BY <1>1 DEF LoadShape, RebuildShape, GenShape, ClearShape
<1>3. OneGen(pointer.gen, pointer.reads)
  <2>1. CASE Loaded
    <3>1. pointer = Catalog(1, <<File(1, 1, 1)>>)
      BY <2>1 DEF Loaded
    <3>2. QED BY <3>1 DEF Catalog, File, OneGen
  <2>2. CASE ToLoad
    <3>1. DOMAIN pointer.reads = {}
      BY <2>2, NilIsCatalog, EmptySeq DEF ToLoad
    <3>2. QED BY <3>1 DEF OneGen
  <2>3. QED BY <2>1, <2>2 DEF Init
<1>4. QED BY <1>2, <1>3 DEF Shapes

LEMMA ShapesNext == TypeOK /\ Shapes /\ [Next]_vars => Shapes'
<1> SUFFICES ASSUME TypeOK, Shapes, [Next]_vars PROVE Shapes'
  OBVIOUS
<1>1. ASSUME NEW w \in Workers
      PROVE  (LoadShape(w) /\ RebuildShape(w) /\ GenShape(w) /\ ClearShape(w))'
  <2>1. LoadShape(w) /\ RebuildShape(w) /\ GenShape(w) /\ ClearShape(w)
        /\ OneGen(pointer.gen, pointer.reads)
    BY DEF Shapes
  <2>2. CASE act'[w] = act[w]
    BY <2>1, <2>2 DEF LoadShape, RebuildShape, GenShape, ClearShape, Leftover, Ingests, On, OneGen
  <2>3. CASE act'[w] # act[w]
    <3>1. Turn(w)
      BY <2>3, WhoMoves
    <3>2. QED BY <2>1, <3>1, LoadShapeKept, RebuildShapeKept, GenShapeKept, ClearShapeKept
  <2>4. QED BY <2>2, <2>3
<1>2. OneGen(pointer.gen, pointer.reads)'
  <2>1. CASE pointer' = pointer
    BY <2>1 DEF Shapes, OneGen
  <2>2. CASE pointer' # pointer
    <3>1. PICK w \in Workers : Commit(w) /\ Moves(w)
      BY <2>2, PointerMoves
    <3>2. OneGen(act[w].gen, act[w].draft)
      BY <3>1 DEF Shapes, GenShape, Commit, At
    <3>3. pointer' = Draft(w)
      BY <3>1 DEF Moves
    <3>4. pointer'.reads = act[w].draft /\ (act[w].draft # <<>> => pointer'.gen = act[w].gen)
      BY <3>3, DraftIs
    <3>5. act[w].draft = <<>> => DOMAIN act[w].draft = {}
      BY EmptySeq
    <3>6. QED BY <3>2, <3>4, <3>5 DEF OneGen
  <2>3. QED BY <2>1, <2>2
<1>3. QED BY <1>1, <1>2 DEF Shapes

-----------------------------------------------------------------------------
(* What a row records is in the catalog *)

LEMMA SnapshotsTrueInit == Init => SnapshotsTrue
<1> SUFFICES ASSUME Init, NEW v \in Versions, row[v].snap # 0
             PROVE  row[v].snap \in DOMAIN pointer.reads /\ pointer.reads[row[v].snap].of = v
  BY DEF SnapshotsTrue
<1>1. CASE Loaded
  <2>1. v = 1 /\ row[v].snap = 1
    BY <1>1 DEF Loaded, NoRow
  <2>2. pointer.reads = <<File(1, 1, 1)>>
    BY <1>1 DEF Loaded, Catalog
  <2>3. QED BY <2>1, <2>2 DEF File
<1>2. CASE ToLoad
  BY <1>2 DEF ToLoad, NoRow
<1>3. QED BY <1>1, <1>2 DEF Init

\* What a load adds it adds at the end of the catalog the pointer names.
LEMMA LoadGrows ==
    ASSUME TypeOK, Shapes, NEW w \in Workers, Commit(w), Moves(w), Ingests(w)
    PROVE  LET d == act[w].draft
               old == pointer.reads
           IN  /\ old \in Seq(Files) /\ d \in Seq(Files) /\ Len(old) \in Nat /\ Len(d) = Len(old) + 1
               /\ DOMAIN old = 1..Len(old) /\ DOMAIN d = 1..Len(d)
               /\ \A i \in DOMAIN old : i \in DOMAIN d /\ d[i] = old[i]
               /\ d[Len(d)].of = act[w].job.v
<1>1. act[w].pc = "commit" /\ act[w].from = pointer /\ LoadShape(w) /\ pointer \in Catalogs
  BY DEF Commit, At, Moves, Commits, Shapes, TypeOK, Stored
<1>2. PICK f \in Files : f.of = act[w].job.v /\ act[w].draft = Append(pointer.reads, f)
  BY <1>1 DEF LoadShape
<1>3. pointer.reads \in Seq(Files)
  BY <1>1 DEF Catalogs
<1>4. QED BY <1>2, <1>3, Appended

LEMMA SnapshotsTrueKept ==
    ASSUME TypeOK, Shapes, SnapshotsTrue, [Next]_vars
    PROVE  SnapshotsTrue'
<1> SUFFICES ASSUME NEW v \in Versions, row'[v].snap # 0
             PROVE  row'[v].snap \in DOMAIN pointer'.reads /\ pointer'.reads[row'[v].snap].of = v
  BY DEF SnapshotsTrue
<1>1. CASE \E w \in Workers : Commit(w) /\ Moves(w)
  <2>1. PICK w \in Workers : Commit(w) /\ Moves(w)
    BY <1>1
  <2>2. row' = Recorded(w) /\ pointer'.reads = act[w].draft
    BY <2>1, DraftIs DEF Moves
  <2>3. CASE Places(w, v) # {}
    BY <2>2, <2>3, RecordedIs DEF Places
  <2>4. CASE Places(w, v) = {} /\ Ingests(w)
    <3>1. row'[v].snap = row[v].snap
      BY <2>2, <2>4, RecordedIs
    <3>2. row[v].snap \in DOMAIN pointer.reads /\ pointer.reads[row[v].snap].of = v
      BY <3>1 DEF SnapshotsTrue
    <3>3. QED BY <2>1, <2>2, <2>4, <3>1, <3>2, LoadGrows
  <2>5. CASE Places(w, v) = {} /\ ~Ingests(w)
    BY <2>2, <2>5, RecordedIs
  <2>6. QED BY <2>3, <2>4, <2>5
<1>2. CASE ~\E w \in Workers : Commit(w) /\ Moves(w)
  <2>1. pointer' = pointer
    BY <1>2, PointerMoves
  <2>2. row'[v].snap = row[v].snap
    BY <1>2, RowsMove
  <2>3. QED BY <2>1, <2>2 DEF SnapshotsTrue
<1>3. QED BY <1>1, <1>2

\* The snapshot a version row records is where the resource's catalog has that
\* version's rows, whatever was lost half-way (commitLakeCatalog's compare and
\* set, and the draft it was built on).
THEOREM SnapshotsStayTrue == Spec => []SnapshotsTrue
<1>1. Init => TypeOK /\ Shapes /\ SnapshotsTrue
  BY TypeOKInit, ShapesInit, SnapshotsTrueInit
<1>2. TypeOK /\ Shapes /\ SnapshotsTrue /\ [Next]_vars => (TypeOK /\ Shapes /\ SnapshotsTrue)'
  BY TypeOKNext, ShapesNext, SnapshotsTrueKept
<1>3. QED BY <1>1, <1>2, PTL DEF Spec

-----------------------------------------------------------------------------
(* What a writer brings into the catalog, and what a purge takes out of it *)

\* The versions a writer may still bring in.
Brings(w) ==
    LET a == act[w] IN
    IF Ingests(w) THEN IF a.pc \in {"ask", "open", "load", "publish", "commit"} THEN {a.job.v} ELSE {}
                  ELSE IF a.pc \in {"read", "publish", "commit"} THEN a.todo \cup Of(a.draft) ELSE {}

LEMMA RebuildsBring ==
    ASSUME TypeOK, NEW w \in Workers, Shapes, act[w].pc \in {"decide", "check"},
           act'[w] = Rebuilds(w), NEW v \in Brings(w)'
    PROVE  row[v].state = "active"
<1>1. act[w] \in Writer /\ ~Ingests(w) /\ RebuildShape(w) /\ Working
  BY DEF TypeOK, Working, Typed, JobFits, Ingests, On, Shapes
<1>2. act'[w].draft = <<>> /\ act'[w].todo = {u \in Versions : RebuildLoads(u)} /\ act'[w].pc = "read"
      /\ act'[w].job = act[w].job
  BY <1>1 DEF RebuildShape, Rebuilds, Writer
<1>3. Of(<<>>) = {}
  BY EmptySeq DEF Of
<1>4. v \in act'[w].todo
  BY <1>1, <1>2, <1>3 DEF Brings, Ingests, On
<1>5. QED BY <1>2, <1>4 DEF RebuildLoads, Loadable

\* Only an active version is begun with.
LEMMA BringsMove ==
    ASSUME TypeOK, Shapes, [Next]_vars, NEW w \in Workers, NEW v \in Brings(w)'
    PROVE  v \in Brings(w) \/ row'[v].state = "active"
<1> DEFINE pc == act'[w].pc
<1>0. /\ act[w] \in Writer /\ act \in [Workers -> Writer] /\ JobFits(act[w])
      /\ \A a : Set(w, a) => act'[w] = a
      /\ act[w].draft \in Seq(Files) /\ act[w].todo \subseteq Versions /\ Versions \subseteq Nat
      /\ row \in [Versions -> Row]
      /\ Idle \in Writer
  BY IdleTyped DEF TypeOK, Working, Typed, Set, Writer, Versions, Stored
<1>1. CASE act'[w] = act[w]
  BY <1>1 DEF Brings, Ingests, On
<1>2. CASE act'[w] # act[w]
  <2>1. Turn(w)
    BY <1>2, WhoMoves
  <2>2. CASE pc = "ask"
    <3>1. CASE StartRun(w)
      <4>1. PICK u \in Versions :
               /\ \/ row' = [row EXCEPT ![u].state = "active"]
                  \/ row' = [row EXCEPT ![u].state = "active", ![u].kind = "badKey"]
                  \/ u \in Outstanding /\ UNCHANGED row
               /\ Set(w, [Idle EXCEPT !.pc = "ask", !.job = RunOf(u)])
        BY <3>1 DEF StartRun
      <4>2. act'[w].job = RunOf(u)
        BY <1>0, <4>1 DEF Writer
      <4>3. Brings(w)' = {u}
        BY <2>2, <4>2 DEF Brings, Ingests, On, RunOf
      <4>4. QED BY <1>0, <4>1, <4>3 DEF Outstanding, Loadable, Row
    <3>2. CASE StartIngest(w)
      <4>1. PICK j \in waiting : /\ j.type = "ingest" /\ j.v \in Outstanding
                                 /\ Set(w, [Idle EXCEPT !.pc = "ask", !.job = j])
                                 /\ UNCHANGED row
        BY <1>0, <1>2, <2>2, <3>2 DEF StartIngest, Kept, At, Writer
      <4>2. act'[w].job = j
        BY <1>0, <4>1 DEF Writer
      <4>3. Brings(w)' = {j.v}
        BY <2>2, <4>1, <4>2 DEF Brings, Ingests, On
      <4>4. QED BY <4>1, <4>3 DEF Outstanding, Loadable
    <3>3. QED BY <2>1, <2>2, <3>1, <3>2, Arrivals
  <2>3. CASE pc \in {"open", "load"} \/ (pc = "commit" /\ Publish(w)) \/ (pc = "publish" /\ Load(w))
    <3>1. Ask(w) \/ Open(w) \/ Load(w) \/ Publish(w)
      BY <2>1, <2>3, Arrivals
    <3>2. /\ act'[w].job = act[w].job /\ act[w].pc \in {"ask", "open", "load", "publish"}
          /\ Publish(w) => act'[w].todo = act[w].todo /\ act'[w].draft = act[w].draft
                           /\ act[w].pc = "publish"
      <4>1. act[w].pc \in {"ask", "open", "load", "publish"} /\ (Publish(w) => act[w].pc = "publish")
        BY <3>1 DEF Ask, Open, Load, Publish, At
      <4>2. act'[w].job # NoJob
        BY <2>3, TypeOKNext, JobsTyped DEF TypeOK, Working, Typed, JobFits, NoJob
      <4>3. act'[w].job = act[w].job
        BY <2>1, <4>1, <4>2, JobStays
      <4>4. Publish(w) => SameHands(act[w], act'[w])
        BY Moved DEF Publish, TypeOK
      <4>5. QED BY <4>1, <4>3, <4>4 DEF SameHands
    <3>3. CASE Ingests(w)
      BY <3>2, <3>3 DEF Brings, Ingests, On
    <3>4. CASE ~Ingests(w)
      <4>1. Publish(w)
        BY <1>0, <3>1, <3>4 DEF Ask, Open, Load, At, JobFits, Ingests, On
      <4>2. QED BY <3>2, <3>4, <4>1 DEF Brings, Ingests, On
    <3>5. QED BY <3>3, <3>4
  <2>4. CASE pc \in {"publish", "commit"} /\ ReadEnds(w)
    <3>1. /\ act'[w].job = act[w].job /\ act[w].pc = "read" /\ ~Ingests(w)
          /\ act'[w].todo = act[w].todo /\ act'[w].draft = act[w].draft
      <4>1. SameHands(act[w], act'[w])
        BY <2>4, Moved DEF ReadEnds, TypeOK
      <4>2. act[w].pc = "read" /\ ~Ingests(w)
        BY <1>0, <2>4 DEF ReadEnds, At, JobFits, Ingests, On
      <4>3. QED BY <4>1, <4>2 DEF SameHands
    <3>2. QED BY <3>1 DEF Brings, Ingests, On
  <2>5. CASE pc = "read"
    <3>1. CASE Decide(w) \/ Check(w)
      <4>1. act[w].pc \in {"decide", "check"} /\ UNCHANGED row
        BY <3>1 DEF Decide, Check, At, Kept
      <4>2. act'[w] = Rebuilds(w)
        BY <1>0, <2>5, <3>1 DEF Decide, Check, Writer
      <4>3. QED BY <4>1, <4>2, RebuildsBring
    <3>2. CASE Read(w)
      <4> DEFINE u == Min(act[w].todo)
                 f == File(act[w].gen, u, NewName)
      <4>1. act[w].pc = "read" /\ act[w].todo # {} /\ ~Ingests(w)
        BY <1>0, <3>2 DEF Read, At, JobFits, Ingests, On
      <4>2. u \in act[w].todo
        BY <1>0, <4>1, Least
      <4>3. CASE \E why : Refuse(w, u, why)
        <5>1. act'[w].draft = act[w].draft /\ act'[w].todo \subseteq act[w].todo /\ act'[w].job = act[w].job
          BY <4>3, Moved DEF TypeOK
        <5>2. QED BY <2>5, <4>1, <5>1 DEF Brings, Ingests, On
      <4>4. CASE Set(w, [act[w] EXCEPT !.draft = Append(@, f), !.todo = @ \ {u}])
        <5>1. /\ act'[w].draft = Append(act[w].draft, f) /\ act'[w].todo \subseteq act[w].todo
              /\ act'[w].job = act[w].job
          <6>1. act'[w] = [act[w] EXCEPT !.draft = Append(@, f), !.todo = @ \ {u}]
            BY <1>0, <4>4
          <6>2. act[w] \in Writer
            BY <1>0
          <6> HIDE DEF f, u
          <6>3. QED BY <6>1, <6>2 DEF Writer
        <5>2. f \in Files /\ f.of = u
          BY <1>0, <4>2, NewFile
        <5> HIDE DEF f, u
        <5>3. LET d == act[w].draft e == act'[w].draft IN
              /\ Len(e) = Len(d) + 1 /\ DOMAIN e = 1..Len(e) /\ DOMAIN d = 1..Len(d) /\ Len(d) \in Nat
              /\ \A i \in DOMAIN d : i \in DOMAIN e /\ e[i] = d[i]
              /\ e[Len(e)] = f
          BY <1>0, <5>1, <5>2, Appended
        <5>4. Of(act'[w].draft) \subseteq Of(act[w].draft) \cup {u}
          <6>1. ASSUME NEW i \in DOMAIN act'[w].draft
                PROVE  act'[w].draft[i].of \in Of(act[w].draft) \cup {u}
            <7>1. i \in DOMAIN act[w].draft \/ i = Len(act'[w].draft)
              BY <5>3
            <7>2. QED BY <5>2, <5>3, <7>1 DEF Of
          <6>2. QED BY <6>1 DEF Of
        <5>5. v \in act'[w].todo \cup Of(act'[w].draft)
          BY <2>5, <4>1, <5>1 DEF Brings, Ingests, On
        <5>6. Brings(w) = act[w].todo \cup Of(act[w].draft)
          BY <4>1 DEF Brings
        <5>7. QED BY <4>2, <5>1, <5>4, <5>5, <5>6
      <4>5. ~Aborts(w)
        BY <1>0, <2>5 DEF Aborts, Writer
      <4>6. QED BY <3>2, <4>3, <4>4, <4>5 DEF Read
    <3>3. QED BY <2>1, <2>5, <3>1, <3>2, Arrivals
  <2>6. CASE pc \notin {"ask", "open", "load", "publish", "commit", "read"}
    BY <2>6 DEF Brings
  <2>7. (pc = "commit" => Publish(w) \/ ReadEnds(w)) /\ (pc = "publish" => Load(w) \/ ReadEnds(w))
    BY <2>1, Arrivals
  <2>8. QED BY <2>2, <2>3, <2>4, <2>5, <2>6, <2>7
<1>3. QED BY <1>1, <1>2

\* What a purge is of is being purged; nothing is known of a version not filed.
Marked(j) == j.type = "purge" => row[j.v].state \in {"purging", "purged"}
Marks == (\A j \in waiting : Marked(j)) /\ \A w \in Workers : Marked(act[w].job)
Filed ==
    /\ \A v \in Versions : row[v].state = "none" => row[v].snap = 0
    /\ \A w \in Workers : \A v \in Brings(w) : row[v].state # "none"

\* Whoever has the claim does not bring in what another is purging, and what a purge
\* is through with is in no catalog.
Spares ==
    \A w, u \in Workers : On(w, {"purge"}) /\ Held(u) => act[w].job.v \notin Brings(u)
Through(w) ==
    /\ On(w, {"purge"})
    /\ \/ act[w].pc = "finish"
       \/ act[w].pc \in {"clear", "list", "recheck", "delete"} /\ act[w].out = "done"
Cleansed == \A w \in Workers : Through(w) => row[act[w].job.v].snap = 0

\* A load under the claim is the first of its version, and of the last one.
FirstIn(w) ==
    Held(w) /\ Ingests(w) /\ act[w].pc \in {"open", "load", "publish", "commit"} =>
       row[act[w].job.v].snap = 0 /\ ~Overtaken(act[w].job.v)
LoadsFirst == \A w \in Workers : FirstIn(w)

\* The catalog reads what is recorded in it, and has what stands in version order.
Agreed ==
    /\ \A i \in DOMAIN pointer.reads : row[pointer.reads[i].of].snap = i
    /\ \A u, v \in Versions : (u < v /\ Stands(u) /\ Stands(v)) => row[u].snap < row[v].snap

Purposes == Marks /\ Filed /\ Spares /\ Cleansed /\ LoadsFirst

\* Where a purge under way comes from.
LEMMA PurgeStarts ==
    ASSUME TypeOK, [Next]_vars, NEW w \in Workers, On(w, {"purge"})'
    PROVE  \/ act'[w].job = act[w].job
           \/ StartOther(w) /\ act'[w].job \in waiting /\ act[w].pc = "idle"
<1>0. /\ act[w] \in Writer /\ act \in [Workers -> Writer] /\ Idle \in Writer
      /\ \A a : Set(w, a) => act'[w] = a
  BY IdleTyped DEF TypeOK, Working, Typed, Set
<1>1. CASE act'[w] = act[w]
  BY <1>1
<1>2. CASE act'[w] # act[w]
  <2>1. Turn(w)
    BY <1>2, WhoMoves
  <2>2. act'[w].job # NoJob
    BY DEF On, NoJob
  <2>3. CASE act[w].pc = "idle"
    <3>1. StartRun(w) \/ StartIngest(w) \/ StartOther(w)
      BY <2>1, <2>3 DEF Turn, WriterStep, LoadErrs, Crash, Ask, Open, Load, Publish, Commit, Clear, List,
                        Recheck, Delete, Decide, Read, ReadEnds, Check, Finish, Release, EndJob, At
    <3>2. ~StartRun(w)
      <4>1. SUFFICES ASSUME StartRun(w) PROVE FALSE
        OBVIOUS
      <4>2. PICK u \in Versions : Set(w, [Idle EXCEPT !.pc = "ask", !.job = RunOf(u)])
        BY <4>1 DEF StartRun
      <4>3. act'[w].job = RunOf(u)
        BY <1>0, <4>2 DEF Writer
      <4>4. act'[w].job.type = "run"
        BY <4>3 DEF RunOf
      <4>5. QED BY <4>4 DEF On
    <3>3. ~StartIngest(w)
      BY <1>0, <1>2 DEF StartIngest, On, Writer
    <3>4. CASE StartOther(w)
      BY <1>0, <2>3, <3>4 DEF StartOther, Writer
    <3>5. QED BY <3>1, <3>2, <3>3, <3>4
  <2>4. CASE act[w].pc # "idle"
    BY <2>1, <2>2, <2>4, JobStays
  <2>5. QED BY <2>3, <2>4
<1>3. QED BY <1>1, <1>2

\* And a purge in the queue.
LEMMA PurgeWaits ==
    ASSUME TypeOK, [Next]_vars, NEW j \in waiting', j.type = "purge"
    PROVE  \/ j \in waiting
           \/ \E w \in Workers : act[w].job = j
           \/ row'[j.v].state = "purging"
<1> DEFINE Old == j \in waiting \/ \E w \in Workers : act[w].job = j
<1>0. Rebuild.type # "purge" /\ \A v : Ingest(v).type # "purge"
  BY DEF Rebuild, Ingest
<1>1. waiting' \subseteq waiting \cup {Rebuild} => Old
  BY <1>0
<1>2. (\E v : Hands(v)) => Old
  BY <1>0 DEF Hands
<1>3. ASSUME NEW w \in Workers, Turn(w) PROVE Old
  <2>1. CASE Release(w)
    BY <1>0, <2>1 DEF Release
  <2>2. CASE EndJob(w) \/ Crash(w)
    BY <1>0, <1>2, <2>2 DEF EndJob, Crash, HandOn
  <2>3. CASE StartRun(w) \/ StartIngest(w) \/ StartOther(w) \/ LoadErrs(w)
    BY <1>1, <2>3 DEF StartRun, StartIngest, StartOther, LoadErrs
  <2>4. CASE Ask(w) \/ Open(w) \/ Load(w) \/ Publish(w) \/ Commit(w) \/ Clear(w) \/ List(w)
    BY <1>1, <2>4 DEF Ask, Open, Load, Publish, Commit, Clear, NotCleared, List
  <2>5. CASE Recheck(w) \/ Delete(w) \/ Decide(w) \/ Read(w) \/ ReadEnds(w) \/ Check(w) \/ Finish(w)
    BY <1>1, <2>5 DEF Recheck, NotCleared, Delete, Decide, Read, ReadEnds, Check, Finish
  <2>6. QED BY <1>3, <2>1, <2>2, <2>3, <2>4, <2>5 DEF Turn, WriterStep
<1>4. ASSUME NEW v \in Versions, ClaimPurge(v) PROVE Old \/ row'[j.v].state = "purging"
  <2>1. row' = [row EXCEPT ![v].state = "purging"] /\ waiting' = waiting \cup {Purge(v)}
        /\ row \in [Versions -> Row]
    BY <1>4 DEF ClaimPurge, TypeOK, Stored
  <2>2. row'[v].state = "purging" /\ Purge(v).v = v
    BY <2>1 DEF Row, Purge
  <2>3. QED BY <2>1, <2>2
<1>5. CASE Cancel \/ Diff \/ Sweep \/ Lapse \/ GoStale \/ Damage
  BY <1>1, <1>2, <1>5 DEF Cancel, Diff, Sweep, Lapse, GoStale, Damage
<1>6. CASE \E c \in ledger : SweepCatalog(c)
  BY <1>1, <1>6 DEF SweepCatalog
<1>7. CASE UNCHANGED vars
  BY <1>1, <1>7 DEF vars
<1>8. QED BY <1>3, <1>4, <1>5, <1>6, <1>7 DEF Next, Turn

LEMMA MarksKept ==
    ASSUME TypeOK, Marks, [Next]_vars
    PROVE  Marks'
<1>1. ASSUME NEW j \in Jobs, Marked(j) PROVE Marked(j)'
  BY <1>1, RowsMove, JobsTyped DEF Marked
<1>2. TypeOK'
  BY TypeOKNext
<1>3. /\ waiting \subseteq Jobs /\ waiting' \subseteq Jobs
      /\ \A w \in Workers : act[w].job \in Jobs \cup {NoJob} /\ act'[w].job \in Jobs \cup {NoJob}
  BY <1>2 DEF TypeOK, Stored, Working, Writer
<1>4. ASSUME NEW j \in waiting' PROVE Marked(j)'
  <2>1. CASE j.type # "purge"
    BY <2>1 DEF Marked
  <2>2. CASE row'[j.v].state = "purging"
    BY <2>2 DEF Marked
  <2>3. CASE j \in waiting \/ \E w \in Workers : act[w].job = j
    BY <1>1, <1>3, <2>3 DEF Marks
  <2>4. QED BY <2>1, <2>2, <2>3, PurgeWaits
<1>5. ASSUME NEW w \in Workers PROVE Marked(act[w].job)'
  <2>1. CASE On(w, {"purge"})'
    <3>1. act'[w].job = act[w].job \/ act'[w].job \in waiting
      BY <2>1, PurgeStarts
    <3>2. act'[w].job \in Jobs
      BY <1>3, <2>1 DEF On, NoJob
    <3>3. QED BY <1>1, <3>1, <3>2 DEF Marks
  <2>2. CASE ~On(w, {"purge"})'
    BY <2>2 DEF On, Marked
  <2>3. QED BY <2>1, <2>2
<1>6. QED BY <1>4, <1>5 DEF Marks

\* A commit gives a snapshot only to what the writer brings in.
LEMMA CommitBrings ==
    ASSUME TypeOK, Shapes, NEW w \in Workers, Commit(w), Moves(w), NEW v \in Versions
    PROVE  /\ v \notin Brings(w) => row'[v].snap = IF Ingests(w) THEN row[v].snap ELSE 0
           /\ row'[v].state = row[v].state
<1>1. row' = Recorded(w) /\ act[w].pc = "commit"
  BY DEF Commit, Moves, At
<1>2. ASSUME v \notin Brings(w) PROVE Places(w, v) = {}
  <2>1. CASE Ingests(w)
    <3>1. Brings(w) = {act[w].job.v} /\ act[w].draft[Len(act[w].draft)].of = act[w].job.v
      BY <1>1, <2>1, LoadGrows DEF Brings
    <3>2. QED BY <1>2, <2>1, <3>1 DEF Places
  <2>2. CASE ~Ingests(w)
    BY <1>1, <1>2, <2>2 DEF Brings, Places, Of
  <2>3. QED BY <2>1, <2>2
<1>3. QED BY <1>1, <1>2, RecordedIs

LEMMA FiledKept ==
    ASSUME TypeOK, Shapes, Filed, [Next]_vars
    PROVE  Filed'
<1>1. ASSUME NEW v \in Versions, row'[v].state = "none" PROVE row'[v].snap = 0
  <2>1. row[v].state = "none" /\ row[v].snap = 0 /\ \A w \in Workers : v \notin Brings(w)
    BY <1>1, RowsMove DEF Filed
  <2>2. ASSUME NEW w \in Workers, Commit(w), Moves(w) PROVE row'[v].snap = 0
    BY <2>1, <2>2, CommitBrings
  <2>3. QED BY <2>1, <2>2, RowsMove
<1>2. ASSUME NEW w \in Workers, NEW v \in Brings(w)' PROVE row'[v].state # "none"
  <2>1. CASE v \in Brings(w)
    <3>1. row[v].state # "none"
      BY <2>1 DEF Filed
    <3>2. v \in Versions
      <4>1. act[w].todo \subseteq Versions /\ act[w].draft \in Seq(Files)
        BY DEF TypeOK, Working, Writer
      <4>2. Of(act[w].draft) \subseteq Versions
        <5>1. \A i \in DOMAIN act[w].draft : act[w].draft[i] \in Files
          BY <4>1, ReadsOfSeq DEF Range
        <5>2. \A f \in Files : f.of \in Versions
          BY DEF Files
        <5>3. QED BY <5>1, <5>2 DEF Of
      <4>3. Ingests(w) => act[w].job.v \in Versions
        BY JobsTyped DEF TypeOK, Working, Writer, Ingests, On, NoJob
      <4>4. QED BY <2>1, <4>1, <4>2, <4>3 DEF Brings
    <3>3. QED BY <3>1, <3>2, RowsMove
  <2>2. QED BY <2>1, BringsMove
<1>3. QED BY <1>1, <1>2 DEF Filed

LEMMA SparesKept ==
    ASSUME TypeOK, Shapes, Marks, Spares, [Next]_vars
    PROVE  Spares'
<1> SUFFICES ASSUME NEW w \in Workers, NEW u \in Workers, On(w, {"purge"})', Held(u)',
                    act'[w].job.v \in Brings(u)'
             PROVE  FALSE
  BY DEF Spares
<1> DEFINE v == act'[w].job.v
<1>1. v \in Brings(u)
  <2>1. row'[v].state \in {"purging", "purged"}
    BY MarksKept DEF Marks, Marked, On
  <2>2. QED BY <2>1, BringsMove
<1>2. act[u].pc # "idle"
  BY <1>1, JobsTyped DEF Brings
<1>3. Held(u)
  BY <1>2, ClaimMoves
<1>4. act'[w].job = act[w].job
  <2>1. CASE StartOther(w) /\ act[w].pc = "idle"
    <3>1. claim'.by = w /\ Held(u)'
      BY <2>1 DEF StartOther, TakeClaim
    <3>2. u = w
      BY <3>1 DEF Held
    <3>3. QED BY <1>2, <2>1, <3>2
  <2>2. QED BY <2>1, PurgeStarts
<1>5. On(w, {"purge"}) /\ v = act[w].job.v
  BY <1>4 DEF On
<1>6. QED BY <1>1, <1>3, <1>5 DEF Spares

\* What a purge has taken out stays out.
LEMMA StaysOut ==
    ASSUME TypeOK, Shapes, Spares, [Next]_vars, NEW w \in Workers, On(w, {"purge"}),
           row[act[w].job.v].snap = 0
    PROVE  row'[act[w].job.v].snap = 0
<1> DEFINE v == act[w].job.v
<1>1. v \in Versions
  BY JobsTyped DEF On, TypeOK, Working, Writer, NoJob
<1>2. ASSUME NEW u \in Workers, Commit(u), Moves(u) PROVE row'[v].snap = 0
  <2>1. v \notin Brings(u)
    BY <1>2 DEF Moves, Commits, Spares
  <2>2. QED BY <1>1, <1>2, <2>1, CommitBrings
<1>3. QED BY <1>1, <1>2, RowsMove

LEMMA CleansedKept ==
    ASSUME TypeOK, Shapes, Spares, Cleansed, [Next]_vars
    PROVE  Cleansed'
<1> SUFFICES ASSUME NEW w \in Workers, Through(w)'
             PROVE  row'[act'[w].job.v].snap = 0
  BY DEF Cleansed
<1> DEFINE pc == act'[w].pc
<1>0. /\ act[w] \in Writer /\ act \in [Workers -> Writer] /\ JobFits(act[w])
      /\ \A a : Set(w, a) => act'[w] = a
      /\ On(w, {"purge"})'
      /\ pc \in {"finish", "clear", "list", "recheck", "delete"}
      /\ pc # "finish" => act'[w].out = "done"
  BY DEF TypeOK, Working, Typed, Set, Through
<1>1. act'[w].job = act[w].job /\ On(w, {"purge"}) /\ ~Ingests(w)
  <2>1. ~(StartOther(w) /\ act[w].pc = "idle")
    BY <1>0, Leads
  <2>2. act'[w].job = act[w].job
    BY <1>0, <2>1, PurgeStarts
  <2>3. QED BY <1>0, <2>2 DEF On, Ingests
<1>2. ASSUME Through(w) \/ row[act[w].job.v].snap = 0 PROVE row'[act'[w].job.v].snap = 0
  BY <1>1, <1>2, StaysOut DEF Cleansed
<1>3. CASE act'[w] = act[w]
  BY <1>2, <1>3 DEF Through, On
<1>4. CASE act'[w] # act[w]
  <2>1. Turn(w)
    BY <1>4, WhoMoves
  <2>2. CASE pc \in {"finish", "list", "recheck", "delete"}
    <3>1. Clear(w) \/ List(w) \/ Recheck(w) \/ Delete(w)
      BY <2>1, <2>2, Arrivals
    <3>2. act[w].pc \in {"clear", "list", "recheck", "delete"}
      BY <3>1 DEF Clear, List, Recheck, Delete, At
    <3>3. \A out \in Outs : Over(w, out) => pc = "release"
      BY <1>0, IdleTyped DEF Over, Typed, Writer
    <3>4. ~NotCleared(w)
      <4>1. NotCleared(w) => \E out \in Outs : Over(w, out)
        BY <1>0 DEF NotCleared, Outs, Writer
      <4>2. QED BY <2>2, <3>3, <4>1
    <3>5. Cleared(w) => act[w].out = "done"
      BY <1>0, <2>2, <3>3 DEF Cleared, Writer
    <3>6. act[w].out = "done"
      <4>1. CASE Clear(w)
        BY <1>0, <2>2, <3>4, <4>1, Leads DEF Clear, Writer
      <4>2. CASE List(w)
        BY <1>0, <2>2, <3>5, <4>2, Leads DEF List, Writer
      <4>3. CASE Recheck(w)
        BY <1>0, <2>2, <3>4, <4>3, Leads DEF Recheck, Goto, Writer
      <4>4. CASE Delete(w)
        BY <3>4, <3>5, <4>4 DEF Delete
      <4>5. QED BY <3>1, <4>1, <4>2, <4>3, <4>4
    <3>7. QED BY <1>1, <1>2, <3>2, <3>6 DEF Through
  <2>3. CASE pc = "clear"
    <3>1. \/ LoadErrs(w) \/ Commit(w) \/ Decide(w) \/ Read(w) \/ ReadEnds(w) \/ Check(w)
      BY <2>1, <2>3, Arrivals
    <3>2. act'[w].out = "done" /\ (Aborts(w) => act'[w].out = "failed")
      BY <1>0, <2>3 DEF Aborts, Writer
    <3>3. ~LoadErrs(w)
      BY <1>0, <3>2 DEF LoadErrs, Writer
    <3>4. ~Decide(w)
      BY <1>0, <1>1 DEF Decide, At, JobFits, On
    <3>5. ~Read(w)
      <4>1. SUFFICES ASSUME Read(w) PROVE FALSE
        OBVIOUS
      <4>2. act[w].pc = "read"
        BY <4>1 DEF Read, At
      <4>3. \A v, why : Refuse(w, v, why) => act'[w].pc = "read"
        BY <1>0, <4>2 DEF Refuse, Writer
      <4>4. \A f, v : Set(w, [act[w] EXCEPT !.draft = Append(@, f), !.todo = @ \ {v}])
               => act'[w].pc = "read"
        BY <1>0, <4>2 DEF Writer
      <4>5. QED BY <2>3, <3>2, <4>1, <4>3, <4>4 DEF Read
    <3>6. ~ReadEnds(w)
      BY <1>0, <2>3, <3>2 DEF ReadEnds, Goto, Writer
    <3>7. CASE Commit(w)
      <4>1. Moves(w)
        BY <3>2, <3>7 DEF Commit
      <4>2. act[w].job.v \notin Brings(w)
        BY <1>1, <4>1 DEF Moves, Commits, Spares
      <4>3. act[w].job.v \in Versions
        BY <1>1, JobsTyped DEF On, TypeOK, Working, Writer, NoJob
      <4>4. QED BY <1>1, <3>7, <4>1, <4>2, <4>3, CommitBrings
    <3>8. CASE Check(w)
      <4>1. row[act[w].job.v].snap = 0
        BY <1>0, <2>3, <3>8 DEF Check, Rebuilds, Writer
      <4>2. QED BY <1>2, <4>1
    <3>9. QED BY <3>1, <3>3, <3>4, <3>5, <3>6, <3>7, <3>8
  <2>4. QED BY <1>0, <2>2, <2>3
<1>5. QED BY <1>3, <1>4

\* What stands, and where, changes by a commit only.
LEMMA StandingStays ==
    ASSUME TypeOK, Filed, [Next]_vars, ~\E w \in Workers : Commit(w) /\ Moves(w),
           NEW v \in Versions, Stands(v)'
    PROVE  Stands(v) /\ row'[v].snap = row[v].snap
<1>1. row'[v].state = "active" /\ row'[v].snap # 0 /\ row'[v].snap = row[v].snap
  BY RowsMove DEF Stands
<1>2. row[v].state # "none"
  BY <1>1 DEF Filed
<1>3. row[v].state \in {"none", "active", "purging", "purged"}
  BY DEF TypeOK, Stored, Row
<1>4. row[v].state \notin {"purging", "purged"}
  BY <1>1, RowsMove
<1>5. QED BY <1>1, <1>2, <1>3, <1>4 DEF Stands

LEMMA LoadsFirstKept ==
    ASSUME TypeOK, Filed, LoadsFirst, [Next]_vars
    PROVE  LoadsFirst'
<1> SUFFICES ASSUME NEW w \in Workers, Held(w)', Ingests(w)',
                    act'[w].pc \in {"open", "load", "publish", "commit"}
             PROVE  (row[act[w].job.v].snap = 0 /\ ~Overtaken(act[w].job.v))'
  BY DEF LoadsFirst, FirstIn
<1> DEFINE pc == act'[w].pc
           First(v) == row[v].snap = 0 /\ ~Overtaken(v)
<1>0. /\ act[w] \in Writer /\ act \in [Workers -> Writer] /\ JobFits(act[w])
      /\ \A a : Set(w, a) => act'[w] = a
  BY DEF TypeOK, Working, Typed, Set
<1>1. Held(w)
  BY ClaimMoves, Leads
<1>2. act'[w].job = act[w].job /\ First(act[w].job.v)
  <2>1. CASE act'[w] = act[w]
    BY <1>1, <2>1 DEF LoadsFirst, FirstIn, Ingests, On
  <2>2. CASE act'[w] # act[w]
    <3>1. Turn(w)
      BY <2>2, WhoMoves
    <3>2. ~ReadEnds(w)
      <4>1. ReadEnds(w) => act'[w].job = act[w].job
        BY <1>0 DEF ReadEnds, Aborts, Goto, Writer
      <4>2. QED BY <1>0, <4>1 DEF ReadEnds, At, JobFits, Ingests, On
    <3>3. Ask(w) \/ Open(w) \/ Load(w) \/ Publish(w)
      BY <3>1, <3>2, Arrivals
    <3>4. act'[w].job = act[w].job
      <4>1. act[w].pc # "idle" /\ act'[w].job # NoJob
        <5>1. act[w].pc # "idle"
          BY <3>3 DEF Ask, Open, Load, Publish, At
        <5>2. QED BY <5>1 DEF Ingests, On, NoJob
      <4>2. QED BY <3>1, <4>1, JobStays
    <3>5. Ingests(w)
      BY <3>4 DEF Ingests, On
    <3>6. CASE Ask(w)
      BY <1>0, <3>4, <3>6 DEF Ask, Goto, Writer
    <3>7. CASE Open(w) \/ Load(w) \/ Publish(w)
      BY <1>1, <3>4, <3>5, <3>7 DEF Open, Load, Publish, At, LoadsFirst, FirstIn
    <3>8. QED BY <3>3, <3>4, <3>6, <3>7
  <2>3. QED BY <2>1, <2>2
<1>3. ~\E u \in Workers : Commit(u) /\ Moves(u)
  <2>1. SUFFICES ASSUME NEW u \in Workers, Commit(u), Moves(u) PROVE FALSE
    OBVIOUS
  <2>2. u = w
    BY <1>1, <2>1, OneHolds DEF Moves, Commits
  <2>3. QED BY <2>1, <2>2, Leads
<1> DEFINE v == act[w].job.v
<1>4. v \in Versions
  BY <1>2, JobsTyped DEF Ingests, On, TypeOK, Working, Writer, NoJob
<1>5. row'[v].snap = 0
  BY <1>2, <1>3, <1>4, RowsMove
<1>6. ~(\E u \in Versions : u > v /\ Stands(u)')
  BY <1>2, <1>3, StandingStays DEF Overtaken
<1>7. QED BY <1>2, <1>5, <1>6 DEF Overtaken

LEMMA PurposesInit == Init => Purposes /\ Agreed
<1> SUFFICES ASSUME Init PROVE Purposes /\ Agreed
  OBVIOUS
<1>1. \A w \in Workers : act[w] = Idle /\ Idle.pc = "idle" /\ act[w].job = NoJob
  BY IdleTyped DEF Init
<1>2. waiting = {} /\ \A w \in Workers : ~Held(w)
  BY WorkersAssumption DEF Init, Free, Held
<1>3. Marks
  BY <1>1, <1>2 DEF Marks, Marked, NoJob
<1>4. \A w \in Workers : ~Ingests(w) /\ Brings(w) = {} /\ ~Through(w)
  BY <1>1 DEF Brings, Ingests, On, NoJob, Through
<1>5. \A v \in Versions : row[v].state = "none" => row[v].snap = 0
  <2>1. CASE Loaded
    <3>1. \A v \in Versions : v # 1 => row[v] = NoRow
      BY <2>1 DEF Loaded
    <3>2. 1 \in Versions => row[1].state = "active"
      BY <2>1 DEF Loaded, NoRow
    <3>3. QED BY <3>1, <3>2 DEF NoRow
  <2>2. CASE ToLoad
    BY <2>2 DEF ToLoad, NoRow
  <2>3. QED BY <2>1, <2>2 DEF Init
<1>6. Purposes
  BY <1>2, <1>3, <1>4, <1>5 DEF Purposes, Filed, Spares, Cleansed, LoadsFirst, FirstIn
<1>7. \A u, v \in Versions : Stands(u) /\ Stands(v) => u = 1 /\ v = 1
  <2>1. CASE Loaded
    <3>1. \A v \in Versions : v # 1 => row[v] = NoRow
      BY <2>1 DEF Loaded
    <3>2. \A v \in Versions : Stands(v) => v = 1
      BY <3>1 DEF Stands, NoRow
    <3>3. QED BY <3>2
  <2>2. CASE ToLoad
    BY <2>2 DEF ToLoad, NoRow, Stands
  <2>3. QED BY <2>1, <2>2 DEF Init
<1>8. \A u, v \in Versions : ~(u < v /\ Stands(u) /\ Stands(v))
  BY <1>7
<1>9. \A i \in DOMAIN pointer.reads : row[pointer.reads[i].of].snap = i
  <2>1. CASE Loaded
    <3>1. pointer.reads = <<File(1, 1, 1)>>
      BY <2>1 DEF Loaded, Catalog
    <3>2. DOMAIN pointer.reads = {1} /\ pointer.reads[1].of = 1
      BY <3>1 DEF File
    <3>3. 1 \in Versions
      BY BoundsAssumption DEF Versions
    <3>4. row[1].snap = 1
      BY <2>1, <3>3 DEF Loaded, NoRow
    <3>5. QED BY <3>2, <3>4
  <2>2. CASE ToLoad
    BY <2>2, NilIsCatalog, EmptySeq DEF ToLoad
  <2>3. QED BY <2>1, <2>2 DEF Init
<1>10. QED BY <1>6, <1>8, <1>9 DEF Agreed

LEMMA PurposesNext == TypeOK /\ Shapes /\ Purposes /\ [Next]_vars => Purposes'
BY MarksKept, FiledKept, SparesKept, CleansedKept, LoadsFirstKept DEF Purposes

\* A load committed: the one file more is the version's, and the last.
LEMMA LoadAgrees ==
    ASSUME TypeOK, Shapes, SnapshotsTrue, Purposes, Agreed, NEW w \in Workers, Commit(w), Moves(w),
           Ingests(w)
    PROVE  Agreed'
<1> DEFINE d == act[w].draft
           v == act[w].job.v
           old == pointer.reads
<1>1. /\ Len(old) \in Nat /\ Len(d) = Len(old) + 1
      /\ DOMAIN old = 1..Len(old) /\ DOMAIN d = 1..Len(d)
      /\ \A i \in DOMAIN old : i \in DOMAIN d /\ d[i] = old[i]
      /\ d[Len(d)].of = v
  BY LoadGrows
<1>2. row' = Recorded(w) /\ pointer'.reads = d
  BY DraftIs DEF Moves
<1>3. v \in Versions
  BY JobsTyped DEF Ingests, On, TypeOK, Working, Writer, NoJob
<1>4. row[v].snap = 0 /\ ~Overtaken(v)
  BY DEF Moves, Commits, Commit, At, Purposes, LoadsFirst, FirstIn
<1>5. row'[v].snap = Len(d)
  <2>1. Places(w, v) = {Len(d)}
    BY <1>1 DEF Places
  <2>2. QED BY <1>2, <1>3, <2>1, RecordedIs
<1>6. ASSUME NEW u \in Versions, u # v
      PROVE  row'[u].snap = row[u].snap /\ (Stands(u)' <=> Stands(u))
  <2>1. Places(w, u) = {}
    BY <1>1, <1>6 DEF Places
  <2>2. QED BY <1>2, <2>1, RecordedIs DEF Stands
<1>7. \A f \in Files : f.of \in Versions
  BY DEF Files
<1>8. ASSUME NEW i \in DOMAIN d PROVE row'[d[i].of].snap = i
  <2>1. CASE i \in DOMAIN old
    <3>1. old[i].of \in Versions
      <4>1. old \in Seq(Files)
        BY DEF TypeOK, Stored, Catalogs
      <4>2. QED BY <1>7, <2>1, <4>1, ReadsOfSeq DEF Range
    <3>2. row[old[i].of].snap = i /\ i # 0
      BY <1>1, <2>1 DEF Agreed
    <3>3. old[i].of # v
      BY <1>4, <3>2
    <3>4. QED BY <1>1, <1>6, <2>1, <3>1, <3>2, <3>3
  <2>2. CASE i = Len(d)
    BY <1>1, <1>5, <2>2
  <2>3. QED BY <1>1, <2>1, <2>2
<1>9. ASSUME NEW u \in Versions, NEW x \in Versions, u < x, Stands(u)', Stands(x)'
      PROVE  row'[u].snap < row'[x].snap
  <2>1. u # x /\ u \in Nat /\ x \in Nat
    BY <1>9 DEF Versions
  <2>2. u # v
    <3>1. u = v => Stands(x)
      BY <1>6, <1>9, <2>1
    <3>2. QED BY <1>4, <1>9, <3>1 DEF Overtaken
  <2>3. Stands(u) /\ row'[u].snap = row[u].snap /\ row[u].snap \in DOMAIN old
    BY <1>6, <1>9, <2>2 DEF Stands, SnapshotsTrue
  <2>4. CASE x = v
    BY <1>1, <1>5, <2>3, <2>4
  <2>5. CASE x # v
    BY <1>6, <1>9, <2>3, <2>5 DEF Agreed
  <2>6. QED BY <2>4, <2>5
<1>10. QED BY <1>2, <1>8, <1>9 DEF Agreed

\* A rebuild committed: the versions are in it in their order, and no others.
LEMMA RebuildAgrees ==
    ASSUME TypeOK, Shapes, NEW w \in Workers, Commit(w), Moves(w), ~Ingests(w)
    PROVE  Agreed'
<1> DEFINE d == act[w].draft
<1>1. row' = Recorded(w) /\ pointer'.reads = d
  BY DraftIs DEF Moves
<1>2. d \in Seq(Files) /\ DOMAIN d = 1..Len(d) /\ Len(d) \in Nat
      /\ \A i \in DOMAIN d : d[i] \in Files
  BY ReadsOfSeq DEF TypeOK, Working, Writer, Range
<1>3. \A i, j \in DOMAIN d : i < j => d[i].of < d[j].of
  BY DEF Shapes, RebuildShape, Commit, At
<1>4. \A i \in DOMAIN d : d[i].of \in Versions /\ d[i].of \in Nat /\ i \in Nat
  <2>1. \A f \in Files : f.of \in Versions
    BY DEF Files
  <2>2. Versions \subseteq Nat
    BY DEF Versions
  <2>3. \A i \in DOMAIN d : i \in Nat
    BY <1>2
  <2>4. QED BY <1>2, <2>1, <2>2, <2>3
<1>5. ASSUME NEW i \in DOMAIN d, NEW j \in DOMAIN d, d[i].of = d[j].of PROVE i = j
  <2>1. ~(i < j) /\ ~(j < i)
    BY <1>3, <1>4, <1>5
  <2>2. QED BY <1>4, <2>1
<1>6. ASSUME NEW i \in DOMAIN d PROVE row'[d[i].of].snap = i
  <2>1. Places(w, d[i].of) = {i}
    BY <1>5 DEF Places
  <2>2. QED BY <1>1, <1>4, <2>1, RecordedIs
<1>7. ASSUME NEW v \in Versions, row'[v].snap # 0
      PROVE  row'[v].snap \in DOMAIN d /\ d[row'[v].snap].of = v
  <2>1. Places(w, v) # {}
    BY <1>1, <1>7, RecordedIs
  <2>2. QED BY <1>1, <2>1, RecordedIs DEF Places
<1>8. ASSUME NEW u \in Versions, NEW v \in Versions, u < v, Stands(u)', Stands(v)'
      PROVE  row'[u].snap < row'[v].snap
  <2> DEFINE i == row'[u].snap
             j == row'[v].snap
  <2>1. i \in DOMAIN d /\ d[i].of = u /\ j \in DOMAIN d /\ d[j].of = v
    BY <1>7, <1>8 DEF Stands
  <2>2. i \in Nat /\ j \in Nat /\ u \in Nat /\ v \in Nat
    BY <1>4, <2>1 DEF Versions
  <2>3. i # j
    BY <1>8, <2>1, <2>2
  <2>4. ~(j < i)
    BY <1>3, <1>8, <2>1, <2>2
  <2>5. QED BY <2>2, <2>3, <2>4
<1>9. QED BY <1>1, <1>6, <1>8 DEF Agreed

LEMMA AgreedKept ==
    ASSUME TypeOK, Shapes, SnapshotsTrue, Purposes, Agreed, [Next]_vars
    PROVE  Agreed'
<1>1. CASE \E w \in Workers : Commit(w) /\ Moves(w)
  BY <1>1, LoadAgrees, RebuildAgrees
<1>2. CASE ~\E w \in Workers : Commit(w) /\ Moves(w)
  <2>1. pointer' = pointer
    BY <1>2, PointerMoves
  <2>2. \A f \in Range(pointer.reads) : f.of \in Versions
    BY ReadsOfSeq DEF TypeOK, Stored, Catalogs, Files
  <2>3. ASSUME NEW i \in DOMAIN pointer.reads
        PROVE  row'[pointer.reads[i].of].snap = i
    <3> DEFINE v == pointer.reads[i].of
    <3>1. v \in Versions /\ row[v].snap = i /\ i # 0
      <4>1. DOMAIN pointer.reads = 1..Len(pointer.reads)
        BY ReadsOfSeq DEF TypeOK, Stored, Catalogs
      <4>2. QED BY <2>2, <4>1 DEF Range, Agreed
    <3>2. ASSUME NEW w \in Workers, Finish(w), act[w].job.v = v PROVE FALSE
      <4>1. act[w].pc = "finish" /\ On(w, {"purge"})
        BY <3>2 DEF Finish, At, On, TypeOK, Working, Typed, JobFits
      <4>2. row[v].snap = 0
        BY <3>2, <4>1 DEF Purposes, Cleansed, Through
      <4>3. QED BY <3>1, <4>2
    <3>3. QED BY <1>2, <3>1, <3>2, RowsMove
  <2>4. ASSUME NEW u \in Versions, NEW v \in Versions, u < v, Stands(u)', Stands(v)'
        PROVE  row'[u].snap < row'[v].snap
    <3>1. /\ Stands(u) /\ row'[u].snap = row[u].snap
          /\ Stands(v) /\ row'[v].snap = row[v].snap
      BY <1>2, <2>4, StandingStays DEF Purposes
    <3>2. QED BY <2>4, <3>1 DEF Agreed
  <2>5. QED BY <2>1, <2>3, <2>4 DEF Agreed
<1>3. QED BY <1>1, <1>2

-----------------------------------------------------------------------------
(* What the catalog needs, and what may become the catalog, is in the bucket *)

There == bucket \cup lost

\* The writer whose draft may become the resource's catalog.
Draws(w) == Held(w) /\ act[w].pc \in {"load", "read", "publish", "commit"}

DraftsWhole ==
    \A w \in Workers : Draws(w) =>
       /\ act[w].from = pointer
       /\ Range(act[w].draft) \subseteq There
       /\ act[w].pc = "commit" /\ act[w].draft # <<>> => Draft(w) \in There

\* An object neither the catalog nor the one that may become it needs.
Spared(o) ==
    /\ IsFile(o) => o \notin Reads(pointer)
    /\ ~IsFile(o) => pointer = Nil \/ o.gen # pointer.gen
    /\ \A u \in Workers : Draws(u) =>
          /\ IsFile(o) => o \notin Range(act[u].draft)
          /\ ~IsFile(o) => o.gen # act[u].gen
Deletes == \A w \in Workers : act[w].pc = "delete" => \A o \in act[w].doomed : Spared(o)

InPlace == pointer # Nil => {pointer} \cup Reads(pointer) \subseteq There

\* Objects go by a deletion of leftovers, or by the orphan sweep.
LEMMA ThereStays ==
    ASSUME TypeOK, [Next]_vars, NEW o \in There, o \notin There'
    PROVE  \/ \E w \in Workers : act[w].pc = "delete" /\ o \in act[w].doomed
           \/ o \in Catalogs /\ o # pointer /\ \A w \in Workers : act[w].pc = "idle"
<1> DEFINE Grows == bucket \subseteq bucket' /\ lost \subseteq lost'
<1>1. ~Grows
  BY DEF There
<1>2. ASSUME NEW w \in Workers, Turn(w)
      PROVE  act[w].pc = "delete" /\ o \in act[w].doomed
  <2>1. CASE Delete(w)
    <3>1. act[w].pc = "delete" /\ lost' = lost /\ bucket \ act[w].doomed \subseteq bucket'
      BY <2>1 DEF Delete, At
    <3>2. QED BY <3>1 DEF There
  <2>2. CASE Load(w) \/ Publish(w) \/ Read(w)
    BY <1>1, <2>2 DEF Load, Loads, Publish, Read
  <2>3. CASE StartRun(w) \/ StartIngest(w) \/ StartOther(w) \/ LoadErrs(w) \/ Crash(w)
    BY <1>1, <2>3 DEF StartRun, StartIngest, StartOther, LoadErrs, Crash, Kept
  <2>4. CASE Ask(w) \/ Open(w) \/ Commit(w) \/ Clear(w) \/ List(w) \/ Recheck(w)
    BY <1>1, <2>4 DEF Ask, Open, Commit, Clear, List, Recheck, Kept
  <2>5. CASE Decide(w) \/ ReadEnds(w) \/ Check(w) \/ Finish(w) \/ Release(w) \/ EndJob(w)
    BY <1>1, <2>5 DEF Decide, ReadEnds, Check, Finish, Release, EndJob, Kept
  <2>6. QED BY <1>2, <2>1, <2>2, <2>3, <2>4, <2>5 DEF Turn, WriterStep
<1>3. ~\E v \in Versions : ClaimPurge(v)
  BY <1>1 DEF ClaimPurge
<1>4. ~(Cancel \/ Diff \/ Sweep \/ Lapse \/ GoStale \/ Damage)
  <2>1. ~Damage
    <3>1. Damage => There \subseteq There'
      BY DEF Damage, There
    <3>2. QED BY <3>1
  <2>2. QED BY <1>1, <2>1 DEF Cancel, Diff, Sweep, Lapse, GoStale, Kept
<1>5. ASSUME NEW c \in ledger, SweepCatalog(c)
      PROVE  o \in Catalogs /\ o # pointer /\ \A w \in Workers : act[w].pc = "idle"
  <2>1. o = c
    BY <1>5 DEF SweepCatalog, There
  <2>2. QED BY <1>5, <2>1 DEF SweepCatalog, At, TypeOK, Stored
<1>6. ~UNCHANGED vars
  BY <1>1 DEF vars
<1>7. QED BY <1>2, <1>3, <1>4, <1>5, <1>6 DEF Next, Turn

\* A draft that may become the catalog: begun with what the pointer names, or with
\* nothing in a new generation, and one new file after another.
Continues(w) ==
    /\ Draws(w) /\ act'[w].from = act[w].from /\ act'[w].gen = act[w].gen
    /\ \/ act'[w].draft = act[w].draft
       \/ \E v \in Versions : LET f == File(act[w].gen, v, NewName)
                              IN  act'[w].draft = Append(act[w].draft, f) /\ f \in bucket'
Begins(w) ==
    /\ act'[w].from = pointer
    /\ \/ /\ pointer # Nil /\ act'[w].gen = pointer.gen /\ act'[w].draft = pointer.reads
       \/ /\ act'[w].gen = NewGeneration /\ act'[w].draft = <<>>

LEMMA WhoDraws ==
    ASSUME TypeOK, Shapes, [Next]_vars, NEW w \in Workers, Draws(w)'
    PROVE  Held(w) /\ pointer' = pointer /\ (Continues(w) \/ Begins(w))
<1> DEFINE pc == act'[w].pc
<1>0. /\ act[w] \in Writer /\ act \in [Workers -> Writer] /\ JobFits(act[w]) /\ Idle \in Writer
      /\ \A a : Set(w, a) => act'[w] = a
      /\ pc \in {"load", "read", "publish", "commit"} /\ Held(w)'
      /\ act[w].todo \subseteq Versions /\ Versions \subseteq Nat
  BY IdleTyped DEF TypeOK, Working, Typed, Set, Draws, Writer, Versions
<1>1. Held(w)
  BY <1>0, ClaimMoves, Leads
<1>2. pointer' = pointer
  <2>1. SUFFICES ASSUME NEW u \in Workers, Commit(u), Moves(u) PROVE FALSE
    BY PointerMoves
  <2>2. u = w
    BY <1>1, <2>1, OneHolds DEF Moves, Commits
  <2>3. QED BY <1>0, <2>1, <2>2, Leads
<1>3. CASE act'[w] = act[w]
  BY <1>0, <1>1, <1>2, <1>3 DEF Continues, Draws
<1>4. CASE act'[w] # act[w]
  <2>1. Turn(w)
    BY <1>4, WhoMoves
  <2>2. CASE pc = "load"
    <3>1. Open(w) /\ ~Over(w, "failed")
      BY <1>0, <2>1, <2>2, Arrivals DEF Over, Writer
    <3>2. /\ act'[w].from = pointer /\ act'[w].draft = pointer.reads
          /\ act'[w].gen = IF pointer = Nil THEN NewGeneration ELSE pointer.gen
      BY <1>0, <3>1 DEF Open, Writer
    <3>3. QED BY <1>1, <1>2, <3>2, NilIsCatalog DEF Begins
  <2>3. CASE pc = "read" /\ ~Read(w)
    <3>1. (Decide(w) \/ Check(w)) /\ act[w].pc \in {"decide", "check"}
      BY <2>1, <2>3, Arrivals DEF Decide, Check, At
    <3>2. act'[w] = Rebuilds(w)
      BY <1>0, <2>3, <3>1 DEF Decide, Check, Writer
    <3>3. act[w].draft = <<>>
      BY <1>0, <3>1 DEF Shapes, RebuildShape, JobFits, Ingests, On
    <3>4. act'[w].from = pointer /\ act'[w].gen = NewGeneration /\ act'[w].draft = <<>>
      BY <1>0, <3>2, <3>3 DEF Rebuilds, Writer
    <3>5. QED BY <1>1, <1>2, <3>4 DEF Begins
  <2>4. CASE Read(w)
    <3> DEFINE v == Min(act[w].todo)
               f == File(act[w].gen, v, NewName)
    <3>1. act[w].pc = "read" /\ act[w].todo # {}
      BY <2>4 DEF Read, At
    <3>2. v \in Versions
      BY <1>0, <3>1, Least
    <3>3. CASE \E why : Refuse(w, v, why)
      <4>1. /\ act'[w].draft = act[w].draft /\ act'[w].gen = act[w].gen
            /\ act'[w].from = act[w].from
        BY <1>0, <3>3 DEF Refuse, Writer
      <4>2. QED BY <1>1, <1>2, <3>1, <4>1 DEF Continues, Draws
    <3>4. CASE /\ bucket' = bucket \cup {f}
               /\ Set(w, [act[w] EXCEPT !.draft = Append(@, f), !.todo = @ \ {v}])
      <4>1. /\ act'[w].draft = Append(act[w].draft, f) /\ act'[w].gen = act[w].gen
            /\ act'[w].from = act[w].from /\ f \in bucket'
        BY <1>0, <3>4 DEF Writer
      <4>2. QED BY <1>1, <1>2, <3>1, <3>2, <4>1 DEF Continues, Draws
    <3>5. ~Aborts(w)
      BY <1>0 DEF Aborts, Writer
    <3>6. QED BY <2>4, <3>3, <3>4, <3>5 DEF Read
  <2>5. CASE Load(w)
    <3> DEFINE f == File(act[w].gen, act[w].job.v, NewName)
    <3>1. act[w].pc = "load" /\ act[w].job.v \in Versions
      BY <1>0, <2>5, JobsTyped DEF Load, At, JobFits
    <3>2. ~Goto(w, "release")
      BY <1>0 DEF Goto, Writer
    <3>3. bucket' = bucket \cup {f} /\ Set(w, [act[w] EXCEPT !.draft = Append(@, f), !.pc = "publish"])
      BY <2>5, <3>2 DEF Load, Loads
    <3>4. /\ act'[w].draft = Append(act[w].draft, f) /\ act'[w].gen = act[w].gen
          /\ act'[w].from = act[w].from /\ f \in bucket'
      BY <1>0, <3>3 DEF Writer
    <3>5. QED BY <1>1, <1>2, <3>1, <3>4 DEF Continues, Draws
  <2>6. CASE Publish(w) \/ ReadEnds(w)
    <3>1. /\ act[w].pc \in {"publish", "read"} /\ act'[w].draft = act[w].draft
          /\ act'[w].gen = act[w].gen /\ act'[w].from = act[w].from
      <4>1. act[w].pc \in {"publish", "read"}
        BY <2>6 DEF Publish, ReadEnds, At
      <4>2. SameHands(act[w], act'[w])
        BY <2>6, Moved DEF Publish, ReadEnds, TypeOK
      <4>3. QED BY <4>1, <4>2 DEF SameHands
    <3>2. QED BY <1>1, <1>2, <3>1 DEF Continues, Draws
  <2>7. /\ pc = "publish" => Load(w) \/ ReadEnds(w)
        /\ pc = "commit" => Publish(w) \/ ReadEnds(w)
    BY <2>1, Arrivals
  <2>8. QED BY <1>0, <2>2, <2>3, <2>4, <2>5, <2>6, <2>7
<1>5. QED BY <1>3, <1>4

\* A draft about to be committed was just published, or is no catalog at all.
LEMMA WhoCommits ==
    ASSUME TypeOK, [Next]_vars, NEW w \in Workers, act'[w].pc = "commit"
    PROVE  \/ act'[w] = act[w]
           \/ act'[w].draft = act[w].draft /\ act'[w].gen = act[w].gen /\ Draft(w) \in bucket'
           \/ act'[w].draft = <<>>
<1>0. /\ act[w] \in Writer /\ \A a : Set(w, a) => act'[w] = a
  BY DEF TypeOK, Working, Set
<1>1. CASE act'[w] = act[w]
  BY <1>1
<1>2. CASE act'[w] # act[w]
  <2>1. Publish(w) \/ ReadEnds(w)
    BY <1>2, WhoMoves, Arrivals
  <2>2. CASE Publish(w)
    BY <1>0, <2>2 DEF Publish, Goto, Writer
  <2>3. CASE ReadEnds(w)
    <3>1. CASE act[w].draft = <<>>
      BY <1>0, <2>3, <3>1 DEF ReadEnds, Goto, Aborts, Writer
    <3>2. CASE act[w].draft # <<>>
      BY <1>0, <2>3, <3>2 DEF ReadEnds, Goto, Aborts, Writer
    <3>3. QED BY <3>1, <3>2
  <2>4. QED BY <2>1, <2>2, <2>3
<1>3. QED BY <1>1, <1>2

\* What the writer that may commit needs is not deleted by anyone.
LEMMA FilesSpared ==
    ASSUME TypeOK, Deletes, [Next]_vars, NEW f \in There, IsFile(f),
           \/ f \in Reads(pointer)
           \/ \E u \in Workers : Draws(u) /\ f \in Range(act[u].draft)
    PROVE  f \in There'
<1>1. f \notin Catalogs
  BY FileOrCatalog
<1>2. ~\E w \in Workers : act[w].pc = "delete" /\ f \in act[w].doomed
  BY DEF Deletes, Spared
<1>3. QED BY <1>1, <1>2, ThereStays

LEMMA DraftsWholeKept ==
    ASSUME TypeOK, Shapes, DraftsWhole, Deletes, InPlace, [Next]_vars
    PROVE  DraftsWhole'
<1> SUFFICES ASSUME NEW w \in Workers, Draws(w)'
             PROVE  /\ act'[w].from = pointer'
                    /\ Range(act'[w].draft) \subseteq There'
                    /\ act'[w].pc = "commit" /\ act'[w].draft # <<>> => Draft(w)' \in There'
  BY DEF DraftsWhole
<1>0. /\ Held(w) /\ pointer' = pointer /\ (Continues(w) \/ Begins(w))
      /\ act[w].draft \in Seq(Files) /\ pointer \in Catalogs
  BY WhoDraws DEF TypeOK, Working, Writer, Stored
<1>1. act'[w].from = pointer'
  BY <1>0 DEF Continues, Begins, DraftsWhole
<1>2. Range(act'[w].draft) \subseteq There'
  <2>1. ASSUME Draws(w) PROVE Range(act[w].draft) \subseteq There'
    <3>1. Range(act[w].draft) \subseteq There /\ \A f \in Range(act[w].draft) : IsFile(f)
      BY <1>0, <2>1, ReadsOfSeq, FileOrCatalog DEF DraftsWhole
    <3>2. QED BY <2>1, <3>1, FilesSpared
  <2>2. CASE Continues(w) /\ act'[w].draft = act[w].draft
    BY <2>1, <2>2 DEF Continues
  <2>3. CASE Continues(w) /\ act'[w].draft # act[w].draft
    <3>1. PICK v \in Versions : LET f == File(act[w].gen, v, NewName)
                                IN  act'[w].draft = Append(act[w].draft, f) /\ f \in bucket'
      BY <2>3 DEF Continues
    <3> DEFINE f == File(act[w].gen, v, NewName)
    <3>2. f \in Files
      BY NewFile
    <3>3. act'[w].draft = Append(act[w].draft, f) /\ f \in There'
      BY <3>1 DEF There
    <3> HIDE DEF f
    <3>4. Range(act'[w].draft) = Range(act[w].draft) \cup {f}
      BY <1>0, <3>2, <3>3, Appended
    <3>5. QED BY <2>1, <2>3, <3>3, <3>4 DEF Continues
  <2>4. CASE Begins(w) /\ pointer # Nil /\ act'[w].draft = pointer.reads
    <3>1. /\ Range(act'[w].draft) = Reads(pointer) /\ Reads(pointer) \subseteq There
          /\ \A f \in Reads(pointer) : IsFile(f)
      BY <1>0, <2>4, ReadsOfSeq, FileOrCatalog DEF InPlace, Reads, Catalogs
    <3>2. QED BY <3>1, FilesSpared
  <2>5. CASE act'[w].draft = <<>>
    BY <2>5, NilIsCatalog DEF Reads
  <2>6. QED BY <1>0, <2>2, <2>3, <2>4, <2>5 DEF Begins
<1>3. ASSUME act'[w].pc = "commit", act'[w].draft # <<>> PROVE Draft(w)' \in There'
  <2>1. CASE act'[w] = act[w]
    <3>1. Draft(w)' = Draft(w) /\ Draws(w) /\ act[w].pc = "commit" /\ act[w].draft # <<>>
      BY <1>0, <1>3, <2>1 DEF Draft, Draws
    <3>2. Draft(w) \in There /\ ~IsFile(Draft(w)) /\ Draft(w).gen = act[w].gen
      BY <3>1, DraftIs, FileOrCatalog DEF DraftsWhole
    <3>3. ~\E u \in Workers : act[u].pc = "delete" /\ Draft(w) \in act[u].doomed
      BY <3>1, <3>2 DEF Deletes, Spared
    <3>4. act[w].pc # "idle"
      BY <3>1
    <3>5. Draft(w) \in There'
      BY <3>2, <3>3, <3>4, ThereStays
    <3>6. QED BY <3>1, <3>5
  <2>2. CASE act'[w].draft = act[w].draft /\ act'[w].gen = act[w].gen /\ Draft(w) \in bucket'
    <3>1. Draft(w)' = Draft(w)
      BY <2>2 DEF Draft
    <3>2. QED BY <2>2, <3>1 DEF There
  <2>3. QED BY <1>3, <2>1, <2>2, WhoCommits
<1>4. QED BY <1>1, <1>2, <1>3

\* What was listed and asked again is spared, ...
LEMMA RecheckSpares ==
    ASSUME TypeOK, Shapes, [Next]_vars, NEW w \in Workers, Recheck(w), act'[w].pc = "delete",
           NEW o \in act'[w].doomed
    PROVE  Spared(o)'
<1>0. /\ act[w] \in Writer /\ act \in [Workers -> Writer] /\ \A a : Set(w, a) => act'[w] = a
      /\ Idle \in Writer /\ pointer \in Catalogs
  BY IdleTyped DEF TypeOK, Working, Typed, Set, Stored
<1>1. /\ act[w].pc = "recheck" /\ Held(w) /\ pointer = act[w].from /\ Goto(w, "delete") /\ Touched(w)
      /\ pointer' = pointer
  <2>1. \A out : ~Over(w, out)
    BY <1>0 DEF Over, Writer
  <2>2. ~NotCleared(w)
    BY <2>1 DEF NotCleared
  <2>3. QED BY <2>2 DEF Recheck, At, Kept
<1>2. act'[w].doomed = act[w].doomed
  BY <1>0, <1>1 DEF Goto, Writer
<1>3. Leftover(w, o)
  BY <1>1, <1>2 DEF Shapes, ClearShape
<1>4. act[w].known # Nil => act[w].known = pointer
  BY <1>1 DEF Shapes, ClearShape
<1>5. pointer = Nil \/ o.gen # pointer.gen \/ (IsFile(o) /\ o \notin Reads(pointer))
  BY <1>1, <1>3, <1>4 DEF Leftover
<1>6. IsFile(o) => o \notin Reads(pointer)
  <2>1. CASE pointer = Nil
    BY <2>1, NilIsCatalog
  <2>2. \A f \in Reads(pointer) : f.gen = pointer.gen
    BY DEF Shapes, OneGen, Reads, Range
  <2>3. QED BY <1>5, <2>1, <2>2
<1>7. ~IsFile(o) => pointer = Nil \/ o.gen # pointer.gen
  BY <1>5
<1>8. \A u \in Workers : ~Draws(u)'
  <2>1. SUFFICES ASSUME NEW u \in Workers, Draws(u)' PROVE FALSE
    OBVIOUS
  <2>2. claim'.by = claim.by
    BY <1>1 DEF Touched, Touch, TypeOK, Stored
  <2>3. u = w
    BY <1>1, <2>1, <2>2 DEF Draws, Held
  <2>4. act'[w].pc = "delete"
    OBVIOUS
  <2>5. QED BY <2>1, <2>3, <2>4 DEF Draws
<1>9. QED BY <1>1, <1>6, <1>7, <1>8 DEF Spared

\* ... and what is spared stays so: a writer adds files nobody can name, a new
\* generation is one nobody can name, and a commit moves the pointer to its draft.
LEMMA SparedStays ==
    ASSUME TypeOK, Shapes, [Next]_vars, NEW o \in Objects, o \in Mentioned, Spared(o)
    PROVE  Spared(o)'
<1>0. pointer \in Catalogs /\ \A u \in Workers : act[u].draft \in Seq(Files)
  BY DEF TypeOK, Stored, Working, Writer
<1>1. /\ IsFile(o) => o \notin Reads(pointer')
      /\ ~IsFile(o) => pointer' = Nil \/ o.gen # pointer'.gen
  <2>1. CASE pointer' = pointer
    BY <2>1 DEF Spared
  <2>2. CASE pointer' # pointer
    <3>1. PICK u \in Workers : Commit(u) /\ Moves(u)
      BY <2>2, PointerMoves
    <3>2. Draws(u) /\ pointer' = Draft(u)
      BY <3>1 DEF Commit, Moves, Commits, At, Draws
    <3>3. Reads(pointer') = Range(act[u].draft)
      BY <3>2, DraftIs DEF Reads
    <3>4. pointer' = Nil \/ pointer'.gen = act[u].gen
      BY <3>2, DraftIs
    <3>5. QED BY <3>2, <3>3, <3>4 DEF Spared
  <2>3. QED BY <2>1, <2>2
<1>2. ASSUME NEW u \in Workers, Draws(u)'
      PROVE  /\ IsFile(o) => o \notin Range(act'[u].draft)
             /\ ~IsFile(o) => o.gen # act'[u].gen
  <2>1. Continues(u) \/ Begins(u)
    BY <1>2, WhoDraws
  <2>2. CASE Continues(u)
    <3>1. /\ IsFile(o) => o \notin Range(act[u].draft)
          /\ ~IsFile(o) => o.gen # act[u].gen
          /\ act'[u].gen = act[u].gen
      BY <2>2 DEF Continues, Spared
    <3>2. CASE act'[u].draft = act[u].draft
      BY <3>1, <3>2
    <3>3. CASE act'[u].draft # act[u].draft
      <4>1. PICK v \in Versions : act'[u].draft = Append(act[u].draft, File(act[u].gen, v, NewName))
        BY <2>2, <3>3 DEF Continues
      <4> DEFINE f == File(act[u].gen, v, NewName)
      <4>2. f \in Files /\ f # o
        BY NewFile
      <4>3. act'[u].draft = Append(act[u].draft, f)
        BY <4>1
      <4> HIDE DEF f
      <4>4. Range(act'[u].draft) = Range(act[u].draft) \cup {f}
        BY <1>0, <4>2, <4>3, Appended
      <4>5. QED BY <3>1, <4>2, <4>4
    <3>4. QED BY <3>2, <3>3
  <2>3. CASE Begins(u) /\ pointer # Nil /\ act'[u].gen = pointer.gen /\ act'[u].draft = pointer.reads
    BY <2>3 DEF Spared, Reads
  <2>4. CASE act'[u].gen = NewGeneration /\ act'[u].draft = <<>>
    <3>1. Range(<<>>) = {}
      BY NilIsCatalog DEF Reads
    <3>2. QED BY <2>4, <3>1, NamesAreNew
  <2>5. QED BY <2>1, <2>2, <2>3, <2>4 DEF Begins
<1>3. QED BY <1>1, <1>2 DEF Spared

LEMMA DeletesKept ==
    ASSUME TypeOK, Shapes, Deletes, [Next]_vars
    PROVE  Deletes'
<1> SUFFICES ASSUME NEW w \in Workers, act'[w].pc = "delete", NEW o \in act'[w].doomed
             PROVE  Spared(o)'
  BY DEF Deletes
<1>1. CASE act'[w] = act[w]
  <2>1. act[w].pc = "delete" /\ o \in act[w].doomed /\ act[w].doomed \subseteq Objects
    BY <1>1 DEF TypeOK, Working, Writer
  <2>2. o \in Objects /\ o \in Mentioned /\ Spared(o)
    BY <2>1, HandsMentioned DEF Deletes
  <2>3. QED BY <2>2, SparedStays
<1>2. CASE act'[w] # act[w]
  <2>1. Recheck(w)
    BY <1>2, WhoMoves, Arrivals
  <2>2. QED BY <2>1, RecheckSpares
<1>3. QED BY <1>1, <1>2

LEMMA InPlaceKept ==
    ASSUME TypeOK, DraftsWhole, Deletes, InPlace, [Next]_vars
    PROVE  InPlace'
<1> SUFFICES ASSUME pointer' # Nil PROVE {pointer'} \cup Reads(pointer') \subseteq There'
  BY DEF InPlace
<1>0. pointer \in Catalogs
  BY DEF TypeOK, Stored
<1>1. CASE pointer' = pointer
  <2>1. /\ pointer \in There /\ Reads(pointer) \subseteq There /\ ~IsFile(pointer)
        /\ \A f \in Reads(pointer) : IsFile(f)
    BY <1>0, <1>1, ReadsOfSeq, FileOrCatalog DEF InPlace, Reads, Catalogs
  <2>2. Reads(pointer) \subseteq There'
    BY <2>1, FilesSpared
  <2>3. ~\E w \in Workers : act[w].pc = "delete" /\ pointer \in act[w].doomed
    BY <1>1, <2>1 DEF Deletes, Spared
  <2>4. pointer \in There'
    BY <2>1, <2>3, ThereStays
  <2>5. QED BY <1>1, <2>2, <2>4
<1>2. CASE pointer' # pointer
  <2>1. PICK w \in Workers : Commit(w) /\ Moves(w)
    BY <1>2, PointerMoves
  <2>2. Draws(w) /\ act[w].pc = "commit" /\ pointer' = Draft(w) /\ There' = There
    BY <2>1 DEF Commit, Moves, Commits, At, Draws, There
  <2>3. act[w].draft # <<>> /\ Reads(pointer') = Range(act[w].draft)
    BY <2>2, DraftIs DEF Reads
  <2>4. QED BY <2>2, <2>3 DEF DraftsWhole
<1>3. QED BY <1>1, <1>2

-----------------------------------------------------------------------------
(* The catalog *)

CatalogInv ==
    /\ TypeOK /\ Shapes /\ SnapshotsTrue
    /\ Purposes /\ Agreed
    /\ DraftsWhole /\ Deletes /\ InPlace

LEMMA CatalogInvInit == Init => CatalogInv
<1> SUFFICES ASSUME Init PROVE CatalogInv
  OBVIOUS
<1>1. TypeOK /\ Shapes /\ SnapshotsTrue /\ Purposes /\ Agreed
  BY TypeOKInit, ShapesInit, SnapshotsTrueInit, PurposesInit
<1>2. \A w \in Workers : act[w].pc = "idle"
  BY IdleTyped DEF Init
<1>3. DraftsWhole /\ Deletes
  BY <1>2 DEF DraftsWhole, Draws, Deletes
<1>4. InPlace
  BY DEF Init, Loaded, ToLoad, InPlace, There
<1>5. QED BY <1>1, <1>3, <1>4 DEF CatalogInv

LEMMA CatalogInvNext == CatalogInv /\ [Next]_vars => CatalogInv'
BY TypeOKNext, ShapesNext, SnapshotsTrueKept, PurposesNext, AgreedKept, DraftsWholeKept, DeletesKept,
   InPlaceKept DEF CatalogInv

\* The resource's catalog is in the bucket with all it reads, unless somebody else
\* destroyed it; it reads the rows of no version but those recorded in it, and has
\* the active ones in version order: whoever loses its claim, its process or its
\* answer half-way, no clearing of leftovers takes what a catalog needs
\* (clearLakeLeftovers, commitLakeCatalog, rebuildResourceLake).
THEOREM CatalogStaysTrue == Spec => []CatalogTrue
<1>1. CatalogInv => CatalogTrue
  BY DEF CatalogInv, InPlace, There, Agreed, CatalogTrue
<1>2. QED BY <1>1, CatalogInvInit, CatalogInvNext, PTL DEF Spec
=============================================================================
