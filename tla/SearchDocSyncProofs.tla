------------------------- MODULE SearchDocSyncProofs -------------------------
(* That no edit is lost to the index, that the index never goes back, and    *)
(* that a request which asks for no job leaves its edit searchable,          *)
(* for any documents, requests, workers, batch, refused documents and faults.*)
(*                                                                           *)
(* The argument. One actor at a time reads, writes and settles (Alone), so   *)
(* between its reading and its clearing of marks only transactions move the  *)
(* rows. Each of them gives the rows it writes a mark nobody has read        *)
(* (Times). So of every row of a batch under way, either the batch writes    *)
(* what the row says, or the row is marked anew and the batch will not clear *)
(* it (InHand); and what a settled batch is to clear is right (Written). A   *)
(* rename changes documents of rows it does not write: it has the dataset    *)
(* locked from its second look on (Renaming). A purge removes the documents  *)
(* first and the rows later, and marks with them: it leaves nothing in the   *)
(* index unless the dataset was restored and deleted again between (Emptied).*)
(* A draft has no document to lose (Unseen).                                 *)
(* What a request is to write, its own transaction marked (Told); what its   *)
(* batch left out was in line when it was read, and stays so (Unread).       *)
(*                                                                           *)
(* Each action is of one of a few kinds (Quiet, Marking, Reads, Lands,       *)
(* Settles, or one of its own); each kind keeps the invariant Right.         *)
EXTENDS SearchDocSyncTypes, FiniteSetTheorems

(* The invariant *)

Mid == {"build", "write"}
Carrying == {"build", "write", "settle"}
Hidden == {"absent", "draft", "purging"}

Has(a, d) == d \in DOMAIN act[a].read
Doing(a, d) == IF Has(a, d) THEN act[a].read[d].do ELSE "clear"

\* Marked again since a read it, if a has read it.
Newer(a, d) == row[d].due /\ (Has(a, d) => row[d].text # act[a].read[d].mark)

\* The rows of a purge that crossed a restore: see StaleIsMarked.
Excused(d) == State(d) = "gone" /\ row[d].text = 1

\* Who reads, writes and settles holds the lock.
Alone == \A a \in Actors : act[a].pc \in Holding => lock = a

\* Nothing is later than the last transaction.
Times ==
    /\ org.name <= clock
    /\ \A d \in Docs : row[d].text <= clock /\ index[d].text <= clock
    /\ \A a \in Actors :
        /\ act[a].since <= clock
        /\ act[a].pc \in Carrying => \A d \in DOMAIN act[a].read :
              act[a].read[d].mark <= clock /\ act[a].read[d].content.text <= clock

\* A rename with the new name in hand has the dataset it will mark locked.
Renaming ==
    org.rename = "taken" => /\ org.joined <=> (State(dataset) = "active")
                            /\ ~org.locks => State(dataset) \in {"absent", "gone"}

\* The rows go together, and a row that is gone is not marked.
Gone ==
    /\ \A d \in Docs : State(d) = "gone" => State(dataset) = "gone" /\ ~row[d].due
    /\ State(dataset) = "gone" => \A d \in Docs : State(d) = "gone"

\* The index holds nothing of a dataset not live yet, or never to be, and nobody
\* is about to write it.
Unwritten == \A a \in Actors, d \in Docs : act[a].pc \in Mid => Doing(a, d) # "write"
Unseen == State(dataset) \in Hidden => Unwritten /\ \A d \in Docs : index[d] = Nothing

\* A batch under way writes what is right, or the row is marked again.
InHand ==
    \A a \in Actors, d \in Docs : act[a].pc \in Mid =>
        /\ Doing(a, d) = "write" =>
              \/ Excused(d) \/ Newer(a, d)
              \/ (Live(d) /\ (act[a].pc = "write" => act[a].read[d].content = Now(d)))
        /\ Doing(a, d) = "remove" \/ Doing(a, dataset) = "remove" => ~Live(d) \/ Newer(a, d)
        /\ Has(a, d) /\ Doing(a, d) = "clear" /\ row[d].due /\ ~Newer(a, d) =>
              ~Live(d) /\ index[d] = Nothing

\* The marks a settled batch is to clear are of documents that are right.
Written ==
    \A a \in Actors : act[a].pc = "settle" =>
        \A d \in Cleared(act[a].read) : index[d] = Wanted(d)

\* A purge that goes on to the rows it removed the documents of leaves none.
Emptied ==
    \A q \in Actors :
        /\ State(dataset) \in {"deleted", "purging"} /\ act[q].since = row[dataset].text
        /\ act[q].pc = "rows" \/ (act[q].pc = "settle" /\ Part1(q).how = "purge")
        => Unwritten /\ \A d \in Docs : index[d] = Nothing

\* The index is not ahead of the rows, nor what is about to be written behind the index.
Ordered ==
    /\ \A d \in Docs : /\ State(d) # "gone" => index[d].text <= row[d].text
                      /\ index[d].org <= Now(d).org
    /\ \A a \in Actors, d \in Docs : act[a].pc \in Mid /\ Doing(a, d) = "write" =>
        /\ index[d].text <= act[a].read[d].content.text
        /\ index[d].org <= act[a].read[d].content.org
        /\ State(d) # "gone" => act[a].read[d].content.text <= row[d].text
        /\ act[a].read[d].content.org <= Now(d).org

Right == Alone /\ Times /\ Renaming /\ Gone /\ Unseen /\ InHand /\ Written /\ Emptied /\ StaleIsMarked /\ Ordered
-----------------------------------------------------------------------------
(* The kinds of steps, by what they do to each row and each actor *)

\* Of the actors, a step of a moves only a.
Others(a) == \A b \in Actors \ {a} : act'[b] = act[b]

\* A transaction of q that marks the rows D.
Marking(q, D) ==
    /\ clock' = clock + 1 /\ UNCHANGED <<org, index, lock>>
    /\ act'[q].pc \in {"lock", "ask"} /\ act'[q].since = clock + 1
    /\ Others(q)
    /\ \A d \in D : /\ row'[d].text = clock + 1
                    /\ row'[d].due \/ (d = dataset /\ row'[d].state = "draft")
                    /\ row'[d].state # "gone"
    /\ \A d \in Docs \ D : row'[d] = row[d] /\ (Live(d)' <=> Live(d))
    /\ row[dataset].state # "gone"
    /\ row'[dataset].state \in Hidden => row[dataset].state \in Hidden
    /\ org.rename = "taken" => row'[dataset].state = row[dataset].state

\* A step of a that only moves it, and perhaps the lock.
Quiet(a) ==
    /\ UNCHANGED <<row, org, index, clock>>
    /\ Others(a)
    /\ act'[a].pc \notin Carrying /\ act'[a].since <= clock
    /\ act'[a].pc = "rows" => /\ act[a].pc = "settle" /\ Part1(a).how = "purge"
                              /\ act'[a].since = act[a].since
    /\ act'[a].pc = "read" => lock = Nobody /\ lock' = a
    /\ act'[a].pc # "read" => lock' = lock \/ (lock = a /\ lock' = Nobody)

\* a reads what the rows say.
Reads(a) ==
    /\ UNCHANGED <<row, org, index, clock, lock>>
    /\ Others(a)
    /\ act[a].pc = "read" /\ act'[a].pc \in Mid /\ act'[a].since <= clock
    /\ \A d \in DOMAIN act'[a].read :
        /\ d \in Docs
        /\ act'[a].read[d].mark = row[d].text /\ act'[a].read[d].content = Now(d)
        /\ act'[a].read[d].do = "write" => Live(d)
        /\ act'[a].read[d].do = "remove" => ~Live(d)
        /\ act'[a].read[d].do = "clear" => ~Live(d) /\ State(dataset) \in Hidden \cup {"gone"}
        /\ act'[a].read[d].do \in {"write", "remove", "clear"}

\* Documents of the batch of a land, all of them or some.
Lands(a) ==
    /\ UNCHANGED <<row, org, clock>>
    /\ Others(a)
    /\ act[a].pc = "write" /\ act'[a].pc \notin Mid \cup {"read", "rows"}
    /\ act'[a].pc = "settle" => act'[a].read = act[a].read
    /\ act'[a].since <= clock
    /\ \A d \in Docs :
        \/ index'[d] = index[d]
        \/ index'[d] = Nothing /\ "remove" \in {Doing(a, d), Doing(a, dataset)}
        \/ Doing(a, d) = "write" /\ index'[d] = act[a].read[d].content

-----------------------------------------------------------------------------
(* Each kind keeps Right *)

\* The numbers in the state.
LEMMA RowsAre == ASSUME Typed
    PROVE /\ clock \in Nat
          /\ \A d \in Docs : row[d].text \in Nat /\ row[d].due \in BOOLEAN /\ State(d) \in States
          /\ \A d \in Docs : index[d].text \in Int /\ index[d].org \in Int
          /\ org.name \in Nat
          /\ \A a \in Actors : act[a].since \in Nat
          /\ dataset \in Docs
  BY Bounds DEF Typed, TypeOK, State, States, Docs, Actor, Content

\* What is read of a row is a reading.
LEMMA ReadsAre == ASSUME Typed, NEW a \in Actors
    PROVE /\ DOMAIN act[a].read \subseteq Docs
          /\ \A d \in DOMAIN act[a].read : /\ act[a].read[d].mark \in Nat
                                           /\ act[a].read[d].content.text \in Int /\ act[a].read[d].content.org \in Int
                                           /\ act[a].read[d].do \in {"write", "remove", "clear"}
  <1>1. act[a].read \in UNION {[D -> Reading] : D \in SUBSET Docs} BY DEF Typed, TypeOK, Actor
  <1>2. PICK D \in SUBSET Docs : act[a].read \in [D -> Reading] BY <1>1, Zenon
  <1> QED BY <1>2, Bounds DEF Reading, Content

\* The numbers after a step.
LEMMA RowsLater == ASSUME Typed'
    PROVE org'.name \in Nat /\ \A d \in Docs : row'[d].text \in Nat
  BY Bounds DEF Typed, TypeOK

\* The name a document is to say only grows.
LEMMA NowGrows == ASSUME Typed, Typed', org.name <= org'.name, NEW d \in Docs
    PROVE Now(d).org <= Now(d)'.org /\ Now(d).org \in Nat /\ Now(d)'.org \in Nat
  BY RowsAre, RowsLater DEF Now

\* A step that leaves the index and what is read alone, and whose rows only grow.
LEMMA StaysOrdered ==
    ASSUME Typed, Typed', Ordered, index' = index, org.name <= org'.name,
           \A b \in Actors : act'[b].pc \in Mid => act[b].pc \in Mid /\ act'[b].read = act[b].read,
           \A d \in Docs : State(d)' # "gone" => State(d) # "gone" /\ row[d].text <= row'[d].text
    PROVE Ordered'
  <1>1. ASSUME NEW d \in Docs
        PROVE /\ State(d)' # "gone" => index'[d].text <= row'[d].text
              /\ index'[d].org <= Now(d)'.org
    <2>1. row'[d].text \in Nat BY RowsLater
    <2> QED BY <2>1, RowsAre, NowGrows DEF Ordered
  <1>2. ASSUME NEW a \in Actors, NEW d \in Docs, act'[a].pc \in Mid, Doing(a, d)' = "write"
        PROVE /\ index'[d].text <= act'[a].read[d].content.text
              /\ index'[d].org <= act'[a].read[d].content.org
              /\ State(d)' # "gone" => act'[a].read[d].content.text <= row'[d].text
              /\ act'[a].read[d].content.org <= Now(d)'.org
    <2>1. act[a].pc \in Mid /\ act'[a].read = act[a].read BY <1>2
    <2>2. Doing(a, d) = "write" /\ d \in DOMAIN act[a].read BY <1>2, <2>1 DEF Doing, Has
    <2>3. row'[d].text \in Nat BY RowsLater
    <2> QED BY <2>1, <2>2, <2>3, RowsAre, ReadsAre, NowGrows DEF Ordered
  <1> QED BY <1>1, <1>2 DEF Ordered

\* A step that moves only the actor.
LEMMA QuietRight == ASSUME Typed, Typed', Right, NEW a \in Actors, Quiet(a) PROVE Right'
  <1> USE DEF Right
  <1>1. \A b \in Actors : act'[b].pc \in Carrying => b # a /\ act'[b] = act[b]
    BY DEF Quiet, Others
  <1>2. Alone'
    BY SyncAssumption DEF Alone, Quiet, Others, Holding, Carrying
  <1>3. Times'
    <2>1. \A b \in Actors : act'[b].since <= clock BY DEF Times, Quiet, Others
    <2> QED BY <1>1, <2>1 DEF Times, Quiet
  <1>4. (Renaming /\ Gone)' BY DEF Renaming, Gone, Quiet, State
  <1>5. Unwritten => Unwritten' BY <1>1 DEF Unwritten, Doing, Has, Mid, Carrying
  <1>6. Unseen' BY <1>5 DEF Unseen, Quiet, State
  <1>7. InHand' BY <1>1 DEF InHand, Quiet, Doing, Has, Newer, Excused, State, Live, Now, Mid, Carrying
  <1>8. Written' BY <1>1 DEF Written, Quiet, Cleared, Wanted, Live, Now, State, Carrying
  <1>9. Emptied'
    <2>1. SUFFICES ASSUME NEW q \in Actors, State(dataset)' \in {"deleted", "purging"},
                          act'[q].since = row'[dataset].text,
                          act'[q].pc = "rows" \/ (act'[q].pc = "settle" /\ Part1(q)'.how = "purge")
                   PROVE Unwritten' /\ \A d \in Docs : index'[d] = Nothing
      BY DEF Emptied
    <2>2. act[q].since = row[dataset].text BY <2>1, <1>1 DEF Quiet, Carrying, Others
    <2>3. act[q].pc = "rows" \/ (act[q].pc = "settle" /\ Part1(q).how = "purge")
      BY <2>1, <1>1 DEF Quiet, Carrying, Others, Part1
    <2>4. State(dataset) \in {"deleted", "purging"} BY <2>1 DEF Quiet, State
    <2> QED BY <2>2, <2>3, <2>4, <1>5 DEF Emptied, Quiet
  <1>10. StaleIsMarked' BY DEF StaleIsMarked, Quiet, Wanted, Live, Now, State
  <1>11. Ordered' BY <1>1, RowsAre, StaysOrdered DEF Quiet, State, Mid, Carrying
  <1> QED BY <1>2, <1>3, <1>4, <1>6, <1>7, <1>8, <1>9, <1>10, <1>11

\* A transaction that marks: what it marks has a mark nobody has read, so that whatever
\* is under way for those rows clears nothing of them.
LEMMA MarkingRight ==
    ASSUME Typed, Typed', Right, NEW q \in Actors, NEW D \in SUBSET Docs, Marking(q, D)
    PROVE Right'
  <1> USE DEF Right
  <1>1. \A b \in Actors : act'[b].pc \in Carrying \cup {"rows"} => b # q /\ act'[b] = act[b]
    BY DEF Marking, Others, Carrying
  <1>2. Alone' BY DEF Alone, Marking, Others, Holding
  <1>3. Times'
    <2>1. \A b \in Actors : act'[b].since <= clock' BY RowsAre DEF Times, Marking, Others
    <2>2. \A d \in Docs : row'[d].text <= clock' /\ index'[d].text <= clock'
      BY RowsAre DEF Times, Marking
    <2>3. org'.name <= clock' BY RowsAre DEF Times, Marking, Typed, TypeOK
    <2>4. ASSUME NEW b \in Actors, act'[b].pc \in Carrying, NEW d \in DOMAIN act'[b].read
          PROVE act'[b].read[d].mark <= clock' /\ act'[b].read[d].content.text <= clock'
      <3>1. act'[b] = act[b] BY <1>1, <2>4
      <3>2. act[b].read[d].mark <= clock /\ act[b].read[d].content.text <= clock
        BY <2>4, <3>1 DEF Times
      <3> QED BY <2>4, <3>1, <3>2, RowsAre, ReadsAre DEF Marking
    <2> QED BY <2>1, <2>2, <2>3, <2>4 DEF Times
  <1>4. Renaming' BY DEF Renaming, Marking, State
  <1>5. Gone' BY RowsAre DEF Gone, Marking, State
  <1>6. Unwritten => Unwritten' BY <1>1 DEF Unwritten, Doing, Has, Mid, Carrying
  <1>7. Unseen' BY <1>6 DEF Unseen, Marking, State
  <1>8. InHand'
    <2>1. SUFFICES ASSUME NEW a \in Actors, NEW d \in Docs, act'[a].pc \in Mid
          PROVE /\ Doing(a, d)' = "write" =>
                      \/ Excused(d)' \/ Newer(a, d)'
                      \/ (Live(d)' /\ (act'[a].pc = "write" => act'[a].read[d].content = Now(d)'))
                /\ Doing(a, d)' = "remove" \/ Doing(a, dataset)' = "remove" => ~Live(d)' \/ Newer(a, d)'
                /\ Has(a, d)' /\ Doing(a, d)' = "clear" /\ row'[d].due /\ ~Newer(a, d)' =>
                      ~Live(d)' /\ index'[d] = Nothing
      BY DEF InHand
    <2>2. act'[a] = act[a] /\ act[a].pc \in Mid /\ act[a].pc \in Carrying
      BY <1>1, <2>1 DEF Mid, Carrying
    <2>3. CASE d \in D
      <3>1. Has(a, d) => row'[d].text # act[a].read[d].mark
        BY <2>2, <2>3, RowsAre, ReadsAre DEF Times, Marking, Has
      <3>2. CASE row'[d].due BY <2>2, <3>1, <3>2 DEF Newer, Has
      <3>3. CASE ~row'[d].due
        <4>1. d = dataset /\ row'[d].state = "draft" BY <2>3, <3>3 DEF Marking
        <4>2. ~Live(d)' BY <4>1 DEF Live, State
        <4>3. Doing(a, d)' # "write" BY <4>1, <2>2 DEF Marking, Unseen, Unwritten, Hidden, State, Doing, Has
        <4> QED BY <3>3, <4>2, <4>3
      <3> QED BY <3>2, <3>3
    <2>4. CASE d \notin D
      <3>1. row'[d] = row[d] /\ (Live(d)' <=> Live(d)) /\ Now(d)' = Now(d) /\ index'[d] = index[d]
        BY <2>4 DEF Marking, Now
      <3> QED BY <2>2, <3>1 DEF InHand, Newer, Has, Doing, Excused, State
    <2> QED BY <2>3, <2>4
  <1>9. \A d \in Docs \ D : Wanted(d)' = Wanted(d) /\ index'[d] = index[d] /\ row'[d] = row[d]
    BY DEF Marking, Wanted, Now
  <1>10. Written'
    <2>1. SUFFICES ASSUME NEW a \in Actors, act'[a].pc = "settle", NEW d \in Cleared(act[a].read)'
                   PROVE index'[d] = Wanted(d)'
      BY <1>1 DEF Written, Carrying
    <2>2. act'[a] = act[a] /\ act[a].pc \in Carrying BY <1>1, <2>1 DEF Carrying
    <2>3. d \in DOMAIN act[a].read /\ d \in Docs /\ row'[d].text = act[a].read[d].mark
      BY <2>1, <2>2, ReadsAre DEF Cleared
    <2>4. act[a].read[d].mark <= clock BY <2>2, <2>3 DEF Times
    <2>5. d \notin D BY <2>3, <2>4, RowsAre, ReadsAre DEF Marking
    <2>6. d \in Cleared(act[a].read) BY <1>9, <2>1, <2>2, <2>3, <2>5 DEF Cleared
    <2> QED BY <1>9, <2>1, <2>2, <2>3, <2>5, <2>6 DEF Written
  <1>11. Emptied'
    <2>1. SUFFICES ASSUME NEW p \in Actors, State(dataset)' \in {"deleted", "purging"},
                          act'[p].since = row'[dataset].text,
                          act'[p].pc = "rows" \/ (act'[p].pc = "settle" /\ Part1(p)'.how = "purge")
                   PROVE Unwritten' /\ \A d \in Docs : index'[d] = Nothing
      BY DEF Emptied
    <2>2. act'[p] = act[p] BY <1>1, <2>1 DEF Carrying
    <2>3. dataset \notin D BY <2>1, <2>2, RowsAre DEF Times, Marking
    <2>4. row'[dataset] = row[dataset] BY <2>3, RowsAre DEF Marking
    <2>5. Unwritten /\ \A d \in Docs : index[d] = Nothing
      BY <2>1, <2>2, <2>4 DEF Emptied, State, Part1
    <2> QED BY <2>5, <1>6 DEF Marking
  <1>12. StaleIsMarked'
    <2>1. SUFFICES ASSUME NEW d \in Docs, ~row'[d].due PROVE index'[d] = Wanted(d)' \/ Excused(d)'
      BY DEF StaleIsMarked, Excused
    <2>2. CASE d \notin D BY <1>9, <2>1, <2>2 DEF StaleIsMarked, Excused, State
    <2>3. CASE d \in D
      <3>1. d = dataset /\ row'[d].state = "draft" BY <2>1, <2>3 DEF Marking
      <3>2. Wanted(d)' = Nothing BY <3>1 DEF Wanted, Live, State
      <3>3. index[d] = Nothing BY <3>1 DEF Marking, Unseen, Hidden, State
      <3> QED BY <3>2, <3>3 DEF Marking
    <2> QED BY <2>2, <2>3
  <1>13. Ordered'
    <2>1. \A b \in Actors : act'[b].pc \in Mid => act[b].pc \in Mid /\ act'[b].read = act[b].read
      BY <1>1 DEF Mid, Carrying
    <2>2. ASSUME NEW d \in Docs PROVE State(d) # "gone" /\ row[d].text <= row'[d].text
      BY RowsAre DEF Marking, Gone, State, Times
    <2> QED BY <2>1, <2>2, RowsAre, StaysOrdered DEF Marking
  <1> QED BY <1>2, <1>3, <1>4, <1>5, <1>7, <1>8, <1>10, <1>11, <1>12, <1>13

\* While a reads, builds or writes, nobody else does.
LEMMA OthersWait == ASSUME Alone, NEW a \in Actors, act[a].pc \in Holding
                    PROVE \A b \in Actors \ {a} : act[b].pc \notin Holding
  BY DEF Alone

\* Reading the rows: what is to be written is what they say.
LEMMA ReadsRight == ASSUME Typed, Typed', Right, NEW a \in Actors, Reads(a) PROVE Right'
  <1> USE DEF Right
  <1>1. \A b \in Actors : act'[b].pc \in Carrying => b = a
    BY OthersWait DEF Reads, Others, Carrying, Holding
  <1>2. Alone' BY <1>1, OthersWait DEF Alone, Reads, Others, Holding, Mid
  <1>3. Times'
    <2>1. \A b \in Actors : act'[b].since <= clock BY DEF Times, Reads, Others
    <2>2. \A d \in DOMAIN act'[a].read : act'[a].read[d].mark <= clock /\ act'[a].read[d].content.text <= clock
      <3>1. TAKE d \in DOMAIN act'[a].read
      <3>2. d \in Docs /\ act'[a].read[d].mark = row[d].text /\ act'[a].read[d].content = Now(d)
        BY DEF Reads
      <3>3. Now(d).text = row[d].text BY DEF Now
      <3> QED BY <3>2, <3>3 DEF Times
    <2> QED BY <1>1, <2>1, <2>2 DEF Times, Reads
  <1>4. (Renaming /\ Gone)' BY DEF Renaming, Gone, Reads, State
  <1>5. State(dataset) # "active" => Unwritten'
    BY <1>1, ReadsAre DEF Unwritten, Doing, Has, Mid, Carrying, Reads, Live
  <1>6. Unseen' BY <1>5 DEF Unseen, Reads, State, Hidden
  <1>7. InHand'
    <2>1. SUFFICES ASSUME NEW d \in Docs
          PROVE /\ Doing(a, d)' = "write" => Live(d)' /\ act'[a].read[d].content = Now(d)'
                /\ Doing(a, d)' = "remove" \/ Doing(a, dataset)' = "remove" => ~Live(d)'
                /\ Has(a, d)' /\ Doing(a, d)' = "clear" /\ row'[d].due => ~Live(d)' /\ index'[d] = Nothing
      BY <1>1 DEF InHand, Mid, Carrying
    <2>2. Live(d)' = Live(d) /\ Now(d)' = Now(d) /\ index'[d] = index[d] /\ row'[d] = row[d]
      BY DEF Reads, Live, State, Now
    <2>3. Doing(a, d)' = "write" => Live(d)' /\ act'[a].read[d].content = Now(d)'
      BY <2>2 DEF Reads, Doing, Has
    <2>4. Doing(a, d)' = "remove" => ~Live(d) BY DEF Reads, Doing, Has
    <2>5. Doing(a, dataset)' = "remove" => ~Live(d) BY DEF Reads, Doing, Has, Live
    <2>6. Has(a, d)' /\ Doing(a, d)' = "clear" /\ row[d].due => ~Live(d) /\ index[d] = Nothing
      <3>1. SUFFICES ASSUME Has(a, d)', Doing(a, d)' = "clear", row[d].due
                     PROVE ~Live(d) /\ index[d] = Nothing
        OBVIOUS
      <3>2. ~Live(d) /\ State(dataset) \in Hidden \cup {"gone"} BY <3>1 DEF Reads, Doing, Has
      <3>3. State(dataset) # "gone" BY <3>1 DEF Gone
      <3> QED BY <3>2, <3>3 DEF Unseen
    <2> QED BY <2>2, <2>3, <2>4, <2>5, <2>6
  <1>8. Written' BY <1>1 DEF Written, Reads, Carrying, Mid
  <1>9. Emptied'
    <2>1. SUFFICES ASSUME NEW q \in Actors, State(dataset)' \in {"deleted", "purging"},
                          act'[q].since = row'[dataset].text,
                          act'[q].pc = "rows" \/ (act'[q].pc = "settle" /\ Part1(q)'.how = "purge")
                   PROVE Unwritten' /\ \A d \in Docs : index'[d] = Nothing
      BY DEF Emptied
    <2>2. act'[q] = act[q] BY <2>1 DEF Reads, Others, Mid
    <2>3. State(dataset) \in {"deleted", "purging"} BY <2>1 DEF Reads, State
    <2>4. \A d \in Docs : index[d] = Nothing BY <2>1, <2>2, <2>3 DEF Emptied, Reads, Part1
    <2> QED BY <2>3, <2>4, <1>5 DEF Reads
  <1>10. StaleIsMarked' BY DEF StaleIsMarked, Reads, Wanted, Live, Now, State
  <1>11. Ordered'
    <2>1. \A d \in Docs : Now(d)' = Now(d) /\ State(d)' = State(d) /\ row'[d] = row[d] /\ index'[d] = index[d]
      BY DEF Reads, Now, State
    <2>2. ASSUME NEW d \in Docs, Doing(a, d)' = "write"
          PROVE act'[a].read[d].content = Now(d) /\ State(d) # "gone" /\ Now(d).text = row[d].text
      BY <2>2 DEF Reads, Doing, Has, Live, Now
    <2>3. \A d \in Docs : Now(d).org \in Int BY RowsAre DEF Now
    <2> QED BY <1>1, <2>1, <2>2, <2>3, RowsAre DEF Ordered, Mid, Carrying
  <1> QED BY <1>2, <1>3, <1>4, <1>6, <1>7, <1>8, <1>9, <1>10, <1>11

\* Building the documents: what went out of sight meanwhile is not written.
LEMMA BuildRight == ASSUME Typed, Typed', Right, NEW a \in Actors, BuildDoc(a) PROVE Right'
  <1> USE DEF Right
  <1> DEFINE old == act[a].read
             new == act'[a].read
  <1>1. /\ act[a].pc = "build" /\ act'[a].pc = "write" /\ act'[a].since = act[a].since
        /\ Others(a) /\ UNCHANGED <<row, org, index, lock, clock>>
        /\ new = [d \in DOMAIN old |-> IF old[d].do = "write" /\ ~Live(d) THEN [old[d] EXCEPT !.do = "clear"]
                                       ELSE [old[d] EXCEPT !.content = Now(d)]]
    <2>1. act[a] \in Actor /\ act \in [Actors -> Actor] BY DEF Typed, TypeOK
    <2> QED BY <2>1 DEF BuildDoc, Others, Actor
  <1>2. /\ DOMAIN new = DOMAIN old
        /\ \A d \in DOMAIN new :
              /\ new[d].mark = old[d].mark
              /\ new[d].content \in {old[d].content, Now(d)}
              /\ new[d].do = "write" => Live(d) /\ old[d].do = "write" /\ new[d].content = Now(d)
              /\ new[d].do = "remove" <=> old[d].do = "remove"
              /\ new[d].do = "clear" => old[d].do = "clear" \/ (old[d].do = "write" /\ ~Live(d))
    <2>1. PICK E \in SUBSET Docs : old \in [E -> Reading]
      <3>1. act[a].read \in UNION {[E -> Reading] : E \in SUBSET Docs} BY DEF Typed, TypeOK, Actor
      <3> QED BY <3>1, Zenon
    <2>2. /\ DOMAIN new = E /\ DOMAIN old = E
          /\ \A d \in E : /\ old[d] \in Reading
                          /\ new[d] = IF old[d].do = "write" /\ ~Live(d) THEN [old[d] EXCEPT !.do = "clear"]
                                      ELSE [old[d] EXCEPT !.content = Now(d)]
      BY <1>1, <2>1
    <2>3. \A x \in Reading : /\ x.do \in {"write", "remove", "clear"}
                            /\ [x EXCEPT !.do = "clear"].do = "clear"
                            /\ [x EXCEPT !.do = "clear"].mark = x.mark
                            /\ [x EXCEPT !.do = "clear"].content = x.content
      BY DEF Reading
    <2>4. \A x \in Reading : \A c : /\ [x EXCEPT !.content = c].do = x.do
                                   /\ [x EXCEPT !.content = c].mark = x.mark
                                   /\ [x EXCEPT !.content = c].content = c
      BY DEF Reading
    <2>5. ASSUME NEW d \in E
          PROVE /\ new[d].mark = old[d].mark
                /\ new[d].content \in {old[d].content, Now(d)}
                /\ new[d].do = "write" => Live(d) /\ old[d].do = "write" /\ new[d].content = Now(d)
                /\ new[d].do = "remove" <=> old[d].do = "remove"
                /\ new[d].do = "clear" => old[d].do = "clear" \/ (old[d].do = "write" /\ ~Live(d))
      <3> HIDE DEF old, new
      <3>1. CASE old[d].do = "write" /\ ~Live(d)
        <4>1. new[d] = [old[d] EXCEPT !.do = "clear"] BY <2>2, <3>1
        <4> QED BY <2>2, <2>3, <3>1, <4>1
      <3>2. CASE ~(old[d].do = "write" /\ ~Live(d))
        <4>1. new[d] = [old[d] EXCEPT !.content = Now(d)] BY <2>2, <3>2
        <4>2. /\ new[d].do = old[d].do /\ new[d].mark = old[d].mark /\ new[d].content = Now(d)
              /\ old[d].do \in {"write", "remove", "clear"}
          BY <2>2, <2>3, <2>4, <4>1
        <4> QED BY <3>2, <4>2
      <3> QED BY <3>1, <3>2
    <2> HIDE DEF old, new
    <2> QED BY <2>2, <2>5
  <1> HIDE DEF old, new
  <1>3. \A b \in Actors : act'[b].pc \in Carrying => b = a
    BY <1>1, OthersWait DEF Others, Carrying, Holding
  <1>4. Alone' BY <1>1 DEF Alone, Others, Holding
  <1>5. Times'
    <2>1. \A b \in Actors : act'[b].since <= clock BY <1>1 DEF Times, Others
    <2>2. \A d \in DOMAIN new : new[d].mark <= clock /\ new[d].content.text <= clock
      <3>1. \A d \in DOMAIN old : d \in Docs /\ old[d].mark <= clock /\ old[d].content.text <= clock
        BY <1>1, ReadsAre DEF Times, Carrying, old
      <3>2. \A d \in DOMAIN old : Now(d).text <= clock BY <3>1 DEF Times, Now
      <3>3. TAKE d \in DOMAIN new
      <3>4. d \in DOMAIN old /\ new[d].mark = old[d].mark /\ new[d].content \in {old[d].content, Now(d)}
        BY <1>2
      <3> QED BY <3>1, <3>2, <3>4
    <2> QED BY <1>1, <1>3, <2>1, <2>2 DEF Times, new
  <1>6. (Renaming /\ Gone)' BY <1>1 DEF Renaming, Gone, State
  <1>7. Unwritten => Unwritten'
    <2>1. \A d \in Docs : Doing(a, d)' = "write" => Doing(a, d) = "write"
      BY <1>2 DEF Doing, Has, old, new
    <2> QED BY <1>1, <1>3, <2>1 DEF Unwritten, Mid, Carrying
  <1>8. Unseen' BY <1>1, <1>7 DEF Unseen, State
  <1>9. InHand'
    <2>1. SUFFICES ASSUME NEW d \in Docs
          PROVE /\ Doing(a, d)' = "write" => Live(d)' /\ act'[a].read[d].content = Now(d)'
                /\ Doing(a, d)' = "remove" \/ Doing(a, dataset)' = "remove" => ~Live(d)' \/ Newer(a, d)'
                /\ Has(a, d)' /\ Doing(a, d)' = "clear" /\ row'[d].due /\ ~Newer(a, d)' =>
                      ~Live(d)' /\ index'[d] = Nothing
      BY <1>3 DEF InHand, Mid, Carrying
    <2>2. /\ Live(d)' = Live(d) /\ Now(d)' = Now(d) /\ index'[d] = index[d] /\ row'[d] = row[d]
          /\ Has(a, d)' = Has(a, d) /\ Newer(a, d)' = Newer(a, d)
      BY <1>1, <1>2 DEF Live, State, Now, Has, Newer, old, new
    <2>3. Doing(a, d)' = "write" => Live(d) /\ act'[a].read[d].content = Now(d)
      BY <1>2 DEF Doing, Has, old, new
    <2>4. \A e \in Docs : Doing(a, e)' = "remove" <=> Doing(a, e) = "remove"
      BY <1>2 DEF Doing, Has, old, new
    <2>5. Doing(a, d) = "remove" \/ Doing(a, dataset) = "remove" => ~Live(d) \/ Newer(a, d)
      BY <1>1 DEF InHand, Mid
    <2>6. ASSUME Has(a, d), Doing(a, d)' = "clear", row[d].due, ~Newer(a, d)
          PROVE ~Live(d) /\ index[d] = Nothing
      <3>1. Doing(a, d) = "clear" \/ (Doing(a, d) = "write" /\ ~Live(d))
        BY <1>2, <2>2, <2>6 DEF Doing, Has, old, new
      <3>2. ~Excused(d) BY <2>6 DEF Excused, Gone
      <3> QED BY <1>1, <2>6, <3>1, <3>2 DEF InHand, Mid
    <2> QED BY <2>2, <2>3, <2>4, <2>5, <2>6, RowsAre
  <1>10. Written' BY <1>1, <1>3 DEF Written, Carrying
  <1>11. Emptied'
    <2>1. SUFFICES ASSUME NEW q \in Actors, State(dataset)' \in {"deleted", "purging"},
                          act'[q].since = row'[dataset].text,
                          act'[q].pc = "rows" \/ (act'[q].pc = "settle" /\ Part1(q)'.how = "purge")
                   PROVE Unwritten' /\ \A d \in Docs : index'[d] = Nothing
      BY DEF Emptied
    <2>2. act'[q] = act[q] BY <1>1, <2>1 DEF Others
    <2>3. Unwritten /\ \A d \in Docs : index[d] = Nothing
      BY <1>1, <2>1, <2>2 DEF Emptied, Part1, State
    <2> QED BY <2>3, <1>1, <1>7
  <1>12. StaleIsMarked' BY <1>1 DEF StaleIsMarked, Wanted, Live, Now, State
  <1>13. Ordered'
    <2>1. \A d \in Docs : Now(d)' = Now(d) /\ State(d)' = State(d) /\ row'[d] = row[d] /\ index'[d] = index[d]
      BY <1>1 DEF Now, State
    <2>2. ASSUME NEW d \in Docs, Doing(a, d)' = "write"
          PROVE act'[a].read[d].content = Now(d) /\ State(d) # "gone" /\ Now(d).text = row[d].text
      BY <1>2, <2>2 DEF Doing, Has, Live, Now, new
    <2>3. \A d \in Docs : Now(d).org \in Int BY RowsAre DEF Now
    <2> QED BY <1>3, <2>1, <2>2, <2>3, RowsAre DEF Ordered, Mid, Carrying
  <1> QED BY <1>4, <1>5, <1>6, <1>8, <1>9, <1>10, <1>11, <1>12, <1>13

\* What holds of the index after a batch, or a piece of one, landed.
LEMMA LandsRight == ASSUME Typed, Typed', Right, NEW a \in Actors, Lands(a)
                    PROVE /\ Times' /\ Renaming' /\ Gone' /\ Unseen' /\ InHand' /\ StaleIsMarked' /\ Ordered'
                          /\ \A b \in Actors \ {a} : act'[b].pc \notin Holding
                          /\ Unwritten'
                          /\ \A q \in Actors \ {a} :
                                /\ State(dataset)' \in {"deleted", "purging"}
                                /\ act'[q].since = row'[dataset].text /\ act'[q].pc = "rows"
                                => \A d \in Docs : index'[d] = Nothing
  <1> USE DEF Right
  <1>1. \A b \in Actors \ {a} : act'[b] = act[b] /\ act'[b].pc \notin Holding
    BY OthersWait DEF Lands, Others, Holding
  <1>2. \A b \in Actors : act'[b].pc \notin Mid
    BY <1>1 DEF Lands, Mid, Holding
  <1>3. Unwritten' /\ InHand' BY <1>2 DEF Unwritten, InHand
  <1>4. Times'
    <2>1. \A b \in Actors : act'[b].since <= clock BY DEF Times, Lands, Others
    <2>2. act'[a].pc \in Carrying => act'[a].read = act[a].read
      BY DEF Lands, Carrying, Mid
    <2>3. \A d \in DOMAIN act[a].read : act[a].read[d].mark <= clock /\ act[a].read[d].content.text <= clock
      BY DEF Lands, Carrying, Times
    <2>4. \A b \in Actors : act'[b].pc \in Carrying => b = a BY <1>1 DEF Carrying, Holding
    <2>5. \A d \in Docs : index'[d].text <= clock
      <3>1. Nothing.text <= clock BY RowsAre DEF Nothing
      <3>2. TAKE d \in Docs
      <3>3. CASE index'[d] = index[d] BY <3>3 DEF Times
      <3>4. CASE Doing(a, d) = "write" /\ index'[d] = act[a].read[d].content
        BY <3>4, <2>3 DEF Doing, Has
      <3> QED BY <3>1, <3>3, <3>4 DEF Lands
    <2> QED BY <2>1, <2>2, <2>3, <2>4, <2>5 DEF Times, Lands
  <1>5. (Renaming /\ Gone)' BY DEF Renaming, Gone, Lands, State
  <1>6. Unwritten /\ (\A d \in Docs : index[d] = Nothing) => \A d \in Docs : index'[d] = Nothing
    BY DEF Unwritten, Lands, Mid
  <1>7. Unseen' BY <1>3, <1>6 DEF Unseen, Lands, State
  <1>8. StaleIsMarked'
    <2>1. SUFFICES ASSUME NEW d \in Docs, ~row[d].due, ~Excused(d) PROVE index'[d] = Wanted(d)
      BY DEF StaleIsMarked, Lands, Excused, State, Wanted, Live, Now
    <2>2. index[d] = Wanted(d) BY <2>1 DEF StaleIsMarked, Excused
    <2>3. ~Newer(a, d) BY <2>1 DEF Newer
    <2>4. CASE index'[d] = Nothing /\ "remove" \in {Doing(a, d), Doing(a, dataset)}
      BY <2>3, <2>4 DEF InHand, Lands, Mid, Wanted
    <2>5. CASE Doing(a, d) = "write" /\ index'[d] = act[a].read[d].content
      BY <2>1, <2>3, <2>5 DEF InHand, Lands, Mid, Wanted
    <2> QED BY <2>2, <2>4, <2>5 DEF Lands
  <1>9. ASSUME NEW q \in Actors \ {a}, State(dataset)' \in {"deleted", "purging"},
               act'[q].since = row'[dataset].text, act'[q].pc = "rows"
        PROVE \A d \in Docs : index'[d] = Nothing
    <2>1. act[q].pc = "rows" /\ act[q].since = row[dataset].text /\ State(dataset) \in {"deleted", "purging"}
      BY <1>1, <1>9 DEF Lands, State
    <2> QED BY <2>1, <1>6 DEF Emptied
  <1>10. Ordered'
    <2>1. \A d \in Docs : Now(d)' = Now(d) /\ State(d)' = State(d) /\ row'[d] = row[d]
      BY DEF Lands, Now, State
    <2>2. ASSUME NEW d \in Docs
          PROVE /\ State(d) # "gone" => index'[d].text <= row[d].text
                /\ index'[d].org <= Now(d).org
      <3>1. Nothing.text = -1 /\ Nothing.org = -1 BY DEF Nothing
      <3>2. Now(d).org \in Nat BY RowsAre DEF Now
      <3>3. CASE index'[d] = index[d] BY <3>3 DEF Ordered
      <3>4. CASE index'[d] = Nothing BY <3>1, <3>2, <3>4, RowsAre
      <3>5. CASE Doing(a, d) = "write" /\ index'[d] = act[a].read[d].content
        BY <3>5 DEF Ordered, Lands, Mid
      <3> QED BY <3>3, <3>4, <3>5 DEF Lands
    <2> QED BY <1>2, <2>1, <2>2 DEF Ordered
  <1> QED BY <1>1, <1>3, <1>4, <1>5, <1>7, <1>8, <1>9, <1>10

\* What a document is after a whole batch.
LEMMA LandedAt == ASSUME NEW a, NEW d \in Docs, dataset \in Docs
    PROVE Landed(act[a].read)[d] =
             IF Doing(a, d) = "remove" \/ Doing(a, dataset) = "remove" THEN Nothing
             ELSE IF Doing(a, d) = "write" /\ d \notin Rejected THEN act[a].read[d].content
             ELSE index[d]
  BY DEF Landed, Doing, Has

\* Writing the index lands the whole batch.
LEMMA WriteLands == ASSUME Typed, Right, NEW a \in Actors, WriteIndex(a)
    PROVE /\ act[a].pc = "write" /\ act'[a].pc = "settle" /\ act'[a].since = act[a].since
          /\ act'[a].read = act[a].read /\ act'[a].todo = act[a].todo
          /\ Others(a) /\ UNCHANGED <<row, org, lock, clock>>
          /\ \A d \in Docs : index'[d] =
                IF Doing(a, d) = "remove" \/ Doing(a, dataset) = "remove" THEN Nothing
                ELSE IF Doing(a, d) = "write" /\ d \notin Rejected THEN act[a].read[d].content
                ELSE index[d]
          /\ Lands(a)
  <1>1. /\ act[a].pc = "write" /\ act'[a].pc = "settle" /\ act'[a].since = act[a].since
        /\ act'[a].read = act[a].read /\ act'[a].todo = act[a].todo
        /\ Others(a) /\ UNCHANGED <<row, org, lock, clock>> /\ index' = Landed(act[a].read)
    BY DEF WriteIndex, Typed, TypeOK, Actor, Others
  <1>2. \A d \in Docs : index'[d] = IF Doing(a, d) = "remove" \/ Doing(a, dataset) = "remove" THEN Nothing
             ELSE IF Doing(a, d) = "write" /\ d \notin Rejected THEN act[a].read[d].content
             ELSE index[d]
    BY <1>1, LandedAt, RowsAre
  <1>3. Lands(a) BY <1>1, <1>2 DEF Lands, Mid, Right, Times
  <1> QED BY <1>1, <1>2, <1>3

\* A whole batch landed: what it may clear is as the rows say.
LEMMA WriteRight == ASSUME Typed, Typed', Right, NEW a \in Actors, WriteIndex(a) PROVE Right'
  <1> USE DEF Right
  <1>1. /\ act[a].pc = "write" /\ act'[a].pc = "settle" /\ act'[a].since = act[a].since
        /\ act'[a].read = act[a].read /\ act'[a].todo = act[a].todo
        /\ Others(a) /\ UNCHANGED <<row, org, lock, clock>>
    BY WriteLands
  <1>2. \A d \in Docs : index'[d] = IF Doing(a, d) = "remove" \/ Doing(a, dataset) = "remove" THEN Nothing
             ELSE IF Doing(a, d) = "write" /\ d \notin Rejected THEN act[a].read[d].content
             ELSE index[d]
    BY WriteLands
  <1>3. Lands(a) BY WriteLands
  <1>4. Alone' BY <1>1 DEF Alone, Others, Holding
  <1>5. \A b \in Actors : act'[b].pc \in Holding => b = a BY <1>3, LandsRight
  <1>6. Written'
    <2>1. SUFFICES ASSUME NEW d \in Cleared(act[a].read)' PROVE index'[d] = Wanted(d)
      BY <1>1, <1>5 DEF Written, Holding, Wanted, Live, State, Now
    <2>2. /\ Has(a, d) /\ d \in Docs /\ row[d].due /\ row[d].text = act[a].read[d].mark
          /\ ~(Doing(a, d) = "write" /\ d \in Rejected)
      BY <1>1, <2>1, ReadsAre DEF Cleared, Has, Doing
    <2>3. ~Newer(a, d) /\ ~Excused(d) BY <2>2 DEF Newer, Excused, Gone
    <2>4. CASE Doing(a, d) = "remove" \/ Doing(a, dataset) = "remove"
      BY <1>1, <1>2, <2>2, <2>3, <2>4 DEF InHand, Mid, Wanted
    <2>5. CASE Doing(a, d) = "write" /\ Doing(a, dataset) # "remove"
      BY <1>1, <1>2, <2>2, <2>3, <2>5 DEF InHand, Mid, Wanted
    <2>6. CASE Doing(a, d) = "clear" /\ Doing(a, dataset) # "remove"
      BY <1>1, <1>2, <2>2, <2>3, <2>6 DEF InHand, Mid, Wanted
    <2>7. Doing(a, d) \in {"write", "remove", "clear"} BY <2>2, ReadsAre DEF Doing, Has
    <2> QED BY <2>4, <2>5, <2>6, <2>7
  <1>7. Emptied'
    <2>1. SUFFICES ASSUME NEW q \in Actors, State(dataset)' \in {"deleted", "purging"},
                          act'[q].since = row'[dataset].text,
                          act'[q].pc = "rows" \/ (act'[q].pc = "settle" /\ Part1(q)'.how = "purge")
                   PROVE \A d \in Docs : index'[d] = Nothing
      BY <1>3, LandsRight DEF Emptied
    <2>2. CASE q # a BY <1>3, <1>5, <2>1, <2>2, LandsRight DEF Holding
    <2>3. CASE q = a
      <3>1. Part1(a).how = "purge" BY <1>1, <2>1, <2>3 DEF Part1
      <3>2. Doing(a, dataset) = "remove"
        BY <1>1, <3>1 DEF Typed, Formed, WellFormed, Part1, Doing, Has
      <3> QED BY <1>2, <3>2
    <2> QED BY <2>2, <2>3
  <1> QED BY <1>3, <1>4, <1>6, <1>7, LandsRight

\* What GivenUp leaves of an actor.
LEMMA GivenUpAt == ASSUME Typed, NEW a \in Actors, GivenUp(a)
    PROVE /\ Others(a) /\ lock' = Nobody
          /\ act'[a].pc \in {"ask", "idle"} /\ act'[a].since \in {0, act[a].since}
  <1>1. \A r : act' = [act EXCEPT ![a] = r] => act'[a] = r /\ Others(a)
    BY DEF Typed, TypeOK, Others
  <1>2. Asking(a).pc = "ask" /\ Asking(a).since = act[a].since BY DEF Asking, Typed, TypeOK, Actor
  <1>3. Idle.pc = "idle" /\ Idle.since = 0 BY DEF Idle
  <1> QED BY <1>1, <1>2, <1>3 DEF GivenUp

\* A failure of the index lands a piece of the batch.
LEMMA FailLands == ASSUME Typed, Right, NEW a \in Actors, IndexFails(a)
    PROVE /\ act[a].pc = "write" /\ UNCHANGED <<row, org, clock>>
          /\ act'[a].pc \in {"ask", "idle"} /\ act'[a].since <= clock /\ lock' = Nobody
          /\ Others(a) /\ Lands(a)
  <1>1. /\ act[a].pc = "write" /\ UNCHANGED <<row, org, clock>>
        /\ act'[a].pc \in {"ask", "idle"} /\ act'[a].since <= clock /\ lock' = Nobody
        /\ Others(a)
    BY GivenUpAt, RowsAre DEF IndexFails, Right, Times
  <1>2. ASSUME NEW D \in SUBSET DOMAIN act[a].read, index' = Landed([d \in D |-> act[a].read[d]]),
               NEW d \in Docs
        PROVE \/ index'[d] = index[d]
              \/ index'[d] = Nothing /\ "remove" \in {Doing(a, d), Doing(a, dataset)}
              \/ Doing(a, d) = "write" /\ index'[d] = act[a].read[d].content
    <2> DEFINE part == [e \in D |-> act[a].read[e]]
               what(e) == IF e \in D THEN part[e].do ELSE "clear"
    <2>1. \A e \in D : part[e] = act[a].read[e] /\ Doing(a, e) = part[e].do
      BY DEF Doing, Has
    <2>2. index'[d] = IF what(d) = "remove" \/ what(dataset) = "remove" THEN Nothing
                      ELSE IF what(d) = "write" /\ d \notin Rejected THEN part[d].content
                      ELSE index[d]
      BY <1>2 DEF Landed
    <2> HIDE DEF part
    <2>3. CASE what(d) = "remove" \/ what(dataset) = "remove" BY <2>1, <2>2, <2>3
    <2>4. CASE what(d) = "write" BY <2>1, <2>2, <2>4
    <2> QED BY <2>2, <2>3, <2>4
  <1>3. ASSUME NEW d \in Docs
        PROVE \/ index'[d] = index[d]
              \/ index'[d] = Nothing /\ "remove" \in {Doing(a, d), Doing(a, dataset)}
              \/ Doing(a, d) = "write" /\ index'[d] = act[a].read[d].content
    <2>1. CASE \E D \in SUBSET DOMAIN act[a].read : index' = Landed([e \in D |-> act[a].read[e]])
      BY <1>2, <2>1
    <2>2. CASE /\ dataset \in DOMAIN act[a].read /\ act[a].read[dataset].do = "remove"
               /\ index' = ChildrenGone
      <3>1. Doing(a, dataset) = "remove" BY <2>2 DEF Doing, Has
      <3>2. index'[d] = index[d] \/ index'[d] = Nothing BY <2>2 DEF ChildrenGone
      <3> QED BY <3>1, <3>2
    <2> QED BY <2>1, <2>2 DEF IndexFails
  <1>4. Lands(a) BY <1>1, <1>3 DEF Lands, Mid
  <1> QED BY <1>1, <1>4

\* A piece of a batch landed, and nothing is cleared.
LEMMA FailRight == ASSUME Typed, Typed', Right, NEW a \in Actors, IndexFails(a) PROVE Right'
  <1> USE DEF Right
  <1>1. /\ act[a].pc = "write" /\ UNCHANGED <<row, org, clock>>
        /\ act'[a].pc \in {"ask", "idle"} /\ act'[a].since <= clock /\ lock' = Nobody
        /\ Others(a)
    BY FailLands
  <1>4. Lands(a) BY FailLands
  <1>5. \A b \in Actors : act'[b].pc \notin Holding
    BY <1>1, <1>4, LandsRight DEF Holding
  <1>6. Alone' /\ Written' BY <1>5 DEF Alone, Written, Holding
  <1>7. Emptied'
    <2>1. SUFFICES ASSUME NEW q \in Actors, State(dataset)' \in {"deleted", "purging"},
                          act'[q].since = row'[dataset].text, act'[q].pc = "rows"
                   PROVE \A d \in Docs : index'[d] = Nothing
      BY <1>4, <1>5, LandsRight DEF Emptied, Holding
    <2> QED BY <1>1, <1>4, <2>1, LandsRight
  <1> QED BY <1>4, <1>6, <1>7, LandsRight

\* The end of a batch that was to bring rows and index together.
Settles(a) ==
    /\ UNCHANGED <<org, index, clock>> /\ lock' = Nobody
    /\ Others(a)
    /\ act[a].pc = "settle"
    /\ act'[a].pc \in {"idle", "lock", "list", "ask"} /\ act'[a].since <= clock
    /\ \A d \in Docs : row'[d].state = row[d].state /\ row'[d].text = row[d].text
    /\ \A d \in Docs : IF d \in Cleared(act[a].read) THEN ~row'[d].due ELSE row'[d].due = row[d].due

\* Marks cleared.
LEMMA SettlesRight == ASSUME Typed, Typed', Right, NEW a \in Actors, Settles(a) PROVE Right'
  <1> USE DEF Right
  <1>1. \A b \in Actors : act'[b].pc \notin Holding
    BY OthersWait DEF Settles, Others, Holding
  <1>2. \A d \in Docs : /\ State(d)' = State(d) /\ Live(d)' = Live(d) /\ Now(d)' = Now(d)
                        /\ Wanted(d)' = Wanted(d) /\ Excused(d)' = Excused(d)
                        /\ row'[d].text = row[d].text /\ (row'[d].due => row[d].due)
    BY RowsAre DEF Settles, State, Live, Now, Wanted, Excused
  <1>3. (Alone /\ Written /\ InHand /\ Unwritten)'
    BY <1>1 DEF Alone, Written, InHand, Unwritten, Holding, Mid
  <1>4. Times'
    <2>1. \A b \in Actors : act'[b].since <= clock BY DEF Times, Settles, Others
    <2> QED BY <1>1, <1>2, <2>1 DEF Times, Settles, Carrying, Holding
  <1>5. (Renaming /\ Gone)' BY <1>2, RowsAre DEF Renaming, Gone, Settles
  <1>6. Unseen' BY <1>2, <1>3, RowsAre DEF Unseen, Settles
  <1>7. Emptied'
    <2>1. SUFFICES ASSUME NEW q \in Actors, State(dataset)' \in {"deleted", "purging"},
                          act'[q].since = row'[dataset].text, act'[q].pc = "rows"
                   PROVE \A d \in Docs : index'[d] = Nothing
      BY <1>1, <1>3 DEF Emptied, Holding
    <2>2. act'[q] = act[q] BY <2>1 DEF Settles, Others
    <2> QED BY <1>2, <2>1, <2>2, RowsAre DEF Emptied, Settles
  <1>8. StaleIsMarked'
    <2>1. SUFFICES ASSUME NEW d \in Docs, ~row'[d].due, ~Excused(d) PROVE index[d] = Wanted(d)
      BY <1>2 DEF StaleIsMarked, Settles, Excused
    <2>2. CASE d \in Cleared(act[a].read) BY <2>2 DEF Written, Settles
    <2>3. CASE d \notin Cleared(act[a].read) BY <2>1, <2>3 DEF Settles, StaleIsMarked, Excused
    <2> QED BY <2>2, <2>3
  <1>9. Ordered' BY <1>1, <1>2, RowsAre, StaysOrdered DEF Settles, Holding, Mid
  <1> QED BY <1>3, <1>4, <1>5, <1>6, <1>7, <1>8, <1>9

\* A draft claimed for purging: the index holds nothing of it.
LEMMA PurgeDraftRight == ASSUME Typed, Typed', Right, NEW q \in Requests, PurgeDraft(q), act[q].pc = "idle"
                         PROVE Right'
  <1> USE DEF Right
  <1>1. /\ UNCHANGED <<org, index, lock, clock>> /\ Others(q)
        /\ act'[q].pc = "lock" /\ act'[q].since = 0
    BY DEF PurgeDraft, Typed, TypeOK, Others, Idle, Actors
  <1>2. /\ \A d \in Docs : row'[d].text = row[d].text /\ row'[d].due = row[d].due
        /\ \A d \in Docs : d # dataset => row'[d].state = row[d].state
        /\ row'[dataset].state = "purging" /\ State(dataset) \in Hidden
    BY RowsAre DEF PurgeDraft, Typed, TypeOK, Hidden
  <1>3. q \in Actors /\ \A b \in Actors : act'[b].pc \in Carrying \cup {"rows"} => b # q /\ act'[b] = act[b]
    BY <1>1 DEF Others, Carrying, Actors
  <1>4. \A d \in Docs : index[d] = Nothing /\ ~Live(d) /\ ~Live(d)' /\ Wanted(d)' = Nothing
    BY <1>2 DEF Unseen, Live, State, Hidden, Wanted
  <1>5. Unwritten'
    <2>1. Unwritten BY <1>2 DEF Unseen
    <2> QED BY <1>3, <2>1 DEF Unwritten, Doing, Has, Mid, Carrying
  <1>6. Alone' BY <1>1 DEF Alone, Others, Holding
  <1>7. Times'
    <2>1. \A b \in Actors : act'[b].since <= clock BY <1>1, RowsAre DEF Times, Others
    <2> QED BY <1>1, <1>2, <1>3, <2>1 DEF Times
  <1>8. Renaming' BY <1>1 DEF PurgeDraft, RowFree, Renaming
  <1>9. Gone'
    <2>1. \A d \in Docs : State(d) # "gone" BY <1>2 DEF Gone, Hidden
    <2> QED BY <1>2, <2>1 DEF Gone, State
  <1>10. Unseen' BY <1>1, <1>4, <1>5 DEF Unseen
  <1>11. InHand' BY <1>1, <1>4, <1>5 DEF InHand, Unwritten
  <1>12. Written' BY <1>1, <1>3, <1>4, ReadsAre DEF Written, Cleared, Carrying
  <1>13. (Emptied /\ StaleIsMarked)' BY <1>1, <1>4, <1>5 DEF Emptied, StaleIsMarked
  <1>14. Ordered'
    <2>1. \A d \in Docs : State(d) # "gone" BY <1>2 DEF Gone, Hidden
    <2> QED BY <1>1, <1>2, <1>3, <2>1, RowsAre, StaysOrdered DEF Mid, Carrying
  <1> QED BY <1>6, <1>7, <1>8, <1>9, <1>10, <1>11, <1>12, <1>13, <1>14

\* The rows of a purge go.
LEMMA RowsGoRight ==
    ASSUME Typed, Typed', Right, NEW q \in Requests, PurgeRows(q), State(dataset) \in {"deleted", "purging"}
    PROVE Right'
  <1> USE DEF Right
  <1>1. /\ UNCHANGED <<org, index, lock, clock>> /\ Others(q) /\ act[q].pc = "rows"
        /\ act'[q].pc = "idle" /\ act'[q].since = 0 /\ ~org.locks /\ q \in Actors
    BY DEF PurgeRows, Typed, TypeOK, Others, Idle, Actors, RowFree
  <1> DEFINE again == IF row[dataset].text = act[q].since THEN 0 ELSE 1
  <1>2. \A d \in Docs : row'[d].state = "gone" /\ row'[d].text = again /\ ~row'[d].due
    BY DEF PurgeRows
  <1>3. \A b \in Actors : act'[b].pc \in Carrying \cup {"rows"} => b # q /\ act'[b] = act[b]
    BY <1>1 DEF Others, Carrying
  <1>4. \A d \in Docs : ~Live(d)' /\ State(d)' = "gone" /\ Wanted(d)' = Nothing
    BY <1>2 DEF Live, State, Wanted
  <1>5. \/ \A d \in Docs : Excused(d)'
        \/ Unwritten /\ \A d \in Docs : index[d] = Nothing
    BY <1>1, <1>2, <1>4 DEF Excused, Emptied
  <1>6. Unwritten => Unwritten' BY <1>3 DEF Unwritten, Doing, Has, Mid, Carrying
  <1>7. Alone' BY <1>1 DEF Alone, Others, Holding
  <1>8. Times'
    <2>1. \A b \in Actors : act'[b].since <= clock BY <1>1, RowsAre DEF Times, Others
    <2>2. again <= clock
      <3>1. row[dataset].text <= clock /\ act[q].since <= clock /\ row[dataset].text \in Nat /\ act[q].since \in Nat /\ clock \in Nat
        BY <1>1, RowsAre DEF Times
      <3> QED BY <3>1
    <2> HIDE DEF again
    <2> QED BY <1>1, <1>2, <1>3, <2>1, <2>2 DEF Times
  <1>9. (Renaming /\ Gone /\ Unseen)' BY <1>1, <1>2, <1>4, RowsAre DEF Renaming, Gone, Unseen, Hidden
  <1>10. InHand'
    <2>1. \A b \in Actors, d \in Docs : act'[b].pc \in Mid /\ Doing(b, d)' = "write" => Excused(d)'
      BY <1>5, <1>6 DEF Unwritten
    <2> QED BY <1>2, <1>4, <2>1 DEF InHand
  <1>11. Written' BY <1>2, <1>3, ReadsAre DEF Written, Cleared, Carrying
  <1>12. Emptied' BY <1>4, RowsAre DEF Emptied
  <1>13. StaleIsMarked' BY <1>1, <1>4, <1>5 DEF StaleIsMarked, Excused
  <1>14. Ordered' BY <1>1, <1>3, <1>4, RowsAre, StaysOrdered DEF Mid, Carrying
  <1> QED BY <1>7, <1>8, <1>9, <1>10, <1>11, <1>12, <1>13, <1>14

\* The rename looks at the datasets, and locks them.
LEMMA RenameLooksRight == ASSUME Typed, Typed', Right, RenameMark \/ RenameTake PROVE Right'
  <1> USE DEF Right
  <1>1. UNCHANGED <<row, index, lock, act, clock>> /\ org'.name = org.name
    BY DEF RenameMark, RenameTake, Typed, TypeOK
  <1>2. Renaming' BY RowsAre DEF Renaming, RenameMark, RenameTake, State, Typed, TypeOK
  <1>3. \A d \in Docs : /\ Now(d)' = Now(d) /\ Wanted(d)' = Wanted(d) /\ Live(d)' = Live(d)
                        /\ State(d)' = State(d) /\ Excused(d)' = Excused(d)
    BY <1>1 DEF Now, Wanted, Live, State, Excused
  <1>4. (Alone /\ Times /\ Gone)' BY <1>1 DEF Alone, Times, Gone, State
  <1>5. Unwritten => Unwritten' BY <1>1 DEF Unwritten, Doing, Has
  <1>6. Unseen' BY <1>1, <1>3, <1>5, RowsAre DEF Unseen
  <1>7. InHand'
    <2>1. \A a \in Actors, d \in Docs : Doing(a, d)' = Doing(a, d) /\ Newer(a, d)' = Newer(a, d) /\ Has(a, d)' = Has(a, d)
      BY <1>1 DEF Doing, Newer, Has
    <2> QED BY <1>1, <1>3, <2>1, RowsAre DEF InHand
  <1>8. Written' BY <1>1, <1>3, ReadsAre DEF Written, Cleared, Carrying
  <1>9. Emptied' BY <1>1, <1>3, <1>5, RowsAre DEF Emptied, Part1
  <1>10. StaleIsMarked' BY <1>1, <1>3 DEF StaleIsMarked
  <1>11. Ordered' BY <1>1, <1>3, RowsAre, StaysOrdered
  <1> QED BY <1>2, <1>4, <1>6, <1>7, <1>8, <1>9, <1>10, <1>11

\* The rename commits: a dataset that is live is marked.
LEMMA RenameRight == ASSUME Typed, Typed', Right, RenameCommit PROVE Right'
  <1> USE DEF Right
  <1>1. /\ UNCHANGED <<index, lock, act>> /\ clock' = clock + 1
        /\ org.rename = "taken" /\ org'.rename = "none" /\ org'.name = clock + 1
        /\ org.joined <=> State(dataset) = "active"
    BY DEF RenameCommit, Renaming, Typed, TypeOK
  <1>2. /\ \A d \in Docs : row'[d].state = row[d].state
        /\ \A d \in Docs : d # dataset \/ ~org.joined => row'[d] = row[d]
        /\ org.joined => row'[dataset].text = clock + 1 /\ row'[dataset].due
    BY RowsAre DEF RenameCommit, Typed, TypeOK
  <1>3. \A d \in Docs : /\ State(d)' = State(d) /\ Live(d)' = Live(d)
                        /\ Excused(d) => Excused(d)'
    BY <1>1, <1>2, RowsAre DEF State, Live, Excused, Gone
  <1>4. \A d \in Docs : \/ d = dataset /\ row'[d].due /\ row'[d].text = clock + 1 /\ Live(d)
                        \/ row'[d] = row[d] /\ Wanted(d)' = Wanted(d) /\ (Live(d) => Now(d)' = Now(d))
    <2>1. TAKE d \in Docs
    <2>2. CASE d = dataset /\ org.joined BY <1>1, <1>2, <2>2 DEF Live
    <2>3. CASE d = dataset /\ ~org.joined BY <1>1, <1>2, <1>3, <2>3 DEF Live, Wanted
    <2>4. CASE d # dataset BY <1>2, <1>3, <2>4 DEF Wanted, Now
    <2> QED BY <2>2, <2>3, <2>4
  <1>5. (Alone /\ Renaming /\ Gone)'
    <2>1. State(dataset) = "active" => \A d \in Docs : State(d) # "gone" BY DEF Gone
    <2> QED BY <1>1, <1>2, <2>1, RowsAre DEF Alone, Renaming, Gone, State
  <1>6. Times'
    <2>1. \A d \in Docs : row'[d].text <= clock'
      BY <1>1, <1>2, RowsAre DEF Times
    <2>2. \A a \in Actors : act[a].since <= clock'
      BY <1>1, RowsAre DEF Times
    <2>3. \A d \in Docs : index[d].text <= clock' BY <1>1, RowsAre DEF Times
    <2>4. ASSUME NEW a \in Actors, act[a].pc \in Carrying, NEW d \in DOMAIN act[a].read
          PROVE act[a].read[d].mark <= clock' /\ act[a].read[d].content.text <= clock'
      BY <1>1, <2>4, RowsAre, ReadsAre DEF Times
    <2> QED BY <1>1, <2>1, <2>2, <2>3, <2>4, RowsAre DEF Times
  <1>7. Unwritten => Unwritten' BY <1>1 DEF Unwritten, Doing, Has
  <1>8. Unseen' BY <1>1, <1>3, <1>7, RowsAre DEF Unseen
  <1>9. InHand'
    <2>1. SUFFICES ASSUME NEW a \in Actors, NEW d \in Docs, act[a].pc \in Mid
          PROVE /\ Doing(a, d)' = "write" =>
                      \/ Excused(d)' \/ Newer(a, d)'
                      \/ (Live(d)' /\ (act'[a].pc = "write" => act'[a].read[d].content = Now(d)'))
                /\ Doing(a, d)' = "remove" \/ Doing(a, dataset)' = "remove" => ~Live(d)' \/ Newer(a, d)'
                /\ Has(a, d)' /\ Doing(a, d)' = "clear" /\ row'[d].due /\ ~Newer(a, d)' =>
                      ~Live(d)' /\ index'[d] = Nothing
      BY <1>1 DEF InHand
    <2>2. \A e \in Docs : Doing(a, e)' = Doing(a, e) /\ Has(a, e)' = Has(a, e) BY <1>1 DEF Doing, Has
    <2>3. CASE row'[d].due /\ row'[d].text = clock + 1
      <3>1. Has(a, d) => act[a].read[d].mark <= clock /\ act[a].read[d].mark \in Nat
        BY <2>1, ReadsAre DEF Times, Has, Mid, Carrying
      <3>2. Newer(a, d)' BY <1>1, <2>3, <3>1, RowsAre DEF Newer, Has
      <3> QED BY <2>2, <3>2
    <2>4. CASE row'[d] = row[d] /\ (Live(d) => Now(d)' = Now(d))
      <3>1. Newer(a, d)' = Newer(a, d) BY <1>1, <2>4 DEF Newer, Has
      <3> QED BY <1>1, <1>3, <2>1, <2>2, <2>4, <3>1, RowsAre DEF InHand
    <2> QED BY <1>4, <2>3, <2>4
  <1>10. Written'
    <2>1. SUFFICES ASSUME NEW a \in Actors, act[a].pc = "settle", NEW d \in Cleared(act[a].read)'
                   PROVE index[d] = Wanted(d)'
      BY <1>1 DEF Written
    <2>2. d \in DOMAIN act[a].read /\ d \in Docs /\ row'[d].text = act[a].read[d].mark
      BY <1>1, <2>1, ReadsAre DEF Cleared
    <2>3. act[a].read[d].mark <= clock /\ act[a].read[d].mark \in Nat
      BY <2>1, <2>2, ReadsAre DEF Times, Carrying
    <2>4. row'[d] = row[d] /\ Wanted(d)' = Wanted(d) BY <1>4, <2>2, <2>3, RowsAre
    <2>5. d \in Cleared(act[a].read) BY <1>1, <2>1, <2>4 DEF Cleared
    <2> QED BY <2>1, <2>4, <2>5 DEF Written
  <1>11. Emptied'
    <2>1. State(dataset)' \in {"deleted", "purging"} => row'[dataset] = row[dataset]
      BY <1>1, <1>2, <1>3, RowsAre
    <2> QED BY <1>1, <1>3, <1>7, <2>1, RowsAre DEF Emptied, Part1
  <1>12. StaleIsMarked' BY <1>1, <1>3, <1>4 DEF StaleIsMarked, Excused
  <1>13. Ordered'
    <2>1. \A d \in Docs : row[d].text <= row'[d].text BY <1>4, RowsAre DEF Times
    <2>2. org.name <= org'.name BY <1>1, RowsAre DEF Times
    <2> QED BY <1>1, <1>3, <2>1, <2>2, StaysOrdered
  <1> QED BY <1>5, <1>6, <1>8, <1>9, <1>10, <1>11, <1>12, <1>13

-----------------------------------------------------------------------------
(* Each action is of a kind *)

\* What an action makes of one actor.
LEMMA Only == ASSUME Typed, NEW a \in Actors, NEW r, act' = [act EXCEPT ![a] = r]
              PROVE act'[a] = r /\ Others(a)
  BY DEF Typed, TypeOK, Others

\* Where a request is after its transaction.
LEMMA ThenAt ==
    ASSUME Typed, NEW q \in Actors, NEW todo, Then(q, todo), clock' = clock + 1
    PROVE /\ UNCHANGED <<org, index, lock>> /\ Others(q)
          /\ act'[q].pc \in {"lock", "ask"} /\ act'[q].since = clock + 1
  <1> DEFINE pc == IF todo = <<>> THEN "ask" ELSE "lock"
             r == [Idle EXCEPT !.pc = pc, !.todo = todo, !.since = clock']
  <1>1. act' = [act EXCEPT ![q] = r] /\ UNCHANGED <<org, index, lock>> BY DEF Then
  <1>2. pc \in {"lock", "ask"} OBVIOUS
  <1> HIDE DEF pc
  <1>3. r.pc = pc /\ r.since = clock' BY DEF Idle
  <1> HIDE DEF r
  <1>4. act'[q] = r /\ Others(q) BY <1>1, Only
  <1> QED BY <1>1, <1>2, <1>3, <1>4

\* What a transaction makes of each row.
LEMMA MarkAt ==
    ASSUME NEW D \in SUBSET Docs, NEW to, NEW due, Mark(D, to, due)
    PROVE /\ clock' = clock + 1
          /\ \A d \in D : row'[d].state = to[d] /\ row'[d].text = clock + 1 /\ row'[d].due = due[d]
          /\ \A d \in Docs \ D : row'[d] = row[d]
  BY DEF Mark

\* Every row is marked.
LEMMA AllDue == \A d \in Docs : All[d] = TRUE
  BY DEF All

\* The states stay.
LEMMA SameAt == \A d \in Docs : Same[d] = State(d)
  BY DEF Same

\* A transaction that leaves the dataset's state alone.
LEMMA EditMarks ==
    ASSUME Typed, Gone, NEW q \in Actors, NEW D \in SUBSET Docs, NEW to, NEW todo,
           Mark(D, to, All), Then(q, todo), State(dataset) # "gone",
           dataset \in D => to[dataset] = State(dataset),
           \A d \in D : to[d] # "gone"
    PROVE Marking(q, D)
  <1>1. /\ clock' = clock + 1
        /\ \A d \in D : row'[d].state = to[d] /\ row'[d].text = clock + 1 /\ row'[d].due
        /\ \A d \in Docs \ D : row'[d] = row[d]
    BY MarkAt, AllDue
  <1>2. row'[dataset].state = row[dataset].state BY <1>1, RowsAre DEF State
  <1>3. \A d \in Docs \ D : Live(d)' <=> Live(d) BY <1>1, <1>2 DEF Live, State
  <1>4. /\ UNCHANGED <<org, index, lock>> /\ Others(q)
        /\ act'[q].pc \in {"lock", "ask"} /\ act'[q].since = clock + 1
    BY <1>1, ThenAt
  <1> QED BY <1>1, <1>2, <1>3, <1>4 DEF Marking, State

\* A transaction that moves the dataset and all there is of it.
LEMMA MoveMarks ==
    ASSUME Typed, Gone, Renaming, RowFree, NEW q \in Actors, NEW s \in {"active", "deleted"}, NEW todo,
           Mark({dataset} \cup ActiveResources, [Same EXCEPT ![dataset] = s], All),
           Then(q, todo), State(dataset) \in {"active", "draft", "deleted"}
    PROVE Marking(q, {dataset} \cup ActiveResources)
  <1> DEFINE D == {dataset} \cup ActiveResources
             to == [Same EXCEPT ![dataset] = s]
  <1>1. D \in SUBSET Docs /\ dataset \in D BY DEF ActiveResources, Docs
  <1>2. \A d \in Docs : to[d] = IF d = dataset THEN s ELSE State(d) BY DEF Same
  <1>3. \A d \in D : d # dataset => State(d) = "active" BY DEF ActiveResources
  <1>4. \A d \in Docs \ D : State(d) # "active" /\ d # dataset BY DEF ActiveResources, Docs
  <1> HIDE DEF D, to
  <1>5. /\ clock' = clock + 1
        /\ \A d \in D : row'[d].state = to[d] /\ row'[d].text = clock + 1 /\ row'[d].due
        /\ \A d \in Docs \ D : row'[d] = row[d]
    <2>1. Mark(D, to, All) BY DEF D, to
    <2> QED BY <1>1, <2>1, MarkAt, AllDue
  <1>6. row'[dataset].state = s BY <1>1, <1>2, <1>5
  <1>7. \A d \in Docs \ D : ~Live(d) /\ ~Live(d)' BY <1>4, <1>5 DEF Live, State
  <1>8. \A d \in D : row'[d].state # "gone" BY <1>1, <1>2, <1>3, <1>5
  <1>9. /\ UNCHANGED <<org, index, lock>> /\ Others(q)
        /\ act'[q].pc \in {"lock", "ask"} /\ act'[q].since = clock + 1
    BY <1>5, ThenAt
  <1>10. org.rename # "taken" BY DEF Renaming, RowFree
  <1>11. Marking(q, D) BY <1>5, <1>6, <1>7, <1>8, <1>9, <1>10 DEF Marking, State, Hidden
  <1> QED BY <1>11 DEF D

\* A creation marks: a draft itself is not marked, and not looked for.
LEMMA CreateMarks == ASSUME Typed, Gone, NEW q \in Actors, Create(q) PROVE Marking(q, Docs)
  <1> DEFINE to(s) == [d \in Docs |-> IF d = dataset THEN s ELSE "active"]
             due(s) == [d \in Docs |-> d # dataset \/ s = "active"]
  <1>1. PICK s \in {"active", "draft"} : Mark(Docs, to(s), due(s)) BY Zenon DEF Create
  <1>2. /\ clock' = clock + 1
        /\ \A d \in Docs : row'[d].state = to(s)[d] /\ row'[d].text = clock + 1 /\ row'[d].due = due(s)[d]
    BY <1>1, MarkAt
  <1>3. \A d \in Docs : row'[d].due \/ (d = dataset /\ row'[d].state = "draft")
    BY <1>2
  <1>4. \A d \in Docs : row'[d].state # "gone" BY <1>2
  <1>5. State(dataset) = "absent" /\ org.rename # "taken" BY DEF Create
  <1>6. \E todo : Then(q, todo) BY Zenon DEF Create
  <1>7. /\ UNCHANGED <<org, index, lock>> /\ Others(q)
        /\ act'[q].pc \in {"lock", "ask"} /\ act'[q].since = clock + 1
    BY <1>2, <1>6, ThenAt
  <1> HIDE DEF to, due
  <1> QED BY <1>2, <1>3, <1>4, <1>5, <1>7 DEF Marking, State, Hidden

\* The transactions of requests: each marks, or is the claim of a draft's purge, or
\* writes no row.
LEMMA CommitKinds ==
    ASSUME Typed, Right, NEW q \in Requests, Commit(q)
    PROVE (\E D \in SUBSET Docs : Marking(q, D)) \/ Quiet(q) \/ PurgeDraft(q)
  <1>1. q \in Actors /\ Gone /\ Renaming BY DEF Actors, Right
  <1>2. \A r \in Resources : State(r) = "active" => State(dataset) # "gone"
    BY <1>1 DEF Gone, Docs
  <1>3. dataset \notin Resources /\ {dataset} \subseteq Docs /\ Resources \subseteq Docs
        /\ {dataset} \cup ActiveResources \subseteq Docs
    BY SyncAssumption DEF Docs, ActiveResources
  <1>4. CASE Create(q) BY <1>1, <1>4, CreateMarks
  <1>5. CASE EditDataset(q)
    <2>1. PICK part : Then(q, <<part>>) BY <1>5, Zenon DEF EditDataset
    <2>2. Mark({dataset}, Same, All) /\ State(dataset) \in {"active", "draft"} BY <1>5 DEF EditDataset
    <2>3. Same[dataset] = State(dataset) BY SameAt, RowsAre
    <2>4. Marking(q, {dataset}) BY <1>1, <1>3, <2>1, <2>2, <2>3, EditMarks
    <2> QED BY <1>3, <2>4
  <1>6. ASSUME NEW r \in Resources, EditResource(q, r) \/ EditByRun(q, r) \/ DeleteResource(q, r)
        PROVE \E D \in SUBSET Docs : Marking(q, D)
    <2>1. PICK todo : Then(q, todo) BY <1>6, Zenon DEF EditResource, EditByRun, DeleteResource
    <2>2. PICK to \in {Same, [Same EXCEPT ![r] = "deleted"]} : Mark({r}, to, All)
      BY <1>6 DEF EditResource, EditByRun, DeleteResource
    <2>3. State(r) = "active" BY <1>6 DEF EditResource, EditByRun, DeleteResource
    <2>4. to[r] # "gone" BY <1>3, <2>2, <2>3 DEF Same
    <2>5. {r} \in SUBSET Docs /\ dataset \notin {r} BY <1>3
    <2>6. Marking(q, {r}) BY <1>1, <1>2, <2>1, <2>2, <2>3, <2>4, <2>5, EditMarks
    <2> QED BY <2>5, <2>6
  <1>7. CASE DeleteDataset(q)
    <2>1. PICK todo : Then(q, todo) BY <1>7, Zenon DEF DeleteDataset
    <2>2. Marking(q, {dataset} \cup ActiveResources) BY <1>1, <1>7, <2>1, MoveMarks DEF DeleteDataset
    <2> QED BY <1>3, <2>2
  <1>8. CASE MakeLive(q)
    <2>1. PICK todo : Then(q, todo) BY <1>8, Zenon DEF MakeLive
    <2>2. Marking(q, {dataset} \cup ActiveResources) BY <1>1, <1>8, <2>1, MoveMarks DEF MakeLive
    <2> QED BY <1>3, <2>2
  <1>9. CASE PurgeDeleted(q)
    <2> DEFINE r == [Idle EXCEPT !.pc = "lock", !.todo = <<Purging>>]
    <2>1. act' = [act EXCEPT ![q] = r] BY <1>9 DEF PurgeDeleted
    <2>2. r.pc = "lock" /\ r.since = 0 BY DEF Idle
    <2> HIDE DEF r
    <2>3. act'[q] = r /\ Others(q) BY <1>1, <2>1, Only
    <2>4. UNCHANGED <<row, org, index, lock, clock>> BY <1>9 DEF PurgeDeleted
    <2>5. Quiet(q) BY <2>2, <2>3, <2>4, RowsAre DEF Quiet, Carrying
    <2> QED BY <2>5
  <1>10. CASE PurgeDraft(q) BY <1>10
  <1> QED BY <1>4, <1>5, <1>6, <1>7, <1>8, <1>9, <1>10 DEF Commit

\* The transactions of requests keep Right.
LEMMA CommitRight == ASSUME Typed, Typed', Right, NEW q \in Requests, Commit(q) PROVE Right'
  <1>1. q \in Actors /\ act[q].pc = "idle" BY DEF Actors, Commit
  <1>2. ASSUME NEW D \in SUBSET Docs, Marking(q, D) PROVE Right' BY <1>1, <1>2, MarkingRight
  <1>3. CASE Quiet(q) BY <1>1, <1>3, QuietRight
  <1>4. CASE PurgeDraft(q) BY <1>1, <1>4, PurgeDraftRight
  <1> QED BY <1>2, <1>3, <1>4, CommitKinds

\* What is next, for an actor past the lock, is nothing, a list or the lock.
LEMMA AfterAt == ASSUME Typed, Times, NEW a \in Actors, NEW again, NEW skip
    PROVE /\ After(a, again, skip).pc \in {"idle", "list", "lock"}
          /\ After(a, again, skip).since <= clock
  <1>1. Idle.pc = "idle" /\ Idle.since = 0 BY DEF Idle
  <1>2. \A pc, todo, x, y, since : [Idle EXCEPT !.pc = pc, !.todo = todo, !.again = x, !.skip = y, !.since = since].pc = pc
     /\ [Idle EXCEPT !.pc = pc, !.todo = todo, !.again = x, !.skip = y, !.since = since].since = since
    BY DEF Idle
  <1>3. \A pc, todo, y : [Idle EXCEPT !.pc = pc, !.skip = y, !.todo = todo].pc = pc
     /\ [Idle EXCEPT !.pc = pc, !.skip = y, !.todo = todo].since = 0
    BY DEF Idle
  <1>4. act[a].since <= clock /\ 0 <= clock BY RowsAre DEF Times
  <1> HIDE DEF Idle
  <1>5. CASE Tail(act[a].todo) # <<>>
    <2> DEFINE rest == Tail(act[a].todo)
               pc == IF rest[1].how = "drop" THEN "list" ELSE "lock"
    <2>1. After(a, again, skip) = [Idle EXCEPT !.pc = pc, !.todo = rest, !.again = again, !.skip = skip, !.since = act[a].since]
      BY <1>5 DEF After
    <2>2. pc \in {"list", "lock"} OBVIOUS
    <2> HIDE DEF rest, pc
    <2> QED BY <1>2, <1>4, <2>1, <2>2
  <1>6. CASE Tail(act[a].todo) = <<>> /\ again = {} BY <1>1, <1>4, <1>6 DEF After
  <1>7. CASE Tail(act[a].todo) = <<>> /\ again # {}
    <2> DEFINE todo == (IF again \cap Resources = {} THEN <<>> ELSE <<Hiding(Resources)>>)
                           \o (IF dataset \in again THEN <<Hiding({dataset})>> ELSE <<>>)
    <2>1. After(a, again, skip) = [Idle EXCEPT !.pc = "lock", !.skip = skip, !.todo = todo]
      BY <1>7 DEF After
    <2> HIDE DEF todo
    <2> QED BY <1>3, <1>4, <2>1
  <1> QED BY <1>5, <1>6, <1>7

\* Where an actor that asks is.
LEMMA AskingAt == ASSUME Typed, Times, NEW a \in Actors
    PROVE Asking(a).pc = "ask" /\ Asking(a).since <= clock
  BY DEF Asking, Typed, TypeOK, Actor, Times

\* A step of a to idleness, the list, the lock or asking, that keeps the lock or lets it go.
LEMMA Goes ==
    ASSUME Typed, Typed', Right, NEW a \in Actors, UNCHANGED <<row, org, index, clock>>,
           NEW r, act' = [act EXCEPT ![a] = r], r.pc \in {"idle", "list", "lock", "ask"}, r.since <= clock,
           lock' = lock \/ (lock = a /\ lock' = Nobody)
    PROVE Right'
  <1>1. act'[a] = r /\ Others(a) BY Only
  <1>2. Quiet(a) BY <1>1 DEF Quiet, Carrying
  <1> QED BY <1>2, QuietRight

\* Where an actor between two things is.
LEMMA IdleAt == ASSUME Typed PROVE Idle.pc = "idle" /\ Idle.since <= clock
  BY RowsAre DEF Idle

\* Leaving a part to the job; dying; waiting for a row in vain.
LEMMA WaitingRight ==
    ASSUME Typed, Typed', Right, NEW a \in Actors,
           LeaveToJob(a) \/ Crash(a) \/ RowTimesOut(a)
    PROVE Right'
  <1>1. Times /\ Alone BY DEF Right
  <1>2. CASE LeaveToJob(a)
    <2>1. PICK r \in {After(a, {}, {}), Asking(a)} : act' = [act EXCEPT ![a] = r]
      <3>1. act' = [act EXCEPT ![a] = IF ~Part1(a).waits /\ Due(Part1(a).scope) = {}
                                      THEN After(a, {}, {}) ELSE Asking(a)]
        BY <1>2 DEF LeaveToJob
      <3> QED BY <3>1, Zenon
    <2>2. r.pc \in {"idle", "list", "lock", "ask"} /\ r.since <= clock
      BY <1>1, AfterAt, AskingAt
    <2>3. UNCHANGED <<row, org, index, clock, lock>> BY <1>2 DEF LeaveToJob
    <2> QED BY <2>1, <2>2, <2>3, Goes
  <1>3. CASE Crash(a)
    <2>1. act' = [act EXCEPT ![a] = Idle] /\ UNCHANGED <<row, org, index, clock>>
          /\ lock' = IF lock = a THEN Nobody ELSE lock
      BY <1>3 DEF Crash
    <2> QED BY <2>1, IdleAt, Goes
  <1>4. CASE RowTimesOut(a)
    <2>1. act[a].pc = "settle" /\ lock' = Nobody /\ UNCHANGED <<row, org, index, clock>>
      BY <1>4 DEF RowTimesOut, GivenUp
    <2>2. lock = a BY <1>1, <2>1 DEF Alone, Holding
    <2>3. /\ Others(a) /\ act'[a].pc \in {"ask", "idle"} /\ act'[a].since \in {0, act[a].since}
      BY <1>4, GivenUpAt DEF RowTimesOut
    <2>4. Quiet(a) BY <1>1, <2>1, <2>2, <2>3, RowsAre DEF Quiet, Carrying, Times
    <2> QED BY <2>4, QuietRight
  <1> QED BY <1>2, <1>3, <1>4

\* Taking the lock.
LEMMA TakeLockRight == ASSUME Typed, Typed', Right, NEW a \in Actors, TakeLock(a) PROVE Right'
  <1> DEFINE r == [act[a] EXCEPT !.pc = "read"]
  <1>1. act' = [act EXCEPT ![a] = r] /\ lock = Nobody /\ lock' = a /\ UNCHANGED <<row, org, index, clock>>
    BY DEF TakeLock, Free
  <1>2. r.pc = "read" /\ r.since = act[a].since BY DEF Typed, TypeOK, Actor
  <1> HIDE DEF r
  <1>3. act'[a] = r /\ Others(a) BY <1>1, Only
  <1>4. Quiet(a) BY <1>1, <1>2, <1>3 DEF Quiet, Carrying, Right, Times
  <1> QED BY <1>4, QuietRight

\* Asking for the job.
LEMMA AskRight == ASSUME Typed, Typed', Right, NEW q \in Requests, Ask(q) PROVE Right'
  <1>1. q \in Actors /\ Times BY DEF Actors, Right
  <1>2. PICK r \in {Idle, After(q, {}, {})} : act' = [act EXCEPT ![q] = r]
    <2>1. act' = [act EXCEPT ![q] = IF act[q].todo = <<>> THEN Idle ELSE After(q, {}, {})]
      BY DEF Ask
    <2> QED BY <2>1, Zenon
  <1>3. r.pc \in {"idle", "list", "lock", "ask"} /\ r.since <= clock BY <1>1, AfterAt, IdleAt
  <1>4. UNCHANGED <<row, org, index, clock, lock>> BY DEF Ask
  <1> QED BY <1>1, <1>2, <1>3, <1>4, Goes


\* The steps of workers' own.
LEMMA StartRight ==
    ASSUME Typed, Typed', Right, NEW w \in Workers, StartJob(w) \/ StartRebuild(w) \/ ListIndexed(w)
    PROVE Right'
  <1>1. w \in Actors /\ Times BY DEF Actors, Right
  <1>2. ASSUME NEW pc \in {"list", "lock"}, NEW todo, act' = [act EXCEPT ![w] = [Idle EXCEPT !.pc = pc, !.todo = todo]],
               UNCHANGED <<row, org, index, lock, clock>>
        PROVE Right'
    <2> DEFINE r == [Idle EXCEPT !.pc = pc, !.todo = todo]
    <2>1. r.pc = pc /\ r.since = 0 BY DEF Idle
    <2>2. act' = [act EXCEPT ![w] = r] BY <1>2
    <2> HIDE DEF r
    <2>3. r.pc \in {"idle", "list", "lock", "ask"} /\ r.since <= clock BY <2>1, RowsAre
    <2> QED BY <1>1, <1>2, <2>2, <2>3, Goes
  <1>3. CASE StartJob(w) BY <1>2, <1>3 DEF StartJob
  <1>4. CASE StartRebuild(w)
    <2>1. UNCHANGED <<row, org, index, lock, clock>> BY <1>4 DEF StartRebuild
    <2>2. \E todo : \/ act' = [act EXCEPT ![w] = [Idle EXCEPT !.pc = "lock", !.todo = todo]]
                    \/ act' = [act EXCEPT ![w] = [Idle EXCEPT !.pc = "list", !.todo = todo]]
      BY <1>4, Zenon DEF StartRebuild
    <2> QED BY <1>2, <2>1, <2>2
  <1>5. CASE ListIndexed(w)
    <2> DEFINE page == {d \in act[w].todo[1].scope : index[d] # Nothing}
               todo == [act[w].todo EXCEPT ![1].scope = page]
               r == [act[w] EXCEPT !.pc = "lock", !.todo = todo]
    <2>1. act' = [act EXCEPT ![w] = r] BY <1>1, <1>5, ActorOK DEF ListIndexed
    <2> HIDE DEF todo
    <2>2. r.pc = "lock" /\ r.since = act[w].since BY <1>1 DEF Typed, TypeOK, Actor
    <2>3. r.since <= clock BY <1>1, <2>2 DEF Times
    <2> HIDE DEF r
    <2>4. UNCHANGED <<row, org, index, lock, clock>> BY <1>5 DEF ListIndexed
    <2> QED BY <1>1, <2>1, <2>2, <2>3, <2>4, Goes
  <1> QED BY <1>3, <1>4, <1>5

\* What is read of the rows B, for a purpose the rows bear out.
LEMMA SeenReads ==
    ASSUME Typed, NEW a \in Actors, act[a].pc = "read", UNCHANGED <<row, org, index, clock, lock>>,
           NEW B \in SUBSET Docs, NEW do \in [B -> {"write", "remove", "clear"}],
           \A d \in B : /\ do[d] = "write" => Live(d)
                        /\ do[d] = "remove" => ~Live(d)
                        /\ do[d] = "clear" => ~Live(d) /\ State(dataset) \in Hidden \cup {"gone"},
           Others(a), act'[a].pc \in Mid, act'[a].since <= clock, act'[a].read = Seen(do, B)
    PROVE Reads(a)
  <1>1. DOMAIN Seen(do, B) = B
        /\ \A d \in B : /\ Seen(do, B)[d].do = do[d] /\ Seen(do, B)[d].content = Now(d)
                        /\ Seen(do, B)[d].mark = row[d].text
    BY DEF Seen
  <1> QED BY <1>1 DEF Reads

\* Reading the rows, for each of the four purposes.
LEMMA ReadRowsRight == ASSUME Typed, Typed', Right, NEW a \in Actors, ReadRows(a) PROVE Right'
  <1> DEFINE scope == Part1(a).scope
             how == Part1(a).how
             pc == IF dataset \in scope /\ how \in {"sync", "copy"} THEN "build" ELSE "write"
             r(read) == [act[a] EXCEPT !.read = read, !.pc = pc]
  <1>1. act[a].pc = "read" /\ UNCHANGED <<row, org, index, clock>> /\ Times /\ Alone
    BY DEF ReadRows, Right
  <1>2. act[a].todo \in Seq(Part) /\ act[a].todo # <<>> BY <1>1, Rest DEF WellFormed, Holding, Actor
  <1>3. Part1(a) \in Part /\ 1 \in DOMAIN act[a].todo BY <1>2 DEF Part1
  <1>4. scope \in SUBSET Docs BY <1>3 DEF Part
  <1>5. ASSUME NEW B \in SUBSET Docs, NEW do \in [B -> {"write", "remove", "clear"}],
               \A d \in B : /\ do[d] = "write" => Live(d)
                            /\ do[d] = "remove" => ~Live(d)
                            /\ do[d] = "clear" => ~Live(d) /\ State(dataset) \in Hidden \cup {"gone"},
               act' = [act EXCEPT ![a].read = Seen(do, B), ![a].pc = pc], lock' = lock
        PROVE Right'
    <2>1. act' = [act EXCEPT ![a] = r(Seen(do, B))] BY <1>5, Rest
    <2>2. pc \in Mid BY DEF Mid
    <2> HIDE DEF pc
    <2>3. r(Seen(do, B)).pc = pc /\ r(Seen(do, B)).read = Seen(do, B) /\ r(Seen(do, B)).since = act[a].since
      BY DEF Typed, TypeOK, Actor
    <2>4. act[a].since <= clock BY <1>1 DEF Times
    <2> HIDE DEF r
    <2>5. act'[a] = r(Seen(do, B)) /\ Others(a) BY <2>1, Only
    <2>6. Reads(a) BY <1>1, <1>5, <2>2, <2>3, <2>4, <2>5, SeenReads
    <2> QED BY <2>6, ReadsRight
  <1>6. CASE how = "sync"
    <2>1. PICK B \in SUBSET scope :
              act' = [act EXCEPT ![a].read = Seen([d \in B |-> Do(d)], B), ![a].pc = pc]
      BY <1>6 DEF ReadRows
    <2>2. [d \in B |-> Do(d)] \in [B -> {"write", "remove", "clear"}] BY DoOK
    <2>3. ASSUME NEW d \in Docs
          PROVE /\ Do(d) = "write" => Live(d)
                /\ Do(d) = "remove" => ~Live(d)
                /\ Do(d) = "clear" => ~Live(d) /\ State(dataset) \in Hidden \cup {"gone"}
      <3>1. State(dataset) \in States BY RowsAre
      <3> QED BY <3>1 DEF Do, Live, Hidden, States
    <2>4. lock' = lock BY <1>6 DEF ReadRows
    <2> QED BY <1>4, <1>5, <2>1, <2>2, <2>3, <2>4
  <1>7. CASE how = "copy"
    <2> DEFINE D == {d \in scope : Live(d)}
    <2>1. act' = [act EXCEPT ![a].read = Seen([d \in D |-> "write"], D), ![a].pc = pc] /\ lock' = lock
      BY <1>7 DEF ReadRows
    <2>2. D \in SUBSET Docs /\ \A d \in D : Live(d) BY <1>4
    <2> HIDE DEF D, pc
    <2>3. [d \in D |-> "write"] \in [D -> {"write", "remove", "clear"}] /\ \A d \in D : [e \in D |-> "write"][d] = "write"
      OBVIOUS
    <2> QED BY <1>5, <2>1, <2>2, <2>3
  <1>8. CASE how = "drop"
    <2> DEFINE D == {d \in scope : ~Live(d)}
    <2>1. act' = [act EXCEPT ![a].read = Seen([d \in D |-> "remove"], D), ![a].pc = pc] /\ lock' = lock
      BY <1>8 DEF ReadRows
    <2>2. D \in SUBSET Docs /\ \A d \in D : ~Live(d) BY <1>4
    <2> HIDE DEF D, pc
    <2>3. [d \in D |-> "remove"] \in [D -> {"write", "remove", "clear"}] /\ \A d \in D : [e \in D |-> "remove"][d] = "remove"
      OBVIOUS
    <2> QED BY <1>5, <2>1, <2>2, <2>3
  <1>9. CASE how = "purge" /\ State(dataset) \in {"deleted", "purging"}
    <2> DEFINE do == [d \in scope |-> "remove"]
               read == Seen(do, scope)
               p == [act[a] EXCEPT !.read = read, !.pc = "write", !.since = row[dataset].text]
    <2>1. /\ act' = [[act EXCEPT ![a].read = read, ![a].pc = pc] EXCEPT ![a].since = row[dataset].text]
          /\ lock' = lock /\ pc = "write"
      BY <1>9 DEF ReadRows
    <2>2. act' = [act EXCEPT ![a] = p] BY <2>1, Rest
    <2>3. do \in [scope -> {"write", "remove", "clear"}] /\ \A d \in scope : do[d] = "remove" OBVIOUS
    <2>4. \A d \in Docs : ~Live(d) BY <1>9 DEF Live
    <2> HIDE DEF do
    <2>5. p.pc = "write" /\ p.read = Seen(do, scope) /\ p.since = row[dataset].text
      BY DEF Typed, TypeOK, Actor
    <2>6. row[dataset].text <= clock BY <1>1, RowsAre DEF Times
    <2> HIDE DEF p
    <2>7. act'[a] = p /\ Others(a) BY <2>2, Only
    <2>8. lock' = lock /\ "write" \in Mid BY <2>1 DEF Mid
    <2>9. Reads(a) BY <1>1, <1>4, <2>3, <2>4, <2>5, <2>6, <2>7, <2>8, SeenReads
    <2> QED BY <2>9, ReadsRight
  <1>10. CASE how = "purge" /\ State(dataset) \notin {"deleted", "purging"}
    <2>1. act' = [act EXCEPT ![a] = Idle] /\ lock' = Nobody BY <1>10 DEF ReadRows
    <2>2. lock = a BY <1>1 DEF Alone, Holding
    <2> QED BY <1>1, <2>1, <2>2, IdleAt, Goes
  <1> QED BY <1>3, <1>6, <1>7, <1>8, <1>9, <1>10 DEF Part

\* The end of a batch, for each of the four purposes.
LEMMA SettleRight == ASSUME Typed, Typed', Right, NEW a \in Actors, Settle(a) PROVE Right'
  <1> DEFINE read == act[a].read
             refused == {d \in DOMAIN read : read[d].do = "write" /\ d \in Rejected}
  <1>1. /\ act[a].pc = "settle" /\ lock' = Nobody
        /\ UNCHANGED <<org, index, clock>> /\ Times /\ Alone
    BY DEF Settle, Right
  <1>2. lock = a BY <1>1 DEF Alone, Holding
  <1>3. act[a].todo # <<>> /\ act[a].todo \in Seq(Part) BY <1>1, Rest DEF WellFormed, Holding, Actor
  <1>4. Part1(a) \in Part BY <1>3 DEF Part1
  <1>5. CASE Part1(a).how = "sync"
    <2>1. row' = [d \in Docs |-> IF d \in Cleared(read) THEN [row[d] EXCEPT !.due = FALSE] ELSE row[d]]
      BY <1>5 DEF Settle
    <2>2. \A d \in Docs : /\ row'[d].state = row[d].state /\ row'[d].text = row[d].text
                          /\ IF d \in Cleared(read) THEN ~row'[d].due ELSE row'[d].due = row[d].due
      BY <2>1, Rest DEF Rows
    <2>3. PICK again, skip : act' = [act EXCEPT ![a] = After(a, again, skip)]
                             \/ act' = [act EXCEPT ![a] = Asking(a)]
      BY <1>5 DEF Settle
    <2>4. act'[a].pc \in {"idle", "lock", "list", "ask"} /\ act'[a].since <= clock /\ Others(a)
      BY <1>1, <2>3, AfterAt, AskingAt, Only
    <2>5. Settles(a) BY <1>1, <2>2, <2>4 DEF Settles
    <2> QED BY <2>5, SettlesRight
  <1>6. CASE Part1(a).how = "purge"
    <2> DEFINE r == [Idle EXCEPT !.pc = "rows", !.since = act[a].since]
    <2>1. act' = [act EXCEPT ![a] = r] /\ row' = row BY <1>6 DEF Settle
    <2>2. r.pc = "rows" /\ r.since = act[a].since BY DEF Idle
    <2> HIDE DEF r
    <2>3. act'[a] = r /\ Others(a) BY <2>1, Only
    <2>4. Quiet(a) BY <1>1, <1>2, <1>6, <2>1, <2>2, <2>3 DEF Quiet, Carrying, Times
    <2> QED BY <2>4, QuietRight
  <1>7. CASE Part1(a).how \in {"copy", "drop"}
    <2>1. PICK r \in {After(a, {}, {}), Idle} : act' = [act EXCEPT ![a] = r] BY <1>7 DEF Settle
    <2>2. row' = row BY <1>7 DEF Settle
    <2>3. r.pc \in {"idle", "list", "lock", "ask"} /\ r.since <= clock BY <1>1, AfterAt, IdleAt
    <2> QED BY <1>1, <1>2, <2>1, <2>2, <2>3, Goes
  <1> QED BY <1>4, <1>5, <1>6, <1>7 DEF Part

\* The rows of a purge, or nothing left to purge.
LEMMA PurgeRowsRight == ASSUME Typed, Typed', Right, NEW q \in Requests, PurgeRows(q) PROVE Right'
  <1>1. q \in Actors BY DEF Actors
  <1>2. CASE State(dataset) \in {"deleted", "purging"} BY <1>2, RowsGoRight
  <1>3. CASE State(dataset) \notin {"deleted", "purging"}
    <2>1. row' = row /\ act' = [act EXCEPT ![q] = Idle] /\ UNCHANGED <<org, index, lock, clock>>
      BY <1>3 DEF PurgeRows
    <2> QED BY <1>1, <2>1, IdleAt, Goes
  <1> QED BY <1>2, <1>3

\* The sweep and a stuttering step.
LEMMA StillRight == ASSUME Right, UNCHANGED <<row, org, index, lock, act, clock>> PROVE Right'
  <1>1. (Alone /\ Times /\ Renaming /\ Gone)'
    BY DEF Right, Alone, Times, Renaming, Gone, State
  <1>2. (Unseen /\ InHand)'
    BY DEF Right, Unseen, Unwritten, InHand, Doing, Has, Newer, Excused, State, Live, Now
  <1>3. (Written /\ Emptied)'
    BY DEF Right, Written, Emptied, Unwritten, Doing, Has, State, Live, Now, Wanted, Cleared, Part1
  <1>4. (StaleIsMarked /\ Ordered)'
    BY DEF Right, StaleIsMarked, Ordered, Doing, Has, State, Live, Now, Wanted
  <1> QED BY <1>1, <1>2, <1>3, <1>4 DEF Right

\* Every step keeps Right.
LEMMA RightNext == ASSUME Typed, Right, [Next]_vars PROVE Right'
  <1>1. Typed' BY TypeNext
  <1>2. CASE \E q \in Requests : Commit(q) \/ PurgeRows(q) \/ Ask(q)
    BY <1>1, <1>2, CommitRight, PurgeRowsRight, AskRight
  <1>3. CASE \E a \in Actors : \/ TakeLock(a) \/ LeaveToJob(a) \/ Step(a)
                               \/ IndexFails(a) \/ RowTimesOut(a) \/ Crash(a)
    BY <1>1, <1>3, TakeLockRight, WaitingRight, ReadRowsRight, BuildRight, WriteRight, SettleRight, FailRight
       DEF Step
  <1>4. CASE \E w \in Workers : StartJob(w) \/ StartRebuild(w) \/ ListIndexed(w)
    BY <1>1, <1>4, StartRight
  <1>5. CASE RenameMark \/ RenameTake \/ RenameCommit
    BY <1>1, <1>5, RenameLooksRight, RenameRight
  <1>6. CASE Sweep \/ UNCHANGED vars
    BY <1>6, StillRight DEF Sweep, vars
  <1> QED BY <1>2, <1>3, <1>4, <1>5, <1>6 DEF Next

\* Right at the start.
LEMMA RightInit == ASSUME Init PROVE Right
  <1>1. /\ \A a \in Actors : act[a].pc = "idle" /\ act[a].since = 0
        /\ clock = 0 /\ org.name = 0 /\ org.rename = "none"
    BY DEF Init, Idle
  <1>2. /\ \A d \in Docs : row[d].text = 0 /\ row[d].due = FALSE /\ index[d] = Wanted(d)
        /\ \A d \in Docs : row[d].state # "gone"
    BY DEF Init
  <1>3. \A d \in Docs : Wanted(d) \in {Now(d), Nothing} /\ Now(d).text = 0 /\ Nothing.text = -1
    BY <1>2 DEF Wanted, Now, Nothing
  <1>4. Times BY <1>1, <1>2, <1>3 DEF Times, Carrying
  <1>5. Unwritten BY <1>1 DEF Unwritten, Mid
  <1>6. Unseen BY <1>2, <1>5 DEF Unseen, Wanted, Live, State, Hidden
  <1>7. Alone /\ InHand /\ Written /\ Emptied
    BY <1>1 DEF Alone, Holding, InHand, Mid, Written, Emptied
  <1>8. Renaming BY <1>1 DEF Renaming
  <1>9. Gone BY <1>2 DEF Gone, State, Docs
  <1>10. StaleIsMarked BY <1>2 DEF StaleIsMarked
  <1>11. Ordered
    <2>1. \A d \in Docs : Now(d).org = 0 BY <1>1 DEF Now
    <2>2. \A d \in Docs : index[d].text <= 0 /\ index[d].org <= 0 BY <1>2, <1>3, <2>1 DEF Nothing
    <2> QED BY <1>1, <1>2, <2>1, <2>2 DEF Ordered, Mid
  <1> QED BY <1>4, <1>6, <1>7, <1>8, <1>9, <1>10, <1>11 DEF Right

\* No step loses an edit to the index, whatever the documents, the actors, the size of a
\* batch, the documents refused and the faults: search-index.ts:207.
THEOREM NoEditLost == Spec => []StaleIsMarked
  <1>1. Init => Typed /\ Right BY TypeInit, RightInit
  <1>2. Typed /\ Right /\ [Next]_vars => (Typed /\ Right)' BY TypeNext, RightNext
  <1>3. Typed /\ Right => StaleIsMarked BY DEF Right
  <1> QED BY <1>1, <1>2, <1>3, PTL DEF Spec

\* Only a batch that lands moves the index, and it moves it on.
LEMMA IndexStays ==
    ASSUME [Next]_vars PROVE index' = index \/ \E a \in Actors : WriteIndex(a) \/ IndexFails(a)
  <1>1. ASSUME NEW q \in Requests, Commit(q) PROVE index' = index
    BY <1>1 DEF Commit, Create, EditDataset, EditResource, EditByRun, DeleteResource, DeleteDataset,
                MakeLive, PurgeDeleted, PurgeDraft, Then
  <1>2. ASSUME NEW q \in Requests, PurgeRows(q) \/ Ask(q) PROVE index' = index
    BY <1>2 DEF PurgeRows, Ask
  <1>3. ASSUME NEW a \in Actors, TakeLock(a) \/ LeaveToJob(a) \/ ReadRows(a) \/ BuildDoc(a) \/ Settle(a)
                                  \/ RowTimesOut(a) \/ Crash(a)
        PROVE index' = index
    BY <1>3 DEF TakeLock, LeaveToJob, ReadRows, BuildDoc, Settle, RowTimesOut, Crash
  <1>4. ASSUME NEW w \in Workers, StartJob(w) \/ StartRebuild(w) \/ ListIndexed(w) PROVE index' = index
    BY <1>4 DEF StartJob, StartRebuild, ListIndexed
  <1>5. CASE RenameMark \/ RenameTake \/ RenameCommit \/ Sweep
    BY <1>5 DEF RenameMark, RenameTake, RenameCommit, Sweep
  <1>6. CASE UNCHANGED vars BY <1>6 DEF vars
  <1> QED BY <1>1, <1>2, <1>3, <1>4, <1>5, <1>6 DEF Next, Step

\* What lands is not behind what it replaces.
LEMMA LandsForward ==
    ASSUME Typed, Ordered, NEW a \in Actors, Lands(a), NEW d \in Docs, index'[d] # Nothing
    PROVE index[d].text <= index'[d].text /\ index[d].org <= index'[d].org
  BY RowsAre DEF Ordered, Lands, Mid

\* No batch puts back in the index what a row said before, its organization's name
\* included: search-index.ts:421.
THEOREM IndexNeverBack == Spec => NeverOlder
  <1>1. Init => Typed /\ Right BY TypeInit, RightInit
  <1>2. Typed /\ Right /\ [Next]_vars => (Typed /\ Right)' BY TypeNext, RightNext
  <1> DEFINE Forward == \A d \in Docs :
          index[d] # Nothing /\ index'[d] # Nothing
             => index'[d].text >= index[d].text /\ index'[d].org >= index[d].org
  <1>3. Typed /\ Right /\ [Next]_vars => [Forward]_vars
    <2>1. SUFFICES ASSUME Typed, Right, [Next]_vars PROVE Forward OBVIOUS
    <2>2. CASE index' = index
      <3>1. \A d \in Docs : index[d].text \in Int /\ index[d].org \in Int BY <2>1, RowsAre
      <3> QED BY <2>2, <3>1
    <2>3. ASSUME NEW a \in Actors, WriteIndex(a) \/ IndexFails(a) PROVE Forward
      <3>1. Lands(a) BY <2>1, <2>3, WriteLands, FailLands
      <3>2. Ordered /\ Typed' BY <2>1, TypeNext DEF Right
      <3>3. \A d \in Docs : index'[d] # Nothing => index[d].text <= index'[d].text /\ index[d].org <= index'[d].org
        BY <2>1, <3>1, <3>2, LandsForward
      <3>4. \A d \in Docs : /\ index[d].text \in Int /\ index[d].org \in Int
                            /\ index'[d].text \in Int /\ index'[d].org \in Int
        BY <2>1, <3>2, Bounds DEF Typed, TypeOK, Content
      <3> QED BY <3>3, <3>4
    <2> QED BY <2>1, <2>2, <2>3, IndexStays
  <1> QED BY <1>1, <1>2, <1>3, PTL DEF Spec, NeverOlder

-----------------------------------------------------------------------------
(* An edit is searchable on return *)

\* A request refuses nothing, and its parts are all of one purpose.
Whole ==
    \A q \in Requests :
        /\ act[q].skip = {}
        /\ \A i, j \in DOMAIN act[q].todo : act[q].todo[i].how = act[q].todo[j].how

\* What a request is still to write was in its transaction, or was out of sight in it.
Told ==
    \A q \in Requests : \A i \in DOMAIN act[q].todo :
        act[q].todo[i].how = "sync" =>
            \A d \in act[q].todo[i].scope : row[d].text >= act[q].since \/ State(d) # "active"

\* What a request with room in its batch did not read, it had no need to.
Unread ==
    \A q \in Requests :
        /\ act[q].pc \in Carrying /\ Part1(q).how = "sync"
        /\ Cardinality(DOMAIN act[q].read) < Batch
        => \A d \in Part1(q).scope \ DOMAIN act[q].read :
              index[d] = Nothing \/ index[d].text >= act[q].since \/ State(d) = "gone"

Returning == Whole /\ Told /\ Unread

\* The parts of a request.
LEMMA PartsAre == ASSUME Typed, NEW q \in Requests
    PROVE /\ q \in Actors /\ act[q].todo \in Seq(Part) /\ act[q].since \in Nat
          /\ \A i \in DOMAIN act[q].todo : /\ act[q].todo[i].how \in {"sync", "purge"}
                                           /\ act[q].todo[i].scope \subseteq Docs
  <1>1. q \in Actors /\ act[q].todo \in Seq(Part) /\ act[q].since \in Nat
    BY RowsAre DEF Actors, Typed, TypeOK, Actor
  <1>2. \A i \in DOMAIN act[q].todo : act[q].todo[i] \in Part BY <1>1
  <1>3. \A i \in DOMAIN act[q].todo : act[q].todo[i].how \in {"sync", "purge"}
    BY <1>1, Rest DEF WellFormed
  <1> QED BY <1>1, <1>2, <1>3 DEF Part

\* What a step may do to a row.
LEMMA RowsMove ==
    ASSUME Typed, Right, [Next]_vars, NEW d \in Docs
    PROVE /\ State(d)' = "active" => \/ State(d) = "active" /\ row[d].text <= row'[d].text
                                     \/ clock < row'[d].text
          /\ State(d) = "gone" => State(d)' = "gone"
  <1> DEFINE Fine == /\ State(d)' = "active" => \/ State(d) = "active" /\ row[d].text <= row'[d].text
                                                \/ clock < row'[d].text
                     /\ State(d) = "gone" => State(d)' = "gone"
  <1> SUFFICES Fine OBVIOUS
  <1>0. /\ clock \in Nat /\ row[d].text \in Nat /\ Gone
    BY RowsAre DEF Right
  <1>1. ASSUME row' = row PROVE Fine
    BY <1>0, <1>1 DEF State
  <1>2. ASSUME NEW q \in Requests, NEW D \in SUBSET Docs, Marking(q, D) PROVE Fine
    BY <1>0, <1>2 DEF Marking, Gone, State
  <1>3. ASSUME NEW q \in Requests, Commit(q) PROVE Fine
    <2>1. CASE \E D \in SUBSET Docs : Marking(q, D) BY <1>2, <2>1
    <2>2. CASE Quiet(q) BY <1>1, <2>2 DEF Quiet
    <2>3. CASE PurgeDraft(q)
      <3>1. row' = [row EXCEPT ![dataset].state = "purging"] /\ State(dataset) \in {"draft", "purging"}
        BY <2>3 DEF PurgeDraft
      <3>2. row'[d] = IF d = dataset THEN [row[d] EXCEPT !.state = "purging"] ELSE row[d]
        BY <3>1, Rest DEF Rows
      <3> QED BY <1>0, <3>1, <3>2, Rest DEF State, Rows
    <2> QED BY <1>3, <2>1, <2>2, <2>3, CommitKinds
  <1>4. ASSUME NEW q \in Requests, PurgeRows(q) PROVE Fine
    <2>1. \/ row' = row
          \/ row' = [e \in Docs |-> [state |-> "gone", text |-> IF row[dataset].text = act[q].since THEN 0 ELSE 1, due |-> FALSE]]
      BY <1>4, Zenon DEF PurgeRows
    <2> QED BY <1>1, <2>1 DEF State
  <1>5. ASSUME NEW a \in Actors, Settle(a) PROVE Fine
    <2>1. \/ row' = row
          \/ row' = [e \in Docs |-> IF e \in Cleared(act[a].read) THEN [row[e] EXCEPT !.due = FALSE] ELSE row[e]]
      BY <1>5 DEF Settle
    <2> HIDE DEF Fine
    <2>2. ASSUME row' = [e \in Docs |-> IF e \in Cleared(act[a].read) THEN [row[e] EXCEPT !.due = FALSE] ELSE row[e]]
          PROVE row'[d].state = row[d].state /\ row'[d].text = row[d].text
      BY <2>2, Rest DEF Rows
    <2> QED BY <1>0, <1>1, <2>1, <2>2 DEF State, Fine
  <1>6. CASE RenameCommit
    <2>1. row' = row \/ row' = [row EXCEPT ![dataset].text = clock + 1, ![dataset].due = TRUE]
      BY <1>6 DEF RenameCommit
    <2>2. ASSUME row' = [row EXCEPT ![dataset].text = clock + 1, ![dataset].due = TRUE]
          PROVE /\ row'[d].state = row[d].state
                /\ row'[d].text = IF d = dataset THEN clock + 1 ELSE row[d].text
      BY <2>2, Rest DEF Rows
    <2> QED BY <1>0, <1>1, <2>1, <2>2 DEF State
  <1>7. ASSUME NEW a \in Actors, TakeLock(a) \/ LeaveToJob(a) \/ ReadRows(a) \/ BuildDoc(a) \/ WriteIndex(a)
                                  \/ IndexFails(a) \/ RowTimesOut(a) \/ Crash(a)
        PROVE Fine
    <2>1. row' = row
      BY <1>7 DEF TakeLock, LeaveToJob, ReadRows, BuildDoc, WriteIndex, IndexFails, RowTimesOut, Crash
    <2> QED BY <1>1, <2>1
  <1>8. CASE \/ \E q \in Requests : Ask(q)
             \/ \E w \in Workers : StartJob(w) \/ StartRebuild(w) \/ ListIndexed(w)
             \/ RenameMark \/ RenameTake \/ Sweep \/ UNCHANGED vars
    BY <1>1, <1>8 DEF Ask, StartJob, StartRebuild, ListIndexed, RenameMark, RenameTake, Sweep, vars
  <1> HIDE DEF Fine
  <1>9. CASE \E q \in Requests : Commit(q) \/ PurgeRows(q) \/ Ask(q) BY <1>3, <1>4, <1>8, <1>9
  <1>10. CASE \E a \in Actors : \/ TakeLock(a) \/ LeaveToJob(a) \/ Step(a)
                                \/ IndexFails(a) \/ RowTimesOut(a) \/ Crash(a)
    BY <1>5, <1>7, <1>10 DEF Step
  <1> QED BY <1>6, <1>8, <1>9, <1>10 DEF Next

\* A step of an actor is its own.
LEMMA StepsAlone ==
    ASSUME Typed, NEW a \in Actors,
           \/ TakeLock(a) \/ LeaveToJob(a) \/ Step(a) \/ IndexFails(a) \/ RowTimesOut(a) \/ Crash(a)
    PROVE Others(a)
  <1>1. act \in [Actors -> Actor] BY ActorOK
  <1>2. CASE TakeLock(a) \/ LeaveToJob(a) \/ BuildDoc(a) \/ WriteIndex(a)
    BY <1>1, <1>2 DEF TakeLock, LeaveToJob, BuildDoc, WriteIndex, Others
  <1>3. CASE ReadRows(a)
    BY <1>1, <1>3 DEF ReadRows, Others
  <1>4. CASE Settle(a)
    BY <1>1, <1>4 DEF Settle, Others
  <1>5. CASE IndexFails(a) \/ RowTimesOut(a) \/ Crash(a)
    BY <1>1, <1>5 DEF IndexFails, RowTimesOut, Crash, GivenUp, Others
  <1> QED BY <1>2, <1>3, <1>4, <1>5 DEF Step

\* What is a request's own.
Own(q) ==
    \/ Commit(q) \/ PurgeRows(q) \/ Ask(q)
    \/ TakeLock(q) \/ LeaveToJob(q) \/ Step(q) \/ IndexFails(q) \/ RowTimesOut(q) \/ Crash(q)

\* Nobody else moves a request.
LEMMA OwnSteps ==
    ASSUME Typed, [Next]_vars, NEW q \in Requests
    PROVE act'[q] = act[q] \/ Own(q)
  <1>1. act \in [Actors -> Actor] /\ q \in Actors /\ q \notin Workers
    BY ActorOK, WhoIsWho DEF Actors
  <1>2. CASE \E p \in Requests : Commit(p) \/ PurgeRows(p) \/ Ask(p)
    <2>1. PICK p \in Requests : Commit(p) \/ PurgeRows(p) \/ Ask(p) BY <1>2
    <2>2. CASE p = q BY <2>1, <2>2 DEF Own
    <2>3. CASE p # q
      <3>1. PICK r : act' = [act EXCEPT ![p] = r]
        <4>1. CASE PurgeRows(p) \/ Ask(p) BY <4>1 DEF PurgeRows, Ask
        <4>2. CASE Commit(p)
          BY <4>2 DEF Commit, Create, EditDataset, EditResource, EditByRun, DeleteResource, DeleteDataset,
                      MakeLive, PurgeDeleted, PurgeDraft, Then
        <4> QED BY <2>1, <4>1, <4>2
      <3> QED BY <1>1, <2>3, <3>1
    <2> QED BY <2>2, <2>3
  <1>3. CASE \E a \in Actors : \/ TakeLock(a) \/ LeaveToJob(a) \/ Step(a)
                               \/ IndexFails(a) \/ RowTimesOut(a) \/ Crash(a)
    <2>1. PICK a \in Actors : \/ TakeLock(a) \/ LeaveToJob(a) \/ Step(a)
                              \/ IndexFails(a) \/ RowTimesOut(a) \/ Crash(a)
      BY <1>3
    <2>2. CASE a = q BY <2>1, <2>2 DEF Own
    <2>3. CASE a # q BY <1>1, <2>1, <2>3, StepsAlone DEF Others
    <2> QED BY <2>2, <2>3
  <1>4. ASSUME NEW w \in Workers, StartJob(w) \/ StartRebuild(w) \/ ListIndexed(w)
        PROVE act'[q] = act[q]
    BY <1>1, <1>4 DEF StartJob, StartRebuild, ListIndexed
  <1>5. CASE RenameMark \/ RenameTake \/ RenameCommit \/ Sweep \/ UNCHANGED vars
    BY <1>5 DEF RenameMark, RenameTake, RenameCommit, Sweep, vars
  <1> QED BY <1>2, <1>3, <1>4, <1>5 DEF Next

\* A request goes on with what it has begun: it comes to the next of its parts, or the end.
Onward(q) ==
    /\ act'[q].skip \in {{}, act[q].skip}
    /\ \/ act'[q].todo = <<>>
       \/ /\ act'[q].since = act[q].since
          /\ \/ act'[q].todo = act[q].todo
             \/ act[q].todo # <<>> /\ act'[q].todo = Tail(act[q].todo)
       \/ act'[q].todo = act[q].todo /\ act[q].todo # <<>> /\ Part1(q).how = "purge"

\* The next part, for a request.
LEMMA AfterOnward ==
    ASSUME NEW q, act[q].todo # <<>>
    PROVE LET r == After(q, {}, {}) IN
          /\ r.skip = {}
          /\ r.todo = <<>> \/ (r.since = act[q].since /\ r.todo = Tail(act[q].todo))
  <1>1. Idle.skip = {} /\ Idle.todo = <<>> BY DEF Idle
  <1>2. CASE Tail(act[q].todo) = <<>> BY <1>1, <1>2 DEF After
  <1>3. CASE Tail(act[q].todo) # <<>>
    <2>1. PICK pc : After(q, {}, {}) = [Idle EXCEPT !.pc = pc, !.todo = Tail(act[q].todo), !.again = {},
                                                   !.skip = {}, !.since = act[q].since]
      BY <1>3 DEF After
    <2> QED BY <2>1 DEF Idle
  <1> QED BY <1>2, <1>3

\* The steps of a request but its transactions.
LEMMA GoesOnward ==
    ASSUME Typed, [Next]_vars, NEW q \in Requests, ~Commit(q)
    PROVE Onward(q)
  <1> DEFINE x == act[q]
  <1>0. /\ act \in [Actors -> Actor] /\ q \in Actors /\ q \notin Workers /\ x \in Actor
        /\ x.pc \in {"lock", "read", "build", "write", "settle"} => x.todo # <<>>
        /\ Idle.skip = {} /\ Idle.todo = <<>>
    BY ActorOK, WhoIsWho, Rest DEF Actors, WellFormed, Holding, Idle
  <1>1. ASSUME act'[q] = Idle PROVE Onward(q) BY <1>0, <1>1 DEF Onward
  <1>2. ASSUME act'[q] = x PROVE Onward(q) BY <1>2 DEF Onward
  <1>3. ASSUME x.todo # <<>>, act'[q] = After(q, {}, {}) PROVE Onward(q)
    BY <1>3, AfterOnward DEF Onward
  <1>4. ASSUME act'[q] = Asking(q) PROVE Onward(q)
    BY <1>0, <1>4 DEF Onward, Asking, Actor
  <1>5. ASSUME act'[q].skip = x.skip, act'[q].todo = x.todo, act'[q].since = x.since PROVE Onward(q)
    BY <1>5 DEF Onward
  <1>6. CASE PurgeRows(q)
    BY <1>0, <1>1, <1>6 DEF PurgeRows
  <1>7. CASE Ask(q)
    <2>1. act'[q] = IF x.todo = <<>> THEN Idle ELSE After(q, {}, {}) BY <1>0, <1>7 DEF Ask
    <2> QED BY <1>1, <1>3, <2>1
  <1>8. CASE TakeLock(q) \/ BuildDoc(q) \/ WriteIndex(q)
    BY <1>0, <1>5, <1>8 DEF TakeLock, BuildDoc, WriteIndex, Actor
  <1>9. CASE LeaveToJob(q)
    <2>1. x.todo # <<>> /\ act'[q] \in {After(q, {}, {}), Asking(q)}
      BY <1>0, <1>9 DEF LeaveToJob
    <2> QED BY <1>3, <1>4, <2>1
  <1>10. CASE ReadRows(q)
    <2>1. x.todo # <<>> BY <1>0, <1>10 DEF ReadRows
    <2>2. CASE Part1(q).how = "purge" BY <1>0, <2>1, <2>2, <1>10 DEF ReadRows, Onward, Idle, Actor
    <2>3. CASE Part1(q).how # "purge"
      <3>1. PICK read, pc : act' = [act EXCEPT ![q].read = read, ![q].pc = pc]
        BY <2>3, <1>10, Zenon DEF ReadRows
      <3>2. act'[q] = [x EXCEPT !.read = read, !.pc = pc] BY <1>0, <3>1
      <3> QED BY <1>0, <1>5, <3>2 DEF Actor
    <2> QED BY <2>2, <2>3
  <1>11. CASE Settle(q)
    <2>1. x.todo # <<>> /\ q \in Requests BY <1>0, <1>11 DEF Settle
    <2>2. CASE Part1(q).how = "sync"
      <3>1. act'[q] \in {After(q, {}, {}), Asking(q)} BY <1>0, <1>11, <2>2 DEF Settle
      <3> QED BY <1>3, <1>4, <2>1, <3>1
    <2>3. CASE Part1(q).how = "purge"
      <3>1. act'[q] = [Idle EXCEPT !.pc = "rows", !.since = x.since] BY <1>0, <1>11, <2>3 DEF Settle
      <3> QED BY <3>1 DEF Onward, Idle
    <2>4. CASE Part1(q).how \in {"copy", "drop"}
      <3>1. act'[q] \in {After(q, {}, {}), Idle} BY <1>0, <1>11, <2>4 DEF Settle
      <3> QED BY <1>1, <1>3, <2>1, <3>1
    <2> QED BY <1>11, <2>2, <2>3, <2>4 DEF Settle
  <1>12. CASE IndexFails(q) \/ RowTimesOut(q)
    <2>1. act'[q] \in {Asking(q), Idle} BY <1>0, <1>12 DEF IndexFails, RowTimesOut, GivenUp
    <2> QED BY <1>1, <1>4, <2>1
  <1>13. CASE Crash(q)
    BY <1>0, <1>1, <1>13 DEF Crash
  <1> QED BY <1>2, <1>6, <1>7, <1>8, <1>9, <1>10, <1>11, <1>12, <1>13, OwnSteps DEF Own, Step

\* Where a request begins: with all it is told.
Begins(q) ==
    /\ act'[q].skip = {} /\ act'[q].pc \notin Carrying
    /\ \A i, j \in DOMAIN act'[q].todo : act'[q].todo[i].how = act'[q].todo[j].how
    /\ \A i \in DOMAIN act'[q].todo : act'[q].todo[i].how = "sync" =>
          \A d \in act'[q].todo[i].scope : row'[d].text >= act'[q].since \/ State(d)' # "active"

\* A transaction that marks all its request is to write, but for what is out of sight.
LEMMA MarkTold ==
    ASSUME Typed, NEW q \in Requests, NEW D \in SUBSET Docs, NEW to, NEW due, NEW todo,
           Mark(D, to, due), Then(q, todo),
           \A i \in DOMAIN todo : /\ todo[i].how = "sync"
                                  /\ \A d \in todo[i].scope : d \in D \/ (d \in Docs /\ State(d) # "active")
    PROVE Begins(q)
  <1>1. /\ clock' = clock + 1 /\ clock \in Nat
        /\ \A d \in D : row'[d].text = clock + 1
        /\ \A d \in Docs \ D : row'[d] = row[d]
    BY MarkAt, RowsAre
  <1>2. PICK pc \in {"ask", "lock"} :
            act' = [act EXCEPT ![q] = [Idle EXCEPT !.pc = pc, !.todo = todo, !.since = clock']]
    BY DEF Then
  <1>3. /\ act'[q].skip = {} /\ act'[q].pc = pc /\ act'[q].todo = todo /\ act'[q].since = clock + 1
    BY <1>1, <1>2, ActorOK DEF Idle, Actors
  <1>4. ASSUME NEW i \in DOMAIN todo, NEW d \in todo[i].scope
        PROVE row'[d].text >= clock + 1 \/ State(d)' # "active"
    <2>1. CASE d \in D BY <1>1, <2>1
    <2>2. CASE d \in Docs \ D /\ State(d) # "active" BY <1>1, <2>2 DEF State
    <2> QED BY <1>4, <2>1, <2>2
  <1> QED BY <1>3, <1>4 DEF Begins, Carrying

\* The parts of a transaction are of what it marked.
LEMMA CommitTold ==
    ASSUME Typed, NEW q \in Requests, Commit(q)
    PROVE Begins(q)
  <1>1. q \in Actors /\ act \in [Actors -> Actor] /\ {dataset} \subseteq Docs /\ Resources \subseteq Docs
    BY ActorOK DEF Actors, Docs
  <1>2. \A S : MayWait(S) \in {Sync(S), Hiding(S)}
    BY DEF MayWait
  <1>3. \A S : /\ Sync(S).how = "sync" /\ Hiding(S).how = "sync"
               /\ Sync(S).scope = S /\ Hiding(S).scope = S
    BY DEF Sync, Hiding
  <1> HIDE DEF Sync, Hiding
  <1>4. CASE Create(q)
    <2>1. Then(q, <<Sync({dataset}), Sync(Resources)>>) BY <1>4 DEF Create
    <2>2. PICK to, due : Mark(Docs, to, due) BY <1>4, Zenon DEF Create
    <2> QED BY <1>1, <1>3, <2>1, <2>2, MarkTold
  <1>5. CASE EditDataset(q)
    <2>1. PICK part \in {Sync({dataset}), Hiding({dataset})} : Then(q, <<part>>)
      BY <1>2, <1>5 DEF EditDataset
    <2>2. Mark({dataset}, Same, All) BY <1>5 DEF EditDataset
    <2> QED BY <1>1, <1>3, <2>1, <2>2, MarkTold
  <1>6. ASSUME NEW r \in Resources, EditResource(q, r) \/ EditByRun(q, r) \/ DeleteResource(q, r)
        PROVE Begins(q)
    <2>1. PICK todo \in {<<>>, <<Sync({r})>>} : Then(q, todo)
      BY <1>6 DEF EditResource, EditByRun, DeleteResource
    <2>2. PICK to : Mark({r}, to, All)
      BY <1>6, Zenon DEF EditResource, EditByRun, DeleteResource
    <2>3. \A i \in DOMAIN todo : todo[i].how = "sync" /\ todo[i].scope = {r}
      BY <1>3, <2>1
    <2> QED BY <1>1, <2>1, <2>2, <2>3, MarkTold
  <1>7. ASSUME NEW part, part \in {Sync({dataset}), Hiding({dataset})}, Then(q, <<part, Sync(Resources)>>),
               NEW to, Mark({dataset} \cup ActiveResources, to, All)
        PROVE Begins(q)
    <2>1. {dataset} \cup ActiveResources \in SUBSET Docs BY <1>1 DEF ActiveResources
    <2>2. \A d \in Resources : d \in ActiveResources \/ State(d) # "active" BY DEF ActiveResources
    <2> QED BY <1>1, <1>3, <1>7, <2>1, <2>2, MarkTold
  <1>8. CASE DeleteDataset(q)
    <2>1. PICK to : Mark({dataset} \cup ActiveResources, to, All) BY <1>8, Zenon DEF DeleteDataset
    <2>2. Then(q, <<MayWait({dataset}), Sync(Resources)>>) BY <1>8 DEF DeleteDataset
    <2> QED BY <1>2, <1>7, <2>1, <2>2
  <1>9. CASE MakeLive(q)
    <2>1. PICK to : Mark({dataset} \cup ActiveResources, to, All) BY <1>9, Zenon DEF MakeLive
    <2>2. Then(q, <<Sync({dataset}), Sync(Resources)>>) BY <1>9 DEF MakeLive
    <2> QED BY <1>7, <2>1, <2>2
  <1>10. CASE PurgeDeleted(q) \/ PurgeDraft(q)
    <2>1. act' = [act EXCEPT ![q] = [Idle EXCEPT !.pc = "lock", !.todo = <<Purging>>]]
      BY <1>10 DEF PurgeDeleted, PurgeDraft
    <2>2. act'[q].pc = "lock" /\ act'[q].todo = <<Purging>> /\ act'[q].skip = {}
      BY <1>1, <2>1 DEF Idle
    <2>3. \A i \in DOMAIN <<Purging>> : <<Purging>>[i].how = "purge"
      BY DEF Purging
    <2> QED BY <2>2, <2>3 DEF Begins, Carrying
  <1> QED BY <1>4, <1>5, <1>6, <1>8, <1>9, <1>10 DEF Commit

\* The parts left are of one purpose, and told.
LEMMA ToldStep ==
    ASSUME Typed, Right, Returning, [Next]_vars
    PROVE Whole' /\ Told'
  <1>1. ASSUME NEW q \in Requests
        PROVE /\ act'[q].skip = {}
              /\ \A i, j \in DOMAIN act'[q].todo : act'[q].todo[i].how = act'[q].todo[j].how
              /\ \A i \in DOMAIN act'[q].todo : act'[q].todo[i].how = "sync" =>
                    \A d \in act'[q].todo[i].scope : row'[d].text >= act'[q].since \/ State(d)' # "active"
    <2>1. CASE Commit(q) BY <2>1, CommitTold DEF Begins
    <2>2. CASE ~Commit(q)
      <3> DEFINE todo == act[q].todo
      <3>1. Onward(q) BY <2>2, GoesOnward
      <3>2. /\ act[q].skip = {} /\ todo \in Seq(Part) /\ act[q].since \in Nat /\ q \in Actors
            /\ \A i, j \in DOMAIN todo : todo[i].how = todo[j].how
            /\ \A i \in DOMAIN todo : todo[i].scope \subseteq Docs
        BY PartsAre DEF Returning, Whole
      <3>3. act'[q].skip = {} BY <3>1, <3>2 DEF Onward
      <3>4. CASE act'[q].todo = <<>> BY <3>3, <3>4
      <3>5. ASSUME NEW d \in Docs, row[d].text >= act[q].since \/ State(d) # "active"
            PROVE row'[d].text >= act[q].since \/ State(d)' # "active"
        <4>1. Typed' /\ act[q].since <= clock /\ clock \in Nat BY <3>2, RowsAre, TypeNext DEF Right, Times
        <4>2. row[d].text \in Nat /\ row'[d].text \in Nat BY <4>1, RowsAre, RowsLater
        <4> QED BY <3>2, <3>5, <4>1, <4>2, RowsMove
      <3>6. \A i \in DOMAIN todo : todo[i].how = "sync" =>
               \A d \in todo[i].scope : row'[d].text >= act[q].since \/ State(d)' # "active"
        BY <3>2, <3>5 DEF Returning, Told
      <3>7. CASE act'[q].since = act[q].since /\ act'[q].todo = todo
        BY <3>2, <3>3, <3>6, <3>7
      <3>8. CASE act'[q].since = act[q].since /\ todo # <<>> /\ act'[q].todo = Tail(todo)
        <4>1. \A i \in DOMAIN act'[q].todo : i + 1 \in DOMAIN todo /\ act'[q].todo[i] = todo[i + 1]
          BY <3>2, <3>8
        <4> HIDE DEF todo
        <4> QED BY <3>2, <3>3, <3>6, <3>8, <4>1
      <3>9. CASE act'[q].todo = todo /\ todo # <<>> /\ Part1(q).how = "purge"
        <4>1. 1 \in DOMAIN todo BY <3>2, <3>9
        <4>2. \A i \in DOMAIN todo : todo[i].how = "purge" BY <3>2, <3>9, <4>1 DEF Part1
        <4> QED BY <3>3, <3>9, <4>2
      <3> QED BY <3>1, <3>4, <3>7, <3>8, <3>9 DEF Onward
    <2> QED BY <2>1, <2>2
  <1> QED BY <1>1 DEF Whole, Told

\* The documents are finitely many.
LEMMA DocsFinite == IsFiniteSet(Docs)
  <1>1. IsFiniteSet(Resources \cup {dataset}) BY SyncAssumption, FS_AddElement
  <1> QED BY <1>1 DEF Docs

\* A batch that is not full is all there is to do.
LEMMA NotFull ==
    ASSUME NEW D \in SUBSET Docs, NEW B, Oldest(D, B), Cardinality(B) < Batch
    PROVE B = D
  <1>1. IsFiniteSet(D) BY DocsFinite, FS_Subset
  <1>2. B \in SUBSET D /\ IsFiniteSet(B) BY <1>1, FS_Subset DEF Oldest
  <1>3. Cardinality(B) \in Nat /\ Cardinality(D) \in Nat BY <1>1, <1>2, FS_CardinalityType
  <1>4. Cardinality(B) = Cardinality(D) BY <1>3, Bounds DEF Oldest
  <1> QED BY <1>1, <1>2, <1>4, FS_Subset

\* What a request reads for its part.
LEMMA ReadsPart ==
    ASSUME Typed, NEW q \in Requests, ReadRows(q), Part1(q).how = "sync"
    PROVE /\ act'[q].todo = act[q].todo /\ act'[q].since = act[q].since
          /\ Oldest(Due(Part1(q).scope \ act[q].skip), DOMAIN act'[q].read)
          /\ UNCHANGED <<row, index>>
  <1> DEFINE scope == Part1(q).scope
  <1>1. PICK B \in SUBSET scope : \E pc :
            /\ Oldest(Due(scope \ act[q].skip), B)
            /\ act' = [act EXCEPT ![q].read = Seen([d \in B |-> Do(d)], B), ![q].pc = pc]
    BY Zenon DEF ReadRows
  <1>2. PICK pc : act'[q] = [act[q] EXCEPT !.read = Seen([d \in B |-> Do(d)], B), !.pc = pc]
    BY <1>1, ActorOK DEF Actors
  <1>3. DOMAIN Seen([d \in B |-> Do(d)], B) = B BY DEF Seen
  <1>4. /\ act'[q].todo = act[q].todo /\ act'[q].since = act[q].since
        /\ act'[q].read = Seen([d \in B |-> Do(d)], B)
    BY <1>2, ActorOK DEF Actor, Actors
  <1> QED BY <1>1, <1>3, <1>4 DEF ReadRows

\* Who carries a batch after a step of his has read it, built it or written it.
LEMMA Carries ==
    ASSUME Typed, Right, [Next]_vars, NEW q \in Requests, act'[q].pc \in Carrying
    PROVE act'[q] = act[q] \/ ReadRows(q) \/ BuildDoc(q) \/ WriteIndex(q)
  <1>0. /\ act \in [Actors -> Actor] /\ q \in Actors /\ q \notin Workers /\ Times
        /\ {"idle", "list", "lock", "ask", "rows", "read"} \cap Carrying = {}
    BY ActorOK, WhoIsWho DEF Actors, Right, Carrying
  <1>1. ~Commit(q) BY CommitTold DEF Begins
  <1>2. ~PurgeRows(q) BY <1>0, IdleAt DEF PurgeRows
  <1>3. ~Ask(q)
    <2> SUFFICES ASSUME Ask(q) PROVE FALSE OBVIOUS
    <2>1. act'[q] \in {Idle, After(q, {}, {})} BY <1>0 DEF Ask
    <2> QED BY <1>0, <2>1, IdleAt, AfterAt
  <1>4. ~TakeLock(q) BY <1>0 DEF TakeLock, Actor
  <1>5. ~LeaveToJob(q)
    <2> SUFFICES ASSUME LeaveToJob(q) PROVE FALSE OBVIOUS
    <2>1. act'[q] \in {After(q, {}, {}), Asking(q)} BY <1>0 DEF LeaveToJob
    <2> QED BY <1>0, <2>1, AskingAt, AfterAt
  <1>6. ~Settle(q)
    <2> SUFFICES ASSUME Settle(q) PROVE FALSE OBVIOUS
    <2>1. PICK r : act' = [act EXCEPT ![q] = r]
                   /\ r \in {After(q, {}, {}), Asking(q), Idle, [Idle EXCEPT !.pc = "rows", !.since = act[q].since]}
      <3>1. CASE Part1(q).how = "sync" BY <1>0, <3>1 DEF Settle
      <3>2. CASE Part1(q).how # "sync" BY <1>0, <3>2 DEF Settle
      <3> QED BY <3>1, <3>2
    <2>2. [Idle EXCEPT !.pc = "rows", !.since = act[q].since].pc = "rows" BY DEF Idle
    <2>3. r.pc \in {"idle", "list", "lock", "ask", "rows"}
      <3>1. CASE r = [Idle EXCEPT !.pc = "rows", !.since = act[q].since] BY <2>2, <3>1
      <3>2. CASE r \in {After(q, {}, {}), Asking(q), Idle} BY <1>0, <3>2, AskingAt, AfterAt, IdleAt
      <3> QED BY <2>1, <3>1, <3>2
    <2> QED BY <1>0, <2>1, <2>3
  <1>7. ~IndexFails(q) /\ ~RowTimesOut(q)
    <2> SUFFICES ASSUME GivenUp(q) PROVE FALSE BY DEF IndexFails, RowTimesOut
    <2>1. act'[q] \in {Asking(q), Idle} BY <1>0 DEF GivenUp
    <2> QED BY <1>0, <2>1, AskingAt, IdleAt
  <1>8. ~Crash(q) BY <1>0, IdleAt DEF Crash
  <1> QED BY <1>1, <1>2, <1>3, <1>4, <1>5, <1>6, <1>7, <1>8, OwnSteps DEF Own, Step

\* Under the lock nobody else writes: what was not read is as it was.
LEMMA UnreadStep ==
    ASSUME Typed, Right, Returning, [Next]_vars
    PROVE Unread'
  <1> SUFFICES ASSUME NEW q \in Requests, act'[q].pc \in Carrying, Part1(q)'.how = "sync",
                      Cardinality(DOMAIN act'[q].read) < Batch,
                      NEW d \in Part1(q)'.scope \ DOMAIN act'[q].read
               PROVE index'[d] = Nothing \/ index'[d].text >= act'[q].since \/ State(d)' = "gone"
    BY DEF Unread
  <1>0. /\ q \in Actors /\ act[q].skip = {} /\ act[q].todo \in Seq(Part)
        /\ \A i \in DOMAIN act[q].todo : act[q].todo[i].scope \subseteq Docs
        /\ Carrying \subseteq Holding /\ Alone
        /\ act[q].pc \in Holding => act[q].todo # <<>>
    BY PartsAre, Rest DEF Returning, Whole, Carrying, Holding, Right, WellFormed
  <1>1. CASE ReadRows(q)
    <2>1. act[q].pc = "read" /\ 1 \in DOMAIN act[q].todo BY <1>0, <1>1 DEF ReadRows, Holding
    <2>2. Part1(q).how = "sync" /\ d \in Part1(q).scope /\ Part1(q).scope \subseteq Docs
          /\ act'[q].since = act[q].since
      <3>1. Part1(q).how \in {"sync", "purge"} BY <2>1, PartsAre DEF Part1
      <3>2. Part1(q).how # "purge"
        <4> SUFFICES ASSUME Part1(q).how = "purge" PROVE FALSE OBVIOUS
        <4>1. act'[q] # Idle BY IdleAt DEF Carrying
        <4>2. act'[q].todo = act[q].todo BY <1>0, <1>1, <4>1, ActorOK DEF ReadRows, Actor
        <4> QED BY <4>2 DEF Part1
      <3>3. Part1(q)' = Part1(q) BY <1>1, <3>1, <3>2, ReadsPart DEF Part1
      <3> QED BY <1>0, <1>1, <2>1, <3>1, <3>2, <3>3, ReadsPart DEF Part1
    <2>3. DOMAIN act'[q].read = Due(Part1(q).scope)
      <3>1. Part1(q).scope \ act[q].skip = Part1(q).scope BY <1>0
      <3>2. Due(Part1(q).scope) \in SUBSET Docs BY <2>2 DEF Due
      <3> QED BY <1>1, <2>2, <3>1, <3>2, ReadsPart, NotFull
    <2>4. d \in Docs /\ ~row[d].due BY <2>2, <2>3 DEF Due
    <2>5. index[d] = Wanted(d) \/ State(d) = "gone" BY <2>4 DEF Right, StaleIsMarked
    <2>6. row[d].text >= act[q].since \/ State(d) # "active"
      BY <2>1, <2>2 DEF Returning, Told, Part1
    <2>7. Wanted(d) = Nothing \/ (State(d) = "active" /\ Wanted(d).text = row[d].text)
      BY DEF Wanted, Live, Now
    <2>8. row' = row /\ index' = index BY <1>1, <2>2, ReadsPart
    <2> QED BY <2>2, <2>5, <2>6, <2>7, <2>8 DEF State
  <1>2. ASSUME act[q].pc \in Carrying, act'[q].todo = act[q].todo, act'[q].since = act[q].since,
               DOMAIN act'[q].read = DOMAIN act[q].read, index'[d] \in {index[d], Nothing}
        PROVE index'[d] = Nothing \/ index'[d].text >= act'[q].since \/ State(d)' = "gone"
    <2>1. Part1(q)' = Part1(q) BY <1>2 DEF Part1
    <2>2. 1 \in DOMAIN act[q].todo BY <1>0, <1>2
    <2>3. d \in Docs BY <1>0, <2>1, <2>2 DEF Part1
    <2>4. index[d] = Nothing \/ index[d].text >= act[q].since \/ State(d) = "gone"
      BY <1>2, <2>1 DEF Returning, Unread
    <2>5. State(d) = "gone" => State(d)' = "gone" BY <2>3, RowsMove
    <2> QED BY <1>2, <2>4, <2>5
  <1>3. CASE BuildDoc(q)
    <2>1. /\ act[q].pc = "build" /\ index' = index /\ act'[q].todo = act[q].todo
          /\ act'[q].since = act[q].since /\ DOMAIN act'[q].read = DOMAIN act[q].read
      BY <1>0, <1>3, ActorOK DEF BuildDoc, Actor
    <2> QED BY <1>2, <2>1 DEF Carrying
  <1>4. CASE WriteIndex(q)
    <2>1. /\ act[q].pc = "write" /\ act'[q].todo = act[q].todo
          /\ act'[q].since = act[q].since /\ act'[q].read = act[q].read
      BY <1>0, <1>4, WriteLands
    <2>2. d \in Docs
      <3>1. Part1(q)' = Part1(q) /\ 1 \in DOMAIN act[q].todo BY <1>0, <2>1 DEF Part1, Holding
      <3> QED BY <1>0, <3>1 DEF Part1
    <2>3. index'[d] \in {index[d], Nothing}
      BY <1>0, <1>4, <2>1, <2>2, WriteLands DEF Doing, Has
    <2> QED BY <1>2, <2>1, <2>3 DEF Carrying
  <1>5. CASE act'[q] = act[q]
    <2>1. ASSUME NEW a \in Actors, WriteIndex(a) \/ IndexFails(a) PROVE FALSE
      <3>1. act[a].pc = "write" /\ act[q].pc \in Holding BY <1>0, <1>5, <2>1 DEF WriteIndex, IndexFails
      <3>2. a = q BY <1>0, <3>1 DEF Alone, Holding
      <3>3. CASE WriteIndex(a) BY <1>0, <1>5, <3>1, <3>2, <3>3, WriteLands
      <3>4. CASE IndexFails(a)
        <4>1. act'[q] \in {Asking(q), Idle} BY <1>0, <3>2, <3>4, ActorOK DEF IndexFails, GivenUp
        <4> QED BY <1>0, <4>1, AskingAt, IdleAt DEF Carrying, Right
      <3> QED BY <2>1, <3>3, <3>4
    <2>2. index' = index BY <2>1, IndexStays
    <2> QED BY <1>2, <1>5, <2>2
  <1> QED BY <1>1, <1>3, <1>4, <1>5, Carries

\* How a request comes to the end of a part: it was left to the holder of the lock with
\* nothing of it marked, or its batch had all that was marked and cleared it.
LEMMA FinishesHow ==
    ASSUME Typed, Right, Returning, [Next]_vars, NEW q \in Requests, Finishes(q)
    PROVE \/ LeaveToJob(q) /\ Due(Part1(q).scope) = {}
          \/ /\ Settle(q) /\ act[q].pc = "settle"
             /\ Cardinality(DOMAIN act[q].read) < Batch /\ Cleared(act[q].read) = DOMAIN act[q].read
  <1>0. /\ act \in [Actors -> Actor] /\ q \in Actors /\ q \notin Workers /\ faults \in Nat
        /\ act[q].pc \in {"lock", "settle"} /\ Part1(q).how = "sync"
        /\ act'[q].pc \in {"idle", "lock"} /\ act'[q] # act[q] /\ faults' = faults
    BY ActorOK, WhoIsWho, Bounds DEF Actors, Typed, TypeOK, Finishes
  <1>1. ~Commit(q) /\ ~PurgeRows(q) /\ ~Ask(q) /\ ~ReadRows(q) /\ ~BuildDoc(q) /\ ~WriteIndex(q) /\ ~IndexFails(q)
    BY <1>0 DEF Commit, PurgeRows, Ask, ReadRows, BuildDoc, WriteIndex, IndexFails
  <1>2. ~TakeLock(q) BY <1>0 DEF TakeLock, Actor
  <1>3. ~Crash(q) BY <1>0 DEF Crash, Fault
  <1>4. Asking(q).pc = "ask" BY <1>0, AskingAt DEF Right
  <1>5. ~RowTimesOut(q)
    <2> SUFFICES ASSUME RowTimesOut(q) PROVE FALSE OBVIOUS
    <2>1. act'[q] = Asking(q) BY <1>0 DEF RowTimesOut, GivenUp
    <2> QED BY <1>0, <1>4, <2>1
  <1>6. ASSUME LeaveToJob(q) PROVE Due(Part1(q).scope) = {}
    <2>1. act'[q] = IF ~Part1(q).waits /\ Due(Part1(q).scope) = {} THEN After(q, {}, {}) ELSE Asking(q)
      BY <1>0, <1>6 DEF LeaveToJob
    <2> QED BY <1>0, <1>4, <2>1
  <1>7. ASSUME Settle(q)
        PROVE act[q].pc = "settle" /\ Cardinality(DOMAIN act[q].read) < Batch /\ Cleared(act[q].read) = DOMAIN act[q].read
    <2> DEFINE read == act[q].read
               refused == {d \in DOMAIN read : read[d].do = "write" /\ d \in Rejected}
               drained == Cardinality(DOMAIN read) < Batch /\ Cleared(read) \cup refused = DOMAIN read
    <2>1. act[q].pc = "settle" BY <1>7 DEF Settle
    <2>2. act'[q] = IF DOMAIN read = {} \/ (drained /\ refused = {}) THEN After(q, {}, {}) ELSE Asking(q)
      BY <1>0, <1>7 DEF Settle
    <2>3. DOMAIN read = {} \/ (drained /\ refused = {}) BY <1>0, <1>4, <2>2
    <2>4. CASE DOMAIN read = {}
      <3>1. Cardinality(DOMAIN read) = 0 BY <2>4, FS_EmptySet
      <3> QED BY <2>1, <2>4, <3>1, SyncAssumption DEF Cleared
    <2>5. CASE drained /\ refused = {}
      <3>1. Cleared(read) = DOMAIN read BY <2>5
      <3> QED BY <2>1, <2>5, <3>1
    <2> QED BY <2>3, <2>4, <2>5
  <1> QED BY <1>0, <1>1, <1>2, <1>3, <1>5, <1>6, <1>7, OwnSteps DEF Own, Step

\* The index then says of each of its documents what the row says, or no less than
\* the request's edit.
LEMMA FinishedIsSearchable ==
    ASSUME Typed, Right, Returning, [Next]_vars, NEW q \in Requests, Finishes(q),
           NEW d \in Part1(q).scope, index[d] # Nothing, State(d) # "gone", row[d].text >= act[q].since
    PROVE index[d].text >= act[q].since
  <1>0. /\ q \in Actors /\ act[q].todo # <<>> /\ act[q].todo \in Seq(Part) /\ Part1(q).how = "sync"
    BY PartsAre, Rest DEF Finishes, WellFormed, Holding
  <1>1. d \in Docs BY <1>0, PartsAre DEF Part1
  <1>2. ASSUME index[d] = Wanted(d) PROVE index[d].text >= act[q].since
    BY <1>2 DEF Wanted, Now
  <1>3. CASE LeaveToJob(q) /\ Due(Part1(q).scope) = {}
    <2>1. ~row[d].due BY <1>3 DEF Due
    <2> QED BY <1>1, <1>2, <2>1 DEF Right, StaleIsMarked
  <1>4. CASE /\ Settle(q) /\ act[q].pc = "settle"
             /\ Cardinality(DOMAIN act[q].read) < Batch /\ Cleared(act[q].read) = DOMAIN act[q].read
    <2>1. CASE d \in DOMAIN act[q].read BY <1>0, <1>2, <1>4, <2>1 DEF Right, Written
    <2>2. CASE d \notin DOMAIN act[q].read
      BY <1>0, <1>4, <2>2 DEF Returning, Unread, Carrying
    <2> QED BY <2>1, <2>2
  <1> QED BY <1>3, <1>4, FinishesHow

\* A request that ends a part without asking for the job leaves nothing older than its
\* own edit in the index, whoever holds the lock, edits or rebuilds meanwhile, whatever
\* fails: search-index.ts:420.
THEOREM EditIsSearchable == Spec => SearchableOnReturn
  <1> DEFINE Good == \A q \in Requests : Finishes(q)
                        => \A d \in Part1(q).scope :
                              index[d] # Nothing /\ State(d) # "gone" /\ row[d].text >= act[q].since
                                 => index[d].text >= act[q].since
  <1>1. Init => Typed /\ Right /\ Returning
    <2>1. Init => Returning
      <3>1. ASSUME Init, NEW q \in Requests PROVE act[q] = Idle BY <3>1 DEF Init, Actors
      <3>2. Idle.skip = {} /\ Idle.pc \notin Carrying /\ DOMAIN Idle.todo = {} BY DEF Idle, Carrying
      <3> QED BY <3>1, <3>2 DEF Returning, Whole, Told, Unread
    <2> QED BY <2>1, TypeInit, RightInit
  <1>2. Typed /\ Right /\ Returning /\ [Next]_vars => (Typed /\ Right /\ Returning)'
    BY TypeNext, RightNext, ToldStep, UnreadStep DEF Returning
  <1>3. Typed /\ Right /\ Returning /\ [Next]_vars => [Good]_vars
    BY FinishedIsSearchable
  <1> QED BY <1>1, <1>2, <1>3, PTL DEF Spec, SearchableOnReturn
=============================================================================
