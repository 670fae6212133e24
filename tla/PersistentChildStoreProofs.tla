--------------------- MODULE PersistentChildStoreProofs ---------------------
(***************************************************************************)
(* What the store file guarantees for any number of children, schemas,     *)
(* payloads and operations, under every fault of the model.                *)
(***************************************************************************)
EXTENDS PersistentChildStore, WellFoundedInduction, TLAPS

(* The inductive invariant *)

\* A content in which a sequence number stands for one event, of the schema of
\* its child's snapshot.
Sound(data) ==
    /\ data \in Stores
    /\ \A c \in Children : \A e, f \in data.events[c] :
          /\ e.sequence = f.sequence => e = f
          /\ HasSnapshot(data, c)
          /\ e.schema = data.snapshot[c].schema

\* A content that holds whatever the children were told is stored.
Covers(data) ==
    \A c \in Children :
       /\ told[c].generation <= data.snapshot[c].generation
       /\ told[c].events \subseteq data.events[c]

\* A content that holds whatever events the children were answered about.
Recalls(data) == \A c \in Children : answered[c] \subseteq data.events[c]

Told == [generation : 0 .. MaxGeneration, events : SUBSET Events]

\* How far an operation has come, and what it leaves behind at each step.
Progress(c) ==
    pc[c] # "idle" =>
       /\ \A d \in Children : d # c => pc[d] = "idle"
       /\ Sound(draft[c]) /\ Covers(draft[c]) /\ Recalls(draft[c])
       /\ pc[c] = "sync" => tmp = [data |-> draft[c], synced |-> FALSE]
       /\ pc[c] = "rename" => tmp = [data |-> draft[c], synced |-> TRUE]
       /\ pc[c] = "directory" => file.data = draft[c]

StoreInv ==
    /\ pc \in [Children -> Steps]
    /\ draft \in [Children -> Stores] /\ told \in [Children -> Told]
    /\ answered \in [Children -> SUBSET Events]
    /\ file.synced = TRUE /\ Sound(file.data) /\ Covers(file.data) /\ Recalls(file.data)
    /\ Sound(durable) /\ Covers(durable)
    /\ \A c \in Children : Progress(c)

-----------------------------------------------------------------------------
(* Stores *)

\* A nonempty set of bounded naturals has a greatest element.
LEMMA BoundedMax ==
    ASSUME NEW n \in Nat, NEW S \in SUBSET (0 .. n), S # {}
    PROVE  Max(S) \in S /\ \A y \in S : Max(S) >= y
<1> DEFINE T == {n - y : y \in S}
<1>0. \A y \in S : y \in Nat /\ y <= n /\ n - y \in Nat
  OBVIOUS
<1>1. T \subseteq Nat /\ T # {}
  BY <1>0
<1> HIDE DEF T
<1>2. PICK m \in T : \A k \in T : ~(<<k, m>> \in OpToRel(<, Nat))
  BY <1>1, NatLessThanWellFounded, WFMin
<1>3. \A k \in T : ~(k < m)
  BY <1>1, <1>2 DEF OpToRel
<1>4. PICK x \in S : m = n - x
  BY DEF T
<1>5. \A y \in S : n - y \in T
  BY DEF T
<1>6. \A y \in S : x >= y
  BY <1>0, <1>3, <1>4, <1>5
<1> QED BY <1>6 DEF Max

\* The numbers of a child's events are no greater than the latest.
LEMMA LatestBound ==
    ASSUME NEW store \in Stores, NEW c \in Children, NEW e \in store.events[c]
    PROVE  e.sequence <= Latest(store, c) /\ e.sequence \in Nat
           /\ Latest(store, c) \in Nat
<1> DEFINE S == {0} \cup {f.sequence : f \in store.events[c]}
<1>0. MaxSequence \in Nat
  BY StoreAssumption
<1>1. store.events[c] \subseteq Events
  BY DEF Stores
<1>2. \A f \in store.events[c] : f.sequence \in 1 .. MaxSequence
  BY <1>1 DEF Events
<1>3. S \in SUBSET (0 .. MaxSequence) /\ S # {}
  BY <1>0, <1>2
<1>4. e.sequence \in S /\ e.sequence \in Nat
  BY <1>0, <1>2
<1> HIDE DEF S
<1>5. Max(S) \in S /\ \A y \in S : Max(S) >= y
  BY <1>0, <1>3, BoundedMax
<1>6. Latest(store, c) = Max(S)
  BY DEF Latest, S
<1>7. Max(S) \in Nat
  <2>1. \A y \in S : y \in Nat
    BY <1>0, <1>3
  <2> QED BY <1>5, <2>1
<1> QED BY <1>4, <1>5, <1>6, <1>7

\* A store whose snapshot, or whose events, of one child are replaced.
LEMMA Replaced ==
    ASSUME NEW store \in Stores, NEW c \in Children
    PROVE  /\ \A s \in Snapshots :
                 LET new == [store EXCEPT !.snapshot[c] = s]
                 IN  /\ new \in Stores /\ new.events = store.events
                     /\ new.snapshot = [store.snapshot EXCEPT ![c] = s]
           /\ \A E \in SUBSET Events :
                 LET new == [store EXCEPT !.events[c] = E]
                 IN  /\ new \in Stores /\ new.snapshot = store.snapshot
                     /\ new.events = [store.events EXCEPT ![c] = E]
BY DEF Stores

-----------------------------------------------------------------------------
(* Operations *)

\* An operation that starts to save a sound content that covers the file's.
LEMMA SavesInv ==
    ASSUME StoreInv, Turn, NEW c \in Children, NEW store, Saves(c, store),
           Sound(store), Covers(store), Recalls(store)
    PROVE  StoreInv'
<1>1. /\ pc' = [pc EXCEPT ![c] = "write"] /\ draft' = [draft EXCEPT ![c] = store]
      /\ UNCHANGED <<tmp, file, durable, told, answered>>
  BY DEF Saves
<1>2. /\ pc' \in [Children -> Steps] /\ draft' \in [Children -> Stores]
      /\ pc'[c] = "write" /\ draft'[c] = store
      /\ \A d \in Children : d # c => pc'[d] = "idle"
  BY <1>1 DEF StoreInv, Turn, Steps, Sound
<1>4. \A d \in Children : Progress(d)'
  BY <1>2, <1>1 DEF Progress, Covers, Recalls, Sound, HasSnapshot
<1> QED BY <1>1, <1>2, <1>4 DEF StoreInv, Covers, Recalls

\* A checkpoint keeps the schema of the events there are.
LEMMA CheckpointInv ==
    ASSUME StoreInv, NEW c \in Children, NEW schema \in Schemas,
           NEW sequence \in 0 .. MaxSequence, Checkpoint(c, schema, sequence)
    PROVE  StoreInv'
<1>1. PICK store \in Stores : store = file.data
  BY DEF StoreInv, Sound
<1> DEFINE g == store.snapshot[c].generation
           s == [generation |-> g + 1, schema |-> schema, last_event_sequence |-> sequence]
           new == [store EXCEPT !.snapshot[c] = s]
<1>2. /\ Turn /\ Saves(c, new) /\ g < MaxGeneration
      /\ HasSnapshot(store, c) => store.snapshot[c].schema = schema
  BY <1>1 DEF Checkpoint
<1>3. /\ Sound(store) /\ Covers(store) /\ Recalls(store)
  BY <1>1 DEF StoreInv
<1>4. g \in Nat /\ MaxGeneration \in Nat
  BY StoreAssumption DEF Stores, Snapshots, NoSnapshot
<1>5. s \in Snapshots /\ s.generation = g + 1 /\ s.schema = schema
  BY <1>2, <1>4 DEF Snapshots
<1> HIDE DEF s
<1>6. /\ new \in Stores /\ new.events = store.events
      /\ new.snapshot = [store.snapshot EXCEPT ![c] = s]
  BY <1>5, Replaced
<1> HIDE DEF new
<1>7. /\ new.snapshot[c] = s
      /\ \A d \in Children : d # c => new.snapshot[d] = store.snapshot[d]
  BY <1>6 DEF Stores
<1>8. Sound(new)
  <2> SUFFICES ASSUME NEW d \in Children,
                      NEW e \in store.events[d], NEW f \in store.events[d]
               PROVE  /\ e.sequence = f.sequence => e = f
                      /\ HasSnapshot(new, d) /\ e.schema = new.snapshot[d].schema
    BY <1>6 DEF Sound
  <2>1. /\ e.sequence = f.sequence => e = f
        /\ HasSnapshot(store, d) /\ e.schema = store.snapshot[d].schema
    BY <1>3 DEF Sound
  <2>2. CASE d = c
    BY <2>1, <2>2, <1>2, <1>4, <1>5, <1>7 DEF HasSnapshot
  <2>3. CASE d # c
    BY <2>1, <2>3, <1>7 DEF HasSnapshot
  <2> QED BY <2>2, <2>3
<1>9. Covers(new)
  <2> SUFFICES ASSUME NEW d \in Children
               PROVE  /\ told[d].generation <= new.snapshot[d].generation
                      /\ told[d].events \subseteq new.events[d]
    BY DEF Covers
  <2>1. /\ told[d].generation <= store.snapshot[d].generation
        /\ told[d].events \subseteq store.events[d]
    BY <1>3 DEF Covers
  <2>2. told[d].generation \in Nat
    BY StoreAssumption DEF StoreInv, Told
  <2>3. CASE d = c
    BY <2>1, <2>2, <2>3, <1>4, <1>5, <1>6, <1>7
  <2>4. CASE d # c
    BY <2>1, <2>4, <1>6, <1>7
  <2> QED BY <2>3, <2>4
<1>10. Recalls(new)
  BY <1>3, <1>6 DEF Recalls
<1> QED BY <1>2, <1>8, <1>9, <1>10, SavesInv

\* An appended event has a number above those there are.
LEMMA AppendEventInv ==
    ASSUME StoreInv, NEW c \in Children, NEW event \in Events, AppendEvent(c, event)
    PROVE  StoreInv'
<1>1. PICK store \in Stores : store = file.data
  BY DEF StoreInv, Sound
<1> DEFINE E == store.events[c] \cup {event}
           new == [store EXCEPT !.events[c] = E]
<1>2. /\ Turn /\ Saves(c, new) /\ Appendable(store, c, event)
      /\ event.sequence > Latest(store, c)
  BY <1>1 DEF AppendEvent
<1>3. /\ Sound(store) /\ Covers(store) /\ Recalls(store)
  BY <1>1 DEF StoreInv
<1>4. E \in SUBSET Events
  BY DEF Stores
<1>5. event.sequence \in Nat
  BY StoreAssumption DEF Events
<1> HIDE DEF E
<1>6. /\ new \in Stores /\ new.snapshot = store.snapshot
      /\ new.events = [store.events EXCEPT ![c] = E]
  BY <1>4, Replaced
<1> HIDE DEF new
<1>7. /\ new.events[c] = E
      /\ \A d \in Children : d # c => new.events[d] = store.events[d]
  BY <1>6 DEF Stores
<1>8. Sound(new)
  <2> SUFFICES ASSUME NEW d \in Children,
                      NEW e \in new.events[d], NEW f \in new.events[d]
               PROVE  /\ e.sequence = f.sequence => e = f
                      /\ HasSnapshot(new, d) /\ e.schema = new.snapshot[d].schema
    BY <1>6 DEF Sound
  <2>1. \A h \in store.events[c] : h.sequence # event.sequence
    BY <1>2, <1>5, LatestBound
  <2>2. CASE d # c
    BY <2>2, <1>3, <1>6, <1>7 DEF Sound, HasSnapshot
  <2>3. CASE d = c
    <3>1. /\ e \in store.events[c] \/ e = event
          /\ f \in store.events[c] \/ f = event
      BY <2>3, <1>7 DEF E
    <3>2. \A h \in store.events[c] : h.schema = store.snapshot[c].schema
      BY <1>3 DEF Sound
    <3>3. HasSnapshot(store, c) /\ event.schema = store.snapshot[c].schema
      BY <1>2 DEF Appendable
    <3>4. e.sequence = f.sequence => e = f
      BY <3>1, <2>1, <1>3 DEF Sound
    <3> QED BY <2>3, <3>1, <3>2, <3>3, <3>4, <1>6 DEF HasSnapshot
  <2> QED BY <2>2, <2>3
<1>9. Covers(new)
  BY <1>3, <1>6, <1>7 DEF Covers, E
<1>10. Recalls(new)
  BY <1>3, <1>7 DEF Recalls, E
<1> QED BY <1>2, <1>8, <1>9, <1>10, SavesInv

\* What an operation that only reads says of the file is in the file.
LEMMA ReadsInv ==
    ASSUME StoreInv, Turn, NEW c \in Children, NEW E \in SUBSET file.data.events[c],
           Reads(c, E)
    PROVE  StoreInv'
<1>1. /\ answered' = [answered EXCEPT ![c] = @ \cup E]
      /\ UNCHANGED <<pc, draft, tmp, file, durable, told>>
  BY DEF Reads
<1>2. file.data.events[c] \in SUBSET Events
  BY DEF StoreInv, Sound, Stores
<1>3. answered' \in [Children -> SUBSET Events]
  BY <1>1, <1>2 DEF StoreInv
<1>4. Recalls(file.data)'
  BY <1>1 DEF StoreInv, Recalls
<1>5. \A d \in Children : Progress(d)'
  BY <1>1 DEF Turn, Progress
<1> QED BY <1>1, <1>3, <1>4, <1>5 DEF StoreInv, Sound, HasSnapshot, Covers

-----------------------------------------------------------------------------
(* persist_file_backed_log and the faults *)

\* A step of the operation in progress that leaves the file alone.
LEMMA MoveInv ==
    ASSUME StoreInv, NEW c \in Children, pc[c] # "idle", NEW to \in Steps,
           pc' = [pc EXCEPT ![c] = to], UNCHANGED <<draft, file, durable, told, answered>>,
           to = "sync" => tmp' = [data |-> draft[c], synced |-> FALSE],
           to = "rename" => tmp' = [data |-> draft[c], synced |-> TRUE],
           to # "directory"
    PROVE  StoreInv'
<1>1. /\ pc' \in [Children -> Steps] /\ pc'[c] = to
      /\ \A d \in Children : d # c => pc'[d] = "idle"
  BY DEF StoreInv, Progress
<1>2. Sound(draft[c]) /\ Covers(draft[c]) /\ Recalls(draft[c])
  BY DEF StoreInv, Progress
<1>3. \A d \in Children : Progress(d)'
  BY <1>1, <1>2 DEF Progress, Covers, Recalls, Sound, HasSnapshot
<1> QED BY <1>1, <1>3 DEF StoreInv, Covers, Recalls, Sound, HasSnapshot

\* The machine or the process stops, or the operation fails: nobody is inside an
\* operation, and the file and the disk hold sound contents.
LEMMA StopInv ==
    ASSUME StoreInv, pc' \in [Children -> Steps], draft' \in [Children -> Stores],
           \A c \in Children : pc'[c] = "idle", UNCHANGED told,
           answered' \in [Children -> SUBSET Events],
           file'.synced = TRUE, Sound(file.data)', Covers(file.data)', Recalls(file.data)',
           Sound(durable)', Covers(durable)'
    PROVE  StoreInv'
BY DEF StoreInv, Progress

\* Nothing is in an empty store.
LEMMA EmptyStore == Empty \in Stores /\ Sound(Empty)
<1>1. Empty \in Stores
  BY DEF Empty, Stores
<1>2. \A c \in Children : Empty.events[c] = {}
  BY DEF Empty
<1> QED BY <1>1, <1>2 DEF Sound

\* The steps that write, synchronise and rename the temporary file.
LEMMA PersistInv ==
    ASSUME StoreInv, NEW c \in Children, WriteTmp(c) \/ SyncTmp(c) \/ Rename(c)
    PROVE  StoreInv'
<1>1. CASE WriteTmp(c)
  BY <1>1, MoveInv DEF WriteTmp, Moves, Steps
<1>2. CASE SyncTmp(c)
  <2>1. pc[c] = "sync" /\ tmp = [data |-> draft[c], synced |-> FALSE]
    BY <1>2 DEF SyncTmp, Moves, StoreInv, Progress
  <2>2. tmp' = [data |-> draft[c], synced |-> TRUE]
    BY <1>2, <2>1 DEF SyncTmp
  <2> QED BY <1>2, <2>1, <2>2, MoveInv DEF SyncTmp, Moves, Steps
<1>3. CASE Rename(c)
  <2>1. /\ pc[c] = "rename" /\ pc' = [pc EXCEPT ![c] = "directory"]
        /\ file' = tmp /\ durable' \in {durable, file.data}
        /\ UNCHANGED <<draft, told, answered>>
    BY <1>3 DEF Rename, Moves, Reached, Surviving, StoreInv
  <2>2. /\ tmp = [data |-> draft[c], synced |-> TRUE]
        /\ Sound(draft[c]) /\ Covers(draft[c]) /\ Recalls(draft[c])
        /\ \A d \in Children : d # c => pc[d] = "idle"
    BY <2>1 DEF StoreInv, Progress
  <2>3. /\ file'.data = draft[c] /\ file'.synced = TRUE
    BY <2>1, <2>2
  <2>4. /\ pc' \in [Children -> Steps] /\ pc'[c] = "directory"
        /\ \A d \in Children : d # c => pc'[d] = "idle"
    BY <2>1, <2>2 DEF StoreInv, Steps
  <2>5. \A d \in Children : Progress(d)'
    BY <2>1, <2>2, <2>3, <2>4 DEF Progress, Covers, Recalls, Sound, HasSnapshot
  <2>6. Sound(file.data)' /\ Covers(file.data)' /\ Recalls(file.data)'
    BY <2>1, <2>2, <2>3 DEF Covers, Recalls, Sound, HasSnapshot
  <2>7. Sound(durable)' /\ Covers(durable)'
    BY <2>1 DEF StoreInv, Covers, Sound, HasSnapshot
  <2> QED BY <2>1, <2>3, <2>4, <2>5, <2>6, <2>7 DEF StoreInv
<1> QED BY <1>1, <1>2, <1>3

\* A child is told of what is stored for good only when the disk holds what the
\* file holds, and answered only about what the file holds.
LEMMA SyncDirectoryInv ==
    ASSUME StoreInv, NEW c \in Children, SyncDirectory(c)
    PROVE  StoreInv'
<1>1. /\ pc[c] = "directory" /\ pc' = [pc EXCEPT ![c] = "idle"]
      /\ UNCHANGED file
      /\ answered' = [answered EXCEPT ![c] = draft[c].events[c]]
      /\ draft' = [draft EXCEPT ![c] = Empty]
  BY DEF SyncDirectory, Commits, Moves
<1>2. /\ file.data = draft[c] /\ Sound(file.data) /\ Covers(file.data) /\ Recalls(file.data)
      /\ \A d \in Children : d # c => pc[d] = "idle"
  BY <1>1 DEF StoreInv, Progress
<1>3. /\ pc' \in [Children -> Steps] /\ \A d \in Children : pc'[d] = "idle"
      /\ draft' \in [Children -> Stores]
  BY <1>1, <1>2, EmptyStore DEF StoreInv, Steps
<1>4. PICK store \in Stores : store = file.data
  BY <1>2 DEF Sound
<1>5. /\ store.snapshot[c].generation \in 0 .. MaxGeneration
      /\ store.events[c] \in SUBSET Events
  BY StoreAssumption DEF Stores, Snapshots, NoSnapshot
<1>6. /\ answered' \in [Children -> SUBSET Events]
      /\ Recalls(file.data)'
  BY <1>1, <1>2, <1>4, <1>5 DEF StoreInv, Recalls
<1>7. CASE syncsDirectory
  <2>1. durable' = file.data /\ told' = [told EXCEPT ![c] = Known(draft[c], c)]
    BY <1>7 DEF SyncDirectory, Commits, Surviving, StoreInv
  <2>2. PICK k \in Told : /\ k = Known(draft[c], c)
                          /\ k.generation = store.snapshot[c].generation
                          /\ k.events = store.events[c]
    <3>1. Known(store, c) = [generation |-> store.snapshot[c].generation,
                             events     |-> store.events[c]]
      BY DEF Known
    <3>2. Known(store, c) \in Told
      BY <3>1, <1>5 DEF Told
    <3>3. Known(draft[c], c) = Known(store, c)
      BY <1>2, <1>4
    <3> QED BY <3>1, <3>2, <3>3
  <2>3. /\ told' \in [Children -> Told] /\ told'[c] = k
        /\ \A d \in Children : d # c => told'[d] = told[d]
    BY <2>1, <2>2 DEF StoreInv
  <2>4. Covers(file.data)'
    <3> SUFFICES ASSUME NEW d \in Children
                 PROVE  /\ told'[d].generation <= store.snapshot[d].generation
                        /\ told'[d].events \subseteq store.events[d]
      BY <1>1, <1>4 DEF Covers
    <3>1. CASE d = c
      <4>1. told'[d].generation = store.snapshot[d].generation
            /\ told'[d].events = store.events[d]
        BY <3>1, <2>2, <2>3
      <4>2. store.snapshot[d].generation \in Nat
        BY <3>1, <1>5, StoreAssumption
      <4> QED BY <4>1, <4>2
    <3>2. CASE d # c
      BY <3>2, <1>2, <1>4, <2>3 DEF Covers
    <3> QED BY <3>1, <3>2
  <2>5. Sound(file.data)' /\ Sound(durable)' /\ Covers(durable)'
    BY <1>1, <1>2, <2>1, <2>4 DEF Sound, HasSnapshot, Covers
  <2> QED BY <1>1, <1>3, <1>6, <2>3, <2>4, <2>5 DEF StoreInv, Progress
<1>8. CASE ~syncsDirectory
  <2>1. UNCHANGED <<file, durable, told>>
    BY <1>8 DEF SyncDirectory, Commits
  <2>2. /\ Sound(file.data)' /\ Covers(file.data)'
        /\ Sound(durable)' /\ Covers(durable)'
    BY <2>1 DEF StoreInv, Sound, HasSnapshot, Covers
  <2> QED BY <2>1, <2>2, <1>3, <1>6 DEF StoreInv, Progress
<1> QED BY <1>7, <1>8

\* A failed step, a dead process and a power failure leave a file and a disk
\* that some operation wrote whole.
LEMMA FaultInv ==
    ASSUME StoreInv, (\E c \in Children : Fail(c)) \/ Kill \/ PowerFailure
    PROVE  StoreInv'
<1>1. ASSUME UNCHANGED <<file, durable, told, answered>>
      PROVE  /\ file'.synced = TRUE /\ answered' \in [Children -> SUBSET Events]
             /\ Sound(file.data)' /\ Covers(file.data)' /\ Recalls(file.data)'
             /\ Sound(durable)' /\ Covers(durable)'
  BY <1>1 DEF StoreInv, Sound, HasSnapshot, Covers, Recalls
<1>2. CASE \E c \in Children : Fail(c)
  <2>1. PICK c \in Children : Fail(c)
    BY <1>2
  <2>2. /\ pc[c] # "idle" /\ pc' = [pc EXCEPT ![c] = "idle"]
        /\ draft' = [draft EXCEPT ![c] = Empty]
        /\ UNCHANGED <<file, durable, told, answered>>
    BY <2>1 DEF Fail
  <2>3. /\ pc' \in [Children -> Steps] /\ \A d \in Children : pc'[d] = "idle"
        /\ draft' \in [Children -> Stores]
    BY <2>2, EmptyStore DEF StoreInv, Steps, Progress
  <2> QED BY <1>1, <2>2, <2>3, StopInv
<1>3. CASE Kill
  <2>1. /\ pc' \in [Children -> Steps] /\ \A d \in Children : pc'[d] = "idle"
        /\ draft' \in [Children -> Stores] /\ UNCHANGED <<file, durable, told, answered>>
    BY <1>3, EmptyStore DEF Kill, Steps
  <2> QED BY <1>1, <2>1, StopInv
<1>4. CASE PowerFailure
  <2>1. /\ pc' \in [Children -> Steps] /\ \A d \in Children : pc'[d] = "idle"
        /\ draft' \in [Children -> Stores] /\ UNCHANGED told
        /\ answered' = [c \in Children |-> {}]
    BY <1>4, EmptyStore DEF PowerFailure, Steps
  <2>2. PICK data \in Reached :
           file' = [data |-> data, synced |-> TRUE] /\ durable' = data
    BY <1>4 DEF PowerFailure
  <2>3. Sound(data) /\ Covers(data)
    BY <2>2 DEF Reached, Surviving, StoreInv
  <2>4. file'.data = data /\ file'.synced = TRUE
    BY <2>2
  <2>5. /\ Sound(file.data)' /\ Covers(file.data)' /\ Recalls(file.data)'
        /\ Sound(durable)' /\ Covers(durable)'
    BY <2>1, <2>2, <2>3, <2>4 DEF Sound, HasSnapshot, Covers, Recalls
  <2> QED BY <2>1, <2>4, <2>5, StopInv
<1> QED BY <1>2, <1>3, <1>4

-----------------------------------------------------------------------------
(* Theorems *)

\* The store invariant holds of every reachable state.
THEOREM StoreInvariance == Spec => []StoreInv
<1>1. Init => StoreInv
  <2> SUFFICES ASSUME Init PROVE StoreInv
    OBVIOUS
  <2>1. \A c \in Children : /\ Empty.snapshot[c].generation = 0
                             /\ told[c].generation = 0 /\ told[c].events = {}
                             /\ pc[c] = "idle"
    BY DEF Init, Empty, NoSnapshot
  <2>2. told \in [Children -> Told] /\ draft \in [Children -> Stores]
        /\ pc \in [Children -> Steps]
    BY EmptyStore, StoreAssumption DEF Init, Told, Steps
  <2>3. /\ file.data = Empty /\ file.synced = TRUE /\ durable = Empty
    BY DEF Init
  <2>4. Covers(Empty) /\ Recalls(Empty) /\ answered \in [Children -> SUBSET Events]
    BY <2>1 DEF Covers, Recalls, Init
  <2> QED BY <2>1, <2>2, <2>3, <2>4, EmptyStore DEF StoreInv, Progress
<1>2. StoreInv /\ [Next]_vars => StoreInv'
  <2> SUFFICES ASSUME StoreInv, [Next]_vars PROVE StoreInv'
    OBVIOUS
  <2>1. CASE UNCHANGED vars
    BY <2>1 DEF vars, StoreInv, Progress, Sound, HasSnapshot, Covers, Recalls
  <2>2. ASSUME NEW c \in Children,
               \/ \E schema \in Schemas, sequence \in 0 .. MaxSequence :
                     Checkpoint(c, schema, sequence)
               \/ \E event \in Events : AppendEvent(c, event)
        PROVE  StoreInv'
    BY <2>2, CheckpointInv, AppendEventInv
  <2>3. ASSUME NEW c \in Children, NEW event \in Events, AppendReplayed(c, event)
        PROVE  StoreInv'
    BY <2>3, ReadsInv DEF AppendReplayed
  <2>4. ASSUME NEW c \in Children, Restore(c)
        PROVE  StoreInv'
    BY <2>4, ReadsInv DEF Restore
  <2> QED BY <2>1, <2>2, <2>3, <2>4, PersistInv, SyncDirectoryInv, FaultInv DEF Next
<1> QED BY <1>1, <1>2, PTL DEF Spec

\* persist_file_backed_log synchronises the temporary file before it renames it,
\* so no crash, failed step or power failure at any point, in any number of
\* operations, leaves a file that was not written whole.
THEOREM StoreNeverTorn == Spec => []NeverTorn
<1>1. StoreInv => NeverTorn
  BY TornAssumption DEF StoreInv, Sound, NeverTorn
<1> QED BY <1>1, StoreInvariance, PTL

\* Every operation starts from the whole file and only a power failure takes
\* anything back from it: whatever append_event and restore answered, Replayed
\* included, stays in the file until then.  A commit that synchronised the directory
\* is never lost, whatever its siblings do to the same file and whatever fails; the
\* commit of a path without a directory, and an answer that wrote nothing, may be.
THEOREM ToldStaysKept == Spec => []ToldIsKept
<1>1. StoreInv => ToldIsKept
  BY TornAssumption DEF StoreInv, Sound, Covers, Recalls, ToldIsKept
<1> QED BY <1>1, StoreInvariance, PTL

\* append_event never lets a sequence number stand for two events, although a
\* failed append may already be in the file when it is tried again.
THEOREM SequencesAreSingle == Spec => []OneEventPerSequence
<1>1. StoreInv => OneEventPerSequence
  BY DEF StoreInv, Sound, OneEventPerSequence
<1> QED BY <1>1, StoreInvariance, PTL
=============================================================================
