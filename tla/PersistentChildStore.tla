-------------------------- MODULE PersistentChildStore --------------------------
(***************************************************************************)
(* The file in which supervised children keep snapshots and events         *)
(* (persistent_actor_store/store.rs and supervision/source/persistence.rs  *)
(* under src/crates/terlan/src/runtime/vm).  Every operation of a child    *)
(* opens the file anew, replays it, changes the copy in memory, and writes *)
(* all of it to a temporary file that it synchronises and renames; then    *)
(* the directory is synchronised and the child gets its answer.            *)
(*                                                                         *)
(* A rename reaches the disk when the directory is synchronised, and may   *)
(* reach it before; a content reaches it when the file is.  What is there  *)
(* without synchronisation may be lost in a power failure.                 *)
(* The directory is synchronised on Unix, and when the path of the file    *)
(* names one: a path of one component goes without.                        *)
(*                                                                         *)
(* An event that is in the file already, appended once more, and a restore *)
(* are answered from the file as it is read, and nothing is written.       *)
(* Children of one shard share its thread and take turns.  An operation    *)
(* that is refused changes nothing and has no action.                      *)
(***************************************************************************)
EXTENDS Naturals, FiniteSets, FiniteSetsExt

CONSTANTS
    Children,    \* logical children bound to the file
    Schemas, Payloads,
    Faults,      \* what may go wrong, a subset of AllFaults
    MaxStore,    \* MAX_STORE_BYTES, in records
    MaxSequence, MaxGeneration,   \* bounds
    Torn,        \* the content of a file that was not written whole
    NoFile

AllFaults == {"kill", "power", "disk", "directory"}

ASSUME StoreAssumption ==
    /\ Faults \subseteq AllFaults
    /\ {MaxStore, MaxSequence, MaxGeneration} \subseteq Nat
    /\ IsFiniteSet(Children)

VARIABLES
    pc,        \* where each child is: idle, or a step of persist_file_backed_log
    draft,     \* the copy in memory that it writes
    tmp,       \* the temporary file
    file,      \* the file, as a running machine sees it
    durable,   \* what of it a power failure leaves, unless it leaves more (Reached)
    syncsDirectory,   \* whether there is a directory to synchronise; it never changes
    told,      \* history: what commits that synchronised the directory have stored
    answered   \* history: the events that any answer since a power failure said are stored

vars == <<pc, draft, tmp, file, durable, syncsDirectory, told, answered>>

-----------------------------------------------------------------------------
(* Records *)

Events == [sequence : 1 .. MaxSequence, schema : Schemas, payload : Payloads]
Snapshots == [generation : 1 .. MaxGeneration, schema : Schemas, last_event_sequence : 0 .. MaxSequence]
NoSnapshot == [generation |-> 0]

Stores == [snapshot : [Children -> Snapshots \cup {NoSnapshot}],
           events : [Children -> SUBSET Events]]

Empty == [snapshot |-> [c \in Children |-> NoSnapshot], events |-> [c \in Children |-> {}]]

ASSUME TornAssumption == Torn \notin Stores

Steps == {"idle", "write", "sync", "rename", "directory"}

\* Type correctness.
TypeOK ==
    /\ pc \in [Children -> Steps]
    /\ draft \in [Children -> Stores]
    /\ tmp = NoFile \/ tmp \in [data : Stores, synced : BOOLEAN]
    /\ file \in [data : Stores, synced : BOOLEAN] \cup [data : {Torn}, synced : {TRUE}]
    /\ durable \in Stores \cup {Torn}
    /\ syncsDirectory \in BOOLEAN
    /\ told \in [Children -> [generation : 0 .. MaxGeneration, events : SUBSET Events]]
    /\ answered \in [Children -> SUBSET Events]

Init ==
    /\ pc = [c \in Children |-> "idle"]
    /\ draft = [c \in Children |-> Empty]
    /\ tmp = NoFile
    /\ file = [data |-> Empty, synced |-> TRUE] /\ durable = Empty
    /\ syncsDirectory \in BOOLEAN
    /\ told = [c \in Children |-> [generation |-> 0, events |-> {}]]
    /\ answered = [c \in Children |-> {}]

HasSnapshot(store, c) == store.snapshot[c].generation > 0

Size(store) ==
    Cardinality({c \in Children : HasSnapshot(store, c)})
    + MapThenSumSet(LAMBDA c : Cardinality(store.events[c]), Children)

\* load_file_backed_log: the snapshots are read first, then the events, under
\* the rules of store_snapshot and append_event.
Replays(store) ==
    \A c \in Children : \A e \in store.events[c] :
        /\ \A f \in store.events[c] : f.sequence = e.sequence => f = e
        /\ HasSnapshot(store, c) =>
            /\ e.schema = store.snapshot[c].schema
            /\ e.sequence > store.snapshot[c].last_event_sequence

Opens(data) == data # Torn /\ Size(data) <= MaxStore /\ Replays(data)

Latest(store, c) == Max({0} \cup {e.sequence : e \in store.events[c]})

Known(store, c) == [generation |-> store.snapshot[c].generation, events |-> store.events[c]]

-----------------------------------------------------------------------------
(* Operations of a child *)

\* The children of one shard take turns.
Turn == \A c \in Children : pc[c] = "idle"

Saves(c, store) ==
    /\ draft' = [draft EXCEPT ![c] = store]
    /\ pc' = [pc EXCEPT ![c] = "write"]
    /\ UNCHANGED <<tmp, file, durable, syncsDirectory, told, answered>>

Checkpoint(c, schema, sequence) ==
    LET store == file.data
        current == store.snapshot[c]
    IN  /\ Turn /\ Opens(store)
        /\ HasSnapshot(store, c) => current.schema = schema
        /\ sequence >= Latest(store, c)
        /\ current.generation < MaxGeneration
        /\ Saves(c, [store EXCEPT !.snapshot[c] =
                        [generation |-> current.generation + 1, schema |-> schema,
                         last_event_sequence |-> sequence]])

\* A checkpoint precedes; sequence numbers grow.
Appendable(store, c, event) ==
    /\ HasSnapshot(store, c)
    /\ store.snapshot[c].schema = event.schema
    /\ event.sequence > store.snapshot[c].last_event_sequence

\* Mutant: a sequence number may be used again.
AppendEventAgain(c, event) ==
    /\ Turn /\ Opens(file.data) /\ Appendable(file.data, c, event)
    /\ Saves(c, [file.data EXCEPT !.events[c] = @ \cup {event}])

AppendEvent(c, event) ==
    LET store == file.data
    IN  /\ Turn /\ Opens(store) /\ Appendable(store, c, event)
        /\ event.sequence > Latest(store, c)
        /\ Saves(c, [store EXCEPT !.events[c] = @ \cup {event}])

\* An operation that only reads is answered from the file.
Reads(c, events) ==
    /\ answered' = [answered EXCEPT ![c] = @ \cup events]
    /\ UNCHANGED <<pc, draft, tmp, file, durable, syncsDirectory, told>>

\* The event is there already, perhaps since an append that failed: Replayed, which
\* the child is answered like EventAppended.
AppendReplayed(c, event) ==
    LET store == file.data
    IN  /\ Turn /\ Opens(store) /\ Appendable(store, c, event)
        /\ event \in store.events[c]
        /\ Reads(c, {event})

Restore(c) ==
    /\ Turn /\ Opens(file.data) /\ HasSnapshot(file.data, c)
    /\ Reads(c, file.data.events[c])

-----------------------------------------------------------------------------
(* persist_file_backed_log *)

Moves(c, from, to) == pc[c] = from /\ pc' = [pc EXCEPT ![c] = to]

WriteTmp(c) ==
    /\ Moves(c, "write", "sync")
    /\ tmp' = [data |-> draft[c], synced |-> FALSE]
    /\ UNCHANGED <<draft, file, durable, syncsDirectory, told, answered>>

\* Mutant: the temporary file is not synchronised.
SyncTmpSkipped(c) ==
    /\ Moves(c, "sync", "rename")
    /\ UNCHANGED <<draft, tmp, file, durable, syncsDirectory, told, answered>>

SyncTmp(c) ==
    /\ Moves(c, "sync", "rename")
    /\ tmp' = [tmp EXCEPT !.synced = TRUE]
    /\ UNCHANGED <<draft, file, durable, syncsDirectory, told, answered>>

\* What a power failure leaves of a file whose name is on the disk.
Surviving == IF file.synced THEN file.data ELSE Torn

\* What the disk may hold by now: a rename reaches it without synchronisation too.
Reached == {durable, Surviving}

Rename(c) ==
    /\ Moves(c, "rename", "directory")
    /\ file' = tmp /\ tmp' = NoFile
    /\ durable' \in Reached
    /\ UNCHANGED <<draft, syncsDirectory, told, answered>>

Commits(c) ==
    /\ Moves(c, "directory", "idle")
    /\ told' = IF syncsDirectory THEN [told EXCEPT ![c] = Known(draft[c], c)] ELSE told
    /\ answered' = [answered EXCEPT ![c] = draft[c].events[c]]
    /\ draft' = [draft EXCEPT ![c] = Empty]
    /\ UNCHANGED <<tmp, file, syncsDirectory>>

\* Mutant: an error of the synchronisation is ignored.
SyncDirectoryUnchecked(c) ==
    /\ Commits(c)
    /\ durable' \in Reached

SyncDirectory(c) ==
    /\ Commits(c)
    /\ durable' = IF syncsDirectory THEN Surviving ELSE durable

\* A step fails; the child is told so, and the file is as the steps before left it.
Fail(c) ==
    /\ \/ pc[c] \in {"write", "sync", "rename"} /\ "disk" \in Faults
       \/ pc[c] = "directory" /\ syncsDirectory /\ "directory" \in Faults
    /\ pc' = [pc EXCEPT ![c] = "idle"]
    /\ draft' = [draft EXCEPT ![c] = Empty]
    /\ UNCHANGED <<tmp, file, durable, syncsDirectory, told, answered>>

\* The process of the VM dies.
Kill ==
    /\ "kill" \in Faults
    /\ pc' = [c \in Children |-> "idle"]
    /\ draft' = [c \in Children |-> Empty]
    /\ UNCHANGED <<tmp, file, durable, syncsDirectory, told, answered>>

PowerFailure ==
    /\ "power" \in Faults
    /\ \E data \in Reached :
        /\ file' = [data |-> data, synced |-> TRUE]
        /\ durable' = data
    /\ pc' = [c \in Children |-> "idle"]
    /\ draft' = [c \in Children |-> Empty]
    /\ tmp' = NoFile
    /\ answered' = [c \in Children |-> {}]
    /\ UNCHANGED <<syncsDirectory, told>>

-----------------------------------------------------------------------------

Next ==
    \/ \E c \in Children :
        \/ \E schema \in Schemas, sequence \in 0 .. MaxSequence : Checkpoint(c, schema, sequence)
        \/ \E event \in Events : AppendEvent(c, event) \/ AppendReplayed(c, event)
        \/ Restore(c)
        \/ WriteTmp(c) \/ SyncTmp(c) \/ Rename(c) \/ SyncDirectory(c) \/ Fail(c)
    \/ Kill
    \/ PowerFailure

Spec == Init /\ [][Next]_vars

-----------------------------------------------------------------------------
(* Properties *)

\* What a commit that synchronised the directory has stored is in the file and on
\* the disk for good, whatever failed since and whatever its siblings did to the
\* same file: the newest snapshot or a newer one, and every event.  Every event that
\* any answer of append_event or restore spoke of, Replayed included, is in the file
\* until a power failure.
ToldIsKept ==
    \A c \in Children :
        /\ \A data \in {file.data, durable} :
            /\ data # Torn
            /\ told[c].generation <= data.snapshot[c].generation
            /\ told[c].events \subseteq data.events[c]
        /\ answered[c] \subseteq file.data.events[c]

\* After any power failure the file holds a content that was written whole.
NeverTorn == file.data # Torn /\ durable # Torn

\* A sequence number stands for one event of one schema, although failed
\* appends may have reached the file and are tried again with other contents.
OneEventPerSequence ==
    \A c \in Children, data \in {file.data, durable} \ {Torn} : \A e, f \in data.events[c] :
        /\ e.sequence = f.sequence => e = f
        /\ e.schema = data.snapshot[c].schema
=============================================================================
