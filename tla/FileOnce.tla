------------------------------ MODULE FileOnce ------------------------------
(***************************************************************************)
(* The durable gate of datarail-once (FileOnce): the in-memory gate, an    *)
(* append-only log of the records it delivered, replayed on open, and the  *)
(* compaction that replaces the log by a snapshot.                         *)
(*                                                                         *)
(* The process admits one record at a time; pc says how far the current    *)
(* call of admit has come.  It may crash between any two steps.  What a    *)
(* crash does to bytes that were written and not yet fsync'd is the        *)
(* choice of the operating system: they survive, vanish or, when TornTails *)
(* is set, survive in part.  A rename that was not followed by a directory *)
(* fsync may be undone by a crash.                                         *)
(***************************************************************************)
EXTENDS OnceGate, SequencesExt

CONSTANTS
    Streams,
    Records,        \* the <<seq, key>> pairs the sources board
    NoRecord,
    CompactEvery,   \* COMPACT_EVERY
    MaxCrashes,     \* bound on crashes
    MaxErrors,      \* bound on failed I/O calls
    TornTails       \* whether a crash or a failed write may leave a partial record

ASSUME FileOnceAssumption ==
    /\ Records \subseteq Seqs \X Keys
    /\ CompactEvery \in Nat \ {0}
    /\ MaxCrashes \in Nat /\ MaxErrors \in Nat
    /\ TornTails \in BOOLEAN

VARIABLES
    pc,         \* where the current call stands; "down" when no process runs
    once,       \* FileOnce.once: volatile
    appended,   \* FileOnce.appended: volatile
    cur,        \* <<stream, seq, key>> of the current call
    log,        \* contents of the file once.log names
    synced,     \* how many of its entries are on stable storage
    stale,      \* older contents of once.log a crash may bring back
    orphaned,   \* the open handle refers to a file that lost its name
    tmp,        \* the snapshot in once.log.tmp
    commits,    \* how often the sink holds each seq
    acked,      \* seqs the source was told it may forget
    crashes, errors

file == <<log, synced, stale, orphaned, tmp>>
sink == <<commits, acked>>
bounds == <<crashes, errors>>
vars == <<pc, once, appended, cur, file, sink, bounds>>

-----------------------------------------------------------------------------
(* The log.                                                                *)

Delivered(s, q, k) == [tag |-> "D", stream |-> s, seq |-> q, key |-> k]
Checkpointed(s, w) == [tag |-> "W", stream |-> s, watermark |-> w]
Torn == [tag |-> "torn"]

FreshOnce == [s \in Streams |-> DefaultStream]

\* What replay reads: it stops at the first short or corrupt record.
Intact(entries) ==
    LET broken == {i \in DOMAIN entries : entries[i] = Torn}
    IN  IF broken = {} THEN entries ELSE SubSeq(entries, 1, Min(broken) - 1)

Apply(gate, r) ==
    [gate EXCEPT ![r.stream] = IF r.tag = "D" THEN Admit(@, r.seq, r.key)
                                              ELSE RestoreWatermark(@, r.watermark)]

Replay(entries) == FoldLeft(Apply, FreshOnce, Intact(entries))

\* One stream of a snapshot: its checkpoint, then its entries by seq.
StreamSnapshot(gate, s) ==
    LET c == Checkpoint(gate[s])
        sorted == SetToSortSeq(c.entries, LAMBDA a, b : a[1] < b[1])
    IN  <<Checkpointed(s, c.watermark)>>
            \o [i \in DOMAIN sorted |-> Delivered(s, sorted[i][1], sorted[i][2])]

Snapshot(gate) ==
    LET known == SetToSeq({s \in Streams : gate[s] # DefaultStream})
    IN  FlattenSeq([i \in DOMAIN known |-> StreamSnapshot(gate, known[i])])

-----------------------------------------------------------------------------
LogEntries ==
    {Delivered(s, r[1], r[2]) : s \in Streams, r \in Records}
        \cup {Checkpointed(s, w) : s \in Streams, w \in Watermarks} \cup {Torn}

IsLog(l) == \A i \in DOMAIN l : l[i] \in LogEntries

\* The shape of the process, its files and the sink.
TypeOK ==
    /\ pc \in {"down", "idle", "written", "compact", "tmp", "renamed", "reopened", "land"}
    /\ once \in [Streams -> StreamState]
    /\ appended \in Nat
    /\ cur \in (Streams \X Seqs \X Keys) \cup {NoRecord}
    /\ IsLog(log) /\ IsLog(tmp) /\ \A l \in stale : IsLog(l)
    /\ synced \in 0..Len(log)
    /\ orphaned \in BOOLEAN
    /\ commits \in [Streams -> [Seqs -> Nat]]
    /\ acked \in [Streams -> SUBSET Seqs]
    /\ crashes \in 0..MaxCrashes /\ errors \in 0..MaxErrors

Init ==
    /\ pc = "down"
    /\ once = FreshOnce
    /\ appended = 0
    /\ cur = NoRecord
    /\ log = <<>> /\ synced = 0 /\ stale = {} /\ orphaned = FALSE /\ tmp = <<>>
    /\ commits = [s \in Streams |-> [q \in Seqs |-> 0]]
    /\ acked = [s \in Streams |-> {}]
    /\ crashes = 0 /\ errors = 0

\* FileOnce::open: the leftover tmp goes, the log is replayed, and the handle
\* is opened for appending.  Nothing cuts a torn tail off the file.
Open ==
    /\ pc = "down"
    /\ once' = Replay(log)
    /\ appended' = Len(Intact(log))
    /\ tmp' = <<>> /\ orphaned' = FALSE
    /\ pc' = "idle"
    /\ UNCHANGED <<cur, log, synced, stale, sink, bounds>>

\* admit on a duplicate: the destination drops the record and acks it again.
AdmitDuplicate(s, r) ==
    /\ pc = "idle"
    /\ IsDuplicate(once[s], r[1], r[2])
    /\ acked' = [acked EXCEPT ![s] = @ \cup {r[1]}]
    /\ UNCHANGED <<pc, once, appended, cur, file, commits, bounds>>

\* Where write_all puts the bytes: in the file behind the handle.
AppendToHandle(entry) == log' = IF orphaned THEN log ELSE Append(log, entry)

\* admit on a new record, up to write_all: the gate has it already.
AdmitWrite(s, r) ==
    /\ pc = "idle"
    /\ ~ IsDuplicate(once[s], r[1], r[2])
    /\ once' = [once EXCEPT ![s] = Admitted(@, r[1], r[2])]
    /\ cur' = <<s, r[1], r[2]>>
    /\ AppendToHandle(Delivered(s, r[1], r[2]))
    /\ pc' = "written"
    /\ UNCHANGED <<appended, synced, stale, orphaned, tmp, sink, bounds>>

\* write_all fails: the caller gets an error, the gate keeps the record, and
\* the file may end in part of it.
AdmitWriteFails(s, r) ==
    /\ pc = "idle"
    /\ errors < MaxErrors
    /\ ~ IsDuplicate(once[s], r[1], r[2])
    /\ once' = [once EXCEPT ![s] = Admitted(@, r[1], r[2])]
    /\ \/ log' = log
       \/ TornTails /\ AppendToHandle(Torn)
    /\ errors' = errors + 1
    /\ UNCHANGED <<pc, appended, cur, synced, stale, orphaned, tmp, sink, crashes>>

\* sync_all, and the decision to compact.
Sync ==
    /\ pc = "written"
    /\ synced' = IF orphaned THEN synced ELSE Len(log)
    /\ appended' = appended + 1
    /\ pc' = IF appended' >= CompactEvery THEN "compact" ELSE "land"
    /\ UNCHANGED <<once, cur, log, stale, orphaned, tmp, sink, bounds>>

\* compact: the snapshot is written to once.log.tmp and fsync'd.
CompactWriteTmp ==
    /\ pc = "compact"
    /\ tmp' = Snapshot(once)
    /\ pc' = "tmp"
    /\ UNCHANGED <<once, appended, cur, log, synced, stale, orphaned, sink, bounds>>

\* compact: once.log.tmp takes the name once.log; until the directory is
\* fsync'd a crash may bring the old contents back.
CompactRename ==
    /\ pc = "tmp"
    /\ stale' = stale \cup {log}
    /\ log' = tmp /\ synced' = Len(tmp) /\ tmp' = <<>>
    /\ orphaned' = TRUE
    /\ pc' = "renamed"
    /\ UNCHANGED <<once, appended, cur, sink, bounds>>

CompactReopen ==
    /\ pc = "renamed"
    /\ orphaned' = FALSE
    /\ pc' = "reopened"
    /\ UNCHANGED <<once, appended, cur, log, synced, stale, tmp, sink, bounds>>

\* Bug: the call returns without the directory fsync.
CompactWithoutDirSync ==
    /\ pc = "reopened"
    /\ appended' = Len(log)
    /\ pc' = "land"
    /\ UNCHANGED <<once, cur, file, sink, bounds>>

CompactFsyncDir ==
    /\ pc = "reopened"
    /\ stale' = {}
    /\ appended' = Len(log)
    /\ pc' = "land"
    /\ UNCHANGED <<once, cur, log, synced, orphaned, tmp, sink, bounds>>

\* sync_all or a step of compact fails: admit returns the error at once.
StepFails ==
    /\ pc \in {"written", "compact", "tmp", "renamed", "reopened"}
    /\ errors < MaxErrors
    /\ errors' = errors + 1
    /\ cur' = NoRecord
    /\ pc' = "idle"
    /\ UNCHANGED <<once, appended, file, sink, crashes>>

\* admit returned Delivered: the caller lands the record in its sink, and the
\* source is acked.
Land ==
    /\ pc = "land"
    /\ commits' = [commits EXCEPT ![cur[1]][cur[2]] = @ + 1]
    /\ acked' = [acked EXCEPT ![cur[1]] = @ \cup {cur[2]}]
    /\ cur' = NoRecord
    /\ pc' = "idle"
    /\ UNCHANGED <<once, appended, file, bounds>>

\* What once.log may hold after a crash.
Survivors ==
    LET kept == {SubSeq(log, 1, n) : n \in synced..Len(log)}
        torn == {Append(SubSeq(log, 1, n), Torn) : n \in synced..(Len(log) - 1)}
    IN  kept \cup stale \cup (IF TornTails THEN torn ELSE {})

Crash ==
    /\ pc # "down"
    /\ crashes < MaxCrashes
    /\ crashes' = crashes + 1
    /\ \E l \in Survivors : log' = l /\ synced' = Len(l)
    /\ stale' = {} /\ orphaned' = FALSE
    /\ once' = FreshOnce /\ appended' = 0 /\ cur' = NoRecord
    /\ pc' = "down"
    /\ UNCHANGED <<tmp, sink, errors>>

Next ==
    \/ Open
    \/ \E s \in Streams, r \in Records :
          AdmitDuplicate(s, r) \/ AdmitWrite(s, r) \/ AdmitWriteFails(s, r)
    \/ Sync \/ StepFails \/ Land
    \/ CompactWriteTmp \/ CompactRename \/ CompactReopen \/ CompactFsyncDir
    \/ Crash

Spec == Init /\ [][Next]_vars

-----------------------------------------------------------------------------
(* Properties.                                                             *)

\* No seq is landed twice, across any number of restarts, compactions and
\* failed calls: what "append a fsync'd `D` record so a restart will not
\* re-admit a redelivery" promises (FileOnce::admit).
NoReadmission == \A s \in Streams, q \in Seqs : commits[s][q] <= 1

\* A crash at any point of a call, compaction included, leaves a log whose
\* replay still rejects every seq that was landed (FileOnce::open, replay,
\* compact).
LandedSurvivesCrash ==
    \A l \in Survivors : \A s \in Streams, q \in Seqs :
        commits[s][q] > 0 => q < Replay(l)[s].low_watermark
                                \/ q \in Remembered(Replay(l)[s])

\* Replaying the log gives the watermark and the parked entries the running
\* gate has, whenever no call is in progress and none has failed
\* (FileOnce::open; Once::checkpoints and restore_watermark).
ReplayMatchesGate ==
    (pc = "idle" /\ errors = 0) =>
        \A s \in Streams : Checkpoint(Replay(log)[s]) = Checkpoint(once[s])

\* The durable gate: nothing is landed twice, the log remembers what was landed
\* at every point of a call, and at rest it replays to the gate in memory.
DurableGateInv == TypeOK /\ NoReadmission /\ LandedSurvivesCrash /\ ReplayMatchesGate

\* Every seq the source was told to forget is in the sink, except one for each
\* crash or error: a record admitted and not yet landed when the call is cut
\* short is a duplicate when it comes again (FileOnce::admit, which fsyncs
\* before its caller lands the record).
LossPerFault ==
    Cardinality({x \in Streams \X Seqs : x[2] \in acked[x[1]] /\ commits[x[1]][x[2]] = 0})
        <= crashes + errors
=============================================================================
