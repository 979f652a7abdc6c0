---------------------------- MODULE PartitionLog ----------------------------
(***************************************************************************)
(* One partition of the Kafka broker mode: the segmented ReplayLog on      *)
(* disk, the SealedPartitionLog index that gives its records contiguous    *)
(* Kafka offsets, and a consumer that fetches and commits its offset.      *)
(*                                                                         *)
(* A frame has size one, so a byte offset of the log is a frame count.  A  *)
(* write that fails half way leaves a torn piece behind, which takes room  *)
(* in the file and none in write_offset: from there on, no byte offset of  *)
(* that segment finds its frame.  The broker's mutex is held for a whole   *)
(* request, so only a crash comes between the steps of one.                *)
(***************************************************************************)
EXTENDS Integers, Sequences, SequencesExt, FiniteSets

CONSTANTS
    SegmentFrames,  \* segment_bytes, in frames
    MaxBatch,       \* records of one produce request
    MaxRecords,     \* bound on the records produced
    MaxErrors,      \* bound on the file operations that fail
    MaxCrashes      \* bound on the crashes

ASSUME LogAssumption ==
    /\ SegmentFrames \in Nat \ {0} /\ MaxBatch \in Nat \ {0}
    /\ MaxRecords \in Nat /\ MaxErrors \in Nat /\ MaxCrashes \in Nat

VARIABLES
    disk,           \* the segment files, by start offset
    active_start,   \* ReplayLog.active_start
    write_offset,   \* ReplayLog.write_offset
    starts,         \* SealedPartitionLog.starts
    up,             \* the process runs
    batch,          \* the produce request under way
    position,       \* the consumer's next offset
    committed,      \* its group's offset in FileOffsets.map
    on_disk,        \* the offset a restart would read back
    off_torn,       \* part of a record is stuck in the offset log
    produced, errors, crashes,   \* counters
    acked,          \* offset and record of every acknowledged record
    fetched,        \* offset and record of every record fetched
    damaged,        \* a failed write tore a frame or a failed fsync dropped one
    early           \* some record was published before it was synced

files == <<disk, active_start, write_offset>>
offsets == <<position, committed, on_disk, off_torn>>
counters == <<produced, errors, crashes>>
history == <<acked, fetched, damaged, early>>
vars == <<files, starts, up, batch, offsets, counters, history>>

Records == 1..MaxRecords
Torn == 0
\* A frame is cached until an fsync makes it synced; a failed fsync may drop
\* it from the pages the next one would write.
Frames == [rec : Records \cup {Torn}, kept : {"cached", "synced", "dropped"}]
NoBatch == [recs |-> <<>>, base |-> 0, new_starts |-> <<>>, step |-> "idle"]
Active == Len(disk)

Init ==
    /\ disk = <<[start |-> 0, frames |-> <<>>]>>
    /\ active_start = 0 /\ write_offset = 0
    /\ starts = <<>> /\ up = TRUE /\ batch = NoBatch
    /\ position = 0 /\ committed = 0 /\ on_disk = 0 /\ off_torn = FALSE
    /\ produced = 0 /\ errors = 0 /\ crashes = 0
    /\ acked = {} /\ fetched = {} /\ damaged = FALSE /\ early = FALSE

-----------------------------------------------------------------------------
(* Reading segments.                                                       *)

\* scan_valid_len: the frames before the first one that is torn.
ValidLen(frames) ==
    LET bad == {i \in DOMAIN frames : frames[i].rec = Torn}
    IN  IF bad = {} THEN Len(frames) ELSE (CHOOSE i \in bad : \A j \in bad : i <= j) - 1

\* The byte offsets of the valid frames of one segment.
FrameOffsets(seg) == [i \in 1..ValidLen(seg.frames) |-> seg.start + i - 1]

\* scan_starts over replay_from(0): a torn frame ends its segment, the next
\* segment is read from its start, and nothing at or past end is.
ScanStarts(segs, end) ==
    SelectSeq(FlattenSeq([i \in DOMAIN segs |-> FrameOffsets(segs[i])]), LAMBDA o : o < end)

\* The segment a byte offset falls in: the last that starts at or before it.
SegmentOf(o) ==
    CHOOSE s \in DOMAIN disk :
        disk[s].start <= o /\ \A r \in DOMAIN disk : disk[r].start <= o => r <= s

\* read_sealed_from: the records of one segment from a byte offset on.
ReadFrom(o) ==
    LET seg == disk[SegmentOf(o)]
    IN  [i \in 1..(ValidLen(seg.frames) - (o - seg.start)) |-> seg.frames[o - seg.start + i].rec]

-----------------------------------------------------------------------------
(* Produce: append the batch, fsync, publish.                              *)

\* Records are numbered in the order they are produced.
Produce(n) ==
    /\ up /\ batch = NoBatch
    /\ produced + n <= MaxRecords
    /\ batch' = [recs |-> [i \in 1..n |-> produced + i], base |-> Len(starts),
                 new_starts |-> <<>>, step |-> "append"]
    /\ produced' = produced + n
    /\ UNCHANGED <<files, starts, up, offsets, errors, crashes, history>>

Synced(frames) ==
    [i \in DOMAIN frames |->
        IF frames[i].kept = "cached" THEN [frames[i] EXCEPT !.kept = "synced"] ELSE frames[i]]

Dropped(frames) ==
    [i \in DOMAIN frames |->
        IF frames[i].kept = "cached" THEN [frames[i] EXCEPT !.kept = "dropped"] ELSE frames[i]]

\* rotate: fsync the active segment, start the next one at write_offset.
Rotated ==
    Append([disk EXCEPT ![Active].frames = Synced(@)], [start |-> write_offset, frames |-> <<>>])

SegmentFull == write_offset - active_start >= SegmentFrames
Put(segs, f) == [segs EXCEPT ![Len(segs)].frames = Append(@, f)]

\* ReplayLog::append of the next record, rotating first if the segment is full.
AppendRecord ==
    /\ up /\ batch.step = "append" /\ Len(batch.new_starts) < Len(batch.recs)
    /\ disk' = Put(IF SegmentFull THEN Rotated ELSE disk,
                   [rec |-> batch.recs[Len(batch.new_starts) + 1], kept |-> "cached"])
    /\ active_start' = IF SegmentFull THEN write_offset ELSE active_start
    /\ write_offset' = write_offset + 1
    /\ batch' = [batch EXCEPT !.new_starts = Append(@, write_offset)]
    /\ UNCHANGED <<starts, up, offsets, counters, history>>

\* The append fails: the record is too large, or the rotation's fsync fails and
\* may drop what it was to write; the next segment cannot be opened; its
\* directory entry cannot be synced; the write stops half way through the frame.
AppendFails ==
    /\ up /\ batch.step = "append" /\ Len(batch.new_starts) < Len(batch.recs)
    /\ errors < MaxErrors /\ errors' = errors + 1
    /\ batch' = [batch EXCEPT !.step = "failed"]
    /\ \/ UNCHANGED <<files, damaged>>
       \/ /\ SegmentFull
          /\ disk' = [disk EXCEPT ![Active].frames = Dropped(@)]
          /\ damaged' = TRUE
          /\ UNCHANGED <<active_start, write_offset>>
       \/ /\ SegmentFull
          /\ disk' = [disk EXCEPT ![Active].frames = Synced(@)]
          /\ active_start' = write_offset
          /\ UNCHANGED <<write_offset, damaged>>
       \/ /\ SegmentFull
          /\ disk' = Rotated
          /\ active_start' = write_offset
          /\ UNCHANGED <<write_offset, damaged>>
       \/ /\ disk' = Put(IF SegmentFull THEN Rotated ELSE disk, [rec |-> Torn, kept |-> "cached"])
          /\ active_start' = IF SegmentFull THEN write_offset ELSE active_start
          /\ damaged' = TRUE
          /\ UNCHANGED write_offset
    /\ UNCHANGED <<starts, up, offsets, produced, crashes, acked, fetched, early>>

Cached(f) == f.kept # "synced"

\* The active segment after its fsync.
FsyncActive == [disk EXCEPT ![Active].frames = Synced(@)]

\* The fsync succeeds on a batch that was appended whole: publish and acknowledge.
Publish ==
    /\ up /\ batch.step = "append" /\ Len(batch.new_starts) = Len(batch.recs)
    /\ disk' = FsyncActive
    /\ starts' = starts \o batch.new_starts
    /\ acked' = acked \cup {<<batch.base + i - 1, batch.recs[i]>> : i \in DOMAIN batch.recs}
    /\ batch' = NoBatch
    /\ UNCHANGED <<active_start, write_offset, up, offsets, counters, fetched, damaged, early>>

\* Bug: a failed batch leaves the index as it was.
IndexUnreconciled(segs, end) == starts

\* The index a failed batch leaves behind.
Reconciled(segs, end) == ScanStarts(segs, end)

\* Something is published that is not synced.
PublishesEarly(segs) ==
    \E s \in DOMAIN segs : \E i \in 1..ValidLen(segs[s].frames) : Cached(segs[s].frames[i])

\* An append or this fsync failed: rescan the log and report the error.  A
\* failed fsync leaves its frames cached or drops them.
Reconcile ==
    /\ up
    /\ \/ batch.step = "failed" /\ disk' = FsyncActive /\ UNCHANGED <<errors, damaged>>
       \/ /\ \/ batch.step = "failed"
             \/ batch.step = "append" /\ Len(batch.new_starts) = Len(batch.recs)
          /\ errors < MaxErrors /\ errors' = errors + 1
          /\ \/ UNCHANGED <<disk, damaged>>
             \/ /\ disk' = [disk EXCEPT ![Active].frames = Dropped(@)]
                /\ damaged' = TRUE
    /\ starts' = Reconciled(disk', write_offset)
    /\ early' = (early \/ PublishesEarly(disk'))
    /\ batch' = NoBatch
    /\ UNCHANGED <<active_start, write_offset, up, offsets, produced, crashes, acked, fetched>>

-----------------------------------------------------------------------------
(* The consumer: fetch, and commit what was fetched.                       *)

\* A fetch returns at least one record if there is one, at most a segment's rest.
Fetch ==
    /\ up /\ batch = NoBatch /\ position < Len(starts)
    /\ LET got == ReadFrom(starts[position + 1])
       IN  \E n \in 1..Len(got) :
              /\ fetched' = fetched \cup {<<position + i - 1, got[i]>> : i \in 1..n}
              /\ position' = position + n
    /\ UNCHANGED <<files, starts, up, batch, committed, on_disk, off_torn, counters, acked, damaged, early>>

\* FileOffsets::commit: append, fsync, insert, and compact when the log has
\* grown.  A record appended behind a torn one is not read back; a compaction
\* rewrites the log from the map.
CommitOffset(compacts) ==
    /\ up /\ batch = NoBatch /\ position # committed
    /\ committed' = position
    /\ on_disk' = IF off_torn /\ ~compacts THEN on_disk ELSE position
    /\ off_torn' = (off_torn /\ ~compacts)
    /\ UNCHANGED <<files, starts, up, batch, position, counters, history>>

\* The write fails, in part or before it starts, or the fsync after it fails.
CommitOffsetFails ==
    /\ up /\ batch = NoBatch /\ position # committed
    /\ errors < MaxErrors /\ errors' = errors + 1
    /\ \/ UNCHANGED <<on_disk, off_torn>>
       \/ off_torn' = TRUE /\ UNCHANGED on_disk
       \/ ~off_torn /\ on_disk' = position /\ UNCHANGED off_torn
    /\ UNCHANGED <<files, starts, up, batch, position, committed, produced, crashes, history>>

\* The consumer starts again from the committed offset.
ConsumerRestarts ==
    /\ up /\ batch = NoBatch /\ position # committed
    /\ position' = committed
    /\ UNCHANGED <<files, starts, up, batch, committed, on_disk, off_torn, counters, history>>

-----------------------------------------------------------------------------
(* Crashes and recovery.                                                   *)

\* What a power loss leaves of a segment: of the frames that are not synced
\* any may be gone, which reads like a torn frame.
Left(frames, lost) ==
    [i \in DOMAIN frames |-> IF i \in lost THEN [rec |-> Torn, kept |-> "synced"]
                                           ELSE [frames[i] EXCEPT !.kept = "synced"]]
MayLose(frames) == {i \in DOMAIN frames : Cached(frames[i])}

Down ==
    /\ up /\ crashes < MaxCrashes
    /\ up' = FALSE /\ crashes' = crashes + 1
    /\ batch' = NoBatch /\ starts' = <<>> /\ committed' = 0
    /\ UNCHANGED <<active_start, write_offset, position, on_disk, off_torn, produced, errors, history>>

\* The process is killed: the page cache stays.
Kill == Down /\ UNCHANGED disk

\* The machine loses power.
PowerLoss ==
    /\ Down
    /\ \E lost \in [DOMAIN disk -> SUBSET (1..(MaxRecords + MaxErrors))] :
          /\ \A s \in DOMAIN disk : lost[s] \subseteq MayLose(disk[s].frames)
          /\ disk' = [s \in DOMAIN disk |->
                        [disk[s] EXCEPT !.frames = Left(@, lost[s])]]

\* set_len to the valid length: the torn tail is cut off.
TailCut(frames) == SubSeq(frames, 1, ValidLen(frames))

\* ReplayLog::open and SealedPartitionLog::open, and FileOffsets::open.
Open ==
    /\ ~up /\ up' = TRUE
    /\ disk' = [disk EXCEPT ![Active].frames = TailCut(@)]
    /\ active_start' = disk[Active].start
    /\ write_offset' = disk[Active].start + ValidLen(disk[Active].frames)
    /\ starts' = ScanStarts(disk', write_offset')
    /\ early' = (early \/ PublishesEarly(disk'))
    /\ committed' = on_disk /\ off_torn' = FALSE
    /\ UNCHANGED <<batch, position, on_disk, counters, acked, fetched, damaged>>

Next ==
    \/ \E n \in 1..MaxBatch : Produce(n)
    \/ AppendRecord \/ AppendFails \/ Publish \/ Reconcile
    \/ Fetch \/ (\E compacts \in BOOLEAN : CommitOffset(compacts)) \/ CommitOffsetFails
    \/ ConsumerRestarts
    \/ Kill \/ PowerLoss \/ Open

Spec == Init /\ [][Next]_vars

-----------------------------------------------------------------------------
(* Properties.                                                             *)

\* The shape of the state; no segment of ReplayLog starts past the end of the log.
TypeOK ==
    /\ \A s \in DOMAIN disk :
          /\ disk[s].start \in 0..write_offset
          /\ \A i \in DOMAIN disk[s].frames : disk[s].frames[i] \in Frames
    /\ active_start \in 0..write_offset
    /\ write_offset \in 0..MaxRecords
    /\ \A i \in DOMAIN starts : starts[i] \in 0..MaxRecords
    /\ up \in BOOLEAN /\ batch.step \in {"idle", "append", "failed"}
    /\ {position, committed, on_disk} \subseteq 0..MaxRecords
    /\ produced \in 0..MaxRecords /\ errors \in 0..MaxErrors /\ crashes \in 0..MaxCrashes

\* The record at a Kafka offset, as a fetch would find it.
RecordAt(o) ==
    IF o < Len(starts) /\ ReadFrom(starts[o + 1]) # <<>> THEN Head(ReadFrom(starts[o + 1])) ELSE Torn

\* An acknowledged record is found at the offset its producer was told,
\* through later failed batches, crashes and recoveries, as long as no failed
\* write tore a frame and no failed fsync dropped one.
AckedReadable ==
    up /\ ~damaged => \A a \in acked : RecordAt(a[1]) = a[2]

\* Between requests the index in memory is the one a restart would build, so
\* the next produce and a recovery agree on every offset, as long as no failed
\* write or fsync damaged a frame.
IndexMatchesDisk ==
    up /\ batch = NoBatch /\ ~damaged => starts = ScanStarts(disk, write_offset)

\* No acknowledged record lies below the committed offset without having been
\* fetched, whatever crashed in between, as long as no record was published
\* before it was synced.
ConsumerNeverSkips ==
    up /\ ~damaged /\ ~early =>
        \A a \in acked : a[1] < committed => a \in fetched

\* The partition log and its consumers agree, as long as no frame is damaged:
\* acknowledged records keep their offsets, the index is the one recovery would
\* build, and no group steps over a record.
LogInv == TypeOK /\ AckedReadable /\ IndexMatchesDisk /\ ConsumerNeverSkips

\* An acknowledged record is found at its offset, whatever failed.
AckedNeverLost == up => \A a \in acked : RecordAt(a[1]) = a[2]
=============================================================================
