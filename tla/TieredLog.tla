----------------------------- MODULE TieredLog ------------------------------
(***************************************************************************)
(* datarail-tieredlog over a cold BlobStore (datarail-blobstore FsBlob, or *)
(* a remote one through datarail-netblob): a hot segment on local disk,    *)
(* sealed segments in the cold tier.                                       *)
(*                                                                         *)
(* A frame is a record number and has size 1, so an offset counts frames;  *)
(* TornFrame stands for the bytes of an incomplete frame.  A put is atomic and  *)
(* durable (FsBlob renames a synced file), but its caller may see an error *)
(* whether or not it was applied (NetBlob).  Directory operations reach    *)
(* the disk in order; file contents only up to the last fsync.             *)
(***************************************************************************)
EXTENDS Integers, Sequences, TLC

CONSTANTS
    segment_frames,         \* segment_bytes
    MaxTiered,              \* records appended
    MaxTierCrashes, MaxTierFaults

VARIABLES
    hot,                    \* local *.seg files: start -> frames and how many are synced
    cold,                   \* blobs seg/<start>: start -> frames
    tl,                     \* the open log: active_start, write_offset, rotation step
    tlog,                   \* the records appended and not lost, by offset
    tsynced,                \* how many of them a sync or a rotation made durable
    tnext, tcrashes, tfaults,
    tdirty                  \* whether an append failed part-way

tieredVars == <<hot, cold, tl, tlog, tsynced, tnext, tcrashes, tfaults, tdirty>>

TornFrame == 0
NewSegment == [frames |-> <<>>, synced |-> 0]

\* scan_valid_len: the frames before the first that is not whole.
scan_valid_len(fs) ==
    LET bad == {i \in 1..Len(fs) : fs[i] = TornFrame}
    IN  IF bad = {} THEN Len(fs) ELSE (CHOOSE i \in bad : \A j \in bad : i <= j) - 1
WholeFrames(fs) == SubSeq(fs, 1, scan_valid_len(fs))

TieredInit ==
    /\ hot = (0 :> NewSegment) /\ cold = [s \in {} |-> <<>>]
    /\ tl = [up |-> TRUE, start |-> 0, off |-> 0, pc |-> "idle", old |-> 0]
    /\ tlog = <<>> /\ tsynced = 0 /\ tnext = 1 /\ tcrashes = 0 /\ tfaults = 0 /\ tdirty = FALSE

-----------------------------------------------------------------------------
(* append and sync.                                                        *)

SegFull == tl.off - tl.start >= segment_frames
TierIdle == tl.up /\ tl.pc = "idle"
TierFault == tfaults < MaxTierFaults /\ tfaults' = tfaults + 1
WriteHot(f) == hot' = [hot EXCEPT ![tl.start].frames = Append(@, f)]

TieredAppend ==
    /\ TierIdle /\ ~ SegFull /\ tnext <= MaxTiered
    /\ WriteHot(tnext)
    /\ tl' = [tl EXCEPT !.off = @ + 1]
    /\ tlog' = Append(tlog, tnext)
    /\ tnext' = tnext + 1
    /\ UNCHANGED <<cold, tsynced, tcrashes, tfaults, tdirty>>

\* One of the three writes fails after part of the frame is in the file.
TieredAppendFails ==
    /\ TierIdle /\ ~ SegFull /\ TierFault
    /\ WriteHot(TornFrame)
    /\ tdirty' = TRUE
    /\ UNCHANGED <<cold, tl, tlog, tsynced, tnext, tcrashes>>

TieredSync ==
    /\ TierIdle
    /\ hot' = [hot EXCEPT ![tl.start].synced = Len(hot[tl.start].frames)]
    /\ tsynced' = Len(tlog)
    /\ UNCHANGED <<cold, tl, tlog, tnext, tcrashes, tfaults, tdirty>>

-----------------------------------------------------------------------------
(* seal_and_rotate.                                                        *)

SealSync ==
    /\ TierIdle /\ SegFull /\ tnext <= MaxTiered
    /\ hot' = [hot EXCEPT ![tl.start].synced = Len(hot[tl.start].frames)]
    /\ tsynced' = Len(tlog)
    /\ tl' = [tl EXCEPT !.pc = "put"]
    /\ UNCHANGED <<cold, tlog, tnext, tcrashes, tfaults, tdirty>>

Offloaded(s) == hot[s].frames

\* blob.put, through FsBlob's temporary file and rename, or a round trip.
SealPut ==
    /\ tl.up /\ tl.pc = "put"
    /\ cold' = (tl.start :> Offloaded(tl.start)) @@ cold
    /\ tl' = [tl EXCEPT !.pc = "create"]
    /\ UNCHANGED <<hot, tlog, tsynced, tnext, tcrashes, tfaults, tdirty>>

\* The caller of append gets the error; the next append starts over.
SealPutFails ==
    /\ tl.up /\ tl.pc = "put" /\ TierFault
    /\ cold' \in {cold, (tl.start :> Offloaded(tl.start)) @@ cold}
    /\ tl' = [tl EXCEPT !.pc = "idle"]
    /\ UNCHANGED <<hot, tlog, tsynced, tnext, tcrashes, tdirty>>

SealCreate ==
    /\ tl.up /\ tl.pc = "create"
    /\ hot' = hot @@ (tl.off :> NewSegment)
    /\ tl' = [tl EXCEPT !.pc = "evict", !.old = tl.start, !.start = tl.off]
    /\ UNCHANGED <<cold, tlog, tsynced, tnext, tcrashes, tfaults, tdirty>>

SealEvict ==
    /\ tl.up /\ tl.pc = "evict"
    /\ hot' = [s \in DOMAIN hot \ {tl.old} |-> hot[s]]
    /\ tl' = [tl EXCEPT !.pc = "idle"]
    /\ UNCHANGED <<cold, tlog, tsynced, tnext, tcrashes, tfaults, tdirty>>

SealEvictFails ==
    /\ tl.up /\ tl.pc = "evict" /\ TierFault
    /\ tl' = [tl EXCEPT !.pc = "idle"]
    /\ UNCHANGED <<hot, cold, tlog, tsynced, tnext, tcrashes, tdirty>>

-----------------------------------------------------------------------------
(* Crashes and open.                                                       *)

TieredKill ==
    /\ tl.up /\ tcrashes < MaxTierCrashes
    /\ tl' = [tl EXCEPT !.up = FALSE]
    /\ tcrashes' = tcrashes + 1
    /\ UNCHANGED <<hot, cold, tlog, tsynced, tnext, tfaults, tdirty>>

\* Unsynced frames of the hot segment are lost from some point on, the first of
\* them perhaps half-way.
TieredPowerLoss ==
    /\ tl.up /\ tcrashes < MaxTierCrashes
    /\ \E n \in hot[tl.start].synced..Len(hot[tl.start].frames), half \in BOOLEAN :
          hot' = [hot EXCEPT ![tl.start].frames =
                    SubSeq(@, 1, n) \o (IF half /\ n < Len(@) THEN <<TornFrame>> ELSE <<>>)]
    /\ tl' = [tl EXCEPT !.up = FALSE]
    /\ tcrashes' = tcrashes + 1
    /\ UNCHANGED <<cold, tlog, tsynced, tnext, tfaults, tdirty>>

\* Bug: the oldest local segment is reopened.
hot_start_first(starts) == CHOOSE s \in starts : \A t \in starts : s <= t

hot_start(starts) == CHOOSE s \in starts : \A t \in starts : s >= t

Recovered(fs) == WholeFrames(fs)

\* open: the highest local segment, cut to its whole frames.
TieredOpen ==
    LET s == hot_start(DOMAIN hot)
        fs == Recovered(hot[s].frames)
    IN  /\ ~ tl.up
        /\ hot' = [hot EXCEPT ![s].frames = fs,
                              ![s].synced = IF @ > Len(fs) THEN Len(fs) ELSE @]
        /\ tl' = [up |-> TRUE, start |-> s, off |-> s + Len(fs), pc |-> "idle", old |-> s]
        /\ tlog' = IF s + Len(fs) < Len(tlog) THEN SubSeq(tlog, 1, s + Len(fs)) ELSE tlog
        /\ UNCHANGED <<cold, tsynced, tnext, tcrashes, tfaults, tdirty>>

TieredNext ==
    \/ TieredAppend \/ TieredAppendFails \/ TieredSync
    \/ SealSync \/ SealPut \/ SealPutFails \/ SealCreate \/ SealEvict \/ SealEvictFails
    \/ TieredKill \/ TieredPowerLoss \/ TieredOpen

-----------------------------------------------------------------------------
(* replay_from.                                                            *)

all_starts == DOMAIN cold \cup {tl.start}
load_segment(s) == IF s = tl.start THEN hot[s].frames ELSE cold[s]

\* Offset and record of every whole frame of every segment.
replayed ==
    UNION {{<<s + i - 1, load_segment(s)[i]>> : i \in 1..scan_valid_len(load_segment(s))}
             : s \in all_starts}

-----------------------------------------------------------------------------
(* Properties.                                                             *)

\* Replay yields every record appended and not lost to a power failure, at the
\* offset append returned for it, from whichever tier: no gap, none twice.
TieredReplays ==
    TierIdle /\ ~ tdirty => replayed = {<<i - 1, tlog[i]>> : i \in 1..Len(tlog)}

\* What sync or a rotation returned for is never lost.
TieredKeepsSynced == ~ tdirty => Len(tlog) >= tsynced

\* The two tiers together are the log: replay finds every record once, at its
\* offset, and nothing that was synced or rotated is lost.
TieredInv == TieredReplays /\ TieredKeepsSynced
=============================================================================
