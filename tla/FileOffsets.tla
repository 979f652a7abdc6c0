---------------------------- MODULE FileOffsets -----------------------------
(***************************************************************************)
(* datarail-offsets FileOffsets: the append-only log of committed group    *)
(* offsets, its compaction and its recovery, one file operation per step.  *)
(*                                                                         *)
(* A record of the log is a group and an offset; TornOffset stands for the *)
(* bytes of an incomplete one.  A power loss keeps a prefix that holds     *)
(* every fsynced record, and the directory as of its last fsync or later.  *)
(***************************************************************************)
EXTENDS Integers, Sequences, FiniteSets

CONSTANTS
    OffGroups,                  \* group names
    COMPACT_MIN_RECORDS, COMPACT_GROWTH_FACTOR,
    MaxOffset, MaxOffCalls, MaxOffCrashes, MaxOffFaults

VARIABLES
    olog, osynced,              \* the live file: its records, and how many are fsynced
    oldfile,                    \* what the directory may still name after a power loss
    ofile,                      \* FileOffsets.file: "live", or "dead" after a failed reopen
    omap, orecords,             \* FileOffsets.map and .records
    ostep,                      \* the call under way
    oup, ocalls, ocrashes, ofaults,
    oacked, otried,             \* per group: last acknowledged commit, attempts since
    oharm                       \* faults that leave later commits unprotected

offsetsVars == <<olog, osynced, oldfile, ofile, omap, orecords, ostep, oup, ocalls, ocrashes, ofaults,
             oacked, otried, oharm>>

NoOffset == -1
TornOffset == <<0, NoOffset>>
Rest == [at |-> "idle", values |-> <<>>, map |-> [g \in OffGroups |-> NoOffset]]

OffsetsInit ==
    /\ olog = <<>> /\ osynced = 0 /\ oldfile = {} /\ ofile = "live"
    /\ omap = [g \in OffGroups |-> NoOffset] /\ orecords = 0
    /\ ostep = Rest /\ oup = TRUE /\ ocalls = 0 /\ ocrashes = 0 /\ ofaults = 0
    /\ oacked = [g \in OffGroups |-> NoOffset] /\ otried = [g \in OffGroups |-> {}]
    /\ oharm = {}

Failing == ofaults < MaxOffFaults /\ ofaults' = ofaults + 1
OffIdle == oup /\ ostep.at = "idle"
OffCalled == OffIdle /\ ocalls < MaxOffCalls /\ ocalls' = ocalls + 1
ocounters == <<oup, ocalls, ocrashes>>
ofiles == <<olog, osynced, oldfile, ofile>>

Live(m) == {g \in DOMAIN m : m[g] # NoOffset}

\* The records of a map, in the order of its keys.
SnapshotOf(m) ==
    LET order == CHOOSE f \in [1..Cardinality(Live(m)) -> Live(m)] :
                    \A i, j \in DOMAIN f : i < j => f[i] < f[j]
    IN  [i \in DOMAIN order |-> <<order[i], m[order[i]]>>]

\* Last record per group wins.
FoldedOver(m, recs) ==
    [g \in OffGroups |->
        LET hits == {i \in DOMAIN recs : recs[i][1] = g}
        IN  IF hits = {} THEN m[g] ELSE recs[CHOOSE i \in hits : \A j \in hits : j <= i][2]]

-----------------------------------------------------------------------------
(* commit and commit_many: write, fsync, insert, maybe compact.            *)

\* An append to an unlinked file reaches no log.
OffWrite(values) ==
    /\ OffCalled
    /\ olog' = IF ofile = "live" THEN olog \o values ELSE olog
    /\ ostep' = [Rest EXCEPT !.at = "sync", !.values = values]
    /\ otried' = [g \in OffGroups |-> otried[g] \cup {values[i][2] : i \in {j \in DOMAIN values : values[j][1] = g}}]
    /\ UNCHANGED <<osynced, oldfile, ofile, omap, orecords, oup, ocrashes, ofaults, oacked, oharm>>

\* The write stops part-way.
OffWriteFails(values) ==
    /\ OffCalled /\ Failing
    /\ ofile = "live"
    /\ \E n \in 0..(Len(values) - 1) : olog' = olog \o SubSeq(values, 1, n) \o <<TornOffset>>
    /\ otried' = [g \in OffGroups |-> otried[g] \cup {values[i][2] : i \in {j \in DOMAIN values : values[j][1] = g}}]
    /\ oharm' = oharm \cup {"torn"}
    /\ UNCHANGED <<osynced, oldfile, ofile, omap, orecords, ostep, oup, ocrashes, oacked>>

OffSyncFails ==
    /\ oup /\ ostep.at = "sync" /\ Failing
    /\ ostep' = Rest
    /\ UNCHANGED <<ofiles, omap, orecords, ocounters, oacked, otried, oharm>>

NeedsCompaction(n, m) ==
    LET live == IF Live(m) = {} THEN 1 ELSE Cardinality(Live(m))
    IN  n >= COMPACT_MIN_RECORDS /\ n > COMPACT_GROWTH_FACTOR * live

Acknowledge(values) ==
    /\ oacked' = FoldedOver(oacked, values)
    /\ otried' = [g \in OffGroups |-> IF \E i \in DOMAIN values : values[i][1] = g THEN {} ELSE otried[g]]

\* sync_all, the insert and the count; the answer waits for a compaction.
OffSync ==
    LET m == FoldedOver(omap, ostep.values)
        n == orecords + Len(ostep.values)
    IN  /\ oup /\ ostep.at = "sync"
        /\ osynced' = Len(olog)
        /\ omap' = m /\ orecords' = n
        /\ IF NeedsCompaction(n, m)
           THEN ostep' = [ostep EXCEPT !.at = "rename", !.map = m] /\ UNCHANGED <<oacked, otried>>
           ELSE ostep' = Rest /\ Acknowledge(ostep.values)
        /\ UNCHANGED <<olog, oldfile, ofile, ocounters, ofaults, oharm>>

\* restore_many: the snapshot's values replace those of its groups.
OffRestore(g, v) ==
    /\ OffCalled
    /\ ostep' = [at |-> "rename", values |-> <<<<g, v>>>>, map |-> [omap EXCEPT ![g] = v]]
    /\ otried' = [otried EXCEPT ![g] = @ \cup {v}]
    /\ UNCHANGED <<ofiles, omap, orecords, oup, ocrashes, ofaults, oacked, oharm>>

-----------------------------------------------------------------------------
(* rewrite_map: temporary file, rename, reopen, directory fsync.           *)

\* Bug: the rewrite takes the map in memory, not the one it is given.
RewrittenOwn(m) == SnapshotOf(omap)

Rewritten(m) == SnapshotOf(m)

\* The temporary file is whole and fsynced before this.
OffRename ==
    /\ oup /\ ostep.at = "rename"
    /\ oldfile' = {SubSeq(olog, 1, osynced)}
    /\ olog' = Rewritten(ostep.map) /\ osynced' = Len(olog')
    /\ ofile' = "dead"
    /\ ostep' = [ostep EXCEPT !.at = "reopen"]
    /\ UNCHANGED <<omap, orecords, ocounters, ofaults, oacked, otried, oharm>>

OffReopen ==
    /\ oup /\ ostep.at = "reopen"
    /\ ofile' = "live"
    /\ orecords' = Cardinality(Live(ostep.map))
    /\ ostep' = [ostep EXCEPT !.at = "dirsync"]
    /\ UNCHANGED <<olog, osynced, oldfile, omap, ocounters, ofaults, oacked, otried, oharm>>

OffDirSync ==
    /\ oup /\ ostep.at = "dirsync"
    /\ oldfile' = {}
    /\ omap' = ostep.map
    /\ Acknowledge(ostep.values)
    /\ ostep' = Rest
    /\ oharm' = oharm \ {"torn"}
    /\ UNCHANGED <<olog, osynced, ofile, orecords, ocounters, ofaults>>

\* The temporary file, the rename, the reopen or the directory fsync fails.
OffRewriteFails ==
    /\ oup /\ ostep.at \in {"rename", "reopen", "dirsync"} /\ Failing
    /\ ostep' = Rest
    /\ oharm' = oharm \cup (CASE ostep.at = "rename" -> {} [] ostep.at = "reopen" -> {"unlinked"}
                              [] ostep.at = "dirsync" -> {"unsynced directory"})
    /\ UNCHANGED <<ofiles, omap, orecords, ocounters, oacked, otried>>

-----------------------------------------------------------------------------
(* Crashes and open.                                                       *)

OffKill ==
    /\ oup /\ ocrashes < MaxOffCrashes
    /\ oup' = FALSE /\ ocrashes' = ocrashes + 1 /\ ostep' = Rest
    /\ UNCHANGED <<ofiles, omap, orecords, ocalls, ofaults, oacked, otried, oharm>>

OffPowerLoss ==
    /\ oup /\ ocrashes < MaxOffCrashes
    /\ oup' = FALSE /\ ocrashes' = ocrashes + 1 /\ ostep' = Rest
    /\ \/ \E n \in osynced..Len(olog), half \in BOOLEAN :
             olog' = SubSeq(olog, 1, n) \o (IF half /\ n < Len(olog) THEN <<TornOffset>> ELSE <<>>)
       \/ \E content \in oldfile : olog' = content
    /\ osynced' = Len(olog') /\ oldfile' = {}
    /\ UNCHANGED <<ofile, omap, orecords, ocalls, ofaults, oacked, otried, oharm>>

\* replay: whole records up to the first that does not check.
Replayed(recs) ==
    LET bad == {i \in DOMAIN recs : recs[i] = TornOffset}
    IN  IF bad = {} THEN recs ELSE SubSeq(recs, 1, (CHOOSE i \in bad : \A j \in bad : i <= j) - 1)

\* open: replay, cut the tail, sync the file and the directory.
OffOpen ==
    LET recs == Replayed(olog)
    IN  /\ ~ oup /\ oup' = TRUE
        /\ olog' = recs
        /\ osynced' = IF Len(recs) < Len(olog) THEN Len(recs) ELSE osynced
        /\ oldfile' = {} /\ ofile' = "live"
        /\ omap' = FoldedOver([g \in OffGroups |-> NoOffset], recs)
        /\ orecords' = Len(recs)
        /\ oharm' = oharm \cup (IF "torn" \in oharm THEN {"lost"} ELSE {})
        /\ UNCHANGED <<ostep, ocalls, ocrashes, ofaults, oacked, otried>>

OffSteps == OffSync \/ OffSyncFails \/ OffRename \/ OffReopen \/ OffDirSync \/ OffRewriteFails

\* One commit_many of every group.
Each(v) == SnapshotOf([g \in OffGroups |-> v])

OffsetsNext ==
    \/ \E g \in OffGroups, v \in 1..MaxOffset : OffWrite(<<<<g, v>>>>) \/ OffWriteFails(<<<<g, v>>>>)
    \/ \E g \in OffGroups, v \in {NoOffset} \cup 1..MaxOffset : OffRestore(g, v)
    \/ \E v \in 1..MaxOffset : OffWrite(Each(v)) \/ OffWriteFails(Each(v))
    \/ OffSteps \/ OffKill \/ OffPowerLoss \/ OffOpen

-----------------------------------------------------------------------------
(* Properties.                                                             *)

\* A committed offset survives: between calls, and after any crash and
\* recovery, the store answers with the last acknowledged commit of the group or
\* with one attempted after it - as long as no fault left the log torn, the
\* handle on an unlinked file or a rename unsynced.
OffsetsSurvive ==
    OffIdle /\ oharm = {} =>
       \A g \in OffGroups : omap[g] \in {oacked[g]} \cup otried[g]

\* The log stays in proportion to its groups (maybe_compact runs after every
\* commit; a reopened log keeps one unfinished write more until the next), and
\* the count it goes by is the number of records on disk.
OffsetsCompact ==
    OffIdle /\ ofaults = 0 =>
       /\ Len(olog) < COMPACT_MIN_RECORDS + Cardinality(OffGroups) * (1 + ocrashes)
       /\ ofile = "live" /\ orecords = Len(olog)

\* The offsets file keeps what was committed, in a log that stays short.
OffsetsInv == OffsetsSurvive /\ OffsetsCompact
=============================================================================
