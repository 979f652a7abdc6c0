-------------------------------- MODULE Wal ---------------------------------
(***************************************************************************)
(* The write-ahead-log substrate (datarail-substrate-wal, DurableLog): a   *)
(* group-commit buffer, segment files, a read cursor, acknowledgements     *)
(* with a durable floor, and garbage collection of segments.  One action   *)
(* per file operation that a crash can separate from the next.             *)
(*                                                                         *)
(* Offsets count frames.  A segment is the frames written to its file, how *)
(* many of them are on stable storage, and the first frame whose pages a   *)
(* failed fsync may have dropped.                                          *)
(***************************************************************************)
EXTENDS Integers, Sequences

CONSTANTS
    MaxCofres,      \* cofres sent; they are numbered in the order of sending
    FlushFrames,    \* WalConfig.flush_bytes, in frames
    SegmentFrames,  \* WalConfig.segment_bytes, in frames
    MaxSegments,    \* segments considered
    MaxWalCrashes, MaxWalFaults

VARIABLES
    files,          \* the segment files by id: [exists, frames, synced, hole]
    cursor,         \* the cursor file's acknowledgement floor <<segment, offset>>
    wal,            \* the DurableLog in memory
    walPc,          \* the operation under way
    walSent,        \* cofres handed to send
    ackAsked,       \* cofres ack was called for
    walHanded,      \* cofres recv returned
    walCrashes, walFaults,
    dangling        \* whether a log was ever opened with its floor past its end

walVars == <<files, cursor, wal, walPc, walSent, ackAsked, walHanded,
             walCrashes, walFaults, dangling>>

NoFile == [exists |-> FALSE, frames |-> <<>>, synced |-> 0, hole |-> 0]
NewFile == [NoFile EXCEPT !.exists = TRUE]

Opened(id, off, active, end) ==
    [buf |-> <<>>, active_id |-> active, write_off |-> end, read_id |-> id, read_off |-> off,
     inflight |-> {}, poisoned |-> FALSE, dropping |-> FALSE]

WalInit ==
    /\ files = [s \in 1..MaxSegments |-> IF s = 1 THEN NewFile ELSE NoFile]
    /\ cursor = <<1, 0>>
    /\ wal = Opened(1, 0, 1, 0)
    /\ walPc = "idle"
    /\ walSent = 0
    /\ ackAsked = {} /\ walHanded = {}
    /\ walCrashes = 0 /\ walFaults = 0
    /\ dangling = FALSE

Fault == walFaults < MaxWalFaults /\ walFaults' = walFaults + 1
Free == walPc = "idle" /\ ~ wal.dropping

-----------------------------------------------------------------------------
(* The write side.                                                         *)

\* append: the buffer reaches its limit, or enough time has passed.
WalSend ==
    /\ Free /\ ~ wal.poisoned
    /\ walSent < MaxCofres
    /\ walSent' = walSent + 1
    /\ wal' = [wal EXCEPT !.buf = Append(@, walSent + 1)]
    /\ walPc' \in IF Len(wal.buf) + 1 >= FlushFrames THEN {"write"} ELSE {"idle", "write"}
    /\ UNCHANGED <<files, cursor, ackAsked, walHanded, walCrashes, walFaults, dangling>>

\* flush, called by the owner.
WalFlush ==
    /\ Free /\ ~ wal.poisoned /\ wal.buf # <<>>
    /\ walPc' = "write"
    /\ UNCHANGED <<files, cursor, wal, walSent, ackAsked, walHanded, walCrashes, walFaults,
                   dangling>>

FlushWrite ==
    /\ walPc = "write"
    /\ files' = [files EXCEPT ![wal.active_id].frames = @ \o wal.buf]
    /\ walPc' = "sync"
    /\ UNCHANGED <<cursor, wal, walSent, ackAsked, walHanded, walCrashes, walFaults, dangling>>

Poisoned(w) == [w EXCEPT !.poisoned = TRUE, !.buf = <<>>]

\* write_all fails after some whole frames.
FlushWriteFails ==
    /\ walPc = "write" /\ Fault
    /\ \E n \in 0..(Len(wal.buf) - 1) :
          files' = [files EXCEPT ![wal.active_id].frames = @ \o SubSeq(wal.buf, 1, n)]
    /\ wal' = Poisoned(wal)
    /\ walPc' = "idle"
    /\ UNCHANGED <<cursor, walSent, ackAsked, walHanded, walCrashes, dangling>>

FlushSync ==
    /\ walPc = "sync"
    /\ files' = [files EXCEPT ![wal.active_id].synced = Len(files[wal.active_id].frames)]
    /\ LET end == wal.write_off + Len(wal.buf)
       IN  /\ wal' = [wal EXCEPT !.write_off = end, !.buf = <<>>]
           /\ walPc' = IF end >= SegmentFrames THEN "rotate" ELSE "idle"
    /\ UNCHANGED <<cursor, walSent, ackAsked, walHanded, walCrashes, walFaults, dangling>>

\* The kernel keeps the pages dirty, or drops them.
FlushSyncFails ==
    /\ walPc = "sync" /\ Fault
    /\ \/ UNCHANGED files
       \/ files' = [files EXCEPT ![wal.active_id].hole =
                        IF @ = 0 THEN files[wal.active_id].synced + 1 ELSE @]
    /\ wal' = Poisoned(wal)
    /\ walPc' = "idle"
    /\ UNCHANGED <<cursor, walSent, ackAsked, walHanded, walCrashes, dangling>>

Rotate ==
    /\ walPc = "rotate"
    /\ wal.active_id < MaxSegments
    /\ files' = [files EXCEPT ![wal.active_id + 1] = NewFile]
    /\ wal' = [wal EXCEPT !.active_id = @ + 1, !.write_off = 0]
    /\ walPc' = "idle"
    /\ UNCHANGED <<cursor, walSent, ackAsked, walHanded, walCrashes, walFaults, dangling>>

\* active_id has moved on, the file may be there, write_off stays.
RotateFails ==
    /\ walPc = "rotate" /\ Fault
    /\ wal.active_id < MaxSegments
    /\ files' \in {files, [files EXCEPT ![wal.active_id + 1] = NewFile]}
    /\ wal' = [wal EXCEPT !.active_id = @ + 1, !.poisoned = TRUE]
    /\ walPc' = "idle"
    /\ UNCHANGED <<cursor, walSent, ackAsked, walHanded, walCrashes, dangling>>

-----------------------------------------------------------------------------
(* The read side.                                                          *)

Readable(s, off) == files[s].exists /\ off < Len(files[s].frames)

\* A segment with nothing left, or without a file, is passed over as long as
\* a later one is active.
Passable(s, off) == ~ Readable(s, off)

\* Where recv's loop ends: the first position with a frame, or the active
\* segment.
ReadPosition ==
    LET from == wal.read_id
        off(s) == IF s = from THEN wal.read_off ELSE 0
        stop == CHOOSE s \in from..wal.active_id :
                    /\ \A r \in from..(s - 1) : Passable(r, off(r))
                    /\ s = wal.active_id \/ ~ Passable(s, off(s))
    IN  <<stop, off(stop)>>

\* The reader is at the end of the active segment with cofres in the buffer:
\* they are flushed before anything is returned.
MustFlush(at) == at[1] = wal.active_id /\ at[2] >= wal.write_off /\ wal.buf # <<>>

RecvFlush ==
    /\ Free /\ wal.read_id <= wal.active_id
    /\ MustFlush(ReadPosition)
    /\ wal' = [wal EXCEPT !.read_id = ReadPosition[1], !.read_off = ReadPosition[2]]
    /\ walPc' = "write"
    /\ UNCHANGED <<files, cursor, walSent, ackAsked, walHanded, walCrashes, walFaults, dangling>>

Recv ==
    /\ Free /\ wal.read_id <= wal.active_id
    /\ LET at == ReadPosition
           s == at[1]
           c == files[s].frames[at[2] + 1]
       IN  /\ ~ MustFlush(at)
           /\ Readable(s, at[2])
           /\ wal' = [wal EXCEPT !.read_id = s, !.read_off = at[2] + 1,
                                 !.inflight = @ \cup {<<c, s>>}]
           /\ walHanded' = walHanded \cup {c}
    /\ UNCHANGED <<files, cursor, walPc, walSent, ackAsked, walCrashes, walFaults, dangling>>

\* recv returns None, with the cursor rolled forward.
RecvNone ==
    /\ Free /\ wal.read_id < wal.active_id
    /\ ~ Readable(ReadPosition[1], ReadPosition[2])
    /\ ~ MustFlush(ReadPosition)
    /\ wal' = [wal EXCEPT !.read_id = ReadPosition[1], !.read_off = ReadPosition[2]]
    /\ UNCHANGED <<files, cursor, walPc, walSent, ackAsked, walHanded, walCrashes, walFaults,
                   dangling>>

-----------------------------------------------------------------------------
(* Acknowledgement: checkpoint, then collect.                              *)

\* Bug: the read cursor is the floor whatever is still in flight.
ack_floor_read(w) == <<w.read_id, w.read_off>>

ack_floor(w) ==
    LET busy == {i[2] : i \in w.inflight}
    IN  IF busy = {} THEN <<w.read_id, w.read_off>>
        ELSE <<CHOOSE s \in busy : \A r \in busy : s <= r, 0>>

Acked(w, c) == [w EXCEPT !.inflight = {i \in @ : i[1] # c}]

\* ack of a cofre that was received, in this life of the log or an earlier one.
Ack(c) ==
    /\ Free
    /\ c \in walHanded
    /\ ackAsked' = ackAsked \cup {c}
    /\ wal' = Acked(wal, c)
    /\ cursor' = ack_floor(wal')
    /\ walPc' = "gc"
    /\ UNCHANGED <<files, walSent, walHanded, walCrashes, walFaults, dangling>>

\* checkpoint fails before or after its rename; the bookkeeping is restored.
AckFails(c) ==
    /\ Free /\ Fault
    /\ c \in walHanded
    /\ ackAsked' = ackAsked \cup {c}
    /\ cursor' \in {cursor, ack_floor(Acked(wal, c))}
    /\ UNCHANGED <<files, wal, walPc, walSent, walHanded, walCrashes, dangling>>

Collectable ==
    {s \in 1..MaxSegments : files[s].exists /\ s < ack_floor(wal)[1] /\ s < wal.read_id}

Collect ==
    /\ walPc = "gc"
    /\ IF Collectable = {}
       THEN walPc' = "idle" /\ UNCHANGED files
       ELSE /\ files' = [files EXCEPT ![CHOOSE s \in Collectable : \A r \in Collectable : s <= r] = NoFile]
            /\ UNCHANGED walPc
    /\ UNCHANGED <<cursor, wal, walSent, ackAsked, walHanded, walCrashes, walFaults, dangling>>

-----------------------------------------------------------------------------
(* Drop, crashes, and open.                                                *)

\* drop flushes, whatever comes of it, and checkpoints.
Drop ==
    /\ Free /\ ~ wal.poisoned
    /\ walCrashes < MaxWalCrashes
    /\ walCrashes' = walCrashes + 1
    /\ wal' = [wal EXCEPT !.dropping = TRUE]
    /\ walPc' = IF wal.buf = <<>> THEN "idle" ELSE "write"
    /\ UNCHANGED <<files, cursor, walSent, ackAsked, walHanded, walFaults, dangling>>

Dropped ==
    /\ walPc = "idle" /\ wal.dropping
    /\ cursor' = ack_floor(wal)
    /\ walPc' = "down"
    /\ UNCHANGED <<files, wal, walSent, ackAsked, walHanded, walCrashes, walFaults, dangling>>

\* The process dies; the page cache survives it.
WalKill ==
    /\ walPc # "down"
    /\ walCrashes < MaxWalCrashes
    /\ walCrashes' = walCrashes + 1
    /\ walPc' = "down"
    /\ UNCHANGED <<files, cursor, wal, walSent, ackAsked, walHanded, walFaults, dangling>>

Durable(f) == IF f.hole = 0 \/ f.hole > f.synced THEN f.synced ELSE f.hole - 1

\* Power is lost: beyond what was synced, any prefix of a file may survive.
PowerLoss ==
    /\ walPc # "down"
    /\ walCrashes < MaxWalCrashes
    /\ walCrashes' = walCrashes + 1
    /\ walPc' = "down"
    /\ \E keep \in [1..MaxSegments -> 0..MaxCofres] :
          /\ \A s \in 1..MaxSegments :
                IF files[s].hole = 0 THEN keep[s] \in Durable(files[s])..Len(files[s].frames)
                                     ELSE keep[s] = Durable(files[s])
          /\ files' = [s \in 1..MaxSegments |->
                          [files[s] EXCEPT !.frames = SubSeq(@, 1, keep[s]),
                                           !.synced = keep[s], !.hole = 0]]
    /\ UNCHANGED <<cursor, wal, walSent, ackAsked, walHanded, walFaults, dangling>>

resume == cursor

highest_segment ==
    LET there == {s \in 1..MaxSegments : files[s].exists}
    IN  IF there = {} THEN 1 ELSE CHOOSE s \in there : \A r \in there : s >= r

PastEnd(p) ==
    p[1] > highest_segment
    \/ (p[1] = highest_segment /\ p[2] > Len(files[highest_segment].frames))

\* open_with: resume at the floor, append to the highest segment.  The frames
\* found in it are not synced.
WalOpen ==
    /\ walPc = "down"
    /\ files' = [files EXCEPT ![highest_segment].exists = TRUE]
    /\ wal' = Opened(resume[1], resume[2], highest_segment, Len(files[highest_segment].frames))
    /\ walPc' = "idle"
    /\ dangling' = (dangling \/ PastEnd(cursor))
    /\ UNCHANGED <<cursor, walSent, ackAsked, walHanded, walCrashes, walFaults>>

WalWork == FlushWrite \/ FlushSync \/ Rotate \/ Collect \/ Dropped \/ WalOpen
WalRead == RecvFlush \/ Recv \/ RecvNone

WalNext ==
    \/ WalSend \/ WalFlush \/ WalRead
    \/ \E c \in 1..MaxCofres : Ack(c) \/ AckFails(c)
    \/ FlushWriteFails \/ FlushSyncFails \/ RotateFails
    \/ Drop \/ WalKill \/ PowerLoss
    \/ WalWork

WalSpec == WalInit /\ [][WalNext]_walVars /\ WF_walVars(WalWork) /\ SF_walVars(WalRead)

-----------------------------------------------------------------------------
(* Properties.                                                             *)

\* The places <<segment, offset>> at which a cofre is on stable storage.
Places(c) ==
    UNION {{<<s, i - 1>> : i \in {j \in 1..Durable(files[s]) : files[s].frames[j] = c}} :
              s \in {r \in 1..MaxSegments : files[r].exists}}

Before(p, q) == p[1] < q[1] \/ (p[1] = q[1] /\ p[2] < q[2])

Stored == {c \in 1..MaxCofres : Places(c) # {} /\ c \notin ackAsked}

\* lib.rs: "Every fsync'd cofre survives".  A cofre on stable storage whose
\* acknowledgement was never asked for will still be read: by the open log, or
\* by the next one, which starts at the floor.
WalSurvives ==
    \A c \in Stored :
       \E p \in Places(c) :
          /\ ~ Before(p, cursor)
          /\ walPc = "down" \/ ~ Before(p, <<wal.read_id, wal.read_off>>)
             \/ \E i \in wal.inflight : i[1] = c

\* The same, for a log never opened with its floor past its end: that is the
\* only way in which a crash, a failed write, fsync, rotation or checkpoint
\* can make the log pass over a cofre.
WalKeepsUnacked == dangling \/ WalSurvives

Promise == INSTANCE Holding WITH
    Cofres <- 1..MaxCofres, held <- Stored, handed <- walHanded, failed <- dangling

\* The log is a durable substrate: what is on stable storage is held until its
\* acknowledgement is asked for after it was received.
WalIsHolding == Promise!HoldSpec

\* A cofre on stable storage reaches a receiver that keeps calling recv,
\* whatever crashes, failed flushes and acknowledgements come in between.
WalDelivers == []<>(Stored \subseteq walHanded \/ dangling)
=============================================================================
