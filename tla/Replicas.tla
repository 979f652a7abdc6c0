------------------------------- MODULE Replicas -------------------------------
(***************************************************************************)
(* Erasure-coded records: ReplicatedTopic over ErasureStore over a blob    *)
(* store that NetBlob reaches by one TCP round trip per blob.              *)
(*                                                                         *)
(* A record is its number.  With k data and m parity shards, blob i of     *)
(* record id is shard i for i < k + m and the length header for i = k + m; *)
(* NoBlob is an absent blob.  The code itself is Erasure's subject: any k  *)
(* shards of one record give it back, a mixture of two records gives bytes *)
(* that are neither.                                                       *)
(***************************************************************************)
EXTENDS Integers, Sequences, FiniteSets, FiniteSetsExt

CONSTANTS
    DataShards, ParityShards, \* data and parity shards
    MaxRecs, MaxOverwrites, MaxBlobFaults, MaxLosses, MaxRCrashes

VARIABLES
    plog, psynced,      \* the topic's records, and how many are fsynced
    blobs,              \* per offset and index: the record whose blob it is
    putting,            \* the produce or put in progress, or NoPut
    getting,            \* the reconstruct in progress, or NoGet
    rnext, roverwrites, rfaults, rlosses, rcrashes,
    rstored,            \* history: per offset the record acknowledged, or NoBlob
    rrewritten,         \* history: offsets overwritten through ErasureStore::put
    lost,               \* history: <<offset, index>> lost after they were stored
    results             \* history: what reconstruct returned, with the records it could have been

topicLog == <<plog, psynced>>
rCounts == <<rnext, roverwrites, rfaults, rlosses, rcrashes>>
rHistory == <<rstored, rrewritten, lost, results>>
replicaVars == <<topicLog, blobs, putting, getting, rCounts, rHistory>>

NoBlob == 0
Mixed == -1
NoPut == [step |-> "none", id |-> 0, record |-> 0, i |-> 0]
NoGet == [id |-> 0, i |-> 0, got |-> <<>>]
LenKey == DataShards + ParityShards
Offsets == 1..MaxRecs

ReplicaInit ==
    /\ plog = <<>> /\ psynced = 0
    /\ blobs = [o \in Offsets |-> [i \in 0..LenKey |-> NoBlob]]
    /\ putting = NoPut /\ getting = NoGet
    /\ rnext = 1 /\ roverwrites = 0 /\ rfaults = 0 /\ rlosses = 0 /\ rcrashes = 0
    /\ rstored = [o \in Offsets |-> NoBlob] /\ rrewritten = {} /\ lost = {} /\ results = {}

-----------------------------------------------------------------------------
(* ReplicatedTopic::produce: append, fsync, then one blob after the other. *)

\* Bug: the shards are placed before the log is synced.
FirstStepShards == "blobs"

FirstStep == "sync"

RAppend ==
    /\ putting = NoPut /\ rnext <= MaxRecs /\ Len(plog) < MaxRecs
    /\ plog' = Append(plog, rnext)
    /\ rnext' = rnext + 1
    /\ putting' = [step |-> FirstStep, id |-> Len(plog'), record |-> rnext, i |-> 0]
    /\ UNCHANGED <<psynced, blobs, getting, roverwrites, rfaults, rlosses, rcrashes, rHistory>>

RSync ==
    /\ putting.step = "sync"
    /\ \/ /\ psynced' = Len(plog)
          /\ putting' = [putting EXCEPT !.step = "blobs"]
          /\ UNCHANGED rfaults
       \/ /\ rfaults < MaxBlobFaults /\ rfaults' = rfaults + 1
          /\ putting' = NoPut
          /\ UNCHANGED psynced
    /\ UNCHANGED <<plog, blobs, getting, rnext, roverwrites, rlosses, rcrashes, rHistory>>

\* ErasureStore::put over an id that already holds a record.
ROverwrite ==
    /\ putting = NoPut /\ roverwrites < MaxOverwrites /\ rnext <= MaxRecs
    /\ roverwrites' = roverwrites + 1
    /\ rnext' = rnext + 1
    /\ \E o \in {o \in Offsets : rstored[o] # NoBlob} :
         /\ putting' = [step |-> "blobs", id |-> o, record |-> rnext, i |-> 0]
         /\ rrewritten' = rrewritten \cup {o}
    /\ UNCHANGED <<topicLog, blobs, getting, rfaults, rlosses, rcrashes, rstored, lost, results>>

Placed(p) == [blobs EXCEPT ![p.id][p.i] = p.record]
Replaced(p) == lost \ {<<p.id, p.i>>}

\* NetBlob::put: the round trip of one blob, data shards first, the length
\* header last.  A failed one may have been applied all the same.
RPutBlob ==
    /\ putting.step = "blobs" /\ putting.i <= LenKey
    /\ \/ /\ blobs' = Placed(putting) /\ lost' = Replaced(putting)
          /\ putting' = [putting EXCEPT !.i = @ + 1]
          /\ UNCHANGED rfaults
       \/ /\ rfaults < MaxBlobFaults /\ rfaults' = rfaults + 1
          /\ \/ blobs' = Placed(putting) /\ lost' = Replaced(putting)
             \/ UNCHANGED <<blobs, lost>>
          /\ putting' = NoPut
    /\ UNCHANGED <<topicLog, getting, rnext, roverwrites, rlosses, rcrashes, rstored, rrewritten, results>>

RProduced ==
    /\ putting.step = "blobs" /\ putting.i > LenKey
    /\ rstored' = [rstored EXCEPT ![putting.id] = putting.record]
    /\ putting' = NoPut
    /\ UNCHANGED <<topicLog, blobs, getting, rCounts, rrewritten, lost, results>>

-----------------------------------------------------------------------------
(* ReplicatedTopic::reconstruct: the length header, then shard by shard.   *)

\* Rs::reconstruct of the first k survivors.
Reconstructed(got) ==
    IF Len(got) < DataShards THEN NoBlob
    ELSE IF \A i \in 1..DataShards : got[i] = got[1] THEN got[1] ELSE Mixed

RGetBegin ==
    /\ getting = NoGet
    /\ \E o \in Offsets :
         /\ blobs[o][LenKey] # NoBlob
         /\ getting' = [id |-> o, i |-> 0, got |-> <<>>]
    /\ UNCHANGED <<topicLog, blobs, putting, rCounts, rHistory>>

RGetShard ==
    /\ getting # NoGet /\ getting.i < LenKey
    /\ LET b == blobs[getting.id][getting.i]
       IN  getting' = [getting EXCEPT !.i = @ + 1, !.got = IF b = NoBlob THEN @ ELSE Append(@, b)]
    /\ UNCHANGED <<topicLog, blobs, putting, rCounts, rHistory>>

RGetDone ==
    /\ getting # NoGet /\ getting.i = LenKey
    /\ results' = results \cup {<<getting.id, Reconstructed(getting.got)>>}
    /\ getting' = NoGet
    /\ UNCHANGED <<topicLog, blobs, putting, rCounts, rstored, rrewritten, lost>>

-----------------------------------------------------------------------------
(* Losses and crashes.                                                     *)

\* A stored shard is lost with the disk it was on.
LoseShard ==
    /\ rlosses < MaxLosses /\ rlosses' = rlosses + 1
    /\ \E o \in Offsets, i \in 0..LenKey - 1 :
         /\ blobs[o][i] # NoBlob
         /\ blobs' = [blobs EXCEPT ![o][i] = NoBlob]
         /\ lost' = lost \cup {<<o, i>>}
    /\ UNCHANGED <<topicLog, putting, getting, rnext, roverwrites, rfaults, rcrashes, rstored, rrewritten, results>>

\* The producer's host: a kill keeps the log's bytes, a power loss some of
\* the unsynced ones.  Opening drops a torn tail; a record number is then
\* free again, its offset too.
RCrash ==
    /\ rcrashes < MaxRCrashes /\ rcrashes' = rcrashes + 1
    /\ \E n \in psynced..Len(plog) : plog' = SubSeq(plog, 1, n)
    /\ putting' = NoPut
    /\ UNCHANGED <<psynced, blobs, getting, rnext, roverwrites, rfaults, rlosses, rHistory>>

ReplicaNext ==
    \/ RAppend \/ RSync \/ ROverwrite \/ RPutBlob \/ RProduced
    \/ RGetBegin \/ RGetShard \/ RGetDone
    \/ LoseShard \/ RCrash

-----------------------------------------------------------------------------
(* Properties.                                                             *)

\* The shards of an acknowledged record are on the store, all but the ones
\* lost since: with at most m of them lost, k remain and reconstruct finds
\* the record (ErasureStore::put and get, ReplicatedTopic::produce).
ReplicaRecovers ==
    \A o \in Offsets :
        rstored[o] # NoBlob /\ o \notin rrewritten /\ Cardinality({i \in 0..LenKey - 1 : <<o, i>> \in lost}) <= ParityShards
        => /\ blobs[o][LenKey] # NoBlob
           /\ Cardinality({i \in 0..LenKey - 1 : blobs[o][i] = rstored[o]}) >= DataShards

\* What reconstruct returns for an offset is a record that was produced at
\* that offset, whatever failed, crashed or was lost: the blobs of two
\* records never meet under one offset, because a record gets its shards
\* only once the log that gave it the offset is on disk
\* (ReplicatedTopic::produce).
ReplicaNeverWrong ==
    \A r \in results : r[1] \notin rrewritten => r[2] # Mixed /\ (r[2] # NoBlob => r[1] <= Len(plog) /\ r[2] = plog[r[1]])

\* An erasure-coded record is found while enough shards are left, and what is
\* found is never another record or a mixture of two.
ReplicaInv == ReplicaRecovers /\ ReplicaNeverWrong
===============================================================================
