---------------------------- MODULE NativeBroker ----------------------------
(***************************************************************************)
(* datarail-broker over datarail-topic: Server::handle behind its mutex,   *)
(* one thread per connection, the clients' round trips, the group cursors  *)
(* in memory, the topic log and the committed offsets on disk.             *)
(*                                                                         *)
(* A record is the number of its produce request; an offset counts         *)
(* records.  The segments of the log are PartitionLog's subject and the    *)
(* file of the offset store FileOffsets': here a commit is durable when it *)
(* is answered.                                                            *)
(***************************************************************************)
EXTENDS Integers, Sequences, FiniteSets

CONSTANTS
    NClients, NGroups,
    MaxProduced, MaxNCrashes, MaxNFaults, MaxHangUps

VARIABLES
    nlog, nsynced,      \* the topic's records, and how many are fsynced
    ncommitted,         \* Server.offsets, per group (0: none)
    ngroups,            \* Server.groups: cursor and reader, or NoGroup
    nup, nlock,         \* the client whose produce holds the mutex, or NoClient
    calls, orphans,     \* per client: its round trip; a request whose connection is gone
    nproduced, nposition,       \* next record; per group the last position answered
    ncrashes, nfaults, nhangups,
    nacked, ndelivered, \* history: <<offset, record>> answered; <<group, record>> received
    nlostAnswer,        \* groups for which a polled record's answer was lost
    nshort              \* groups that were handed a record the log has since lost

nDisk == <<nlog, nsynced, ncommitted>>
nMemory == <<ngroups, nup, nlock>>
nWire == <<calls, orphans, nproduced, nposition>>
nHistory == <<nacked, ndelivered, nlostAnswer, nshort>>
nCounters == <<ncrashes, nfaults, nhangups>>
nativeVars == <<nDisk, nMemory, nWire, nHistory, nCounters>>

NoClient == 0
NoGroup == [cursor |-> -1, end |-> -1]
NoCall == [op |-> "none", group |-> 0, value |-> 0, answer |-> "none", record |-> 0]
Asked(op, g, v) == [NoCall EXCEPT !.op = op, !.group = g, !.value = v]

NativeInit ==
    /\ nlog = <<>> /\ nsynced = 0 /\ ncommitted = [g \in NGroups |-> 0]
    /\ ngroups = [g \in NGroups |-> NoGroup] /\ nup = TRUE /\ nlock = NoClient
    /\ calls = [c \in NClients |-> NoCall] /\ orphans = [c \in NClients |-> NoCall]
    /\ nproduced = 0 /\ nposition = [g \in NGroups |-> 0]
    /\ ncrashes = 0 /\ nfaults = 0 /\ nhangups = 0
    /\ nacked = {} /\ ndelivered = {} /\ nlostAnswer = {} /\ nshort = {}

-----------------------------------------------------------------------------
(* The clients: one request and one response at a time.                    *)

NativeAsk(c) ==
    /\ nup /\ calls[c] = NoCall
    /\ \/ /\ nproduced < MaxProduced
          /\ nproduced' = nproduced + 1
          /\ calls' = [calls EXCEPT ![c] = Asked("produce", 0, nproduced')]
       \/ /\ \E g \in NGroups :
                \/ calls' = [calls EXCEPT ![c] = Asked("poll", g, 0)]
                \/ nposition[g] > 0 /\ calls' = [calls EXCEPT ![c] = Asked("commit", g, nposition[g])]
          /\ UNCHANGED nproduced
    /\ UNCHANGED <<nDisk, nMemory, orphans, nposition, nHistory, nCounters>>

\* The client reads its response.
NativeReceive(c) ==
    LET k == calls[c]
    IN  /\ k.answer # "none"
        /\ calls' = [calls EXCEPT ![c] = NoCall]
        /\ nacked' = nacked \cup (IF k.answer = "produced" THEN {<<k.value, k.record>>} ELSE {})
        /\ ndelivered' = ndelivered \cup (IF k.answer = "record" THEN {<<k.group, k.record>>} ELSE {})
        /\ nposition' = IF k.answer = "record" THEN [nposition EXCEPT ![k.group] = k.value] ELSE nposition
        /\ UNCHANGED <<nDisk, nMemory, orphans, nproduced, nlostAnswer, nshort, nCounters>>

Lost(k) == IF k.answer = "record" THEN {k.group} ELSE {}

\* The connection drops: a request the server has read is still handled, an
\* answer is lost.
NativeHangUp(c) ==
    /\ calls[c] # NoCall /\ nlock # c /\ nhangups < MaxHangUps
    /\ nhangups' = nhangups + 1
    /\ nlostAnswer' = nlostAnswer \cup Lost(calls[c])
    /\ \/ calls[c].answer = "none" /\ orphans[c] = NoCall /\ orphans' = [orphans EXCEPT ![c] = calls[c]]
       \/ UNCHANGED orphans
    /\ calls' = [calls EXCEPT ![c] = NoCall]
    /\ UNCHANGED <<nDisk, nMemory, nproduced, nposition, nacked, ndelivered, nshort, ncrashes, nfaults>>

-----------------------------------------------------------------------------
(* Server::handle.  Respond is serve_conn writing the reply frame.         *)

Handling(c, k) ==
    /\ nup /\ nlock = NoClient
    /\ \/ calls[c].answer = "none" /\ k = calls[c]
       \/ k = orphans[c]

Respond(c, k, answer, value, record) ==
    IF k = orphans[c] /\ k # calls[c]
    THEN /\ orphans' = [orphans EXCEPT ![c] = NoCall]
         /\ nlostAnswer' = nlostAnswer \cup Lost([k EXCEPT !.answer = answer])
         /\ UNCHANGED calls
    ELSE /\ calls' = [calls EXCEPT ![c] = [k EXCEPT !.answer = answer, !.value = value, !.record = record]]
         /\ UNCHANGED <<orphans, nlostAnswer>>

\* Produce: topic.produce under the lock ...
ProduceAppend(c, k) ==
    /\ Handling(c, k) /\ k.op = "produce"
    /\ nlog' = Append(nlog, k.value)
    /\ nlock' = c
    /\ calls' = [calls EXCEPT ![c] = IF k = @ THEN k ELSE @]
    /\ UNCHANGED <<nsynced, ncommitted, ngroups, nup, orphans, nproduced, nposition, nHistory, nCounters>>

Producing(c) == IF calls[c].op = "produce" /\ nlog[Len(nlog)] = calls[c].value THEN calls[c] ELSE orphans[c]

SyncedTo == Len(nlog)

\* ... and topic.sync before the answer.
ProduceSync(c) ==
    /\ nup /\ nlock = c
    /\ nlock' = NoClient
    /\ nsynced' = SyncedTo
    /\ Respond(c, Producing(c), "produced", Len(nlog) - 1, nlog[Len(nlog)])
    /\ UNCHANGED <<nlog, ncommitted, ngroups, nup, nproduced, nposition, nacked, ndelivered, nshort, nCounters>>

\* The fsync fails: an error is answered, and the record stays.
ProduceSyncFails(c) ==
    /\ nup /\ nlock = c /\ nfaults < MaxNFaults
    /\ nfaults' = nfaults + 1
    /\ nlock' = NoClient
    /\ Respond(c, Producing(c), "error", 0, 0)
    /\ UNCHANGED <<nDisk, ngroups, nup, nproduced, nposition, nacked, ndelivered, nshort, ncrashes, nhangups>>

\* Bug: a group met for the first time starts at the tail.
ResumePointTail(g) == [cursor |-> Len(nlog), end |-> -1]

\* Group::new and seek to the committed offset on first use.
ResumePoint(g) == [cursor |-> ncommitted[g], end |-> -1]

\* Poll: dispatch_next through the group's reader, a snapshot up to end.
Poll(c, k) ==
    LET g == k.group
        known == IF ngroups[g] = NoGroup THEN ResumePoint(g) ELSE ngroups[g]
        bad == known.end = -1 /\ known.cursor > Len(nlog)
        r == IF known.end = -1 THEN [known EXCEPT !.end = Len(nlog)] ELSE known
    IN  /\ Handling(c, k) /\ k.op = "poll"
        /\ CASE bad -> /\ ngroups' = [ngroups EXCEPT ![g] = known]
                       /\ Respond(c, k, "error", 0, 0)
             [] ~ bad /\ r.cursor >= r.end ->
                       /\ ngroups' = [ngroups EXCEPT ![g] = [r EXCEPT !.end = -1]]
                       /\ Respond(c, k, "nothing", 0, 0)
             [] ~ bad /\ r.cursor < r.end ->
                       /\ ngroups' = [ngroups EXCEPT ![g] = [r EXCEPT !.cursor = @ + 1]]
                       /\ Respond(c, k, "record", r.cursor + 1, nlog[r.cursor + 1])
        /\ UNCHANGED <<nDisk, nup, nlock, nproduced, nposition, nacked, ndelivered, nshort, nCounters>>

\* Commit: refused past the tail, else durable.
Commit(c, k) ==
    /\ Handling(c, k) /\ k.op = "commit"
    /\ IF k.value > Len(nlog)
       THEN Respond(c, k, "error", 0, 0) /\ UNCHANGED ncommitted
       ELSE /\ ncommitted' = [ncommitted EXCEPT ![k.group] = k.value]
            /\ Respond(c, k, "committed", 0, 0)
    /\ UNCHANGED <<nlog, nsynced, nMemory, nproduced, nposition, nacked, ndelivered, nshort, nCounters>>

-----------------------------------------------------------------------------
(* The process dies; every connection with it.                             *)

NativeDies(length) ==
    /\ nup /\ ncrashes < MaxNCrashes
    /\ ncrashes' = ncrashes + 1
    /\ nup' = FALSE /\ nlock' = NoClient
    /\ nlog' = SubSeq(nlog, 1, length)
    /\ nshort' = nshort \cup {g \in NGroups : ncommitted[g] > length \/ nposition[g] > length}
    /\ nlostAnswer' = nlostAnswer \cup UNION {Lost(calls[c]) : c \in NClients}
    /\ calls' = [c \in NClients |-> NoCall] /\ orphans' = [c \in NClients |-> NoCall]
    /\ ngroups' = [g \in NGroups |-> NoGroup]
    /\ UNCHANGED <<ncommitted, nproduced, nposition, nacked, ndelivered, nfaults, nhangups>>

NativeKill == NativeDies(Len(nlog)) /\ UNCHANGED nsynced

NativePowerLoss == \E n \in nsynced..Len(nlog) : NativeDies(n) /\ nsynced' = n

\* ReplayLog::open keeps the whole frames it finds, and fsyncs none of them.
NativeOpen ==
    /\ ~ nup /\ nup' = TRUE
    /\ UNCHANGED <<nDisk, ngroups, nlock, nWire, nHistory, nCounters>>

NativeHandles(c) ==
    \/ \E k \in {calls[c], orphans[c]} : ProduceAppend(c, k) \/ Poll(c, k) \/ Commit(c, k)
    \/ ProduceSync(c)

NativeNext ==
    \/ \E c \in NClients : NativeAsk(c) \/ NativeReceive(c) \/ NativeHangUp(c) \/ NativeHandles(c) \/ ProduceSyncFails(c)
    \/ NativeKill \/ NativePowerLoss \/ NativeOpen

-----------------------------------------------------------------------------
(* Properties.                                                             *)

\* A record whose produce was answered stays at its offset through every crash
\* (the fsync of Produce comes before its answer).
NativeAckedStays ==
    \A a \in nacked : a[1] < Len(nlog) /\ nlog[a[1] + 1] = a[2]

OnItsWay(g) == {calls[c].record : c \in {d \in NClients : calls[d].answer = "record" /\ calls[d].group = g}}

\* Everything below a group's committed offset was received by a client of the
\* group or is in an answer on its way to one (two clients of a group may commit
\* past each other): nothing is skipped over a restart, unless the answer to a poll was
\* lost or the group had been handed a record that a power loss then took.
NativeNothingSkipped ==
    \A g \in NGroups \ (nlostAnswer \cup nshort) :
       \A i \in 1..ncommitted[g] : <<g, nlog[i]>> \in ndelivered \/ nlog[i] \in OnItsWay(g)

\* The native broker across restarts: no acknowledged record moves or is lost,
\* and no group resumes behind a record it was never given.
NativeInv == NativeAckedStays /\ NativeNothingSkipped
=============================================================================
