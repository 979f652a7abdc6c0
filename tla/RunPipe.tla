------------------------------- MODULE RunPipe ------------------------------
(***************************************************************************)
(* `datarail run` into Postgres (cmd_run, run_pipe, Pipeline::ship_batch): *)
(* an invocation reads its source once, boards it as one batch, carries it *)
(* over the rail of its own process and commits what offload delivered.    *)
(* Invocations are repeated, run side by side, fail and are killed, while  *)
(* the source grows.                                                       *)
(*                                                                         *)
(* Records are numbered in the order in which the source first had them.   *)
(* A file or inline source presents 1..n; an HTTP source may answer in any *)
(* order.                                                                  *)
(***************************************************************************)
EXTENDS PostgresSink, FiniteSets

CONSTANTS
    RunStream,      \* the route_id: the stream of the pipeline's watermark
    Kinds,          \* source kinds to consider: "file", "http"
    MaxSourced,     \* records the source ever has
    MaxRuns,        \* invocations
    MaxRunFaults    \* failed statements, lost connections and kills

VARIABLES
    kind,           \* the source of this deployment
    at_least_once,  \* whether its invocations pass --at-least-once
    source,         \* how many records the source has
    runs,           \* the invocation using each session
    launched,       \* invocations so far
    runFaults,
    landedClaims    \* batches whose invocation delivered them and ended well

runVars == <<pgVars, kind, at_least_once, source, runs, launched, runFaults, landedClaims>>

RunOff == [pc |-> "off", batch |-> <<>>, landed_total |-> 0]

RunInit ==
    /\ PgInit
    /\ kind \in Kinds
    /\ at_least_once \in BOOLEAN
    /\ source = 1
    /\ runs = [c \in Sessions |-> RunOff]
    /\ launched = 0
    /\ runFaults = 0
    /\ landedClaims = {}

wants_tier_a(alo, source_ordered) == ~ alo /\ source_ordered

TierA == wants_tier_a(at_least_once, kind # "http")

\* What next_batch returns: the file in order, or the rows of one GET.
Batches ==
    IF kind = "file" THEN {[i \in 1..source |-> i]}
    ELSE {b \in [1..source -> 1..source] : Cardinality({b[i] : i \in 1..source}) = source}

\* select_sink and the source constructor.
Launch(c) ==
    /\ runs[c].pc = "off"
    /\ launched < MaxRuns
    /\ launched' = launched + 1
    /\ \E b \in Batches :
          runs' = [runs EXCEPT ![c] = [pc |-> "read", batch |-> b, landed_total |-> 0]]
    /\ sess' = [sess EXCEPT ![c] = PgIdle]
    /\ UNCHANGED <<rows, marks, limbo, kind, at_least_once, source, runFaults, landedClaims>>

\* AnySink::commit of the fresh records.
SinkCommit(c, fresh, landed_total) ==
    sess' = [sess EXCEPT ![c] = PgCall(c, IF TierA THEN "at" ELSE "plain",
                                       RunStream, landed_total, fresh)]

\* deliver_batch delivers the whole batch; landed_total counts it.
ShipDelivered(c) ==
    /\ runs[c].pc = "read"
    /\ runs' = [runs EXCEPT ![c].pc = "commit", ![c].landed_total = @ + Len(runs[c].batch)]
    /\ SinkCommit(c, runs[c].batch, runs[c].landed_total + Len(runs[c].batch))
    /\ UNCHANGED <<rows, marks, limbo, kind, at_least_once, source, launched, runFaults,
                   landedClaims>>

\* The batch is dead-lettered (nothing fresh, the run ends well), or the
\* boarding or the rail fails (the run ends with the error).
ShipNothing(c) ==
    /\ runs[c].pc = "read"
    /\ runs' = [runs EXCEPT ![c] = RunOff]
    /\ UNCHANGED <<pgVars, kind, at_least_once, source, launched, runFaults, landedClaims>>

\* run_pipe returns: the report, or the first error.
Finish(c) ==
    /\ runs[c].pc = "commit"
    /\ sess[c].pc \in {"ok", "err"}
    /\ landedClaims' = IF sess[c].pc = "ok" THEN landedClaims \cup {runs[c].batch}
                       ELSE landedClaims
    /\ runs' = [runs EXCEPT ![c] = RunOff]
    /\ sess' = [sess EXCEPT ![c] = PgIdle]
    /\ UNCHANGED <<rows, marks, limbo, kind, at_least_once, source, launched, runFaults>>

KillRun(c) ==
    /\ runs[c].pc # "off"
    /\ runFaults < MaxRunFaults
    /\ runFaults' = runFaults + 1
    /\ PgGone(c)
    /\ runs' = [runs EXCEPT ![c] = RunOff]
    /\ sess' = [sess EXCEPT ![c] = PgIdle]
    /\ UNCHANGED <<rows, marks, kind, at_least_once, source, launched, landedClaims>>

\* A record is appended to the source.
Grow ==
    /\ source < MaxSourced
    /\ source' = source + 1
    /\ UNCHANGED <<pgVars, kind, at_least_once, runs, launched, runFaults, landedClaims>>

RunDatabase ==
    /\ \/ PgStep /\ UNCHANGED runFaults
       \/ runFaults < MaxRunFaults /\ PgFault /\ runFaults' = runFaults + 1
    /\ UNCHANGED <<kind, at_least_once, source, runs, launched, landedClaims>>

RunNext ==
    \/ \E c \in Sessions :
          Launch(c) \/ ShipDelivered(c) \/ ShipNothing(c) \/ Finish(c) \/ KillRun(c)
    \/ Grow
    \/ RunDatabase

RunSpec == RunInit /\ [][RunNext]_runVars

-----------------------------------------------------------------------------

\* Exactly once into Postgres: with an ordered source and without
\* --at-least-once the table is the source's prefix, record for record, however
\* invocations overlap, fail, are killed or are repeated (commit_at).
RunExactlyOnce ==
    TierA => /\ Len(rows) <= source
             /\ \A i \in 1..Len(rows) : rows[i] = i

\* An invocation that reports success landed every record it read, on either
\* tier and from either kind of source: Tier C may repeat, never lose, and the
\* positional watermark is never used where positions do not name records
\* (wants_tier_a).
RunNeverLoses ==
    \A b \in landedClaims : \A i \in DOMAIN b : \E j \in 1..Len(rows) : rows[j] = b[i]

\* The stored watermark is the number of rows that are landed for good, so the
\* next invocation resumes exactly behind them (txn_body's COPY and upsert).
MarkCountsRows ==
    TierA => marks[RunStream] = IF rows = <<>> THEN NoMark ELSE Len(rows)

\* datarail run into Postgres: a prefix of the source record for record with its
\* count as watermark, and no invocation reports what is not in the table.
RunInv == RunExactlyOnce /\ RunNeverLoses /\ MarkCountsRows
=============================================================================
