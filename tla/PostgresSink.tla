---------------------------- MODULE PostgresSink ----------------------------
(***************************************************************************)
(* The Postgres sink (datarail-connectors, postgres_sink.rs): plain COPY,  *)
(* and the two transactions that land records and a watermark together.    *)
(* One action per statement that another session can be interleaved with,  *)
(* over a database that loses connections.                                 *)
(*                                                                         *)
(* A session is one PostgresSink value with the call it is executing.  The *)
(* drivers (RunPipe, Ingest) start a call with PgCall and take its result  *)
(* when pc is "ok" or "err".                                               *)
(***************************************************************************)
EXTENDS Integers, Sequences

CONSTANTS
    Sessions,       \* connections to the database
    DedupStreams    \* the watermark table's keys

VARIABLES
    rows,           \* the table: committed records, in order
    marks,          \* datarail_watermark: the seq of each stream, NoMark without a row
    sess,           \* the sessions
    limbo           \* transactions whose client went away during COMMIT

pgVars == <<rows, marks, sess, limbo>>

NoMark == -1

PgIdle == [pc |-> "idle", alive |-> TRUE, mode |-> "plain", stream |-> "", wm |-> 0,
           records |-> <<>>, landing |-> <<>>, mark |-> NoMark]

PgInit ==
    /\ rows = <<>>
    /\ marks = [s \in DedupStreams |-> NoMark]
    /\ sess = [c \in Sessions |-> PgIdle]
    /\ limbo = {}

InTxn(c) == sess[c].pc \in {"locked", "landing", "ready"} /\ sess[c].mode # "plain"

\* pg_advisory_xact_lock is held from the lock statement to the end of the
\* transaction, on the server's side of the connection.
Locked(s) ==
    \/ \E c \in Sessions : InTxn(c) /\ sess[c].stream = s
    \/ \E t \in limbo : t.mode # "plain" /\ t.stream = s

\* The start of commit (mode "plain"), commit_at ("at") or commit_at_seq
\* ("seq"): an operator on the session.  A dead connection fails at once.
PgCall(c, mode, stream, wm, records) ==
    [sess[c] EXCEPT
        !.pc = IF ~ sess[c].alive THEN "err" ELSE IF mode = "plain" THEN "ready" ELSE "begun",
        !.mode = mode, !.stream = stream, !.wm = wm, !.records = records,
        !.landing = IF mode = "plain" THEN records ELSE <<>>, !.mark = NoMark]

\* Bug: the watermark row is all that is locked, and at first there is none.
PgLockRowOnly(c) ==
    /\ sess[c].pc = "begun"
    /\ marks[sess[c].stream] = NoMark \/ ~ Locked(sess[c].stream)
    /\ sess' = [sess EXCEPT ![c].pc = "locked"]
    /\ UNCHANGED <<rows, marks, limbo>>

PgLock(c) ==
    /\ sess[c].pc = "begun"
    /\ ~ Locked(sess[c].stream)
    /\ sess' = [sess EXCEPT ![c].pc = "locked"]
    /\ UNCHANGED <<rows, marks, limbo>>

\* read_watermark: at or past the watermark of the call there is nothing to do.
PgReadMark(c) ==
    /\ sess[c].pc = "locked"
    /\ sess' = [sess EXCEPT ![c].pc =
                   IF marks[sess[c].stream] >= sess[c].wm THEN "ready" ELSE "landing"]
    /\ UNCHANGED <<rows, marks, limbo>>

\* txn_body: what of the records is above the stored watermark.  txn_body_seq
\* lands all of them.
NewRecords(s, current) ==
    LET base == s.wm - Len(s.records)
        already == IF current = NoMark \/ current < base THEN 0 ELSE current - base
    IN  IF s.mode = "seq" THEN s.records
        ELSE SubSeq(s.records, already + 1, Len(s.records))

\* COPY and the upsert, inside the transaction.
PgLand(c) ==
    /\ sess[c].pc = "landing"
    /\ sess' = [sess EXCEPT
           ![c].pc = "ready",
           ![c].landing = NewRecords(sess[c], marks[sess[c].stream]),
           ![c].mark = sess[c].wm]
    /\ UNCHANGED <<rows, marks, limbo>>

\* What the database keeps of a transaction.
Applied(t) ==
    /\ rows' = rows \o t.landing
    /\ marks' = IF t.mark = NoMark THEN marks ELSE [marks EXCEPT ![t.stream] = t.mark]

PgCommit(c) ==
    /\ sess[c].pc = "ready"
    /\ Applied(sess[c])
    /\ sess' = [sess EXCEPT ![c].pc = "ok"]
    /\ UNCHANGED limbo

\* A statement is refused: ROLLBACK, and the call returns the error.
PgFail(c) ==
    /\ sess[c].pc \in {"begun", "locked", "landing", "ready"}
    /\ sess' = [sess EXCEPT ![c].pc = "err"]
    /\ UNCHANGED <<rows, marks, limbo>>

\* The connection is gone (or its process is): an open transaction is rolled
\* back, unless COMMIT was on its way, which the server decides later.
PgGone(c) ==
    limbo' = IF sess[c].pc = "ready" /\ sess[c].alive
             THEN limbo \cup {[mode |-> sess[c].mode, stream |-> sess[c].stream,
                               landing |-> sess[c].landing, mark |-> sess[c].mark]}
             ELSE limbo

PgLost(c) ==
    /\ sess[c].pc \in {"begun", "locked", "landing", "ready"}
    /\ sess[c].alive
    /\ PgGone(c)
    /\ sess' = [sess EXCEPT ![c].pc = "err", ![c].alive = FALSE]
    /\ UNCHANGED <<rows, marks>>

LimboCommits == \E t \in limbo :
    /\ Applied(t)
    /\ limbo' = limbo \ {t}
    /\ UNCHANGED sess

LimboAborts == \E t \in limbo :
    /\ limbo' = limbo \ {t}
    /\ UNCHANGED <<rows, marks, sess>>

\* The statements of the session and the server's own steps; the drivers
\* bound the failures.
PgStep ==
    \/ \E c \in Sessions : PgLock(c) \/ PgReadMark(c) \/ PgLand(c) \/ PgCommit(c)
    \/ LimboCommits \/ LimboAborts

PgFault == \E c \in Sessions : PgFail(c) \/ PgLost(c)
=============================================================================
