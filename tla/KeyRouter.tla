------------------------------ MODULE KeyRouter ------------------------------
(***************************************************************************)
(* Topic::dispatch_next of datarail-topic over the rendezvous router of    *)
(* datarail-keyrouter: a group's members join and leave, and each record   *)
(* goes to the member with the highest weight for its key.                 *)
(*                                                                         *)
(* The loop of route_keyhash over the members is one action per member, so *)
(* that what it computes can be an invariant; the call holds the group     *)
(* exclusively, so nothing else happens while it runs.  A record is its    *)
(* key.  weight is any function: fnv1a and mix64 are one of them.          *)
(***************************************************************************)
EXTENDS Integers, Sequences

CONSTANTS
    RKeys, Weight,              \* Weight[k][n]: what mix64 and fnv1a compute
    Members,                    \* the node ids
    MaxRecordsR, MaxChanges, MaxDispatches

ASSUME RouterAssumption ==
    /\ Members \subseteq Nat
    /\ Weight \in [RKeys -> [Members -> Nat]]
    /\ MaxRecordsR \in Nat /\ MaxChanges \in Nat /\ MaxDispatches \in Nat

VARIABLES
    nodes,              \* Router.nodes
    rlog,               \* the topic: the key of each record
    cursor,             \* Group.cursor: records dispatched
    reader,             \* Group.replay: the end of the snapshot, or -1
    scan,               \* the loop of route_keyhash: index and best so far
    changes,
    routed              \* history: what was dispatched, and among which members

routerVars == <<nodes, rlog, cursor, reader, scan, changes, routed>>

Present == {nodes[j] : j \in 1..Len(nodes)}
NotScanning == [i |-> 0, best |-> -1]
Idle == scan = NotScanning

RouterInit ==
    /\ nodes = <<>> /\ rlog = <<>> /\ cursor = 0 /\ reader = -1
    /\ scan = NotScanning /\ changes = 0 /\ routed = <<>>

weight(k, n) == Weight[k][n]

\* The better of two nodes: the higher weight, the smaller id on a tie.
Beats(k, a, b) == weight(k, a) > weight(k, b) \/ (weight(k, a) = weight(k, b) /\ a < b)

-----------------------------------------------------------------------------
TopicProduce(k) ==
    /\ Idle /\ Len(rlog) < MaxRecordsR
    /\ rlog' = Append(rlog, k)
    /\ UNCHANGED <<nodes, cursor, reader, scan, changes, routed>>

Changing == Idle /\ changes < MaxChanges /\ changes' = changes + 1

\* add_member: a node already present is refused.
add_node(n) ==
    /\ Changing /\ n \notin Present
    /\ nodes' = Append(nodes, n)
    /\ UNCHANGED <<rlog, cursor, reader, scan, routed>>

remove_node(i) ==
    /\ Changing
    /\ nodes' = SubSeq(nodes, 1, i - 1) \o SubSeq(nodes, i + 1, Len(nodes))
    /\ UNCHANGED <<rlog, cursor, reader, scan, routed>>

seek(to) ==
    /\ Changing
    /\ cursor' = to /\ reader' = -1
    /\ UNCHANGED <<nodes, rlog, scan, routed>>

-----------------------------------------------------------------------------
(* dispatch_next.                                                          *)

\* NoMembers fails the call before a record is consumed.
Dispatchable == nodes # <<>>

\* The reader snapshots the end of the log when it is created.
End == IF reader = -1 THEN Len(rlog) ELSE reader

\* Caught up: the snapshot is dropped.
DispatchNone ==
    /\ Idle /\ Dispatchable /\ cursor >= End
    /\ reader' = -1
    /\ UNCHANGED <<nodes, rlog, cursor, scan, changes, routed>>

\* A record is read and the cursor moves past it.
DispatchRead ==
    /\ Idle /\ Dispatchable /\ cursor < End /\ Len(routed) < MaxDispatches
    /\ reader' = End
    /\ cursor' = cursor + 1
    /\ scan' = IF nodes = <<>> THEN NotScanning ELSE [i |-> 1, best |-> -1]
    /\ UNCHANGED <<nodes, rlog, changes, routed>>

\* Bug: the last of several equal weights wins.
BetterLate(k, node, best) == best = -1 \/ weight(k, node) >= weight(k, best)

Better(k, node, best) == best = -1 \/ Beats(k, node, best)

\* route_keyhash: the next node against the best so far.
RouteStep ==
    /\ scan.i \in 1..Len(nodes)
    /\ scan' = [i |-> scan.i + 1,
                best |-> IF Better(rlog[cursor], nodes[scan.i], scan.best) THEN nodes[scan.i] ELSE scan.best]
    /\ UNCHANGED <<nodes, rlog, cursor, reader, changes, routed>>

\* The record is handed over.
DispatchDone ==
    /\ scan.i = Len(nodes) + 1 /\ ~Idle
    /\ routed' = Append(routed, [key |-> rlog[cursor], offset |-> cursor, member |-> scan.best, among |-> Present])
    /\ scan' = NotScanning
    /\ UNCHANGED <<nodes, rlog, cursor, reader, changes>>

RouterNext ==
    \/ \E k \in RKeys : TopicProduce(k)
    \/ \E n \in Members : add_node(n)
    \/ \E i \in 1..Len(nodes) : remove_node(i)
    \/ \E to \in 0..Len(rlog) : seek(to)
    \/ DispatchNone \/ DispatchRead \/ RouteStep \/ DispatchDone

RouterSpec == RouterInit /\ [][RouterNext]_routerVars

-----------------------------------------------------------------------------
(* Properties.                                                             *)

\* Two records of one key go to the same member unless the member of one of
\* them was not there when the other was dispatched, whoever else joined or
\* left in between: keys move only to a node that joined and only off a node
\* that left (route_keyhash; "monotonic" in the crate's documentation).
KeysStay ==
    \A a, b \in 1..Len(routed) :
        /\ routed[a].key = routed[b].key
        /\ routed[a].member \in routed[b].among /\ routed[b].member \in routed[a].among
        => routed[a].member = routed[b].member
=============================================================================
