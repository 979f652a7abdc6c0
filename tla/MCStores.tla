------------------------------ MODULE MCStores ------------------------------
(***************************************************************************)
(* Where records and offsets come to rest, on small instances.  The stores *)
(* share no state, so a behaviour is a behaviour of one of them.           *)
(***************************************************************************)
EXTENDS PartitionLog, NativeBroker, FileOffsets, TieredLog, Replicas, KeyRouter, RunPipe

VARIABLE store   \* the component that runs

\* Two members tie on the first key.
TheWeights == [k \in {1, 2} |-> [n \in {1, 2, 3} |-> IF k = 1 THEN (IF n = 2 THEN 1 ELSE 2) ELSE n]]

StoresInit ==
    /\ store \in {"log", "native", "offsets", "tiered", "replicas", "router", "run"}
    /\ Init /\ NativeInit /\ OffsetsInit /\ TieredInit /\ ReplicaInit /\ RouterInit
    /\ RunInit /\ (store # "run" => kind = "http" /\ at_least_once)

Topics == <<nativeVars, offsetsVars, routerVars>>
Segments == <<vars, tieredVars, replicaVars, runVars>>

StoresNext ==
    /\ UNCHANGED store
    /\ \/ store = "log" /\ Next /\ UNCHANGED <<Topics, tieredVars, replicaVars, runVars>>
       \/ store = "tiered" /\ TieredNext /\ UNCHANGED <<Topics, vars, replicaVars, runVars>>
       \/ store = "replicas" /\ ReplicaNext /\ UNCHANGED <<Topics, vars, tieredVars, runVars>>
       \/ store = "run" /\ RunNext /\ UNCHANGED <<Topics, vars, tieredVars, replicaVars>>
       \/ store = "native" /\ NativeNext /\ UNCHANGED <<Segments, offsetsVars, routerVars>>
       \/ store = "offsets" /\ OffsetsNext /\ UNCHANGED <<Segments, nativeVars, routerVars>>
       \/ store = "router" /\ RouterNext /\ UNCHANGED <<Segments, nativeVars, offsetsVars>>
=============================================================================
