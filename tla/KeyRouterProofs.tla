--------------------------- MODULE KeyRouterProofs ---------------------------
(***************************************************************************)
(* Rendezvous routing keeps a key where it is, for every weight function,  *)
(* every set of members and any number of joins and leaves.                *)
(*                                                                         *)
(* The invariant the proof needs is about one dispatch: the best node so   *)
(* far beats every other node looked at, so the member a record was handed *)
(* to beats every other member present at the time.  KeysStay follows from *)
(* two such facts, because no two nodes beat each other.                   *)
(***************************************************************************)
EXTENDS KeyRouter, TLAPS

\* n is among the nodes of S and beats all the others for key k.
Owns(S, k, n) == n \in S /\ \A m \in S : m # n => Beats(k, n, m)

\* The nodes the loop has looked at.
Seen == {nodes[j] : j \in 1..scan.i - 1}

Routed == [key : RKeys, offset : Nat, member : Members, among : SUBSET Members]

RouterTypeOK ==
    /\ nodes \in Seq(Members) /\ rlog \in Seq(RKeys)
    /\ cursor \in 0..Len(rlog) /\ reader \in -1..Len(rlog)
    /\ scan.i \in Nat
    /\ routed \in Seq(Routed)

ScanInv ==
    scan # NotScanning =>
        /\ scan.i \in 1..Len(nodes) + 1 /\ cursor \in 1..Len(rlog)
        /\ nodes # <<>>
        /\ IF scan.i = 1 THEN scan.best = -1 ELSE Owns(Seen, rlog[cursor], scan.best)

RoutedInv ==
    \A a \in 1..Len(routed) : Owns(routed[a].among, routed[a].key, routed[a].member)

RouterInv == RouterTypeOK /\ ScanInv /\ RoutedInv

\* Weights are natural numbers.
LEMMA WeightType == \A k \in RKeys, n \in Members : weight(k, n) \in Nat
BY RouterAssumption DEF weight

\* Two nodes never beat each other (the order of route_keyhash).
LEMMA BeatsAsymmetric ==
    ASSUME NEW k \in RKeys, NEW a \in Members, NEW b \in Members, Beats(k, a, b)
    PROVE  ~Beats(k, b, a)
BY WeightType, RouterAssumption DEF Beats

\* Of two different nodes one beats the other.
LEMMA BeatsTotal ==
    ASSUME NEW k \in RKeys, NEW a \in Members, NEW b \in Members, a # b
    PROVE  Beats(k, a, b) \/ Beats(k, b, a)
BY WeightType, RouterAssumption DEF Beats

\* Beating is transitive, so the scan of route_keyhash finds a maximum.
LEMMA BeatsTransitive ==
    ASSUME NEW k \in RKeys, NEW a \in Members, NEW b \in Members, NEW c \in Members,
           Beats(k, a, b), Beats(k, b, c)
    PROVE  Beats(k, a, c)
BY WeightType, RouterAssumption DEF Beats

\* The owners of one key among two sets of members are the same if each is
\* a member of both.
LEMMA OwnersAgree ==
    ASSUME NEW k \in RKeys, NEW S \in SUBSET Members, NEW T \in SUBSET Members,
           NEW m, NEW n, Owns(S, k, m), Owns(T, k, n), m \in T, n \in S
    PROVE  m = n
<1>1. m \in Members /\ n \in Members
  BY DEF Owns
<1>2. SUFFICES ASSUME m # n PROVE FALSE
  OBVIOUS
<1>3. Beats(k, m, n) /\ Beats(k, n, m)
  BY <1>2 DEF Owns
<1> QED
  BY <1>1, <1>3, BeatsAsymmetric

\* Looking at one more node: the better of it and the owner owns both.
LEMMA OwnsStep ==
    ASSUME NEW k \in RKeys, NEW S \in SUBSET Members, NEW best, Owns(S, k, best), NEW n \in Members
    PROVE  Owns(S \cup {n}, k, IF Beats(k, n, best) THEN n ELSE best)
<1>1. best \in Members
  BY DEF Owns
<1>2. CASE Beats(k, n, best)
  <2>1. ASSUME NEW m \in S \cup {n}, m # n PROVE Beats(k, n, m)
    <3>1. m \in S /\ m \in Members
      BY <2>1
    <3>2. CASE m = best
      BY <1>2, <3>2
    <3>3. CASE m # best
      <4>1. Beats(k, best, m)
        BY <3>1, <3>3 DEF Owns
      <4> QED
        BY <4>1, <1>1, <1>2, <3>1, BeatsTransitive
    <3> QED
      BY <3>2, <3>3
  <2> QED
    BY <1>2, <2>1 DEF Owns
<1>3. CASE ~Beats(k, n, best)
  <2>1. ASSUME NEW m \in S \cup {n}, m # best PROVE Beats(k, best, m)
    BY <1>1, <1>3, <2>1, BeatsTotal DEF Owns
  <2> QED
    BY <1>3, <2>1 DEF Owns
<1> QED
  BY <1>2, <1>3

-----------------------------------------------------------------------------
\* The invariant holds when the topic and the group are opened.
LEMMA RouterInitInv == RouterInit => RouterInv
<1> SUFFICES ASSUME RouterInit PROVE RouterInv
  OBVIOUS
<1>1. RouterTypeOK
  BY DEF RouterInit, RouterTypeOK, NotScanning
<1>2. ScanInv
  BY DEF RouterInit, ScanInv
<1>3. RoutedInv
  BY DEF RouterInit, RoutedInv
<1> QED
  BY <1>1, <1>2, <1>3 DEF RouterInv

\* Every step of Topic and Group keeps the invariant.
LEMMA RouterStepInv == RouterInv /\ [RouterNext]_routerVars => RouterInv'
<1> SUFFICES ASSUME RouterInv, [RouterNext]_routerVars PROVE RouterInv'
  OBVIOUS
<1> USE DEF RouterInv
<1>1. ASSUME NEW k \in RKeys, TopicProduce(k) PROVE RouterInv'
  BY <1>1 DEF TopicProduce, Idle, RouterTypeOK, ScanInv, RoutedInv
<1>2. ASSUME NEW n \in Members, add_node(n) PROVE RouterInv'
  BY <1>2 DEF add_node, Changing, Idle, RouterTypeOK, ScanInv, RoutedInv
<1>3. ASSUME NEW i \in 1..Len(nodes), remove_node(i) PROVE RouterInv'
  <2>1. nodes' \in Seq(Members)
    BY <1>3 DEF remove_node, RouterTypeOK
  <2> QED
    BY <1>3, <2>1 DEF remove_node, Changing, Idle, RouterTypeOK, ScanInv, RoutedInv
<1>4. ASSUME NEW to \in 0..Len(rlog), seek(to) PROVE RouterInv'
  BY <1>4 DEF seek, Changing, Idle, RouterTypeOK, ScanInv, RoutedInv
<1>5. CASE DispatchNone
  BY <1>5 DEF DispatchNone, Idle, RouterTypeOK, ScanInv, RoutedInv
<1>6. CASE DispatchRead
  <2>1. scan' = [i |-> 1, best |-> -1] /\ nodes # <<>>
    BY <1>6 DEF DispatchRead, Dispatchable
  <2>2. RouterTypeOK'
    BY <1>6, <2>1 DEF DispatchRead, End, RouterTypeOK
  <2>3. cursor' \in 1..Len(rlog)
    BY <1>6 DEF DispatchRead, End, RouterTypeOK
  <2>4. ScanInv'
    BY <1>6, <2>1, <2>3 DEF DispatchRead, RouterTypeOK, ScanInv
  <2>5. RoutedInv'
    BY <1>6 DEF DispatchRead, RoutedInv
  <2> QED
    BY <2>2, <2>4, <2>5
<1>7. CASE RouteStep
  <2> DEFINE k == rlog[cursor]
             n == nodes[scan.i]
  <2>1. scan # NotScanning /\ scan.i \in 1..Len(nodes)
    BY <1>7 DEF RouteStep, NotScanning
  <2>2. k \in RKeys /\ n \in Members
    BY <2>1 DEF RouterTypeOK, ScanInv
  <2>3. Seen \in SUBSET Members
    BY <2>1 DEF Seen, RouterTypeOK
  <2>4. scan'.i = scan.i + 1 /\ scan' # NotScanning /\ nodes' = nodes
    BY <1>7, <2>1 DEF RouteStep, NotScanning
  <2>5. Seen' = Seen \cup {n}
    BY <2>1, <2>4 DEF Seen, RouterTypeOK
  <2>6. Owns(Seen', k, scan'.best)
    <3>1. CASE scan.i = 1
      <4>1. scan.best = -1
        BY <2>1, <3>1 DEF ScanInv
      <4>2. scan'.best = n
        BY <1>7, <4>1 DEF RouteStep, Better
      <4>3. Seen = {}
        BY <3>1 DEF Seen
      <4> QED
        BY <2>5, <4>2, <4>3 DEF Owns
    <3>2. CASE scan.i # 1
      <4>1. Owns(Seen, k, scan.best)
        BY <2>1, <3>2 DEF ScanInv
      <4>2. scan.best # -1
        BY <2>3, <4>1, RouterAssumption DEF Owns
      <4>3. scan'.best = IF Beats(k, n, scan.best) THEN n ELSE scan.best
        BY <1>7, <4>2 DEF RouteStep, Better
      <4> HIDE DEF k, n
      <4> QED
        BY <2>2, <2>3, <2>5, <4>1, <4>3, OwnsStep
    <3> QED
      BY <3>1, <3>2
  <2>7. RouterTypeOK'
    BY <1>7, <2>1, <2>4 DEF RouteStep, RouterTypeOK
  <2>8. ScanInv'
    <3>1. rlog' = rlog /\ cursor' = cursor
      BY <1>7 DEF RouteStep
    <3>2. scan'.i # 1 /\ scan'.i \in 1..Len(nodes) + 1
      BY <2>1, <2>4 DEF RouterTypeOK
    <3>3. cursor \in 1..Len(rlog) /\ nodes # <<>>
      BY <2>1 DEF ScanInv
    <3> QED
      BY <2>4, <2>6, <3>1, <3>2, <3>3 DEF ScanInv
  <2>9. RoutedInv'
    BY <1>7 DEF RouteStep, RoutedInv
  <2> QED
    BY <2>7, <2>8, <2>9
<1>8. CASE DispatchDone
  <2> DEFINE r == [key |-> rlog[cursor], offset |-> cursor, member |-> scan.best, among |-> Present]
  <2>1. scan # NotScanning /\ scan.i = Len(nodes) + 1
    BY <1>8 DEF DispatchDone, Idle
  <2>2. Len(nodes) \in Nat /\ Len(nodes) # 0
    BY <2>1 DEF ScanInv, RouterTypeOK
  <2>3. Seen = Present
    BY <2>1, <2>2 DEF Seen, Present
  <2>4. Owns(Present, rlog[cursor], scan.best)
    BY <2>1, <2>2, <2>3 DEF ScanInv
  <2>5. Present \in SUBSET Members
    BY DEF Present, RouterTypeOK
  <2>6. r \in Routed
    BY <2>1, <2>4, <2>5 DEF Routed, ScanInv, RouterTypeOK, Owns
  <2>7. routed' = Append(routed, r)
    BY <1>8 DEF DispatchDone
  <2>8. Owns(r.among, r.key, r.member)
    BY <2>4
  <2>9. RouterTypeOK'
    <3>1. routed' \in Seq(Routed)
      <4> HIDE DEF r
      <4> QED
        BY <2>6, <2>7 DEF RouterTypeOK
    <3>2. nodes' = nodes /\ rlog' = rlog /\ cursor' = cursor /\ reader' = reader /\ scan'.i = 0
      BY <1>8 DEF DispatchDone, NotScanning
    <3> QED
      BY <3>1, <3>2 DEF RouterTypeOK
  <2>10. RoutedInv'
    <3> HIDE DEF r
    <3>1. ASSUME NEW a \in 1..Len(routed') PROVE Owns(routed'[a].among, routed'[a].key, routed'[a].member)
      <4>1. routed \in Seq(Routed)
        BY DEF RouterTypeOK
      <4>2. CASE a = Len(routed) + 1
        <5>1. routed'[a] = r
          BY <2>6, <2>7, <4>1, <4>2
        <5> QED
          BY <2>8, <5>1
      <4>3. CASE a \in 1..Len(routed)
        <5>1. routed'[a] = routed[a]
          BY <2>6, <2>7, <4>1, <4>3
        <5> QED
          BY <4>3, <5>1 DEF RoutedInv
      <4> QED
        BY <2>6, <2>7, <3>1, <4>1, <4>2, <4>3
    <3> QED
      BY <3>1 DEF RoutedInv
  <2>11. ScanInv'
    BY <1>8 DEF DispatchDone, ScanInv
  <2> QED
    BY <2>9, <2>10, <2>11
<1>9. CASE UNCHANGED routerVars
  BY <1>9 DEF routerVars, RouterTypeOK, ScanInv, RoutedInv, Seen
<1> QED
  BY <1>1, <1>2, <1>3, <1>4, <1>5, <1>6, <1>7, <1>8, <1>9 DEF RouterNext

\* Two records of one key have one owner among any members that hold both.
LEMMA RouterInvKeysStay == RouterInv => KeysStay
<1> SUFFICES ASSUME RouterInv,
                    NEW a \in 1..Len(routed), NEW b \in 1..Len(routed),
                    routed[a].key = routed[b].key,
                    routed[a].member \in routed[b].among, routed[b].member \in routed[a].among
             PROVE  routed[a].member = routed[b].member
  BY DEF KeysStay
<1>1. /\ routed[a].key \in RKeys
      /\ routed[a].among \in SUBSET Members /\ routed[b].among \in SUBSET Members
  <2>1. routed[a] \in Routed /\ routed[b] \in Routed
    BY DEF RouterInv, RouterTypeOK
  <2> QED
    BY <2>1 DEF Routed
<1>2. Owns(routed[a].among, routed[a].key, routed[a].member)
  BY DEF RouterInv, RoutedInv
<1>3. Owns(routed[b].among, routed[a].key, routed[b].member)
  BY DEF RouterInv, RoutedInv
<1> QED
  BY <1>1, <1>2, <1>3, OwnersAgree

\* Whatever the weights, however members join and leave: two records of one
\* key go to the same member unless one of the two owners was absent when
\* the other record was dispatched (route_keyhash and dispatch_next).
THEOREM RouterKeysStay == RouterSpec => []KeysStay
<1>1. RouterSpec => []RouterInv
  BY RouterInitInv, RouterStepInv, PTL DEF RouterSpec
<1> QED
  BY <1>1, RouterInvKeysStay, PTL
=============================================================================
