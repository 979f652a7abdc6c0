----------------------- MODULE GroupCoordinatorProofs -----------------------
(***************************************************************************)
(* The consumer-group coordinator is sound for any number of consumers,    *)
(* member ids, rebalances and expired sessions.                            *)
(*                                                                         *)
(* That consumers of one generation follow one plan needs more than the    *)
(* group's own state: while no session expires, a consumer that knows its  *)
(* id is still a member and shares the id with nobody, so every plan of    *)
(* the current generation was made by the leader in office, and nobody     *)
(* works to a plan of a generation whose window is still open.             *)
(***************************************************************************)
EXTENDS GroupCoordinator, NaturalMinimum

\* Assignments exist in a stable group only.
OnlyStableAssigns == state # "Stable" => \A m \in Ids : assignment[m] = Unassigned

\* The consumers and the group, while no session has expired.
ClientsAgree ==
    /\ stale = {}
    /\ \A c \in Clients : client[c].id # NoMember =>
          client[c].id \in members /\ client[c].id <= member_seq
    /\ \A c, d \in Clients : client[c].id = client[d].id /\ c # d => client[c].id = NoMember
    /\ \A c \in Clients : client[c].phase = "assigned" => client[c].id # NoMember

\* Plans are the leader's, and those of the current generation are still in force.
PlansAgree ==
    /\ \A m \in Ids : assignment[m] # Unassigned => assignment[m].planner = leader
    /\ \A c \in Clients : client[c].generation <= generation
    /\ \A c \in Clients : client[c].phase = "assigned" /\ client[c].generation = generation =>
          /\ state = "Stable"
          /\ client[c].plan = [generation |-> generation, planner |-> leader]

PlanInv == OnePlanPerGeneration /\ (gone_stale = 0 => ClientsAgree /\ PlansAgree)

CoordinatorInv == GroupInv /\ OnlyStableAssigns /\ PlanInv

ClientStates == [phase : Phases, id : Ids \cup {NoMember}, generation : 0..MaxGeneration, plan : Plans]

-----------------------------------------------------------------------------
(* The helpers.                                                            *)

\* The first key of a map that is not empty is one of its keys.
LEMMA FirstMemberIn ==
    ASSUME NEW ms, ms \subseteq Ids
    PROVE  /\ FirstMember(ms) \in Ids \cup {NoMember}
           /\ ms # {} => FirstMember(ms) \in ms
<1>1. CASE ms = {}
    BY <1>1 DEF FirstMember
<1>2. CASE ms # {}
    <2>1. ms \subseteq Nat
        BY GroupAssumption DEF Ids
    <2>2. \E m \in ms : \A n \in ms : m <= n
        BY <1>2, <2>1, LeastNatural
    <2> QED
        BY <1>2, <2>2 DEF FirstMember
<1> QED
    BY <1>1, <1>2

\* What expire_stale leaves: a state, and a leader that is a member whenever
\* a closed group had one and anyone is left.
LEMMA ExpiredSpec ==
    ASSUME TypeOK, ClosedGroupIsLed
    PROVE  /\ Survivors \subseteq members
           /\ Expired.state \in {state, "Empty"} /\ Expired.state \in States
           /\ Expired.state # state => Survivors = {}
           /\ Expired.leader \in Ids \cup {NoMember}
           /\ Expired.state \in {"CompletingRebalance", "Stable"} /\ Survivors # {}
                 => Expired.leader \in Survivors
           /\ stale = {} => Survivors = members /\ Expired.state = state /\ Expired.leader = leader
<1> USE DEF TypeOK
<1>1. Survivors \subseteq members /\ Survivors \subseteq Ids
    BY DEF Survivors
<1>2. Expired.state = (IF Survivors = {} /\ members # {} THEN "Empty" ELSE state)
    BY DEF Expired
<1>3. Expired.leader = (IF Survivors = members THEN leader ELSE LeaderAmong(Survivors))
    BY DEF Expired
<1>4. LeaderAmong(Survivors) \in Ids \cup {NoMember}
    BY <1>1, FirstMemberIn DEF LeaderAmong
<1>5. NoMember \notin Ids
    BY GroupAssumption DEF NoMember, Ids
<1>6. ASSUME Expired.state \in {"CompletingRebalance", "Stable"}, Survivors # {}
      PROVE  Expired.leader \in Survivors
    <2>1. state \in {"CompletingRebalance", "Stable"} /\ members # {}
        BY <1>1, <1>2, <1>6
    <2>2. leader \in members /\ leader # NoMember
        BY <1>5, <2>1 DEF ClosedGroupIsLed
    <2>3. LeaderAmong(Survivors) \in Survivors
        BY <1>1, <1>6, <2>2, FirstMemberIn DEF LeaderAmong
    <2> QED
        BY <1>3, <2>2, <2>3
<1>7. stale = {} => Survivors = members
    BY DEF Survivors
<1>8. Expired.state \in {state, "Empty"} /\ Expired.state \in States
    BY <1>2 DEF States
<1> QED
    BY <1>1, <1>2, <1>3, <1>4, <1>6, <1>7, <1>8

\* What a request may tell its consumer.
LEMMA ToldSpec ==
    ASSUME TypeOK, NEW c \in Clients
    PROVE  /\ client[c] \in ClientStates
           /\ Newcomer \in ClientStates /\ Rejoins(c) \in ClientStates /\ Forgets \in ClientStates
           /\ JoinOutcome(c) \in ClientStates
           /\ Unassigned \in Plans
           /\ \A r \in ClientStates : Tell(c, r) => client' \in [Clients -> ClientStates]
<1>1. Unassigned \in Plans
    BY GroupAssumption DEF Unassigned, Plans, NoMember
<1>2. client[c] \in ClientStates /\ client \in [Clients -> ClientStates]
    BY DEF TypeOK, ClientStates
<1>3. Newcomer \in ClientStates
    BY <1>1, GroupAssumption DEF Newcomer, ClientStates, Phases
<1>4. Rejoins(c) \in ClientStates
    BY <1>2, <1>3 DEF Rejoins, ClientStates
<1>5. JoinOutcome(c) \in ClientStates
    BY <1>2, <1>3 DEF JoinOutcome, ClientStates, Phases, TypeOK
<1>6. \A r \in ClientStates : Tell(c, r) => client' \in [Clients -> ClientStates]
    BY <1>2 DEF Tell
<1> QED
    BY <1>1, <1>2, <1>3, <1>4, <1>5, <1>6 DEF Forgets

-----------------------------------------------------------------------------
(* The group.                                                              *)

SoundGroup == GroupInv /\ OnlyStableAssigns

\* A new group is empty.
LEMMA GroupInitInv == Init => CoordinatorInv
<1> SUFFICES ASSUME Init PROVE CoordinatorInv
    OBVIOUS
<1>1. Unassigned \in Plans
    BY GroupAssumption DEF Unassigned, Plans, NoMember
<1>2. TypeOK
    BY <1>1, GroupAssumption DEF Init, TypeOK, States, Phases, Newcomer
<1>3. ClosedGroupIsLed /\ AssignmentsFresh /\ StableIsPlanned /\ OnlyStableAssigns
    BY DEF Init, ClosedGroupIsLed, AssignmentsFresh, StableIsPlanned, OnlyStableAssigns
<1>4. \A c \in Clients : client[c] = Newcomer
    BY DEF Init
<1>5. OnePlanPerGeneration /\ ClientsAgree /\ PlansAgree
    BY <1>4, <1>3 DEF Init, OnePlanPerGeneration, ClientsAgree, PlansAgree, Newcomer, NoMember
<1> QED
    BY <1>2, <1>3, <1>5 DEF CoordinatorInv, GroupInv, PlanInv

\* JoinGroup starts a rebalance without assignments, or joins one under way.
LEMMA JoinKeepsGroup ==
    ASSUME SoundGroup, NEW c \in Clients, Join(c)
    PROVE  SoundGroup'
<1> DEFINE fresh == client[c].id = NoMember
           id == IF fresh THEN member_seq + 1 ELSE client[c].id
<1>1. TypeOK /\ ClosedGroupIsLed /\ AssignmentsFresh /\ StableIsPlanned /\ OnlyStableAssigns
    BY DEF SoundGroup, GroupInv
<1>2. /\ id \in Ids
      /\ member_seq' = IF fresh THEN id ELSE member_seq
      /\ members' = Survivors \cup {id}
      /\ stale' = {} /\ gone_stale' = gone_stale
      /\ leader' = Expired.leader
      /\ Tell(c, [Newcomer EXCEPT !.phase = "joining", !.id = id])
    BY DEF Join
<1>3. /\ Survivors \subseteq members /\ Expired.state \in {state, "Empty"}
      /\ Expired.leader \in Ids \cup {NoMember}
    BY <1>1, ExpiredSpec
<1>4. [Newcomer EXCEPT !.phase = "joining", !.id = id] \in ClientStates
    BY <1>1, <1>2, ToldSpec DEF ClientStates, Phases
<1>5. client' \in [Clients -> ClientStates]
    BY <1>1, <1>2, <1>4, ToldSpec
<1>6. member_seq' \in 0..MaxIds
    BY <1>1, <1>2, GroupAssumption DEF TypeOK, Ids
<1>7. CASE WindowOpen(Expired.state)
    <2>1. /\ state = "PreparingRebalance" /\ state' = "PreparingRebalance"
          /\ generation' = generation /\ deadline' = deadline
          /\ assignment' = KeepAssignments(Survivors \ {id})
        BY <1>3, <1>7 DEF Join, WindowOpen
    <2>2. assignment' = [m \in Ids |-> Unassigned]
        BY <1>1, <2>1 DEF KeepAssignments, OnlyStableAssigns
    <2>3. TypeOK'
        BY <1>1, <1>2, <1>3, <1>5, <1>6, <2>1, <2>2, ToldSpec DEF TypeOK, ClientStates
    <2> QED
        BY <2>1, <2>2, <2>3 DEF SoundGroup, GroupInv, ClosedGroupIsLed, AssignmentsFresh,
           StableIsPlanned, OnlyStableAssigns
<1>8. CASE ~ WindowOpen(Expired.state)
    <2>1. /\ state' = "PreparingRebalance" /\ deadline' = "open"
          /\ generation < MaxGeneration /\ generation' = generation + 1
          /\ assignment' = [m \in Ids |-> Unassigned]
        BY <1>8 DEF Join, NewDeadline, ClearAssignments
    <2>2. generation' \in 0..MaxGeneration
        BY <1>1, <2>1, GroupAssumption DEF TypeOK
    <2>3. TypeOK'
        BY <1>1, <1>2, <1>3, <1>5, <1>6, <2>1, <2>2, ToldSpec DEF TypeOK, ClientStates, States
    <2> QED
        BY <2>1, <2>3 DEF SoundGroup, GroupInv, ClosedGroupIsLed, AssignmentsFresh,
           StableIsPlanned, OnlyStableAssigns
<1> QED
    BY <1>7, <1>8

\* The leader's SyncGroup plans for every member; anyone else's changes nothing.
LEMMA SyncKeepsGroup ==
    ASSUME SoundGroup, NEW c \in Clients, NEW sends \in BOOLEAN, Sync(c, sends)
    PROVE  SoundGroup'
<1> DEFINE me == client[c]
           plan == [generation |-> generation, planner |-> me.id]
<1>1. TypeOK /\ ClosedGroupIsLed /\ AssignmentsFresh /\ StableIsPlanned /\ OnlyStableAssigns
    BY DEF SoundGroup, GroupInv
<1>2. UNCHANGED <<generation, leader, members, member_seq, stale, gone_stale>>
    BY DEF Sync
<1>3. [me EXCEPT !.phase = "syncing"] \in ClientStates
    BY <1>1, ToldSpec DEF ClientStates, Phases
<1>4. client' \in [Clients -> ClientStates]
    BY <1>1, <1>3, ToldSpec DEF Sync
<1>5. CASE UNCHANGED <<state, assignment, deadline>>
    BY <1>1, <1>2, <1>4, <1>5 DEF SoundGroup, GroupInv, TypeOK, ClosedGroupIsLed, AssignmentsFresh,
       StableIsPlanned, OnlyStableAssigns, ClientStates
<1>6. CASE /\ me.id \in members /\ leader = me.id
           /\ assignment' = [m \in Ids |-> IF m \in members THEN plan ELSE Unassigned]
           /\ state' = "Stable" /\ deadline' = "none"
    <2>1. plan \in Plans /\ Unassigned \in Plans
        BY <1>1, <1>6, ToldSpec DEF TypeOK, Plans
    <2>2. plan # Unassigned
        BY <1>1, <1>6, GroupAssumption DEF TypeOK, Unassigned, Ids, NoMember
    <2>3. TypeOK'
        BY <1>1, <1>2, <1>4, <1>6, <2>1 DEF TypeOK, ClientStates, States
    <2>4. members \subseteq Ids
        BY <1>1 DEF TypeOK
    <2>5. StableIsPlanned' /\ AssignmentsFresh' /\ ClosedGroupIsLed' /\ OnlyStableAssigns'
        BY <1>2, <1>6, <2>2, <2>4 DEF StableIsPlanned, AssignmentsFresh, ClosedGroupIsLed, OnlyStableAssigns
    <2> QED
        BY <2>3, <2>5 DEF SoundGroup, GroupInv
<1> QED
    BY <1>5, <1>6 DEF Sync, Assigns

\* A heartbeat evicts the stale members and keeps what the others were assigned.
LEMMA HeartbeatKeepsGroup ==
    ASSUME SoundGroup, NEW c \in Clients, Heartbeat(c)
    PROVE  SoundGroup'
<1>1. TypeOK /\ ClosedGroupIsLed /\ AssignmentsFresh /\ StableIsPlanned /\ OnlyStableAssigns
    BY DEF SoundGroup, GroupInv
<1>2. /\ members' = Survivors /\ stale' = {}
      /\ state' = Expired.state /\ leader' = Expired.leader
      /\ assignment' = [m \in Ids |-> IF m \in Survivors THEN assignment[m] ELSE Unassigned]
      /\ UNCHANGED <<generation, deadline, member_seq, gone_stale>>
    BY DEF Heartbeat, KeepAssignments
<1>3. /\ Survivors \subseteq members
      /\ Expired.state \in {state, "Empty"} /\ Expired.state \in States
      /\ Expired.state # state => Survivors = {}
      /\ Expired.leader \in Ids \cup {NoMember}
      /\ Expired.state \in {"CompletingRebalance", "Stable"} /\ Survivors # {}
            => Expired.leader \in Survivors
    BY <1>1, ExpiredSpec
<1>4. client' \in [Clients -> ClientStates]
    BY <1>1, ToldSpec DEF Heartbeat
<1>5. members \subseteq Ids /\ assignment \in [Ids -> Plans] /\ Unassigned \in Plans
    BY <1>1, ToldSpec DEF TypeOK
<1>6. assignment' \in [Ids -> Plans]
    BY <1>2, <1>5
<1>7. TypeOK'
    BY <1>1, <1>2, <1>3, <1>4, <1>6 DEF TypeOK, ClientStates
<1>8. ClosedGroupIsLed'
    BY <1>2, <1>3 DEF ClosedGroupIsLed
<1>9. AssignmentsFresh' /\ StableIsPlanned'
    BY <1>1, <1>2, <1>3, <1>5 DEF AssignmentsFresh, StableIsPlanned
<1>10. OnlyStableAssigns'
    BY <1>1, <1>2, <1>3 DEF OnlyStableAssigns
<1> QED
    BY <1>7, <1>8, <1>9, <1>10 DEF SoundGroup, GroupInv

\* LeaveGroup empties the group or starts a rebalance.
LEMMA LeaveKeepsGroup ==
    ASSUME SoundGroup, NEW c \in Clients, Leave(c)
    PROVE  SoundGroup'
<1> DEFINE id == client[c].id
           rest == members \ {id}
<1>1. TypeOK /\ ClosedGroupIsLed /\ AssignmentsFresh /\ StableIsPlanned /\ OnlyStableAssigns
    BY DEF SoundGroup, GroupInv
<1>2. [Newcomer EXCEPT !.phase = "left"] \in ClientStates
    BY <1>1, ToldSpec DEF ClientStates, Phases
<1>3. client' \in [Clients -> ClientStates] /\ gone_stale' = gone_stale
    BY <1>1, <1>2, ToldSpec DEF Leave
<1>4. CASE UNCHANGED <<group, stale>>
    BY <1>1, <1>3, <1>4 DEF SoundGroup, GroupInv, TypeOK, ClosedGroupIsLed, AssignmentsFresh,
       StableIsPlanned, OnlyStableAssigns, ClientStates, group
<1>5. CASE id \in members
    <2>1. /\ members' = rest /\ stale' = stale \ {id} /\ member_seq' = member_seq
          /\ assignment' = [m \in Ids |-> Unassigned]
          /\ state' \in {"Empty", "PreparingRebalance"} /\ deadline' \in {"none", "open"}
        BY <1>5 DEF Leave, ClearAssignments, NewDeadline
    <2>2. generation' \in 0..MaxGeneration
        BY <1>1, <1>5, GroupAssumption DEF Leave, TypeOK
    <2>3. rest \subseteq Ids
        BY <1>1 DEF TypeOK
    <2>4. leader' \in {NoMember, FirstMember(rest), leader}
        BY <1>5 DEF Leave
    <2>5. leader' \in Ids \cup {NoMember}
        BY <1>1, <2>3, <2>4, FirstMemberIn DEF TypeOK
    <2>6. TypeOK'
        BY <1>1, <1>3, <2>1, <2>2, <2>3, <2>5, ToldSpec DEF TypeOK, ClientStates, States
    <2> QED
        BY <2>1, <2>6 DEF SoundGroup, GroupInv, ClosedGroupIsLed, AssignmentsFresh,
           StableIsPlanned, OnlyStableAssigns
<1> QED
    BY <1>4, <1>5 DEF Leave

\* Parked requests, time and the window's end.
LEMMA StepKeepsGroup == SoundGroup /\ [Next]_vars => SoundGroup'
<1> SUFFICES ASSUME SoundGroup, [Next]_vars PROVE SoundGroup'
    OBVIOUS
<1> DEFINE Rest == UNCHANGED <<group, stale, gone_stale>>
<1>a. TypeOK /\ ClosedGroupIsLed /\ AssignmentsFresh /\ StableIsPlanned /\ OnlyStableAssigns
    BY DEF SoundGroup, GroupInv
<1>b. ASSUME Rest, client' \in [Clients -> ClientStates] PROVE SoundGroup'
    BY <1>a, <1>b DEF SoundGroup, GroupInv, TypeOK, ClosedGroupIsLed, AssignmentsFresh,
       StableIsPlanned, OnlyStableAssigns, ClientStates, group
<1>1. ASSUME NEW c \in Clients, JoinReturns(c) PROVE SoundGroup'
    BY <1>1, <1>a, <1>b, ToldSpec DEF JoinReturns
<1>2. ASSUME NEW c \in Clients, JoinCloses(c) PROVE SoundGroup'
    <2>1. /\ state # "Stable" /\ state' = "CompletingRebalance" /\ leader' = FirstMember(members)
          /\ UNCHANGED <<generation, members, assignment, deadline, member_seq, stale, gone_stale>>
        BY <1>2 DEF JoinCloses
    <2>2. client' \in [Clients -> ClientStates]
        BY <1>2, <1>a, ToldSpec DEF JoinCloses
    <2>3. leader' \in Ids \cup {NoMember} /\ (members # {} => leader' \in members)
        BY <1>a, <2>1, FirstMemberIn DEF TypeOK
    <2>4. TypeOK'
        BY <1>a, <2>1, <2>2, <2>3 DEF TypeOK, ClientStates, States
    <2> QED
        BY <1>a, <2>1, <2>3, <2>4 DEF SoundGroup, GroupInv, ClosedGroupIsLed, AssignmentsFresh,
           StableIsPlanned, OnlyStableAssigns
<1>3. ASSUME NEW c \in Clients, SyncReturns(c) PROVE SoundGroup'
    <2>1. ASSUME client[c].id \in members
          PROVE  [client[c] EXCEPT !.phase = "assigned", !.plan = assignment[client[c].id]] \in ClientStates
        BY <2>1, <1>a, ToldSpec DEF TypeOK, ClientStates, Phases
    <2>2. client' \in [Clients -> ClientStates]
        BY <1>3, <1>a, <2>1, ToldSpec DEF SyncReturns
    <2> QED
        BY <1>3, <1>b, <2>2 DEF SyncReturns
<1>4. ASSUME NEW c \in Clients, SyncTimesOut(c) PROVE SoundGroup'
    BY <1>4, <1>a, <1>b, ToldSpec DEF SyncTimesOut
<1>5. CASE DeadlinePasses
    BY <1>5, <1>a DEF DeadlinePasses, SoundGroup, GroupInv, TypeOK, ClosedGroupIsLed,
       AssignmentsFresh, StableIsPlanned, OnlyStableAssigns
<1>6. ASSUME NEW m \in Ids, SessionGoesStale(m) PROVE SoundGroup'
    <2>1. gone_stale' \in 0..MaxStale
        BY <1>6, <1>a, GroupAssumption DEF SessionGoesStale, TypeOK
    <2> QED
        BY <1>6, <1>a, <2>1 DEF SessionGoesStale, SoundGroup, GroupInv, TypeOK, ClosedGroupIsLed,
           AssignmentsFresh, StableIsPlanned, OnlyStableAssigns, group
<1>7. CASE UNCHANGED vars
    BY <1>7, <1>a, <1>b DEF vars, TypeOK, ClientStates
<1> QED
    BY <1>1, <1>2, <1>3, <1>4, <1>5, <1>6, <1>7, JoinKeepsGroup, SyncKeepsGroup,
       HeartbeatKeepsGroup, LeaveKeepsGroup DEF Next

\* For any number of consumers, rebalances and expired sessions, a closed group
\* is led by one of its members, no assignment outlives its generation, and a
\* stable group has planned for every member (register_member, join, sync,
\* heartbeat, leave, expire_stale).
THEOREM GroupAlwaysSound == Spec => []GroupInv
<1>1. Init => SoundGroup
    BY GroupInitInv DEF CoordinatorInv, SoundGroup
<1>2. SoundGroup => GroupInv
    BY DEF SoundGroup
<1> QED
    BY <1>1, <1>2, StepKeepsGroup, PTL DEF Spec

-----------------------------------------------------------------------------
(* The plans.                                                              *)

\* A request that changes no membership and gives no id away keeps the ids apart.
LEMMA SameMembersAgree ==
    ASSUME TypeOK, ClientsAgree, NEW c \in Clients, NEW r \in ClientStates, Tell(c, r),
           UNCHANGED <<members, stale, member_seq>>,
           r.id \in {client[c].id, NoMember},
           r.phase = "assigned" => r.id # NoMember
    PROVE  ClientsAgree'
<1>1. client \in [Clients -> ClientStates]
    BY DEF TypeOK, ClientStates
<1>2. /\ client'[c] = r
      /\ \A d \in Clients : d # c => client'[d] = client[d]
      /\ \A d \in Clients : client'[d].id \in {client[d].id, NoMember}
    BY <1>1 DEF Tell
<1>3. \A d \in Clients : client'[d].id # NoMember =>
         client'[d].id \in members' /\ client'[d].id <= member_seq'
    BY <1>2 DEF ClientsAgree
<1>4. ASSUME NEW a \in Clients, NEW b \in Clients, client'[a].id = client'[b].id, a # b
      PROVE  client'[a].id = NoMember
    BY <1>2, <1>4 DEF ClientsAgree
<1>5. \A d \in Clients : client'[d].phase = "assigned" => client'[d].id # NoMember
    BY <1>2 DEF ClientsAgree
<1> QED
    BY <1>3, <1>4, <1>5 DEF ClientsAgree

\* A request that only tells one consumer something, not a plan, and leaves
\* the group alone keeps the plans.
LEMMA TellKeepsPlans ==
    ASSUME SoundGroup, PlanInv, NEW c \in Clients, NEW r \in ClientStates, Tell(c, r),
           UNCHANGED <<group, stale, gone_stale>>,
           r.id \in {client[c].id, NoMember},
           r.phase # "assigned" \/ r = client[c],
           r.generation <= generation
    PROVE  PlanInv'
<1>1. TypeOK /\ client \in [Clients -> ClientStates]
    BY DEF SoundGroup, GroupInv, TypeOK, ClientStates
<1>2. client' = [client EXCEPT ![c] = r]
    BY DEF Tell
<1>3. UNCHANGED <<state, generation, leader, members, assignment, member_seq, stale, gone_stale>>
    BY DEF group
<1>4. \A d \in Clients :
         /\ d # c => client'[d] = client[d]
         /\ client'[d].phase = "assigned" => client'[d] = client[d]
    BY <1>1, <1>2
<1>5. OnePlanPerGeneration'
    <2> SUFFICES ASSUME gone_stale = 0, NEW a \in Clients, NEW b \in Clients,
                        client'[a].phase = "assigned", client'[b].phase = "assigned",
                        client'[a].generation = client'[b].generation
                 PROVE  client'[a].plan = client'[b].plan
        BY <1>3 DEF OnePlanPerGeneration
    <2>1. client'[a] = client[a] /\ client'[b] = client[b]
        BY <1>4
    <2> QED
        BY <2>1 DEF PlanInv, OnePlanPerGeneration
<1>6. ASSUME gone_stale' = 0 PROVE ClientsAgree'
    <2>1. ClientsAgree
        BY <1>3, <1>6 DEF PlanInv
    <2>2. r.phase = "assigned" => r.id # NoMember
        BY <2>1 DEF ClientsAgree
    <2> QED
        BY <1>1, <1>3, <2>1, <2>2, SameMembersAgree
<1>7. ASSUME gone_stale' = 0 PROVE PlansAgree'
    <2>1. PlansAgree
        BY <1>3, <1>7 DEF PlanInv
    <2>2. \A d \in Clients : client'[d].generation <= generation'
        BY <1>1, <1>2, <1>3, <1>4, <2>1 DEF PlansAgree
    <2>3. ASSUME NEW d \in Clients, client'[d].phase = "assigned", client'[d].generation = generation'
          PROVE  /\ state' = "Stable"
                 /\ client'[d].plan = [generation |-> generation', planner |-> leader']
        <3>1. client'[d] = client[d]
            BY <1>4, <2>3
        <3> QED
            BY <1>3, <2>1, <2>3, <3>1 DEF PlansAgree
    <2> QED
        BY <1>3, <2>1, <2>2, <2>3 DEF PlansAgree
<1> QED
    BY <1>5, <1>6, <1>7 DEF PlanInv

\* A request that opens, closes or abandons a window leaves no plan of the
\* generation that follows.
LEMMA WindowKeepsPlans ==
    ASSUME SoundGroup, SoundGroup', PlanInv, NEW c \in Clients, NEW r \in ClientStates, Tell(c, r),
           gone_stale' = gone_stale, state' # "Stable", generation <= generation',
           r.phase # "assigned", r.generation <= generation',
           \/ generation < generation'
           \/ state # "Stable"
           \/ \A d \in Clients : d # c => client[d].phase # "assigned"
    PROVE  OnePlanPerGeneration' /\ (gone_stale' = 0 => PlansAgree')
<1>1. /\ client \in [Clients -> ClientStates] /\ generation \in Nat /\ generation' \in Nat
      /\ \A d \in Clients : client[d].generation \in Nat
    BY GroupAssumption DEF SoundGroup, GroupInv, TypeOK, ClientStates
<1>2. /\ client'[c] = r
      /\ \A d \in Clients : d # c => client'[d] = client[d]
      /\ \A d \in Clients : client'[d].phase = "assigned" => d # c
    BY <1>1 DEF Tell
<1>3. OnePlanPerGeneration'
    <2> SUFFICES ASSUME gone_stale = 0, NEW a \in Clients, NEW b \in Clients,
                        client'[a].phase = "assigned", client'[b].phase = "assigned",
                        client'[a].generation = client'[b].generation
                 PROVE  client'[a].plan = client'[b].plan
        BY DEF OnePlanPerGeneration
    <2>1. client'[a] = client[a] /\ client'[b] = client[b]
        BY <1>2
    <2> QED
        BY <2>1 DEF PlanInv, OnePlanPerGeneration
<1>4. ASSUME gone_stale' = 0 PROVE PlansAgree'
    <2>1. PlansAgree
        BY <1>4 DEF PlanInv
    <2>2. \A m \in Ids : assignment'[m] = Unassigned
        BY DEF SoundGroup, OnlyStableAssigns
    <2>3. \A d \in Clients : client'[d].generation <= generation'
        BY <1>1, <1>2, <2>1 DEF PlansAgree
    <2>4. ASSUME NEW d \in Clients, client'[d].phase = "assigned", client'[d].generation = generation'
          PROVE  FALSE
        <3>1. d # c /\ client'[d] = client[d]
            BY <1>2, <2>4
        <3>2. client[d].phase = "assigned" /\ client[d].generation = generation'
            BY <2>4, <3>1
        <3>3. generation' = generation
            BY <1>1, <2>1, <3>2 DEF PlansAgree
        <3>4. state = "Stable"
            BY <2>1, <3>2, <3>3 DEF PlansAgree
        <3> QED
            BY <1>1, <3>1, <3>2, <3>3, <3>4
    <2> QED
        BY <2>2, <2>3, <2>4 DEF PlansAgree
<1> QED
    BY <1>3, <1>4

\* JoinGroup hands out an id nobody has.
LEMMA JoinKeepsPlans ==
    ASSUME SoundGroup, PlanInv, NEW c \in Clients, Join(c)
    PROVE  PlanInv'
<1> DEFINE fresh == client[c].id = NoMember
           id == IF fresh THEN member_seq + 1 ELSE client[c].id
           r == [Newcomer EXCEPT !.phase = "joining", !.id = id]
<1>1. TypeOK /\ ClosedGroupIsLed /\ SoundGroup'
    BY JoinKeepsGroup DEF SoundGroup, GroupInv
<1>2. /\ id \in Ids /\ members' = Survivors \cup {id}
      /\ member_seq' = IF fresh THEN id ELSE member_seq
      /\ stale' = {} /\ gone_stale' = gone_stale /\ Tell(c, r)
    BY DEF Join
<1>3. state' = "PreparingRebalance"
    BY DEF Join, WindowOpen
<1>4. r \in ClientStates /\ r.phase = "joining" /\ r.id = id /\ r.generation = 0
    BY <1>1, <1>2, ToldSpec DEF ClientStates, Phases, Newcomer
<1>5. generation \in Nat /\ generation' \in Nat /\ member_seq \in Nat /\ id \in Nat \ {0}
    BY <1>1, <1>2, GroupAssumption DEF SoundGroup, GroupInv, TypeOK, Ids
<1>6. \/ generation' = generation + 1
      \/ generation' = generation /\ Expired.state = "PreparingRebalance"
    BY DEF Join, WindowOpen
<1>7. generation < generation' \/ state # "Stable"
    BY <1>1, <1>5, <1>6, ExpiredSpec
<1>8. OnePlanPerGeneration' /\ (gone_stale' = 0 => PlansAgree')
    <2>1. /\ state' # "Stable" /\ generation <= generation'
          /\ r.phase # "assigned" /\ r.generation <= generation'
        BY <1>3, <1>4, <1>5, <1>6
    <2>2. r \in ClientStates /\ Tell(c, r) /\ gone_stale' = gone_stale
        BY <1>2, <1>4
    <2> HIDE DEF r
    <2> QED
        BY <1>1, <1>7, <2>1, <2>2, WindowKeepsPlans
<1>9. ASSUME gone_stale' = 0 PROVE ClientsAgree'
    <2>1. ClientsAgree /\ Survivors = members
        BY <1>1, <1>2, <1>9, ExpiredSpec DEF PlanInv, ClientsAgree
    <2>2. client \in [Clients -> ClientStates] /\ \A d \in Clients : client[d].id \in Nat
        BY <1>1, GroupAssumption DEF TypeOK, ClientStates, Ids, NoMember
    <2>3. client'[c] = r /\ \A d \in Clients : d # c => client'[d] = client[d]
        BY <1>2, <2>2 DEF Tell
    <2>4. member_seq <= member_seq' /\ id <= member_seq' /\ member_seq' \in Nat
        BY <1>2, <1>5, <2>1 DEF ClientsAgree
    <2>5. ASSUME NEW d \in Clients, d # c PROVE client[d].id # id
        <3>1. CASE fresh
            BY <1>5, <2>1, <2>2, <2>5, <3>1 DEF ClientsAgree, NoMember
        <3>2. CASE ~ fresh
            BY <2>1, <2>5, <3>2 DEF ClientsAgree
        <3> QED
            BY <3>1, <3>2
    <2>6. ASSUME NEW d \in Clients, client'[d].id # NoMember
          PROVE  client'[d].id \in members' /\ client'[d].id <= member_seq'
        <3>1. CASE d = c
            BY <1>2, <1>4, <2>3, <2>4, <3>1
        <3>2. CASE d # c
            <4>1. client'[d] = client[d] /\ client[d].id \in members /\ client[d].id <= member_seq
                BY <2>1, <2>3, <2>6, <3>2 DEF ClientsAgree
            <4> QED
                BY <1>2, <1>5, <2>1, <2>2, <2>4, <4>1
        <3> QED
            BY <3>1, <3>2
    <2>7. ASSUME NEW a \in Clients, NEW b \in Clients, client'[a].id = client'[b].id, a # b
          PROVE  client'[a].id = NoMember
        <3>1. CASE a # c /\ b # c
            BY <2>1, <2>3, <2>7, <3>1 DEF ClientsAgree
        <3>2. CASE a = c
            <4>1. client'[a].id = id /\ client'[b].id = client[b].id
                BY <1>4, <2>3, <2>7, <3>2
            <4> QED
                BY <2>5, <2>7, <3>2, <4>1
        <3>3. CASE b = c
            <4>1. client'[b].id = id /\ client'[a].id = client[a].id
                BY <1>4, <2>3, <2>7, <3>3
            <4> QED
                BY <2>5, <2>7, <3>3, <4>1
        <3> QED
            BY <3>1, <3>2, <3>3
    <2>8. \A d \in Clients : client'[d].phase = "assigned" => client'[d].id # NoMember
        BY <1>4, <2>1, <2>3 DEF ClientsAgree
    <2> QED
        BY <1>2, <2>6, <2>7, <2>8 DEF ClientsAgree
<1> QED
    BY <1>8, <1>9 DEF PlanInv


\* The join that closes the window makes a leader; nobody has a plan yet.
LEMMA CloseKeepsPlans ==
    ASSUME SoundGroup, SoundGroup', PlanInv, NEW c \in Clients, JoinCloses(c)
    PROVE  PlanInv'
<1> DEFINE r == JoinOutcome(c)
<1>1. TypeOK
    BY DEF SoundGroup, GroupInv
<1>2. /\ state # "Stable" /\ state' # "Stable" /\ Tell(c, r)
      /\ UNCHANGED <<generation, members, stale, member_seq, gone_stale>>
    BY DEF JoinCloses
<1>3. r \in ClientStates /\ r.id = client[c].id /\ r.phase = "joined" /\ r.generation = generation
    BY <1>1, ToldSpec DEF JoinOutcome, Newcomer
<1>4. generation \in Nat
    BY <1>1, GroupAssumption DEF TypeOK
<1> HIDE DEF r
<1>5. generation <= generation' /\ r.generation <= generation' /\ r.phase # "assigned"
    BY <1>2, <1>3, <1>4
<1>6. OnePlanPerGeneration' /\ (gone_stale' = 0 => PlansAgree')
    BY <1>2, <1>3, <1>5, WindowKeepsPlans
<1>7. gone_stale' = 0 => ClientsAgree'
    BY <1>1, <1>2, <1>3, <1>5, SameMembersAgree DEF PlanInv
<1> QED
    BY <1>6, <1>7 DEF PlanInv

\* LeaveGroup by the last member leaves nobody with a plan; by another, it
\* starts a generation.
LEMMA LeaveKeepsPlans ==
    ASSUME SoundGroup, SoundGroup', PlanInv, NEW c \in Clients, Leave(c)
    PROVE  PlanInv'
<1> DEFINE id == client[c].id
           rest == members \ {id}
           r == [Newcomer EXCEPT !.phase = "left"]
<1>1. TypeOK /\ generation \in Nat /\ NoMember \notin members
    BY GroupAssumption DEF SoundGroup, GroupInv, TypeOK, Ids, NoMember
<1>2. Tell(c, r) /\ gone_stale' = gone_stale
    BY DEF Leave
<1>3. r \in ClientStates /\ r.id = NoMember /\ r.phase = "left" /\ r.generation = 0
    BY <1>1, ToldSpec DEF ClientStates, Phases, Newcomer
<1>4. CASE id \notin members
    <2>1. UNCHANGED <<group, stale, gone_stale>>
        BY <1>2, <1>4 DEF Leave
    <2> HIDE DEF r
    <2> QED
        BY <1>1, <1>2, <1>3, <2>1, TellKeepsPlans
<1>5. CASE id \in members
    <2>1. /\ members' = rest /\ stale' = stale \ {id} /\ member_seq' = member_seq
          /\ state' # "Stable"
          /\ IF rest = {} THEN generation' = generation ELSE generation' = generation + 1
        BY <1>5 DEF Leave
    <2>2. generation <= generation' /\ r.generation <= generation' /\ r.phase # "assigned"
        BY <1>1, <1>3, <2>1
    <2> HIDE DEF r
    <2>3. client \in [Clients -> ClientStates]
        BY <1>1 DEF TypeOK, ClientStates
    <2>4. client'[c] = r /\ \A d \in Clients : d # c => client'[d] = client[d]
        BY <1>2, <2>3 DEF Tell
    <2>5. CASE gone_stale = 0
        <3>1. ClientsAgree
            BY <2>5 DEF PlanInv
        <3>2. ASSUME NEW d \in Clients, d # c, client[d].id # NoMember PROVE client[d].id \in rest
            BY <3>1, <3>2 DEF ClientsAgree
        <3>3. generation < generation' \/ \A d \in Clients : d # c => client[d].phase # "assigned"
            BY <1>1, <2>1, <3>1, <3>2 DEF ClientsAgree
        <3>4. OnePlanPerGeneration' /\ (gone_stale' = 0 => PlansAgree')
            BY <1>2, <1>3, <2>1, <2>2, <3>3, WindowKeepsPlans
        <3>5. \A d \in Clients : client'[d].id # NoMember =>
                 client'[d].id \in members' /\ client'[d].id <= member_seq'
            BY <1>3, <2>1, <2>4, <3>1, <3>2 DEF ClientsAgree
        <3>6. ASSUME NEW a \in Clients, NEW b \in Clients, client'[a].id = client'[b].id, a # b
              PROVE  client'[a].id = NoMember
            BY <1>3, <2>4, <3>1, <3>6 DEF ClientsAgree
        <3>7. \A d \in Clients : client'[d].phase = "assigned" => client'[d].id # NoMember
            BY <2>2, <2>4, <3>1 DEF ClientsAgree
        <3>8. ClientsAgree'
            BY <2>1, <3>1, <3>5, <3>6, <3>7 DEF ClientsAgree
        <3> QED
            BY <3>4, <3>8 DEF PlanInv
    <2>6. CASE gone_stale # 0
        BY <1>2, <2>6 DEF PlanInv, OnePlanPerGeneration
    <2> QED
        BY <2>5, <2>6
<1> QED
    BY <1>4, <1>5


\* Only the leader in office plans, and it plans alike whenever it does.
LEMMA SyncKeepsPlans ==
    ASSUME SoundGroup, PlanInv, NEW c \in Clients, NEW sends \in BOOLEAN, Sync(c, sends)
    PROVE  PlanInv'
<1> DEFINE me == client[c]
           plan == [generation |-> generation, planner |-> me.id]
<1>1. TypeOK /\ generation \in Nat /\ client \in [Clients -> ClientStates] /\ me.phase = "joined"
    BY GroupAssumption DEF SoundGroup, GroupInv, TypeOK, ClientStates, Sync
<1>2. PICK r \in {Forgets, Rejoins(c), [me EXCEPT !.phase = "syncing"]} : Tell(c, r)
    BY DEF Sync
<1>3. /\ r \in ClientStates /\ r.id \in {me.id, NoMember} /\ r.phase # "assigned"
      /\ r.generation \in {0, me.generation}
    <2>1. CASE r = Forgets
        BY <1>1, <2>1, ToldSpec DEF Forgets, Newcomer
    <2>2. CASE r = Rejoins(c)
        BY <1>1, <2>2, ToldSpec DEF Rejoins, Newcomer
    <2>3. CASE r = [me EXCEPT !.phase = "syncing"]
        BY <1>1, <2>3, ToldSpec DEF ClientStates, Phases
    <2> QED
        BY <1>2, <2>1, <2>2, <2>3
<1>4. UNCHANGED <<generation, leader, members, member_seq, stale, gone_stale>>
    BY DEF Sync
<1>5. CASE gone_stale # 0
    BY <1>4, <1>5 DEF PlanInv, OnePlanPerGeneration
<1>6. CASE gone_stale = 0
    <2>1. ClientsAgree /\ PlansAgree /\ OnePlanPerGeneration
        BY <1>6 DEF PlanInv
    <2>2. /\ client'[c] = r
          /\ \A d \in Clients : d # c => client'[d] = client[d]
          /\ \A d \in Clients : client'[d].phase = "assigned" => client'[d] = client[d]
        BY <1>1, <1>2, <1>3 DEF Tell
    <2>3. ClientsAgree'
        BY <1>1, <1>2, <1>3, <1>4, <2>1, SameMembersAgree
    <2>4. \A d \in Clients : client'[d].generation <= generation'
        BY <1>1, <1>3, <1>4, <2>1, <2>2 DEF PlansAgree
    <2>5. /\ \A m \in Ids : assignment'[m] # Unassigned => assignment'[m].planner = leader'
          /\ state = "Stable" => state' = "Stable"
        <3>1. CASE UNCHANGED <<state, assignment, deadline>>
            BY <1>4, <2>1, <3>1 DEF PlansAgree
        <3>2. CASE /\ leader = me.id /\ state' = "Stable"
                   /\ assignment' = [m \in Ids |-> IF m \in members THEN plan ELSE Unassigned]
            BY <1>4, <3>2
        <3> QED
            BY <3>1, <3>2 DEF Sync, Assigns
    <2>6. ASSUME NEW d \in Clients, client'[d].phase = "assigned", client'[d].generation = generation'
          PROVE  /\ state' = "Stable"
                 /\ client'[d].plan = [generation |-> generation', planner |-> leader']
        <3>1. client'[d] = client[d]
            BY <2>2, <2>6
        <3> QED
            BY <1>4, <2>1, <2>5, <2>6, <3>1 DEF PlansAgree
    <2>7. OnePlanPerGeneration'
        <3> SUFFICES ASSUME NEW a \in Clients, NEW b \in Clients,
                            client'[a].phase = "assigned", client'[b].phase = "assigned",
                            client'[a].generation = client'[b].generation
                     PROVE  client'[a].plan = client'[b].plan
            BY DEF OnePlanPerGeneration
        <3>1. client'[a] = client[a] /\ client'[b] = client[b]
            BY <2>2
        <3> QED
            BY <1>6, <2>1, <3>1 DEF OnePlanPerGeneration
    <2> QED
        BY <2>3, <2>4, <2>5, <2>6, <2>7 DEF PlanInv, PlansAgree
<1> QED
    BY <1>5, <1>6

\* A parked SyncGroup returns with the plan of the leader in office, or without one.
LEMMA ReturnKeepsPlans ==
    ASSUME SoundGroup, PlanInv, NEW c \in Clients, SyncReturns(c)
    PROVE  PlanInv'
<1> DEFINE me == client[c]
           plan == assignment[me.id]
           r == [me EXCEPT !.phase = "assigned", !.plan = plan]
<1>1. TypeOK /\ generation \in Nat /\ client \in [Clients -> ClientStates]
    BY GroupAssumption DEF SoundGroup, GroupInv, TypeOK, ClientStates
<1>2. UNCHANGED <<group, stale, gone_stale>>
    BY DEF SyncReturns
<1>3. CASE Tell(c, Rejoins(c)) \/ Tell(c, Forgets)
    <2>1. /\ Rejoins(c) \in ClientStates /\ Rejoins(c).id = me.id
          /\ Rejoins(c).phase = "out" /\ Rejoins(c).generation = 0
        BY <1>1, ToldSpec DEF Rejoins, Newcomer
    <2>2. /\ Forgets \in ClientStates /\ Forgets.id = NoMember
          /\ Forgets.phase = "out" /\ Forgets.generation = 0
        BY <1>1, ToldSpec DEF Forgets, Newcomer
    <2> QED
        BY <1>1, <1>2, <1>3, <2>1, <2>2, TellKeepsPlans
<1>4. CASE /\ me.generation = generation /\ me.id \in members /\ Tell(c, r)
           /\ plan # Unassigned \/ state = "Stable"
    <2>1. CASE gone_stale # 0
        BY <1>2, <2>1 DEF PlanInv, OnePlanPerGeneration
    <2>2. CASE gone_stale = 0
        <3>1. ClientsAgree /\ PlansAgree /\ OnePlanPerGeneration
            BY <2>2 DEF PlanInv
        <3>2. me.id \in Ids /\ me.id # NoMember
            BY <1>1, <1>4, GroupAssumption DEF TypeOK, Ids, NoMember
        <3>3. state = "Stable" /\ plan # Unassigned
            BY <1>4, <3>2 DEF SoundGroup, GroupInv, OnlyStableAssigns, StableIsPlanned
        <3>4. plan \in Plans /\ plan.generation = generation /\ plan.planner = leader
            BY <1>1, <3>1, <3>2, <3>3 DEF SoundGroup, GroupInv, TypeOK, AssignmentsFresh, PlansAgree
        <3>5. plan = [generation |-> generation, planner |-> leader]
            BY <3>4 DEF Plans
        <3>6. /\ r \in ClientStates /\ r.id = me.id /\ r.phase = "assigned"
              /\ r.generation = generation /\ r.plan = plan
            BY <1>1, <1>4, <3>4, ToldSpec DEF ClientStates, Phases
        <3> HIDE DEF r, plan
        <3>7. client'[c] = r /\ \A d \in Clients : d # c => client'[d] = client[d]
            BY <1>1, <1>4 DEF Tell
        <3>8. ClientsAgree'
            BY <1>1, <1>2, <1>4, <3>1, <3>2, <3>6, SameMembersAgree DEF group
        <3>9. UNCHANGED <<generation, leader, state, assignment>>
            BY <1>2 DEF group
        <3>10. \A d \in Clients : client'[d].generation <= generation'
            BY <1>1, <3>1, <3>6, <3>7, <3>9 DEF PlansAgree
        <3>11. ASSUME NEW d \in Clients, client'[d].phase = "assigned", client'[d].generation = generation
               PROVE  client'[d].plan = [generation |-> generation, planner |-> leader]
            BY <3>1, <3>5, <3>6, <3>7, <3>11 DEF PlansAgree
        <3>12. OnePlanPerGeneration'
            <4> SUFFICES ASSUME NEW a \in Clients, NEW b \in Clients,
                                client'[a].phase = "assigned", client'[b].phase = "assigned",
                                client'[a].generation = client'[b].generation
                         PROVE  client'[a].plan = client'[b].plan
                BY DEF OnePlanPerGeneration
            <4>1. CASE client'[a].generation = generation
                BY <3>11, <4>1
            <4>2. CASE client'[a].generation # generation
                <5>1. a # c /\ b # c
                    BY <3>6, <3>7, <4>2
                <5>2. client'[a] = client[a] /\ client'[b] = client[b]
                    BY <3>7, <5>1
                <5> QED
                    BY <2>2, <3>1, <5>2 DEF OnePlanPerGeneration
            <4> QED
                BY <4>1, <4>2
        <3> QED
            BY <3>1, <3>3, <3>8, <3>9, <3>10, <3>11, <3>12 DEF PlanInv, PlansAgree
    <2> QED
        BY <2>1, <2>2
<1> QED
    BY <1>3, <1>4 DEF SyncReturns


\* Without a stale session a heartbeat leaves the group as it is.
LEMMA HeartbeatKeepsPlans ==
    ASSUME SoundGroup, PlanInv, NEW c \in Clients, Heartbeat(c)
    PROVE  PlanInv'
<1> DEFINE me == client[c]
<1>1. TypeOK /\ ClosedGroupIsLed /\ AssignmentsFresh /\ generation \in Nat
    BY GroupAssumption DEF SoundGroup, GroupInv, TypeOK
<1>2. gone_stale' = gone_stale /\ me.phase = "assigned"
    BY DEF Heartbeat
<1>3. CASE gone_stale # 0
    BY <1>2, <1>3 DEF PlanInv, OnePlanPerGeneration
<1>4. CASE gone_stale = 0
    <2>1. ClientsAgree /\ PlansAgree
        BY <1>4 DEF PlanInv
    <2>2. Survivors = members /\ Expired.state = state /\ Expired.leader = leader /\ stale = {}
        BY <1>1, <2>1, ExpiredSpec DEF ClientsAgree
    <2>3. assignment' = assignment
        BY <1>1, <2>2 DEF Heartbeat, KeepAssignments, AssignmentsFresh, TypeOK
    <2>4. UNCHANGED <<group, stale, gone_stale>>
        BY <2>2, <2>3 DEF Heartbeat, group
    <2>5. PICK r \in {Forgets, Rejoins(c), me} : Tell(c, r)
        BY DEF Heartbeat
    <2>6. /\ r \in ClientStates /\ r.id \in {me.id, NoMember}
          /\ r.phase # "assigned" \/ r = me
          /\ r.generation <= generation
        <3>1. CASE r = Forgets
            BY <1>1, <3>1, ToldSpec DEF Forgets, Newcomer
        <3>2. CASE r = Rejoins(c)
            BY <1>1, <3>2, ToldSpec DEF Rejoins, Newcomer
        <3>3. CASE r = me
            BY <1>1, <2>1, <3>3, ToldSpec DEF PlansAgree
        <3> QED
            BY <2>5, <3>1, <3>2, <3>3
    <2> QED
        BY <2>4, <2>5, <2>6, TellKeepsPlans
<1> QED
    BY <1>3, <1>4

\* Every step keeps the plans.
LEMMA StepKeepsPlans == SoundGroup /\ PlanInv /\ [Next]_vars => PlanInv'
<1> SUFFICES ASSUME SoundGroup, PlanInv, [Next]_vars PROVE PlanInv'
    OBVIOUS
<1>a. TypeOK /\ SoundGroup' /\ generation \in Nat
    BY StepKeepsGroup, GroupAssumption DEF SoundGroup, GroupInv, TypeOK
<1>1. ASSUME NEW c \in Clients, JoinReturns(c) PROVE PlanInv'
    <2>1. /\ JoinOutcome(c) \in ClientStates /\ JoinOutcome(c).id = client[c].id
          /\ JoinOutcome(c).phase = "joined" /\ JoinOutcome(c).generation = generation
        BY <1>a, ToldSpec DEF JoinOutcome, Newcomer
    <2> QED
        BY <1>1, <1>a, <2>1, TellKeepsPlans DEF JoinReturns
<1>2. ASSUME NEW c \in Clients, SyncTimesOut(c) PROVE PlanInv'
    <2>1. /\ Rejoins(c) \in ClientStates /\ Rejoins(c).id = client[c].id
          /\ Rejoins(c).phase = "out" /\ Rejoins(c).generation = 0
        BY <1>a, ToldSpec DEF Rejoins, Newcomer
    <2> QED
        BY <1>2, <1>a, <2>1, TellKeepsPlans DEF SyncTimesOut
<1>3. CASE DeadlinePasses
    BY <1>3 DEF DeadlinePasses, PlanInv, OnePlanPerGeneration, ClientsAgree, PlansAgree
<1>4. ASSUME NEW m \in Ids, SessionGoesStale(m) PROVE PlanInv'
    <2>1. gone_stale' # 0
        BY <1>4, <1>a DEF SessionGoesStale, TypeOK
    <2> QED
        BY <2>1 DEF PlanInv, OnePlanPerGeneration
<1>5. CASE UNCHANGED vars
    BY <1>5 DEF vars, group, PlanInv, OnePlanPerGeneration, ClientsAgree, PlansAgree
<1> QED
    BY <1>a, <1>1, <1>2, <1>3, <1>4, <1>5, JoinKeepsPlans, CloseKeepsPlans, SyncKeepsPlans,
       ReturnKeepsPlans, HeartbeatKeepsPlans, LeaveKeepsPlans DEF Next

\* For any number of consumers and rebalances, as long as no session expires,
\* the consumers that SyncGroup answered for one generation hold one plan
\* (join, sync, leave).
THEOREM OnePlanAlways == Spec => []OnePlanPerGeneration
<1>1. Init => SoundGroup /\ PlanInv
    BY GroupInitInv DEF CoordinatorInv, SoundGroup
<1>2. SoundGroup /\ PlanInv /\ [Next]_vars => (SoundGroup /\ PlanInv)'
    BY StepKeepsGroup, StepKeepsPlans
<1>3. SoundGroup /\ PlanInv => OnePlanPerGeneration
    BY DEF PlanInv
<1> QED
    BY <1>1, <1>2, <1>3, PTL DEF Spec
=============================================================================
