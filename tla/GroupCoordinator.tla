-------------------------- MODULE GroupCoordinator --------------------------
(***************************************************************************)
(* The consumer-group coordinator of datarail-kafka (GroupCoordinator):    *)
(* one group, its members, and the connection threads that park in         *)
(* JoinGroup until the join window closes and in SyncGroup until the       *)
(* leader's assignments arrive.                                            *)
(*                                                                         *)
(* One mutex guards the group, so a request is one action up to the point  *)
(* where it parks and one more when it returns; a parked thread looks at   *)
(* the group again whenever it is woken.  Time is what it makes true: the  *)
(* deadline of the window passes, a session goes stale, a park times out.  *)
(* An assignment is the generation it was made for and the member that     *)
(* made it; the bytes are opaque to the coordinator.                       *)
(***************************************************************************)
EXTENDS Integers, FiniteSets

CONSTANTS
    Clients,        \* consumers
    MaxIds,         \* bound on the member ids handed out
    MaxGeneration,  \* bound on the rebalances
    MaxStale        \* bound on the sessions that go stale

ASSUME GroupAssumption ==
    MaxIds \in Nat /\ MaxGeneration \in Nat /\ MaxStale \in Nat

VARIABLES
    state,          \* Group.state
    generation,     \* Group.generation
    leader,         \* Group.leader
    members,        \* the keys of Group.members
    stale,          \* members without a heartbeat within session_timeout
    assignment,     \* Member.assignment
    deadline,       \* Group.deadline: "none", "open" or "passed"
    member_seq,     \* Group.member_seq
    client,         \* each consumer: its request and what it was told
    gone_stale      \* how many sessions went stale

group == <<state, generation, leader, members, assignment, deadline, member_seq>>
vars == <<group, stale, client, gone_stale>>

Ids == 1..MaxIds
NoMember == 0
Unassigned == [generation |-> 0, planner |-> NoMember]
Plans == [generation : 0..MaxGeneration, planner : Ids \cup {NoMember}]
States == {"Empty", "PreparingRebalance", "CompletingRebalance", "Stable"}

\* out: not in a call and in no group; the other two idle phases hold what
\* JoinGroup (joined) and SyncGroup (assigned) answered.
Phases == {"out", "joining", "joined", "syncing", "assigned", "left"}

\* The shape of the group's and the consumers' state; only members can be stale.
TypeOK ==
    /\ state \in States
    /\ generation \in 0..MaxGeneration
    /\ leader \in Ids \cup {NoMember}
    /\ members \subseteq Ids
    /\ stale \subseteq members
    /\ assignment \in [Ids -> Plans]
    /\ deadline \in {"none", "open", "passed"}
    /\ member_seq \in 0..MaxIds
    /\ client \in [Clients -> [phase : Phases, id : Ids \cup {NoMember},
                               generation : 0..MaxGeneration, plan : Plans]]
    /\ gone_stale \in 0..MaxStale

Newcomer ==
    [phase |-> "out", id |-> NoMember, generation |-> 0, plan |-> Unassigned]

Init ==
    /\ state = "Empty" /\ generation = 0 /\ leader = NoMember
    /\ members = {} /\ stale = {}
    /\ assignment = [m \in Ids |-> Unassigned]
    /\ deadline = "none"
    /\ member_seq = 0
    /\ client = [c \in Clients |-> Newcomer]
    /\ gone_stale = 0

-----------------------------------------------------------------------------
(* What several requests do.                                               *)

\* The first key of the members map.
FirstMember(ms) ==
    IF ms = {} THEN NoMember ELSE CHOOSE m \in ms : \A n \in ms : m <= n

\* The leader once only ms are left: a lost leader is replaced by the first member.
LeaderAmong(ms) == IF leader \in ms \cup {NoMember} THEN leader ELSE FirstMember(ms)

\* expire_stale: who is left, and the state and the leader it leaves behind.
Survivors == members \ stale
Expired ==
    [state  |-> IF Survivors = {} /\ members # {} THEN "Empty" ELSE state,
     leader |-> IF Survivors = members THEN leader ELSE LeaderAmong(Survivors)]

\* The members of ms keep what they were assigned.
KeepAssignments(ms) == [m \in Ids |-> IF m \in ms THEN assignment[m] ELSE Unassigned]

\* Every rebalance starts without assignments.
ClearAssignments(ms) == [m \in Ids |-> Unassigned]

\* A consumer told REBALANCE_IN_PROGRESS or ILLEGAL_GENERATION joins again; one
\* told UNKNOWN_MEMBER_ID does so under a new id.
Tell(c, r) == client' = [client EXCEPT ![c] = r]
Rejoins(c) == [Newcomer EXCEPT !.id = client[c].id]
Forgets == Newcomer

-----------------------------------------------------------------------------
(* JoinGroup.                                                              *)

\* A window is open already: register_member leaves it as it is.
WindowOpen(st) == st = "PreparingRebalance"

\* Bug: only a brand-new group gets a deadline.
FirstDeadline == IF generation = 0 THEN "open" ELSE deadline

\* The deadline of a window that opens.
NewDeadline == "open"

\* register_member, and join up to its park.
Join(c) ==
    LET fresh == client[c].id = NoMember
        id == IF fresh THEN member_seq + 1 ELSE client[c].id
    IN  /\ client[c].phase = "out" /\ id \in Ids
        /\ member_seq' = IF fresh THEN id ELSE member_seq
        /\ members' = Survivors \cup {id}
        /\ stale' = {}
        /\ leader' = Expired.leader
        /\ IF WindowOpen(Expired.state)
           THEN /\ assignment' = KeepAssignments(Survivors \ {id})
                /\ state' = Expired.state
                /\ UNCHANGED <<generation, deadline>>
           ELSE /\ state' = "PreparingRebalance"
                /\ generation < MaxGeneration /\ generation' = generation + 1
                /\ deadline' = NewDeadline
                /\ assignment' = ClearAssignments(members')
        /\ Tell(c, [Newcomer EXCEPT !.phase = "joining", !.id = id])
        /\ UNCHANGED gone_stale

\* What a JoinGroup that returns tells its client; who leads is told too, and
\* only decides whether the client's SyncGroup will carry assignments.
JoinOutcome(c) ==
    [Newcomer EXCEPT !.phase = "joined", !.id = client[c].id, !.generation = generation]

\* A parked join finds the window closed.
JoinReturns(c) ==
    /\ client[c].phase = "joining"
    /\ state \in {"CompletingRebalance", "Stable"}
    /\ Tell(c, JoinOutcome(c))
    /\ UNCHANGED <<group, stale, gone_stale>>

\* A parked join finds the deadline passed and closes the window itself.
JoinCloses(c) ==
    /\ client[c].phase = "joining"
    /\ state \in {"Empty", "PreparingRebalance"} /\ deadline = "passed"
    /\ state' = "CompletingRebalance"
    /\ leader' = FirstMember(members)
    /\ Tell(c, JoinOutcome(c))
    /\ UNCHANGED <<generation, members, assignment, deadline, member_seq, stale, gone_stale>>

-----------------------------------------------------------------------------
(* SyncGroup.                                                              *)

\* Bug: whoever sends assignments is believed.
AnyoneAssigns(c, sends) == sends

\* Only the leader's assignments count; a follower that sends some is ignored.
Assigns(c, sends) == sends /\ leader = client[c].id

\* sync up to its park: refuse, or store the leader's assignments and park.
Sync(c, sends) ==
    LET me == client[c]
        refused == me.id \notin members \/ me.generation # generation
    IN  /\ me.phase = "joined"
        /\ Tell(c, IF me.id \notin members THEN Forgets
                   ELSE IF me.generation # generation THEN Rejoins(c)
                   ELSE [me EXCEPT !.phase = "syncing"])
        /\ IF ~refused /\ Assigns(c, sends)
           THEN /\ assignment' = [m \in Ids |->
                      IF m \in members THEN [generation |-> generation, planner |-> me.id]
                                       ELSE Unassigned]
                /\ state' = "Stable" /\ deadline' = "none"
           ELSE UNCHANGED <<state, assignment, deadline>>
        /\ UNCHANGED <<generation, leader, members, member_seq, stale, gone_stale>>

\* A parked sync returns: a new generation, an assignment, a stable group
\* that has none for it, or an eviction.
SyncReturns(c) ==
    LET me == client[c]
        done(plan) == Tell(c, [me EXCEPT !.phase = "assigned", !.plan = plan])
    IN  /\ me.phase = "syncing"
        /\ \/ me.generation # generation /\ Tell(c, Rejoins(c))
           \/ /\ me.generation = generation /\ me.id \in members
              /\ assignment[me.id] # Unassigned \/ state = "Stable"
              /\ done(assignment[me.id])
           \/ /\ me.generation = generation /\ me.id \notin members
              /\ Tell(c, Forgets)
        /\ UNCHANGED <<group, stale, gone_stale>>

\* The predicate of a parked sync is false: nothing to answer yet.
StillWaiting(c) ==
    /\ client[c].generation = generation /\ client[c].id \in members
    /\ assignment[client[c].id] = Unassigned /\ state # "Stable"

\* A parked sync has waited for its rebalance_timeout.
SyncTimesOut(c) ==
    /\ client[c].phase = "syncing"
    /\ StillWaiting(c)
    /\ Tell(c, Rejoins(c))
    /\ UNCHANGED <<group, stale, gone_stale>>

-----------------------------------------------------------------------------
(* Heartbeat and LeaveGroup.                                               *)

Heartbeat(c) ==
    LET me == client[c]
    IN  /\ me.phase = "assigned"
        /\ members' = Survivors
        /\ stale' = {}
        /\ state' = Expired.state
        /\ leader' = Expired.leader
        /\ assignment' = KeepAssignments(Survivors)
        /\ Tell(c, IF me.id \notin Survivors \/ (me.generation = generation /\ state' = "Empty")
                   THEN Forgets
                   ELSE IF me.generation # generation \/ state' # "Stable" THEN Rejoins(c)
                   ELSE me)
        /\ UNCHANGED <<generation, deadline, member_seq, gone_stale>>

Leave(c) ==
    LET id == client[c].id
        rest == members \ {id}
    IN  /\ client[c].phase \in {"joined", "assigned"}
        /\ Tell(c, [Newcomer EXCEPT !.phase = "left"])
        /\ IF id \notin members THEN UNCHANGED <<group, stale>>
           ELSE /\ members' = rest /\ stale' = stale \ {id}
                /\ assignment' = ClearAssignments(rest)
                /\ IF rest = {}
                   THEN /\ state' = "Empty" /\ leader' = NoMember /\ deadline' = "none"
                        /\ UNCHANGED generation
                   ELSE /\ state' = "PreparingRebalance" /\ deadline' = NewDeadline
                        /\ generation < MaxGeneration /\ generation' = generation + 1
                        /\ leader' = IF leader = id THEN FirstMember(rest) ELSE leader
                /\ UNCHANGED member_seq
        /\ UNCHANGED gone_stale

-----------------------------------------------------------------------------
(* Time.                                                                   *)

\* The join window's deadline passes.
DeadlinePasses ==
    /\ deadline = "open"
    /\ deadline' = "passed"
    /\ UNCHANGED <<state, generation, leader, members, assignment, member_seq, stale, client, gone_stale>>

\* A member's session times out; the next request that looks evicts it.
SessionGoesStale(m) ==
    /\ m \in members \ stale /\ gone_stale < MaxStale
    /\ stale' = stale \cup {m}
    /\ gone_stale' = gone_stale + 1
    /\ UNCHANGED <<group, client>>

Next ==
    \/ \E c \in Clients :
         \/ Join(c) \/ JoinReturns(c) \/ JoinCloses(c)
         \/ (\E sends \in BOOLEAN : Sync(c, sends)) \/ SyncReturns(c) \/ SyncTimesOut(c)
         \/ Heartbeat(c) \/ Leave(c)
    \/ DeadlinePasses
    \/ \E m \in Ids : SessionGoesStale(m)

\* Parked threads wake at the latest when their wait_timeout ends, and the
\* clock goes on.  No consumer owes the coordinator another request.
Fairness ==
    /\ WF_vars(DeadlinePasses)
    /\ \A c \in Clients :
          /\ WF_vars(JoinReturns(c)) /\ WF_vars(JoinCloses(c))
          /\ WF_vars(SyncReturns(c)) /\ WF_vars(SyncTimesOut(c))

Spec == Init /\ [][Next]_vars /\ Fairness

-----------------------------------------------------------------------------
(* Properties.                                                             *)

\* Once a window has closed, the group is led by one of its members, whoever
\* left or was evicted since: someone may still send the assignments.
ClosedGroupIsLed ==
    state \in {"CompletingRebalance", "Stable"} /\ members # {} => leader \in members

\* No assignment outlives its generation: what a SyncGroup could return was
\* stored after the last JoinGroup or LeaveGroup that started a rebalance.
AssignmentsFresh ==
    \A m \in Ids : assignment[m] # Unassigned =>
        m \in members /\ assignment[m].generation = generation

\* A stable group has no member without an assignment: nobody slips in
\* between the leader's list of members and its SyncGroup.
StableIsPlanned ==
    state = "Stable" => \A m \in members : assignment[m] # Unassigned

\* The group between any two steps: a closed group is led by a member, a stable
\* one has planned for all of them, and no assignment is of an earlier generation.
GroupInv == TypeOK /\ ClosedGroupIsLed /\ AssignmentsFresh /\ StableIsPlanned

\* While no session expires, the consumers that SyncGroup answered for one
\* generation work to one plan: no partition has two owners.
OnePlanPerGeneration ==
    gone_stale = 0 =>
        \A c, d \in Clients :
            /\ client[c].phase = "assigned" /\ client[d].phase = "assigned"
            /\ client[c].generation = client[d].generation
            => client[c].plan = client[d].plan

\* A parked SyncGroup returns, whether or not the leader ever sends assignments.
SyncAnswered ==
    \A c \in Clients : client[c].phase = "syncing" ~> client[c].phase # "syncing"

\* A parked JoinGroup returns, unless every member is gone.
JoinAnsweredOrEmpty ==
    \A c \in Clients : client[c].phase = "joining" ~> client[c].phase # "joining" \/ members = {}

\* No request is parked for ever: SyncGroup returns, and JoinGroup does while the
\* group has a member.
ParkedAnswered == SyncAnswered /\ JoinAnsweredOrEmpty
=============================================================================
