---------------------------- MODULE AgentRegistry ----------------------------
(***************************************************************************)
(* What enrollment and check-in of endpoint agents promise, without calls, *)
(* lost answers, crashes and repetitions.  A token enlists no more agents  *)
(* than it has uses; the credential of an agent is on one device at most;  *)
(* and an observation is stored once, under the key it is posted with,     *)
(* whoever posts it again, and every answer is about what is stored.       *)
(***************************************************************************)
EXTENDS Naturals, FiniteSets

CONSTANTS
    Devices,    \* endpoints
    Exchanges,  \* names of agents
    CheckIns,   \* posts of observations
    Keys,       \* idempotency keys
    MaxUses     \* agents that the token admits

VARIABLES
    agents,         \* agents that were enlisted
    credential,     \* the agent whose credential a device has, if any
    observations,   \* what is stored
    answers         \* what posts were answered

registryVars == <<agents, credential, observations, answers>>

Init ==
    /\ agents = {}
    /\ credential = [d \in Devices |-> {}]
    /\ observations = {}
    /\ answers = {}

Enlist(a) ==
    /\ a \notin agents
    /\ Cardinality(agents) < MaxUses
    /\ agents' = agents \cup {a}
    /\ UNCHANGED <<credential, observations, answers>>

Save(d, a) ==
    /\ a \in agents
    /\ \A c \in Devices \ {d} : a \notin credential[c]
    /\ credential' = [credential EXCEPT ![d] = {a}]
    /\ UNCHANGED <<agents, observations, answers>>

Lose(d) ==
    /\ credential' = [credential EXCEPT ![d] = {}]
    /\ UNCHANGED <<agents, observations, answers>>

\* The first post under a key stores the observation, later ones find it.
CheckIn(c, a, k) ==
    LET stored == {x \in observations : x.agent = a /\ x.key = k}
    IN  /\ a \in agents
        /\ \A y \in answers : y.call # c
        /\ observations' = observations \cup
               {[agent |-> a, key |-> k, received |-> b] : b \in IF stored = {} THEN {c} ELSE {}}
        /\ \E x \in observations' :
              /\ x.agent = a /\ x.key = k
              /\ answers' = answers \cup {[call |-> c, observation |-> x]}
        /\ UNCHANGED <<agents, credential>>

Next ==
    \/ \E a \in Exchanges : Enlist(a)
    \/ \E d \in Devices : Lose(d) \/ \E a \in Exchanges : Save(d, a)
    \/ \E c \in CheckIns, a \in Exchanges, k \in Keys : CheckIn(c, a, k)

Spec == Init /\ [][Next]_registryVars
=============================================================================
